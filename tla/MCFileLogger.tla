---------------------------- MODULE MCFileLogger ----------------------------
EXTENDS FileLogger
=============================================================================
