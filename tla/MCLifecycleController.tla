------------------------ MODULE MCLifecycleController ------------------------
EXTENDS LifecycleController

MCPayloads == (Agents \X Rows) \cup OtherEntries
=============================================================================
