-------------------------- MODULE MCFailureHandler --------------------------
EXTENDS FailureHandler, TLC

CONSTANTS r1, c1, c2, c3, read, logs

Everything == [action |-> "*", resource |-> "*", notAfter |-> 0]
ReadLogs == [action |-> read, resource |-> logs, notAfter |-> 0]
ReadLogsFor1 == [action |-> read, resource |-> logs, notAfter |-> 1]

MCRootGrants == {{Everything}}
MCRequestGrants == {{ReadLogs}, {ReadLogsFor1}, {Everything, ReadLogsFor1}}
MCDepths == {-1, 0, 1}
MCTtls == {1, 3}

ChildSymmetry == Permutations(Children \ Watched)
=============================================================================
