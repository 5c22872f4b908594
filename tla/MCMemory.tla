------------------------------ MODULE MCMemory ------------------------------
EXTENDS Memory, TLC

CONSTANTS k1, k2, a1, a2, c1, s1, v1, v2, res1

MCActions == {"read", "write"}
ReadAll == [action |-> "read", resource |-> "*", notAfter |-> 0]
AllUntil1 == [action |-> "*", resource |-> res1, notAfter |-> 2]
MCGrantLists == {{ReadAll}, {AllUntil1}}
MCPolicyAnswers == {<< >>, <<"ESCALATE", "ALLOW">>, <<"ESCALATE", "DENY">>}
MCResourceOf == [c \in SharedCells |-> res1]

MCWorkloads == {{"local", "table"}, {"shared"}, {"local", "shared"}, {"scratch"}}
MCMaxCalls ==
  [w \in MCWorkloads |->
     CASE w = {"local", "shared"} -> 5
       [] w = {"shared"} -> 6
       [] OTHER -> 7]

MCSymmetry == Permutations(Kernels) \cup Permutations(Callers)
=============================================================================
