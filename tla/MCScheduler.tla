----------------------------- MODULE MCScheduler -----------------------------
EXTENDS Scheduler, TLC

CONSTANTS a1, a2, l1, l2, t1, missing, v1, v2

TwoAgents == {a1, a2}
OneAgent == {a1}
TwoLoops == {l1, l2}
MCQuotas == {[maxTicks |-> 1, maxToolCalls |-> 1], [maxTicks |-> 3, maxToolCalls |-> 1]}

\* Agents, loops and values are interchangeable: no action or property names one.
Symmetry == Permutations(Agents) \cup Permutations(Loops) \cup Permutations(Values)
=============================================================================
