------------------------------ MODULE MCReplay ------------------------------
EXTENDS Replay

CONSTANTS a1, a2, l1, l2, r1, t1, v1, v2

MCQuotas == {[maxTicks |-> 2, maxToolCalls |-> 1]}
OneAgent == {a1}
MCLoops == {l1, l2}
=============================================================================
