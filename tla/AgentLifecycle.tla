--------------------------- MODULE AgentLifecycle ---------------------------
(***************************************************************************)
(* What doc/state-machine.md promises of an agent, without log, loops or   *)
(* hosts: its state only ever moves along rows of the table.               *)
(***************************************************************************)
EXTENDS Lifecycle

CONSTANT Agents
VARIABLE state

Init == state = [a \in Agents |-> "DEFINED"]

Move(a) ==
  \E r \in Rows : r.from = state[a] /\ state' = [state EXCEPT ![a] = r.to]

\* complete and teardown_ok in one breath, as the scheduler does them.
Finish(a) ==
  \E r1, r2 \in Rows :
    /\ r1.from = state[a] /\ r1.trigger = "complete"
    /\ r2.from = r1.to /\ r2.trigger = "teardown_ok"
    /\ state' = [state EXCEPT ![a] = r2.to]

\* A new process knows no agent: nothing restores the map from the log.
Forget == state' = [a \in Agents |-> "DEFINED"]

\* One process, and a process that may be restarted.
Session == Init /\ [][\E a \in Agents : Move(a) \/ Finish(a)]_state
Spec == Init /\ [][(\E a \in Agents : Move(a)) \/ Forget]_state
=============================================================================
