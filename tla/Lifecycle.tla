------------------------------ MODULE Lifecycle ------------------------------
(***************************************************************************)
(* The agent lifecycle table of lifecycle/types.ts, as constant            *)
(* definitions shared by every module that moves an agent between states.  *)
(***************************************************************************)

AgentStates ==
  {"DEFINED", "SPAWNED", "ACTIVE", "WAITING", "RESUMABLE", "COMPLETING",
   "FAULTED", "RECOVERING", "TERMINATED"}

TransitionTriggers ==
  {"spawn", "activate", "yield", "await_tool", "resume", "complete", "error",
   "suspend", "timeout", "recover", "abandon", "recovery_success",
   "recovery_exhausted", "expire", "teardown_ok"}

\* The 17 rows [from, trigger, to], in the order of the source.
VALID_TRANSITIONS ==
  { <<"DEFINED", "spawn", "SPAWNED">>,
    <<"SPAWNED", "activate", "ACTIVE">>,
    <<"ACTIVE", "yield", "WAITING">>,
    <<"ACTIVE", "await_tool", "WAITING">>,
    <<"ACTIVE", "complete", "COMPLETING">>,
    <<"ACTIVE", "error", "FAULTED">>,
    <<"ACTIVE", "suspend", "RESUMABLE">>,
    <<"WAITING", "resume", "ACTIVE">>,
    <<"WAITING", "timeout", "FAULTED">>,
    <<"WAITING", "error", "FAULTED">>,
    <<"RESUMABLE", "resume", "ACTIVE">>,
    <<"RESUMABLE", "expire", "TERMINATED">>,
    <<"COMPLETING", "teardown_ok", "TERMINATED">>,
    <<"FAULTED", "recover", "RECOVERING">>,
    <<"FAULTED", "abandon", "TERMINATED">>,
    <<"RECOVERING", "recovery_success", "ACTIVE">>,
    <<"RECOVERING", "recovery_exhausted", "TERMINATED">> }

\* The rows as records.
Rows == {[from |-> row[1], trigger |-> row[2], to |-> row[3]] :
           row \in VALID_TRANSITIONS}

\* transition() finds a row for state s and trigger t, and the row it finds.
IsValid(s, t) == \E r \in Rows : r.from = s /\ r.trigger = t
RowFor(s, t) == CHOOSE r \in Rows : r.from = s /\ r.trigger = t

\* find() takes the first row of a pair: the table has no second one.
ASSUME TableIsDeterministic ==
  \A r1, r2 \in Rows : r1.from = r2.from /\ r1.trigger = r2.trigger => r1 = r2
=============================================================================
