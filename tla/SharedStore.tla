----------------------------- MODULE SharedStore -----------------------------
(***************************************************************************)
(* SharedStore (memory/shared.ts) and the log of PermissionModel.evaluate. *)
(* Access is decided and logged by evaluate, then logged again and done by *)
(* the store; either append may throw.  A cell is a namespace with a key,  *)
(* its resource is shared/<namespace>/<key>: two cells can have the same,  *)
(* as slashes are not escaped.                                             *)
(***************************************************************************)
EXTENDS SqliteLogger, Permissions

CONSTANTS
  Callers,        \* agents
  SharedCells,
  SharedValues,
  resourceOf,     \* [SharedCells -> Resources]
  GrantLists,     \* grants that callers pass
  PolicyAnswers,  \* answers of the policies that callers pass
  Times

ASSUME SharedAssumption ==
  /\ resourceOf \in [SharedCells -> Resources]
  /\ GrantLists \subseteq SUBSET Grant
  /\ PolicyAnswers \subseteq Seq(Answers)
  /\ {"read", "write"} \subseteq Actions

VARIABLE shared   \* per kernel: this.store

NothingShared == [c \in SharedCells |-> absent]

SharedInit == shared = [k \in Kernels |-> NothingShared]

Evaluation(a, action, c, verdict) ==
  [kind |-> "PERMISSION_EVALUATION", agent |-> a, action |-> action,
   resource |-> resourceOf[c], result |-> verdict]

AccessKind(action) == IF action = "read" THEN "MEMORY_SHARED_READ" ELSE "MEMORY_SHARED_WRITE"

\* Mutant: nobody escalates.
PermittedUnlessDenied(verdict) == verdict # "DENY"

\* checkPermission throws for the other verdicts.
Permitted(verdict) == verdict = "ALLOW"

\* What is left of a call of a for cell c that is permitted: reading nothing is
\* not logged.
Rest(k, a, action, c, v) ==
  IF action = "read" /\ shared[k][c] = absent THEN Ready
  ELSE [step |-> "access", agent |-> a, action |-> action, cell |-> c, value |-> v]

\* What callers ask for.
Requests ==
  {[action |-> "read", value |-> absent]} \cup [action : {"write"}, value : SharedValues]

\* read and write up to the entry of evaluate.
Evaluate(k, a, c) ==
  /\ Idle(k)
  /\ \E r \in Requests, t \in Times, grants \in GrantLists, answers \in PolicyAnswers :
       LET verdict == Verdict(Allows(grants, r.action, resourceOf[c], t), answers)
       IN /\ verdict # "THROW"
          /\ Insert(k, Evaluation(a, r.action, c, verdict))
          /\ Does(k, IF Permitted(verdict) THEN Rest(k, a, r.action, c, r.value) ELSE Ready)
  /\ UNCHANGED <<since, shared>>

Accessing(k) == doing[k].step = "access"

LogAccess(k) ==
  Insert(k, [kind |-> AccessKind(doing[k].action), agent |-> doing[k].agent,
             cell |-> doing[k].cell, value |-> doing[k].value])

Store(k) ==
  IF doing[k].action = "write"
    THEN shared' = [shared EXCEPT ![k][doing[k].cell] = doing[k].value]
    ELSE UNCHANGED shared

\* Their own entry, and the value.
Access(k) ==
  /\ Accessing(k)
  /\ LogAccess(k) /\ Store(k)
  /\ Does(k, Ready)
  /\ UNCHANGED since

\* Mutant: the value is stored before the append that throws.
StoreUnlogged(k) ==
  /\ Accessing(k)
  /\ Store(k)
  /\ Does(k, Ready)
  /\ UNCHANGED <<audit, since>>

\* The append throws.
AccessNotLogged(k) ==
  /\ Accessing(k)
  /\ Does(k, Ready)
  /\ UNCHANGED <<audit, since, shared>>

-----------------------------------------------------------------------------
\* The entry of the same kernel right before entry i.
Precedes(h, i) ==
  /\ h < i /\ audit[h].by = audit[i].by
  /\ \A j \in (h + 1)..(i - 1) : audit[j].by # audit[i].by

\* INV-03: no access is logged that was not allowed to this agent, for this
\* resource, as the last thing its kernel logged before: no other call of the
\* kernel slipped in, although other kernels may.
AccessesAreAllowed ==
  \A i \in DOMAIN audit, action \in {"read", "write"} :
    audit[i].data.kind = AccessKind(action) =>
      \E h \in DOMAIN audit :
        /\ Precedes(h, i)
        /\ audit[h].data = Evaluation(audit[i].data.agent, action, audit[i].data.cell, "ALLOW")
=============================================================================
