--------------------------- MODULE FailureHandler ---------------------------
(***************************************************************************)
(* FailureHandler (failure/handler.ts) over the delegation tree and a      *)
(* lifecycle.  handle() logs the failure and then reacts by its class.     *)
(* The first append that throws, or a transition that does, ends the       *)
(* reaction where it is; what was done before stays.  (When already        *)
(* FAILURE_RECORDED cannot be appended, nothing changes at all.)           *)
(*                                                                         *)
(* The handler calls transition(agent, 'FAULTED' | 'TERMINATED') on what   *)
(* it is given: in its test a map that takes states, in the kernel an      *)
(* adapter that hands the state to LifecycleController.transition, which   *)
(* takes a trigger.                                                        *)
(***************************************************************************)
EXTENDS Delegation, Lifecycle, Invariants, FiniteSets

CONSTANTS
  Watched,          \* agents whose failures are reported and that hosts move
  TickSeqs,
  MaxRetries,
  TakesStates,      \* the lifecycle is the map of the test, not the kernel's adapter
  MaxCalls          \* bound of the model: calls made to the kernel

ASSUME FailureAssumption ==
  /\ Watched \subseteq Ids
  /\ MaxRetries \in Nat
  /\ TakesStates \in BOOLEAN
  /\ MaxCalls \in Nat

VARIABLES
  lifecycle,
  retries,      \* retryCount in this.transientRecords, 0 without a record
  audit,        \* what the handler has logged
  calls         \* bound of the model

handlerVars == <<lifecycle, retries, audit>>
vars == <<now, nodes, revokedLog, lifecycle, retries, audit, calls>>

FailureClass == {"TRANSIENT", "PERMANENT", "POLICY_VIOLATION", "INVARIANT_BREACH"}

AuditEntry ==
  [kind : {"FAILURE_RECORDED"}, class : FailureClass, agent : Ids, seq : TickSeqs]
    \cup [kind : {"TRANSIENT_RETRY_SCHEDULED", "TRANSIENT_EXHAUSTED",
                  "POLICY_VIOLATION_HALT", "KERNEL_PANIC"}, agent : Ids, seq : TickSeqs]
    \cup [kind : {"CHILD_FAILURE_ESCALATION"}, agent : Ids, child : Ids]

FailureTypeOK ==
  /\ DelegationTypeOK
  /\ lifecycle \in [Ids -> AgentStates]
  /\ retries \in [Ids -> [TickSeqs -> 0..(MaxRetries + MaxCalls)]]
  /\ audit \in Seq(AuditEntry)
  /\ calls \in 0..MaxCalls

Init ==
  /\ DelegationInit
  /\ lifecycle = [a \in Ids |-> "DEFINED"]
  /\ retries = [a \in Ids |-> [s \in TickSeqs |-> 0]]
  /\ audit = << >>
  /\ calls = 0

-----------------------------------------------------------------------------
Recorded(class, a, s) == [kind |-> "FAILURE_RECORDED", class |-> class, agent |-> a, seq |-> s]
Note(kind, a, s) == [kind |-> kind, agent |-> a, seq |-> s]

\* A root's token names the root itself as its parent.
Escalation(a) ==
  [kind |-> "CHILD_FAILURE_ESCALATION", child |-> a,
   agent |-> IF nodes[a].parent = null THEN a ELSE nodes[a].parent]

Log(entries) == audit' = audit \o entries

\* transition(a, state) as the handler sees it.
Accepts(a, state) == TakesStates \/ IsValid(lifecycle[a], state)
Enter(a, state) ==
  lifecycle' = [lifecycle EXCEPT ![a] =
                  IF TakesStates THEN state ELSE RowFor(lifecycle[a], state).to]

\* handlePermanent, after what is in entries: FAULTED, then a word to the parent.
Permanently(a, entries) ==
  \/ /\ ~Accepts(a, "FAULTED")
     /\ Log(entries) /\ UNCHANGED lifecycle
  \/ /\ Accepts(a, "FAULTED")
     /\ Enter(a, "FAULTED")
     /\ Log(entries) \/ (Exists(a) /\ Log(Append(entries, Escalation(a))))

\* Mutant: the last retry is not made.
ExhaustedEarly(n) == n >= MaxRetries

Exhausted(n) == n > MaxRetries

\* handleTransient counts, and then logs a retry or gives up.  The record goes
\* only when its exhaustion could be logged, and before the escalation.
Transient(a, s) ==
  LET n == retries[a][s] + 1
      failed == Recorded("TRANSIENT", a, s)
      Count(k) == retries' = [retries EXCEPT ![a][s] = k]
  IN /\ \/ /\ ~Exhausted(n)
           /\ Count(n)
           /\ Log(<<failed>>) \/ Log(<<failed, Note("TRANSIENT_RETRY_SCHEDULED", a, s)>>)
           /\ UNCHANGED lifecycle
        \/ Exhausted(n) /\ Count(n) /\ Log(<<failed>>) /\ UNCHANGED lifecycle
        \/ /\ Exhausted(n)
           /\ Count(0)
           /\ Permanently(a, <<failed, Note("TRANSIENT_EXHAUSTED", a, s)>>)
     /\ UNCHANGED treeVars

Permanent(a, s) ==
  /\ Permanently(a, <<Recorded("PERMANENT", a, s)>>)
  /\ UNCHANGED <<now, nodes, revokedLog, retries>>

PolicyViolation(a, s) ==
  LET failed == Recorded("POLICY_VIOLATION", a, s)
  IN /\ Log(<<failed>>) \/ Log(<<failed, Note("POLICY_VIOLATION_HALT", a, s)>>)
     /\ UNCHANGED <<now, nodes, revokedLog, lifecycle, retries>>

\* Mutant: the tokens stay.
BreachKeepingTokens(a, s) ==
  LET failed == Recorded("INVARIANT_BREACH", a, s)
  IN /\ Accepts(a, "TERMINATED")
     /\ Enter(a, "TERMINATED")
     /\ Log(<<failed, Note("KERNEL_PANIC", a, s)>>)
     /\ UNCHANGED <<now, nodes, revokedLog, retries>>

\* handleInvariantBreach, and what unknown classes get: TERMINATED, then the
\* cascade, then KERNEL_PANIC.
Breach(a, s) ==
  LET failed == Recorded("INVARIANT_BREACH", a, s)
      Panic == Log(<<failed>>) \/ Log(<<failed, Note("KERNEL_PANIC", a, s)>>)
  IN /\ \/ /\ ~Accepts(a, "TERMINATED")
           /\ Log(<<failed>>) /\ UNCHANGED <<now, nodes, revokedLog, lifecycle>>
        \/ /\ Accepts(a, "TERMINATED")
           /\ Enter(a, "TERMINATED")
           /\ \/ Revoke(a) /\ Panic
              \/ (\E x \in Ids : RevokeCut(a, x)) /\ Log(<<failed>>)
              \/ ~CanRevoke(a) /\ UNCHANGED treeVars /\ Panic
     /\ UNCHANGED retries

\* What the assertions throw when a host checks tick s of a: whether the tick is
\* in processing, wiped and serializable, checkpointed, and at which step of 1 are
\* its own; "" is any other breach.
Thrown(a, s) ==
  LET Checked(c) ==
        assertAgentNotTerminated(a, s, lifecycle[a])
          \cup assertSingleTickProcessing(a, s, c.ok)
          \cup assertEphemeralWipedOrCheckpointed(a, s, c.ok, c.saved)
          \cup assertStepBound(a, s, c.step, 1)
          \cup assertSerializable(a, s, c.ok)
          \cup assert(FALSE, a, s, "")
  IN UNION {Checked(c) : c \in [ok : BOOLEAN, saved : BOOLEAN, step : 1..2]}

\* Caught, and handed to handle(), to which the code makes no difference.
Halt(a, s) ==
  \E about \in {<<e.agentId, e.tickSeq>> : e \in Thrown(a, s)} : Breach(about[1], about[2])

\* Host code moves an agent along the table.
HostMove(a, t) ==
  /\ IsValid(lifecycle[a], t)
  /\ lifecycle' = [lifecycle EXCEPT ![a] = RowFor(lifecycle[a], t).to]
  /\ UNCHANGED <<now, nodes, revokedLog, retries, audit>>

Next ==
  /\ calls < MaxCalls /\ calls' = calls + 1
  /\ \/ DelegationNext /\ UNCHANGED handlerVars
     \/ \E a \in Watched, s \in TickSeqs :
          Transient(a, s) \/ Permanent(a, s) \/ PolicyViolation(a, s) \/ Halt(a, s)
     \/ \E a \in Watched, t \in TransitionTriggers : HostMove(a, t)

Spec == Init /\ [][Next]_vars

-----------------------------------------------------------------------------
\* What is entry e after entry j and before entry i.
Between(j, i, e) == {n \in (j + 1)..(i - 1) : audit[n] = e}

IsExhausted(i, a, s) == audit[i] = Note("TRANSIENT_EXHAUSTED", a, s)

\* i = 0 or an exhaustion of tick s of a: where counting starts.
CountsFrom(i, a, s) == i = 0 \/ (i \in DOMAIN audit /\ IsExhausted(i, a, s))

\* A tick is given up after its last retry and no sooner, whichever of the
\* appends on the way were lost: at most MaxRetries retries are scheduled
\* between two exhaustions, which are more than MaxRetries transient
\* failures apart.
RetryBudget ==
  \A a \in Ids, s \in TickSeqs, j, i \in 0..(Len(audit) + 1) :
    /\ j < i /\ CountsFrom(j, a, s)
    /\ \A n \in (j + 1)..(i - 1) : ~IsExhausted(n, a, s)
    => /\ Cardinality(Between(j, i, Note("TRANSIENT_RETRY_SCHEDULED", a, s))) <= MaxRetries
       /\ CountsFrom(i, a, s) =>
            Cardinality(Between(j, i, Recorded("TRANSIENT", a, s))) > MaxRetries

\* When a kernel panic is logged its agent is TERMINATED and everything that was
\* delegated from it is revoked, as far down as it goes, or the log shows where
\* a cascade, this one or an earlier one, was cut.
PanicFreezes ==
  [][\A a \in Ids, s \in TickSeqs :
       audit' # audit /\ audit'[Len(audit')] = Note("KERNEL_PANIC", a, s) =>
         /\ lifecycle'[a] = "TERMINATED"
         /\ RevocationsAreLogged' =>
              \A m \in Subtree(a)' : Exists(m)' => Revoked(m)']_vars

\* doc/state-machine.md SM-INV-06, for the kernel's own wiring: "INVARIANT_BREACH
\* failures bypass FAULTED entirely. The agent transitions directly to TERMINATED".
BreachTerminates ==
  \A i \in DOMAIN audit :
    audit[i].kind = "FAILURE_RECORDED" /\ audit[i].class = "INVARIANT_BREACH" =>
      lifecycle[audit[i].agent] = "TERMINATED"
=============================================================================
