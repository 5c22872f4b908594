--------------------------- MODULE SchedulerProofs ---------------------------
(***************************************************************************)
(* What the LIVE execution core guarantees for any number of agents, loops,*)
(* tools, values and host steps: the log is a faithful account of every    *)
(* agent's lifecycle, no continuation tick returns a value that was not    *)
(* logged as a tool result before, TERMINATED is a sink, an agent is       *)
(* completed at most once, and quotas bound what is logged and called.     *)
(*                                                                         *)
(* A step may append up to three entries.  The log properties are therefore*)
(* stated of an arbitrary log lg and shown to survive one Append; the      *)
(* steps of the scheduler are chains of such appends.                      *)
(***************************************************************************)
EXTENDS Scheduler, FiniteSetTheorems, TLAPS

-----------------------------------------------------------------------------
\* What appending to a sequence does, spelled out.
LEMMA AppendProperties ==
  ASSUME NEW S, NEW s \in Seq(S), NEW e \in S
  PROVE  /\ Append(s, e) \in Seq(S)
         /\ Len(s) \in Nat /\ DOMAIN s = 1..Len(s)
         /\ Len(Append(s, e)) = Len(s) + 1
         /\ DOMAIN Append(s, e) = 1..(Len(s) + 1)
         /\ Append(s, e)[Len(s) + 1] = e
         /\ \A i \in 1..Len(s) : Append(s, e)[i] = s[i]
  OBVIOUS

\* The row transition() finds is a row of the table for that state and trigger.
LEMMA RowForIsRow ==
  ASSUME NEW s, NEW t, IsValid(s, t)
  PROVE  /\ RowFor(s, t) \in Rows
         /\ RowFor(s, t).from = s
         /\ RowFor(s, t).trigger = t
  BY DEF IsValid, RowFor

\* Rows name states of the table, and none leaves TERMINATED.
LEMMA RowsAreTyped ==
  \A r \in Rows : /\ r.from \in AgentStates /\ r.to \in AgentStates
                  /\ r.from # "TERMINATED"
  BY DEF Rows, VALID_TRANSITIONS, AgentStates

\* Only ACTIVE completes, to COMPLETING, whose teardown ends in TERMINATED.
LEMMA CompletionRows ==
  \A r \in Rows :
    /\ r.trigger = "complete" => r.from = "ACTIVE" /\ r.to = "COMPLETING"
    /\ r.trigger = "teardown_ok" => r.to = "TERMINATED"
  BY DEF Rows, VALID_TRANSITIONS

LEMMA TeardownIsValid == IsValid("COMPLETING", "teardown_ok")
<1> DEFINE r == [from |-> "COMPLETING", trigger |-> "teardown_ok", to |-> "TERMINATED"]
<1>1. r \in Rows
  BY DEF Rows, VALID_TRANSITIONS
<1>2. QED
  BY <1>1 DEF IsValid

-----------------------------------------------------------------------------
\* lg2 is lg1 with entries added: what the log is only ever replaced by.
Extends(lg1, lg2) ==
  /\ Len(lg1) <= Len(lg2)
  /\ \A i \in 1..Len(lg1) : lg2[i] = lg1[i]

Causal(lg) ==
  \A i \in DOMAIN lg :
    lg[i].kind = "TICK_OUTPUT" /\ lg[i].seq = 2 =>
      ResultedBefore(lg, i, lg[i].agent, lg[i].output.arg)

\* A log that tells states, and the order of calls and results.
Good(lg, states) ==
  /\ lg \in Seq(LogEntries)
  /\ states \in [Agents -> AgentStates]
  /\ Tells(lg, states)
  /\ Causal(lg)

\* What was asked for, and what resulted, is not undone by a longer log.
LEMMA ResultsPersist ==
  ASSUME NEW lg1 \in Seq(LogEntries), NEW lg2 \in Seq(LogEntries),
         Extends(lg1, lg2), NEW n \in 1..(Len(lg1) + 1), NEW m \in Nat, n <= m,
         NEW a, NEW x
  PROVE  /\ AskedBefore(lg1, n, a, x) => AskedBefore(lg2, m, a, x)
         /\ ResultedBefore(lg1, n, a, x) => ResultedBefore(lg2, m, a, x)
<1>1. \A i \in 1..(n - 1) : i \in 1..Len(lg1) /\ i \in 1..(m - 1) /\ lg2[i] = lg1[i]
  BY DEF Extends
<1>2. AskedBefore(lg1, n, a, x) => AskedBefore(lg2, m, a, x)
  BY <1>1 DEF AskedBefore
<1>3. ASSUME NEW j \in 1..(n - 1), AskedBefore(lg1, j, a, lg1[j].tool)
      PROVE  AskedBefore(lg2, j, a, lg1[j].tool)
  BY <1>1, <1>3 DEF AskedBefore
<1>4. ResultedBefore(lg1, n, a, x) => ResultedBefore(lg2, m, a, x)
  BY <1>1, <1>3 DEF ResultedBefore
<1>5. QED
  BY <1>2, <1>4

\* Appending extends.
LEMMA AppendExtends ==
  ASSUME NEW lg0 \in Seq(LogEntries), NEW lg \in Seq(LogEntries),
         NEW e \in LogEntries, Extends(lg0, lg)
  PROVE  Extends(lg0, Append(lg, e)) /\ Extends(lg, Append(lg, e))
  BY AppendProperties DEF Extends

\* A causal log stays causal when its new entry is no continuation tick, or one
\* whose value has been logged.
LEMMA AppendKeepsCausal ==
  ASSUME NEW lg \in Seq(LogEntries), NEW e \in LogEntries, Causal(lg),
         e.kind = "TICK_OUTPUT" /\ e.seq = 2 =>
           ResultedBefore(lg, Len(lg) + 1, e.agent, e.output.arg)
  PROVE  Causal(Append(lg, e))
<1> DEFINE lg2 == Append(lg, e)
<1>1. /\ lg2 \in Seq(LogEntries) /\ Len(lg) \in Nat
      /\ DOMAIN lg = 1..Len(lg) /\ DOMAIN lg2 = 1..(Len(lg) + 1)
      /\ lg2[Len(lg) + 1] = e
      /\ \A i \in 1..Len(lg) : lg2[i] = lg[i]
  BY AppendProperties
<1>2. Extends(lg, lg2)
  BY <1>1, AppendExtends DEF Extends
<1> HIDE DEF lg2
<1>3. ASSUME NEW i \in DOMAIN lg2, lg2[i].kind = "TICK_OUTPUT", lg2[i].seq = 2
      PROVE  ResultedBefore(lg2, i, lg2[i].agent, lg2[i].output.arg)
  <2>1. CASE i \in 1..Len(lg)
    <3>1. ResultedBefore(lg, i, lg2[i].agent, lg2[i].output.arg)
      BY <1>1, <1>3, <2>1 DEF Causal
    <3>2. QED
      BY <1>1, <1>2, <2>1, <3>1, ResultsPersist
  <2>2. CASE i = Len(lg) + 1
    <3>1. ResultedBefore(lg, i, lg2[i].agent, lg2[i].output.arg)
      BY <1>1, <1>3, <2>2
    <3>2. QED
      BY <1>1, <1>2, <2>2, <3>1, ResultsPersist
  <2>3. QED
    BY <1>1, <2>1, <2>2
<1>4. QED
  BY <1>3 DEF Causal, lg2

\* What the first n entries say of an agent does not depend on later ones.
LEMMA LeadsToPersists ==
  ASSUME NEW lg1 \in Seq(LogEntries), NEW lg2 \in Seq(LogEntries),
         Extends(lg1, lg2), NEW n \in 0..Len(lg1), NEW a, NEW st,
         LeadsTo(lg1, n, a, st)
  PROVE  LeadsTo(lg2, n, a, st)
<1>1. \A i \in 1..n : lg2[i] = lg1[i]
  BY DEF Extends
<1>2. \A i \in 1..n : \A j \in (i + 1)..n : j \in 1..n
  OBVIOUS
<1>3. QED
  BY <1>1, <1>2 DEF LeadsTo

\* An entry that is no transition of a leaves a where it was.
LEMMA LeadsToSkips ==
  ASSUME NEW lg \in Seq(LogEntries), NEW e \in LogEntries, NEW a, NEW st,
         LeadsTo(lg, Len(lg), a, st), ~IsMove(a, e)
  PROVE  LeadsTo(Append(lg, e), Len(lg) + 1, a, st)
<1> DEFINE lg2 == Append(lg, e)
<1>1. /\ Len(lg) \in Nat /\ lg2[Len(lg) + 1] = e
      /\ \A i \in 1..Len(lg) : lg2[i] = lg[i]
  BY AppendProperties
<1> HIDE DEF lg2
<1>2. CASE st = "DEFINED" /\ \A i \in 1..Len(lg) : ~IsMove(a, lg[i])
  <2>1. \A i \in 1..(Len(lg) + 1) : ~IsMove(a, lg2[i])
    BY <1>1, <1>2
  <2>2. QED
    BY <1>2, <2>1 DEF LeadsTo, lg2
<1>3. ASSUME NEW i \in 1..Len(lg), IsMove(a, lg[i]), lg[i].row.to = st,
             \A j \in (i + 1)..Len(lg) : ~IsMove(a, lg[j])
      PROVE  LeadsTo(lg2, Len(lg) + 1, a, st)
  <2>1. i \in 1..(Len(lg) + 1) /\ IsMove(a, lg2[i]) /\ lg2[i].row.to = st
    BY <1>1, <1>3
  <2>2. \A j \in (i + 1)..(Len(lg) + 1) : ~IsMove(a, lg2[j])
    BY <1>1, <1>3
  <2>3. QED
    BY <2>1, <2>2 DEF LeadsTo
<1>4. QED
  BY <1>2, <1>3 DEF LeadsTo, lg2

\* An entry that is no transition keeps a good log good, for the same states.
LEMMA EntryKeepsGood ==
  ASSUME NEW lg, NEW st, Good(lg, st), NEW e \in LogEntries,
         e.kind # "LIFECYCLE_TRANSITION",
         e.kind = "TICK_OUTPUT" /\ e.seq = 2 =>
           ResultedBefore(lg, Len(lg) + 1, e.agent, e.output.arg)
  PROVE  Good(Append(lg, e), st)
<1> DEFINE lg2 == Append(lg, e)
<1>1. lg \in Seq(LogEntries)
  BY DEF Good
<1>2. /\ lg2 \in Seq(LogEntries) /\ Len(lg) \in Nat
      /\ DOMAIN lg = 1..Len(lg) /\ DOMAIN lg2 = 1..(Len(lg) + 1)
      /\ Len(lg2) = Len(lg) + 1 /\ lg2[Len(lg) + 1] = e
      /\ \A i \in 1..Len(lg) : lg2[i] = lg[i]
  BY <1>1, AppendProperties
<1>3. Extends(lg, lg2)
  BY <1>2 DEF Extends
<1>4. Causal(lg2)
  BY <1>1, AppendKeepsCausal DEF Good
<1>5. \A a \in Agents : LeadsTo(lg2, Len(lg2), a, st[a])
  <2>1. \A a \in Agents : LeadsTo(lg, Len(lg), a, st[a])
    BY DEF Good, Tells
  <2>2. \A a \in Agents : ~IsMove(a, e)
    BY DEF IsMove
  <2>3. QED
    BY <1>1, <1>2, <2>1, <2>2, LeadsToSkips
<1> HIDE DEF lg2
<1>6. ASSUME NEW a \in Agents, NEW i \in DOMAIN lg2, IsMove(a, lg2[i])
      PROVE  LeadsTo(lg2, i - 1, a, lg2[i].row.from)
  <2>1. i \in 1..Len(lg)
    BY <1>2, <1>6 DEF IsMove
  <2>2. LeadsTo(lg, i - 1, a, lg2[i].row.from)
    BY <1>2, <1>6, <2>1 DEF Good, Tells
  <2>3. QED
    BY <1>1, <1>2, <1>3, <2>1, <2>2, LeadsToPersists
<1>7. QED
  BY <1>2, <1>4, <1>5, <1>6 DEF Good, Tells, lg2

\* A transition entry keeps a good log good, for the states after it, when it
\* starts where its agent is.
LEMMA MoveKeepsGood ==
  ASSUME NEW lg, NEW st, Good(lg, st), NEW a \in Agents, NEW r \in Rows,
         r.from = st[a]
  PROVE  Good(Append(lg, MoveEntry(a, r)), [st EXCEPT ![a] = r.to])
<1> DEFINE e == MoveEntry(a, r)
           lg2 == Append(lg, e)
           st2 == [st EXCEPT ![a] = r.to]
<1>1. lg \in Seq(LogEntries) /\ e \in LogEntries
  BY DEF Good, LogEntries
<1>2. e.kind = "LIFECYCLE_TRANSITION" /\ e.agent = a /\ e.row = r
  BY DEF MoveEntry
<1> HIDE DEF e
<1>3. /\ lg2 \in Seq(LogEntries) /\ Len(lg) \in Nat
      /\ DOMAIN lg = 1..Len(lg) /\ DOMAIN lg2 = 1..(Len(lg) + 1)
      /\ Len(lg2) = Len(lg) + 1 /\ lg2[Len(lg) + 1] = e
      /\ \A i \in 1..Len(lg) : lg2[i] = lg[i]
  BY <1>1, AppendProperties
<1>4. Extends(lg, lg2)
  BY <1>3 DEF Extends
<1>5. Causal(lg2)
  BY <1>1, <1>2, AppendKeepsCausal DEF Good
<1>6. st2 \in [Agents -> AgentStates]
  BY RowsAreTyped DEF Good
<1>7. ASSUME NEW b \in Agents
      PROVE  LeadsTo(lg2, Len(lg2), b, st2[b])
  <2>1. LeadsTo(lg, Len(lg), b, st[b])
    BY DEF Good, Tells
  <2>2. CASE b = a
    <3>1. /\ Len(lg2) \in 1..Len(lg2) /\ IsMove(a, lg2[Len(lg2)])
          /\ lg2[Len(lg2)].row.to = r.to
          /\ \A j \in (Len(lg2) + 1)..Len(lg2) : ~IsMove(a, lg2[j])
      BY <1>2, <1>3 DEF IsMove
    <3>2. st2[a] = r.to
      BY DEF Good
    <3>3. QED
      BY <2>2, <3>1, <3>2 DEF LeadsTo
  <2>3. CASE b # a
    <3>1. ~IsMove(b, e)
      BY <1>2, <2>3 DEF IsMove
    <3>2. st2[b] = st[b]
      BY <2>3 DEF Good
    <3>3. QED
      BY <1>1, <1>3, <2>1, <3>1, <3>2, LeadsToSkips
  <2>4. QED
    BY <2>2, <2>3
<1> HIDE DEF lg2, st2
<1>8. ASSUME NEW b \in Agents, NEW i \in DOMAIN lg2, IsMove(b, lg2[i])
      PROVE  LeadsTo(lg2, i - 1, b, lg2[i].row.from)
  <2>1. CASE i \in 1..Len(lg)
    <3>1. LeadsTo(lg, i - 1, b, lg2[i].row.from)
      BY <1>3, <1>8, <2>1 DEF Good, Tells
    <3>2. QED
      BY <1>1, <1>3, <1>4, <2>1, <3>1, LeadsToPersists
  <2>2. CASE i = Len(lg) + 1
    <3>1. b = a /\ lg2[i].row.from = st[a]
      BY <1>2, <1>3, <1>8, <2>2 DEF IsMove
    <3>2. LeadsTo(lg, Len(lg), a, st[a])
      BY DEF Good, Tells
    <3>3. QED
      BY <1>1, <1>3, <1>4, <2>2, <3>1, <3>2, LeadsToPersists
  <2>3. QED
    BY <1>3, <2>1, <2>2
<1>9. QED
  BY <1>3, <1>5, <1>6, <1>7, <1>8 DEF Good, Tells, lg2, st2, e

-----------------------------------------------------------------------------
\* What every step does to the log and the lifecycle map.
StepSound ==
  /\ Good(log', lifecycle')
  /\ Extends(log, log')
  /\ \A a \in Agents : lifecycle[a] = "TERMINATED" => lifecycle'[a] = "TERMINATED"

\* The log a tick has reached when it is about to move its agent.
Reached(lg) == Good(lg, lifecycle) /\ Extends(log, lg) /\ log \in Seq(LogEntries)

LEMMA LogOnlySound ==
  ASSUME NEW lg, Reached(lg), LogOnly(lg)
  PROVE  StepSound
  BY DEF Reached, LogOnly, StepSound, Good, Tells

LEMMA MoveLoggingSound ==
  ASSUME NEW lg, Reached(lg), NEW a \in Agents, NEW t,
         IsValid(lifecycle[a], t), MoveLogging(lg, a, t)
  PROVE  StepSound
<1> DEFINE r == RowFor(lifecycle[a], t)
<1>1. r \in Rows /\ r.from = lifecycle[a]
  BY RowForIsRow
<1>2. log' = Append(lg, MoveEntry(a, r)) /\ lifecycle' = [lifecycle EXCEPT ![a] = r.to]
  BY DEF MoveLogging
<1> HIDE DEF r
<1>3. Good(log', lifecycle')
  BY <1>1, <1>2, MoveKeepsGood DEF Reached
<1>4. Extends(log, log')
  <2>1. lg \in Seq(LogEntries) /\ MoveEntry(a, r) \in LogEntries
    BY <1>1 DEF Reached, Good, LogEntries
  <2>2. QED
    BY <1>2, <2>1, AppendExtends DEF Reached
<1>5. \A b \in Agents : lifecycle[b] = "TERMINATED" => lifecycle'[b] = "TERMINATED"
  BY <1>1, <1>2, RowsAreTyped DEF Reached, Good
<1>6. QED
  BY <1>3, <1>4, <1>5 DEF StepSound

LEMMA QuotaExceededSound ==
  ASSUME NEW lg, Reached(lg), NEW l \in Loops, NEW a \in Agents,
         QuotaExceeded(l, a, lg)
  PROVE  StepSound
  BY LogOnlySound, MoveLoggingSound DEF QuotaExceeded

LEMMA EndBySound ==
  ASSUME NEW lg, Reached(lg), NEW l \in Loops, NEW a \in Agents,
         NEW t, NEW o, EndBy(l, a, lg, t, o)
  PROVE  StepSound
  BY LogOnlySound, MoveLoggingSound DEF EndBy

\* A completed loop moves its agent from ACTIVE to TERMINATED.
LEMMA EndCompletedSound ==
  ASSUME NEW lg, Reached(lg), NEW l \in Loops, NEW a \in Agents,
         EndCompleted(l, a, lg)
  PROVE  /\ StepSound
         /\ IsValid(lifecycle[a], "complete") =>
              lifecycle[a] = "ACTIVE" /\ lifecycle'[a] = "TERMINATED"
<1> DEFINE done == RowFor(lifecycle[a], "complete")
           torn == RowFor(done.to, "teardown_ok")
           lg1  == Append(lg, MoveEntry(a, done))
           st1  == [lifecycle EXCEPT ![a] = done.to]
<1>1. CASE ~IsValid(lifecycle[a], "complete")
  BY <1>1, LogOnlySound DEF EndCompleted
<1>2. CASE IsValid(lifecycle[a], "complete")
  <2>1. /\ done \in Rows /\ done.from = lifecycle[a]
        /\ lifecycle[a] = "ACTIVE" /\ done.to = "COMPLETING"
    BY <1>2, RowForIsRow, CompletionRows
  <2>2. torn \in Rows /\ torn.from = done.to /\ torn.to = "TERMINATED"
    BY <2>1, TeardownIsValid, RowForIsRow, CompletionRows
  <2>3. /\ log' = Append(lg1, MoveEntry(a, torn))
        /\ lifecycle' = [lifecycle EXCEPT ![a] = torn.to]
    BY <1>2 DEF EndCompleted
  <2> HIDE DEF done, torn
  <2>4. Good(lg1, st1)
    BY <2>1, MoveKeepsGood DEF Reached
  <2>5. st1[a] = done.to /\ lifecycle' = [st1 EXCEPT ![a] = torn.to]
    BY <2>3 DEF Reached, Good
  <2>6. Good(log', lifecycle')
    <3> HIDE DEF lg1, st1
    <3>1. torn.from = st1[a]
      BY <2>2, <2>5
    <3>2. Good(Append(lg1, MoveEntry(a, torn)), [st1 EXCEPT ![a] = torn.to])
      BY <2>2, <2>4, <3>1, MoveKeepsGood
    <3>3. QED
      BY <2>3, <2>5, <3>2
  <2>7. Extends(log, log')
    <3>1. /\ MoveEntry(a, done) \in LogEntries /\ MoveEntry(a, torn) \in LogEntries
          /\ lg \in Seq(LogEntries) /\ lg1 \in Seq(LogEntries)
      BY <2>1, <2>2, <2>4 DEF Reached, Good, LogEntries
    <3>2. QED
      BY <2>3, <3>1, AppendExtends DEF Reached
  <2>8. /\ lifecycle'[a] = "TERMINATED"
        /\ \A b \in Agents : lifecycle[b] = "TERMINATED" => lifecycle'[b] = "TERMINATED"
    BY <2>2, <2>3 DEF Reached, Good
  <2>9. QED
    BY <2>1, <2>6, <2>7, <2>8 DEF StepSound
<1>3. QED
  BY <1>1, <1>2

-----------------------------------------------------------------------------
\* What is known of a suspended or settled loop, given the log and the states:
\* a loop that waits has asked, a loop that resumes has a logged result, and a
\* loop that completed its agent left it TERMINATED.
LoopOK(lg, states, r) ==
  /\ r \in LoopState
  /\ r.pc \in {"tool", "resumed", "rejected"} => r.agent \in Agents /\ r.tool \in Tools
  /\ r.pc # "settled" => r.outcome = "none"
  /\ r.pc = "tool" => AskedBefore(lg, Len(lg) + 1, r.agent, r.tool)
  /\ r.pc = "resumed" => /\ r.result \in Values
                         /\ ResultedBefore(lg, Len(lg) + 1, r.agent, r.result)
  /\ r.outcome = "COMPLETED" => r.agent \in Agents /\ states[r.agent] = "TERMINATED"

IInv ==
  /\ TypeOK
  /\ Good(log, lifecycle)
  /\ \A l \in Loops : LoopOK(log, lifecycle, loops[l])

\* A loop another step does not touch stays as it is known to be.
LEMMA LoopOKPersists ==
  ASSUME NEW r, log \in Seq(LogEntries), LoopOK(log, lifecycle, r), StepSound
  PROVE  LoopOK(log', lifecycle', r)
<1>1. /\ log' \in Seq(LogEntries) /\ Extends(log, log')
      /\ Len(log) \in Nat /\ Len(log') \in Nat /\ Len(log) + 1 <= Len(log') + 1
  BY DEF StepSound, Good, Extends
<1>2. /\ AskedBefore(log, Len(log) + 1, r.agent, r.tool)
           => AskedBefore(log', Len(log') + 1, r.agent, r.tool)
      /\ ResultedBefore(log, Len(log) + 1, r.agent, r.result)
           => ResultedBefore(log', Len(log') + 1, r.agent, r.result)
  BY <1>1, ResultsPersist
<1>3. r.agent \in Agents /\ lifecycle[r.agent] = "TERMINATED"
        => lifecycle'[r.agent] = "TERMINATED"
  BY DEF StepSound
<1>4. QED
  BY <1>2, <1>3 DEF LoopOK

\* A step of loop l keeps what is known of all loops when it does for l.
LEMMA LoopStepKeepsLoops ==
  ASSUME IInv, StepSound, NEW l \in Loops, NEW r, LoopOK(log', lifecycle', r),
         loops' = [loops EXCEPT ![l] = r]
  PROVE  /\ loops' \in [Loops -> LoopState]
         /\ \A m \in Loops : LoopOK(log', lifecycle', loops'[m])
<1>1. loops' \in [Loops -> LoopState]
  BY DEF LoopOK, IInv, TypeOK
<1>2. ASSUME NEW m \in Loops
      PROVE  LoopOK(log', lifecycle', loops'[m])
  <2>1. LoopOK(log', lifecycle', loops[m])
    BY LoopOKPersists DEF IInv, TypeOK
  <2>2. loops'[m] = IF m = l THEN r ELSE loops[m]
    BY DEF IInv, TypeOK
  <2>3. QED
    BY <2>1, <2>2
<1>3. QED
  BY <1>1, <1>2

\* The record of a loop after it settled.
Settled(r, a, o) == [r EXCEPT !.pc = "settled", !.agent = a, !.outcome = o]

LEMMA SettledIsOK ==
  ASSUME IInv, NEW l \in Loops, NEW a \in Agents, NEW o \in Outcomes,
         o = "COMPLETED" => lifecycle'[a] = "TERMINATED"
  PROVE  LoopOK(log', lifecycle', Settled(loops[l], a, o))
<1>1. loops[l] \in LoopState
  BY DEF IInv, TypeOK
<1>2. Settled(loops[l], a, o) \in LoopState
  BY <1>1 DEF Settled, LoopState
<1>3. /\ Settled(loops[l], a, o).pc = "settled"
      /\ Settled(loops[l], a, o).agent = a
      /\ Settled(loops[l], a, o).outcome = o
  BY <1>1 DEF Settled, LoopState
<1>4. QED
  BY <1>2, <1>3 DEF LoopOK

\* A tick entry is a log entry that says what the tick did.
LEMMA TickEntryIsTyped ==
  ASSUME NEW a \in Agents, NEW seq \in {1, 2}, NEW instr \in Instruction,
         NEW st \in AgentStates, NEW m \in Values \cup {null}
  PROVE  /\ TickEntry(a, seq, instr, st, m) \in LogEntries
         /\ TickEntry(a, seq, instr, st, m).kind = "TICK_OUTPUT"
         /\ TickEntry(a, seq, instr, st, m).agent = a
         /\ TickEntry(a, seq, instr, st, m).seq = seq
         /\ TickEntry(a, seq, instr, st, m).output = runTick(instr)
<1>1. TickEntry(a, seq, instr, st, m) \in LogEntries
  BY DEF LogEntries
<1>2. QED
  BY <1>1 DEF TickEntry

LEMMA InitialInstructionsAreTyped ==
  ASSUME NEW instr \in InitialInstructions
  PROVE  /\ instr \in Instruction
         /\ runTick(instr).kind = "PENDING_TOOL" => runTick(instr).arg \in Tools
         /\ instr.kind = "RETURN" => runTick(instr).arg = instr.arg
  BY DEF InitialInstructions, Instruction, InstructionKinds, Args, runTick, OutputKind

\* One round of the loop, for the first tick or for a continuation whose value
\* is logged.
LEMMA TickKeepsIInv ==
  ASSUME IInv, NEW l \in Loops, NEW a \in Agents, NEW seq \in {1, 2},
         NEW instr \in InitialInstructions, loops[l].outcome = "none",
         seq = 2 => ResultedBefore(log, Len(log) + 1, a, runTick(instr).arg),
         Tick(l, a, seq, instr)
  PROVE  /\ StepSound
         /\ usage' \in [Agents -> [ticks : Nat, toolCalls : Nat]]
         /\ loops' \in [Loops -> LoopState]
         /\ \A m \in Loops : LoopOK(log', lifecycle', loops'[m])
<1> DEFINE e == TickEntry(a, seq, instr, lifecycle[a], memory[a])
           lg == Append(log, e)
           output == runTick(instr)
<1>1. /\ e \in LogEntries /\ e.kind = "TICK_OUTPUT" /\ e.agent = a
      /\ e.seq = seq /\ e.output = output
  BY TickEntryIsTyped, InitialInstructionsAreTyped DEF IInv, TypeOK
<1>2. Reached(log)
  BY DEF Reached, IInv, TypeOK, Extends
<1> HIDE DEF e, output
<1>3. Reached(lg)
  <2>1. Good(lg, lifecycle)
    BY <1>1, EntryKeepsGood DEF IInv, output
  <2>2. Extends(log, lg)
    BY <1>1, <1>2, AppendExtends DEF Reached
  <2>3. QED
    BY <1>2, <2>1, <2>2 DEF Reached
<1>4. usage' \in [Agents -> [ticks : Nat, toolCalls : Nat]]
  <2>1. CountTick(a) \/ CountTickAndTool(a)
    BY DEF Tick
  <2>2. usage \in [Agents -> [ticks : Nat, toolCalls : Nat]]
    BY DEF IInv, TypeOK
  <2>3. /\ usage[a].ticks + 1 \in Nat /\ usage[a].toolCalls + 1 \in Nat
        /\ usage[a].toolCalls \in Nat
    BY <2>2
  <2>4. CASE CountTick(a)
    BY <2>2, <2>3, <2>4 DEF CountTick
  <2>5. CASE CountTickAndTool(a)
    BY <2>2, <2>3, <2>5 DEF CountTickAndTool
  <2>6. QED
    BY <2>1, <2>4, <2>5
<1>5. ASSUME NEW o \in Outcomes, Settle(l, a, o), StepSound,
             o = "COMPLETED" => lifecycle'[a] = "TERMINATED"
      PROVE  /\ loops' \in [Loops -> LoopState]
             /\ \A m \in Loops : LoopOK(log', lifecycle', loops'[m])
  <2>1. loops' = [loops EXCEPT ![l] = Settled(loops[l], a, o)]
    BY <1>5 DEF Settle, Settled
  <2>2. LoopOK(log', lifecycle', Settled(loops[l], a, o))
    BY <1>5, SettledIsOK
  <2>3. QED
    BY <1>5, <2>1, <2>2, LoopStepKeepsLoops
<1>6. CASE QuotaExceeded(l, a, log) \/ QuotaExceeded(l, a, lg)
  <2>1. StepSound
    BY <1>2, <1>3, <1>6, QuotaExceededSound
  <2>2. Settle(l, a, "QUOTA_EXCEEDED")
    BY <1>6 DEF QuotaExceeded
  <2>3. QED
    BY <1>4, <1>5, <2>1, <2>2 DEF Outcomes
<1>7. CASE EndCompleted(l, a, lg)
  <2>1. /\ StepSound
        /\ IsValid(lifecycle[a], "complete") => lifecycle'[a] = "TERMINATED"
    BY <1>3, <1>7, EndCompletedSound
  <2>2. CASE IsValid(lifecycle[a], "complete")
    <3>1. Settle(l, a, "COMPLETED")
      BY <1>7, <2>2 DEF EndCompleted
    <3>2. QED
      BY <1>4, <1>5, <2>1, <2>2, <3>1 DEF Outcomes
  <2>3. CASE ~IsValid(lifecycle[a], "complete")
    <3>1. Settle(l, a, "LIFECYCLE_ERROR")
      BY <1>7, <2>3 DEF EndCompleted
    <3>2. QED
      BY <1>4, <1>5, <2>1, <3>1 DEF Outcomes
  <2>4. QED
    BY <2>2, <2>3
<1>8. ASSUME NEW t, NEW o \in {"FAILED", "DELEGATED"}, EndBy(l, a, lg, t, o)
      PROVE  /\ StepSound
             /\ loops' \in [Loops -> LoopState]
             /\ \A m \in Loops : LoopOK(log', lifecycle', loops'[m])
  <2>1. StepSound
    BY <1>3, <1>8, EndBySound
  <2>2. Settle(l, a, o) \/ Settle(l, a, "LIFECYCLE_ERROR")
    BY <1>8 DEF EndBy
  <2>3. QED
    BY <1>5, <2>1, <2>2 DEF Outcomes
<1>9. CASE CallTool(l, a, lg, output.arg) /\ output.kind = "PENDING_TOOL"
  <2> DEFINE r == [loops[l] EXCEPT !.pc = IF output.arg \in Handlers THEN "tool" ELSE "rejected",
                                   !.agent = a, !.tool = output.arg,
                                   !.invoked = output.arg \in Handlers]
  <2>1. StepSound /\ log' = lg /\ loops' = [loops EXCEPT ![l] = r]
    BY <1>3, <1>9, LogOnlySound DEF CallTool, LogOnly
  <2>2. output.arg \in Tools
    BY <1>9, InitialInstructionsAreTyped DEF output
  <2>3. /\ r \in LoopState
        /\ r.pc \in {"tool", "rejected"}
        /\ r.agent = a /\ r.tool = output.arg /\ r.outcome = "none"
    <3>1. loops[l] \in LoopState
      BY DEF IInv, TypeOK
    <3> DEFINE handled == output.arg \in Handlers
    <3>2. handled \in BOOLEAN
      <4>1. CASE output.arg \in Handlers
        <5>1. handled = TRUE
          BY <4>1
        <5>2. QED
          BY <5>1, Zenon
      <4>2. CASE output.arg \notin Handlers
        <5>1. handled = FALSE
          BY <4>2
        <5>2. QED
          BY <5>1, Zenon
      <4>3. QED
        BY <4>1, <4>2, Zenon
    <3>3. r = [loops[l] EXCEPT !.pc = IF handled THEN "tool" ELSE "rejected",
                               !.agent = a, !.tool = output.arg, !.invoked = handled]
      OBVIOUS
    <3> HIDE DEF handled
    <3>4. QED
      BY <2>2, <3>1, <3>2, <3>3 DEF LoopState
  <2>4. AskedBefore(log', Len(log') + 1, a, output.arg)
    <3>1. /\ log \in Seq(LogEntries) /\ Len(lg) = Len(log) + 1
          /\ lg[Len(log) + 1] = e /\ Len(log) \in Nat
      BY <1>1, <1>2, AppendProperties DEF Reached
    <3>2. Len(log) + 1 \in 1..(Len(lg) + 1 - 1) /\ IsTick(a, lg[Len(log) + 1])
          /\ lg[Len(log) + 1].output.arg = output.arg
      BY <1>1, <3>1 DEF IsTick
    <3>3. QED
      BY <2>1, <3>2 DEF AskedBefore
  <2> HIDE DEF r
  <2>5. LoopOK(log', lifecycle', r)
    BY <2>2, <2>3, <2>4 DEF LoopOK
  <2>6. QED
    BY <1>4, <2>1, <2>5, LoopStepKeepsLoops
<1>10. QED
  BY <1>4, <1>6, <1>7, <1>8, <1>9 DEF Tick, e, output

-----------------------------------------------------------------------------
\* A step that adds at most one entry about no tick and no move of an agent.
LEMMA QuietSound ==
  ASSUME IInv, UNCHANGED lifecycle,
         \/ log' = log
         \/ \E e \in LogEntries : /\ e.kind \notin {"TICK_OUTPUT", "LIFECYCLE_TRANSITION"}
                                 /\ log' = Append(log, e)
  PROVE  StepSound
<1>1. Reached(log)
  BY DEF Reached, IInv, TypeOK, Extends
<1>2. CASE log' = log
  BY <1>1, <1>2, LogOnlySound DEF LogOnly
<1>3. ASSUME NEW e \in LogEntries, log' = Append(log, e),
             e.kind \notin {"TICK_OUTPUT", "LIFECYCLE_TRANSITION"}
      PROVE  StepSound
  <2>1. Good(Append(log, e), lifecycle)
    BY <1>3, EntryKeepsGood DEF IInv
  <2>2. Extends(log, Append(log, e))
    BY <1>1, <1>3, AppendExtends DEF Reached
  <2>3. Reached(Append(log, e))
    BY <1>1, <2>1, <2>2 DEF Reached
  <2>4. QED
    BY <1>3, <2>3, LogOnlySound DEF LogOnly
<1>4. QED
  BY <1>2, <1>3

\* Steps of host code leave the loops alone.
LEMMA HostStepKeepsLoops ==
  ASSUME IInv, StepSound, UNCHANGED loops
  PROVE  /\ loops' \in [Loops -> LoopState]
         /\ \A m \in Loops : LoopOK(log', lifecycle', loops'[m])
  BY LoopOKPersists DEF IInv, TypeOK

LEMMA InitIInv == Init => IInv
<1> SUFFICES ASSUME Init PROVE IInv
  OBVIOUS
<1>1. << >> \in Seq(LogEntries)
  OBVIOUS
<1>2. FALSE \in BOOLEAN
  BY Zenon
<1>3. Idle \in LoopState
  BY <1>2 DEF Idle, LoopState, Outcomes
<1>4. TypeOK
  BY <1>1, <1>3, SchedulerAssumption DEF Init, TypeOK, AgentStates
<1>5. Good(log, lifecycle)
  BY <1>4 DEF Init, TypeOK, Good, Tells, Causal, LeadsTo, AgentStates
<1>6. ASSUME NEW l \in Loops
      PROVE  LoopOK(log, lifecycle, loops[l])
  BY <1>3 DEF Init, LoopOK, Idle
<1>7. QED
  BY <1>4, <1>5, <1>6 DEF IInv

\* Every step keeps the invariant, and is sound: it only extends the log and
\* leaves TERMINATED agents TERMINATED.
LEMMA NextIInv ==
  ASSUME IInv, [Next]_vars
  PROVE  StepSound /\ IInv'
<1> USE SchedulerAssumption
<1>1. TypeOK
  BY DEF IInv
<1>2. ASSUME StepSound,
             limits' \in [Agents -> Quotas \cup {NoQuota}],
             usage' \in [Agents -> [ticks : Nat, toolCalls : Nat]],
             memory' \in [Agents -> Values \cup {null}],
             hostSteps' \in 0..MaxHostSteps,
             loops' \in [Loops -> LoopState],
             \A m \in Loops : LoopOK(log', lifecycle', loops'[m])
      PROVE  StepSound /\ IInv'
  BY <1>2 DEF IInv, TypeOK, StepSound, Good
<1>3. ASSUME NEW l \in Loops, NEW a \in Agents, NEW i \in InitialInstructions,
             RunAgentLoop(l, a, i)
      PROVE  StepSound /\ IInv'
  <2>1. UNCHANGED <<limits, memory, hostSteps>> /\ loops[l].outcome = "none"
    BY <1>3 DEF RunAgentLoop, IInv, LoopOK
  <2>2. CASE Tick(l, a, 1, i)
    BY <1>1, <1>2, <2>1, <2>2, TickKeepsIInv DEF TypeOK
  <2>3. CASE Settle(l, a, "NOT_ACTIVE") /\ UNCHANGED <<log, lifecycle, usage>>
    <3>1. StepSound
      BY <2>3, QuietSound
    <3>2. LoopOK(log', lifecycle', Settled(loops[l], a, "NOT_ACTIVE"))
      BY SettledIsOK DEF Outcomes
    <3>3. loops' = [loops EXCEPT ![l] = Settled(loops[l], a, "NOT_ACTIVE")]
      BY <2>3 DEF Settle, Settled
    <3>4. QED
      BY <1>1, <1>2, <2>1, <2>3, <3>1, <3>2, <3>3, LoopStepKeepsLoops DEF TypeOK
  <2>4. QED
    BY <1>3, <2>2, <2>3 DEF RunAgentLoop
<1>4. ASSUME NEW l \in Loops, NEW v \in Values, ToolReturns(l, v)
      PROVE  StepSound /\ IInv'
  <2> DEFINE e == ToolEntry(loops[l].agent, 1, loops[l].tool, v)
             r == [loops[l] EXCEPT !.pc = "resumed", !.result = v]
  <2>1. /\ loops[l] \in LoopState /\ loops[l].pc = "tool" /\ loops[l].outcome = "none"
        /\ loops[l].agent \in Agents /\ loops[l].tool \in Tools
        /\ AskedBefore(log, Len(log) + 1, loops[l].agent, loops[l].tool)
    BY <1>4 DEF ToolReturns, IInv, LoopOK
  <2>2. /\ e \in LogEntries /\ e.kind = "TOOL_RESULT" /\ e.agent = loops[l].agent
        /\ e.tool = loops[l].tool /\ e.result = v
    BY <2>1 DEF ToolEntry, LogEntries
  <2>3. log' = Append(log, e) /\ loops' = [loops EXCEPT ![l] = r]
    BY <1>1, <1>4 DEF ToolReturns, TypeOK
  <2>4. /\ r \in LoopState /\ r.pc = "resumed" /\ r.result = v /\ r.outcome = "none"
        /\ r.agent = loops[l].agent /\ r.tool = loops[l].tool
    BY <2>1 DEF LoopState
  <2> HIDE DEF e, r
  <2>5. StepSound
    BY <1>4, <2>2, <2>3, QuietSound DEF ToolReturns
  <2>6. ResultedBefore(log', Len(log') + 1, loops[l].agent, v)
    <3>1. /\ log \in Seq(LogEntries) /\ log' \in Seq(LogEntries) /\ Extends(log, log')
          /\ Len(log) \in Nat /\ Len(log') = Len(log) + 1 /\ log'[Len(log) + 1] = e
      BY <1>1, <2>2, <2>3, <2>5, AppendProperties DEF TypeOK, StepSound
    <3>2. AskedBefore(log', Len(log) + 1, loops[l].agent, loops[l].tool)
      BY <2>1, <3>1, ResultsPersist
    <3>3. Len(log) + 1 \in 1..(Len(log') + 1 - 1)
      BY <3>1
    <3>4. QED
      BY <2>2, <3>1, <3>2, <3>3 DEF ResultedBefore
  <2>7. LoopOK(log', lifecycle', r)
    BY <2>1, <2>4, <2>6 DEF LoopOK
  <2>8. QED
    BY <1>1, <1>2, <1>4, <2>3, <2>5, <2>7, LoopStepKeepsLoops DEF ToolReturns, TypeOK
<1>5. ASSUME NEW l \in Loops, ToolThrows(l)
      PROVE  StepSound /\ IInv'
  <2> DEFINE r == [loops[l] EXCEPT !.pc = "rejected"]
  <2>1. LoopOK(log, lifecycle, loops[l]) /\ loops[l].pc = "tool"
    BY <1>5 DEF ToolThrows, IInv
  <2>2. StepSound
    BY <1>5, QuietSound DEF ToolThrows
  <2>3. LoopOK(log', lifecycle', r)
    BY <1>5, <2>1 DEF ToolThrows, LoopOK, LoopState
  <2>4. loops' = [loops EXCEPT ![l] = r]
    BY <1>5 DEF ToolThrows
  <2>5. QED
    BY <1>1, <1>2, <1>5, <2>2, <2>3, <2>4, LoopStepKeepsLoops DEF ToolThrows, TypeOK
<1>6. ASSUME NEW l \in Loops, Resume(l)
      PROVE  StepSound /\ IInv'
  <2> DEFINE a == loops[l].agent
             i == [kind |-> "RETURN", arg |-> loops[l].result]
  <2>1. /\ loops[l].outcome = "none" /\ a \in Agents /\ loops[l].result \in Values
        /\ ResultedBefore(log, Len(log) + 1, a, loops[l].result)
    BY <1>6 DEF Resume, IInv, LoopOK
  <2>2. i \in InitialInstructions /\ runTick(i).arg = loops[l].result
    BY <2>1 DEF InitialInstructions, runTick
  <2>3. Tick(l, a, 2, i) /\ UNCHANGED <<limits, memory, hostSteps>>
    BY <1>6 DEF Resume
  <2> HIDE DEF a, i
  <2>4. QED
    BY <1>1, <1>2, <2>1, <2>2, <2>3, TickKeepsIInv DEF TypeOK
<1>7. ASSUME NEW l \in Loops, ResumeRejected(l)
      PROVE  StepSound /\ IInv'
  <2>1. loops[l].agent \in Agents
    BY <1>7 DEF ResumeRejected, IInv, LoopOK
  <2>2. StepSound
    BY <1>7, QuietSound DEF ResumeRejected
  <2>3. LoopOK(log', lifecycle', Settled(loops[l], loops[l].agent, "TOOL_ERROR"))
    BY <2>1, SettledIsOK DEF Outcomes
  <2>4. loops' = [loops EXCEPT ![l] = Settled(loops[l], loops[l].agent, "TOOL_ERROR")]
    BY <1>7 DEF ResumeRejected, Settle, Settled
  <2>5. QED
    BY <1>1, <1>2, <1>7, <2>2, <2>3, <2>4, LoopStepKeepsLoops DEF ResumeRejected, TypeOK
<1>8. ASSUME NEW a \in Agents, NEW t \in TransitionTriggers, HostTransition(a, t)
      PROVE  StepSound /\ IInv'
  <2>1. StepSound
    <3>1. Reached(log)
      BY DEF Reached, IInv, TypeOK, Extends
    <3>2. QED
      BY <1>8, <3>1, MoveLoggingSound DEF HostTransition
  <2>2. UNCHANGED <<limits, usage, memory, loops>> /\ hostSteps' \in 0..MaxHostSteps
    BY <1>1, <1>8 DEF HostTransition, HostStep, TypeOK
  <2>3. QED
    BY <1>1, <1>2, <2>1, <2>2, HostStepKeepsLoops DEF TypeOK
<1>9. ASSUME NEW a \in Agents, NEW q \in Quotas, SetQuota(a, q)
      PROVE  StepSound /\ IInv'
  <2>1. StepSound
    BY <1>9, QuietSound DEF SetQuota
  <2>2. UNCHANGED <<usage, memory, loops>> /\ hostSteps' \in 0..MaxHostSteps
    BY <1>1, <1>9 DEF SetQuota, HostStep, TypeOK
  <2>3. limits' \in [Agents -> Quotas \cup {NoQuota}]
    BY <1>1, <1>9 DEF SetQuota, TypeOK
  <2>4. QED
    BY <1>1, <1>2, <2>1, <2>2, <2>3, HostStepKeepsLoops DEF TypeOK
<1>10. ASSUME NEW a \in Agents, NEW v \in Values, PersistentWrite(a, v)
       PROVE  StepSound /\ IInv'
  <2>1. WriteEntry(a, v) \in LogEntries /\ WriteEntry(a, v).kind = "MEMORY_PERSISTENT_WRITE"
    BY DEF WriteEntry, LogEntries
  <2>2. StepSound
    BY <1>10, <2>1, QuietSound DEF PersistentWrite
  <2>3. UNCHANGED <<limits, usage, loops>> /\ hostSteps' \in 0..MaxHostSteps
    BY <1>1, <1>10 DEF PersistentWrite, HostStep, TypeOK
  <2>4. memory' \in [Agents -> Values \cup {null}]
    BY <1>1, <1>10 DEF PersistentWrite, TypeOK
  <2>5. QED
    BY <1>1, <1>2, <2>2, <2>3, <2>4, HostStepKeepsLoops DEF TypeOK
<1>11. CASE UNCHANGED vars
  <2>1. StepSound
    BY <1>11, QuietSound DEF vars
  <2>2. QED
    BY <1>1, <1>2, <1>11, <2>1, HostStepKeepsLoops DEF vars, TypeOK
<1>12. QED
  BY <1>3, <1>4, <1>5, <1>6, <1>7, <1>8, <1>9, <1>10, <1>11 DEF Next, KernelStep

LEMMA IInvHolds == Spec => []IInv
<1>1. IInv /\ [Next]_vars => IInv'
  BY NextIInv
<1>2. QED
  BY InitIInv, <1>1, PTL DEF Spec

-----------------------------------------------------------------------------
\* A loop is recorded as COMPLETED from the start of the step on, or the step is
\* its own and found its agent ACTIVE.
Completes(l) ==
  loops'[l].outcome = "COMPLETED" =>
    \/ loops[l].outcome = "COMPLETED" /\ loops'[l].agent = loops[l].agent
    \/ /\ lifecycle[loops'[l].agent] = "ACTIVE"
       /\ \A m \in Loops \ {l} : loops'[m] = loops[m]

LEMMA OthersComplete ==
  ASSUME IInv, NEW l \in Loops, NEW r, loops' = [loops EXCEPT ![l] = r],
         r.outcome # "COMPLETED"
  PROVE  \A m \in Loops : Completes(m)
  BY DEF Completes, IInv, TypeOK

LEMMA SettleCompletes ==
  ASSUME IInv, NEW l \in Loops, NEW a \in Agents, NEW o \in Outcomes,
         Settle(l, a, o), o = "COMPLETED" => lifecycle[a] = "ACTIVE"
  PROVE  \A m \in Loops : Completes(m)
<1>1. loops[l] \in LoopState /\ loops \in [Loops -> LoopState]
  BY DEF IInv, TypeOK
<1>2. /\ loops' = [loops EXCEPT ![l] = Settled(loops[l], a, o)]
      /\ Settled(loops[l], a, o).outcome = o /\ Settled(loops[l], a, o).agent = a
  BY <1>1 DEF Settle, Settled, LoopState
<1>3. QED
  BY <1>1, <1>2 DEF Completes

LEMMA TickCompletes ==
  ASSUME IInv, NEW l \in Loops, NEW a \in Agents, NEW seq, NEW instr,
         loops[l].outcome = "none", Tick(l, a, seq, instr)
  PROVE  \A m \in Loops : Completes(m)
<1> DEFINE lg == Append(log, TickEntry(a, seq, instr, lifecycle[a], memory[a]))
           output == runTick(instr)
<1>1. CASE QuotaExceeded(l, a, log) \/ QuotaExceeded(l, a, lg)
  BY <1>1, SettleCompletes DEF QuotaExceeded, Outcomes
<1>2. CASE EndCompleted(l, a, lg)
  <2>1. CASE IsValid(lifecycle[a], "complete")
    <3>1. lifecycle[a] = "ACTIVE"
      BY <2>1, RowForIsRow, CompletionRows
    <3>2. QED
      BY <1>2, <2>1, <3>1, SettleCompletes DEF EndCompleted, Outcomes
  <2>2. CASE ~IsValid(lifecycle[a], "complete")
    BY <1>2, <2>2, SettleCompletes DEF EndCompleted, Outcomes
  <2>3. QED
    BY <2>1, <2>2
<1>3. ASSUME NEW t, NEW o \in {"FAILED", "DELEGATED"}, EndBy(l, a, lg, t, o)
      PROVE  \A m \in Loops : Completes(m)
  BY <1>3, SettleCompletes DEF EndBy, Outcomes
<1>4. CASE CallTool(l, a, lg, output.arg)
  <2> DEFINE r == [loops[l] EXCEPT !.pc = IF output.arg \in Handlers THEN "tool" ELSE "rejected",
                                   !.agent = a, !.tool = output.arg,
                                   !.invoked = output.arg \in Handlers]
  <2>1. loops' = [loops EXCEPT ![l] = r]
    BY <1>4 DEF CallTool
  <2>2. r.outcome = "none"
    BY DEF IInv, TypeOK, LoopState
  <2> HIDE DEF r
  <2>3. QED
    BY <2>1, <2>2, OthersComplete
<1>5. QED
  BY <1>1, <1>2, <1>3, <1>4 DEF Tick

LEMMA NextCompletes ==
  ASSUME IInv, [Next]_vars
  PROVE  \A l \in Loops : Completes(l)
<1>1. ASSUME UNCHANGED loops
      PROVE  \A l \in Loops : Completes(l)
  BY <1>1 DEF Completes
<1>2. ASSUME NEW l \in Loops, NEW a \in Agents, NEW i \in InitialInstructions,
             RunAgentLoop(l, a, i)
      PROVE  \A m \in Loops : Completes(m)
  <2>1. loops[l].outcome = "none"
    BY <1>2 DEF RunAgentLoop, IInv, LoopOK
  <2>2. QED
    BY <1>2, <2>1, TickCompletes, SettleCompletes DEF RunAgentLoop, Outcomes
<1>3. ASSUME NEW l \in Loops, NEW v \in Values, ToolReturns(l, v)
      PROVE  \A m \in Loops : Completes(m)
  <2>1. loops \in [Loops -> LoopState] /\ loops[l].outcome = "none"
    BY <1>3 DEF ToolReturns, IInv, TypeOK, LoopOK
  <2> DEFINE r == [loops[l] EXCEPT !.pc = "resumed", !.result = v]
  <2>2. r.outcome = "none" /\ loops' = [loops EXCEPT ![l] = r]
    BY <1>3, <2>1 DEF ToolReturns, LoopState
  <2> HIDE DEF r
  <2>3. QED
    BY <2>2, OthersComplete
<1>4. ASSUME NEW l \in Loops, ToolThrows(l)
      PROVE  \A m \in Loops : Completes(m)
  <2>1. loops \in [Loops -> LoopState] /\ loops[l].outcome = "none"
    BY <1>4 DEF ToolThrows, IInv, TypeOK, LoopOK
  <2> DEFINE r == [loops[l] EXCEPT !.pc = "rejected"]
  <2>2. r.outcome = "none" /\ loops' = [loops EXCEPT ![l] = r]
    BY <1>4, <2>1 DEF ToolThrows, LoopState
  <2> HIDE DEF r
  <2>3. QED
    BY <2>2, OthersComplete
<1>5. ASSUME NEW l \in Loops, Resume(l)
      PROVE  \A m \in Loops : Completes(m)
  <2>1. loops[l].outcome = "none" /\ loops[l].agent \in Agents
    BY <1>5 DEF Resume, IInv, LoopOK
  <2>2. QED
    BY <1>5, <2>1, TickCompletes DEF Resume
<1>6. ASSUME NEW l \in Loops, ResumeRejected(l)
      PROVE  \A m \in Loops : Completes(m)
  <2>1. loops[l].agent \in Agents
    BY <1>6 DEF ResumeRejected, IInv, LoopOK
  <2>2. QED
    BY <1>6, <2>1, SettleCompletes DEF ResumeRejected, Outcomes
<1>7. QED
  BY <1>1, <1>2, <1>3, <1>4, <1>5, <1>6
     DEF Next, KernelStep, HostTransition, SetQuota, PersistentWrite, vars

-----------------------------------------------------------------------------
\* Every variable keeps its type, whatever loops and hosts do.
THEOREM TypeCorrect == Spec => []TypeOK
<1>1. IInv => TypeOK
  BY DEF IInv
<1>2. QED
  BY IInvHolds, <1>1, PTL

\* The log alone tells the lifecycle of every agent: what INV-13 asks of the
\* transitions runAgentLoop and its hosts make in any interleaving.
THEOREM LogAlwaysTells == Spec => []LogTellsLifecycle
<1>1. IInv => LogTellsLifecycle
  BY DEF IInv, Good, LogTellsLifecycle
<1>2. QED
  BY IInvHolds, <1>1, PTL

\* A continuation tick only returns what ToolGate logged for its agent before,
\* after the tick that asked for it.
THEOREM ResultsPrecedeReturns == Spec => []ResultBeforeReturn
<1>1. IInv => ResultBeforeReturn
  BY DEF IInv, Good, Causal, ResultBeforeReturn
<1>2. QED
  BY IInvHolds, <1>1, PTL

\* No loop and no host moves an agent out of TERMINATED.
THEOREM SinkHolds == Spec => TerminatedIsSink
<1>1. IInv /\ [Next]_vars =>
        [\A a \in Agents : lifecycle[a] = "TERMINATED" => lifecycle'[a] = "TERMINATED"]_vars
  BY NextIInv DEF StepSound
<1>2. QED
  BY IInvHolds, <1>1, PTL DEF Spec, TerminatedIsSink

\* However many loops are started for an agent, at most one completes it.
THEOREM CompletesOnce == Spec => []CompletedOnce
<1>1. Init => CompletedOnce
  BY DEF Init, CompletedOnce, Idle
<1>2. IInv /\ CompletedOnce /\ [Next]_vars => CompletedOnce'
  <2> SUFFICES ASSUME IInv, CompletedOnce, [Next]_vars,
                      NEW l \in Loops, NEW m \in Loops,
                      loops'[l].outcome = "COMPLETED", loops'[m].outcome = "COMPLETED",
                      loops'[l].agent = loops'[m].agent, l # m
               PROVE  FALSE
    BY DEF CompletedOnce
  <2>1. Completes(l) /\ Completes(m)
    BY NextCompletes
  <2>2. \A k \in Loops : loops[k].outcome = "COMPLETED" =>
                           lifecycle[loops[k].agent] = "TERMINATED"
    BY DEF IInv, LoopOK
  <2>3. QED
    BY <2>1, <2>2 DEF Completes, CompletedOnce
<1>3. QED
  BY IInvHolds, <1>1, <1>2, PTL DEF Spec

-----------------------------------------------------------------------------
\* A move the table allows is a Move of the abstract agent, and completion is a
\* Finish: what is in the log does not matter.
AgentSteps == UNCHANGED lifecycle \/ \E a \in Agents : Agent!Move(a) \/ Agent!Finish(a)

LEMMA SameRows == Agent!Rows = Rows
  BY DEF Agent!Rows, Rows, Agent!VALID_TRANSITIONS, VALID_TRANSITIONS

LEMMA MoveLoggingMoves ==
  ASSUME NEW lg, NEW a \in Agents, NEW t, IsValid(lifecycle[a], t), MoveLogging(lg, a, t)
  PROVE  AgentSteps
<1>1. /\ RowFor(lifecycle[a], t) \in Rows /\ RowFor(lifecycle[a], t).from = lifecycle[a]
      /\ lifecycle' = [lifecycle EXCEPT ![a] = RowFor(lifecycle[a], t).to]
  BY RowForIsRow DEF MoveLogging
<1>2. Agent!Move(a)
  BY <1>1, SameRows DEF Agent!Move
<1>3. QED
  BY <1>2 DEF AgentSteps

LEMMA EndCompletedFinishes ==
  ASSUME NEW lg, NEW l \in Loops, NEW a \in Agents, EndCompleted(l, a, lg)
  PROVE  AgentSteps
<1> DEFINE done == RowFor(lifecycle[a], "complete")
           torn == RowFor(done.to, "teardown_ok")
<1>1. CASE ~IsValid(lifecycle[a], "complete")
  BY <1>1 DEF EndCompleted, LogOnly, AgentSteps
<1>2. CASE IsValid(lifecycle[a], "complete")
  <2>1. /\ done \in Rows /\ done.from = lifecycle[a] /\ done.trigger = "complete"
        /\ done.to = "COMPLETING"
    BY <1>2, RowForIsRow, CompletionRows
  <2>2. torn \in Rows /\ torn.from = done.to /\ torn.trigger = "teardown_ok"
    BY <2>1, TeardownIsValid, RowForIsRow
  <2>3. lifecycle' = [lifecycle EXCEPT ![a] = torn.to]
    BY <1>2 DEF EndCompleted
  <2>4. Agent!Finish(a)
    BY <2>1, <2>2, <2>3, SameRows DEF Agent!Finish
  <2>5. QED
    BY <2>4 DEF AgentSteps
<1>3. QED
  BY <1>1, <1>2

LEMMA TickMoves ==
  ASSUME NEW l \in Loops, NEW a \in Agents, NEW seq, NEW instr, Tick(l, a, seq, instr)
  PROVE  AgentSteps
<1> DEFINE lg == Append(log, TickEntry(a, seq, instr, lifecycle[a], memory[a]))
<1>1. ASSUME NEW x, QuotaExceeded(l, a, x)
      PROVE  AgentSteps
  BY <1>1, MoveLoggingMoves DEF QuotaExceeded, LogOnly, AgentSteps
<1>2. ASSUME NEW t, NEW o, EndBy(l, a, lg, t, o)
      PROVE  AgentSteps
  BY <1>2, MoveLoggingMoves DEF EndBy, LogOnly, AgentSteps
<1>3. ASSUME NEW t, CallTool(l, a, lg, t)
      PROVE  AgentSteps
  BY <1>3 DEF CallTool, LogOnly, AgentSteps
<1>4. QED
  BY <1>1, <1>2, <1>3, EndCompletedFinishes DEF Tick

\* The scheduler implements the lifecycle doc/state-machine.md promises: seen
\* from outside, agents move along the rows of the table and in no other way.
THEOREM SchedulerImplementsLifecycle == Spec => ImplementsAgentLifecycle
<1>1. Init => Agent!Init
  BY DEF Init, Agent!Init
<1>2. IInv /\ [Next]_vars => [\E a \in Agents : Agent!Move(a) \/ Agent!Finish(a)]_lifecycle
  <2> SUFFICES ASSUME IInv, [Next]_vars PROVE AgentSteps
    BY DEF AgentSteps
  <2>1. ASSUME UNCHANGED lifecycle PROVE AgentSteps
    BY <2>1 DEF AgentSteps
  <2>2. ASSUME NEW l \in Loops, NEW a \in Agents, NEW i, RunAgentLoop(l, a, i)
        PROVE  AgentSteps
    BY <2>1, <2>2, TickMoves DEF RunAgentLoop
  <2>3. ASSUME NEW l \in Loops, Resume(l)
        PROVE  AgentSteps
    <3>1. loops[l].agent \in Agents
      BY <2>3 DEF Resume, IInv, LoopOK
    <3>2. QED
      BY <2>3, <3>1, TickMoves DEF Resume
  <2>4. ASSUME NEW a \in Agents, NEW t, HostTransition(a, t)
        PROVE  AgentSteps
    BY <2>4, MoveLoggingMoves DEF HostTransition
  <2>5. QED
    BY <2>1, <2>2, <2>3, <2>4
       DEF Next, KernelStep, ToolReturns, ToolThrows, ResumeRejected, SetQuota, PersistentWrite, vars
<1>3. QED
  BY IInvHolds, <1>1, <1>2, PTL DEF Spec, ImplementsAgentLifecycle, Agent!Session
-----------------------------------------------------------------------------
\* "error" leads to FAULTED, and neither ACTIVE nor WAITING refuses it.
LEMMA ErrorRows ==
  /\ \A r \in Rows : r.trigger = "error" => r.to = "FAULTED"
  /\ IsValid("ACTIVE", "error") /\ IsValid("WAITING", "error")
<1>1. \A r \in Rows : r.trigger = "error" => r.to = "FAULTED"
  BY DEF Rows, VALID_TRANSITIONS
<1>2. /\ [from |-> "ACTIVE", trigger |-> "error", to |-> "FAULTED"] \in Rows
      /\ [from |-> "WAITING", trigger |-> "error", to |-> "FAULTED"] \in Rows
  BY DEF Rows, VALID_TRANSITIONS
<1>3. QED
  BY <1>1, <1>2 DEF IsValid

\* A loop newly out of quota leaves its agent stopped.
Stops(l) ==
  loops'[l].outcome = "QUOTA_EXCEEDED" /\ loops[l].outcome = "none" =>
    lifecycle'[loops'[l].agent] \notin {"ACTIVE", "WAITING"}

LEMMA OthersStop ==
  ASSUME IInv, NEW l \in Loops, NEW r, loops' = [loops EXCEPT ![l] = r],
         r.outcome # "QUOTA_EXCEEDED"
  PROVE  \A m \in Loops : Stops(m)
  BY DEF Stops, IInv, TypeOK

LEMMA SettleStops ==
  ASSUME IInv, NEW l \in Loops, NEW a \in Agents, NEW o \in Outcomes, Settle(l, a, o),
         o = "QUOTA_EXCEEDED" => lifecycle'[a] \notin {"ACTIVE", "WAITING"}
  PROVE  \A m \in Loops : Stops(m)
<1>1. loops[l] \in LoopState /\ loops \in [Loops -> LoopState]
  BY DEF IInv, TypeOK
<1>2. /\ loops' = [loops EXCEPT ![l] = Settled(loops[l], a, o)]
      /\ Settled(loops[l], a, o).outcome = o /\ Settled(loops[l], a, o).agent = a
  BY <1>1 DEF Settle, Settled, LoopState
<1>3. QED
  BY <1>1, <1>2 DEF Stops

LEMMA QuotaExceededStops ==
  ASSUME IInv, NEW l \in Loops, NEW a \in Agents, NEW lg, QuotaExceeded(l, a, lg)
  PROVE  \A m \in Loops : Stops(m)
<1>1. lifecycle \in [Agents -> AgentStates] /\ Settle(l, a, "QUOTA_EXCEEDED")
  BY DEF QuotaExceeded, IInv, TypeOK
<1>2. lifecycle'[a] \notin {"ACTIVE", "WAITING"}
  <2>1. CASE IsValid(lifecycle[a], "error")
    <3>1. /\ RowFor(lifecycle[a], "error").to = "FAULTED"
          /\ lifecycle' = [lifecycle EXCEPT ![a] = RowFor(lifecycle[a], "error").to]
      BY <2>1, RowForIsRow, ErrorRows DEF QuotaExceeded, MoveLogging
    <3>2. QED
      BY <1>1, <3>1
  <2>2. CASE ~IsValid(lifecycle[a], "error")
    BY <2>2, ErrorRows DEF QuotaExceeded, LogOnly
  <2>3. QED
    BY <2>1, <2>2
<1>3. QED
  BY <1>1, <1>2, SettleStops DEF Outcomes

LEMMA TickStops ==
  ASSUME IInv, NEW l \in Loops, NEW a \in Agents, NEW seq, NEW instr,
         loops[l].outcome = "none", Tick(l, a, seq, instr)
  PROVE  \A m \in Loops : Stops(m)
<1> DEFINE lg == Append(log, TickEntry(a, seq, instr, lifecycle[a], memory[a]))
           output == runTick(instr)
<1>1. CASE QuotaExceeded(l, a, log) \/ QuotaExceeded(l, a, lg)
  BY <1>1, QuotaExceededStops
<1>2. CASE EndCompleted(l, a, lg)
  BY <1>2, SettleStops DEF EndCompleted, Outcomes
<1>3. ASSUME NEW t, NEW o \in {"FAILED", "DELEGATED"}, EndBy(l, a, lg, t, o)
      PROVE  \A m \in Loops : Stops(m)
  BY <1>3, SettleStops DEF EndBy, Outcomes
<1>4. CASE CallTool(l, a, lg, output.arg)
  <2> DEFINE r == [loops[l] EXCEPT !.pc = IF output.arg \in Handlers THEN "tool" ELSE "rejected",
                                   !.agent = a, !.tool = output.arg,
                                   !.invoked = output.arg \in Handlers]
  <2>1. loops' = [loops EXCEPT ![l] = r]
    BY <1>4 DEF CallTool
  <2>2. r.outcome = "none"
    BY DEF IInv, TypeOK, LoopState
  <2> HIDE DEF r
  <2>3. QED
    BY <2>1, <2>2, OthersStop
<1>5. QED
  BY <1>1, <1>2, <1>3, <1>4 DEF Tick

LEMMA NextStops ==
  ASSUME IInv, [Next]_vars
  PROVE  \A l \in Loops : Stops(l)
<1>1. ASSUME UNCHANGED loops
      PROVE  \A l \in Loops : Stops(l)
  BY <1>1 DEF Stops
<1>2. ASSUME NEW l \in Loops, NEW a \in Agents, NEW i \in InitialInstructions,
             RunAgentLoop(l, a, i)
      PROVE  \A m \in Loops : Stops(m)
  <2>1. loops[l].outcome = "none"
    BY <1>2 DEF RunAgentLoop, IInv, LoopOK
  <2>2. QED
    BY <1>2, <2>1, TickStops, SettleStops DEF RunAgentLoop, Outcomes
<1>3. ASSUME NEW l \in Loops, NEW v \in Values, ToolReturns(l, v)
      PROVE  \A m \in Loops : Stops(m)
  <2>1. loops \in [Loops -> LoopState] /\ loops[l].outcome = "none"
    BY <1>3 DEF ToolReturns, IInv, TypeOK, LoopOK
  <2> DEFINE r == [loops[l] EXCEPT !.pc = "resumed", !.result = v]
  <2>2. r.outcome = "none" /\ loops' = [loops EXCEPT ![l] = r]
    BY <1>3, <2>1 DEF ToolReturns, LoopState
  <2> HIDE DEF r
  <2>3. QED
    BY <2>2, OthersStop
<1>4. ASSUME NEW l \in Loops, ToolThrows(l)
      PROVE  \A m \in Loops : Stops(m)
  <2>1. loops \in [Loops -> LoopState] /\ loops[l].outcome = "none"
    BY <1>4 DEF ToolThrows, IInv, TypeOK, LoopOK
  <2> DEFINE r == [loops[l] EXCEPT !.pc = "rejected"]
  <2>2. r.outcome = "none" /\ loops' = [loops EXCEPT ![l] = r]
    BY <1>4, <2>1 DEF ToolThrows, LoopState
  <2> HIDE DEF r
  <2>3. QED
    BY <2>2, OthersStop
<1>5. ASSUME NEW l \in Loops, Resume(l)
      PROVE  \A m \in Loops : Stops(m)
  <2>1. loops[l].outcome = "none" /\ loops[l].agent \in Agents
    BY <1>5 DEF Resume, IInv, LoopOK
  <2>2. QED
    BY <1>5, <2>1, TickStops DEF Resume
<1>6. ASSUME NEW l \in Loops, ResumeRejected(l)
      PROVE  \A m \in Loops : Stops(m)
  <2>1. loops[l].agent \in Agents
    BY <1>6 DEF ResumeRejected, IInv, LoopOK
  <2>2. QED
    BY <1>6, <2>1, SettleStops DEF ResumeRejected, Outcomes
<1>7. QED
  BY <1>1, <1>2, <1>3, <1>4, <1>5, <1>6
     DEF Next, KernelStep, HostTransition, SetQuota, PersistentWrite, vars

\* Whatever was done to the agent while its loop was suspended, running out of
\* quota leaves it neither ACTIVE nor WAITING.
THEOREM QuotaStops == Spec => QuotaStopsAgent
<1>1. IInv /\ [Next]_vars =>
        [\A l \in Loops :
           loops'[l].outcome = "QUOTA_EXCEEDED" /\ loops[l].outcome = "none" =>
             lifecycle'[loops'[l].agent] \notin {"ACTIVE", "WAITING"}]_vars
  BY NextStops DEF Stops
<1>2. QED
  BY IInvHolds, <1>1, PTL DEF Spec, QuotaStopsAgent

-----------------------------------------------------------------------------
\* The ticks of an agent in an arbitrary log.
TickCount(lg, a) == Cardinality({i \in DOMAIN lg : IsTick(a, lg[i])})

\* They are finitely many.
LEMMA CountIsTyped ==
  ASSUME NEW lg \in Seq(LogEntries), NEW a
  PROVE  /\ IsFiniteSet({i \in DOMAIN lg : IsTick(a, lg[i])})
         /\ TickCount(lg, a) \in Nat
<1> DEFINE S == {i \in DOMAIN lg : IsTick(a, lg[i])}
<1>1. Len(lg) \in Nat /\ S \subseteq 1..Len(lg)
  OBVIOUS
<1>2. 1 \in Int /\ Len(lg) \in Int
  BY <1>1
<1>3. IsFiniteSet(1..Len(lg))
  BY <1>2, FS_Interval
<1>4. IsFiniteSet(S) /\ Cardinality(S) \in Nat
  BY <1>1, <1>3, FS_Subset, FS_CardinalityType
<1>5. QED
  BY <1>4 DEF TickCount

\* A new entry is one more tick of its agent when it is a tick, and of no other.
LEMMA CountAppend ==
  ASSUME NEW lg \in Seq(LogEntries), NEW e \in LogEntries, NEW a
  PROVE  /\ TickCount(lg, a) \in Nat
         /\ TickCount(Append(lg, e), a) =
              IF IsTick(a, e) THEN TickCount(lg, a) + 1 ELSE TickCount(lg, a)
<1> DEFINE lg2 == Append(lg, e)
           S == {i \in DOMAIN lg : IsTick(a, lg[i])}
           T == {i \in DOMAIN lg2 : IsTick(a, lg2[i])}
<1>1. /\ Len(lg) \in Nat /\ DOMAIN lg = 1..Len(lg)
      /\ DOMAIN lg2 = 1..(Len(lg) + 1) /\ lg2[Len(lg) + 1] = e
      /\ \A i \in 1..Len(lg) : lg2[i] = lg[i]
  BY AppendProperties
<1>2. S \subseteq 1..Len(lg) /\ Len(lg) + 1 \notin S
  BY <1>1
<1>3. IsFiniteSet(S) /\ Cardinality(S) \in Nat
  BY CountIsTyped DEF TickCount
<1>4. CASE IsTick(a, e)
  <2>1. T = S \cup {Len(lg) + 1}
    <3> HIDE DEF lg2
    <3>1. QED
      BY <1>1, <1>4
  <2>2. Cardinality(T) = Cardinality(S) + 1
    <3> HIDE DEF S, T, lg2
    <3>1. QED
      BY <1>2, <1>3, <2>1, FS_AddElement
  <2>3. QED
    BY <1>3, <1>4, <2>2 DEF TickCount
<1>5. CASE ~IsTick(a, e)
  <2>1. T = S
    <3> HIDE DEF lg2
    <3>1. QED
      BY <1>1, <1>5
  <2>2. QED
    BY <1>3, <1>5, <2>1 DEF TickCount
<1>6. QED
  BY <1>4, <1>5

\* The loops of b in an arbitrary map of loops that have called a handler.
Invoked(lps, b) == {l \in Loops : lps[l].agent = b /\ lps[l].invoked}

\* Every logged tick and every call of a handler was counted, and a loop not
\* yet called has called no handler.
Paid ==
  /\ \A a \in Agents : /\ TickCount(log, a) <= usage[a].ticks
                       /\ IsFiniteSet(Invoked(loops, a))
                       /\ Cardinality(Invoked(loops, a)) <= usage[a].toolCalls
  /\ \A l \in Loops : loops[l].pc = "idle" => ~loops[l].invoked

\* What a step does to the ticks of an agent: none is new, or there was room for
\* it; and to the handlers called for it, which moreover needs it ACTIVE.
TicksPaid(b) ==
  /\ TickCount(log', b) <= usage'[b].ticks
  /\ TickCount(log', b) > TickCount(log, b) /\ limits[b] # NoQuota =>
       TickCount(log', b) <= limits[b].maxTicks

CallsPaid(b) ==
  /\ IsFiniteSet(Invoked(loops', b))
  /\ Cardinality(Invoked(loops', b)) <= usage'[b].toolCalls
  /\ Invoked(loops', b) # Invoked(loops, b) =>
       /\ lifecycle[b] = "ACTIVE"
       /\ limits[b] # NoQuota => Cardinality(Invoked(loops', b)) <= limits[b].maxToolCalls

PaidStep ==
  /\ \A b \in Agents : TicksPaid(b) /\ CallsPaid(b)
  /\ \A m \in Loops : loops'[m].pc = "idle" => ~loops'[m].invoked

\* Quotas and usage are numbers.
LEMMA CountersAreTyped ==
  ASSUME IInv, NEW a \in Agents
  PROVE  /\ usage[a].ticks \in Nat /\ usage[a].toolCalls \in Nat
         /\ limits[a] # NoQuota => limits[a].maxTicks \in Nat /\ limits[a].maxToolCalls \in Nat
  BY SchedulerAssumption DEF IInv, TypeOK

\* usage only grows.
LEMMA UsageGrows ==
  ASSUME IInv, NEW a \in Agents, CountTick(a) \/ CountTickAndTool(a)
  PROVE  /\ usage'[a].ticks = usage[a].ticks + 1
         /\ \A b \in Agents : b # a => usage'[b] = usage[b]
         /\ CountTick(a) => usage'[a].toolCalls = usage[a].toolCalls
         /\ CountTickAndTool(a) => usage'[a].toolCalls = usage[a].toolCalls + 1
  BY DEF IInv, TypeOK, CountTick, CountTickAndTool

\* Moves add no tick.
LEMMA MovesAddNoTick ==
  ASSUME NEW lg \in Seq(LogEntries), NEW a \in Agents, NEW r \in Rows, NEW b
  PROVE  /\ Append(lg, MoveEntry(a, r)) \in Seq(LogEntries)
         /\ TickCount(Append(lg, MoveEntry(a, r)), b) = TickCount(lg, b)
<1>1. MoveEntry(a, r) \in LogEntries
  BY DEF LogEntries
<1>2. ~IsTick(b, MoveEntry(a, r))
  BY DEF IsTick, MoveEntry
<1>3. QED
  BY <1>1, <1>2, CountAppend, AppendProperties

\* What ends a loop after a tick adds no tick to the log the tick has reached.
LEMMA EndsAddNoTick ==
  ASSUME NEW lg \in Seq(LogEntries), NEW l \in Loops, NEW a \in Agents, NEW b, NEW t, NEW o,
         NEW x, \/ QuotaExceeded(l, a, lg) \/ EndBy(l, a, lg, t, o)
                \/ EndCompleted(l, a, lg) \/ CallTool(l, a, lg, x)
  PROVE  TickCount(log', b) = TickCount(lg, b)
<1>1. ASSUME NEW u, IsValid(lifecycle[a], u), MoveLogging(lg, a, u)
      PROVE  TickCount(log', b) = TickCount(lg, b)
  BY <1>1, RowForIsRow, MovesAddNoTick DEF MoveLogging
<1>2. ASSUME LogOnly(lg)
      PROVE  TickCount(log', b) = TickCount(lg, b)
  BY <1>2 DEF LogOnly
<1>3. CASE EndCompleted(l, a, lg) /\ IsValid(lifecycle[a], "complete")
  <2> DEFINE done == RowFor(lifecycle[a], "complete")
             torn == RowFor(done.to, "teardown_ok")
             lg1  == Append(lg, MoveEntry(a, done))
  <2>1. done \in Rows /\ torn \in Rows
    BY <1>3, RowForIsRow, CompletionRows, TeardownIsValid
  <2>2. log' = Append(lg1, MoveEntry(a, torn))
    BY <1>3 DEF EndCompleted
  <2> HIDE DEF done, torn
  <2>3. lg1 \in Seq(LogEntries) /\ TickCount(lg1, b) = TickCount(lg, b)
    BY <2>1, MovesAddNoTick
  <2> HIDE DEF lg1
  <2>4. QED
    BY <2>1, <2>2, <2>3, MovesAddNoTick
<1>4. QED
  BY <1>1, <1>2, <1>3 DEF QuotaExceeded, EndBy, EndCompleted, CallTool

\* A round of the loop logs at most one tick, of its agent, which it counted.
LEMMA TickPaysTicks ==
  ASSUME IInv, Paid, NEW l \in Loops, NEW a \in Agents, NEW seq \in {1, 2},
         NEW instr \in InitialInstructions, Tick(l, a, seq, instr)
  PROVE  \A b \in Agents : TicksPaid(b)
<1> DEFINE e == TickEntry(a, seq, instr, lifecycle[a], memory[a])
           lg == Append(log, e)
<1>1. e \in LogEntries /\ e.kind = "TICK_OUTPUT" /\ e.agent = a
  BY TickEntryIsTyped, InitialInstructionsAreTyped DEF IInv, TypeOK
<1>2. log \in Seq(LogEntries) /\ lg \in Seq(LogEntries)
  BY <1>1, AppendProperties DEF IInv, TypeOK
<1> HIDE DEF e
<1> SUFFICES ASSUME NEW b \in Agents PROVE TicksPaid(b)
  OBVIOUS
<1>3. /\ TickCount(log, b) \in Nat /\ TickCount(log, b) <= usage[b].ticks
      /\ TickCount(lg, b) = IF b = a THEN TickCount(log, b) + 1 ELSE TickCount(log, b)
  BY <1>1, <1>2, CountAppend DEF IsTick, Paid
<1>4. /\ usage[b].ticks \in Nat
      /\ usage'[b].ticks = IF b = a THEN usage[b].ticks + 1 ELSE usage[b].ticks
      /\ limits[b] # NoQuota => limits[b].maxTicks \in Nat
  <2>1. CountTick(a) \/ CountTickAndTool(a)
    BY DEF Tick
  <2>2. QED
    BY <2>1, UsageGrows, CountersAreTyped
<1>5. CASE TickCount(log', b) = TickCount(log, b)
  BY <1>3, <1>4, <1>5 DEF TicksPaid
<1>6. CASE ~TicksExceeded(a) /\ TickCount(log', b) = TickCount(lg, b)
  <2>1. b = a /\ limits[b] # NoQuota => usage[b].ticks + 1 <= limits[b].maxTicks
    BY <1>4, <1>6 DEF TicksExceeded
  <2>2. QED
    BY <1>3, <1>4, <1>6, <2>1 DEF TicksPaid
<1>7. TickCount(log', b) = TickCount(log, b) \/ (~TicksExceeded(a) /\ TickCount(log', b) = TickCount(lg, b))
  BY <1>2, EndsAddNoTick DEF Tick, e
<1>8. QED
  BY <1>5, <1>6, <1>7

\* A step of loop l that calls no handler changes nobody's calls.
LEMMA NoCallPays ==
  ASSUME IInv, Paid, NEW l \in Loops, NEW r, r.pc # "idle",
         loops' = [loops EXCEPT ![l] = r], r.invoked = loops[l].invoked,
         r.agent = loops[l].agent \/ ~loops[l].invoked,
         \A b \in Agents : /\ usage'[b].toolCalls \in Nat
                           /\ usage'[b].toolCalls >= usage[b].toolCalls
  PROVE  /\ \A b \in Agents : CallsPaid(b)
         /\ \A m \in Loops : loops'[m].pc = "idle" => ~loops'[m].invoked
<1>0. DOMAIN loops = Loops
  BY DEF IInv, TypeOK
<1>1. /\ loops'[l] = r
      /\ \A m \in Loops : m # l => loops'[m] = loops[m]
  BY <1>0
<1>2. ASSUME NEW b
      PROVE  Invoked(loops', b) = Invoked(loops, b)
  <2>1. ASSUME NEW m \in Loops
        PROVE  loops'[m].agent = b /\ loops'[m].invoked <=> loops[m].agent = b /\ loops[m].invoked
    <3>1. CASE m = l
      BY <1>1, <3>1, Zenon
    <3>2. CASE m # l
      BY <1>1, <3>2, Zenon
    <3>3. QED
      BY <3>1, <3>2
  <2>2. QED
    BY <2>1, Zenon DEF Invoked
<1>3. \A m \in Loops : loops'[m].pc = "idle" => ~loops'[m].invoked
  BY <1>1 DEF Paid
<1>4. ASSUME NEW b \in Agents
      PROVE  CallsPaid(b)
  <2>1. /\ IsFiniteSet(Invoked(loops, b)) /\ Cardinality(Invoked(loops, b)) \in Nat
        /\ Cardinality(Invoked(loops, b)) <= usage[b].toolCalls
        /\ usage[b].toolCalls \in Nat
    BY FS_CardinalityType, CountersAreTyped DEF Paid
  <2>2. Invoked(loops', b) = Invoked(loops, b)
    BY <1>2
  <2>3. usage'[b].toolCalls \in Nat /\ usage'[b].toolCalls >= usage[b].toolCalls
    OBVIOUS
  <2>4. Cardinality(Invoked(loops, b)) <= usage'[b].toolCalls
    BY <2>1, <2>3
  <2>5. QED
    BY <2>1, <2>2, <2>4 DEF CallsPaid
<1>5. QED
  BY <1>3, <1>4

LEMMA SettlePays ==
  ASSUME IInv, Paid, NEW l \in Loops, NEW a \in Agents, NEW o, Settle(l, a, o),
         a = loops[l].agent \/ ~loops[l].invoked,
         \A b \in Agents : /\ usage'[b].toolCalls \in Nat
                           /\ usage'[b].toolCalls >= usage[b].toolCalls
  PROVE  /\ \A b \in Agents : CallsPaid(b)
         /\ \A m \in Loops : loops'[m].pc = "idle" => ~loops'[m].invoked
<1> DEFINE r == Settled(loops[l], a, o)
<1>1. loops[l] \in LoopState
  BY DEF IInv, TypeOK
<1>2. /\ loops' = [loops EXCEPT ![l] = r] /\ r.pc # "idle" /\ r.agent = a
      /\ r.invoked = loops[l].invoked
  BY <1>1 DEF Settle, Settled, LoopState
<1> HIDE DEF r
<1>3. QED
  BY <1>2, NoCallPays

\* A round of the loop calls at most one handler, for an ACTIVE agent, and
\* counted that call; a continuation calls none.
LEMMA TickPaysCalls ==
  ASSUME IInv, Paid, NEW l \in Loops, NEW a \in Agents, NEW seq \in {1, 2},
         NEW instr \in InitialInstructions, Tick(l, a, seq, instr),
         \/ loops[l].pc = "idle" /\ lifecycle[a] = "ACTIVE"
         \/ a = loops[l].agent /\ runTick(instr).kind = "COMPLETED"
  PROVE  /\ \A b \in Agents : CallsPaid(b)
         /\ \A m \in Loops : loops'[m].pc = "idle" => ~loops'[m].invoked
<1> DEFINE lg == Append(log, TickEntry(a, seq, instr, lifecycle[a], memory[a]))
           tool == runTick(instr).arg
<1>1. \A b \in Agents : /\ usage[b].toolCalls \in Nat /\ usage'[b].toolCalls \in Nat
                        /\ usage'[b].toolCalls >= usage[b].toolCalls
  <2>1. CountTick(a) \/ CountTickAndTool(a)
    BY DEF Tick
  <2>2. QED
    BY <2>1, UsageGrows, CountersAreTyped
<1>2. a = loops[l].agent \/ ~loops[l].invoked
  BY DEF Paid
<1>3. ASSUME NEW o, Settle(l, a, o)
      PROVE  /\ \A b \in Agents : CallsPaid(b)
             /\ \A m \in Loops : loops'[m].pc = "idle" => ~loops'[m].invoked
  BY <1>1, <1>2, <1>3, SettlePays
<1>4. CASE runTick(instr).kind = "PENDING_TOOL" /\ CallTool(l, a, lg, tool)
           /\ CountTickAndTool(a) /\ ~ToolCallsExceeded(a)
  <2> DEFINE r == [loops[l] EXCEPT !.pc = IF tool \in Handlers THEN "tool" ELSE "rejected",
                                   !.agent = a, !.tool = tool,
                                   !.invoked = tool \in Handlers]
  <2>1. loops[l].pc = "idle" /\ lifecycle[a] = "ACTIVE" /\ ~loops[l].invoked
    BY <1>4 DEF Paid
  <2>2. loops' = [loops EXCEPT ![l] = r]
    BY <1>4 DEF CallTool
  <2>3. loops[l] \in LoopState /\ loops \in [Loops -> LoopState]
    BY DEF IInv, TypeOK
  <2>4. r.pc # "idle" /\ r.agent = a /\ (r.invoked <=> tool \in Handlers)
    BY <2>3 DEF LoopState
  <2> HIDE DEF r
  <2>5. /\ loops'[l] = r
        /\ \A m \in Loops : m # l => loops'[m] = loops[m]
    BY <2>2, <2>3
  <2>6. \A m \in Loops : loops'[m].pc = "idle" => ~loops'[m].invoked
    BY <2>4, <2>5 DEF Paid
  <2>7. ASSUME NEW b \in Agents
        PROVE  CallsPaid(b)
    <3> DEFINE S == Invoked(loops, b)
               T == Invoked(loops', b)
    <3>1. /\ IsFiniteSet(S) /\ Cardinality(S) \in Nat
          /\ Cardinality(S) <= usage[b].toolCalls /\ l \notin S
      BY <2>1, FS_CardinalityType DEF Paid, Invoked
    <3>2. CASE b = a /\ tool \in Handlers
      <4>1. T = S \cup {l}
        BY <2>1, <2>4, <2>5, <3>2, Zenon DEF Invoked
      <4> HIDE DEF S, T
      <4>2. IsFiniteSet(T) /\ Cardinality(T) = Cardinality(S) + 1
        BY <3>1, <4>1, FS_AddElement
      <4>3. usage'[b].toolCalls = usage[b].toolCalls + 1
        BY <1>4, <3>2, UsageGrows
      <4>4. limits[b] # NoQuota => /\ limits[b].maxToolCalls \in Nat
                                   /\ usage[b].toolCalls + 1 <= limits[b].maxToolCalls
        BY <1>1, <1>4, <3>2, CountersAreTyped DEF ToolCallsExceeded
      <4>5. QED
        BY <1>1, <2>1, <3>1, <3>2, <4>2, <4>3, <4>4 DEF CallsPaid, S, T
    <3>3. CASE ~(b = a /\ tool \in Handlers)
      <4>1. T = S
        BY <2>1, <2>4, <2>5, <3>3, Zenon DEF Invoked
      <4>2. QED
        BY <1>1, <3>1, <4>1 DEF CallsPaid
    <3>4. QED
      BY <3>2, <3>3
  <2>8. QED
    BY <2>6, <2>7
<1>5. QED
  BY <1>3, <1>4 DEF Tick, QuotaExceeded, EndBy, EndCompleted

\* A step that counts nothing, logs no tick and calls no handler.
LEMMA QuietTicks ==
  ASSUME IInv, Paid, UNCHANGED usage,
         \/ log' = log
         \/ \E e \in LogEntries : e.kind # "TICK_OUTPUT" /\ log' = Append(log, e)
  PROVE  \A b \in Agents : TicksPaid(b)
<1> SUFFICES ASSUME NEW b \in Agents PROVE TicksPaid(b)
  OBVIOUS
<1>1. log \in Seq(LogEntries)
  BY DEF IInv, TypeOK
<1>2. TickCount(log, b) \in Nat
  BY <1>1, CountIsTyped
<1>3. TickCount(log', b) = TickCount(log, b)
  <2>1. ASSUME NEW e \in LogEntries, e.kind # "TICK_OUTPUT", log' = Append(log, e)
        PROVE  TickCount(log', b) = TickCount(log, b)
    <3>1. ~IsTick(b, e)
      BY <2>1 DEF IsTick
    <3>2. QED
      BY <1>1, <2>1, <3>1, CountAppend
  <2>2. QED
    BY <2>1
<1>4. TickCount(log, b) <= usage'[b].ticks /\ ~(TickCount(log, b) > TickCount(log, b))
  BY <1>2 DEF Paid
<1>5. QED
  BY <1>3, <1>4 DEF TicksPaid

LEMMA QuietCalls ==
  ASSUME IInv, Paid, UNCHANGED <<usage, loops>>
  PROVE  /\ \A b \in Agents : CallsPaid(b)
         /\ \A m \in Loops : loops'[m].pc = "idle" => ~loops'[m].invoked
  BY DEF CallsPaid, Paid

\* Every step keeps to the quotas.
LEMMA NextPaidStep ==
  ASSUME IInv, Paid, [Next]_vars
  PROVE  PaidStep
<1>1. \A b \in Agents : usage[b].toolCalls \in Nat
  BY CountersAreTyped
<1>2. ASSUME NEW l \in Loops, NEW a \in Agents, NEW i \in InitialInstructions,
             RunAgentLoop(l, a, i)
      PROVE  PaidStep
  <2>1. loops[l].pc = "idle" /\ ~loops[l].invoked
    BY <1>2 DEF RunAgentLoop, Paid
  <2>2. CASE lifecycle[a] = "ACTIVE" /\ Tick(l, a, 1, i)
    BY <2>1, <2>2, TickPaysTicks, TickPaysCalls DEF PaidStep
  <2>3. CASE Settle(l, a, "NOT_ACTIVE") /\ UNCHANGED <<log, lifecycle, usage>>
    <3>1. \A b \in Agents : usage'[b].toolCalls \in Nat /\ usage'[b].toolCalls >= usage[b].toolCalls
      BY <1>1, <2>3
    <3>2. QED
      BY <2>1, <2>3, <3>1, QuietTicks, SettlePays DEF PaidStep
  <2>4. QED
    BY <1>2, <2>2, <2>3 DEF RunAgentLoop
<1>3. ASSUME NEW l \in Loops, NEW v \in Values, ToolReturns(l, v)
      PROVE  PaidStep
  <2> DEFINE e == ToolEntry(loops[l].agent, 1, loops[l].tool, v)
             r == [loops[l] EXCEPT !.pc = "resumed", !.result = v]
  <2>1. loops[l] \in LoopState /\ loops[l].agent \in Agents /\ loops[l].tool \in Tools
    BY <1>3 DEF ToolReturns, IInv, LoopOK
  <2>2. e \in LogEntries /\ e.kind = "TOOL_RESULT" /\ log' = Append(log, e)
    BY <1>3, <2>1 DEF ToolReturns, ToolEntry, LogEntries
  <2>3. /\ loops' = [loops EXCEPT ![l] = r] /\ r.pc # "idle"
        /\ r.agent = loops[l].agent /\ r.invoked = loops[l].invoked
    BY <1>3, <2>1 DEF ToolReturns, LoopState, IInv, TypeOK
  <2> HIDE DEF e, r
  <2>4. UNCHANGED usage
    BY <1>3 DEF ToolReturns
  <2>5. \A b \in Agents : TicksPaid(b)
    BY <2>2, <2>4, QuietTicks
  <2>6. \A b \in Agents : usage'[b].toolCalls \in Nat /\ usage'[b].toolCalls >= usage[b].toolCalls
    BY <1>1, <2>4
  <2>7. QED
    BY <2>3, <2>5, <2>6, NoCallPays DEF PaidStep
<1>4. ASSUME NEW l \in Loops, ToolThrows(l)
      PROVE  PaidStep
  <2> DEFINE r == [loops[l] EXCEPT !.pc = "rejected"]
  <2>1. loops[l] \in LoopState
    BY DEF IInv, TypeOK
  <2>2. /\ loops' = [loops EXCEPT ![l] = r] /\ r.pc # "idle"
        /\ r.agent = loops[l].agent /\ r.invoked = loops[l].invoked
    BY <1>4, <2>1 DEF ToolThrows, LoopState
  <2> HIDE DEF r
  <2>3. UNCHANGED <<log, usage>>
    BY <1>4 DEF ToolThrows
  <2>4. \A b \in Agents : TicksPaid(b)
    BY <2>3, QuietTicks
  <2>5. \A b \in Agents : usage'[b].toolCalls \in Nat /\ usage'[b].toolCalls >= usage[b].toolCalls
    BY <1>1, <2>3
  <2>6. QED
    BY <2>2, <2>4, <2>5, NoCallPays DEF PaidStep
<1>5. ASSUME NEW l \in Loops, Resume(l)
      PROVE  PaidStep
  <2> DEFINE i == [kind |-> "RETURN", arg |-> loops[l].result]
  <2>1. loops[l].agent \in Agents /\ loops[l].result \in Values
    BY <1>5 DEF Resume, IInv, LoopOK
  <2>2. i \in InitialInstructions /\ runTick(i).kind = "COMPLETED"
    BY <2>1 DEF InitialInstructions, runTick, OutputKind
  <2>3. Tick(l, loops[l].agent, 2, i)
    BY <1>5 DEF Resume
  <2> HIDE DEF i
  <2>4. QED
    BY <2>1, <2>2, <2>3, TickPaysTicks, TickPaysCalls DEF PaidStep
<1>6. ASSUME NEW l \in Loops, ResumeRejected(l)
      PROVE  PaidStep
  <2>1. loops[l].agent \in Agents /\ UNCHANGED <<log, usage>>
    BY <1>6 DEF ResumeRejected, IInv, LoopOK
  <2>2. \A b \in Agents : usage'[b].toolCalls \in Nat /\ usage'[b].toolCalls >= usage[b].toolCalls
    BY <1>1, <2>1
  <2>3. Settle(l, loops[l].agent, "TOOL_ERROR")
    BY <1>6 DEF ResumeRejected
  <2>4. QED
    BY <2>1, <2>2, <2>3, QuietTicks, SettlePays DEF PaidStep
<1>7. ASSUME UNCHANGED <<usage, loops>>,
             \/ log' = log
             \/ \E e \in LogEntries : e.kind # "TICK_OUTPUT" /\ log' = Append(log, e)
      PROVE  PaidStep
  BY <1>7, QuietTicks, QuietCalls DEF PaidStep
<1>8. ASSUME NEW a \in Agents, NEW t \in TransitionTriggers, HostTransition(a, t)
      PROVE  PaidStep
  <2> DEFINE e == MoveEntry(a, RowFor(lifecycle[a], t))
  <2>1. e \in LogEntries /\ e.kind = "LIFECYCLE_TRANSITION" /\ log' = Append(log, e)
    BY <1>8, RowForIsRow DEF HostTransition, MoveLogging, MoveEntry, LogEntries
  <2> HIDE DEF e
  <2>2. QED
    BY <1>7, <1>8, <2>1 DEF HostTransition
<1>9. ASSUME NEW a \in Agents, NEW v \in Values, PersistentWrite(a, v)
      PROVE  PaidStep
  <2>1. /\ WriteEntry(a, v) \in LogEntries /\ WriteEntry(a, v).kind # "TICK_OUTPUT"
        /\ log' = Append(log, WriteEntry(a, v)) /\ UNCHANGED <<usage, loops>>
    BY <1>9 DEF PersistentWrite, WriteEntry, LogEntries
  <2>2. QED
    BY <1>7, <2>1
<1>10. QED
  BY <1>2, <1>3, <1>4, <1>5, <1>6, <1>7, <1>8, <1>9 DEF Next, KernelStep, SetQuota, vars

\* What IInv lacks for the quotas: that all of it was counted.
LEMMA PaidHolds == Spec => [](IInv /\ Paid)
<1>1. Init => Paid
  <2> SUFFICES ASSUME Init PROVE Paid
    OBVIOUS
  <2>1. \A l \in Loops : loops[l] = Idle
    BY DEF Init
  <2>2. \A l \in Loops : ~loops[l].invoked
    BY <2>1 DEF Idle
  <2>3. ASSUME NEW a \in Agents
        PROVE  /\ TickCount(log, a) <= usage[a].ticks
               /\ IsFiniteSet(Invoked(loops, a))
               /\ Cardinality(Invoked(loops, a)) <= usage[a].toolCalls
    <3>1. Invoked(loops, a) = {}
      BY <2>2 DEF Invoked
    <3>2. {i \in DOMAIN log : IsTick(a, log[i])} = {}
      BY DEF Init
    <3>3. usage[a].ticks = 0 /\ usage[a].toolCalls = 0
      BY DEF Init
    <3>4. QED
      BY <3>1, <3>2, <3>3, FS_EmptySet DEF TickCount
  <2>4. QED
    BY <2>2, <2>3 DEF Paid
<1>2. IInv /\ Paid /\ [Next]_vars => Paid'
  <2> SUFFICES ASSUME IInv, Paid, [Next]_vars PROVE Paid'
    OBVIOUS
  <2>1. PaidStep
    BY NextPaidStep
  <2>2. \A a \in Agents : /\ TickCount(log', a) <= usage'[a].ticks
                          /\ IsFiniteSet(Invoked(loops', a))
                          /\ Cardinality(Invoked(loops', a)) <= usage'[a].toolCalls
    BY <2>1 DEF PaidStep, TicksPaid, CallsPaid
  <2>3. QED
    BY <2>1, <2>2 DEF Paid, PaidStep, TickCount, Invoked
<1>3. IInv /\ [Next]_vars => IInv'
  BY NextIInv
<1>4. QED
  BY InitIInv, <1>1, <1>2, <1>3, PTL DEF Spec

\* However many loops run for an agent, and whenever its quota was set, a tick is
\* only logged for it within the limit then in force, and after being counted.
THEOREM TicksWithinQuota == Spec => TickQuotaHolds
<1>1. IInv /\ Paid /\ [Next]_vars =>
        [\A a \in Agents :
           TicksOf(a)' > TicksOf(a) =>
             /\ TicksOf(a)' <= usage'[a].ticks
             /\ limits[a] # NoQuota => TicksOf(a)' <= limits[a].maxTicks]_vars
  <2> SUFFICES ASSUME IInv, Paid, [Next]_vars, NEW a \in Agents, TicksOf(a)' > TicksOf(a)
               PROVE  /\ TicksOf(a)' <= usage'[a].ticks
                      /\ limits[a] # NoQuota => TicksOf(a)' <= limits[a].maxTicks
    OBVIOUS
  <2>1. TicksPaid(a)
    BY NextPaidStep DEF PaidStep
  <2>2. TicksOf(a) = TickCount(log, a) /\ TicksOf(a)' = TickCount(log', a)
    BY DEF TicksOf, TickCount
  <2>3. QED
    BY <2>1, <2>2 DEF TicksPaid
<1>2. QED
  BY PaidHolds, <1>1, PTL DEF Spec, TickQuotaHolds

\* A handler is only called for an ACTIVE agent, within the limit then in force.
THEOREM HandlersWithinQuota == Spec => HandlerCallsAreAllowed
<1>1. IInv /\ Paid /\ [Next]_vars =>
        [\A a \in Agents :
           InvokedFor(a)' # InvokedFor(a) =>
             /\ lifecycle[a] = "ACTIVE"
             /\ limits[a] # NoQuota =>
                  Cardinality(InvokedFor(a)') <= limits[a].maxToolCalls]_vars
  <2> SUFFICES ASSUME IInv, Paid, [Next]_vars, NEW a \in Agents,
                      InvokedFor(a)' # InvokedFor(a)
               PROVE  /\ lifecycle[a] = "ACTIVE"
                      /\ limits[a] # NoQuota =>
                           Cardinality(InvokedFor(a)') <= limits[a].maxToolCalls
    OBVIOUS
  <2>1. CallsPaid(a)
    BY NextPaidStep DEF PaidStep
  <2>2. InvokedFor(a) = Invoked(loops, a) /\ InvokedFor(a)' = Invoked(loops', a)
    BY DEF InvokedFor, Invoked
  <2>3. QED
    BY <2>1, <2>2 DEF CallsPaid
<1>2. QED
  BY PaidHolds, <1>1, PTL DEF Spec, HandlerCallsAreAllowed
=============================================================================
