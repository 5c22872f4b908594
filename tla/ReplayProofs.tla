---------------------------- MODULE ReplayProofs ----------------------------
(***************************************************************************)
(* What a replay of any of the runs of a live kernel may come to, for any  *)
(* number of agents, loops, tools, values and replays.                     *)
(*                                                                         *)
(* First the live side: every tick and every result in the log is of some  *)
(* loop that ran, a tick that found its agent ACTIVE and asks for no tool  *)
(* is followed at once by the moves it ends in, no agent remembers without *)
(* a logged write, and a run that ended is in the log as a whole.  Then    *)
(* the replays: one that ended stands on a tick of its log, and one of the *)
(* only run of an agent has done so far what that run did.                 *)
(***************************************************************************)
EXTENDS Replay, SchedulerProofs, WellFoundedInduction

-----------------------------------------------------------------------------
(* Logs.                                                                   *)

\* The first of some numbers is one of them, and no other is below it.
LEMMA FirstIsFirst ==
  ASSUME NEW S, S \subseteq Nat, S # {}
  PROVE  First(S) \in S /\ \A j \in S : First(S) <= j
<1>1. PICK m \in S : \A y \in S : ~(<<y, m>> \in OpToRel(<, Nat))
  BY WFMin, NatLessThanWellFounded
<1>2. ASSUME NEW y \in S
      PROVE  m <= y
  <2>1. m \in Nat /\ y \in Nat
    OBVIOUS
  <2>2. ~(y < m)
    BY <1>1, <2>1 DEF OpToRel
  <2>3. QED
    BY <2>1, <2>2
<1>3. QED
  BY <1>2 DEF First

\* What ticks and results say of themselves.
LEMMA EntriesAreTyped ==
  ASSUME NEW e \in LogEntries
  PROVE  /\ e.kind = "TICK_OUTPUT" =>
              e.stateHash = KernelState(e.output, e.stateHash.lifecycle, e.stateHash.memory)
         /\ e.kind = "TOOL_RESULT" => e.seq = 1 /\ e.result \in Values
<1>1. CASE \E a \in Agents, s \in {1, 2}, i \in Instruction, st \in AgentStates,
              m \in Values \cup {null} : e = TickEntry(a, s, i, st, m)
  BY <1>1 DEF TickEntry, KernelState
<1>2. CASE \E a \in Agents, t \in Tools, v \in Values : e = ToolEntry(a, 1, t, v)
  BY <1>2 DEF ToolEntry
<1>3. CASE \E a \in Agents, r \in Rows : e = MoveEntry(a, r)
  BY <1>3 DEF MoveEntry
<1>4. CASE \E a \in Agents, v \in Values : e = WriteEntry(a, v)
  BY <1>4 DEF WriteEntry
<1>5. QED
  BY <1>1, <1>2, <1>3, <1>4 DEF LogEntries

LEMMA MoveEntryIsMove ==
  ASSUME NEW a \in Agents, NEW r \in Rows
  PROVE  /\ MoveEntry(a, r) \in LogEntries /\ IsMove(a, MoveEntry(a, r))
         /\ MoveEntry(a, r).row = r
BY DEF MoveEntry, LogEntries, IsMove

\* Entries with a number stay where they are as the log grows, and the first of
\* them stays the first.
LEMMA FirstStays ==
  ASSUME NEW lg1 \in Seq(LogEntries), NEW lg2 \in Seq(LogEntries), Extends(lg1, lg2),
         NEW a, NEW kind, NEW seq, Numbered(lg1, a, kind, seq) # {}
  PROVE  /\ Numbered(lg2, a, kind, seq) # {}
         /\ First(Numbered(lg2, a, kind, seq)) = First(Numbered(lg1, a, kind, seq))
         /\ lg2[First(Numbered(lg2, a, kind, seq))] = lg1[First(Numbered(lg1, a, kind, seq))]
<1> DEFINE S == Numbered(lg1, a, kind, seq)
           T == Numbered(lg2, a, kind, seq)
<1>1. /\ Len(lg1) \in Nat /\ Len(lg2) \in Nat /\ Len(lg1) <= Len(lg2)
      /\ DOMAIN lg1 = 1..Len(lg1) /\ DOMAIN lg2 = 1..Len(lg2)
      /\ \A i \in 1..Len(lg1) : lg2[i] = lg1[i]
  BY DEF Extends
<1>2. S \subseteq 1..Len(lg1) /\ T \subseteq 1..Len(lg2) /\ S \subseteq T
  BY <1>1 DEF Numbered
<1>3. \A i \in T : i <= Len(lg1) => i \in S
  BY <1>1 DEF Numbered
<1> HIDE DEF S, T
<1>4. First(S) \in S /\ \A j \in S : First(S) <= j
  <2>1. S \subseteq Nat /\ S # {}
    BY <1>1, <1>2 DEF S
  <2>2. QED
    BY <2>1, FirstIsFirst
<1>5. First(T) \in T /\ \A j \in T : First(T) <= j
  <2>1. T \subseteq Nat /\ T # {}
    <3>1. T \subseteq 1..Len(lg2) /\ Len(lg2) \in Nat /\ First(S) \in T
      BY <1>1, <1>2, <1>4
    <3>2. QED
      BY <3>1
  <2>2. QED
    BY <2>1, FirstIsFirst
<1>6. First(T) = First(S)
  <2>1. First(S) \in T /\ First(S) \in 1..Len(lg1) /\ First(T) \in 1..Len(lg2)
    BY <1>2, <1>4, <1>5
  <2>2. First(T) <= First(S)
    BY <1>5, <2>1
  <2>3. First(T) \in S
    BY <1>1, <1>3, <1>5, <2>1, <2>2
  <2>4. First(S) <= First(T)
    BY <1>4, <2>3
  <2>5. QED
    BY <1>1, <2>1, <2>2, <2>4
<1>7. QED
  BY <1>1, <1>2, <1>4, <1>5, <1>6 DEF S, T

-----------------------------------------------------------------------------
\* Of an arbitrary log: a tick that found its agent ACTIVE and asks for no tool is
\* followed at once by the moves it ends in.
Ends(lg, i) ==
  \E j \in DOMAIN lg : /\ i < j
                       /\ \A k \in (i + 1)..j : IsMove(lg[i].agent, lg[k])
                       /\ lg[j].row.to = EndState[lg[i].output.kind]

Final(e) ==
  /\ e.kind = "TICK_OUTPUT" /\ e.stateHash.lifecycle = "ACTIVE"
  /\ e.output.kind # "PENDING_TOOL"

TicksEnd(lg) == \A i \in DOMAIN lg : Final(lg[i]) => Ends(lg, i)

\* Entry e is a tick, or a result, of the loop in state r that was started with s.
Returning(v) == [kind |-> "RETURN", arg |-> v]

TickOf(e, r, s) ==
  /\ r.agent = e.agent /\ r.pc # "idle" /\ s # null
  /\ e.seq = 1 => e.output = runTick(s) /\ e.stateHash.lifecycle = "ACTIVE"
  /\ e.seq = 2 => /\ s.kind = "CALL_TOOL" /\ r.pc = "settled"
                  /\ e.output = runTick(Returning(r.result))
                  /\ r.outcome = "COMPLETED" => e.stateHash.lifecycle = "ACTIVE"

ResultOf(e, r, s) ==
  /\ r.agent = e.agent /\ r.pc \in {"resumed", "settled"} /\ s # null
  /\ s.kind = "CALL_TOOL" /\ e.result = r.result

\* Every tick and every result in the log is of some loop.
OfLoop(e, lps, st) ==
  /\ e.kind = "TICK_OUTPUT" => \E l \in Loops : TickOf(e, lps[l], st[l])
  /\ e.kind = "TOOL_RESULT" => \E l \in Loops : ResultOf(e, lps[l], st[l])

Owned(lg, lps, st) == \A i \in DOMAIN lg : OfLoop(lg[i], lps, st)

\* No agent has memory, now or in what a tick has hashed, without a write.
Unwritten(a, lg) ==
  \A i \in DOMAIN lg : ~(lg[i].kind = "MEMORY_PERSISTENT_WRITE" /\ lg[i].agent = a)

Remembers(lg, mem) ==
  \A a \in Agents :
    Unwritten(a, lg) => /\ mem[a] = null
                        /\ \A i \in DOMAIN lg : IsTick(a, lg[i]) => lg[i].stateHash.memory = null

\* The log has a tick with that number and output, or a result with that value.
HasTick(lg, a, seq, output) ==
  \E i \in Numbered(lg, a, "TICK_OUTPUT", seq) : lg[i].output = output

HasResult(lg, a, v) ==
  \E i \in Numbered(lg, a, "TOOL_RESULT", 1) : lg[i].result = v

\* The whole of a run is in the log.
HasRun(lg, r, s) ==
  /\ HasTick(lg, r.agent, 1, runTick(s))
  /\ s.kind = "CALL_TOOL" => /\ HasResult(lg, r.agent, r.result)
                             /\ HasTick(lg, r.agent, 2, runTick(Returning(r.result)))

HasEnded(r) == r.outcome \in {"COMPLETED", "FAILED", "DELEGATED"}

RunOK(lg, r, s) ==
  /\ s # null => s \in InitialInstructions /\ r.pc # "idle" /\ r.agent \in Agents
  /\ r.pc \in {"tool", "resumed", "rejected"} =>
       /\ s # null /\ s.kind = "CALL_TOOL"
       /\ HasTick(lg, r.agent, 1, runTick(s))
  /\ r.pc = "resumed" => HasResult(lg, r.agent, r.result)
  /\ HasEnded(r) =>
       /\ r.pc = "settled" /\ s # null /\ HasRun(lg, r, s)
       /\ s.kind # "CALL_TOOL" => r.outcome = EndOutcome[runTick(s).kind]
       /\ s.kind = "CALL_TOOL" => r.outcome = "COMPLETED" /\ r.result \in Values

LiveInv ==
  /\ IInv
  /\ TicksEnd(log) /\ Owned(log, loops, started) /\ Remembers(log, memory)
  /\ started \in [Loops -> InitialInstructions \cup {null}]
  /\ \A l \in Loops : RunOK(log, loops[l], started[l])

-----------------------------------------------------------------------------
\* What the log has it keeps.
LEMMA LogsKeep ==
  ASSUME NEW lg1 \in Seq(LogEntries), NEW lg2 \in Seq(LogEntries), Extends(lg1, lg2), NEW a
  PROVE  /\ \A i \in DOMAIN lg1 : Ends(lg1, i) => Ends(lg2, i)
         /\ \A seq, o : HasTick(lg1, a, seq, o) => HasTick(lg2, a, seq, o)
         /\ \A v : HasResult(lg1, a, v) => HasResult(lg2, a, v)
         /\ Unwritten(a, lg2) => Unwritten(a, lg1)
<1>1. /\ Len(lg1) \in Nat /\ Len(lg2) \in Nat /\ Len(lg1) <= Len(lg2)
      /\ DOMAIN lg1 = 1..Len(lg1) /\ DOMAIN lg2 = 1..Len(lg2)
      /\ \A i \in 1..Len(lg1) : lg2[i] = lg1[i]
  BY DEF Extends
<1>2. \A i \in 1..Len(lg1) : i \in 1..Len(lg2)
  BY <1>1
<1>3. ASSUME NEW i \in DOMAIN lg1, Ends(lg1, i)
      PROVE  Ends(lg2, i)
  <2>1. PICK j \in DOMAIN lg1 : /\ i < j
                                /\ \A k \in (i + 1)..j : IsMove(lg1[i].agent, lg1[k])
                                /\ lg1[j].row.to = EndState[lg1[i].output.kind]
    BY <1>3 DEF Ends
  <2>2. i \in 1..Len(lg1) /\ j \in 1..Len(lg1) /\ lg2[i] = lg1[i] /\ lg2[j] = lg1[j]
    BY <1>1
  <2>3. \A k \in (i + 1)..j : lg2[k] = lg1[k]
    BY <1>1, <2>2
  <2>4. j \in DOMAIN lg2
    BY <1>1, <1>2, <2>2
  <2>5. QED
    BY <2>1, <2>2, <2>3, <2>4 DEF Ends
<1>4. \A kind, seq : \A i \in Numbered(lg1, a, kind, seq) :
        i \in Numbered(lg2, a, kind, seq) /\ lg2[i] = lg1[i]
  BY <1>1, <1>2 DEF Numbered
<1>5. \A seq, o : HasTick(lg1, a, seq, o) => HasTick(lg2, a, seq, o)
  BY <1>4 DEF HasTick
<1>6. \A v : HasResult(lg1, a, v) => HasResult(lg2, a, v)
  BY <1>4 DEF HasResult
<1>7. Unwritten(a, lg2) => Unwritten(a, lg1)
  BY <1>1, <1>2 DEF Unwritten
<1>8. QED
  BY <1>3, <1>5, <1>6, <1>7

LEMMA HasRunStays ==
  ASSUME NEW lg1 \in Seq(LogEntries), NEW lg2 \in Seq(LogEntries), Extends(lg1, lg2),
         NEW r, NEW s
  PROVE  /\ HasRun(lg1, r, s) => HasRun(lg2, r, s)
         /\ RunOK(lg1, r, s) => RunOK(lg2, r, s)
<1>1. /\ \A seq, o : HasTick(lg1, r.agent, seq, o) => HasTick(lg2, r.agent, seq, o)
      /\ \A v : HasResult(lg1, r.agent, v) => HasResult(lg2, r.agent, v)
  BY LogsKeep
<1>2. HasRun(lg1, r, s) => HasRun(lg2, r, s)
  BY <1>1 DEF HasRun
<1>3. RunOK(lg1, r, s) => RunOK(lg2, r, s)
  BY <1>1, <1>2 DEF RunOK
<1>4. QED
  BY <1>2, <1>3

\* Entries that a round of agent a adds: its tick e, and moves.
Enters(lg1, lg2, a, e) ==
  /\ lg2 \in Seq(LogEntries) /\ Len(lg1) + 1 <= Len(lg2)
  /\ lg2[Len(lg1) + 1] = e
  /\ \A i \in (Len(lg1) + 2)..Len(lg2) : IsMove(a, lg2[i])

LEMMA RoundBegins ==
  ASSUME NEW lg \in Seq(LogEntries), NEW e \in LogEntries, NEW a
  PROVE  Enters(lg, Append(lg, e), a, e)
<1>1. /\ Append(lg, e) \in Seq(LogEntries) /\ Len(lg) \in Nat
      /\ Len(Append(lg, e)) = Len(lg) + 1 /\ Append(lg, e)[Len(lg) + 1] = e
  BY AppendProperties
<1>2. QED
  BY <1>1 DEF Enters

LEMMA RoundMoves ==
  ASSUME NEW lg1 \in Seq(LogEntries), NEW lg, NEW e, NEW a \in Agents, NEW r \in Rows,
         Enters(lg1, lg, a, e)
  PROVE  LET lg2 == Append(lg, MoveEntry(a, r))
         IN Enters(lg1, lg2, a, e) /\ Len(lg1) + 1 < Len(lg2) /\ lg2[Len(lg2)].row = r
<1> DEFINE lg2 == Append(lg, MoveEntry(a, r))
<1>1. /\ MoveEntry(a, r) \in LogEntries /\ IsMove(a, MoveEntry(a, r))
      /\ MoveEntry(a, r).row = r
  BY MoveEntryIsMove
<1>2. lg \in Seq(LogEntries) /\ Len(lg1) \in Nat
  BY DEF Enters
<1>3. /\ lg2 \in Seq(LogEntries) /\ Len(lg) \in Nat /\ Len(lg2) = Len(lg) + 1
      /\ lg2[Len(lg) + 1] = MoveEntry(a, r)
      /\ \A i \in 1..Len(lg) : lg2[i] = lg[i]
  BY <1>1, <1>2, AppendProperties
<1> HIDE DEF lg2
<1>4. Len(lg1) + 1 <= Len(lg) /\ Len(lg1) + 1 \in 1..Len(lg)
  BY <1>2, <1>3 DEF Enters
<1>5. ASSUME NEW i \in (Len(lg1) + 2)..Len(lg2)
      PROVE  IsMove(a, lg2[i])
  <2>1. CASE i = Len(lg) + 1
    BY <1>1, <1>3, <2>1
  <2>2. CASE i # Len(lg) + 1
    <3>1. i \in (Len(lg1) + 2)..Len(lg) /\ i \in 1..Len(lg)
      <4>1. Len(lg1) \in Nat /\ Len(lg) \in Nat /\ Len(lg2) = Len(lg) + 1
        BY <1>2, <1>3
      <4>2. i \in Int /\ Len(lg1) + 2 <= i /\ i <= Len(lg)
        BY <2>2, <4>1
      <4>3. QED
        BY <4>1, <4>2
    <3>2. QED
      BY <1>3, <3>1 DEF Enters
  <2>3. QED
    BY <2>1, <2>2
<1>6. Enters(lg1, lg2, a, e)
  <2>1. lg2[Len(lg1) + 1] = e
    BY <1>3, <1>4 DEF Enters
  <2>2. Len(lg1) + 1 <= Len(lg2)
    BY <1>2, <1>3, <1>4
  <2>3. QED
    BY <1>3, <1>5, <2>1, <2>2 DEF Enters
<1>7. Len(lg1) + 1 < Len(lg2) /\ lg2[Len(lg2)].row = r
  BY <1>1, <1>2, <1>3, <1>4
<1>8. QED
  BY <1>6, <1>7 DEF lg2

-----------------------------------------------------------------------------
LEMMA ActiveRows ==
  /\ IsValid("ACTIVE", "complete") /\ IsValid("ACTIVE", "yield") /\ IsValid("ACTIVE", "error")
  /\ \A r \in Rows : /\ r.trigger = "yield" => r.to = "WAITING"
                     /\ r.trigger = "error" => r.to = "FAULTED"
<1>1. /\ [from |-> "ACTIVE", trigger |-> "complete", to |-> "COMPLETING"] \in Rows
      /\ [from |-> "ACTIVE", trigger |-> "yield", to |-> "WAITING"] \in Rows
  BY DEF Rows, VALID_TRANSITIONS
<1>2. IsValid("ACTIVE", "complete") /\ IsValid("ACTIVE", "yield")
  BY <1>1 DEF IsValid
<1>3. \A r \in Rows : r.trigger = "yield" => r.to = "WAITING"
  BY DEF Rows, VALID_TRANSITIONS
<1>4. QED
  BY <1>2, <1>3, ErrorRows

\* What a round of loop l logs and leaves of the loop (r): its tick and the moves
\* it ends in, or, when ticks are used up, the move to FAULTED at most.
Logged(a, e) == Enters(log, log', a, e)

Leaves(l, a, seq, instr, r) ==
  LET e == TickEntry(a, seq, instr, lifecycle[a], memory[a])
      kind == runTick(instr).kind
  IN /\ loops' = [loops EXCEPT ![l] = r]
     /\ r.agent = a /\ r.result = loops[l].result
     /\ Logged(a, e) \/ \A i \in (Len(log) + 1)..Len(log') : log'[i].kind = "LIFECYCLE_TRANSITION"
     /\ Logged(a, e) /\ lifecycle[a] = "ACTIVE" /\ kind # "PENDING_TOOL" => Ends(log', Len(log) + 1)
     /\ \/ r.pc = "settled" /\ ~HasEnded(r)
        \/ r.pc \in {"tool", "rejected"} /\ ~HasEnded(r) /\ Logged(a, e) /\ kind = "PENDING_TOOL"
        \/ /\ r.pc = "settled" /\ Logged(a, e) /\ kind # "PENDING_TOOL"
           /\ r.outcome = EndOutcome[kind]
           /\ r.outcome = "COMPLETED" => lifecycle[a] = "ACTIVE"

\* Moves after the tick end it.
LEMMA MovesEnd ==
  ASSUME NEW lg1 \in Seq(LogEntries), NEW lg2, NEW e, NEW a, e.agent = a,
         Enters(lg1, lg2, a, e), Len(lg1) + 1 < Len(lg2),
         lg2[Len(lg2)].row.to = EndState[e.output.kind]
  PROVE  Ends(lg2, Len(lg1) + 1)
<1>1. /\ Len(lg1) \in Nat /\ lg2 \in Seq(LogEntries) /\ lg2[Len(lg1) + 1] = e
      /\ \A i \in (Len(lg1) + 2)..Len(lg2) : IsMove(a, lg2[i])
  BY DEF Enters
<1>2. Len(lg2) \in Nat /\ DOMAIN lg2 = 1..Len(lg2)
  BY <1>1
<1>3. Len(lg2) \in DOMAIN lg2 /\ Len(lg1) + 1 + 1 = Len(lg1) + 2
  BY <1>1, <1>2
<1>4. QED
  BY <1>1, <1>3 DEF Ends

LEMMA TickRounds ==
  ASSUME IInv, NEW l \in Loops, NEW a \in Agents, NEW seq \in {1, 2},
         NEW instr \in InitialInstructions, loops[l].outcome = "none", Tick(l, a, seq, instr)
  PROVE  \E r : Leaves(l, a, seq, instr, r)
<1> DEFINE e == TickEntry(a, seq, instr, lifecycle[a], memory[a])
           lg == Append(log, e)
           kind == runTick(instr).kind
           n == Len(log) + 1
<1>1. /\ e \in LogEntries /\ e.agent = a /\ e.output.kind = kind
      /\ log \in Seq(LogEntries) /\ lifecycle \in [Agents -> AgentStates]
  BY TickEntryIsTyped, InitialInstructionsAreTyped DEF IInv, TypeOK
<1>2. loops[l] \in LoopState
  BY DEF IInv, TypeOK
<1>3. \A o : LET r == Settled(loops[l], a, o)
             IN r.agent = a /\ r.result = loops[l].result /\ r.pc = "settled" /\ r.outcome = o
  BY <1>2 DEF Settled, LoopState
<1>4. \A o : Settle(l, a, o) => loops' = [loops EXCEPT ![l] = Settled(loops[l], a, o)]
  BY DEF Settle, Settled
<1>5. Enters(log, lg, a, e)
  BY <1>1, RoundBegins
<1>6. CASE QuotaExceeded(l, a, log)
  <2> DEFINE r == Settled(loops[l], a, "QUOTA_EXCEEDED")
  <2>1. loops' = [loops EXCEPT ![l] = r]
    BY <1>4, <1>6 DEF QuotaExceeded
  <2>2. r.agent = a /\ r.result = loops[l].result /\ r.pc = "settled" /\ ~HasEnded(r)
    BY <1>3 DEF HasEnded
  <2>3. \A i \in n..Len(log') : log'[i].kind = "LIFECYCLE_TRANSITION"
    <3>1. CASE LogOnly(log)
      <4>1. log' = log /\ Len(log) \in Nat
        BY <1>1, <3>1 DEF LogOnly
      <4>2. QED
        BY <4>1
    <3>2. CASE IsValid(lifecycle[a], "error") /\ MoveLogging(log, a, "error")
      <4> DEFINE row == RowFor(lifecycle[a], "error")
      <4>1. row \in Rows
        BY <3>2, RowForIsRow
      <4>2. MoveEntry(a, row) \in LogEntries /\ IsMove(a, MoveEntry(a, row))
        BY <4>1, MoveEntryIsMove
      <4>3. log' = Append(log, MoveEntry(a, row))
        BY <3>2 DEF MoveLogging
      <4>4. Len(log) \in Nat /\ Len(log') = n /\ log'[n] = MoveEntry(a, row)
        BY <1>1, <4>2, <4>3, AppendProperties
      <4>5. QED
        BY <4>2, <4>4 DEF IsMove
    <3>3. QED
      BY <1>6, <3>1, <3>2 DEF QuotaExceeded
  <2>4. ~Logged(a, e)
    <3>1. SUFFICES ASSUME Logged(a, e) PROVE FALSE
      OBVIOUS
    <3>2. Len(log) \in Nat /\ log' \in Seq(LogEntries) /\ n <= Len(log') /\ log'[n] = e
      BY <1>1, <3>1 DEF Logged, Enters
    <3>3. n \in n..Len(log')
      BY <3>2
    <3>4. e.kind = "LIFECYCLE_TRANSITION"
      BY <2>3, <3>2, <3>3
    <3>5. e.kind = "TICK_OUTPUT"
      BY DEF TickEntry
    <3>6. QED
      BY <3>4, <3>5
  <2> HIDE DEF r, e
  <2>5. Leaves(l, a, seq, instr, r)
    BY <2>1, <2>2, <2>3, <2>4 DEF Leaves, e
  <2>6. QED
    BY <2>5
\* The other ways in which a round ends have logged the tick.
<1>7. ASSUME NEW t, IsValid(lifecycle[a], t), MoveLogging(lg, a, t)
      PROVE  Logged(a, e) /\ Len(log) + 1 < Len(log') /\ log'[Len(log')].row = RowFor(lifecycle[a], t)
  <2>1. RowFor(lifecycle[a], t) \in Rows
    BY <1>7, RowForIsRow
  <2>2. log' = Append(lg, MoveEntry(a, RowFor(lifecycle[a], t)))
    BY <1>7 DEF MoveLogging
  <2> HIDE DEF lg, e
  <2>3. QED
    BY <1>1, <1>5, <2>1, <2>2, RoundMoves DEF Logged
<1>8. ASSUME LogOnly(lg)
      PROVE  Logged(a, e)
  BY <1>5, <1>8 DEF LogOnly, Logged
<1>9. ASSUME NEW r, loops' = [loops EXCEPT ![l] = r], r.agent = a, r.result = loops[l].result,
             Logged(a, e), r.pc = "settled", ~HasEnded(r), lifecycle[a] # "ACTIVE" \/ kind = "PENDING_TOOL"
      PROVE  Leaves(l, a, seq, instr, r)
  <2> HIDE DEF e
  <2>1. QED
    BY <1>9 DEF Leaves, e
<1>10. ASSUME NEW r, loops' = [loops EXCEPT ![l] = r], r.agent = a, r.result = loops[l].result,
              Logged(a, e), r.pc = "settled", kind # "PENDING_TOOL", r.outcome = EndOutcome[kind],
              Len(log) + 1 < Len(log'), log'[Len(log')].row.to = EndState[kind],
              r.outcome = "COMPLETED" => lifecycle[a] = "ACTIVE"
       PROVE  Leaves(l, a, seq, instr, r)
  <2>1. Ends(log', Len(log) + 1)
    BY <1>1, <1>10, MovesEnd DEF Logged
  <2> HIDE DEF e
  <2>2. QED
    BY <1>10, <2>1 DEF Leaves, e
<1>11. CASE QuotaExceeded(l, a, lg) /\ kind = "PENDING_TOOL"
  <2> DEFINE r == Settled(loops[l], a, "QUOTA_EXCEEDED")
  <2>1. loops' = [loops EXCEPT ![l] = r]
    BY <1>4, <1>11 DEF QuotaExceeded
  <2>2. r.agent = a /\ r.result = loops[l].result /\ r.pc = "settled" /\ ~HasEnded(r)
    BY <1>3 DEF HasEnded
  <2>3. Logged(a, e)
    <3>1. CASE LogOnly(lg)
      BY <1>8, <3>1
    <3>2. CASE IsValid(lifecycle[a], "error") /\ MoveLogging(lg, a, "error")
      <4> HIDE DEF lg, e
      <4>1. QED
        BY <1>7, <3>2
    <3>3. QED
      BY <1>11, <3>1, <3>2 DEF QuotaExceeded
  <2> HIDE DEF r, e
  <2>4. QED
    BY <1>9, <1>11, <2>1, <2>2, <2>3
<1>12. ASSUME NEW t, NEW o, EndBy(l, a, lg, t, o), kind # "PENDING_TOOL",
              o = EndOutcome[kind], o \in {"FAILED", "DELEGATED"}, IsValid("ACTIVE", t),
              \A row \in Rows : row.trigger = t => row.to = EndState[kind]
       PROVE  \E r : Leaves(l, a, seq, instr, r)
  <2>1. CASE IsValid(lifecycle[a], t)
    <3> DEFINE r == Settled(loops[l], a, o)
    <3>1. MoveLogging(lg, a, t) /\ loops' = [loops EXCEPT ![l] = r]
      BY <1>4, <1>12, <2>1 DEF EndBy
    <3>2. RowFor(lifecycle[a], t) \in Rows /\ RowFor(lifecycle[a], t).trigger = t
      BY <2>1, RowForIsRow
    <3> HIDE DEF lg, e
    <3>3. /\ Logged(a, e) /\ Len(log) + 1 < Len(log')
          /\ log'[Len(log')].row = RowFor(lifecycle[a], t)
      BY <1>7, <2>1, <3>1
    <3>4. r.agent = a /\ r.result = loops[l].result /\ r.pc = "settled" /\ r.outcome = o
      BY <1>3
    <3> HIDE DEF r
    <3>5. Leaves(l, a, seq, instr, r)
      BY <1>10, <1>12, <3>1, <3>2, <3>3, <3>4
    <3>6. QED
      BY <3>5
  <2>2. CASE ~IsValid(lifecycle[a], t)
    <3> DEFINE r == Settled(loops[l], a, "LIFECYCLE_ERROR")
    <3>1. LogOnly(lg) /\ loops' = [loops EXCEPT ![l] = r]
      BY <1>4, <1>12, <2>2 DEF EndBy
    <3>2. lifecycle[a] # "ACTIVE"
      BY <1>12, <2>2
    <3>3. r.agent = a /\ r.result = loops[l].result /\ r.pc = "settled" /\ ~HasEnded(r)
      BY <1>3 DEF HasEnded
    <3>4. Logged(a, e)
      BY <1>8, <3>1
    <3> HIDE DEF r, e
    <3>5. QED
      BY <1>9, <3>1, <3>2, <3>3, <3>4
  <2>3. QED
    BY <2>1, <2>2
<1>13. CASE EndCompleted(l, a, lg) /\ kind = "COMPLETED"
  <2> DEFINE done == RowFor(lifecycle[a], "complete")
             torn == RowFor(done.to, "teardown_ok")
  <2>1. CASE IsValid(lifecycle[a], "complete")
    <3> DEFINE r == Settled(loops[l], a, "COMPLETED")
    <3>1. /\ log' = Append(Append(lg, MoveEntry(a, done)), MoveEntry(a, torn))
          /\ loops' = [loops EXCEPT ![l] = r]
      BY <1>4, <1>13, <2>1 DEF EndCompleted
    <3>2. done \in Rows /\ done.from = lifecycle[a] /\ done.trigger = "complete"
      BY <2>1, RowForIsRow
    <3>3. lifecycle[a] = "ACTIVE" /\ done.to = "COMPLETING"
      BY <3>2, CompletionRows
    <3>4. torn \in Rows /\ torn.trigger = "teardown_ok"
      BY <3>3, TeardownIsValid, RowForIsRow
    <3>5. torn.to = "TERMINATED"
      BY <3>4, CompletionRows
    <3> HIDE DEF done, torn, lg, e
    <3>6. Enters(log, Append(lg, MoveEntry(a, done)), a, e)
      BY <1>1, <1>5, <3>2, RoundMoves
    <3>7. Logged(a, e) /\ Len(log) + 1 < Len(log') /\ log'[Len(log')].row = torn
      <4> DEFINE x == Append(lg, MoveEntry(a, done))
      <4>1. log' = Append(x, MoveEntry(a, torn)) /\ Enters(log, x, a, e)
        BY <3>1, <3>6
      <4> HIDE DEF x
      <4>2. QED
        BY <1>1, <3>4, <4>1, RoundMoves DEF Logged
    <3>8. r.agent = a /\ r.result = loops[l].result /\ r.pc = "settled" /\ r.outcome = "COMPLETED"
      BY <1>3
    <3>9. EndOutcome[kind] = "COMPLETED" /\ EndState[kind] = "TERMINATED" /\ kind # "PENDING_TOOL"
      BY <1>13 DEF EndOutcome, EndState
    <3> HIDE DEF r, kind
    <3>10. Leaves(l, a, seq, instr, r)
      BY <1>10, <3>1, <3>3, <3>5, <3>7, <3>8, <3>9
    <3>11. QED
      BY <3>10
  <2>2. CASE ~IsValid(lifecycle[a], "complete")
    <3> DEFINE r == Settled(loops[l], a, "LIFECYCLE_ERROR")
    <3>1. LogOnly(lg) /\ loops' = [loops EXCEPT ![l] = r]
      BY <1>4, <1>13, <2>2 DEF EndCompleted
    <3>2. lifecycle[a] # "ACTIVE"
      BY <2>2, ActiveRows
    <3>3. r.agent = a /\ r.result = loops[l].result /\ r.pc = "settled" /\ ~HasEnded(r)
      BY <1>3 DEF HasEnded
    <3>4. Logged(a, e)
      BY <1>8, <3>1
    <3> HIDE DEF r, e
    <3>5. QED
      BY <1>9, <3>1, <3>2, <3>3, <3>4
  <2>3. QED
    BY <2>1, <2>2
<1>14. ASSUME NEW tool, CallTool(l, a, lg, tool), kind = "PENDING_TOOL"
       PROVE  \E r : Leaves(l, a, seq, instr, r)
  <2> DEFINE r == [loops[l] EXCEPT !.pc = IF tool \in Handlers THEN "tool" ELSE "rejected",
                                   !.agent = a, !.tool = tool, !.invoked = tool \in Handlers]
  <2>1. LogOnly(lg) /\ loops' = [loops EXCEPT ![l] = r]
    BY <1>14 DEF CallTool
  <2>2. /\ r.agent = a /\ r.result = loops[l].result /\ r.pc \in {"tool", "rejected"}
        /\ r.outcome = "none"
    BY <1>2 DEF LoopState
  <2>3. Logged(a, e)
    BY <1>8, <2>1
  <2> HIDE DEF r, e
  <2>4. Leaves(l, a, seq, instr, r)
    BY <1>14, <2>1, <2>2, <2>3 DEF Leaves, HasEnded, e
  <2>5. QED
    BY <2>4
<1>15. /\ kind = "FAILED" => /\ EndOutcome[kind] = "FAILED" /\ EndState[kind] = "FAULTED"
       /\ kind = "PENDING_DELEGATION" => EndOutcome[kind] = "DELEGATED" /\ EndState[kind] = "WAITING"
  BY DEF EndOutcome, EndState
<1>16. CASE EndBy(l, a, lg, "error", "FAILED") /\ kind = "FAILED"
  <2> HIDE DEF lg, kind
  <2>1. QED
    BY <1>12, <1>15, <1>16, ActiveRows
<1>17. CASE EndBy(l, a, lg, "yield", "DELEGATED") /\ kind = "PENDING_DELEGATION"
  <2> HIDE DEF lg, kind
  <2>1. QED
    BY <1>12, <1>15, <1>17, ActiveRows
<1>18. QED
  BY <1>6, <1>11, <1>13, <1>14, <1>16, <1>17 DEF Tick

-----------------------------------------------------------------------------
\* What becomes of a loop in state r1, started with s1.
Goes(r1, s1, r2, s2) ==
  /\ s1 # null => s2 = s1
  /\ r1.pc # "idle" => r2.agent = r1.agent /\ r2.pc # "idle"
  /\ r1.pc \in {"resumed", "settled"} => r2.pc \in {"resumed", "settled"} /\ r2.result = r1.result
  /\ r1.pc = "settled" => r2 = r1

AllGo == \A m \in Loops : Goes(loops[m], started[m], loops'[m], started'[m])

Onward == LiveInv' /\ AllGo

\* What is known of a new entry.
Fits(i) ==
  /\ Final(log'[i]) => Ends(log', i)
  /\ OfLoop(log'[i], loops', started')
  /\ log'[i].kind = "TICK_OUTPUT" => log'[i].stateHash.memory = memory[log'[i].agent]

LEMMA GoesKeeps ==
  ASSUME NEW e, NEW r1, NEW s1, NEW r2, NEW s2, Goes(r1, s1, r2, s2)
  PROVE  /\ TickOf(e, r1, s1) => TickOf(e, r2, s2)
         /\ ResultOf(e, r1, s1) => ResultOf(e, r2, s2)
<1>1. ASSUME TickOf(e, r1, s1)
      PROVE  TickOf(e, r2, s2)
  <2>1. s2 = s1 /\ r2.agent = r1.agent /\ r2.pc # "idle" /\ s2 # null
    BY <1>1 DEF TickOf, Goes
  <2>2. e.seq = 2 => r2 = r1
    BY <1>1 DEF TickOf, Goes
  <2>3. QED
    BY <1>1, <2>1, <2>2 DEF TickOf
<1>2. ASSUME ResultOf(e, r1, s1)
      PROVE  ResultOf(e, r2, s2)
  <2>1. /\ s2 = s1 /\ r2.agent = r1.agent /\ r2.pc \in {"resumed", "settled"}
        /\ r2.result = r1.result
    BY <1>2 DEF ResultOf, Goes
  <2>2. QED
    BY <1>2, <2>1 DEF ResultOf
<1>3. QED
  BY <1>1, <1>2

LEMMA LiveGoes ==
  ASSUME LiveInv, StepSound, IInv',
         started' \in [Loops -> InitialInstructions \cup {null}],
         \A m \in Loops : Goes(loops[m], started[m], loops'[m], started'[m]),
         \A m \in Loops : \/ loops'[m] = loops[m] /\ started'[m] = started[m]
                          \/ RunOK(log', loops'[m], started'[m]),
         \A i \in (Len(log) + 1)..Len(log') : Fits(i),
         \A a \in Agents : memory'[a] = memory[a] \/ ~Unwritten(a, log')
  PROVE  Onward
<1>1. /\ log \in Seq(LogEntries) /\ log' \in Seq(LogEntries) /\ Extends(log, log')
  BY DEF LiveInv, IInv, Good, StepSound
<1>2. /\ Len(log) \in Nat /\ Len(log') \in Nat
      /\ DOMAIN log = 1..Len(log) /\ DOMAIN log' = 1..Len(log')
      /\ \A i \in 1..Len(log) : log'[i] = log[i]
  BY <1>1 DEF Extends
<1>3. \A i \in DOMAIN log' : i \in DOMAIN log \/ i \in (Len(log) + 1)..Len(log')
  BY <1>2
<1>4. TicksEnd(log')
  <2>1. SUFFICES ASSUME NEW i \in DOMAIN log', Final(log'[i])
                 PROVE  Ends(log', i)
    BY DEF TicksEnd
  <2>2. CASE i \in DOMAIN log
    <3>1. log'[i] = log[i]
      BY <1>2, <2>2
    <3>2. Ends(log, i)
      BY <2>1, <2>2, <3>1 DEF LiveInv, TicksEnd
    <3>3. QED
      BY <1>1, <2>2, <3>2, LogsKeep
  <2>3. CASE i \in (Len(log) + 1)..Len(log')
    BY <2>1, <2>3 DEF Fits
  <2>4. QED
    BY <1>3, <2>2, <2>3
<1>5. Owned(log', loops', started')
  <2>1. SUFFICES ASSUME NEW i \in DOMAIN log'
                 PROVE  OfLoop(log'[i], loops', started')
    BY DEF Owned
  <2>2. CASE i \in DOMAIN log
    <3>1. log'[i] = log[i]
      BY <1>2, <2>2
    <3>2. OfLoop(log[i], loops, started)
      BY <2>2 DEF LiveInv, Owned
    <3>3. \A m \in Loops : /\ TickOf(log[i], loops[m], started[m]) => TickOf(log[i], loops'[m], started'[m])
                           /\ ResultOf(log[i], loops[m], started[m]) => ResultOf(log[i], loops'[m], started'[m])
      BY GoesKeeps
    <3>4. QED
      BY <3>1, <3>2, <3>3 DEF OfLoop
  <2>3. CASE i \in (Len(log) + 1)..Len(log')
    BY <2>3 DEF Fits
  <2>4. QED
    BY <1>3, <2>2, <2>3
<1>6. Remembers(log', memory')
  <2>1. SUFFICES ASSUME NEW a \in Agents, Unwritten(a, log')
                 PROVE  /\ memory'[a] = null
                        /\ \A i \in DOMAIN log' : IsTick(a, log'[i]) => log'[i].stateHash.memory = null
    BY DEF Remembers
  <2>2. Unwritten(a, log)
    BY <1>1, <2>1, LogsKeep
  <2>3. /\ memory[a] = null
        /\ \A i \in DOMAIN log : IsTick(a, log[i]) => log[i].stateHash.memory = null
    BY <2>2 DEF LiveInv, Remembers
  <2>4. memory'[a] = null
    BY <2>1, <2>3
  <2>5. ASSUME NEW i \in DOMAIN log', IsTick(a, log'[i])
        PROVE  log'[i].stateHash.memory = null
    <3>1. CASE i \in DOMAIN log
      <4>1. log'[i] = log[i]
        BY <1>2, <3>1
      <4>2. QED
        BY <2>3, <2>5, <3>1, <4>1
    <3>2. CASE i \in (Len(log) + 1)..Len(log')
      <4>1. log'[i].kind = "TICK_OUTPUT" /\ log'[i].agent = a
        BY <2>5 DEF IsTick
      <4>2. log'[i].stateHash.memory = memory[log'[i].agent]
        BY <3>2, <4>1 DEF Fits
      <4>3. QED
        BY <2>3, <4>1, <4>2
    <3>3. QED
      BY <1>3, <3>1, <3>2
  <2>6. QED
    BY <2>4, <2>5
<1>7. ASSUME NEW m \in Loops
      PROVE  RunOK(log', loops'[m], started'[m])
  <2>1. RunOK(log, loops[m], started[m])
    BY DEF LiveInv
  <2>2. RunOK(log', loops[m], started[m])
    BY <1>1, <2>1, HasRunStays
  <2>3. QED
    BY <2>2
<1>8. QED
  BY <1>4, <1>5, <1>6, <1>7 DEF LiveInv, Onward, AllGo

\* A step of one loop, and a step of none.
LEMMA LoopGoes ==
  ASSUME LiveInv, StepSound, IInv', NEW l \in Loops, NEW r, NEW s \in InitialInstructions \cup {null},
         loops' = [loops EXCEPT ![l] = r], started' = [started EXCEPT ![l] = s],
         Goes(loops[l], started[l], r, s), RunOK(log', r, s),
         \A i \in (Len(log) + 1)..Len(log') : Fits(i), UNCHANGED memory
  PROVE  Onward
<1>1. DOMAIN loops = Loops /\ started \in [Loops -> InitialInstructions \cup {null}]
  BY DEF LiveInv, IInv, TypeOK
<1>2. /\ loops'[l] = r /\ started'[l] = s
      /\ \A m \in Loops : m # l => loops'[m] = loops[m] /\ started'[m] = started[m]
      /\ started' \in [Loops -> InitialInstructions \cup {null}]
  BY <1>1
<1>3. \A r1, s1 : Goes(r1, s1, r1, s1)
  BY DEF Goes
<1>4. \A m \in Loops : Goes(loops[m], started[m], loops'[m], started'[m])
  <2>1. SUFFICES ASSUME NEW m \in Loops
                 PROVE  Goes(loops[m], started[m], loops'[m], started'[m])
    OBVIOUS
  <2>2. CASE m = l
    BY <1>2, <2>2
  <2>3. CASE m # l
    <3>1. loops'[m] = loops[m] /\ started'[m] = started[m]
      BY <1>2, <2>3
    <3>2. QED
      BY <1>3, <3>1
  <2>4. QED
    BY <2>2, <2>3
<1>5. \A m \in Loops : \/ loops'[m] = loops[m] /\ started'[m] = started[m]
                       \/ RunOK(log', loops'[m], started'[m])
  BY <1>2
<1>6. QED
  BY <1>2, <1>4, <1>5, LiveGoes

LEMMA HostGoes ==
  ASSUME LiveInv, StepSound, IInv', UNCHANGED <<loops, started>>,
         \A i \in (Len(log) + 1)..Len(log') : log'[i].kind \notin {"TICK_OUTPUT", "TOOL_RESULT"},
         \A a \in Agents : memory'[a] = memory[a] \/ ~Unwritten(a, log')
  PROVE  Onward
<1>1. \A m \in Loops : Goes(loops[m], started[m], loops'[m], started'[m])
  BY DEF Goes
<1>2. \A i \in (Len(log) + 1)..Len(log') : Fits(i)
  BY DEF Fits, Final, OfLoop
<1>3. started' \in [Loops -> InitialInstructions \cup {null}]
  BY DEF LiveInv
<1>4. QED
  BY <1>1, <1>2, <1>3, LiveGoes

\* A step of one loop that logs nothing.
LEMMA LoopGoesUnlogged ==
  ASSUME LiveInv, StepSound, IInv', NEW l \in Loops, NEW r,
         loops' = [loops EXCEPT ![l] = r], UNCHANGED <<log, started, memory>>,
         Goes(loops[l], started[l], r, started[l]), RunOK(log, r, started[l])
  PROVE  Onward
<1>1. started \in [Loops -> InitialInstructions \cup {null}] /\ Len(log) \in Nat
  BY DEF LiveInv, IInv, Good
<1>2. started[l] \in InitialInstructions \cup {null} /\ started' = [started EXCEPT ![l] = started[l]]
  BY <1>1
<1>3. \A i \in (Len(log) + 1)..Len(log') : Fits(i)
  BY <1>1
<1>4. QED
  BY <1>2, <1>3, LoopGoes

\* The entries of a round fit, when its tick is of its loop.
LEMMA RoundFits ==
  ASSUME LiveInv, StepSound, NEW l \in Loops, NEW a \in Agents, NEW seq \in {1, 2},
         NEW instr \in InitialInstructions, NEW r, Leaves(l, a, seq, instr, r),
         LET e == TickEntry(a, seq, instr, lifecycle[a], memory[a])
         IN Logged(a, e) => TickOf(e, r, started'[l])
  PROVE  /\ \A i \in (Len(log) + 1)..Len(log') : Fits(i)
         /\ LET e == TickEntry(a, seq, instr, lifecycle[a], memory[a])
            IN Logged(a, e) => HasTick(log', a, seq, runTick(instr))
<1> DEFINE e == TickEntry(a, seq, instr, lifecycle[a], memory[a])
           kind == runTick(instr).kind
           n == Len(log) + 1
<1>1. /\ e.kind = "TICK_OUTPUT" /\ e.agent = a /\ e.seq = seq /\ e.output = runTick(instr)
      /\ e.stateHash.lifecycle = lifecycle[a] /\ e.stateHash.memory = memory[a]
  BY DEF TickEntry, KernelState
<1>2. /\ log \in Seq(LogEntries) /\ log' \in Seq(LogEntries)
      /\ Len(log) \in Nat /\ Len(log') \in Nat /\ DOMAIN log' = 1..Len(log')
  BY DEF LiveInv, IInv, Good, StepSound
<1>3. DOMAIN loops = Loops
  BY DEF LiveInv, IInv, TypeOK
<1>4. /\ loops'[l] = r
      /\ Logged(a, e) \/ \A i \in n..Len(log') : log'[i].kind = "LIFECYCLE_TRANSITION"
      /\ Logged(a, e) /\ lifecycle[a] = "ACTIVE" /\ kind # "PENDING_TOOL" => Ends(log', n)
      /\ Logged(a, e) => TickOf(e, r, started'[l])
  BY <1>3 DEF Leaves
<1> HIDE DEF e
<1>5. ASSUME NEW i, log'[i].kind = "LIFECYCLE_TRANSITION"
      PROVE  Fits(i)
  BY <1>5 DEF Fits, Final, OfLoop
<1>6. CASE ~Logged(a, e)
  <2>1. \A i \in n..Len(log') : Fits(i)
    BY <1>4, <1>5, <1>6
  <2>2. QED
    BY <1>6, <2>1 DEF e
<1>7. CASE Logged(a, e)
  <2>1. /\ n <= Len(log') /\ log'[n] = e
        /\ \A i \in (Len(log) + 2)..Len(log') : log'[i].kind = "LIFECYCLE_TRANSITION"
    BY <1>7 DEF Logged, Enters, IsMove
  <2>2. Fits(n)
    <3>1. Final(e) => Ends(log', n)
      BY <1>1, <1>4, <1>7 DEF Final
    <3>2. OfLoop(e, loops', started')
      BY <1>1, <1>4, <1>7 DEF OfLoop
    <3>3. e.stateHash.memory = memory[e.agent]
      BY <1>1
    <3>4. QED
      BY <2>1, <3>1, <3>2, <3>3 DEF Fits
  <2>3. \A i \in n..Len(log') : i = n \/ i \in (Len(log) + 2)..Len(log')
    BY <1>2
  <2>4. \A i \in n..Len(log') : Fits(i)
    BY <1>5, <2>1, <2>2, <2>3
  <2>5. HasTick(log', a, seq, runTick(instr))
    <3>1. n \in DOMAIN log'
      BY <1>2, <2>1
    <3>2. n \in Numbered(log', a, "TICK_OUTPUT", seq)
      BY <1>1, <2>1, <3>1 DEF Numbered
    <3>3. QED
      BY <1>1, <2>1, <3>2 DEF HasTick
  <2>6. QED
    BY <2>4, <2>5
<1>8. QED
  BY <1>6, <1>7

\* What kind of instruction asks for a tool.
LEMMA ToolInstructions ==
  ASSUME NEW instr \in InitialInstructions
  PROVE  /\ runTick(instr).kind = "PENDING_TOOL" <=> instr.kind = "CALL_TOOL"
         /\ runTick(instr).kind \in {"PENDING_TOOL", "COMPLETED", "FAILED", "PENDING_DELEGATION"}
BY DEF InitialInstructions, runTick, OutputKind

LEMMA RunLiveKeeps ==
  ASSUME LiveInv, StepSound, IInv', NEW l \in Loops, NEW a \in Agents,
         NEW instr \in InitialInstructions, RunLive(l, a, instr)
  PROVE  Onward
<1> USE ReplayAssumption
<1>1. /\ loops[l].pc = "idle" /\ loops[l].outcome = "none" /\ started[l] = null
      /\ UNCHANGED memory /\ loops[l] \in LoopState
      /\ started \in [Loops -> InitialInstructions \cup {null}]
  BY DEF RunLive, RunAgentLoop, LiveInv, IInv, LoopOK, RunOK
<1>2. CASE lifecycle[a] = "ACTIVE"
  <2> DEFINE e == TickEntry(a, 1, instr, lifecycle[a], memory[a])
  <2>1. Tick(l, a, 1, instr) /\ started' = [started EXCEPT ![l] = instr]
    BY <1>2 DEF RunLive, RunAgentLoop
  <2>2. PICK r : Leaves(l, a, 1, instr, r)
    BY <1>1, <2>1, TickRounds DEF LiveInv
  <2>3. /\ loops' = [loops EXCEPT ![l] = r] /\ r.agent = a
        /\ \/ r.pc = "settled" /\ ~HasEnded(r)
           \/ r.pc \in {"tool", "rejected"} /\ ~HasEnded(r) /\ Logged(a, e) /\ runTick(instr).kind = "PENDING_TOOL"
           \/ /\ r.pc = "settled" /\ Logged(a, e) /\ runTick(instr).kind # "PENDING_TOOL"
              /\ r.outcome = EndOutcome[runTick(instr).kind]
    BY <2>2 DEF Leaves
  <2>4. started'[l] = instr
    BY <1>1, <2>1
  <2>5. TickOf(e, r, instr)
    <3>1. /\ e.agent = a /\ e.seq = 1 /\ e.output = runTick(instr)
          /\ e.stateHash.lifecycle = lifecycle[a]
      BY DEF TickEntry, KernelState
    <3> HIDE DEF e
    <3>2. QED
      BY <1>2, <2>3, <3>1 DEF TickOf
  <2> HIDE DEF e
  <2>6. /\ \A i \in (Len(log) + 1)..Len(log') : Fits(i)
        /\ Logged(a, e) => HasTick(log', a, 1, runTick(instr))
    BY <2>2, <2>4, <2>5, RoundFits DEF e
  <2>7. RunOK(log', r, instr)
    <3>1. r.pc \in {"tool", "rejected"} => instr.kind = "CALL_TOOL" /\ HasTick(log', a, 1, runTick(instr))
      BY <2>3, <2>6, ToolInstructions
    <3>2. HasEnded(r) => /\ r.pc = "settled" /\ instr.kind # "CALL_TOOL"
                         /\ r.outcome = EndOutcome[runTick(instr).kind]
                         /\ HasTick(log', a, 1, runTick(instr))
      BY <2>3, <2>6, ToolInstructions
    <3>3. r.agent = a /\ r.pc \in {"settled", "tool", "rejected"}
      BY <2>3
    <3>4. QED
      BY <3>1, <3>2, <3>3 DEF RunOK, HasRun
  <2>8. Goes(loops[l], started[l], r, instr)
    BY <1>1 DEF Goes
  <2>9. QED
    BY <1>1, <2>1, <2>3, <2>6, <2>7, <2>8, LoopGoes
<1>3. CASE lifecycle[a] # "ACTIVE"
  <2> DEFINE r == Settled(loops[l], a, "NOT_ACTIVE")
  <2>1. /\ Settle(l, a, "NOT_ACTIVE") /\ UNCHANGED <<log, started, memory>>
    BY <1>1, <1>3 DEF RunLive, RunAgentLoop
  <2>2. loops' = [loops EXCEPT ![l] = r]
    BY <2>1 DEF Settle, Settled
  <2>3. r.pc = "settled" /\ r.outcome = "NOT_ACTIVE"
    BY <1>1 DEF Settled, LoopState
  <2> HIDE DEF r
  <2>4. Goes(loops[l], started[l], r, started[l])
    BY <1>1 DEF Goes
  <2>5. RunOK(log, r, started[l])
    BY <1>1, <2>3 DEF RunOK, HasEnded
  <2>6. QED
    BY <2>1, <2>2, <2>4, <2>5, LoopGoesUnlogged
<1>4. QED
  BY <1>2, <1>3

LEMMA ResumeKeeps ==
  ASSUME LiveInv, StepSound, IInv', NEW l \in Loops, Resume(l), UNCHANGED started
  PROVE  Onward
<1> DEFINE a == loops[l].agent
           s == started[l]
           instr == Returning(loops[l].result)
           e == TickEntry(a, 2, instr, lifecycle[a], memory[a])
<1>1. /\ loops[l].pc = "resumed" /\ loops[l].outcome = "none" /\ a \in Agents
      /\ loops[l].result \in Values
  BY DEF Resume, LiveInv, IInv, LoopOK
<1>2. /\ RunOK(log, loops[l], s) /\ s \in InitialInstructions /\ s # null /\ s.kind = "CALL_TOOL"
      /\ started \in [Loops -> InitialInstructions \cup {null}]
  BY <1>1 DEF LiveInv, RunOK
<1>3. Tick(l, a, 2, instr) /\ UNCHANGED memory
  BY DEF Resume, Returning
<1>4. instr \in InitialInstructions /\ runTick(instr).kind = "COMPLETED"
  BY <1>1 DEF InitialInstructions, runTick, OutputKind, Returning
<1> HIDE DEF instr, a
<1>5. PICK r : Leaves(l, a, 2, instr, r)
  BY <1>1, <1>3, <1>4, TickRounds DEF LiveInv
<1>6. /\ loops' = [loops EXCEPT ![l] = r] /\ r.agent = a /\ r.result = loops[l].result
      /\ r.pc = "settled"
      /\ HasEnded(r) => r.outcome = "COMPLETED" /\ Logged(a, e)
      /\ r.outcome = "COMPLETED" => lifecycle[a] = "ACTIVE"
  BY <1>4, <1>5 DEF Leaves, HasEnded, EndOutcome
<1>7. TickOf(e, r, s)
  <2>1. /\ e.agent = a /\ e.seq = 2 /\ e.output = runTick(instr)
        /\ e.stateHash.lifecycle = lifecycle[a]
    BY DEF TickEntry, KernelState
  <2> HIDE DEF e
  <2>2. QED
    BY <1>2, <1>6, <2>1 DEF TickOf, instr
<1> HIDE DEF e
<1>8. /\ \A i \in (Len(log) + 1)..Len(log') : Fits(i)
      /\ Logged(a, e) => HasTick(log', a, 2, runTick(instr))
  BY <1>1, <1>4, <1>5, <1>7, RoundFits DEF e
<1>9. RunOK(log', r, s)
  <2>1. RunOK(log', loops[l], s)
    BY <1>2, HasRunStays DEF LiveInv, IInv, Good, StepSound
  <2>2. HasTick(log', a, 1, runTick(s)) /\ HasResult(log', a, r.result)
    BY <1>1, <1>6, <2>1 DEF RunOK, a
  <2>3. HasEnded(r) => HasRun(log', r, s)
    BY <1>6, <1>8, <2>2 DEF HasRun, instr
  <2>4. QED
    BY <1>1, <1>2, <1>6, <2>3 DEF RunOK
<1>10. Goes(loops[l], s, r, s)
  BY <1>1, <1>6 DEF Goes, a
<1>11. started' = [started EXCEPT ![l] = s]
  BY <1>2
<1>12. QED
  BY <1>2, <1>3, <1>6, <1>8, <1>9, <1>10, <1>11, LoopGoes

LEMMA ToolReturnsKeeps ==
  ASSUME LiveInv, StepSound, IInv', NEW l \in Loops, NEW v \in Values, ToolReturns(l, v),
         UNCHANGED started
  PROVE  Onward
<1> DEFINE a == loops[l].agent
           s == started[l]
           e == ToolEntry(a, 1, loops[l].tool, v)
           r == [loops[l] EXCEPT !.pc = "resumed", !.result = v]
<1>1. /\ loops[l].pc = "tool" /\ loops[l].outcome = "none" /\ a \in Agents
      /\ loops[l].tool \in Tools /\ loops[l] \in LoopState /\ DOMAIN loops = Loops
  BY DEF ToolReturns, LiveInv, IInv, LoopOK, TypeOK
<1>2. /\ RunOK(log, loops[l], s) /\ s \in InitialInstructions /\ s # null /\ s.kind = "CALL_TOOL"
      /\ started \in [Loops -> InitialInstructions \cup {null}] /\ log \in Seq(LogEntries)
  BY <1>1 DEF LiveInv, RunOK, IInv, Good
<1>3. /\ e \in LogEntries /\ e.kind = "TOOL_RESULT" /\ e.agent = a /\ e.seq = 1 /\ e.result = v
  BY <1>1 DEF ToolEntry, LogEntries
<1>4. /\ r.pc = "resumed" /\ r.result = v /\ r.agent = a /\ r.outcome = "none"
  BY <1>1 DEF LoopState
<1>5. /\ log' = Append(log, e) /\ loops' = [loops EXCEPT ![l] = r] /\ UNCHANGED memory
  BY DEF ToolReturns
<1> HIDE DEF e, r
<1>6. /\ Len(log) \in Nat /\ log' \in Seq(LogEntries) /\ Len(log') = Len(log) + 1
      /\ DOMAIN log' = 1..Len(log') /\ log'[Len(log) + 1] = e
  BY <1>2, <1>3, <1>5, AppendProperties
<1>7. ResultOf(e, r, s)
  BY <1>2, <1>3, <1>4 DEF ResultOf
<1>8. loops'[l] = r /\ started'[l] = s
  BY <1>1, <1>5
<1>9. Fits(Len(log) + 1)
  BY <1>3, <1>6, <1>7, <1>8 DEF Fits, Final, OfLoop
<1>10. \A i \in (Len(log) + 1)..Len(log') : i = Len(log) + 1
  BY <1>6
<1>11. HasResult(log', a, v)
  <2>1. Len(log) + 1 \in Numbered(log', a, "TOOL_RESULT", 1)
    BY <1>3, <1>6 DEF Numbered
  <2>2. QED
    BY <1>3, <1>6, <2>1 DEF HasResult
<1>12. RunOK(log', r, s)
  <2>1. RunOK(log', loops[l], s)
    BY <1>2, HasRunStays DEF LiveInv, IInv, Good, StepSound
  <2>2. HasTick(log', a, 1, runTick(s))
    BY <1>1, <2>1 DEF RunOK
  <2>3. QED
    BY <1>1, <1>2, <1>4, <1>11, <2>2 DEF RunOK, HasEnded
<1>13. Goes(loops[l], s, r, s)
  BY <1>1, <1>4 DEF Goes
<1>14. started' = [started EXCEPT ![l] = s]
  BY <1>2
<1>15. QED
  BY <1>2, <1>5, <1>9, <1>10, <1>12, <1>13, <1>14, LoopGoes

\* Steps of loops that only settle, and of hosts.
LEMMA SettlingKeeps ==
  ASSUME LiveInv, StepSound, IInv', NEW l \in Loops, ToolThrows(l) \/ ResumeRejected(l),
         UNCHANGED started
  PROVE  Onward
<1> DEFINE s == started[l]
<1>1. /\ loops[l].pc \in {"tool", "rejected"} /\ loops[l].outcome = "none"
      /\ loops[l].agent \in Agents /\ loops[l] \in LoopState
  BY DEF ToolThrows, ResumeRejected, LiveInv, IInv, LoopOK
<1>2. RunOK(log, loops[l], s) /\ UNCHANGED <<log, started, memory>>
  BY DEF LiveInv, ToolThrows, ResumeRejected
<1>3. CASE ToolThrows(l)
  <2> DEFINE r == [loops[l] EXCEPT !.pc = "rejected"]
  <2>1. loops' = [loops EXCEPT ![l] = r]
    BY <1>3 DEF ToolThrows
  <2>2. r.pc = "rejected" /\ r.agent = loops[l].agent /\ r.outcome = "none"
    BY <1>1 DEF LoopState
  <2> HIDE DEF r
  <2>3. RunOK(log, r, s)
    BY <1>1, <1>2, <2>2 DEF RunOK, HasEnded
  <2>4. Goes(loops[l], s, r, s)
    BY <1>1, <2>2 DEF Goes
  <2>5. QED
    BY <1>2, <2>1, <2>3, <2>4, LoopGoesUnlogged
<1>4. CASE ResumeRejected(l)
  <2> DEFINE r == Settled(loops[l], loops[l].agent, "TOOL_ERROR")
  <2>1. loops' = [loops EXCEPT ![l] = r]
    BY <1>4 DEF ResumeRejected, Settle, Settled
  <2>2. r.pc = "settled" /\ r.agent = loops[l].agent /\ r.outcome = "TOOL_ERROR"
    BY <1>1 DEF LoopState, Settled
  <2>3. loops[l].pc = "rejected"
    BY <1>4 DEF ResumeRejected
  <2> HIDE DEF r
  <2>4. RunOK(log, r, s)
    BY <1>1, <1>2, <2>2 DEF RunOK, HasEnded
  <2>5. Goes(loops[l], s, r, s)
    BY <2>2, <2>3 DEF Goes
  <2>6. QED
    BY <1>2, <2>1, <2>4, <2>5, LoopGoesUnlogged
<1>5. QED
  BY <1>3, <1>4

LEMMA HostKeeps ==
  ASSUME LiveInv, StepSound, IInv', UNCHANGED started,
         \/ \E a \in Agents : \/ \E t \in TransitionTriggers : HostTransition(a, t)
                              \/ \E q \in Quotas : SetQuota(a, q)
                              \/ \E v \in Values : PersistentWrite(a, v)
         \/ UNCHANGED vars
  PROVE  Onward
<1>1. log \in Seq(LogEntries) /\ Len(log) \in Nat
  BY DEF LiveInv, IInv, Good
<1>2. ASSUME NEW e \in LogEntries, log' = Append(log, e), e.kind \notin {"TICK_OUTPUT", "TOOL_RESULT"},
             UNCHANGED loops,
             \A a \in Agents : \/ memory'[a] = memory[a]
                               \/ e.kind = "MEMORY_PERSISTENT_WRITE" /\ e.agent = a
      PROVE  Onward
  <2>1. /\ Len(log') = Len(log) + 1 /\ log'[Len(log) + 1] = e
        /\ DOMAIN log' = 1..(Len(log) + 1)
    BY <1>1, <1>2, AppendProperties
  <2>2. \A i \in (Len(log) + 1)..Len(log') : log'[i].kind \notin {"TICK_OUTPUT", "TOOL_RESULT"}
    BY <1>1, <1>2, <2>1
  <2>3. Len(log) + 1 \in DOMAIN log'
    BY <1>1, <2>1
  <2>4. \A a \in Agents : memory'[a] = memory[a] \/ ~Unwritten(a, log')
    BY <1>2, <2>1, <2>3 DEF Unwritten
  <2>5. QED
    BY <1>2, <2>2, <2>4, HostGoes
<1>3. ASSUME UNCHANGED <<log, loops, memory>>
      PROVE  Onward
  <2>1. \A i \in (Len(log) + 1)..Len(log') : FALSE
    BY <1>1, <1>3
  <2>2. QED
    BY <1>3, <2>1, HostGoes
<1>4. ASSUME NEW a \in Agents, NEW t \in TransitionTriggers, HostTransition(a, t)
      PROVE  Onward
  <2> DEFINE row == RowFor(lifecycle[a], t)
  <2>1. row \in Rows
    BY <1>4, RowForIsRow DEF HostTransition
  <2>2. MoveEntry(a, row) \in LogEntries /\ MoveEntry(a, row).kind = "LIFECYCLE_TRANSITION"
    BY <2>1, MoveEntryIsMove DEF IsMove
  <2>3. log' = Append(log, MoveEntry(a, row)) /\ UNCHANGED <<loops, memory>>
    BY <1>4 DEF HostTransition, MoveLogging
  <2> HIDE DEF row
  <2>4. QED
    BY <1>2, <2>2, <2>3
<1>5. ASSUME NEW a \in Agents, NEW q \in Quotas, SetQuota(a, q)
      PROVE  Onward
  BY <1>3, <1>5 DEF SetQuota
<1>6. ASSUME NEW a \in Agents, NEW v \in Values, PersistentWrite(a, v)
      PROVE  Onward
  <2> DEFINE e == WriteEntry(a, v)
  <2>1. e \in LogEntries /\ e.kind = "MEMORY_PERSISTENT_WRITE" /\ e.agent = a
    BY DEF WriteEntry, LogEntries
  <2>2. log' = Append(log, e) /\ UNCHANGED loops /\ memory' = [memory EXCEPT ![a] = v]
    BY <1>6 DEF PersistentWrite
  <2>3. \A b \in Agents : b # a => memory'[b] = memory[b]
    BY <2>2 DEF LiveInv, IInv, TypeOK
  <2> HIDE DEF e
  <2>4. QED
    BY <1>2, <2>1, <2>2, <2>3
<1>7. CASE UNCHANGED vars
  BY <1>3, <1>7 DEF vars
<1>8. QED
  BY <1>4, <1>5, <1>6, <1>7

\* A step of the live kernel, or of a replay, which leaves it alone.
LEMMA LiveNext ==
  ASSUME LiveInv, [ReplayNext]_allVars
  PROVE  Onward /\ StepSound
<1>1. [Next]_vars
  BY DEF ReplayNext, RunLive, Next, StartReplay, RestartAndReplay, Repeat, ResumeReplay,
         RejectReplay, allVars, vars
<1>2. StepSound /\ IInv'
  BY <1>1, NextIInv DEF LiveInv
<1>3. CASE UNCHANGED <<vars, started>>
  BY <1>2, <1>3, HostKeeps
<1>4. ASSUME NEW l \in Loops, NEW a \in Agents, NEW i \in InitialInstructions, RunLive(l, a, i)
      PROVE  Onward
  BY <1>2, <1>4, RunLiveKeeps
<1>5. CASE KernelStep /\ UNCHANGED replayVars
  <2>1. UNCHANGED started
    BY <1>5 DEF replayVars
  <2>2. ASSUME NEW l \in Loops,
               \/ \E v \in Values : ToolReturns(l, v)
               \/ ToolThrows(l) \/ Resume(l) \/ ResumeRejected(l)
        PROVE  Onward
    BY <1>2, <2>1, <2>2, ToolReturnsKeeps, SettlingKeeps, ResumeKeeps
  <2>3. ASSUME \E a \in Agents : \/ \E t \in TransitionTriggers : HostTransition(a, t)
                                 \/ \E q \in Quotas : SetQuota(a, q)
                                 \/ \E v \in Values : PersistentWrite(a, v)
        PROVE  Onward
    BY <1>2, <2>1, <2>3, HostKeeps
  <2>4. CASE \E l \in Loops : \/ \E v \in Values : ToolReturns(l, v)
                             \/ ToolThrows(l) \/ Resume(l) \/ ResumeRejected(l)
    BY <1>2, <2>2, <2>4
  <2>5. QED
    BY <1>2, <1>5, <2>3, <2>4 DEF KernelStep
<1>6. CASE \E r \in Replays : \/ \E l \in Loops : StartReplay(r, l) \/ RestartAndReplay(r, l)
                              \/ ResumeReplay(r)
                              \/ RejectReplay(r)
  BY <1>3, <1>6 DEF StartReplay, RestartAndReplay, Repeat, ResumeReplay, RejectReplay
<1>7. CASE UNCHANGED allVars
  BY <1>3, <1>7 DEF allVars, vars
<1>8. QED
  BY <1>2, <1>4, <1>5, <1>6, <1>7 DEF ReplayNext

LEMMA InitLiveInv == ReplayInit => LiveInv
<1> SUFFICES ASSUME ReplayInit PROVE LiveInv
  OBVIOUS
<1>1. IInv
  BY InitIInv DEF ReplayInit
<1>2. /\ log = << >> /\ memory = [a \in Agents |-> null] /\ loops = [l \in Loops |-> Idle]
      /\ started = [l \in Loops |-> null]
  BY DEF ReplayInit, Init
<1>3. DOMAIN log = {}
  BY <1>2
<1>4. TicksEnd(log) /\ Owned(log, loops, started)
  BY <1>3 DEF TicksEnd, Owned
<1>5. Remembers(log, memory)
  BY <1>2, <1>3 DEF Remembers
<1>6. started \in [Loops -> InitialInstructions \cup {null}]
  BY <1>2
<1>7. ASSUME NEW l \in Loops
      PROVE  RunOK(log, loops[l], started[l])
  <2>1. loops[l].pc = "idle" /\ loops[l].outcome = "none" /\ started[l] = null
    BY <1>2 DEF Idle
  <2>2. QED
    BY <2>1 DEF RunOK, HasEnded
<1>8. QED
  BY <1>1, <1>4, <1>5, <1>6, <1>7 DEF LiveInv

-----------------------------------------------------------------------------
\* What is known of a replay rp, of a run in state r that was started with s.
LogOf(rp, lg) == IF rp.fresh THEN SubSeq(lg, 1, rp.seen) ELSE lg

LastOf(rp, s) ==
  IF rp.result = null THEN [seq |-> 1, output |-> runTick(s)]
                      ELSE [seq |-> 2, output |-> runTick(Returning(rp.result))]

ValueOf(r, s) ==
  CASE s.kind = "RETURN"    -> s.arg
    [] s.kind = "CALL_TOOL" -> r.result
    [] OTHER                -> null

\* It stands on a tick of its log, and the live log has its end.
Stands(rp, lg, r, s) ==
  LET ticks == Numbered(LogOf(rp, lg), r.agent, "TICK_OUTPUT", LastOf(rp, s).seq)
  IN ticks # {} /\ LogOf(rp, lg)[First(ticks)].output = LastOf(rp, s).output

EndIsLogged(rp, lg, a) ==
  \E i, j \in DOMAIN lg : /\ i < j
                          /\ IsTick(a, lg[i]) /\ lg[i].output.arg = rp.value
                          /\ \A k \in (i + 1)..j : IsMove(a, lg[k])
                          /\ lg[j].row.to = rp.state

Underway(rp, lg, r, s) ==
  /\ s # null /\ rp.seen <= Len(lg)
  /\ rp.pc # "settled" => rp.state = "ACTIVE"
  /\ rp.pc = "resumed" => rp.result \in Values
  /\ rp.state # "ACTIVE" => Stands(rp, lg, r, s) /\ EndIsLogged(rp, lg, r.agent)
  /\ rp.ended => HasEnded(r) /\ HasRun(LogOf(rp, lg), r, s)

\* It repeats what the run did.
Repeats(rp, r, s) ==
  /\ rp.pc # "rejected"
  /\ rp.pc = "resumed" => rp.result = r.result /\ s.kind = "CALL_TOOL"
  /\ rp.pc = "settled" => rp.outcome = r.outcome /\ rp.value = ValueOf(r, s)

AloneIn(l, lps, st) == \A m \in Loops \ {l} : lps[m].agent # lps[l].agent \/ st[m] = null

Sole(l, lg, lps, st) == AloneIn(l, lps, st) /\ Unwritten(lps[l].agent, lg)

ReplayOK(rp, lg, lps, st) ==
  /\ rp \in ReplayState
  /\ rp.pc = "idle" => rp.state = "DEFINED"
  /\ rp.pc # "idle" =>
       /\ rp.of \in Loops
       /\ Underway(rp, lg, lps[rp.of], st[rp.of])
       /\ rp.ended /\ Sole(rp.of, lg, lps, st) => Repeats(rp, lps[rp.of], st[rp.of])

ReplayInv ==
  /\ LiveInv
  /\ DOMAIN replays = Replays
  /\ \A q \in Replays : ReplayOK(replays[q], log, loops, started)

\* The log of a replay is a part of the log it starts with, and grows with it.
LEMMA LogOfGrows ==
  ASSUME NEW rp \in ReplayState, NEW lg1 \in Seq(LogEntries), NEW lg2 \in Seq(LogEntries),
         Extends(lg1, lg2), rp.seen <= Len(lg1)
  PROVE  /\ LogOf(rp, lg1) \in Seq(LogEntries) /\ LogOf(rp, lg2) \in Seq(LogEntries)
         /\ Extends(LogOf(rp, lg1), lg1) /\ Extends(LogOf(rp, lg1), LogOf(rp, lg2))
<1>1. /\ Len(lg1) \in Nat /\ Len(lg2) \in Nat /\ Len(lg1) <= Len(lg2) /\ rp.seen \in Nat
      /\ \A i \in 1..Len(lg1) : lg2[i] = lg1[i]
  BY DEF Extends, ReplayState
<1>2. CASE ~rp.fresh
  <2>1. LogOf(rp, lg1) = lg1 /\ LogOf(rp, lg2) = lg2
    BY <1>2 DEF LogOf
  <2>2. Extends(lg1, lg1)
    BY <1>1 DEF Extends
  <2>3. QED
    BY <2>1, <2>2
<1>3. CASE rp.fresh
  <2> DEFINE n == rp.seen
             s1 == SubSeq(lg1, 1, n)
             s2 == SubSeq(lg2, 1, n)
  <2>1. LogOf(rp, lg1) = s1 /\ LogOf(rp, lg2) = s2
    BY <1>3 DEF LogOf
  <2>2. /\ s1 \in Seq(LogEntries) /\ Len(s1) = n
        /\ \A i \in 1..n : s1[i] = lg1[i]
    BY <1>1
  <2>3. /\ s2 \in Seq(LogEntries) /\ Len(s2) = n
        /\ \A i \in 1..n : s2[i] = lg2[i]
    BY <1>1
  <2>4. \A i \in 1..n : i \in 1..Len(lg1)
    BY <1>1
  <2> HIDE DEF s1, s2
  <2>5. Extends(s1, lg1) /\ Extends(s1, s2)
    BY <1>1, <2>2, <2>3, <2>4 DEF Extends
  <2>6. QED
    BY <2>1, <2>2, <2>3, <2>5
<1>4. QED
  BY <1>2, <1>3

\* Replays keep what they know while the live kernel goes on.
LEMMA UnderwayStays ==
  ASSUME NEW rp \in ReplayState, NEW lg1 \in Seq(LogEntries), NEW lg2 \in Seq(LogEntries),
         Extends(lg1, lg2), NEW r1, NEW s1, NEW r2, NEW s2,
         Goes(r1, s1, r2, s2), RunOK(lg1, r1, s1), Underway(rp, lg1, r1, s1)
  PROVE  /\ Underway(rp, lg2, r2, s2)
         /\ rp.ended => r2 = r1 /\ s2 = s1
<1>1. s1 # null /\ s2 = s1 /\ r2.agent = r1.agent
  BY DEF Underway, Goes, RunOK
<1>2. /\ rp.seen \in Nat /\ rp.seen <= Len(lg1) /\ Len(lg1) \in Nat /\ Len(lg2) \in Nat
      /\ Len(lg1) <= Len(lg2) /\ DOMAIN lg1 = 1..Len(lg1) /\ DOMAIN lg2 = 1..Len(lg2)
      /\ \A i \in 1..Len(lg1) : lg2[i] = lg1[i]
  BY DEF Underway, Extends, ReplayState
<1>3. /\ LogOf(rp, lg1) \in Seq(LogEntries) /\ LogOf(rp, lg2) \in Seq(LogEntries)
      /\ Extends(LogOf(rp, lg1), LogOf(rp, lg2))
  BY <1>2, LogOfGrows
<1>4. ASSUME rp.state # "ACTIVE"
      PROVE  Stands(rp, lg2, r2, s2) /\ EndIsLogged(rp, lg2, r2.agent)
  <2>1. Stands(rp, lg1, r1, s1) /\ EndIsLogged(rp, lg1, r1.agent)
    BY <1>4 DEF Underway
  <2>2. Stands(rp, lg2, r2, s2)
    <3> DEFINE T(lg) == Numbered(LogOf(rp, lg), r1.agent, "TICK_OUTPUT", LastOf(rp, s1).seq)
    <3>1. T(lg1) # {} /\ LogOf(rp, lg1)[First(T(lg1))].output = LastOf(rp, s1).output
      BY <2>1 DEF Stands
    <3>2. T(lg2) # {} /\ LogOf(rp, lg2)[First(T(lg2))] = LogOf(rp, lg1)[First(T(lg1))]
      BY <1>3, <3>1, FirstStays
    <3>3. QED
      BY <1>1, <3>1, <3>2 DEF Stands
  <2>3. EndIsLogged(rp, lg2, r2.agent)
    <3>1. PICK i \in DOMAIN lg1, j \in DOMAIN lg1 :
            /\ i < j
            /\ IsTick(r1.agent, lg1[i]) /\ lg1[i].output.arg = rp.value
            /\ \A k \in (i + 1)..j : IsMove(r1.agent, lg1[k])
            /\ lg1[j].row.to = rp.state
      BY <2>1 DEF EndIsLogged
    <3>2. i \in DOMAIN lg2 /\ j \in DOMAIN lg2 /\ lg2[i] = lg1[i] /\ lg2[j] = lg1[j]
      BY <1>2
    <3>3. \A k \in (i + 1)..j : lg2[k] = lg1[k]
      BY <1>2
    <3>4. QED
      BY <1>1, <3>1, <3>2, <3>3 DEF EndIsLogged
  <2>4. QED
    BY <2>2, <2>3
<1>5. ASSUME rp.ended
      PROVE  r2 = r1 /\ HasEnded(r2) /\ HasRun(LogOf(rp, lg2), r2, s2)
  <2>1. HasEnded(r1) /\ HasRun(LogOf(rp, lg1), r1, s1)
    BY <1>5 DEF Underway
  <2>2. r2 = r1
    BY <2>1 DEF RunOK, Goes
  <2>3. HasRun(LogOf(rp, lg2), r1, s1)
    BY <1>3, <2>1, HasRunStays
  <2>4. QED
    BY <1>1, <2>1, <2>2, <2>3
<1>6. rp.seen <= Len(lg2)
  BY <1>2
<1>7. /\ rp.pc # "settled" => rp.state = "ACTIVE"
      /\ rp.pc = "resumed" => rp.result \in Values
  BY DEF Underway
<1>8. QED
  BY <1>1, <1>4, <1>5, <1>6, <1>7 DEF Underway

\* The rest of the run being alone, what it logged is all there is of its agent.
LEMMA SoleEntries ==
  ASSUME LiveInv, NEW l \in Loops, started[l] # null, AloneIn(l, loops, started), NEW i \in DOMAIN log,
         log[i].agent = loops[l].agent
  PROVE  /\ log[i].kind = "TICK_OUTPUT" => TickOf(log[i], loops[l], started[l])
         /\ log[i].kind = "TOOL_RESULT" => ResultOf(log[i], loops[l], started[l])
<1>1. OfLoop(log[i], loops, started)
  BY DEF LiveInv, Owned
<1>2. ASSUME NEW m \in Loops, loops[m].agent = log[i].agent, started[m] # null
      PROVE  m = l
  BY <1>2 DEF AloneIn
<1>3. ASSUME log[i].kind = "TICK_OUTPUT"
      PROVE  TickOf(log[i], loops[l], started[l])
  <2>1. PICK m \in Loops : TickOf(log[i], loops[m], started[m])
    BY <1>1, <1>3 DEF OfLoop
  <2>2. m = l
    BY <1>2, <2>1 DEF TickOf
  <2>3. QED
    BY <2>1, <2>2
<1>4. ASSUME log[i].kind = "TOOL_RESULT"
      PROVE  ResultOf(log[i], loops[l], started[l])
  <2>1. PICK m \in Loops : ResultOf(log[i], loops[m], started[m])
    BY <1>1, <1>4 DEF OfLoop
  <2>2. m = l
    BY <1>2, <2>1 DEF ResultOf
  <2>3. QED
    BY <2>1, <2>2
<1>5. QED
  BY <1>3, <1>4

\* The entry of a kind that a replay is given.
LEMMA FirstOfLog ==
  ASSUME LiveInv, NEW rp \in ReplayState, rp.seen <= Len(log), NEW a, NEW kind, NEW seq,
         Numbered(LogOf(rp, log), a, kind, seq) # {}
  PROVE  LET f == First(Numbered(LogOf(rp, log), a, kind, seq))
         IN /\ f \in DOMAIN log /\ LogOf(rp, log)[f] = log[f] /\ log[f] \in LogEntries
            /\ log[f].kind = kind /\ log[f].agent = a /\ log[f].seq = seq
<1> DEFINE lg == LogOf(rp, log)
           S == Numbered(lg, a, kind, seq)
<1>1. log \in Seq(LogEntries) /\ Len(log) \in Nat /\ DOMAIN log = 1..Len(log) /\ Extends(log, log)
  BY DEF LiveInv, IInv, Good, Extends
<1>2. lg \in Seq(LogEntries) /\ Extends(lg, log)
  BY <1>1, LogOfGrows
<1> HIDE DEF lg
<1>3. /\ Len(lg) \in Nat /\ DOMAIN lg = 1..Len(lg) /\ Len(lg) <= Len(log)
      /\ \A i \in 1..Len(lg) : log[i] = lg[i]
  BY <1>2 DEF Extends
<1>4. S \subseteq Nat /\ S # {}
  BY <1>3 DEF Numbered, lg
<1>5. First(S) \in S
  BY <1>4, FirstIsFirst
<1>6. /\ First(S) \in DOMAIN lg /\ lg[First(S)].kind = kind /\ lg[First(S)].agent = a
      /\ lg[First(S)].seq = seq
  BY <1>5 DEF Numbered
<1>7. First(S) \in DOMAIN log /\ lg[First(S)] = log[First(S)]
  BY <1>1, <1>3, <1>6
<1>8. log[First(S)] \in LogEntries
  BY <1>1, <1>7
<1>9. QED
  BY <1>6, <1>7, <1>8 DEF lg

\* Where a replay stands before a round with number seq and instruction instr.
Ready(rp, seq, instr) ==
  /\ rp \in ReplayState /\ rp.of \in Loops /\ rp.state = "ACTIVE" /\ rp.seen <= Len(log)
  /\ started[rp.of] # null
  /\ rp.ended => /\ HasEnded(loops[rp.of])
                 /\ HasRun(LogOf(rp, log), loops[rp.of], started[rp.of])
  /\ \/ seq = 1 /\ instr = started[rp.of] /\ rp.result = null
     \/ /\ seq = 2 /\ rp.result \in Values /\ instr = Returning(rp.result)
        /\ rp.ended /\ Sole(rp.of, log, loops, started) =>
             rp.result = loops[rp.of].result /\ started[rp.of].kind = "CALL_TOOL"

\* Of a run that ended and was alone, every tick with that number has the output and
\* the hash the replay computes, and there is one.
LEMMA SoleTicks ==
  ASSUME LiveInv, NEW rp, NEW seq, NEW instr, Ready(rp, seq, instr),
         rp.ended, Sole(rp.of, log, loops, started)
  PROVE  LET a == loops[rp.of].agent
             ticks == Numbered(LogOf(rp, log), a, "TICK_OUTPUT", seq)
         IN /\ ticks # {}
            /\ log[First(ticks)].stateHash = KernelState(runTick(instr), rp.state, ReplayMemory(rp, a))
<1> DEFINE l == rp.of
           a == loops[l].agent
           s == started[l]
           ticks == Numbered(LogOf(rp, log), a, "TICK_OUTPUT", seq)
<1>1. /\ l \in Loops /\ s # null /\ rp \in ReplayState /\ rp.state = "ACTIVE" /\ rp.seen <= Len(log)
      /\ HasEnded(loops[l]) /\ HasRun(LogOf(rp, log), loops[l], s)
  BY DEF Ready
<1>2. \/ seq = 1 /\ instr = s
      \/ seq = 2 /\ instr = Returning(loops[l].result) /\ s.kind = "CALL_TOOL"
  BY DEF Ready
<1>3. /\ RunOK(log, loops[l], s) /\ a \in Agents
      /\ s.kind = "CALL_TOOL" => loops[l].outcome = "COMPLETED"
  BY <1>1 DEF LiveInv, RunOK
<1>4. ticks # {}
  BY <1>1, <1>2 DEF HasRun, HasTick
<1> DEFINE f == First(ticks)
<1>5. /\ f \in DOMAIN log /\ log[f] \in LogEntries
      /\ log[f].kind = "TICK_OUTPUT" /\ log[f].agent = a /\ log[f].seq = seq
  BY <1>1, <1>4, FirstOfLog
<1> HIDE DEF f, ticks
<1>6. TickOf(log[f], loops[l], s)
  BY <1>1, <1>5, SoleEntries DEF Sole
<1>7. log[f].output = runTick(instr) /\ log[f].stateHash.lifecycle = "ACTIVE"
  BY <1>2, <1>3, <1>5, <1>6 DEF TickOf
<1>8. memory[a] = null /\ log[f].stateHash.memory = null
  BY <1>3, <1>5 DEF LiveInv, Remembers, Sole, IsTick
<1>9. ReplayMemory(rp, a) = null
  BY <1>8 DEF ReplayMemory
<1>10. log[f].stateHash = KernelState(log[f].output, log[f].stateHash.lifecycle, log[f].stateHash.memory)
  BY <1>5, EntriesAreTyped
<1>11. QED
  BY <1>1, <1>4, <1>7, <1>8, <1>9, <1>10 DEF f, ticks

\* What a round leaves of a replay: it is where it was, or it goes on with a logged
\* result, or it stops, or it ends as the tick it stands on ends.
LEMMA KeptReplay ==
  ASSUME NEW rp, NEW seq, NEW instr, Ready(rp, seq, instr), NEW new \in ReplayState,
         new.of = rp.of, new.fresh = rp.fresh, new.seen = rp.seen, new.ended = rp.ended,
         new.pc # "idle",
         new.pc # "settled" => new.state = "ACTIVE",
         new.pc = "resumed" => new.result \in Values,
         LET r == loops[rp.of]
             s == started[rp.of]
         IN /\ new.state # "ACTIVE" => Stands(new, log, r, s) /\ EndIsLogged(new, log, r.agent)
            /\ rp.ended /\ Sole(rp.of, log, loops, started) => Repeats(new, r, s)
  PROVE  ReplayOK(new, log, loops, started)
<1>1. LogOf(new, log) = LogOf(rp, log)
  BY DEF LogOf
<1>2. Underway(new, log, loops[rp.of], started[rp.of])
  BY <1>1 DEF Underway, Ready
<1>3. QED
  BY <1>2 DEF ReplayOK, Ready

LEMMA ReplayToolTold ==
  ASSUME LiveInv, NEW rp, NEW seq, NEW instr, Ready(rp, seq, instr), seq = 1,
         instr.kind = "CALL_TOOL"
  PROVE  ReplayOK(ReplayTool(rp, LogOf(rp, log), loops[rp.of].agent, 1), log, loops, started)
<1> DEFINE a == loops[rp.of].agent
           s == started[rp.of]
           results == Numbered(LogOf(rp, log), a, "TOOL_RESULT", 1)
           new == ReplayTool(rp, LogOf(rp, log), a, 1)
<1>1. /\ rp \in ReplayState /\ rp.of \in Loops /\ rp.state = "ACTIVE" /\ rp.seen <= Len(log)
      /\ s # null /\ s.kind = "CALL_TOOL"
      /\ rp.ended => HasRun(LogOf(rp, log), loops[rp.of], s)
  BY DEF Ready
<1>2. CASE results = {}
  <2>1. new = [rp EXCEPT !.pc = "rejected"]
    BY <1>2 DEF ReplayTool
  <2>2. ~rp.ended
    BY <1>1, <1>2 DEF HasRun, HasResult
  <2>3. /\ new \in ReplayState /\ new.pc = "rejected" /\ new.state = "ACTIVE"
        /\ new.of = rp.of /\ new.fresh = rp.fresh /\ new.seen = rp.seen /\ new.ended = rp.ended
    BY <1>1, <2>1 DEF ReplayState
  <2> HIDE DEF new
  <2>4. ReplayOK(new, log, loops, started)
    BY <2>2, <2>3, KeptReplay
  <2>5. QED
    BY <2>4 DEF new
<1>3. CASE results # {}
  <2> DEFINE f == First(results)
  <2>1. /\ f \in DOMAIN log /\ LogOf(rp, log)[f] = log[f] /\ log[f] \in LogEntries
        /\ log[f].kind = "TOOL_RESULT" /\ log[f].agent = a
    BY <1>1, <1>3, FirstOfLog
  <2>2. log[f].result \in Values
    BY <2>1, EntriesAreTyped
  <2>3. new = [rp EXCEPT !.pc = "resumed", !.result = log[f].result]
    BY <1>3, <2>1 DEF ReplayTool
  <2> HIDE DEF f
  <2>4. /\ new \in ReplayState /\ new.pc = "resumed" /\ new.state = "ACTIVE"
        /\ new.result = log[f].result
        /\ new.of = rp.of /\ new.fresh = rp.fresh /\ new.seen = rp.seen /\ new.ended = rp.ended
    BY <1>1, <2>2, <2>3 DEF ReplayState
  <2>5. Sole(rp.of, log, loops, started) => log[f].result = loops[rp.of].result
    BY <1>1, <2>1, SoleEntries DEF Sole, ResultOf
  <2> HIDE DEF new
  <2>6. rp.ended /\ Sole(rp.of, log, loops, started) => Repeats(new, loops[rp.of], s)
    BY <1>1, <2>4, <2>5 DEF Repeats
  <2>7. ReplayOK(new, log, loops, started)
    BY <2>2, <2>4, <2>6, KeptReplay
  <2>8. QED
    BY <2>7 DEF new
<1>4. QED
  BY <1>2, <1>3

\* A replay that stops at a tick the log does not have, or not so.
LEMMA StoppedTold ==
  ASSUME LiveInv, NEW rp, NEW seq, NEW instr, Ready(rp, seq, instr),
         NEW o \in {"MISSING_LOG", "DIVERGENCE"},
         ~(rp.ended /\ Sole(rp.of, log, loops, started))
  PROVE  ReplayOK([rp EXCEPT !.pc = "settled", !.outcome = o], log, loops, started)
<1> DEFINE new == [rp EXCEPT !.pc = "settled", !.outcome = o]
<1>1. rp \in ReplayState /\ rp.state = "ACTIVE"
  BY DEF Ready
<1>2. /\ new \in ReplayState /\ new.pc = "settled" /\ new.state = "ACTIVE"
      /\ new.of = rp.of /\ new.fresh = rp.fresh /\ new.seen = rp.seen /\ new.ended = rp.ended
  BY <1>1 DEF ReplayState, ReplayOutcomes
<1> HIDE DEF new
<1>3. ReplayOK(new, log, loops, started)
  BY <1>2, KeptReplay
<1>4. QED
  BY <1>3 DEF new

\* What a run that ended came to.
LEMMA RunValue ==
  ASSUME LiveInv, NEW rp, NEW seq, NEW instr, Ready(rp, seq, instr),
         rp.ended, Sole(rp.of, log, loops, started), runTick(instr).kind # "PENDING_TOOL"
  PROVE  /\ loops[rp.of].outcome = EndOutcome[runTick(instr).kind]
         /\ ValueOf(loops[rp.of], started[rp.of]) = runTick(instr).arg
<1> DEFINE r == loops[rp.of]
           s == started[rp.of]
<1>1. rp.of \in Loops /\ s # null /\ HasEnded(r)
  BY DEF Ready
<1>2. /\ s \in InitialInstructions
      /\ s.kind # "CALL_TOOL" => r.outcome = EndOutcome[runTick(s).kind]
      /\ s.kind = "CALL_TOOL" => r.outcome = "COMPLETED"
  BY <1>1 DEF LiveInv, RunOK
<1>3. CASE instr = s
  <2>1. s.kind # "CALL_TOOL"
    BY <1>2, <1>3, ToolInstructions
  <2>2. ValueOf(r, s) = runTick(s).arg
    <3>1. CASE s.kind = "RETURN"
      BY <3>1 DEF ValueOf, runTick
    <3>2. CASE s.kind # "RETURN"
      BY <2>1, <3>2 DEF ValueOf, runTick
    <3>3. QED
      BY <3>1, <3>2
  <2>3. QED
    BY <1>2, <1>3, <2>1, <2>2
<1>4. CASE instr = Returning(r.result) /\ s.kind = "CALL_TOOL"
  <2>1. runTick(instr).kind = "COMPLETED" /\ runTick(instr).arg = r.result
    BY <1>4 DEF runTick, Returning, OutputKind
  <2>2. EndOutcome["COMPLETED"] = "COMPLETED"
    BY DEF EndOutcome
  <2>3. ValueOf(r, s) = r.result
    BY <1>4 DEF ValueOf
  <2>4. QED
    BY <1>2, <1>4, <2>1, <2>2, <2>3
<1>5. QED
  BY <1>3, <1>4 DEF Ready

\* A replay that ends stands on a tick that the live loop ended in as well.
LEMMA EndTold ==
  ASSUME LiveInv, NEW rp, NEW seq, NEW instr, Ready(rp, seq, instr), instr \in InitialInstructions,
         runTick(instr).kind # "PENDING_TOOL",
         LET lg == LogOf(rp, log)
             a == loops[rp.of].agent
             ticks == Numbered(lg, a, "TICK_OUTPUT", seq)
         IN /\ ticks # {}
            /\ lg[First(ticks)].stateHash = KernelState(runTick(instr), "ACTIVE", ReplayMemory(rp, a))
  PROVE  ReplayOK([rp EXCEPT !.pc = "settled", !.state = EndState[runTick(instr).kind],
                             !.outcome = EndOutcome[runTick(instr).kind],
                             !.value = runTick(instr).arg], log, loops, started)
<1> DEFINE lg == LogOf(rp, log)
           r == loops[rp.of]
           s == started[rp.of]
           a == r.agent
           ticks == Numbered(lg, a, "TICK_OUTPUT", seq)
           f == First(ticks)
           output == runTick(instr)
           new == [rp EXCEPT !.pc = "settled", !.state = EndState[output.kind],
                             !.outcome = EndOutcome[output.kind], !.value = output.arg]
<1>1. rp \in ReplayState /\ rp.of \in Loops /\ rp.state = "ACTIVE" /\ rp.seen <= Len(log)
  BY DEF Ready
<1>2. output.kind \in {"COMPLETED", "FAILED", "PENDING_DELEGATION"} /\ output.arg \in Args
  BY DEF InitialInstructions, runTick, OutputKind, Args
<1>3. /\ EndState[output.kind] \in AgentStates /\ EndState[output.kind] # "ACTIVE"
      /\ EndOutcome[output.kind] \in ReplayOutcomes
  BY <1>2 DEF EndState, EndOutcome, AgentStates, ReplayOutcomes
<1>4. /\ f \in DOMAIN log /\ lg[f] = log[f] /\ log[f] \in LogEntries
      /\ log[f].kind = "TICK_OUTPUT" /\ log[f].agent = a
  BY <1>1, FirstOfLog
<1>5. log[f].output = output /\ log[f].stateHash.lifecycle = "ACTIVE"
  <2>1. log[f].stateHash = KernelState(output, "ACTIVE", ReplayMemory(rp, a))
    BY <1>4
  <2>2. log[f].stateHash = KernelState(log[f].output, log[f].stateHash.lifecycle, log[f].stateHash.memory)
    BY <1>4, EntriesAreTyped
  <2>3. QED
    BY <2>1, <2>2 DEF KernelState
<1> HIDE DEF f, output
<1>6. /\ new \in ReplayState /\ new.pc = "settled" /\ new.state = EndState[output.kind]
      /\ new.outcome = EndOutcome[output.kind] /\ new.value = output.arg /\ new.result = rp.result
      /\ new.of = rp.of /\ new.fresh = rp.fresh /\ new.seen = rp.seen /\ new.ended = rp.ended
  BY <1>1, <1>2, <1>3 DEF ReplayState
<1> HIDE DEF new
<1>7. Stands(new, log, r, s)
  <2>1. LogOf(new, log) = lg
    BY <1>6 DEF LogOf
  <2>2. LastOf(new, s).seq = seq /\ LastOf(new, s).output = output
    BY <1>6, SchedulerAssumption DEF LastOf, Ready, output
  <2>3. QED
    BY <1>4, <1>5, <2>1, <2>2 DEF Stands, f
<1>8. EndIsLogged(new, log, a)
  <2>1. Final(log[f])
    BY <1>2, <1>4, <1>5 DEF Final
  <2>2. Ends(log, f)
    BY <1>4, <2>1 DEF LiveInv, TicksEnd
  <2>3. PICK j \in DOMAIN log : /\ f < j
                                /\ \A k \in (f + 1)..j : IsMove(a, log[k])
                                /\ log[j].row.to = EndState[output.kind]
    BY <1>4, <1>5, <2>2 DEF Ends
  <2>4. IsTick(a, log[f])
    BY <1>4 DEF IsTick
  <2>5. QED
    BY <1>4, <1>5, <1>6, <2>3, <2>4 DEF EndIsLogged
<1>9. rp.ended /\ Sole(rp.of, log, loops, started) => Repeats(new, r, s)
  BY <1>6, RunValue DEF Repeats, output
<1>10. ReplayOK(new, log, loops, started)
  BY <1>6, <1>7, <1>8, <1>9, KeptReplay
<1>11. QED
  BY <1>10 DEF new, output

LEMMA RoundTold ==
  ASSUME LiveInv, NEW rp, NEW seq, NEW instr, Ready(rp, seq, instr)
  PROVE  ReplayOK(Round(rp, loops[rp.of].agent, seq, instr), log, loops, started)
<1> DEFINE lg == LogOf(rp, log)
           a == loops[rp.of].agent
           ticks == Numbered(lg, a, "TICK_OUTPUT", seq)
           hash == KernelState(runTick(instr), rp.state, ReplayMemory(rp, a))
           new == Round(rp, a, seq, instr)
<1>1. ReplayLog(rp) = lg
  BY DEF ReplayLog, LogOf
<1>2. instr \in InitialInstructions /\ rp.state = "ACTIVE"
  <2>1. CASE instr = started[rp.of]
    BY <2>1 DEF LiveInv, RunOK, Ready
  <2>2. CASE instr = Returning(rp.result) /\ rp.result \in Values
    BY <2>2 DEF InitialInstructions, Returning, Ready
  <2>3. QED
    BY <2>1, <2>2 DEF Ready
<1>3. ASSUME rp.ended, Sole(rp.of, log, loops, started)
      PROVE  ticks # {} /\ lg[First(ticks)].stateHash = hash
  <2>1. ticks # {} /\ log[First(ticks)].stateHash = hash
    BY <1>3, SoleTicks
  <2>2. lg[First(ticks)] = log[First(ticks)]
    BY <2>1, FirstOfLog DEF Ready
  <2>3. QED
    BY <2>1, <2>2
<1>4. CASE ticks = {}
  <2>1. new = [rp EXCEPT !.pc = "settled", !.outcome = "MISSING_LOG"]
    BY <1>1, <1>4 DEF Round
  <2>2. QED
    BY <1>3, <1>4, <2>1, StoppedTold
<1>5. CASE ticks # {} /\ lg[First(ticks)].stateHash # hash
  <2>1. new = [rp EXCEPT !.pc = "settled", !.outcome = "DIVERGENCE"]
    BY <1>1, <1>5 DEF Round
  <2>2. QED
    BY <1>3, <1>5, <2>1, StoppedTold
<1>6. CASE ticks # {} /\ lg[First(ticks)].stateHash = hash /\ runTick(instr).kind = "PENDING_TOOL"
  <2>1. new = ReplayTool(rp, lg, a, seq)
    BY <1>1, <1>6 DEF Round
  <2>2. instr.kind = "CALL_TOOL"
    BY <1>2, <1>6, ToolInstructions
  <2>3. seq = 1
    BY <2>2 DEF Ready, Returning
  <2>4. QED
    BY <2>1, <2>2, <2>3, ReplayToolTold
<1>7. CASE ticks # {} /\ lg[First(ticks)].stateHash = hash /\ runTick(instr).kind # "PENDING_TOOL"
  <2>1. new = [rp EXCEPT !.pc = "settled", !.state = EndState[runTick(instr).kind],
                         !.outcome = EndOutcome[runTick(instr).kind], !.value = runTick(instr).arg]
    BY <1>1, <1>7 DEF Round
  <2>2. lg[First(ticks)].stateHash = KernelState(runTick(instr), "ACTIVE", ReplayMemory(rp, a))
    BY <1>2, <1>7
  <2>3. ReplayOK([rp EXCEPT !.pc = "settled", !.state = EndState[runTick(instr).kind],
                           !.outcome = EndOutcome[runTick(instr).kind],
                           !.value = runTick(instr).arg], log, loops, started)
    BY <1>2, <1>7, <2>2, EndTold
  <2>4. QED
    BY <2>1, <2>3
<1>8. QED
  BY <1>4, <1>5, <1>6, <1>7

-----------------------------------------------------------------------------
\* Steps of replays.
LEMMA RepeatKeeps ==
  ASSUME ReplayInv, NEW q \in Replays, NEW l \in Loops, NEW fresh \in BOOLEAN, Repeat(q, l, fresh)
  PROVE  \A p \in Replays : ReplayOK(replays'[p], log, loops, started)
<1> DEFINE rp == [IdleReplay EXCEPT !.of = l, !.fresh = fresh, !.state = "ACTIVE",
                                    !.seen = Len(log), !.ended = Ended(l)]
<1>1. LiveInv /\ started[l] # null /\ Len(log) \in Nat /\ log \in Seq(LogEntries)
  BY DEF ReplayInv, Repeat, LiveInv, IInv, Good
<1>2. Ended(l) = HasEnded(loops[l]) /\ Ended(l) \in BOOLEAN
  <2>1. Ended(l) = HasEnded(loops[l])
    BY DEF Ended, HasEnded
  <2>2. Ended(l) \in BOOLEAN
    BY DEF Ended
  <2>3. QED
    BY <2>1, <2>2, Zenon
<1>3. /\ rp \in ReplayState /\ rp.of = l /\ rp.state = "ACTIVE" /\ rp.seen = Len(log)
      /\ rp.ended = Ended(l) /\ rp.fresh = fresh /\ rp.result = null
  <2> DEFINE ended == Ended(l)
  <2>1. ended \in BOOLEAN
    BY <1>2
  <2> HIDE DEF ended
  <2>2. /\ [IdleReplay EXCEPT !.of = l, !.fresh = fresh, !.state = "ACTIVE",
                               !.seen = Len(log), !.ended = ended] \in ReplayState
    BY <1>1, <2>1 DEF IdleReplay, ReplayState, AgentStates, ReplayOutcomes, Args
  <2>3. /\ rp.of = l /\ rp.state = "ACTIVE" /\ rp.seen = Len(log)
        /\ rp.ended = ended /\ rp.fresh = fresh /\ rp.result = null
    BY DEF IdleReplay, ended
  <2>4. QED
    BY <2>2, <2>3 DEF ended
<1> HIDE DEF rp
<1>4. RunOK(log, loops[l], started[l])
  BY <1>1 DEF LiveInv
<1>5. LogOf(rp, log) = log
  BY <1>1, <1>3 DEF LogOf
<1>6. rp.ended => HasEnded(loops[l]) /\ HasRun(LogOf(rp, log), loops[l], started[l])
  BY <1>2, <1>3, <1>4, <1>5 DEF RunOK
<1>7. Ready(rp, 1, started[l])
  BY <1>1, <1>3, <1>6 DEF Ready
<1>8. ReplayOK(Round(rp, loops[l].agent, 1, started[l]), log, loops, started)
  BY <1>1, <1>3, <1>7, RoundTold
<1>9. replays' = [replays EXCEPT ![q] = Round(rp, loops[l].agent, 1, started[l])]
  BY DEF Repeat, rp
<1>10. QED
  BY <1>8, <1>9 DEF ReplayInv

LEMMA ResumeReplayKeeps ==
  ASSUME ReplayInv, NEW q \in Replays, ResumeReplay(q)
  PROVE  \A p \in Replays : ReplayOK(replays'[p], log, loops, started)
<1> DEFINE rp == replays[q]
<1>1. LiveInv /\ ReplayOK(rp, log, loops, started) /\ rp.pc = "resumed"
  BY DEF ReplayInv, ResumeReplay
<1>2. /\ rp \in ReplayState /\ rp.of \in Loops /\ Underway(rp, log, loops[rp.of], started[rp.of])
      /\ rp.ended /\ Sole(rp.of, log, loops, started) => Repeats(rp, loops[rp.of], started[rp.of])
  BY <1>1 DEF ReplayOK
<1>3. Ready(rp, 2, Returning(rp.result))
  BY <1>1, <1>2 DEF Ready, Underway, Repeats
<1>4. ReplayOK(Round(rp, loops[rp.of].agent, 2, Returning(rp.result)), log, loops, started)
  BY <1>1, <1>3, RoundTold
<1>5. replays' = [replays EXCEPT ![q] = Round(rp, loops[rp.of].agent, 2, Returning(rp.result))]
  BY DEF ReplayInv, ResumeReplay, Returning
<1>6. QED
  BY <1>4, <1>5 DEF ReplayInv

LEMMA RejectReplayKeeps ==
  ASSUME ReplayInv, NEW q \in Replays, RejectReplay(q)
  PROVE  \A p \in Replays : ReplayOK(replays'[p], log, loops, started)
<1> DEFINE rp == replays[q]
           new == [rp EXCEPT !.pc = "settled", !.outcome = "MISSING_TOOL_RESULT"]
<1>1. ReplayOK(rp, log, loops, started) /\ rp.pc = "rejected"
  BY DEF ReplayInv, RejectReplay
<1>2. /\ rp \in ReplayState /\ rp.of \in Loops /\ Underway(rp, log, loops[rp.of], started[rp.of])
      /\ ~(rp.ended /\ Sole(rp.of, log, loops, started))
  BY <1>1 DEF ReplayOK, Repeats
<1>3. /\ new \in ReplayState /\ new.pc = "settled" /\ new.state = rp.state /\ rp.state = "ACTIVE"
      /\ new.of = rp.of /\ new.fresh = rp.fresh /\ new.seen = rp.seen /\ new.ended = rp.ended
  BY <1>1, <1>2 DEF ReplayState, ReplayOutcomes, Underway
<1>4. replays' = [replays EXCEPT ![q] = new]
  BY DEF ReplayInv, RejectReplay
<1> HIDE DEF new
<1>5. LogOf(new, log) = LogOf(rp, log)
  BY <1>3 DEF LogOf
<1>6. Underway(new, log, loops[rp.of], started[rp.of])
  BY <1>2, <1>3, <1>5 DEF Underway
<1>7. ReplayOK(new, log, loops, started)
  BY <1>2, <1>3, <1>6 DEF ReplayOK
<1>8. QED
  BY <1>4, <1>7 DEF ReplayInv

\* A run that others join is not alone, and a log that was written stays so.
LEMMA SoleStays ==
  ASSUME LiveInv, Onward, StepSound, NEW l \in Loops, started[l] # null,
         Sole(l, log', loops', started')
  PROVE  Sole(l, log, loops, started)
<1>1. /\ log \in Seq(LogEntries) /\ log' \in Seq(LogEntries) /\ Extends(log, log')
  BY DEF LiveInv, IInv, Good, StepSound, Onward
<1>2. ASSUME NEW m \in Loops, started[m] # null
      PROVE  started'[m] # null /\ loops'[m].agent = loops[m].agent
  <2>1. RunOK(log, loops[m], started[m]) /\ Goes(loops[m], started[m], loops'[m], started'[m])
    BY DEF LiveInv, Onward, AllGo
  <2>2. QED
    BY <1>2, <2>1 DEF RunOK, Goes
<1>3. loops'[l].agent = loops[l].agent
  BY <1>2
<1>4. AloneIn(l, loops, started)
  <2>1. SUFFICES ASSUME NEW m \in Loops \ {l}, started[m] # null
                 PROVE  loops[m].agent # loops[l].agent
    BY DEF AloneIn
  <2>2. loops'[m].agent # loops'[l].agent
    BY <1>2, <2>1 DEF Sole, AloneIn
  <2>3. QED
    BY <1>2, <1>3, <2>1, <2>2
<1>5. Unwritten(loops[l].agent, log')
  BY <1>3 DEF Sole
<1>6. Unwritten(loops[l].agent, log)
  BY <1>1, <1>5, LogsKeep
<1>7. QED
  BY <1>4, <1>6 DEF Sole

LEMMA LiveStepKeeps ==
  ASSUME ReplayInv, Onward, StepSound, NEW q \in Replays
  PROVE  ReplayOK(replays[q], log', loops', started')
<1> DEFINE rp == replays[q]
           r1 == loops[rp.of]
           s1 == started[rp.of]
           r2 == loops'[rp.of]
           s2 == started'[rp.of]
<1>1. LiveInv /\ ReplayOK(rp, log, loops, started)
  BY DEF ReplayInv
<1>2. rp \in ReplayState /\ (rp.pc = "idle" => rp.state = "DEFINED")
  BY <1>1 DEF ReplayOK
<1>3. ASSUME rp.pc # "idle"
      PROVE  /\ rp.of \in Loops
             /\ Underway(rp, log', r2, s2)
             /\ rp.ended /\ Sole(rp.of, log', loops', started') => Repeats(rp, r2, s2)
  <2>1. /\ rp.of \in Loops /\ Underway(rp, log, r1, s1)
        /\ rp.ended /\ Sole(rp.of, log, loops, started) => Repeats(rp, r1, s1)
    BY <1>1, <1>3 DEF ReplayOK
  <2>2. s1 # null
    BY <2>1 DEF Underway
  <2>3. log \in Seq(LogEntries) /\ log' \in Seq(LogEntries) /\ Extends(log, log')
    BY <1>1 DEF LiveInv, IInv, Good, StepSound, Onward
  <2>4. Goes(r1, s1, r2, s2) /\ RunOK(log, r1, s1)
    BY <1>1, <2>1 DEF LiveInv, Onward, AllGo
  <2>5. Underway(rp, log', r2, s2) /\ (rp.ended => r2 = r1 /\ s2 = s1)
    BY <1>2, <2>1, <2>3, <2>4, UnderwayStays
  <2>6. Sole(rp.of, log', loops', started') => Sole(rp.of, log, loops, started)
    BY <1>1, <2>1, <2>2, SoleStays
  <2>7. QED
    BY <2>1, <2>5, <2>6
<1>4. QED
  BY <1>2, <1>3 DEF ReplayOK

LEMMA ReplayNextKeeps ==
  ASSUME ReplayInv, [ReplayNext]_allVars
  PROVE  ReplayInv'
<1>1. Onward /\ StepSound
  BY LiveNext DEF ReplayInv
<1>2. LiveInv'
  BY <1>1 DEF Onward
<1>3. CASE UNCHANGED replays
  <2>1. \A q \in Replays : ReplayOK(replays[q], log', loops', started')
    BY <1>1, LiveStepKeeps
  <2>2. QED
    BY <1>2, <1>3, <2>1 DEF ReplayInv
<1>4. ASSUME NEW q \in Replays, NEW new, replays' = [replays EXCEPT ![q] = new],
             UNCHANGED <<vars, started>>,
             \A p \in Replays : ReplayOK(replays'[p], log, loops, started)
      PROVE  ReplayInv'
  <2>1. DOMAIN replays' = Replays
    BY <1>4 DEF ReplayInv
  <2>2. log' = log /\ loops' = loops /\ started' = started
    BY <1>4 DEF vars
  <2>3. QED
    BY <1>2, <1>4, <2>1, <2>2 DEF ReplayInv
<1>5. ASSUME NEW q \in Replays, NEW l \in Loops, NEW fresh \in BOOLEAN, Repeat(q, l, fresh)
      PROVE  ReplayInv'
  <2>1. \A p \in Replays : ReplayOK(replays'[p], log, loops, started)
    BY <1>5, RepeatKeeps
  <2>2. \E new : replays' = [replays EXCEPT ![q] = new]
    BY <1>5 DEF Repeat
  <2>3. UNCHANGED <<vars, started>>
    BY <1>5 DEF Repeat
  <2>4. QED
    BY <1>4, <2>1, <2>2, <2>3
<1>6. ASSUME NEW q \in Replays, ResumeReplay(q)
      PROVE  ReplayInv'
  <2>1. \A p \in Replays : ReplayOK(replays'[p], log, loops, started)
    BY <1>6, ResumeReplayKeeps
  <2>2. \E new : replays' = [replays EXCEPT ![q] = new]
    BY <1>6 DEF ResumeReplay
  <2>3. UNCHANGED <<vars, started>>
    BY <1>6 DEF ResumeReplay
  <2>4. QED
    BY <1>4, <2>1, <2>2, <2>3
<1>7. ASSUME NEW q \in Replays, RejectReplay(q)
      PROVE  ReplayInv'
  <2>1. \A p \in Replays : ReplayOK(replays'[p], log, loops, started)
    BY <1>7, RejectReplayKeeps
  <2>2. \E new : replays' = [replays EXCEPT ![q] = new]
    BY <1>7 DEF RejectReplay, ReplayInv
  <2>3. UNCHANGED <<vars, started>>
    BY <1>7 DEF RejectReplay
  <2>4. QED
    BY <1>4, <2>1, <2>2, <2>3
<1>8. CASE \E l \in Loops, a \in Agents, i \in InitialInstructions : RunLive(l, a, i)
  BY <1>3, <1>8 DEF RunLive
<1>9. CASE KernelStep /\ UNCHANGED replayVars
  BY <1>3, <1>9 DEF replayVars
<1>10. CASE UNCHANGED allVars
  BY <1>3, <1>10 DEF allVars
<1>11. CASE \E r \in Replays : \/ \E l \in Loops : StartReplay(r, l) \/ RestartAndReplay(r, l)
                               \/ ResumeReplay(r)
                               \/ RejectReplay(r)
  BY <1>5, <1>6, <1>7, <1>11 DEF StartReplay, RestartAndReplay
<1>12. QED
  BY <1>8, <1>9, <1>10, <1>11 DEF ReplayNext

LEMMA InitReplayInv == ReplayInit => ReplayInv
<1> SUFFICES ASSUME ReplayInit PROVE ReplayInv
  OBVIOUS
<1>1. LiveInv
  BY InitLiveInv
<1>2. replays = [r \in Replays |-> IdleReplay]
  BY DEF ReplayInit
<1>3. IdleReplay \in ReplayState /\ IdleReplay.pc = "idle" /\ IdleReplay.state = "DEFINED"
  BY DEF IdleReplay, ReplayState, AgentStates, ReplayOutcomes, Args
<1>4. ReplayOK(IdleReplay, log, loops, started)
  BY <1>3 DEF ReplayOK
<1>5. QED
  BY <1>1, <1>2, <1>4 DEF ReplayInv

LEMMA ReplayInvHolds == ReplaySpec => []ReplayInv
<1>1. ReplayInit => ReplayInv
  BY InitReplayInv
<1>2. ReplayInv /\ [ReplayNext]_allVars => ReplayInv'
  BY ReplayNextKeeps
<1>3. QED
  BY <1>1, <1>2, PTL DEF ReplaySpec

\* A replay reaches a state its live agent reached, with the value of the tick that
\* led there, and stands on a tick that verifyTick accepts too: for any number of
\* runs, replays, tools and quotas, whatever of the log a replay reads.
THEOREM ReplaysEndAsLogged == ReplaySpec => []ReplayEndsAsLogged
<1>1. ReplayInv => ReplayEndsAsLogged
  <2>1. SUFFICES ASSUME ReplayInv, NEW r \in Replays,
                        replays[r].state \in {"TERMINATED", "FAULTED", "WAITING"}
                 PROVE  LET a == loops[replays[r].of].agent
                            last == LastTick(replays[r])
                        IN /\ verifyTick(ReplayLog(replays[r]), a, last.seq, last.output) = "accepted"
                           /\ \E i, j \in DOMAIN log :
                                /\ i < j
                                /\ IsTick(a, log[i]) /\ log[i].output.arg = replays[r].value
                                /\ \A k \in (i + 1)..j : IsMove(a, log[k])
                                /\ log[j].row.to = replays[r].state
    BY DEF ReplayEndsAsLogged
  <2> DEFINE rp == replays[r]
             a == loops[rp.of].agent
             s == started[rp.of]
  <2>2. Stands(rp, log, loops[rp.of], s) /\ EndIsLogged(rp, log, a)
    BY <2>1 DEF ReplayInv, ReplayOK, Underway
  <2>3. LogOf(rp, log) = ReplayLog(rp)
    BY DEF LogOf, ReplayLog
  <2>4. LastOf(rp, s) = LastTick(rp)
    BY DEF LastOf, LastTick, Returning
  <2>5. verifyTick(ReplayLog(rp), a, LastTick(rp).seq, LastTick(rp).output) = "accepted"
    BY <2>2, <2>3, <2>4 DEF Stands, verifyTick
  <2>6. QED
    BY <2>2, <2>5 DEF EndIsLogged
<1>2. QED
  BY <1>1, ReplayInvHolds, PTL

\* INV-15 where it holds: a replay of the one run of an agent without memory, started
\* after the run ended, comes to its outcome and its value.
THEOREM SoleRunsReplay == ReplaySpec => []SoleRunReplays
<1>1. ReplayInv => SoleRunReplays
  <2>1. SUFFICES ASSUME ReplayInv, NEW r \in Replays,
                        replays[r].pc = "settled", replays[r].ended,
                        Alone(replays[r].of), NoWrites(loops[replays[r].of].agent)
                 PROVE  Reproduces(r)
    BY DEF SoleRunReplays
  <2> DEFINE rp == replays[r]
             l == rp.of
  <2>2. Sole(l, log, loops, started)
    BY <2>1 DEF Sole, AloneIn, Alone, Unwritten, NoWrites
  <2>3. Repeats(rp, loops[l], started[l])
    BY <2>1, <2>2 DEF ReplayInv, ReplayOK
  <2>4. ValueOf(loops[l], started[l]) = LiveValue(l)
    BY DEF ValueOf, LiveValue
  <2>5. QED
    BY <2>1, <2>3, <2>4 DEF Repeats, Reproduces
<1>2. QED
  BY <1>1, ReplayInvHolds, PTL
=============================================================================
