---------------------- MODULE LifecycleControllerProofs ----------------------
(***************************************************************************)
(* What LifecycleController guarantees for every set of agents, every log  *)
(* bound and every pattern of failing writes, crashes and restarts.        *)
(***************************************************************************)
EXTENDS LifecycleController, WellFoundedInduction, FiniteSetTheorems, TLAPS

\* A row of the table names states of the table, and none starts in TERMINATED.
LEMMA RowsAreTyped ==
  \A r \in Rows : /\ r.from \in AgentStates /\ r.to \in AgentStates
                  /\ r.from # "TERMINATED"
  BY DEF Rows, VALID_TRANSITIONS, AgentStates

\* Every non-empty set of naturals has a least element.
LEMMA LeastNat ==
  ASSUME NEW T \in SUBSET Nat, T # {}
  PROVE  \E n \in T : \A m \in T : n <= m
<1> DEFINE R == {ss \in Nat \X Nat : ss[1] < ss[2]}
<1>1. IsWellFoundedOn(R, Nat)
  BY NatLessThanWellFounded DEF OpToRel
<1> HIDE DEF R
<1>2. PICK n \in T : \A m \in T : ~(<<m, n>> \in R)
  BY <1>1, WFMin
<1>3. ASSUME NEW m \in T
      PROVE  n <= m
  <2>1. ~(<<m, n>> \in R) /\ <<m, n>> \in Nat \X Nat
    BY <1>2
  <2>2. ~(m < n)
    BY <2>1 DEF R
  <2>3. QED
    BY <2>2
<1>4. QED
  BY <1>3

\* What appending to a sequence does, spelled out.
LEMMA AppendProperties ==
  ASSUME NEW S, NEW s \in Seq(S), NEW e \in S
  PROVE  /\ Append(s, e) \in Seq(S)
         /\ Append(s, e) # << >>
         /\ Len(s) \in Nat /\ DOMAIN s = 1..Len(s)
         /\ Len(Append(s, e)) = Len(s) + 1
         /\ DOMAIN Append(s, e) = 1..(Len(s) + 1)
         /\ Append(s, e)[Len(s) + 1] = e
         /\ \A i \in 1..Len(s) : Append(s, e)[i] = s[i]
  OBVIOUS

\* An entry is well formed when its payload is one the log accepts.
LEMMA EntryIsTyped ==
  ASSUME LogTypeOK, CanAppend, NEW d \in Payloads
  PROVE  Entry(d) \in LogEntry
  BY FileLoggerAssumption DEF LogTypeOK, CanAppend, Entry, LogEntry

\* An interrupted write leaves a well-formed file.
LEMMA InterruptedKeepsType ==
  ASSUME LogTypeOK, NEW e \in LogEntry, Interrupted(e)
  PROVE  /\ disk' \in Seq(LogEntry \cup {Garbage})
         /\ tail' \in LogEntry \cup {NoTail, Partial}
  BY DEF LogTypeOK, Interrupted

\* append() keeps the log well formed, whether it returns or throws.
LEMMA AppendKeepsType ==
  ASSUME LogTypeOK, NEW d \in Payloads, AppendOk(d) \/ AppendThrows(d)
  PROVE  LogTypeOK'
<1>1. Entry(d) \in LogEntry
  BY EntryIsTyped DEF AppendOk, AppendThrows, AppendDiskError, AppendFrozen
<1>2. CASE AppendOk(d)
  BY <1>1, <1>2 DEF AppendOk, LogTypeOK, CanAppend
<1>3. CASE AppendDiskError(d)
  BY <1>1, <1>3, InterruptedKeepsType DEF AppendDiskError, LogTypeOK, CanAppend
<1>4. CASE AppendFrozen(d)
  BY <1>4 DEF AppendFrozen, LogTypeOK
<1>5. QED
  BY <1>2, <1>3, <1>4 DEF AppendThrows

\* A crash, in the middle of an append or not, leaves an empty memory and a
\* well-formed file.
LEMMA CrashKeepsType ==
  ASSUME LogTypeOK, Crash \/ \E d \in Payloads : CrashDuring(d)
  PROVE  LogTypeOK'
<1>1. ProcessDies
  BY DEF Crash, CrashDuring
<1>2. /\ disk' \in Seq(LogEntry \cup {Garbage})
      /\ tail' \in LogEntry \cup {NoTail, Partial}
  <2>1. CASE Crash
    BY <2>1 DEF Crash, LogTypeOK
  <2>2. ASSUME NEW d \in Payloads, CrashDuring(d)
        PROVE  <1>2!1 /\ <1>2!2
    <3>1. Entry(d) \in LogEntry
      BY <2>2, EntryIsTyped DEF CrashDuring
    <3>2. QED
      BY <2>2, <3>1, InterruptedKeepsType DEF CrashDuring
  <2>3. QED
    BY <2>1, <2>2
<1>3. /\ up' \in BOOLEAN
      /\ logs' \in Seq(LogEntry)
      /\ nextBusSeq' \in Nat \ {0}
      /\ frozen' \in BOOLEAN
      /\ acked' \in Seq(LogEntry)
  <2>1. << >> \in Seq(LogEntry)
    OBVIOUS
  <2>2. up' \in BOOLEAN /\ frozen' \in BOOLEAN
    BY <1>1, Zenon DEF ProcessDies
  <2>3. nextBusSeq' \in Nat \ {0}
    BY <1>1 DEF ProcessDies
  <2>4. QED
    BY <1>1, <2>1, <2>2, <2>3 DEF ProcessDies, LogTypeOK
<1>4. QED
  BY <1>2, <1>3 DEF LogTypeOK

\* The sequence number a restored log continues with exists: the bound on the
\* entries' numbers is an upper bound, and the least one is attained.
LEMMA SeqAfterIsTyped ==
  ASSUME NEW lines \in Seq(LogEntry)
  PROVE  SeqAfter(lines) \in Nat \ {0}
<1> DEFINE S == {1} \cup {lines[i].busSeq + 1 : i \in DOMAIN lines}
           U == {n \in Nat : \A s \in S : s <= n}
<1>1. \A i \in DOMAIN lines : lines[i].busSeq \in 1..MaxBusSeq
  <2>1. \A i \in DOMAIN lines : lines[i] \in LogEntry
    OBVIOUS
  <2>2. QED
    BY <2>1 DEF LogEntry
<1>2. S \subseteq Nat \ {0} /\ MaxBusSeq + 1 \in U
  BY <1>1, FileLoggerAssumption
<1>3. PICK n \in U : \A m \in U : n <= m
  BY <1>2, LeastNat
<1>4. n \in S
  <2>1. SUFFICES ASSUME n \notin S PROVE FALSE
    OBVIOUS
  <2>2. n - 1 \in U
    BY <1>2, <2>1
  <2>3. QED
    BY <1>3, <2>2
<1>5. \E k \in S : \A i \in DOMAIN lines : k >= lines[i].busSeq + 1
  BY <1>2, <1>4
<1>6. QED
  BY <1>2, <1>5 DEF SeqAfter

\* Restoring from a loadable file, or starting a new one, keeps the log well
\* formed.
LEMMA BootKeepsType ==
  ASSUME LogTypeOK, Load \/ ColdBoot
  PROVE  LogTypeOK'
<1>1. CASE Load
  <2>1. FileLines \in Seq(LogEntry \cup {Garbage})
    BY DEF FileLines, LogTypeOK
  <2>2. \A i \in DOMAIN FileLines : FileLines[i] \in LogEntry
    BY <1>1, <2>1 DEF Load, Loadable, IsEntry
  <2>3. FileLines \in Seq(LogEntry)
    BY <2>1, <2>2
  <2>4. SeqAfter(FileLines) \in Nat \ {0}
    BY <2>3, SeqAfterIsTyped
  <2>5. QED
    BY <1>1, <2>3, <2>4 DEF Load, LogTypeOK
<1>2. CASE ColdBoot
  BY <1>2 DEF ColdBoot, LogTypeOK
<1>3. QED
  BY <1>1, <1>2

-----------------------------------------------------------------------------
\* A process that is down holds no history: what makes LogFirst inductive over
\* a restart, where the log comes back and the controller does not.
DownHoldsNothing == ~up => \A a \in Agents : records[a] = << >>

IInv == TypeOK /\ HistoryIsPath /\ LogFirst /\ DownHoldsNothing

LEMMA InitIInv == Init => IInv
<1> SUFFICES ASSUME Init PROVE IInv
  OBVIOUS
<1>1. LogTypeOK
  <2>1. up \in BOOLEAN /\ frozen \in BOOLEAN
    BY Zenon DEF Init, LogInit
  <2>2. QED
    BY <2>1 DEF Init, LogInit, LogTypeOK
<1>2. /\ stateMap \in [Agents -> AgentStates]
      /\ records \in [Agents -> Seq(Record)]
      /\ busSeqCounter \in Nat
  BY DEF Init, AgentStates
<1>3. HistoryIsPath /\ LogFirst /\ DownHoldsNothing
  BY DEF Init, HistoryIsPath, LogFirst, DownHoldsNothing
<1>4. QED
  BY <1>1, <1>2, <1>3 DEF IInv, TypeOK

\* A restarted or dying controller knows no agent.
LEMMA FreshIsIInv ==
  ASSUME LogTypeOK', FreshController
  PROVE  IInv'
<1>1. /\ stateMap' \in [Agents -> AgentStates]
      /\ records' \in [Agents -> Seq(Record)]
      /\ busSeqCounter' \in Nat
  BY DEF FreshController, AgentStates
<1>2. HistoryIsPath' /\ LogFirst' /\ DownHoldsNothing'
  BY DEF FreshController, HistoryIsPath, LogFirst, DownHoldsNothing
<1>3. QED
  BY <1>1, <1>2 DEF IInv, TypeOK

\* One transition extends the path by the row it took.
LEMMA TransitionKeepsIInv ==
  ASSUME IInv, NEW a \in Agents, NEW r \in Rows, Transition(a, r)
  PROVE  IInv'
<1> DEFINE rec == [row |-> r, busSeq |-> busSeqCounter + 1]
<1>1. LogTypeOK'
  BY LifecycleAssumption, AppendKeepsType DEF IInv, TypeOK, Transition
<1>2. rec \in Record
  BY DEF IInv, TypeOK, Record
<1>3. /\ records' = [records EXCEPT ![a] = Append(records[a], rec)]
      /\ stateMap' = [stateMap EXCEPT ![a] = r.to]
  BY DEF Transition
<1>4. TypeOK'
  <2>1. records' \in [Agents -> Seq(Record)]
    BY <1>2, <1>3 DEF IInv, TypeOK
  <2>2. stateMap' \in [Agents -> AgentStates]
    BY <1>3, RowsAreTyped DEF IInv, TypeOK
  <2>3. busSeqCounter' \in Nat
    BY DEF Transition, IInv, TypeOK
  <2>4. QED
    BY <1>1, <2>1, <2>2, <2>3 DEF TypeOK
<1>5. /\ Len(records'[a]) = Len(records[a]) + 1
      /\ records'[a] # << >>
      /\ DOMAIN records[a] = 1..Len(records[a]) /\ Len(records[a]) \in Nat
      /\ DOMAIN records'[a] = 1..(Len(records[a]) + 1)
      /\ records'[a][Len(records[a]) + 1] = rec
      /\ \A i \in 1..Len(records[a]) : records'[a][i] = records[a][i]
      /\ \A b \in Agents \ {a} : records'[b] = records[b]
  <2>1. records[a] \in Seq(Record) /\ records \in [Agents -> Seq(Record)]
    BY DEF IInv, TypeOK
  <2>2. records'[a] = Append(records[a], rec)
    BY <1>3, <2>1
  <2>3. QED
    BY <1>2, <1>3, <2>1, <2>2, AppendProperties
<1>6. HistoryIsPath'
  <2>1. ASSUME NEW b \in Agents \ {a}
        PROVE  /\ \A i \in DOMAIN records'[b] :
                    records'[b][i].row.from =
                      IF i = 1 THEN "DEFINED" ELSE records'[b][i - 1].row.to
               /\ stateMap'[b] = IF records'[b] = << >> THEN "DEFINED"
                                 ELSE records'[b][Len(records'[b])].row.to
    <3>1. stateMap'[b] = stateMap[b]
      BY <1>3, <2>1 DEF IInv, TypeOK
    <3>2. QED
      BY <1>5, <3>1 DEF IInv, HistoryIsPath
  <2>2. ASSUME NEW i \in DOMAIN records'[a]
        PROVE  records'[a][i].row.from =
                 IF i = 1 THEN "DEFINED" ELSE records'[a][i - 1].row.to
    <3>1. /\ records[a] \in Seq(Record) /\ records'[a] \in Seq(Record)
          /\ DOMAIN records'[a] = 1..(Len(records[a]) + 1)
          /\ DOMAIN records[a] = 1..Len(records[a])
      BY <1>4, <1>5 DEF IInv, TypeOK
    <3>2. CASE i \in 1..Len(records[a])
      <4>1. i = 1 \/ i - 1 \in 1..Len(records[a])
        BY <1>5, <3>2
      <4>2. records[a][i].row.from =
              IF i = 1 THEN "DEFINED" ELSE records[a][i - 1].row.to
        BY <1>5, <3>2 DEF IInv, HistoryIsPath
      <4>3. CASE i = 1
        BY <1>5, <3>2, <4>2, <4>3
      <4>4. CASE i # 1
        BY <1>5, <3>2, <4>1, <4>2, <4>4
      <4>5. QED
        BY <4>3, <4>4
    <3>3. CASE i = Len(records[a]) + 1
      <4>1. records'[a][i].row.from = stateMap[a]
        BY <1>5, <3>3 DEF Transition
      <4>2. CASE records[a] = << >>
        BY <3>1, <3>3, <4>1, <4>2 DEF IInv, HistoryIsPath
      <4>3. CASE records[a] # << >>
        <5>1. stateMap[a] = records[a][Len(records[a])].row.to
          BY <4>3 DEF IInv, HistoryIsPath
        <5>2. Len(records[a]) \in Nat /\ Len(records[a]) # 0
          BY <3>1, <4>3
        <5>3. /\ i # 1 /\ i - 1 = Len(records[a]) /\ Len(records[a]) \in 1..Len(records[a])
          BY <3>3, <5>2
        <5>4. QED
          BY <1>5, <4>1, <5>1, <5>3
      <4>4. QED
        BY <4>2, <4>3
    <3>4. Len(records[a]) \in Nat /\ i \in 1..(Len(records[a]) + 1)
      BY <3>1
    <3>5. i \in 1..Len(records[a]) \/ i = Len(records[a]) + 1
      BY <3>4
    <3>6. QED
      BY <3>2, <3>3, <3>5
  <2>3. stateMap'[a] = records'[a][Len(records'[a])].row.to
    BY <1>3, <1>5 DEF IInv, TypeOK
  <2>4. QED
    BY <1>5, <2>1, <2>2, <2>3 DEF HistoryIsPath
<1>7. LogFirst'
  <2>1. /\ logs' = Append(logs, Entry(<<a, r>>))
        /\ up
        /\ Entry(<<a, r>>).data = <<a, r>>
        /\ logs \in Seq(LogEntry) /\ Entry(<<a, r>>) \in LogEntry
    BY EntryIsTyped, LifecycleAssumption
       DEF Transition, AppendOk, CanAppend, Entry, IInv, TypeOK, LogTypeOK
  <2>2. \A j \in DOMAIN logs : j \in DOMAIN logs' /\ logs'[j] = logs[j]
    BY <2>1, AppendProperties
  <2>3. /\ Len(logs) + 1 \in DOMAIN logs'
        /\ logs'[Len(logs) + 1].data = <<a, r>>
    BY <2>1, AppendProperties
  <2>4. ASSUME NEW b \in Agents, NEW i \in DOMAIN records'[b]
        PROVE  \E j \in DOMAIN logs' : logs'[j].data = <<b, records'[b][i].row>>
    <3>1. CASE b = a /\ i = Len(records[a]) + 1
      BY <1>5, <2>3, <3>1
    <3>2. CASE b # a
      <4>1. b \in Agents /\ i \in DOMAIN records[b] /\ records'[b] = records[b]
        BY <1>5, <2>4, <3>2
      <4>2. PICK j \in DOMAIN logs : logs[j].data = <<b, records[b][i].row>>
        BY <2>1, <4>1 DEF IInv, LogFirst
      <4>3. QED
        BY <2>2, <4>1, <4>2
    <3>3. CASE b = a /\ i # Len(records[a]) + 1
      <4>1. i \in DOMAIN records[a] /\ records'[a][i] = records[a][i]
        BY <1>5, <3>3
      <4>2. QED
        BY <2>1, <2>2, <3>3, <4>1 DEF IInv, LogFirst
    <3>4. QED
      BY <3>1, <3>2, <3>3
  <2>5. QED
    BY <2>4 DEF LogFirst
<1>8. DownHoldsNothing'
  BY DEF Transition, AppendOk, CanAppend, DownHoldsNothing
<1>9. QED
  BY <1>4, <1>6, <1>7, <1>8 DEF IInv

\* Steps that only add to the log leave the histories, and what the log says
\* of them, alone.
LEMMA LogGrowthKeepsIInv ==
  ASSUME IInv, NEW d \in Payloads, AppendOk(d) \/ AppendThrows(d),
         UNCHANGED <<stateMap, records>>, busSeqCounter' \in Nat
  PROVE  IInv'
<1>1. LogTypeOK'
  BY AppendKeepsType DEF IInv, TypeOK
<1>2. TypeOK'
  BY <1>1 DEF IInv, TypeOK
<1>3. HistoryIsPath'
  BY DEF IInv, HistoryIsPath
<1>4. up /\ (logs' = logs \/ logs' = Append(logs, Entry(d)))
  BY DEF AppendOk, AppendThrows, AppendDiskError, AppendFrozen, CanAppend
<1>5. \A j \in DOMAIN logs : j \in DOMAIN logs' /\ logs'[j] = logs[j]
  <2>1. logs \in Seq(LogEntry) /\ Entry(d) \in LogEntry
    BY EntryIsTyped DEF IInv, TypeOK, LogTypeOK, AppendOk, AppendThrows,
                        AppendDiskError, AppendFrozen
  <2>2. QED
    BY <1>4, <2>1, AppendProperties
<1>6. LogFirst'
  BY <1>4, <1>5 DEF IInv, LogFirst
<1>7. DownHoldsNothing'
  BY <1>4 DEF AppendOk, AppendThrows, AppendDiskError, AppendFrozen,
              DownHoldsNothing, IInv
<1>8. QED
  BY <1>2, <1>3, <1>6, <1>7 DEF IInv

\* Restarting: the log may come back, the controller starts over.
LEMMA RebootKeepsIInv ==
  ASSUME IInv, Reboot
  PROVE  IInv'
<1>1. ~up /\ UNCHANGED <<stateMap, records, busSeqCounter>>
  BY DEF Reboot, Load, ColdBoot, ctlVars
<1>2. LogTypeOK'
  BY BootKeepsType DEF Reboot, IInv, TypeOK
<1>3. \A a \in Agents : records'[a] = << >>
  BY <1>1 DEF IInv, DownHoldsNothing
<1>4. TypeOK' /\ HistoryIsPath'
  BY <1>1, <1>2 DEF IInv, TypeOK, HistoryIsPath
<1>5. LogFirst' /\ DownHoldsNothing'
  BY <1>3 DEF LogFirst, DownHoldsNothing
<1>6. QED
  BY <1>4, <1>5 DEF IInv

LEMMA NextIInv == IInv /\ [Next]_vars => IInv'
<1> SUFFICES ASSUME IInv, [Next]_vars PROVE IInv'
  OBVIOUS
<1>1. ASSUME NEW a \in Agents, NEW r \in Rows, Transition(a, r)
      PROVE  IInv'
  BY <1>1, TransitionKeepsIInv
<1>2. ASSUME NEW a \in Agents, NEW r \in Rows, TransitionNotLogged(a, r)
      PROVE  IInv'
  BY <1>2, LogGrowthKeepsIInv, LifecycleAssumption
     DEF TransitionNotLogged, IInv, TypeOK
<1>3. ASSUME NEW d \in OtherEntries, OtherAppend(d)
      PROVE  IInv'
  BY <1>3, LogGrowthKeepsIInv, LifecycleAssumption
     DEF OtherAppend, ctlVars, IInv, TypeOK
<1>4. CASE Killed
  <2>1. Crash \/ \E d \in Payloads : CrashDuring(d)
    BY <1>4, LifecycleAssumption DEF Killed
  <2>2. QED
    BY <1>4, <2>1, CrashKeepsType, FreshIsIInv DEF Killed, IInv, TypeOK
<1>5. CASE Reboot
  BY <1>5, RebootKeepsIInv
<1>6. CASE UNCHANGED vars
  <2>1. TypeOK'
    BY <1>6 DEF vars, IInv, TypeOK, LogTypeOK
  <2>2. HistoryIsPath' /\ LogFirst' /\ DownHoldsNothing'
    BY <1>6 DEF vars, IInv, HistoryIsPath, LogFirst, DownHoldsNothing
  <2>3. QED
    BY <2>1, <2>2 DEF IInv
<1>7. QED
  BY <1>1, <1>2, <1>3, <1>4, <1>5, <1>6 DEF Next

\* The inductive invariant of the controller over its log.
LEMMA SpecIInv == Spec => []IInv
  BY InitIInv, NextIInv, PTL DEF Spec

\* Every value stays in its type.
THEOREM TypeCorrect == Spec => []TypeOK
<1>1. IInv => TypeOK
  BY DEF IInv
<1>2. QED
  BY <1>1, SpecIInv, PTL

\* Whatever appends fail and whenever the process dies, the history of an
\* agent is a path of the table that ends in the state getState() returns.
THEOREM HistoryAlwaysPath == Spec => []HistoryIsPath
<1>1. IInv => HistoryIsPath
  BY DEF IInv
<1>2. QED
  BY <1>1, SpecIInv, PTL

\* INV-01: the log is never behind the controller.
THEOREM AlwaysLogFirst == Spec => []LogFirst
<1>1. IInv => LogFirst
  BY DEF IInv
<1>2. QED
  BY <1>1, SpecIInv, PTL

\* SM-INV-03: no step of a running process takes an agent out of TERMINATED.
THEOREM SinkHolds == Spec => TerminatedIsSink
<1> DEFINE Sink == up' => \A a \in Agents :
                    stateMap[a] = "TERMINATED" => stateMap'[a] = "TERMINATED"
<1>1. IInv /\ [Next]_vars => [Sink]_vars
  <2> SUFFICES ASSUME IInv, Next PROVE Sink
    OBVIOUS
  <2>1. ASSUME NEW a \in Agents, NEW r \in Rows, Transition(a, r)
        PROVE  Sink
    BY <2>1, RowsAreTyped DEF Transition, IInv, TypeOK
  <2>2. CASE Killed
    BY <2>2 DEF Killed, Crash, CrashDuring, ProcessDies
  <2>3. CASE UNCHANGED stateMap
    BY <2>3
  <2>4. QED
    BY <2>1, <2>2, <2>3
       DEF Next, TransitionNotLogged, OtherAppend, Reboot, ctlVars
<1>2. QED
  BY <1>1, SpecIInv, PTL DEF Spec, TerminatedIsSink

-----------------------------------------------------------------------------
\* The file.  An append, whether it returns, throws or is cut by the end of the
\* process, either leaves the lines a reader finds alone, or puts its entry
\* behind them, or spoils the last one.

LEMMA LinesDiffer ==
  /\ Garbage \notin LogEntry /\ NoTail \notin LogEntry /\ Partial \notin LogEntry
  /\ NoTail # Partial
  BY DEF Garbage, NoTail, Partial, LogEntry

\* FileLines, of any file.
LinesOf(lines, end) ==
  IF end = NoTail THEN lines ELSE Append(lines, IF end = Partial THEN Garbage ELSE end)

LEMMA LinesAre ==
  ASSUME NEW lines \in Seq(LogEntry \cup {Garbage}), NEW end \in LogEntry \cup {NoTail, Partial}
  PROVE  /\ LinesOf(lines, end) \in Seq(LogEntry \cup {Garbage})
         /\ Len(lines) \in Nat /\ DOMAIN lines = 1..Len(lines)
         /\ Len(LinesOf(lines, end)) = IF end = NoTail THEN Len(lines) ELSE Len(lines) + 1
         /\ DOMAIN LinesOf(lines, end) = 1..Len(LinesOf(lines, end))
         /\ \A i \in 1..Len(lines) : LinesOf(lines, end)[i] = lines[i]
         /\ end # NoTail =>
              LinesOf(lines, end)[Len(lines) + 1] = IF end = Partial THEN Garbage ELSE end
<1> DEFINE S == LogEntry \cup {Garbage}
           last == IF end = Partial THEN Garbage ELSE end
<1>2. CASE end = NoTail
  BY <1>2 DEF LinesOf
<1>3. CASE end # NoTail
  <2>1. last \in S /\ lines \in Seq(S)
    BY <1>3
  <2>2. LinesOf(lines, end) = Append(lines, last)
    BY <1>3 DEF LinesOf
  <2> HIDE DEF last, S
  <2>3. /\ LinesOf(lines, end) \in Seq(S) /\ Len(lines) \in Nat /\ DOMAIN lines = 1..Len(lines)
        /\ Len(LinesOf(lines, end)) = Len(lines) + 1
        /\ DOMAIN LinesOf(lines, end) = 1..(Len(lines) + 1)
        /\ LinesOf(lines, end)[Len(lines) + 1] = last
        /\ \A i \in 1..Len(lines) : LinesOf(lines, end)[i] = lines[i]
    BY <2>1, <2>2, AppendProperties
  <2> QED BY <1>3, <2>3 DEF last, S
<1> QED BY <1>2, <1>3

\* What a reader finds in file new, of what was in file old or of e behind it.
OnlyBehind(old, new, e) ==
  \A i \in DOMAIN new : IsEntry(new[i]) =>
    \/ i \in DOMAIN old /\ new[i] = old[i]
    \/ new[i] = e /\ i = Len(old) + 1

\* The write of e that stops.
LEMMA InterruptedLines ==
  ASSUME LogTypeOK, NEW e \in LogEntry, Interrupted(e)
  PROVE  OnlyBehind(FileLines, FileLines', e)
<1>1. disk \in Seq(LogEntry \cup {Garbage}) /\ tail \in LogEntry \cup {NoTail, Partial}
  BY DEF LogTypeOK
<1>2. FileLines = LinesOf(disk, tail) /\ FileLines' = LinesOf(disk, tail')
  BY DEF FileLines, LinesOf, Interrupted
<1>3. CASE tail' = tail
  BY <1>2, <1>3 DEF OnlyBehind
<1>0. /\ Len(disk) \in Nat
      /\ Len(FileLines) = IF tail = NoTail THEN Len(disk) ELSE Len(disk) + 1
      /\ DOMAIN FileLines = 1..Len(FileLines)
      /\ \A i \in 1..Len(disk) : FileLines[i] = disk[i]
  BY <1>1, <1>2, LinesAre
<1>4. CASE tail' = Partial
  <2>1. FileLines' = LinesOf(disk, Partial)
    BY <1>2, <1>4
  <2>2. /\ DOMAIN FileLines' = 1..(Len(disk) + 1) /\ FileLines'[Len(disk) + 1] = Garbage
        /\ \A i \in 1..Len(disk) : FileLines'[i] = disk[i]
    BY <1>1, <2>1, LinesAre, LinesDiffer
  <2> QED BY <1>0, <2>2 DEF OnlyBehind, IsEntry
<1>5. CASE tail = NoTail /\ tail' = e
  <2>1. FileLines' = LinesOf(disk, e) /\ e # NoTail /\ e # Partial
    BY <1>2, <1>5, LinesDiffer
  <2>2. /\ DOMAIN FileLines' = 1..(Len(disk) + 1) /\ FileLines'[Len(disk) + 1] = e
        /\ \A i \in 1..Len(disk) : FileLines'[i] = disk[i]
    BY <1>1, <2>1, LinesAre
  <2> QED BY <1>0, <1>5, <2>2 DEF OnlyBehind
<1> QED
  BY <1>3, <1>4, <1>5 DEF Interrupted

\* The write that does not.
LEMMA AppendedLines ==
  ASSUME LogTypeOK, NEW d \in Payloads, AppendOk(d)
  PROVE  OnlyBehind(FileLines, FileLines', Entry(d))
<1>1. disk \in Seq(LogEntry \cup {Garbage}) /\ tail \in LogEntry \cup {NoTail, Partial}
  BY DEF LogTypeOK
<1>2. FileLines = LinesOf(disk, tail)
  BY DEF FileLines, LinesOf
<1>3. FileLines' = Append(disk, IF tail = NoTail THEN Entry(d) ELSE Garbage)
  BY DEF FileLines, AppendOk
<1>4. Entry(d) \in LogEntry
  BY EntryIsTyped DEF AppendOk
<1> DEFINE last == IF tail = NoTail THEN Entry(d) ELSE Garbage
<1>5. last \in LogEntry \cup {Garbage}
  BY <1>4
<1>6. /\ DOMAIN FileLines' = 1..(Len(disk) + 1) /\ FileLines'[Len(disk) + 1] = last
      /\ \A i \in 1..Len(disk) : FileLines'[i] = disk[i]
  <2> HIDE DEF last
  <2>1. FileLines' = Append(disk, last)
    BY <1>3 DEF last
  <2> QED BY <1>1, <1>5, <2>1, AppendProperties
<1>7. CASE tail = NoTail
  BY <1>1, <1>2, <1>6, <1>7, LinesAre DEF OnlyBehind
<1>8. CASE tail # NoTail
  BY <1>1, <1>2, <1>6, <1>8, LinesAre DEF OnlyBehind, IsEntry
<1> QED
  BY <1>7, <1>8

Below(lines, n) == \A i \in DOMAIN lines : IsEntry(lines[i]) => lines[i].busSeq < n

\* A process writes to a file of its own, from the start of it: the numbers it
\* gives are new to the file.  One that was restored from a file never writes.
FileInv ==
  /\ ~up => logs = << >> /\ nextBusSeq = 1 /\ ~frozen
  /\ up /\ ~frozen => Below(FileLines, nextBusSeq) /\ Below(acked, nextBusSeq)
  /\ DiskIsOrdered /\ MemoryMatchesFile
  /\ tail \in LogEntry => \A i \in DOMAIN acked : acked[i] # tail

LEMMA LinesAreTyped ==
  ASSUME LogTypeOK
  PROVE  /\ FileLines \in Seq(LogEntry \cup {Garbage})
         /\ Len(FileLines) \in Nat /\ DOMAIN FileLines = 1..Len(FileLines)
         /\ \A i \in DOMAIN FileLines : IsEntry(FileLines[i]) =>
              FileLines[i] \in LogEntry /\ FileLines[i].busSeq \in Nat
<1>1. FileLines = LinesOf(disk, tail)
  BY DEF FileLines, LinesOf
<1>2. FileLines \in Seq(LogEntry \cup {Garbage})
  BY <1>1, LinesAre DEF LogTypeOK
<1>3. \A e \in LogEntry : e.busSeq \in Nat
  BY FileLoggerAssumption DEF LogEntry
<1> QED
  BY <1>2, <1>3 DEF IsEntry

\* What one entry behind the others does to the order, and to the numbers.
LEMMA OrderIsKept ==
  ASSUME LogTypeOK, FileInv, CanAppend, ~frozen, NEW d \in Payloads,
         OnlyBehind(FileLines, FileLines', Entry(d))
  PROVE  DiskIsOrdered' /\ Below(FileLines', nextBusSeq + 1)
<1>1. Below(FileLines, nextBusSeq) /\ nextBusSeq \in Nat /\ Entry(d).busSeq = nextBusSeq
  BY DEF FileInv, CanAppend, Entry, LogTypeOK
<1> DEFINE old == FileLines
           new == FileLines'
           e == Entry(d)
<1>2. /\ Len(old) \in Nat /\ DOMAIN old = 1..Len(old)
      /\ \A i \in DOMAIN old : IsEntry(old[i]) => old[i].busSeq \in Nat
  BY LinesAreTyped
<1>3. \A i \in DOMAIN new : IsEntry(new[i]) =>
        \/ i \in DOMAIN old /\ new[i] = old[i]
        \/ new[i] = e /\ i = Len(old) + 1
  BY DEF OnlyBehind
<1>4. \A i, j \in DOMAIN old :
        i < j /\ IsEntry(old[i]) /\ IsEntry(old[j]) => old[i].busSeq < old[j].busSeq
  BY DEF FileInv, DiskIsOrdered
<1>5. \A i \in DOMAIN old : IsEntry(old[i]) => old[i].busSeq < nextBusSeq
  BY <1>1 DEF Below
<1> HIDE DEF old, new, e
<1>6. Below(new, nextBusSeq + 1)
  BY <1>1, <1>2, <1>3, <1>5 DEF Below, e
<1>7. \A i, j \in DOMAIN new :
        i < j /\ IsEntry(new[i]) /\ IsEntry(new[j]) => new[i].busSeq < new[j].busSeq
  BY <1>1, <1>2, <1>3, <1>4, <1>5 DEF e
<1> QED
  BY <1>6, <1>7 DEF DiskIsOrdered, new

LEMMA MemoryKeepsUp ==
  ASSUME LogTypeOK, FileInv, CanAppend, ~frozen, NEW d \in Payloads,
         OnlyBehind(FileLines, FileLines', Entry(d)),
         logs' = Append(logs, Entry(d)), UNCHANGED <<up, frozen>>
  PROVE  MemoryMatchesFile'
<1>1. Entry(d) \in LogEntry /\ logs \in Seq(LogEntry)
  BY EntryIsTyped DEF LogTypeOK
<1>2. \A i \in DOMAIN FileLines : IsEntry(FileLines[i]) =>
        \E j \in DOMAIN logs : logs[j] = FileLines[i]
  BY DEF FileInv, MemoryMatchesFile, CanAppend
<1>3. /\ \A j \in DOMAIN logs : j \in DOMAIN logs' /\ logs'[j] = logs[j]
      /\ Len(logs) + 1 \in DOMAIN logs' /\ logs'[Len(logs) + 1] = Entry(d)
  BY <1>1, AppendProperties
<1>4. \A i \in DOMAIN FileLines' : IsEntry(FileLines'[i]) =>
        \E j \in DOMAIN logs' : logs'[j] = FileLines'[i]
  BY <1>2, <1>3 DEF OnlyBehind
<1> QED
  BY <1>4 DEF MemoryMatchesFile

\* No entry whose append returned waits for its newline.
LEMMA TailIsNotAcked ==
  ASSUME LogTypeOK, FileInv, CanAppend, ~frozen, NEW d \in Payloads,
         Interrupted(Entry(d)), UNCHANGED acked
  PROVE  tail' \in LogEntry => \A i \in DOMAIN acked' : acked'[i] # tail'
<1>1. \A i \in DOMAIN acked : acked[i] \in LogEntry
  BY DEF LogTypeOK
<1>2. \A i \in DOMAIN acked : acked[i].busSeq < nextBusSeq
  BY <1>1, LinesDiffer DEF FileInv, CanAppend, Below, IsEntry
<1>3. \A i \in DOMAIN acked : acked[i] # Entry(d)
  BY <1>2 DEF Entry, LogTypeOK
<1> QED
  BY <1>3, LinesDiffer DEF Interrupted, FileInv

LEMMA AppendOkKeepsFile ==
  ASSUME LogTypeOK, FileInv, NEW d \in Payloads, AppendOk(d)
  PROVE  FileInv'
<1>1. OnlyBehind(FileLines, FileLines', Entry(d)) /\ CanAppend /\ ~frozen
  BY AppendedLines DEF AppendOk
<1>2. DiskIsOrdered' /\ Below(FileLines', nextBusSeq') /\ MemoryMatchesFile'
  BY <1>1, OrderIsKept, MemoryKeepsUp DEF AppendOk
<1>3. Below(acked', nextBusSeq')
  <2>1. /\ Entry(d) \in LogEntry /\ Entry(d).busSeq = nextBusSeq /\ acked \in Seq(LogEntry)
        /\ nextBusSeq \in Nat
    BY <1>1, EntryIsTyped DEF LogTypeOK, Entry
  <2>2. \A i \in DOMAIN acked : acked[i] \in LogEntry /\ acked[i].busSeq \in Nat
    <3>1. \A i \in DOMAIN acked : acked[i] \in LogEntry
      BY <2>1
    <3> QED BY <3>1, FileLoggerAssumption DEF LogEntry
  <2>3. \A i \in DOMAIN acked : acked[i].busSeq < nextBusSeq
    BY <1>1, <2>2, LinesDiffer DEF FileInv, CanAppend, Below, IsEntry
  <2>4. acked' = Append(acked, Entry(d)) /\ nextBusSeq' = nextBusSeq + 1
    BY DEF AppendOk
  <2>5. \A i \in DOMAIN acked' : \/ i \in DOMAIN acked /\ acked'[i] = acked[i]
                                 \/ acked'[i] = Entry(d)
    BY <2>1, <2>4, AppendProperties
  <2> QED BY <2>1, <2>2, <2>3, <2>4, <2>5 DEF Below
<1>4. tail' \notin LogEntry /\ up' /\ ~frozen'
  BY <1>1, LinesDiffer DEF AppendOk, CanAppend
<1> QED
  BY <1>2, <1>3, <1>4 DEF FileInv

LEMMA DiskErrorKeepsFile ==
  ASSUME LogTypeOK, FileInv, NEW d \in Payloads, AppendDiskError(d)
  PROVE  FileInv'
<1>1. CanAppend /\ ~frozen /\ Interrupted(Entry(d)) /\ UNCHANGED <<up, frozen, acked>>
  BY DEF AppendDiskError
<1>2. OnlyBehind(FileLines, FileLines', Entry(d))
  BY <1>1, EntryIsTyped, InterruptedLines
<1>3. DiskIsOrdered' /\ Below(FileLines', nextBusSeq') /\ MemoryMatchesFile'
  BY <1>1, <1>2, OrderIsKept, MemoryKeepsUp DEF AppendDiskError
<1>4. Below(acked', nextBusSeq')
  <2>1. \A i \in DOMAIN acked : acked[i].busSeq \in Nat /\ nextBusSeq \in Nat
    <3>1. \A i \in DOMAIN acked : acked[i] \in LogEntry
      BY DEF LogTypeOK
    <3> QED BY <3>1, FileLoggerAssumption DEF LogEntry, LogTypeOK
  <2> QED
    BY <1>1, <2>1 DEF AppendDiskError, FileInv, CanAppend, Below
<1>5. tail' \in LogEntry => \A i \in DOMAIN acked' : acked'[i] # tail'
  BY <1>1, TailIsNotAcked
<1>6. up' /\ ~frozen'
  BY <1>1 DEF CanAppend
<1> QED
  BY <1>3, <1>4, <1>5, <1>6 DEF FileInv

LEMMA AppendKeepsFile ==
  ASSUME LogTypeOK, FileInv, NEW d \in Payloads, AppendOk(d) \/ AppendThrows(d)
  PROVE  FileInv'
<1>1. CASE AppendFrozen(d)
  <2>1. /\ up /\ frozen /\ UNCHANGED <<up, logs, frozen, disk, tail, acked>>
    BY <1>1 DEF AppendFrozen, CanAppend
  <2> QED
    BY <2>1 DEF FileInv, DiskIsOrdered, MemoryMatchesFile, FileLines
<1> QED
  BY <1>1, AppendOkKeepsFile, DiskErrorKeepsFile DEF AppendThrows

LEMMA CrashKeepsFile ==
  ASSUME LogTypeOK, FileInv, Crash \/ \E d \in Payloads : CrashDuring(d)
  PROVE  FileInv'
<1>1. /\ ~up' /\ ~frozen' /\ logs' = << >> /\ nextBusSeq' = 1 /\ UNCHANGED acked
  BY DEF Crash, CrashDuring, ProcessDies
<1>2. CASE Crash
  BY <1>1, <1>2 DEF Crash, FileInv, DiskIsOrdered, MemoryMatchesFile, FileLines
<1>3. CASE \E d \in Payloads : CrashDuring(d)
  <2>1. PICK d \in Payloads : CrashDuring(d)
    BY <1>3
  <2>2. CanAppend /\ ~frozen /\ Interrupted(Entry(d))
    BY <2>1 DEF CrashDuring
  <2>3. DiskIsOrdered'
    BY <2>2, EntryIsTyped, InterruptedLines, OrderIsKept
  <2>4. tail' \in LogEntry => \A i \in DOMAIN acked' : acked'[i] # tail'
    BY <1>1, <2>2, TailIsNotAcked
  <2> QED
    BY <1>1, <2>3, <2>4 DEF FileInv, MemoryMatchesFile
<1> QED
  BY <1>2, <1>3

LEMMA BootKeepsFile ==
  ASSUME LogTypeOK, FileInv, Load \/ ColdBoot
  PROVE  FileInv'
<1>1. CASE Load
  <2>1. /\ up' /\ frozen' /\ logs' = FileLines /\ UNCHANGED <<disk, tail, acked>>
        /\ FileLines' = FileLines
    BY <1>1 DEF Load, FileLines
  <2> QED
    BY <2>1 DEF FileInv, DiskIsOrdered, MemoryMatchesFile
<1>2. CASE ColdBoot
  <2>1. /\ up' /\ ~frozen' /\ disk' = << >> /\ tail' = NoTail /\ acked' = << >>
        /\ FileLines' = << >>
    BY <1>2 DEF ColdBoot, FileInv, FileLines
  <2> QED
    BY <2>1, LinesDiffer DEF FileInv, DiskIsOrdered, MemoryMatchesFile, Below
<1> QED
  BY <1>1, <1>2

-----------------------------------------------------------------------------
\* What fragments cost.

LostOf(ack, lines) == {i \in DOMAIN ack : \A j \in DOMAIN lines : lines[j] # ack[i]}
Fragments(lines) == {j \in DOMAIN lines : ~IsEntry(lines[j])}

\* An entry that was acknowledged is in a line with a newline, or nowhere.
LEMMA LostFromDisk ==
  ASSUME NEW ack \in Seq(LogEntry), NEW lines \in Seq(LogEntry \cup {Garbage}),
         NEW end \in LogEntry \cup {NoTail, Partial},
         end \in LogEntry => \A i \in DOMAIN ack : ack[i] # end
  PROVE  LostOf(ack, LinesOf(lines, end)) = LostOf(ack, lines)
<1>1. \A i \in DOMAIN ack : ack[i] \in LogEntry /\ ack[i] # Garbage
  BY LinesDiffer
<1>2. CASE end = NoTail
  BY <1>2 DEF LinesOf
<1>3. CASE end # NoTail
  <2>1. /\ Len(lines) \in Nat /\ DOMAIN lines = 1..Len(lines)
        /\ DOMAIN LinesOf(lines, end) = 1..(Len(lines) + 1)
        /\ \A i \in 1..Len(lines) : LinesOf(lines, end)[i] = lines[i]
        /\ LinesOf(lines, end)[Len(lines) + 1] = IF end = Partial THEN Garbage ELSE end
    BY <1>3, LinesAre
  <2>2. \A i \in DOMAIN ack : LinesOf(lines, end)[Len(lines) + 1] # ack[i]
    BY <1>1, <1>3, <2>1
  <2> QED BY <2>1, <2>2 DEF LostOf
<1> QED BY <1>2, <1>3

LEMMA OneMayBeLost ==
  ASSUME NEW ack \in Seq(LogEntry), NEW lines \in Seq(LogEntry \cup {Garbage}),
         NEW e \in LogEntry, NEW last \in {e, Garbage},
         Cardinality(LostOf(ack, lines)) <= Cardinality(Fragments(lines))
  PROVE  Cardinality(LostOf(Append(ack, e), Append(lines, last)))
           <= Cardinality(Fragments(Append(lines, last)))
<1> DEFINE A == Append(ack, e)
           L == Append(lines, last)
           n == Len(ack) + 1
           m == Len(lines) + 1
<1>1. /\ Len(ack) \in Nat /\ DOMAIN ack = 1..Len(ack)
      /\ DOMAIN A = 1..n /\ A[n] = e /\ \A i \in 1..Len(ack) : A[i] = ack[i]
  BY AppendProperties
<1>2. /\ Len(lines) \in Nat /\ DOMAIN lines = 1..Len(lines)
      /\ DOMAIN L = 1..m /\ L[m] = last /\ \A i \in 1..Len(lines) : L[i] = lines[i]
  <2>1. last \in LogEntry \cup {Garbage}
    OBVIOUS
  <2> QED BY <2>1, AppendProperties
<1> HIDE DEF A, L
<1>3. /\ IsFiniteSet(LostOf(ack, lines)) /\ IsFiniteSet(Fragments(lines))
      /\ Cardinality(LostOf(ack, lines)) \in Nat /\ Cardinality(Fragments(lines)) \in Nat
  <2>1. IsFiniteSet(1..Len(ack)) /\ IsFiniteSet(1..Len(lines))
    BY <1>1, <1>2, FS_Interval
  <2>2. LostOf(ack, lines) \subseteq 1..Len(ack) /\ Fragments(lines) \subseteq 1..Len(lines)
    BY <1>1, <1>2 DEF LostOf, Fragments
  <2> QED BY <2>1, <2>2, FS_Subset, FS_CardinalityType
<1>4. \A i \in LostOf(A, L) : i # n => i \in LostOf(ack, lines)
  BY <1>1, <1>2 DEF LostOf
<1>5. CASE last = e
  <2>1. LostOf(A, L) \subseteq LostOf(ack, lines)
    <3>1. n \notin LostOf(A, L)
      BY <1>1, <1>2, <1>5 DEF LostOf
    <3> QED BY <1>4, <3>1
  <2>2. Fragments(L) = Fragments(lines)
    BY <1>2, <1>5, LinesDiffer DEF Fragments, IsEntry
  <2>3. Cardinality(LostOf(A, L)) <= Cardinality(LostOf(ack, lines))
        /\ Cardinality(LostOf(A, L)) \in Nat
    BY <1>3, <2>1, FS_Subset, FS_CardinalityType
  <2> QED BY <1>3, <2>2, <2>3 DEF A, L
<1>6. CASE last = Garbage
  <2>1. LostOf(A, L) \subseteq LostOf(ack, lines) \cup {n}
    BY <1>4
  <2>2. /\ IsFiniteSet(LostOf(ack, lines) \cup {n})
        /\ Cardinality(LostOf(ack, lines) \cup {n}) <= Cardinality(LostOf(ack, lines)) + 1
        /\ Cardinality(LostOf(ack, lines) \cup {n}) \in Nat
    <3>1. /\ IsFiniteSet(LostOf(ack, lines) \cup {n})
          /\ Cardinality(LostOf(ack, lines) \cup {n}) =
               IF n \in LostOf(ack, lines) THEN Cardinality(LostOf(ack, lines))
                                          ELSE Cardinality(LostOf(ack, lines)) + 1
      BY <1>3, FS_AddElement
    <3> QED BY <1>3, <3>1
  <2>3. Cardinality(LostOf(A, L)) <= Cardinality(LostOf(ack, lines) \cup {n})
        /\ Cardinality(LostOf(A, L)) \in Nat
    BY <2>1, <2>2, FS_Subset, FS_CardinalityType
  <2>4. Fragments(L) = Fragments(lines) \cup {m} /\ m \notin Fragments(lines)
    BY <1>2, <1>6 DEF Fragments, IsEntry
  <2>5. Cardinality(Fragments(L)) = Cardinality(Fragments(lines)) + 1
    BY <1>3, <2>4, FS_AddElement
  <2> QED BY <1>3, <2>2, <2>3, <2>5 DEF A, L
<1> QED BY <1>5, <1>6

\* OneLossPerFragment, without the line that has no newline.
LossInv == Cardinality(LostOf(acked, disk)) <= Cardinality(Fragments(disk))

LEMMA LossIsOnDisk ==
  ASSUME LogTypeOK, FileInv, LossInv
  PROVE  OneLossPerFragment
<1>1. FileLines = LinesOf(disk, tail)
  BY DEF FileLines, LinesOf
<1>2. LostOf(acked, FileLines) = LostOf(acked, disk)
  BY <1>1, LostFromDisk DEF LogTypeOK, FileInv
<1>3. OneLossPerFragment <=>
        Cardinality(LostOf(acked, FileLines)) <= Cardinality(Fragments(disk))
  BY DEF OneLossPerFragment, LostOf, Fragments
<1> QED BY <1>2, <1>3 DEF LossInv

LEMMA AppendKeepsLoss ==
  ASSUME LogTypeOK, LossInv, NEW d \in Payloads, AppendOk(d) \/ AppendThrows(d)
  PROVE  LossInv'
<1>1. CASE AppendOk(d)
  <2>1. Entry(d) \in LogEntry
    BY <1>1, EntryIsTyped DEF AppendOk
  <2>2. PICK last \in {Entry(d), Garbage} :
          disk' = Append(disk, last) /\ acked' = Append(acked, Entry(d))
    BY <1>1 DEF AppendOk
  <2> QED BY <2>1, <2>2, OneMayBeLost DEF LogTypeOK, LossInv
<1>2. CASE AppendThrows(d)
  BY <1>2 DEF AppendThrows, AppendDiskError, AppendFrozen, Interrupted, LossInv
<1> QED BY <1>1, <1>2

LEMMA OthersKeepLoss ==
  ASSUME LossInv, Crash \/ (\E d \in Payloads : CrashDuring(d)) \/ Load \/ ColdBoot
  PROVE  LossInv'
<1>1. CASE ColdBoot
  <2>1. LostOf(<< >>, << >>) = {} /\ Fragments(<< >>) = {}
    BY DEF LostOf, Fragments
  <2>2. LostOf(acked', disk') = {} /\ Fragments(disk') = {}
    BY <1>1, <2>1 DEF ColdBoot
  <2> QED BY <2>2, FS_EmptySet DEF LossInv, LostOf, Fragments
<1>2. CASE Crash \/ (\E d \in Payloads : CrashDuring(d)) \/ Load
  BY <1>2 DEF Crash, CrashDuring, ProcessDies, Interrupted, Load, LossInv
<1> QED BY <1>1, <1>2

-----------------------------------------------------------------------------
\* What the file tells of the controller.

\* Tells over one more line, or one more transition.
LEMMA TellsOneMore ==
  ASSUME NEW a \in Agents, NEW r \in Rows, NEW lines \in Seq(LogEntry \cup {Garbage}),
         NEW history \in Seq(Record), NEW rec \in Record, rec.row = r,
         NEW e \in LogEntry, e.data = <<a, r>>, Tells(lines, a, history)
  PROVE  Tells(Append(lines, e), a, Append(history, rec))
<1> DEFINE L == Append(lines, e)
           H == Append(history, rec)
           m == Len(lines) + 1
           n == Len(history) + 1
<1>1. /\ Len(lines) \in Nat /\ DOMAIN lines = 1..Len(lines)
      /\ DOMAIN L = 1..m /\ L[m] = e /\ \A i \in 1..Len(lines) : L[i] = lines[i]
  BY AppendProperties
<1>2. /\ Len(history) \in Nat /\ DOMAIN history = 1..Len(history)
      /\ Len(H) = n /\ H[n] = rec /\ \A i \in 1..Len(history) : H[i] = history[i]
  BY AppendProperties
<1>3. IsEntry(e)
  BY LinesDiffer DEF IsEntry
<1> HIDE DEF L, H
<1>4. RowLines(L, a) = RowLines(lines, a) \cup {m} /\ m \notin RowLines(lines, a)
  BY <1>1, <1>3 DEF RowLines, IsRowOf
<1>5. /\ RowLines(lines, a) \subseteq 1..Len(lines) /\ IsFiniteSet(RowLines(lines, a))
      /\ Cardinality(RowLines(lines, a)) = Len(history)
  <2>1. RowLines(lines, a) \subseteq 1..Len(lines)
    BY <1>1 DEF RowLines
  <2>2. IsFiniteSet(1..Len(lines))
    <3>1. 1 \in Int /\ Len(lines) \in Int
      BY <1>1
    <3> QED BY <3>1, FS_Interval
  <2> QED BY <2>1, <2>2, FS_Subset DEF Tells
<1>6. Cardinality(RowLines(L, a)) = n
  BY <1>4, <1>5, FS_AddElement
<1>7. ASSUME NEW j \in RowLines(lines, a)
      PROVE  L[j].data[2] = H[Cardinality(RowLines(L, a) \cap 1..j)].row
  <2>1. RowLines(L, a) \cap 1..j = RowLines(lines, a) \cap 1..j
    BY <1>1, <1>4, <1>5
  <2>2. /\ Cardinality(RowLines(lines, a) \cap 1..j) \in 1..Len(history)
    <3>1. /\ IsFiniteSet(RowLines(lines, a) \cap 1..j)
          /\ Cardinality(RowLines(lines, a) \cap 1..j) <= Len(history)
      BY <1>5, FS_Subset
    <3>2. j \in RowLines(lines, a) \cap 1..j
      BY <1>5
    <3>3. /\ Cardinality(RowLines(lines, a) \cap 1..j) \in Nat
          /\ Cardinality(RowLines(lines, a) \cap 1..j) # 0
      BY <3>1, <3>2, FS_CardinalityType, FS_EmptySet
    <3> QED BY <1>2, <3>1, <3>3
  <2>3. lines[j].data[2] = history[Cardinality(RowLines(lines, a) \cap 1..j)].row
    BY DEF Tells
  <2>4. L[j] = lines[j]
    BY <1>1, <1>5
  <2> QED BY <1>2, <2>1, <2>2, <2>3, <2>4
<1>8. L[m].data[2] = H[Cardinality(RowLines(L, a) \cap 1..m)].row
  <2>1. RowLines(L, a) \cap 1..m = RowLines(L, a)
    BY <1>1, <1>4, <1>5
  <2>2. L[m].data[2] = r /\ H[n].row = r
    BY <1>1, <1>2
  <2> QED BY <1>6, <2>1, <2>2
<1>9. Tells(L, a, H)
  BY <1>2, <1>4, <1>6, <1>7, <1>8 DEF Tells
<1> QED BY <1>9 DEF L, H

\* A line about something else.
LEMMA TellsNoMore ==
  ASSUME NEW a \in Agents, NEW lines \in Seq(LogEntry \cup {Garbage}), NEW history,
         NEW e \in LogEntry \cup {Garbage}, ~IsRowOf(a, e), Tells(lines, a, history)
  PROVE  Tells(Append(lines, e), a, history)
<1> DEFINE L == Append(lines, e)
<1>1. /\ Len(lines) \in Nat /\ DOMAIN lines = 1..Len(lines)
      /\ DOMAIN L = 1..(Len(lines) + 1) /\ L[Len(lines) + 1] = e
      /\ \A i \in 1..Len(lines) : L[i] = lines[i]
  BY AppendProperties
<1> HIDE DEF L
<1>2. RowLines(L, a) = RowLines(lines, a)
  BY <1>1 DEF RowLines
<1>3. \A j \in RowLines(lines, a) : L[j] = lines[j]
  BY <1>1 DEF RowLines
<1>4. Tells(L, a, history)
  BY <1>2, <1>3 DEF Tells
<1> QED BY <1>4 DEF L

\* FileTellsState over the lines with a newline.  An entry that waits for its
\* newline never gets it: what follows is glued to it, and then the file is no
\* longer one that tells.
DiskTells ==
  up /\ ~frozen /\ (\A i \in DOMAIN disk : IsEntry(disk[i])) =>
    \A a \in Agents : Tells(disk, a, records[a])

LEMMA DiskTellsState ==
  ASSUME DiskTells
  PROVE  FileTellsState
  BY DEF DiskTells, FileTellsState, FileLines, Loadable

LEMMA AppendOkWrites ==
  ASSUME LogTypeOK, NEW d \in Payloads, AppendOk(d), DiskTells,
         \A i \in DOMAIN disk' : IsEntry(disk'[i])
  PROVE  /\ disk' = Append(disk, Entry(d)) /\ Entry(d) \in LogEntry /\ Entry(d).data = d
         /\ \A a \in Agents : Tells(disk, a, records[a])
<1>1. Entry(d) \in LogEntry /\ Entry(d).data = d
  BY EntryIsTyped DEF AppendOk, Entry
<1>2. disk \in Seq(LogEntry \cup {Garbage})
  BY DEF LogTypeOK
<1>3. PICK last \in LogEntry \cup {Garbage} :
        /\ disk' = Append(disk, last)
        /\ last = IF tail = NoTail THEN Entry(d) ELSE Garbage
  BY <1>1 DEF AppendOk
<1>4. /\ Len(disk) \in Nat /\ DOMAIN disk = 1..Len(disk) /\ DOMAIN disk' = 1..(Len(disk) + 1)
      /\ disk'[Len(disk) + 1] = last /\ \A i \in 1..Len(disk) : disk'[i] = disk[i]
  BY <1>2, <1>3, AppendProperties
<1>5. last = Entry(d)
  BY <1>3, <1>4 DEF IsEntry
<1>6. \A i \in DOMAIN disk : IsEntry(disk[i])
  BY <1>4
<1>7. up /\ ~frozen
  BY DEF AppendOk, CanAppend
<1> QED
  BY <1>1, <1>3, <1>5, <1>6, <1>7 DEF DiskTells

LEMMA TransitionKeepsDiskTells ==
  ASSUME TypeOK, DiskTells, NEW a \in Agents, NEW r \in Rows, Transition(a, r)
  PROVE  DiskTells'
<1> SUFFICES ASSUME \A i \in DOMAIN disk' : IsEntry(disk'[i]), NEW b \in Agents
             PROVE  Tells(disk', b, records'[b])
  BY DEF DiskTells
<1> DEFINE e == Entry(<<a, r>>)
           rec == [row |-> r, busSeq |-> busSeqCounter + 1]
<1>1. /\ disk' = Append(disk, e) /\ e \in LogEntry /\ e.data = <<a, r>>
      /\ Tells(disk, b, records[b])
  BY LifecycleAssumption, AppendOkWrites DEF Transition, TypeOK
<1>2. disk \in Seq(LogEntry \cup {Garbage}) /\ records[b] \in Seq(Record)
  BY DEF TypeOK, LogTypeOK
<1>3. rec \in Record /\ rec.row = r
  BY DEF TypeOK, Record
<1>4. records' = [records EXCEPT ![a] = Append(records[a], rec)]
  BY DEF Transition
<1> HIDE DEF e, rec
<1>5. CASE b = a
  <2>1. records'[b] = Append(records[b], rec)
    BY <1>4, <1>5 DEF TypeOK
  <2> QED BY <1>1, <1>2, <1>3, <1>5, <2>1, TellsOneMore
<1>6. CASE b # a
  <2>1. records'[b] = records[b]
    BY <1>4, <1>6 DEF TypeOK
  <2>2. ~IsRowOf(b, e)
    BY <1>1, <1>6 DEF IsRowOf
  <2> QED BY <1>1, <1>2, <2>1, <2>2, TellsNoMore
<1> QED BY <1>5, <1>6

LEMMA OthersKeepDiskTells ==
  ASSUME IInv, DiskTells,
         \/ \E a \in Agents, r \in Rows : TransitionNotLogged(a, r)
         \/ \E d \in OtherEntries : OtherAppend(d)
         \/ Killed \/ Reboot
  PROVE  DiskTells'
<1>1. CASE \E a \in Agents, r \in Rows : TransitionNotLogged(a, r)
  <2>1. UNCHANGED <<up, frozen, disk, records>>
    BY <1>1 DEF TransitionNotLogged, AppendThrows, AppendDiskError, AppendFrozen, Interrupted
  <2> QED BY <2>1 DEF DiskTells
<1>2. CASE \E d \in OtherEntries : OtherAppend(d)
  <2>1. PICK d \in OtherEntries : OtherAppend(d)
    BY <1>2
  <2>2. CASE AppendThrows(d)
    <3>1. UNCHANGED <<up, frozen, disk, records>>
      BY <2>1, <2>2 DEF OtherAppend, ctlVars, AppendThrows, AppendDiskError, AppendFrozen,
                        Interrupted
    <3> QED BY <3>1 DEF DiskTells
  <2>3. CASE AppendOk(d)
    <3> SUFFICES ASSUME \A i \in DOMAIN disk' : IsEntry(disk'[i]), NEW b \in Agents
                 PROVE  Tells(disk', b, records'[b])
      BY DEF DiskTells
    <3>1. /\ disk' = Append(disk, Entry(d)) /\ Entry(d) \in LogEntry /\ Entry(d).data = d
          /\ Tells(disk, b, records[b])
      BY <2>3, LifecycleAssumption, AppendOkWrites DEF IInv, TypeOK
    <3>2. ~IsRowOf(b, Entry(d))
      BY <3>1, LifecycleAssumption DEF IsRowOf
    <3>3. records' = records /\ disk \in Seq(LogEntry \cup {Garbage})
      BY <2>1 DEF OtherAppend, ctlVars, IInv, TypeOK, LogTypeOK
    <3> QED BY <3>1, <3>2, <3>3, TellsNoMore
  <2> QED BY <2>1, <2>2, <2>3 DEF OtherAppend
<1>3. CASE Killed
  <2>1. ~up'
    BY <1>3 DEF Killed, Crash, CrashDuring, ProcessDies
  <2> QED BY <2>1 DEF DiskTells
<1>4. CASE Reboot
  <2>1. CASE Load
    BY <2>1 DEF Load, DiskTells
  <2>2. CASE ColdBoot
    <3>1. disk' = << >> /\ \A b \in Agents : records'[b] = << >>
      BY <1>4, <2>2 DEF Reboot, ColdBoot, ctlVars, IInv, DownHoldsNothing
    <3>2. \A b \in Agents : RowLines(<< >>, b) = {}
      BY DEF RowLines
    <3>3. \A b \in Agents : Tells(<< >>, b, << >>)
      BY <3>2, FS_EmptySet DEF Tells
    <3> QED BY <3>1, <3>3 DEF DiskTells
  <2> QED BY <1>4, <2>1, <2>2 DEF Reboot
<1> QED BY <1>1, <1>2, <1>3, <1>4

-----------------------------------------------------------------------------
CInv == IInv /\ FileInv /\ LossInv /\ DiskTells

LEMMA CInvInit == Init => CInv
<1> SUFFICES ASSUME Init PROVE CInv
  OBVIOUS
<1>1. /\ up /\ logs = << >> /\ disk = << >> /\ acked = << >> /\ tail = NoTail
      /\ FileLines = << >> /\ ~frozen /\ \A a \in Agents : records[a] = << >>
  BY DEF Init, LogInit, FileLines
<1>2. FileInv
  BY <1>1, LinesDiffer DEF FileInv, DiskIsOrdered, MemoryMatchesFile, Below
<1>3. LossInv
  <2>1. LostOf(acked, disk) = {} /\ Fragments(disk) = {}
    BY <1>1 DEF LostOf, Fragments
  <2> QED BY <2>1, FS_EmptySet DEF LossInv
<1>4. DiskTells
  <2>1. \A b \in Agents : RowLines(<< >>, b) = {}
    BY DEF RowLines
  <2>2. \A b \in Agents : Tells(<< >>, b, << >>)
    BY <2>1, FS_EmptySet DEF Tells
  <2> QED BY <1>1, <2>2 DEF DiskTells
<1> QED
  BY <1>2, <1>3, <1>4, InitIInv DEF CInv

LEMMA CInvNext == CInv /\ [Next]_vars => CInv'
<1> SUFFICES ASSUME CInv, [Next]_vars PROVE CInv'
  OBVIOUS
<1>0. IInv' /\ LogTypeOK /\ TypeOK
  BY NextIInv DEF CInv, IInv, TypeOK
<1>1. ASSUME NEW a \in Agents, NEW r \in Rows, Transition(a, r)
      PROVE  CInv'
  <2>1. <<a, r>> \in Payloads /\ AppendOk(<<a, r>>)
    BY <1>1, LifecycleAssumption DEF Transition
  <2>2. FileInv' /\ LossInv'
    BY <1>0, <2>1, AppendKeepsFile, AppendKeepsLoss DEF CInv
  <2>3. DiskTells'
    BY <1>0, <1>1, TransitionKeepsDiskTells DEF CInv
  <2> QED BY <1>0, <2>2, <2>3 DEF CInv
<1>2. ASSUME NEW a \in Agents, NEW r \in Rows, TransitionNotLogged(a, r)
      PROVE  CInv'
  <2>1. <<a, r>> \in Payloads /\ AppendThrows(<<a, r>>)
    BY <1>2, LifecycleAssumption DEF TransitionNotLogged
  <2>2. FileInv' /\ LossInv'
    BY <1>0, <2>1, AppendKeepsFile, AppendKeepsLoss DEF CInv
  <2>3. DiskTells'
    BY <1>2, OthersKeepDiskTells DEF CInv
  <2> QED BY <1>0, <2>2, <2>3 DEF CInv
<1>3. ASSUME NEW d \in OtherEntries, OtherAppend(d)
      PROVE  CInv'
  <2>1. d \in Payloads /\ (AppendOk(d) \/ AppendThrows(d))
    BY <1>3, LifecycleAssumption DEF OtherAppend
  <2>2. FileInv' /\ LossInv'
    BY <1>0, <2>1, AppendKeepsFile, AppendKeepsLoss DEF CInv
  <2>3. DiskTells'
    BY <1>3, OthersKeepDiskTells DEF CInv
  <2> QED BY <1>0, <2>2, <2>3 DEF CInv
<1>4. CASE Killed \/ Reboot
  <2>1. Crash \/ (\E d \in Payloads : CrashDuring(d)) \/ Load \/ ColdBoot
    BY <1>4, LifecycleAssumption DEF Killed, Reboot
  <2>2. FileInv' /\ LossInv'
    BY <1>0, <2>1, CrashKeepsFile, BootKeepsFile, OthersKeepLoss DEF CInv
  <2>3. DiskTells'
    BY <1>4, OthersKeepDiskTells DEF CInv
  <2> QED BY <1>0, <2>2, <2>3 DEF CInv
<1>5. CASE UNCHANGED vars
  <2>1. UNCHANGED <<up, logs, nextBusSeq, frozen, disk, tail, acked, records, FileLines>>
    BY <1>5 DEF vars, FileLines
  <2>2. FileInv' /\ LossInv' /\ DiskTells'
    BY <2>1 DEF CInv, FileInv, LossInv, DiskTells, DiskIsOrdered, MemoryMatchesFile
  <2> QED BY <1>0, <2>2 DEF CInv
<1> QED
  BY <1>1, <1>2, <1>3, <1>4, <1>5 DEF Next

LEMMA SpecCInv == Spec => []CInv
  BY CInvInit, CInvNext, PTL DEF Spec

\* Whatever writes of FileLogger fail or stop half way, the entries that can be
\* read back carry strictly increasing numbers.
THEOREM DiskOrdered == Spec => []DiskIsOrdered
<1>1. CInv => DiskIsOrdered
  BY DEF CInv, FileInv
<1> QED BY <1>1, SpecCInv, PTL

\* getLogs() of a running FileLogger has every entry of its file, and a log that
\* was loaded is the file.
THEOREM MemoryHasFile == Spec => []MemoryMatchesFile
<1>1. CInv => MemoryMatchesFile
  BY DEF CInv, FileInv
<1> QED BY <1>1, SpecCInv, PTL

\* Each fragment that FileLogger leaves costs one acknowledged entry at most.
THEOREM FragmentsCostOne == Spec => []OneLossPerFragment
<1>1. CInv => OneLossPerFragment
  BY LossIsOnDisk DEF CInv, IInv, TypeOK
<1> QED BY <1>1, SpecCInv, PTL

\* As long as no write stopped half way, the file of a running kernel tells the
\* history its LifecycleController has, entry for entry.
THEOREM FileAlwaysTells == Spec => []FileTellsState
<1>1. CInv => FileTellsState
  BY DiskTellsState DEF CInv
<1> QED BY <1>1, SpecCInv, PTL

-----------------------------------------------------------------------------
\* Through failing appends, crashes and restarts, the LifecycleController
\* implements the table: a transition is a move of it, the end of the process
\* forgets every agent, and all else is a stutter.
THEOREM Refinement == Spec => ImplementsAgentLifecycle
<1>1. Init => Agent!Init
  BY DEF Init, Agent!Init
<1>2. [Next]_vars => [(\E a \in Agents : Agent!Move(a)) \/ Agent!Forget]_stateMap
  <2> SUFFICES ASSUME [Next]_vars, stateMap' # stateMap
               PROVE  (\E a \in Agents : Agent!Move(a)) \/ Agent!Forget
    OBVIOUS
  <2>1. ASSUME NEW a \in Agents, NEW r \in Rows, Transition(a, r)
        PROVE  Agent!Move(a)
    <3>1. r \in Agent!Rows
      BY DEF Rows, VALID_TRANSITIONS, Agent!Rows, Agent!VALID_TRANSITIONS
    <3> QED BY <2>1, <3>1 DEF Transition, Agent!Move
  <2>2. CASE Killed
    BY <2>2 DEF Killed, FreshController, Agent!Forget
  <2> QED
    BY <2>1, <2>2 DEF Next, TransitionNotLogged, OtherAppend, Reboot, ctlVars, vars
<1> QED
  BY <1>1, <1>2, PTL DEF Spec, ImplementsAgentLifecycle, Agent!Spec
=============================================================================
