------------------------- MODULE LifecycleController -------------------------
(***************************************************************************)
(* lifecycle/controller.ts over the log it is wired to (kernel/index.ts):  *)
(* a map from agents to states, a transition history per agent, and one    *)
(* log append before every update.  The other modules of the kernel append *)
(* to the same log.                                                        *)
(*                                                                         *)
(* One call of transition() is one atomic step: it has no await.  A call   *)
(* for a pair the table does not list throws before it changes anything,   *)
(* so it is a stuttering step here.                                        *)
(***************************************************************************)
EXTENDS FileLogger, Lifecycle

CONSTANTS
  Agents,
  OtherEntries      \* entries of the other modules that share the log

VARIABLES
  stateMap,         \* this.stateMap, DEFINED where the map has no entry
  records,          \* this.records
  busSeqCounter     \* this.busSeqCounter, not the logger's

ctlVars == <<stateMap, records, busSeqCounter>>
vars == <<up, logs, nextBusSeq, frozen, disk, tail, acked,
          stateMap, records, busSeqCounter>>

\* A payload of the log is a pair of an agent and the row it took, or opaque: the
\* other modules' entries are of other kinds.
ASSUME LifecycleAssumption ==
  /\ \A a \in Agents, r \in Rows : <<a, r>> \in Payloads \ OtherEntries
  /\ OtherEntries \subseteq Payloads

Record == [row : Rows, busSeq : Nat]

TypeOK ==
  /\ LogTypeOK
  /\ stateMap \in [Agents -> AgentStates]
  /\ records \in [Agents -> Seq(Record)]
  /\ busSeqCounter \in Nat

-----------------------------------------------------------------------------
FreshController ==
  /\ stateMap' = [a \in Agents |-> "DEFINED"]
  /\ records' = [a \in Agents |-> << >>]
  /\ busSeqCounter' = 0

Init ==
  /\ LogInit
  /\ stateMap = [a \in Agents |-> "DEFINED"]
  /\ records = [a \in Agents |-> << >>]
  /\ busSeqCounter = 0

\* Mutant: find() compares the trigger only.
TransitionFromAnywhere(a, r) ==
  /\ AppendOk(<<a, r>>)
  /\ busSeqCounter' = busSeqCounter + 1
  /\ stateMap' = [stateMap EXCEPT ![a] = r.to]
  /\ records' = [records EXCEPT ![a] =
                   Append(@, [row |-> r, busSeq |-> busSeqCounter + 1])]

\* transition(a, r.trigger): the row is the one find() returns for the
\* current state, the log is appended first, then map and history follow.
Transition(a, r) ==
  /\ r.from = stateMap[a]
  /\ AppendOk(<<a, r>>)
  /\ busSeqCounter' = busSeqCounter + 1
  /\ stateMap' = [stateMap EXCEPT ![a] = r.to]
  /\ records' = [records EXCEPT ![a] =
                   Append(@, [row |-> r, busSeq |-> busSeqCounter + 1])]

\* Mutant: the history is written before the log.
NotLoggedButRecorded(a, r) ==
  /\ r.from = stateMap[a]
  /\ AppendThrows(<<a, r>>)
  /\ busSeqCounter' = busSeqCounter + 1
  /\ records' = [records EXCEPT ![a] =
                   Append(@, [row |-> r, busSeq |-> busSeqCounter + 1])]
  /\ UNCHANGED stateMap

\* Mutant: history and state are written before the log.
NotLoggedButMade(a, r) ==
  /\ r.from = stateMap[a]
  /\ AppendThrows(<<a, r>>)
  /\ busSeqCounter' = busSeqCounter + 1
  /\ stateMap' = [stateMap EXCEPT ![a] = r.to]
  /\ records' = [records EXCEPT ![a] =
                   Append(@, [row |-> r, busSeq |-> busSeqCounter + 1])]

\* logger.append throws: the controller has counted the transition, and has
\* not made it.
TransitionNotLogged(a, r) ==
  /\ r.from = stateMap[a]
  /\ AppendThrows(<<a, r>>)
  /\ busSeqCounter' = busSeqCounter + 1
  /\ UNCHANGED <<stateMap, records>>

\* Another module of the kernel appends to the log.
OtherAppend(d) ==
  /\ AppendOk(d) \/ AppendThrows(d)
  /\ UNCHANGED ctlVars

Killed ==
  /\ \/ Crash
     \/ \E a \in Agents, r \in Rows :
          r.from = stateMap[a] /\ CrashDuring(<<a, r>>)
     \/ \E d \in OtherEntries : CrashDuring(d)
  /\ FreshController

\* A new OmniKernel over a restored log or over a new file.
Reboot == (Load \/ ColdBoot) /\ UNCHANGED ctlVars

Next ==
  \/ \E a \in Agents, r \in Rows : Transition(a, r) \/ TransitionNotLogged(a, r)
  \/ \E d \in OtherEntries : OtherAppend(d)
  \/ Killed
  \/ Reboot

Spec == Init /\ [][Next]_vars

-----------------------------------------------------------------------------
IsRowOf(a, line) == IsEntry(line) /\ \E r \in Rows : line.data = <<a, r>>

RowLines(lines, a) == {j \in DOMAIN lines : IsRowOf(a, lines[j])}

\* A reader of lines who takes the transitions of agent a one after the other
\* finds history.
Tells(lines, a, history) ==
  /\ Cardinality(RowLines(lines, a)) = Len(history)
  /\ \A j \in RowLines(lines, a) :
       lines[j].data[2] = history[Cardinality(RowLines(lines, a) \cap 1..j)].row

\* The history of an agent is a path of the table from DEFINED to the state
\* the controller reports, whatever appends failed on the way.
HistoryIsPath ==
  \A a \in Agents :
    /\ \A i \in DOMAIN records[a] :
         records[a][i].row.from =
           IF i = 1 THEN "DEFINED" ELSE records[a][i - 1].row.to
    /\ stateMap[a] = IF records[a] = << >> THEN "DEFINED"
                     ELSE records[a][Len(records[a])].row.to

\* INV-01: no transition is in the controller's history without its entry in
\* the log.
LogFirst ==
  up => \A a \in Agents : \A i \in DOMAIN records[a] :
          \E j \in DOMAIN logs : logs[j].data = <<a, records[a][i].row>>

\* As long as no write stopped half way, the file of a running kernel tells
\* exactly the history the controller has: a reader of the file knows the state
\* of every agent, whatever appends failed.
FileTellsState ==
  up /\ ~frozen /\ tail = NoTail /\ Loadable =>
    \A a \in Agents : Tells(FileLines, a, records[a])

\* SM-INV-03: while a process runs, TERMINATED is a sink.
TerminatedIsSink ==
  [][up' => \A a \in Agents :
        stateMap[a] = "TERMINATED" => stateMap'[a] = "TERMINATED"]_vars

\* Seen from outside, and restarts included, the controller is the table.
Agent == INSTANCE AgentLifecycle WITH state <- stateMap
ImplementsAgentLifecycle == Agent!Spec
=============================================================================
