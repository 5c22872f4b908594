----------------------------- MODULE FileLogger -----------------------------
(***************************************************************************)
(* The execution log: ExecutionLogger (logging/logger.ts), an append-only  *)
(* array in memory that hands out busSeq, and FileLogger (host/logger.ts), *)
(* which extends it with one JSON line per entry on disk.                  *)
(*                                                                         *)
(* append() pushes to memory first and writes the line second, so a disk   *)
(* error leaves an entry in memory that the file does not have.  A write   *)
(* may stop half way (disk full, process killed): the file then ends in a  *)
(* tail without newline, and the next line is glued to it.                 *)
(* loadFromFile() rebuilds the array from the file and freezes it.         *)
(***************************************************************************)
EXTENDS Naturals, Sequences, FiniteSets

CONSTANTS
  Payloads,     \* what entries carry: kind, agent and payload
  MaxBusSeq,    \* bound of the model: appends stop after this sequence number
  TornWrites    \* whether the environment may interrupt a write half way

ASSUME FileLoggerAssumption ==
  /\ MaxBusSeq \in Nat
  /\ TornWrites \in BOOLEAN

VARIABLES
  up,           \* the process runs and holds a logger
  logs,         \* this.logs
  nextBusSeq,   \* this.nextBusSeq
  frozen,       \* Object.isFrozen(this.logs): the logger came from loadFromFile
  disk,         \* the complete lines of the file
  tail,         \* what follows the last newline
  acked         \* history: entries whose append() returned to its caller

logVars == <<up, logs, nextBusSeq, frozen, disk, tail, acked>>

LogEntry == [busSeq : 1..MaxBusSeq, data : Payloads]

Garbage == [garbage |-> TRUE]     \* a line JSON.parse refuses
NoTail  == [tail |-> "none"]      \* the file ends in a newline (or is empty)
Partial == [tail |-> "partial"]   \* a fragment of an entry

LogTypeOK ==
  /\ up \in BOOLEAN
  /\ logs \in Seq(LogEntry)
  /\ nextBusSeq \in Nat \ {0}
  /\ frozen \in BOOLEAN
  /\ disk \in Seq(LogEntry \cup {Garbage})
  /\ tail \in LogEntry \cup {NoTail, Partial}
  /\ acked \in Seq(LogEntry)

-----------------------------------------------------------------------------
\* The lines split('\n') finds, the unterminated last one included.
FileLines == IF tail = NoTail THEN disk
             ELSE Append(disk, IF tail = Partial THEN Garbage ELSE tail)

IsEntry(line) == line # Garbage

Loadable == \A i \in DOMAIN FileLines : IsEntry(FileLines[i])

\* Math.max(nextBusSeq, entry.busSeq + 1) over all lines, from 1.
SeqAfter(lines) ==
  CHOOSE n \in {1} \cup {lines[i].busSeq + 1 : i \in DOMAIN lines} :
    \A i \in DOMAIN lines : n >= lines[i].busSeq + 1

Entry(d) == [busSeq |-> nextBusSeq, data |-> d]

\* What is left of the file when the write of e stops: nothing written, a
\* fragment, or everything but the newline.
Interrupted(e) ==
  /\ UNCHANGED disk
  /\ \/ UNCHANGED tail
     \/ TornWrites /\ tail' = Partial
     \/ TornWrites /\ tail = NoTail /\ tail' = e

-----------------------------------------------------------------------------
LogInit ==
  /\ up = TRUE
  /\ logs = << >>
  /\ nextBusSeq = 1
  /\ frozen = FALSE
  /\ disk = << >>
  /\ tail = NoTail
  /\ acked = << >>

CanAppend == up /\ nextBusSeq <= MaxBusSeq

\* Mutant: lines are buffered, not flushed.
AppendBuffered(d) ==
  /\ CanAppend /\ ~frozen
  /\ logs' = Append(logs, Entry(d))
  /\ nextBusSeq' = nextBusSeq + 1
  /\ acked' = Append(acked, Entry(d))
  /\ UNCHANGED <<up, frozen, disk, tail>>

\* append() returns: the entry is in memory and a line was written, glued to
\* the tail when there is one.
AppendOk(d) ==
  /\ CanAppend /\ ~frozen
  /\ logs' = Append(logs, Entry(d))
  /\ nextBusSeq' = nextBusSeq + 1
  /\ disk' = Append(disk, IF tail = NoTail THEN Entry(d) ELSE Garbage)
  /\ tail' = NoTail
  /\ acked' = Append(acked, Entry(d))
  /\ UNCHANGED <<up, frozen>>

\* Mutant: the file before super.append().
DiskErrorBeforeMemory(d) ==
  /\ CanAppend /\ ~frozen
  /\ Interrupted(Entry(d))
  /\ UNCHANGED <<up, logs, nextBusSeq, frozen, acked>>

\* append() throws from appendFileSync: memory keeps the entry.
AppendDiskError(d) ==
  /\ CanAppend /\ ~frozen
  /\ logs' = Append(logs, Entry(d))
  /\ nextBusSeq' = nextBusSeq + 1
  /\ Interrupted(Entry(d))
  /\ UNCHANGED <<up, frozen, acked>>

\* append() on a restored log: push throws on the frozen array, after the
\* counter moved and before the file is touched.
AppendFrozen(d) ==
  /\ CanAppend /\ frozen
  /\ nextBusSeq' = nextBusSeq + 1
  /\ UNCHANGED <<up, logs, frozen, disk, tail, acked>>

AppendThrows(d) == AppendDiskError(d) \/ AppendFrozen(d)

\* The process dies: everything in memory is gone.
ProcessDies ==
  /\ up
  /\ up' = FALSE
  /\ logs' = << >>
  /\ nextBusSeq' = 1
  /\ frozen' = FALSE
  /\ UNCHANGED acked

\* ... between two appends, or in the middle of writing the line of d.
Crash == ProcessDies /\ UNCHANGED <<disk, tail>>
CrashDuring(d) == CanAppend /\ ~frozen /\ ProcessDies /\ Interrupted(Entry(d))

\* loadFromFile() on the file the last process left; one bad line and
\* JSON.parse throws, so nothing is restored.
Load ==
  /\ ~up /\ Loadable
  /\ up' = TRUE
  /\ logs' = FileLines
  /\ nextBusSeq' = SeqAfter(FileLines)
  /\ frozen' = TRUE
  /\ UNCHANGED <<disk, tail, acked>>

\* Mutant: the file name does not change from boot to boot.
ColdBootSameFile == ~up /\ up' = TRUE /\ UNCHANGED <<logs, nextBusSeq, frozen, disk, tail, acked>>

\* new FileLogger(logDir): a new file; the model forgets the old one.
ColdBoot ==
  /\ ~up
  /\ up' = TRUE
  /\ disk' = << >>
  /\ tail' = NoTail
  /\ acked' = << >>
  /\ UNCHANGED <<logs, nextBusSeq, frozen>>

LogNext ==
  \/ \E d \in Payloads : AppendOk(d) \/ AppendThrows(d) \/ CrashDuring(d)
  \/ Crash \/ Load \/ ColdBoot

LogSpec == LogInit /\ [][LogNext]_logVars

-----------------------------------------------------------------------------
\* The promise of FileLogger.append's appendFileSync: every entry whose append()
\* returned can be read back from the file.
AckedIsRecoverable ==
  \A i \in DOMAIN acked : \E j \in DOMAIN FileLines : FileLines[j] = acked[i]

\* What is left of that promise when writes stop half way: each fragment costs at
\* most the one acknowledged entry that was glued to it, and a fragment that
\* nothing was appended to costs none.
OneLossPerFragment ==
  LET Lost == {i \in DOMAIN acked : \A j \in DOMAIN FileLines : FileLines[j] # acked[i]}
  IN Cardinality(Lost) <= Cardinality({j \in DOMAIN disk : ~IsEntry(disk[j])})

\* Entries readable from the file carry strictly increasing sequence numbers,
\* whatever writes failed in between.
DiskIsOrdered ==
  \A i, j \in DOMAIN FileLines :
    i < j /\ IsEntry(FileLines[i]) /\ IsEntry(FileLines[j]) =>
      FileLines[i].busSeq < FileLines[j].busSeq

\* In a running process a reader of getLogs() sees no less than a reader of the
\* file, though memory changes first and the write may fail; and loading neither
\* skips nor invents an entry.
MemoryMatchesFile ==
  up => /\ \A i \in DOMAIN FileLines :
             IsEntry(FileLines[i]) => \E j \in DOMAIN logs : logs[j] = FileLines[i]
        /\ frozen => logs = FileLines
=============================================================================
