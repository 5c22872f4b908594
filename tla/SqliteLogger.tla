---------------------------- MODULE SqliteLogger ----------------------------
(***************************************************************************)
(* SqliteLogger (host/db/sqlite-logger.ts): an ExecutionLogger whose log is*)
(* a table that kernels, each a process, share and outlive.  An append is  *)
(* one INSERT: it commits, or throws and leaves nothing behind.            *)
(*                                                                         *)
(* A call that makes several commits lets other kernels in between; doing  *)
(* holds what a kernel still has to do.                                    *)
(***************************************************************************)
EXTENDS Naturals, Sequences

CONSTANTS
  Kernels,        \* processes that open the database
  MaxEntries,     \* bound of the model: rows in the table
  absent          \* what a key holds that was never written, or deleted

ASSUME LoggerAssumption == MaxEntries \in Nat

VARIABLES
  audit,          \* the audit_log table, ordered by busSeq
  doing,          \* per kernel: it is down, idle, or has a step of a call to make
  since           \* history: entries in the table when a kernel was started

logVars == <<audit, doing, since>>

Down == [step |-> "none"]
Ready == [step |-> "any"]

LoggerInit ==
  /\ audit = << >>
  /\ doing = [k \in Kernels |-> Ready]
  /\ since = [k \in Kernels |-> 0]

Idle(k) == doing[k] = Ready
Up(k) == doing[k] # Down
Does(k, what) == doing' = [doing EXCEPT ![k] = what]

\* busSeq INTEGER PRIMARY KEY AUTOINCREMENT: one more than ever given.
RowId(k) == IF audit = << >> THEN 1 ELSE audit[Len(audit)].busSeq + 1

\* append: by is history, the kernel that appended.
Insert(k, data) ==
  /\ Len(audit) < MaxEntries
  /\ audit' = Append(audit, [busSeq |-> RowId(k), by |-> k, data |-> data])

\* The process ends, in the middle of what it did.
Kill(k) ==
  /\ Up(k)
  /\ Does(k, Down)
  /\ UNCHANGED <<audit, since>>

\* A new SqliteLogger on the same file.
Boot(k) ==
  /\ ~Up(k)
  /\ Does(k, Ready)
  /\ since' = [since EXCEPT ![k] = Len(audit)]
  /\ UNCHANGED audit

=============================================================================
