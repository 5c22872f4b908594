----------------------------- MODULE SqliteStore -----------------------------
(***************************************************************************)
(* SqliteStore (host/db/sqlite-store.ts): a PersistentStore in a table of  *)
(* the database that holds the log, over a connection of its own.  A write *)
(* is two commits, the entry and the row.  Between them other kernels run, *)
(* the process may die, and the second may throw (the table is locked, the *)
(* disk full): what was logged then was not done.                          *)
(***************************************************************************)
EXTENDS PersistentStore

VARIABLES
  rows,           \* the agent_memory table
  acked,          \* history: busSeq of the entries whose call returned
  alone           \* history: busSeq of the entries made while no other kernel
                  \*   was about to change the same row

storeVars == <<rows, acked, alone>>

StoreInit == rows = NoValues /\ acked = {} /\ alone = {}

Changing(k) == doing[k].step = "row"

\* No other kernel is about to change the row of c.
AloneOn(k, c) == \A j \in Kernels \ {k} : Changing(j) => doing[j].cell # c

\* Mutant: the row first, and then the entry, which may not come.
WriteRowFirst(k, c, v) ==
  /\ Idle(k)
  /\ Len(audit) < MaxEntries
  /\ rows' = [rows EXCEPT ![c] = v]
  /\ Does(k, [step |-> "row", cell |-> c, value |-> v, busSeq |-> RowId(k)])
  /\ UNCHANGED <<audit, since, acked, alone>>

\* write and delete up to the append.
WriteAhead(k, c, v) ==
  /\ Idle(k)
  /\ Insert(k, Change("table", c, v))
  /\ Does(k, [step |-> "row", cell |-> c, value |-> v, busSeq |-> RowId(k)])
  /\ alone' = IF AloneOn(k, c) THEN alone \cup {RowId(k)} ELSE alone
  /\ UNCHANGED <<since, rows, acked>>

ApplyRow(k) == rows' = [rows EXCEPT ![doing[k].cell] = doing[k].value]

\* The upsert or the deletion, and the call returns.
Apply(k) ==
  /\ Changing(k)
  /\ ApplyRow(k)
  /\ acked' = acked \cup {doing[k].busSeq}
  /\ Does(k, Ready)
  /\ UNCHANGED <<audit, since, alone>>

\* Mutant: the exception is swallowed.
ApplyQuietly(k) ==
  /\ Changing(k)
  /\ acked' = acked \cup {doing[k].busSeq}
  /\ Does(k, Ready)
  /\ UNCHANGED <<audit, since, rows, alone>>

\* The statement throws.
ApplyThrows(k) ==
  /\ Changing(k)
  /\ Does(k, Ready)
  /\ UNCHANGED <<audit, since, storeVars>>

\* The row is committed, but the process dies before it returns.
ApplyAndDie(k) ==
  /\ Changing(k)
  /\ ApplyRow(k)
  /\ Does(k, Down)
  /\ UNCHANGED <<audit, since, acked, alone>>

-----------------------------------------------------------------------------
TableEntries(c) ==
  {i \in DOMAIN audit : /\ audit[i].data.kind \in {"MEMORY_PERSISTENT_WRITE", "MEMORY_PERSISTENT_DELETE"}
                        /\ audit[i].data.store = "table" /\ audit[i].data.cell = c}

\* INV-02, whatever dies and throws: nothing is in the table that is not in the log.
RowsAreLogged ==
  \A c \in Cells : rows[c] # absent =>
    \E i \in TableEntries(c) : audit[i].data.value = rows[c]

\* INV-22 where it holds: the log tells the row of a cell whose last entry belongs
\* to a call that returned, unless another kernel was changing it at that time.
LogTellsRows ==
  \A c \in Cells : \A i \in TableEntries(c) :
    /\ \A j \in TableEntries(c) : j <= i
    /\ audit[i].busSeq \in acked \cap alone
    => rows[c] = audit[i].data.value
=============================================================================
