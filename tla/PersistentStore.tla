--------------------------- MODULE PersistentStore ---------------------------
(***************************************************************************)
(* PersistentStore (memory/persistent.ts), the store every kernel makes    *)
(* for itself: a map in its memory, changed after the entry is appended.   *)
(***************************************************************************)
EXTENDS SqliteLogger

CONSTANTS
  Cells,          \* pairs of an agent and a key
  Values

VARIABLE local    \* per kernel: this.store

NoValues == [c \in Cells |-> absent]

LocalInit == local = [k \in Kernels |-> NoValues]

\* What write (or delete, with v absent) appends.
Change(where, c, v) ==
  [kind |-> IF v = absent THEN "MEMORY_PERSISTENT_DELETE" ELSE "MEMORY_PERSISTENT_WRITE",
   store |-> where, cell |-> c, value |-> v]

\* write and delete: an append that throws leaves the map alone.
Put(k, c, v) ==
  /\ Idle(k)
  /\ Insert(k, Change("local", c, v))
  /\ local' = [local EXCEPT ![k][c] = v]
  /\ UNCHANGED <<doing, since>>

\* The entries of k since it was started that say something of kind about c.
Entries(k, kinds, c) ==
  {i \in (since[k] + 1)..Len(audit) :
     /\ audit[i].by = k /\ audit[i].data.kind \in kinds
     /\ audit[i].data.cell = c}

\* v is what the last of the entries in I says, or nothing does.
IsLast(v, I) ==
  IF I = {} THEN v = absent
  ELSE \E i \in I : audit[i].data.value = v /\ \A j \in I : j <= i
=============================================================================
