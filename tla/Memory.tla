------------------------------- MODULE Memory -------------------------------
(***************************************************************************)
(* The memory of agents: kernels, each with its in-memory stores, over one *)
(* SQLite database that holds the log and a durable store.  A kernel that  *)
(* dies loses its memory, in whatever call it was.                         *)
(***************************************************************************)
EXTENDS SqliteStore, SharedStore, EphemeralStore

CONSTANTS
  Workloads,      \* bound of the model: the scopes that hosts use together
  MaxCalls        \* bound of the model: steps made, by workload

ASSUME MemoryAssumption ==
  /\ Stores = Kernels
  /\ Workloads \subseteq SUBSET {"local", "table", "shared", "scratch"}
  /\ MaxCalls \in [Workloads -> Nat]

VARIABLES workload, steps

vars == <<logVars, local, storeVars, shared, scratchVars, workload, steps>>

Init ==
  /\ LoggerInit /\ LocalInit /\ StoreInit /\ SharedInit /\ EphemeralInit
  /\ workload \in Workloads
  /\ steps = 0

\* The memory of a process is gone when it is started again.
Start(k) ==
  /\ Boot(k)
  /\ local' = [local EXCEPT ![k] = NoValues]
  /\ shared' = [shared EXCEPT ![k] = NothingShared]
  /\ memoryMap' = [memoryMap EXCEPT ![k] = Nowhere[k]]
  /\ checkpoints' = [checkpoints EXCEPT ![k] = Nowhere[k]]
  /\ UNCHANGED <<storeVars, lives>>

LocalStep(k) ==
  /\ "local" \in workload
  /\ \E c \in Cells, v \in Values \cup {absent} : Put(k, c, v)
  /\ UNCHANGED <<storeVars, shared, scratchVars>>

TableStep(k) ==
  /\ "table" \in workload
  /\ \/ \E c \in Cells, v \in Values \cup {absent} : WriteAhead(k, c, v)
     \/ Apply(k) \/ ApplyThrows(k) \/ ApplyAndDie(k)
  /\ UNCHANGED <<local, shared, scratchVars>>

SharedStep(k) ==
  /\ "shared" \in workload
  /\ \/ \E a \in Callers, c \in SharedCells : Evaluate(k, a, c)
     \/ Access(k) \/ AccessNotLogged(k)
  /\ UNCHANGED <<local, storeVars, scratchVars>>

ScratchStep(k) ==
  /\ "scratch" \in workload
  /\ Idle(k)
  /\ EphemeralStep(k)
  /\ UNCHANGED <<logVars, local, storeVars, shared>>

Next ==
  /\ steps < MaxCalls[workload] /\ steps' = steps + 1 /\ UNCHANGED workload
  /\ \E k \in Kernels :
       \/ LocalStep(k) \/ TableStep(k) \/ SharedStep(k)
       \/ ScratchStep(k)
       \/ Kill(k) /\ UNCHANGED <<local, storeVars, shared, scratchVars>>
       \/ Start(k)

Spec == Init /\ [][Next]_vars

-----------------------------------------------------------------------------
\* Memory is changed by logged calls only: what a kernel holds is what its last
\* entry about the cell says, of those it made since it was started.
MemoryIsLogged ==
  \A k \in Kernels : Up(k) =>
    /\ \A c \in Cells :
         IsLast(local[k][c],
                {i \in Entries(k, {"MEMORY_PERSISTENT_WRITE", "MEMORY_PERSISTENT_DELETE"}, c) :
                   audit[i].data.store = "local"})
    /\ \A c \in SharedCells :
         IsLast(shared[k][c], Entries(k, {"MEMORY_SHARED_WRITE"}, c))
=============================================================================
