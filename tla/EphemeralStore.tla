--------------------------- MODULE EphemeralStore ---------------------------
(***************************************************************************)
(* EphemeralStore (memory/ephemeral.ts): scratch memory and checkpoints per*)
(* agent and tick.  The scheduler never calls it: hosts do, in any order.  *)
(* A written value stands for where and when it was written: the tick, and *)
(* how often that tick's memory had been destroyed before.                 *)
(***************************************************************************)
EXTENDS Naturals

CONSTANTS
  Owners,
  ColonAgents,    \* those whose id has a colon, which handles do not survive
  ScratchTicks,
  ScratchKeys,
  MaxLives,       \* bound of the model: destructions of one tick's memory
  Stores,         \* one in each kernel
  none          \* no such memory, or nothing under that key

ASSUME EphemeralAssumption ==
  /\ ColonAgents \subseteq Owners
  /\ MaxLives \in Nat

VARIABLES
  memoryMap,
  checkpoints,
  lives           \* history: destructions so far

scratchVars == <<memoryMap, checkpoints, lives>>

Handles == Owners \X ScratchTicks
Stamp == [handle : Handles, life : 0..MaxLives]
Empty == [x \in ScratchKeys |-> none]
Nowhere == [s \in Stores |-> [h \in Handles |-> none]]

EphemeralInit ==
  /\ memoryMap = Nowhere
  /\ checkpoints = Nowhere
  /\ lives = [s \in Stores |-> [h \in Handles |-> 0]]

\* init: wiped if it was there; a checkpoint stays.
InitMemory(s, h) ==
  /\ memoryMap' = [memoryMap EXCEPT ![s][h] = Empty]
  /\ UNCHANGED <<checkpoints, lives>>

\* write: parseHandle refuses more than one colon.
WriteMemory(s, h, x) ==
  /\ h[1] \notin ColonAgents
  /\ memoryMap[s][h] # none
  /\ memoryMap' = [memoryMap EXCEPT ![s][h][x] = [handle |-> h, life |-> lives[s][h]]]
  /\ UNCHANGED <<checkpoints, lives>>

Checkpoint(s, h) ==
  /\ memoryMap[s][h] # none
  /\ checkpoints' = [checkpoints EXCEPT ![s][h] = memoryMap[s][h]]
  /\ UNCHANGED <<memoryMap, lives>>

\* The checkpoint of that very tick.
Restore(s, h) ==
  /\ checkpoints[s][h] # none
  /\ memoryMap' = [memoryMap EXCEPT ![s][h] = checkpoints[s][h]]
  /\ UNCHANGED <<checkpoints, lives>>

\* Mutant: the checkpoint is kept for a later resumption.
DestroyMemoryOnly(s, h) ==
  /\ lives[s][h] < MaxLives
  /\ memoryMap' = [memoryMap EXCEPT ![s][h] = none]
  /\ lives' = [lives EXCEPT ![s][h] = @ + 1]
  /\ UNCHANGED checkpoints

Destroy(s, h) ==
  /\ lives[s][h] < MaxLives
  /\ memoryMap' = [memoryMap EXCEPT ![s][h] = none]
  /\ checkpoints' = [checkpoints EXCEPT ![s][h] = none]
  /\ lives' = [lives EXCEPT ![s][h] = @ + 1]

EphemeralStep(s) ==
  \E h \in Handles :
    \/ InitMemory(s, h)
    \/ \E x \in ScratchKeys : WriteMemory(s, h, x)
    \/ Checkpoint(s, h)
    \/ Restore(s, h)
    \/ Destroy(s, h)

-----------------------------------------------------------------------------
\* INV-05 as far as the store goes: what can be read or restored for a tick was
\* written by this tick of this agent, and since its memory was last destroyed.
ScratchIsOwn ==
  \A s \in Stores, h \in Handles :
    \A memory \in {memoryMap[s][h], checkpoints[s][h]} \ {none} :
      \A x \in ScratchKeys : memory[x] \in {none, [handle |-> h, life |-> lives[s][h]]}
=============================================================================
