----------------------------- MODULE Invariants -----------------------------
(***************************************************************************)
(* The assertions of invariants/checker.ts: each is the set of what it     *)
(* throws, empty or one InvariantError, given by its failureEvent.  The    *)
(* kernel calls none of them; hosts hand what they throw to FailureHandler.*)
(***************************************************************************)
EXTENDS Naturals

InvariantError(agentId, tickSeq, code) ==
  [agentId |-> agentId, tickSeq |-> tickSeq, class |-> "INVARIANT_BREACH", code |-> code]

assert(condition, agentId, tickSeq, code) ==
  {e \in {InvariantError(agentId, tickSeq, code)} : ~condition}

assertSingleTickProcessing(agentId, tickSeq, isProcessing) ==
  assert(~isProcessing, agentId, tickSeq, "INV-03")

assertEphemeralWipedOrCheckpointed(agentId, tickSeq, isWiped, isCheckpointed) ==
  assert(isWiped \/ isCheckpointed, agentId, tickSeq, "INV-05")

assertStepBound(agentId, tickSeq, currentStep, maxSteps) ==
  assert(currentStep <= maxSteps, agentId, tickSeq, "INV-12")

assertAgentNotTerminated(agentId, tickSeq, currentState) ==
  assert(currentState # "TERMINATED", agentId, tickSeq, "INV-09")

\* JSON.stringify throws on cycles and big integers.
assertSerializable(agentId, tickSeq, stringifies) ==
  assert(stringifies, agentId, tickSeq, "INV-11")
=============================================================================
