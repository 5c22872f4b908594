-------------------------------- MODULE Tick --------------------------------
(***************************************************************************)
(* TickEngine.runTick (execution/tick.ts): a pure function from the        *)
(* instruction to the output of a tick.  Every caller leaves it steps.     *)
(***************************************************************************)
CONSTANT null

InstructionKinds == {"NOOP", "RETURN", "CALL_TOOL", "DELEGATE", "UNKNOWN"}

OutputKind ==
  [NOOP |-> "COMPLETED", RETURN |-> "COMPLETED", CALL_TOOL |-> "PENDING_TOOL",
   DELEGATE |-> "PENDING_DELEGATION", UNKNOWN |-> "FAILED"]

runTick(instr) ==
  [kind |-> OutputKind[instr.kind],
   arg  |-> IF instr.kind \in {"RETURN", "CALL_TOOL"} THEN instr.arg ELSE null]
=============================================================================
