------------------------------- MODULE Replay -------------------------------
(***************************************************************************)
(* Replaying a run: runAgentLoop and ToolGate.execute in REPLAY mode over  *)
(* the log a LIVE kernel writes.                                           *)
(*                                                                         *)
(* A replay has a controller of its own, whose map the host sets to ACTIVE *)
(* before it calls runAgentLoop with the instruction of the run.  Every    *)
(* tick is compared, by hash, with the first logged tick of the agent that *)
(* has its sequence number; every tool call gets the first logged result   *)
(* with its number.  Numbers restart at 1 with every call of runAgentLoop. *)
(*                                                                         *)
(* No host sets a quota on a replaying scheduler, so its QuotaEnforcer     *)
(* never throws and is left out.                                           *)
(***************************************************************************)
EXTENDS Scheduler

CONSTANT Replays

\* null, which `started` has for a loop that did not run, is no instruction.
ASSUME ReplayAssumption == null \notin InitialInstructions

VARIABLES
  started,      \* history: the instruction each live loop ran with
  replays

replayVars == <<started, replays>>
allVars == <<log, lifecycle, limits, usage, memory, loops, hostSteps, started, replays>>

ReplayOutcomes == {"none", "COMPLETED", "FAILED", "DELEGATED", "MISSING_LOG",
                   "DIVERGENCE", "MISSING_TOOL_RESULT"}

\* of: the live loop it repeats.  fresh: in a new kernel, as host/boot.ts does,
\* with the log read back from a file and an empty store; otherwise, as in
\* simulation.ts, over the log and the store of the live kernel.  state: what
\* its lifecycle map says of the agent.  seen: how much of the log there was
\* when it started.  ended (history): the run had ended by then.
ReplayState ==
  [pc : {"idle", "resumed", "rejected", "settled"},
   of : Loops \cup {null}, fresh : BOOLEAN, state : AgentStates,
   seen : Nat, ended : BOOLEAN, result : Values \cup {null}, outcome : ReplayOutcomes, value : Args]

IdleReplay == [pc |-> "idle", of |-> null, fresh |-> FALSE, state |-> "DEFINED",
               seen |-> 0, ended |-> FALSE, result |-> null, outcome |-> "none", value |-> null]

ReplayInit ==
  /\ Init
  /\ started = [l \in Loops |-> null]
  /\ replays = [r \in Replays |-> IdleReplay]

-----------------------------------------------------------------------------
\* getLogsForAgent and the first entry of a kind with a sequence number.
Numbered(lg, a, kind, seq) ==
  {i \in DOMAIN lg : lg[i].kind = kind /\ lg[i].agent = a /\ lg[i].seq = seq}

First(S) == CHOOSE i \in S : \A j \in S : i <= j

ReplayLog(rp) == IF rp.fresh THEN SubSeq(log, 1, rp.seen) ELSE log
ReplayMemory(rp, a) == IF rp.fresh THEN null ELSE memory[a]

\* The state the map is set to, past the controller, when a tick ends the loop.
EndState == [COMPLETED |-> "TERMINATED", FAILED |-> "FAULTED",
             PENDING_DELEGATION |-> "WAITING"]
EndOutcome == [COMPLETED |-> "COMPLETED", FAILED |-> "FAILED",
               PENDING_DELEGATION |-> "DELEGATED"]

\* Mutant: the number of the continuation.
ReplayNextTool(rp, lg, a, seq) ==
  LET results == Numbered(lg, a, "TOOL_RESULT", seq + 1)
  IN IF results = {} THEN [rp EXCEPT !.pc = "rejected"]
     ELSE [rp EXCEPT !.pc = "resumed", !.result = lg[First(results)].result]

\* ToolGate.execute: the logged result, or REPLAY_MISSING_TOOL_RESULT.
ReplayTool(rp, lg, a, seq) ==
  LET results == Numbered(lg, a, "TOOL_RESULT", seq)
  IN IF results = {} THEN [rp EXCEPT !.pc = "rejected"]
     ELSE [rp EXCEPT !.pc = "resumed", !.result = lg[First(results)].result]

\* ReplayController.verifyTick in REPLAY mode: what a host may ask about a tick it
\* computed itself.  deepEqual on plain data is equality.
verifyTick(lg, a, seq, output) ==
  LET ticks == Numbered(lg, a, "TICK_OUTPUT", seq)
  IN IF ticks = {} THEN "REPLAY_MISSING_LOG"
     ELSE IF lg[First(ticks)].output # output THEN "REPLAY_DIVERGENCE"
     ELSE "accepted"

\* Mutant: outputs are not compared.
RoundUnchecked(rp, a, seq, instr) ==
  LET lg == ReplayLog(rp)
      output == runTick(instr)
  IN IF Numbered(lg, a, "TICK_OUTPUT", seq) = {}
       THEN [rp EXCEPT !.pc = "settled", !.outcome = "MISSING_LOG"]
     ELSE IF output.kind = "PENDING_TOOL" THEN ReplayTool(rp, lg, a, seq)
     ELSE [rp EXCEPT !.pc = "settled", !.state = EndState[output.kind],
                     !.outcome = EndOutcome[output.kind], !.value = output.arg]

\* One round of the loop of replay rp.
Round(rp, a, seq, instr) ==
  LET lg == ReplayLog(rp)
      ticks == Numbered(lg, a, "TICK_OUTPUT", seq)
      output == runTick(instr)
      hash == KernelState(output, rp.state, ReplayMemory(rp, a))
  IN IF ticks = {} THEN [rp EXCEPT !.pc = "settled", !.outcome = "MISSING_LOG"]
     ELSE IF lg[First(ticks)].stateHash # hash
       THEN [rp EXCEPT !.pc = "settled", !.outcome = "DIVERGENCE"]
     ELSE IF output.kind = "PENDING_TOOL" THEN ReplayTool(rp, lg, a, seq)
     ELSE [rp EXCEPT !.pc = "settled", !.state = EndState[output.kind],
                     !.outcome = EndOutcome[output.kind], !.value = output.arg]

\* The live loop came to an end that the log tells.
Ended(l) == loops[l].outcome \in {"COMPLETED", "FAILED", "DELEGATED"}

\* The host makes a controller that says ACTIVE and repeats the call.
Repeat(r, l, fresh) ==
  /\ replays[r].pc = "idle"
  /\ started[l] # null
  /\ replays' = [replays EXCEPT ![r] =
       Round([IdleReplay EXCEPT !.of = l, !.fresh = fresh, !.state = "ACTIVE",
                                !.seen = Len(log), !.ended = Ended(l)],
             loops[l].agent, 1, started[l])]
  /\ UNCHANGED <<vars, started>>

\* simulation.ts: over the log and the store it has.
StartReplay(r, l) == Repeat(r, l, FALSE)

\* host/boot.ts: over the log file, in a new kernel.
RestartAndReplay(r, l) == Repeat(r, l, TRUE)

\* Mutant: the replay waits for the run it repeats.
ResumeReplayAfter(r) ==
  /\ replays[r].pc = "resumed" /\ loops[replays[r].of].pc = "settled"
  /\ replays' = [replays EXCEPT ![r] =
       Round(@, loops[@.of].agent, 2, [kind |-> "RETURN", arg |-> @.result])]
  /\ UNCHANGED <<vars, started>>

\* The continuations after the await of ToolGate.execute.
ResumeReplay(r) ==
  /\ replays[r].pc = "resumed"
  /\ replays' = [replays EXCEPT ![r] =
       Round(@, loops[@.of].agent, 2, [kind |-> "RETURN", arg |-> @.result])]
  /\ UNCHANGED <<vars, started>>

RejectReplay(r) ==
  /\ replays[r].pc = "rejected"
  /\ replays' = [replays EXCEPT ![r].pc = "settled", ![r].outcome = "MISSING_TOOL_RESULT"]
  /\ UNCHANGED <<vars, started>>

\* A live call, with the instruction remembered if the loop ran at all.
RunLive(l, a, instr) ==
  /\ RunAgentLoop(l, a, instr)
  /\ started' = IF lifecycle[a] = "ACTIVE" THEN [started EXCEPT ![l] = instr] ELSE started
  /\ UNCHANGED replays

ReplayNext ==
  \/ \E l \in Loops, a \in Agents, i \in InitialInstructions : RunLive(l, a, i)
  \/ KernelStep /\ UNCHANGED replayVars
  \/ \E r \in Replays : \/ \E l \in Loops : StartReplay(r, l) \/ RestartAndReplay(r, l)
                        \/ ResumeReplay(r)
                        \/ RejectReplay(r)

ReplaySpec == ReplayInit /\ [][ReplayNext]_allVars

\* The event loop runs the continuations of replays too.
FairReplaySpec ==
  /\ ReplaySpec /\ Fairness
  /\ \A r \in Replays : WF_allVars(ResumeReplay(r) \/ RejectReplay(r))

-----------------------------------------------------------------------------
\* What live loop l completed with, or delegated.
LiveValue(l) ==
  CASE started[l].kind = "RETURN"    -> started[l].arg
    [] started[l].kind = "CALL_TOOL" -> loops[l].result
    [] OTHER                         -> null

Alone(l) == \A m \in Loops \ {l} : loops[m].agent # loops[l].agent \/ started[m] = null
NoWrites(a) ==
  \A i \in DOMAIN log : ~(log[i].kind = "MEMORY_PERSISTENT_WRITE" /\ log[i].agent = a)

Reproduces(r) ==
  /\ replays[r].outcome = loops[replays[r].of].outcome
  /\ replays[r].value = LiveValue(replays[r].of)

\* INV-15 where it holds: replaying the one run of an agent, after it ended and
\* with no memory involved, gives its outcome and its value, whatever other
\* agents and hosts did before, meanwhile and since.
SoleRunReplays ==
  \A r \in Replays :
    /\ replays[r].pc = "settled" /\ replays[r].ended
    /\ Alone(replays[r].of) /\ NoWrites(loops[replays[r].of].agent)
    => Reproduces(r)

\* The tick a replay stands on.
LastTick(rp) ==
  IF rp.result = null
    THEN [seq |-> 1, output |-> runTick(started[rp.of])]
    ELSE [seq |-> 2, output |-> runTick([kind |-> "RETURN", arg |-> rp.result])]

\* A replay never reaches a state its agent did not reach in the log, with the
\* value it returns, however stale or mixed the log it reads is: its last tick
\* passes verifyTick as well, and was directly followed by the moves to that state.
ReplayEndsAsLogged ==
  \A r \in Replays :
    replays[r].state \in {"TERMINATED", "FAULTED", "WAITING"} =>
      LET a == loops[replays[r].of].agent
          last == LastTick(replays[r])
      IN /\ verifyTick(ReplayLog(replays[r]), a, last.seq, last.output) = "accepted"
         /\ \E i, j \in DOMAIN log :
              /\ i < j
              /\ IsTick(a, log[i]) /\ log[i].output.arg = replays[r].value
              /\ \A k \in (i + 1)..j : IsMove(a, log[k])
              /\ log[j].row.to = replays[r].state

\* doc/invariants.md INV-15: "Replay of (agentId, sequenceRange) from the
\* execution log must produce identical TickOutputs for all COMPLETED ticks,
\* given the same tool result stubs from the log."  For a run that ended, among
\* runs that await no tool and so follow one another.
AnyRunReplays ==
  \A r \in Replays :
    /\ replays[r].pc = "settled" /\ replays[r].ended
    /\ NoWrites(loops[replays[r].of].agent)
    /\ \A l \in Loops : started[l] # null => started[l].kind # "CALL_TOOL"
    => Reproduces(r)

\* Every replay settles, and needs no handler for it.
ReplaysSettle ==
  \A r \in Replays : replays[r].pc # "idle" ~> replays[r].pc = "settled"
=============================================================================
