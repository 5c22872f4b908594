------------------------------ MODULE Scheduler ------------------------------
(***************************************************************************)
(* The execution core of a LIVE kernel: Scheduler.runAgentLoop, with the   *)
(* TickEngine, the QuotaEnforcer and the ToolGate it calls, over the shared*)
(* execution log and the lifecycle map.                                    *)
(*                                                                         *)
(* The program is single threaded: a step is what runs between two awaits. *)
(* A loop runs its first tick as soon as it is called; when the tick asks  *)
(* for a tool, the loop is suspended until the handler settles, ToolGate   *)
(* logs the result, and a later microtask resumes the loop with a RETURN   *)
(* of it.  Anything may run in between: other loops of the same agent and  *)
(* host code that moves the agent, changes its quota or writes its memory. *)
(***************************************************************************)
EXTENDS Lifecycle, Tick, Naturals, Sequences, FiniteSets

CONSTANTS
  Agents,
  Loops,            \* invocations of runAgentLoop
  Tools,            \* tool names instructions may carry
  Handlers,         \* the tools toolGate.handlers has an entry for
  Values,           \* what tools, RETURN instructions and memory hold
  Quotas,           \* what setQuota is called with
  NoQuota,          \* limits has no entry
  MaxHostSteps      \* bound: calls made by host code

ASSUME SchedulerAssumption ==
  /\ Handlers \subseteq Tools
  /\ Quotas \subseteq [maxTicks : Nat, maxToolCalls : Nat]
  /\ NoQuota \notin Quotas
  /\ null \notin Values \cup Tools
  /\ MaxHostSteps \in Nat

VARIABLES
  log,              \* logger.logs; busSeq is the index
  lifecycle,        \* lifecycle.getState
  limits, usage,    \* QuotaEnforcer.limits, QuotaEnforcer.usage
  memory,           \* persistentStore.snapshot
  loops,            \* the local state of each runAgentLoop call
  hostSteps         \* bound of the model

vars == <<log, lifecycle, limits, usage, memory, loops, hostSteps>>

-----------------------------------------------------------------------------
Args == Values \cup Tools \cup {null}

Instruction == [kind : InstructionKinds, arg : Args]
TickOutput == [kind : {"COMPLETED", "PENDING_TOOL", "PENDING_DELEGATION", "FAILED"},
               arg : Args]

\* What callers pass: a value to return, a tool to call, or neither.
InitialInstructions ==
  {[kind |-> k, arg |-> null] : k \in {"NOOP", "DELEGATE", "UNKNOWN"}}
    \cup {[kind |-> "RETURN", arg |-> v] : v \in Values}
    \cup {[kind |-> "CALL_TOOL", arg |-> t] : t \in Tools}

\* The arguments of hashState; SHA-256 is taken as injective.
KernelState(output, state, mem) == [output |-> output, lifecycle |-> state, memory |-> mem]

\* Log entries.
TickEntry(a, seq, instr, state, mem) ==
  [kind |-> "TICK_OUTPUT", agent |-> a, seq |-> seq, instruction |-> instr,
   output |-> runTick(instr),
   stateHash |-> KernelState(runTick(instr), state, mem)]

ToolEntry(a, seq, tool, result) ==
  [kind |-> "TOOL_RESULT", agent |-> a, seq |-> seq, tool |-> tool,
   result |-> result]

MoveEntry(a, row) ==
  [kind |-> "LIFECYCLE_TRANSITION", agent |-> a, row |-> row]

WriteEntry(a, v) ==
  [kind |-> "MEMORY_PERSISTENT_WRITE", agent |-> a, value |-> v]

LogEntries ==
  {TickEntry(a, s, i, st, m) : a \in Agents, s \in {1, 2}, i \in Instruction,
                               st \in AgentStates, m \in Values \cup {null}}
    \cup {ToolEntry(a, 1, t, v) : a \in Agents, t \in Tools, v \in Values}
    \cup {MoveEntry(a, r) : a \in Agents, r \in Rows}
    \cup {WriteEntry(a, v) : a \in Agents, v \in Values}

Outcomes == {"none", "COMPLETED", "FAILED", "DELEGATED", "QUOTA_EXCEEDED",
             "NOT_ACTIVE", "TOOL_ERROR", "LIFECYCLE_ERROR"}

\* idle: not called.  tool: awaits the handler.  resumed / rejected: the
\* gate's promise is settled, the loop's continuation is queued.  settled:
\* the promise of runAgentLoop is.
LoopState ==
  [pc : {"idle", "tool", "resumed", "rejected", "settled"},
   agent : Agents \cup {null}, tool : Tools \cup {null},
   invoked : BOOLEAN,               \* a handler was called for this loop
   result : Values \cup {null}, outcome : Outcomes]

Idle == [pc |-> "idle", agent |-> null, tool |-> null, invoked |-> FALSE,
         result |-> null, outcome |-> "none"]

TypeOK ==
  /\ log \in Seq(LogEntries)
  /\ lifecycle \in [Agents -> AgentStates]
  /\ limits \in [Agents -> Quotas \cup {NoQuota}]
  /\ usage \in [Agents -> [ticks : Nat, toolCalls : Nat]]
  /\ memory \in [Agents -> Values \cup {null}]
  /\ loops \in [Loops -> LoopState]
  /\ hostSteps \in 0..MaxHostSteps

Init ==
  /\ log = << >>
  /\ lifecycle = [a \in Agents |-> "DEFINED"]
  /\ limits = [a \in Agents |-> NoQuota]
  /\ usage = [a \in Agents |-> [ticks |-> 0, toolCalls |-> 0]]
  /\ memory = [a \in Agents |-> null]
  /\ loops = [l \in Loops |-> Idle]
  /\ hostSteps = 0

-----------------------------------------------------------------------------
\* Mutants: comparing before counting.
TicksExceededLate(a) == limits[a] # NoQuota /\ usage[a].ticks > limits[a].maxTicks
ToolCallsExceededLate(a) ==
  limits[a] # NoQuota /\ usage[a].toolCalls > limits[a].maxToolCalls

\* consumeTick and consumeToolCall count first and compare afterwards.
TicksExceeded(a) == limits[a] # NoQuota /\ usage[a].ticks + 1 > limits[a].maxTicks
ToolCallsExceeded(a) ==
  limits[a] # NoQuota /\ usage[a].toolCalls + 1 > limits[a].maxToolCalls

CountTick(a) == usage' = [usage EXCEPT ![a].ticks = @ + 1]
CountTickAndTool(a) ==
  usage' = [usage EXCEPT ![a] = [ticks |-> @.ticks + 1, toolCalls |-> @.toolCalls + 1]]

Settle(l, a, outcome) ==
  loops' = [loops EXCEPT ![l] = [@ EXCEPT !.pc = "settled", !.agent = a,
                                          !.outcome = outcome]]

\* Mutant: a state set past the controller, as REPLAY mode does.
MoveSilently(lg, a, t) ==
  /\ log' = lg
  /\ lifecycle' = [lifecycle EXCEPT ![a] = RowFor(lifecycle[a], t).to]

\* transition(a, t) when the table allows it; lg is the log at that point.
MoveLogging(lg, a, t) ==
  LET row == RowFor(lifecycle[a], t) IN
  /\ log' = Append(lg, MoveEntry(a, row))
  /\ lifecycle' = [lifecycle EXCEPT ![a] = row.to]

LogOnly(lg) == log' = lg /\ UNCHANGED lifecycle

\* Mutant: the error is rethrown only.
QuotaExceededOnly(l, a, lg) == LogOnly(lg) /\ Settle(l, a, "QUOTA_EXCEEDED")

\* The catch block for a QuotaExceededError: transition(a, "error"), its own
\* failure swallowed, and the error rethrown.
QuotaExceeded(l, a, lg) ==
  /\ IF IsValid(lifecycle[a], "error") THEN MoveLogging(lg, a, "error")
                                       ELSE LogOnly(lg)
  /\ Settle(l, a, "QUOTA_EXCEEDED")

\* A tick whose output ends the loop by one transition; if the table refuses
\* it, the LifecycleError rejects the loop and the tick stays logged.
EndBy(l, a, lg, trigger, outcome) ==
  IF IsValid(lifecycle[a], trigger)
  THEN MoveLogging(lg, a, trigger) /\ Settle(l, a, outcome)
  ELSE LogOnly(lg) /\ Settle(l, a, "LIFECYCLE_ERROR")

\* Mutant: completion does not look at the state it starts from.
EndCompletedAnyway(l, a, lg) ==
  /\ log' = lg
  /\ lifecycle' = [lifecycle EXCEPT ![a] = "TERMINATED"]
  /\ Settle(l, a, "COMPLETED")

\* COMPLETED: complete, then teardown_ok from where complete led.
EndCompleted(l, a, lg) ==
  LET done == RowFor(lifecycle[a], "complete")
      torn == RowFor(done.to, "teardown_ok")
  IN IF IsValid(lifecycle[a], "complete")
     THEN /\ log' = Append(Append(lg, MoveEntry(a, done)), MoveEntry(a, torn))
          /\ lifecycle' = [lifecycle EXCEPT ![a] = torn.to]
          /\ Settle(l, a, "COMPLETED")
     ELSE LogOnly(lg) /\ Settle(l, a, "LIFECYCLE_ERROR")

\* PENDING_TOOL within quota: ToolGate.execute runs up to its first await. A
\* missing handler rejects; otherwise the handler has been called.
CallTool(l, a, lg, tool) ==
  /\ LogOnly(lg)
  /\ loops' = [loops EXCEPT ![l] =
                 [@ EXCEPT !.pc = IF tool \in Handlers THEN "tool" ELSE "rejected",
                           !.agent = a, !.tool = tool,
                           !.invoked = tool \in Handlers]]

\* One round of the while loop, up to the next await or the end of the loop.
Tick(l, a, seq, instr) ==
  LET lg == Append(log, TickEntry(a, seq, instr, lifecycle[a], memory[a]))
      output == runTick(instr)
  IN \/ /\ TicksExceeded(a)
        /\ CountTick(a)
        /\ QuotaExceeded(l, a, log)
     \/ /\ ~TicksExceeded(a)
        /\ output.kind = "COMPLETED"
        /\ CountTick(a)
        /\ EndCompleted(l, a, lg)
     \/ /\ ~TicksExceeded(a)
        /\ output.kind = "FAILED"
        /\ CountTick(a)
        /\ EndBy(l, a, lg, "error", "FAILED")
     \/ /\ ~TicksExceeded(a)
        /\ output.kind = "PENDING_DELEGATION"
        /\ CountTick(a)
        /\ EndBy(l, a, lg, "yield", "DELEGATED")
     \/ /\ ~TicksExceeded(a)
        /\ output.kind = "PENDING_TOOL"
        /\ CountTickAndTool(a)
        /\ IF ToolCallsExceeded(a) THEN QuotaExceeded(l, a, lg)
                                   ELSE CallTool(l, a, lg, output.arg)

-----------------------------------------------------------------------------
\* runAgentLoop(a, instr): the guard is the only look at the lifecycle state.
RunAgentLoop(l, a, instr) ==
  /\ loops[l].pc = "idle"
  /\ IF lifecycle[a] = "ACTIVE"
     THEN Tick(l, a, 1, instr)
     ELSE /\ Settle(l, a, "NOT_ACTIVE")
          /\ UNCHANGED <<log, lifecycle, usage>>
  /\ UNCHANGED <<limits, memory, hostSteps>>

\* The handler of loop l settles with v; ToolGate logs, then returns it.
ToolReturns(l, v) ==
  /\ loops[l].pc = "tool"
  /\ log' = Append(log, ToolEntry(loops[l].agent, 1, loops[l].tool, v))
  /\ loops' = [loops EXCEPT ![l].pc = "resumed", ![l].result = v]
  /\ UNCHANGED <<lifecycle, limits, usage, memory, hostSteps>>

\* The handler throws or its promise rejects: nothing is logged.
ToolThrows(l) ==
  /\ loops[l].pc = "tool"
  /\ loops' = [loops EXCEPT ![l].pc = "rejected"]
  /\ UNCHANGED <<log, lifecycle, limits, usage, memory, hostSteps>>

\* Mutant: the latest result in the log, whoever it was for.
ResumeWithLatest(l) ==
  /\ loops[l].pc = "resumed"
  /\ \E i \in DOMAIN log :
       /\ log[i].kind = "TOOL_RESULT"
       /\ \A j \in DOMAIN log : log[j].kind = "TOOL_RESULT" => j <= i
       /\ Tick(l, loops[l].agent, 2, [kind |-> "RETURN", arg |-> log[i].result])
  /\ UNCHANGED <<limits, memory, hostSteps>>

\* Mutant: a continuation that waits for its agent to be ACTIVE again.
RejectIfActive(l) ==
  /\ loops[l].pc = "rejected" /\ lifecycle[loops[l].agent] = "ACTIVE"
  /\ Settle(l, loops[l].agent, "TOOL_ERROR")
  /\ UNCHANGED <<log, lifecycle, limits, usage, memory, hostSteps>>

\* The continuation after the await: a RETURN tick with the next number.
Resume(l) ==
  /\ loops[l].pc = "resumed"
  /\ Tick(l, loops[l].agent, 2, [kind |-> "RETURN", arg |-> loops[l].result])
  /\ UNCHANGED <<limits, memory, hostSteps>>

\* The await throws: any error but QuotaExceededError leaves the agent as it is.
ResumeRejected(l) ==
  /\ loops[l].pc = "rejected"
  /\ Settle(l, loops[l].agent, "TOOL_ERROR")
  /\ UNCHANGED <<log, lifecycle, limits, usage, memory, hostSteps>>

-----------------------------------------------------------------------------
\* Host code between the steps of the loops.
HostStep == hostSteps < MaxHostSteps /\ hostSteps' = hostSteps + 1

HostTransition(a, t) ==
  /\ HostStep
  /\ IsValid(lifecycle[a], t)
  /\ MoveLogging(log, a, t)
  /\ UNCHANGED <<limits, usage, memory, loops>>

SetQuota(a, q) ==
  /\ HostStep
  /\ limits' = [limits EXCEPT ![a] = q]
  /\ UNCHANGED <<log, lifecycle, usage, memory, loops>>

\* persistentStore.write: WAL entry first, then the map.
PersistentWrite(a, v) ==
  /\ HostStep
  /\ log' = Append(log, WriteEntry(a, v))
  /\ memory' = [memory EXCEPT ![a] = v]
  /\ UNCHANGED <<lifecycle, limits, usage, loops>>

\* Everything but a new call of runAgentLoop.
KernelStep ==
  \/ \E l \in Loops : \/ \E v \in Values : ToolReturns(l, v)
                      \/ ToolThrows(l)
                      \/ Resume(l)
                      \/ ResumeRejected(l)
  \/ \E a \in Agents : \/ \E t \in TransitionTriggers : HostTransition(a, t)
                       \/ \E q \in Quotas : SetQuota(a, q)
                       \/ \E v \in Values : PersistentWrite(a, v)

Next ==
  \/ \E l \in Loops, a \in Agents, i \in InitialInstructions : RunAgentLoop(l, a, i)
  \/ KernelStep

Spec == Init /\ [][Next]_vars

\* The event loop runs every queued continuation.
Fairness == \A l \in Loops : WF_vars(Resume(l)) /\ WF_vars(ResumeRejected(l))

FairSpec == Spec /\ Fairness

-----------------------------------------------------------------------------
IsMove(a, e) == e.kind = "LIFECYCLE_TRANSITION" /\ e.agent = a
IsTick(a, e) == e.kind = "TICK_OUTPUT" /\ e.agent = a

\* The first n entries of lg leave agent a in state st.
LeadsTo(lg, n, a, st) ==
  \/ st = "DEFINED" /\ \A i \in 1..n : ~IsMove(a, lg[i])
  \/ \E i \in 1..n : /\ IsMove(a, lg[i]) /\ lg[i].row.to = st
                     /\ \A j \in (i + 1)..n : ~IsMove(a, lg[j])

TicksOf(a) == Cardinality({i \in DOMAIN log : IsTick(a, log[i])})
InvokedFor(a) == {l \in Loops : loops[l].agent = a /\ loops[l].invoked}

\* The log is a faithful account of every agent: each transition starts where
\* the previous one of its agent ended, whoever made them, and the last one
\* leads to the state the controller reports.
Tells(lg, states) ==
  \A a \in Agents :
    /\ \A i \in DOMAIN lg : IsMove(a, lg[i]) => LeadsTo(lg, i - 1, a, lg[i].row.from)
    /\ LeadsTo(lg, Len(lg), a, states[a])

LogTellsLifecycle == Tells(log, lifecycle)

\* INV-14: a value a continuation tick returns was logged before, as the result
\* of a tool call of that agent, which itself follows the tick that asked for it.
AskedBefore(lg, n, a, tool) ==
  \E k \in 1..(n - 1) : IsTick(a, lg[k]) /\ lg[k].output.arg = tool

ResultedBefore(lg, n, a, v) ==
  \E j \in 1..(n - 1) : /\ lg[j].kind = "TOOL_RESULT" /\ lg[j].agent = a
                        /\ lg[j].result = v /\ AskedBefore(lg, j, a, lg[j].tool)

ResultBeforeReturn ==
  \A i \in DOMAIN log :
    log[i].kind = "TICK_OUTPUT" /\ log[i].seq = 2 =>
      ResultedBefore(log, i, log[i].agent, log[i].output.arg)

\* However many loops an agent has, no tick is logged for it beyond the limit
\* in force, and each logged tick has been paid for.
TickQuotaHolds ==
  [][\A a \in Agents :
       TicksOf(a)' > TicksOf(a) =>
         /\ TicksOf(a)' <= usage'[a].ticks
         /\ limits[a] # NoQuota => TicksOf(a)' <= limits[a].maxTicks]_vars

\* The same for handlers, which moreover are only called while their agent is
\* ACTIVE: the awaits of the loop fall behind the call, never before it.
HandlerCallsAreAllowed ==
  [][\A a \in Agents :
       InvokedFor(a)' # InvokedFor(a) =>
         /\ lifecycle[a] = "ACTIVE"
         /\ limits[a] # NoQuota =>
              Cardinality(InvokedFor(a)') <= limits[a].maxToolCalls]_vars

\* Two loops of one agent never both complete it.
CompletedOnce ==
  \A l, m \in Loops :
    /\ loops[l].outcome = "COMPLETED" /\ loops[m].outcome = "COMPLETED"
    /\ loops[l].agent = loops[m].agent
    => l = m

\* A loop that ran out of quota does not leave its agent running, whatever
\* happened to the agent while the loop was suspended.
QuotaStopsAgent ==
  [][\A l \in Loops :
       loops'[l].outcome = "QUOTA_EXCEEDED" /\ loops[l].outcome = "none" =>
         lifecycle'[loops'[l].agent] \notin {"ACTIVE", "WAITING"}]_vars

\* SM-INV-03 for a kernel that runs loops: TERMINATED is a sink.
TerminatedIsSink ==
  [][\A a \in Agents : lifecycle[a] = "TERMINATED" => lifecycle'[a] = "TERMINATED"]_vars

\* doc/invariants.md INV-09: "An agent in TERMINATED state cannot execute ticks".
NoTickAfterTermination ==
  \A i \in DOMAIN log :
    log[i].kind = "TICK_OUTPUT" => ~LeadsTo(log, i - 1, log[i].agent, "TERMINATED")

\* A loop whose handler has settled settles too, even when its agent was moved or
\* stopped meanwhile.
ContinuationsRun ==
  \A l \in Loops : loops[l].pc \in {"resumed", "rejected"} ~> loops[l].pc = "settled"

\* Loops and hosts together move agents only as the lifecycle promises.
Agent == INSTANCE AgentLifecycle WITH state <- lifecycle
ImplementsAgentLifecycle == Agent!Session
=============================================================================
