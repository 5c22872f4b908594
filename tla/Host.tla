-------------------------------- MODULE Host --------------------------------
(***************************************************************************)
(* The host process: its programs, host/index.ts, agents/swe.ts,           *)
(* agents/researcher.ts and agents/swarm.ts, each a loop that has a tick   *)
(* decided, emits on the bus, has the ToolGate call a tool and goes on;    *)
(* with the tools, the terminal on the bus, and the parts of the host that *)
(* its programs do not start themselves: coordinator, dashboard, plugins.  *)
(***************************************************************************)
EXTENDS Dashboard, Sandbox, Browser, Plugins, Brain, Lifecycle, Permissions

\* A config also has: work, the program or part that runs; brain; ticks, the last
\* tick of the loop of swe.ts.

\* What the programs emit are event kinds of the kernel; a coordinator has a host
\* of its own.
ASSUME HostAssumption ==
  /\ {"AGENT_SPAWNED", "TICK_COMPLETED", "TOOL_CALL_REQUESTED"} \subseteq EventKinds
  /\ \A c \in Configs : c.strategy # "NONE" => c.work = "coordinator"

VARIABLES
  program,        \* the running program; refused is history: the requests, by
                  \*   their message, that were not answered with a result
  screen          \* the events that the terminal shows, the oldest first

script == config.work
Crew ==
  CASE script = "index" -> {"ai-explorer-1"}
    [] script = "swe" -> {"swe-agent-1"}
    [] script = "researcher" -> {"researcher-alpha"}
    [] script = "swarm" -> {"manager-1", "worker-1", "worker-2"}
    [] OTHER -> {}

Nothing == [how |-> "none"]

NotStarted ==
  [at |-> "off", turn |-> 1, output |-> nothing, pending |-> Nothing, log |-> << >>,
   refused |-> {}, states |-> [a \in Crew |-> "DEFINED"], files |-> {}, history |-> 0,
   shared |-> [key \in Resources |-> nothing]]

-----------------------------------------------------------------------------
(* The scripts.                                                            *)

\* What an agent of swarm.ts does at a step; at any other it returns.
SwarmCalls ==
  { <<"manager-1", 1, "swarm.memory.write", "task_assignment">>,
    <<"worker-1",  1, "swarm.memory.read",  "task_assignment">>,
    <<"worker-1",  2, "swarm.memory.write", "worker_1_result">>,
    <<"worker-2",  1, "swarm.memory.read",  "task_assignment">>,
    <<"worker-2",  2, "swarm.memory.write", "worker_2_result">>,
    <<"manager-1", 2, "swarm.memory.read",  "worker_2_result">>,
    <<"manager-1", 3, "swarm.memory.write", "final_output">> }

SwarmInstruction(agent, step) ==
  LET Its == {c \in SwarmCalls : c[1] = agent /\ c[2] = step}
      call == CHOOSE c \in Its : TRUE
  IN IF Its = {} THEN Return("DONE") ELSE ToolCall(call[3], call[4])

SwarmTurns ==
  << <<"manager-1", 1>>, <<"worker-1", 1>>, <<"worker-2", 1>>, <<"worker-1", 2>>,
     <<"worker-2", 2>>, <<"manager-1", 2>>, <<"manager-1", 3>>, <<"worker-1", 3>>,
     <<"worker-2", 3>>, <<"manager-1", 4>> >>

ResearcherTools == <<"host.system.bash", "host.web.browser">>

\* getGrantsForAgent
SwarmGrants(agent) ==
  LET To(action, keys) == [action : {action}, resource : keys, notAfter : {0}]
  IN CASE agent = "manager-1" -> To("write", {"task_assignment", "final_output"})
                                   \cup To("read", {"worker_1_result", "worker_2_result"})
       [] agent = "worker-1" -> To("read", {"task_assignment"}) \cup To("write", {"worker_1_result"})
       [] agent = "worker-2" -> To("read", {"task_assignment"}) \cup To("write", {"worker_2_result"})
       [] OTHER -> {}

LastTurn ==
  CASE script = "swe" -> config.ticks
    [] script = "swarm" -> Len(SwarmTurns)
    [] OTHER -> 2

AgentNow == IF script = "swarm" THEN SwarmTurns[program.turn][1] ELSE CHOOSE a \in Crew : TRUE
TickNow == IF script = "swarm" THEN SwarmTurns[program.turn][2] ELSE program.turn

Thinks == script \in {"index", "swe"}

\* The instruction that a script without a brain has for this turn.
Scripted ==
  IF script = "swarm" THEN SwarmInstruction(AgentNow, TickNow)
  ELSE ToolCall(ResearcherTools[program.turn], noPath)

\* The names that the handlers of the ToolGate have.
GateTools ==
  CASE script = "index" -> {"host.fs.read_file", "host.net.fetch"}
    [] script = "swe" -> {"host.fs.read_file", "host.fs.write_file", "host.fs.list_dir"}
    [] script = "researcher" -> ToSet(ResearcherTools)
    [] OTHER -> {"swarm.memory.read", "swarm.memory.write"}

-----------------------------------------------------------------------------
(* The tools that return at once: their result, files and memory after it. *)

Done(result) == [how |-> "at once", result |-> result, files |-> program.files, shared |-> program.shared]
Refused == [Done("ERROR") EXCEPT !.how = "refused"]

\* The file system may fail each of them.
readFile(path) == {Done("ERROR")} \cup {Done("SUCCESS") : f \in {path} \cap program.files}

writeFile(path) ==
  {Done("ERROR")} \cup {[Done("SUCCESS") EXCEPT !.files = @ \cup {path}] : f \in {path} \cap Files}

listDir(path) == {Done("ERROR")} \cup {Done("SUCCESS") : f \in {path} \cap {noPath}}

fetch(url) == {Done(IF url = noPath THEN "ERROR" ELSE "SUCCESS")}

\* memoryReadTool and memoryWriteTool: SharedStore throws without a grant.
memory(agent, action, key) ==
  IF Verdict(Allows(SwarmGrants(agent), action, key, 1), << >>) # "ALLOW" THEN {Refused}
  ELSE IF action = "read"
    THEN {Done(IF program.shared[key] = nothing THEN "NOT_FOUND" ELSE program.shared[key])}
    ELSE {[Done("SUCCESS") EXCEPT !.shared[key] = agent]}

\* What a handler that is no promise comes to.
Outcomes(agent, tool, arg) ==
  IF tool \notin GateTools THEN {Refused}
  ELSE CASE tool = "host.fs.read_file" -> readFile(arg)
         [] tool = "host.fs.write_file" -> writeFile(arg)
         [] tool = "host.fs.list_dir" -> listDir(arg)
         [] tool = "host.net.fetch" -> fetch(arg)
         [] tool = "swarm.memory.read" -> memory(agent, "read", arg)
         [] tool = "swarm.memory.write" -> memory(agent, "write", arg)

-----------------------------------------------------------------------------
(* The programs.  A step of theirs is synchronous code up to an emit or an *)
(* await; calls are the handlers of what was emitted.                      *)

Runs(place) == calls = << >> /\ program.at = place

\* The code after an await of the host, a timer or a reply, does not run while a
\* promise is resolved already.
Woken(place) == Runs(place) /\ program.pending.how \notin {"at once", "refused"}

ToolsIdle == UNCHANGED <<bash, browserVars>>
Silent == UNCHANGED deliveryVars /\ ToolsIdle

KernelEvent(tool) == [agent |-> AgentNow, tool |-> tool]

Emit(kind, tool) == Send(kind, KernelEvent(tool)) /\ ToolsIdle

Drive(a, trigger, s) == [s EXCEPT ![a] = RowFor(@, trigger).to]

\* Kernel, terminal, registerAgent.
BootHost ==
  /\ Runs("off")
  /\ Subscribe("*") /\ ToolsIdle
  /\ program' = [program EXCEPT !.at = IF script = "index" THEN "announcing" ELSE "spawning",
                                !.files = {f \in {"README.md"} : script = "swe"}]

Announce ==
  /\ Runs("announcing")
  /\ Emit("AGENT_SPAWNED", nothing)
  /\ program' = [program EXCEPT !.at = "spawning"]

Spawn ==
  /\ Runs("spawning")
  /\ program' = [program EXCEPT !.at = "turning",
       !.states = [a \in Crew |-> RowFor(RowFor(@[a], "spawn").to, "activate").to]]
  /\ Silent

\* A turn: the brain is asked, or runTick gets what the script says.
BeginTurn ==
  /\ Runs("turning")
  /\ program' = IF program.turn > LastTurn THEN [program EXCEPT !.at = "ending"]
                ELSE IF Thinks THEN [program EXCEPT !.at = "thinking"]
                ELSE [program EXCEPT !.at = "ticked", !.output = runTick(Scripted)]
  /\ Silent

\* The brain resolves; runTick throws for null, which swe.ts catches and leaves.
Think ==
  /\ Woken("thinking")
  /\ \E idea \in Ideas(config.brain, program.history) :
       program' = IF idea.kind = "NULL"
                    THEN [program EXCEPT !.at = IF script = "swe" THEN "done" ELSE "dead"]
                    ELSE [program EXCEPT !.output = runTick(idea),
                                         !.at = IF script = "swe" THEN "ticked" ELSE "reporting"]
  /\ Silent

\* Only index.ts emits this.
ReportTick ==
  /\ Runs("reporting")
  /\ Emit("TICK_COMPLETED", nothing)
  /\ program' = [program EXCEPT !.at = "ticked"]

\* index.ts asks for a tool in its first turn only.
Requests == program.output.kind = "PENDING_TOOL" /\ ~(script = "index" /\ program.turn = 2)

RequestTool ==
  /\ Runs("ticked") /\ Requests
  /\ Emit("TOOL_CALL_REQUESTED", program.output.arg.tool)
  /\ program' = [program EXCEPT !.at = "calling"]

\* Mutant: nobody awaits the gate.
AwaitsNothing == FALSE

\* All but index.ts do.
AwaitsGate == script # "index"

\* ToolGate.execute up to the handler's promise; index.ts numbers the call as the
\* tick after, and goes on.
CallTool(agent, number, tool, arg, msg, onward) ==
  LET Pending(o) == [how |-> o.how, agent |-> agent, tick |-> number, tool |-> tool,
                     result |-> o.result, msg |-> msg]
      Begin(o) == program' = [program EXCEPT !.at = onward, !.pending = Pending(o),
                                             !.files = o.files, !.shared = o.shared,
                                             !.turn = IF AwaitsGate THEN @ ELSE @ + 1]
  IN \/ /\ tool = "host.system.bash" /\ tool \in GateTools
        /\ \E c \in Calls \ (Contained \cup Git) : Call(c)
        /\ Begin([Done("SUCCESS") EXCEPT !.how = "bash"]) /\ UNCHANGED browserVars
     \/ /\ tool = "host.web.browser" /\ tool \in GateTools
        /\ \E v \in Visits : Visit(v)
        /\ Begin([Done("SUCCESS") EXCEPT !.how = "browser"]) /\ UNCHANGED bash
     \/ /\ tool \notin GateTools \cap ToSet(ResearcherTools)
        /\ \E o \in Outcomes(agent, tool, arg) : Begin(o)
        /\ ToolsIdle

ExecuteTool ==
  /\ Runs("calling")
  /\ LET call == program.output.arg
     IN CallTool(AgentNow, IF script = "index" THEN program.turn + 1 ELSE TickNow, call.tool, call.path,
                 Len(messages), IF AwaitsGate THEN "awaiting" ELSE "turning")
  /\ UNCHANGED deliveryVars

\* The results that a pending call may have by now.
Answered ==
  CASE program.pending.how = "at once" -> {program.pending.result}
    [] program.pending.how = "bash" -> {bash[c].outcome : c \in {c \in Calls : At(c, "settled")}}
    [] program.pending.how = "browser" -> {visits[v].outcome : v \in InState("settled")}
    [] OTHER -> {}

\* Whoever awaits the gate goes on.
Resumed(p) ==
  [p EXCEPT !.pending = Nothing,
            !.at = IF @ = "awaiting" THEN "after" ELSE IF @ = "probing" THEN "done" ELSE @]

\* The gate logs the result, and resolves.
SettleTool ==
  /\ calls = << >>
  /\ \E result \in Answered :
       program' = Resumed([program EXCEPT !.log = Append(@, [program.pending EXCEPT !.result = result])])
  /\ Silent

\* It rejects: no such tool, or the handler or the append throws.  swe.ts and
\* researcher.ts go on, swarm.ts ends, and nobody catches it for index.ts.
RefuseTool ==
  /\ calls = << >>
  /\ program.pending.how = "refused" \/ Answered # {}
  /\ LET p == Resumed([program EXCEPT !.refused = @ \cup {program.pending.msg}])
     IN program' = CASE script = "index" -> [p EXCEPT !.at = "dead"]
                     [] script = "swarm" /\ program.at = "awaiting" -> [p EXCEPT !.at = "failed"]
                     [] OTHER -> p
  /\ Silent

\* No tool to call: index.ts turns on at once.
SkipTool ==
  /\ Runs("ticked") /\ ~Requests
  /\ program' = IF script = "index" THEN [program EXCEPT !.at = "turning", !.turn = @ + 1]
                ELSE [program EXCEPT !.at = "after"]
  /\ Silent

Terminate(a, s) == Drive(a, "teardown_ok", Drive(a, "complete", s))

\* swe.ts keeps the output; swarm.ts has an agent that returned terminate.
EndTurn ==
  /\ Runs("after")
  /\ program' = [program EXCEPT !.at = "pausing",
       !.history = IF script = "swe" THEN @ + 1 ELSE @,
       !.states = IF script = "swarm" /\ program.output.kind = "COMPLETED"
                    THEN Terminate(AgentNow, @) ELSE @]
  /\ Silent

Pause ==
  /\ Woken("pausing")
  /\ program' = [program EXCEPT !.at = "turning", !.turn = @ + 1]
  /\ Silent

\* index.ts and researcher.ts complete their agent; the latter closes the browser.
Complete ==
  /\ Runs("ending")
  /\ program' = [program EXCEPT !.at = IF script = "researcher" /\ activeBrowser # 0
                                         THEN "closing" ELSE "done",
                                !.states = Terminate(AgentNow, @)]
  /\ IF script = "researcher" /\ activeBrowser # 0
       THEN \E k \in Closers : closeBrowser(k) ELSE UNCHANGED browserVars
  /\ UNCHANGED <<deliveryVars, bash>>

\* Mutant: done without waiting for the browser to close.
CloseUnawaited ==
  /\ Runs("closing")
  /\ program' = [program EXCEPT !.at = "done"]
  /\ Silent

CloseAwaited ==
  /\ Runs("closing") /\ \A k \in Closers : closers[k] = 0
  /\ program' = [program EXCEPT !.at = IF activeBrowser = 0 THEN "done" ELSE "failed"]
  /\ Silent

\* swe.ts just ends; swarm.ts has worker-1, terminated by now, try what it may not.
LeaveLoop ==
  /\ Runs("ending")
  /\ program' = [program EXCEPT !.at = "done"]
  /\ Silent

Probe ==
  /\ Runs("ending")
  /\ CallTool("worker-1", 99, "swarm.memory.read", "worker_2_result", 0, "probing")
  /\ UNCHANGED deliveryVars

\* Where a program waits for a timer, a model, a command or a page, or has ended and
\* is kept alive by its terminal.  index.ts begins with a timer.
Waiting ==
  \/ \E place \in {"thinking", "awaiting", "pausing", "closing", "done"} : Woken(place)
  \/ script = "index" /\ Runs("turning") /\ program.turn = 1

\* process.exit, by a key of the terminal, or by swarm.ts once it is done.
Quit ==
  /\ Waiting
  /\ program' = [program EXCEPT !.at = "quit"]
  /\ Silent

\* An empty screen.
TerminalInit == screen = << >>

\* startVisualizer: what a step of the bus has the terminal, place 1, show.
Display ==
  screen' = IF Len(heard') > Len(heard) /\ Last(heard').array = "*"
              THEN Append(screen, Last(heard').msg) ELSE screen

\* What goes on while the program awaits.
ToolsGoOn ==
  /\ UNCHANGED <<deliveryVars, program>>
  /\ \/ SandboxGoesOn /\ UNCHANGED browserVars
     \/ BrowserGoesOn /\ UNCHANGED bash

TerminalReturns ==
  /\ HandlerReturns /\ UNCHANGED program /\ ToolsIdle

\* What comes back to every program.
ComesBack == SettleTool \/ RefuseTool \/ TerminalReturns \/ Quit

BootstrapFullEcosystem ==
  /\ script = "index"
  /\ \/ BootHost \/ Announce \/ Spawn \/ BeginTurn \/ Think \/ ReportTick
     \/ RequestTool \/ ExecuteTool \/ SkipTool \/ Complete \/ ComesBack

BootstrapSWE ==
  /\ script = "swe"
  /\ \/ BootHost \/ Spawn \/ BeginTurn \/ Think \/ RequestTool \/ ExecuteTool
     \/ SkipTool \/ EndTurn \/ Pause \/ LeaveLoop \/ ComesBack

BootstrapResearcher ==
  /\ script = "researcher"
  /\ \/ BootHost \/ Spawn \/ BeginTurn \/ RequestTool \/ ExecuteTool \/ EndTurn \/ Pause
     \/ Complete \/ CloseAwaited \/ ToolsGoOn \/ ComesBack

BootstrapSwarm ==
  /\ script = "swarm"
  /\ \/ BootHost \/ Spawn \/ BeginTurn \/ RequestTool \/ ExecuteTool \/ SkipTool
     \/ EndTurn \/ Pause \/ Probe \/ ComesBack

-----------------------------------------------------------------------------
swarmVars == <<deliveryVars, run, poll>>
programVars == <<program, screen>>

HostInit ==
  /\ Init /\ DashboardInit /\ SandboxInit /\ BrowserInit /\ PluginsInit
  /\ TerminalInit /\ program = NotStarted

\* Each in a process of its own: one program, or one part that hosts use.
HostNext ==
  \/ /\ config.work \in {"coordinator", "dashboard"}
     /\ \/ Next /\ Notice
        \/ config.work = "dashboard" /\ DashboardStep /\ Bounded /\ UNCHANGED <<config, poll>>
     /\ ToolsIdle /\ UNCHANGED <<pluginVars, programVars>>
  \/ /\ config.work = "commands" /\ SandboxNext
     /\ UNCHANGED <<swarmVars, config, dashboardVars, browserVars, pluginVars, programVars>>
  \/ /\ config.work = "browser" /\ BrowserNext
     /\ UNCHANGED <<swarmVars, config, dashboardVars, bash, pluginVars, programVars>>
  \/ /\ config.work = "plugins" /\ PluginsNext
     /\ UNCHANGED <<swarmVars, config, dashboardVars, bash, browserVars, programVars>>
  \/ /\ program.at # "quit"
     /\ BootstrapFullEcosystem \/ BootstrapSWE \/ BootstrapResearcher \/ BootstrapSwarm
     /\ Display
     /\ UNCHANGED <<config, run, poll, dashboardVars, pluginVars>>

HostSpec == HostInit /\ [][HostNext]_<<swarmVars, config, dashboardVars, bash, browserVars, pluginVars, programVars>>

-----------------------------------------------------------------------------
\* When the terminal shows an event that follows a tool call, and when the program
\* is over, the call is settled: its result is in the log, or it was refused.  In
\* index.ts, which does not await the call, this hangs on the handlers being done
\* at once.
CallsSettleInOrder ==
  \A i \in DOMAIN screen :
    LET m == screen[i]
    IN messages[m].topic = "TOOL_CALL_REQUESTED"
         /\ (i < Len(screen) \/ program.at \in {"done", "failed", "dead"})
       => \/ m \in program.refused
          \/ \E l \in DOMAIN program.log : /\ program.log[l].msg = m
                                          /\ program.log[l].tool = messages[m].body.tool
                                          /\ program.log[l].agent = messages[m].body.agent

\* A program that comes to its end leaves no tool call, no command and no browser
\* running, and each of its agents TERMINATED, unless it is swe.ts.
NothingOutlivesProgram ==
  program.at = "done" =>
    /\ program.pending = Nothing
    /\ \A c \in Calls : bash[c].at \in {"idle", "settled"}
    /\ \A b \in DOMAIN browsers : ~browsers[b].up
    /\ script # "swe" => \A a \in Crew : program.states[a] = "TERMINATED"
=============================================================================
