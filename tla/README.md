# OmniPaw, specified

OmniPaw is an agent kernel in TypeScript, with the host programs that run agents
on it. Its core promises that what agents do is decided by a small lifecycle
table, bounded by quotas, written to an append-only log before it takes effect,
and can be replayed from that log. This directory holds TLA+ models of that core
and of its hosts, the TLC configurations that check them on small instances, and
proofs, checked by TLAPS, that the main properties hold for every number of
agents, loops, tools, calls and values.

`PROJECT.json` is the machine-readable index: which definition models which
source lines, which run checks which property, and for each property a mutation
of the modelled code that breaks it.

## 1. The system

Everything runs in one Node.js process and one thread. The kernel modules are
synchronous; the only suspension point of the core is the `await` of a tool in
`Scheduler.runAgentLoop`. An *atomic step* below is therefore the code that runs
between two awaits, and the concurrency is that of suspended calls with each
other and with host code. Crashes matter where something is on disk (the log
file, the SQLite database), failing appends matter everywhere, because every
module calls `logger.append` in the middle of its own update, and the world
outside (Docker, a browser, models, pages) answers late, wrongly or never.

| Component | State | Operations | Talks to | Hard part | What makes it correct |
|---|---|---|---|---|---|
| `ExecutionLogger`, `FileLogger` | array of entries, next sequence number, file | `append`, `loadFromFile` | all modules append | memory first, disk second; half-written lines; frozen after a load | readable lines ordered; memory knows what the file knows; a fragment costs one entry at most |
| `LifecycleController` | state and history per agent, own counter | `transition` | log | the append throws half way; a restart forgets | history is a path of the table; logged before made; TERMINATED is a sink |
| `Scheduler`, `TickEngine` | locals of each `runAgentLoop` | the tick loop | lifecycle, quota, gate, store, log | state checked once and used after an await; two loops of one agent; refused transitions | the log accounts for every state; results precede returns; one completion; every loop settles |
| `QuotaEnforcer` | limits and counters per agent | `setQuota`, `consumeTick`, `consumeToolCall` | scheduler | shared by all loops, counts before it compares, limits change meanwhile | no tick or handler beyond the limit in force; running out stops the agent |
| `ToolGate` | handlers, mode | `execute` | log, handlers | handlers that hang, throw, are missing; lookup of logged results | one logged result per answer, before it is used |
| Replay (scheduler and gate in `REPLAY` mode), `ReplayController` | own lifecycle map, position | the tick loop against a log; `verifyTick` | log, store | numbers restart with every loop; memory is not restored; a replay may overtake the run | same outcome and value as the run; no end the log does not show |
| `PersistentStore`, `SqliteStore`, `SqliteLogger` | key/value per agent, tables | `write`, `delete`, `snapshot` | log, scheduler hash | write-ahead entry and row are two commits | after a crash, log and store can be reconciled |
| `EphemeralStore` | memory and checkpoints per tick | `init`, `checkpoint`, `restore`, `destroy` | ticks | use after destroy, restore of an old checkpoint | no tick sees another tick's memory |
| `SharedStore`, `PermissionModel` | namespaces; none | `read`, `write`; `evaluate` | log, each other | read-modify-write of two agents; grants that expire | no access without a live grant; every access logged |
| `DelegationProtocol` | tree of nodes with tokens | `initRoot`, `delegate`, `revoke` | log | cascade that stops half way; nodes replaced | authority only shrinks down the tree; revocation is deep |
| `FailureHandler`, `InvariantChecker` | retry records; none | `handle`; assertions that throw | lifecycle, delegation, log | wired to a transition that refuses its argument; record deleted before escalation | a breach ends in TERMINATED and revoked tokens; retries keep to their budget |
| `KernelBus` | listeners | `subscribe`, `emit` | hosts, swarm | nested emission, throwing listeners | every listener sees every event once and in order |
| `SwarmProtocol`, `SwarmCoordinator` | channels, message log | `send`, votes, strategies | bus, workers | dealing out modulo, stages found by name, quorum arithmetic | every subtask is worked, every stage gets what the one before made, accepted means a majority |
| `PluginValidator`, `PluginLoader`, `ToolRegistry` | loaded plugins, tools | `discoverAndLoad`, `injectIntoRegistry`, `register`, `executeSync` | file system | directories replaced between the calls, names taken twice, handlers missing | nothing unvalidated is registered; what was valid is registered or reported |
| `DockerSandbox`, bash and git tools | container, timer | `execute`, `exec` | Docker daemon, processes | the timer against creation, start, end and removal | output of a killed container is no success; nothing is left behind but what its removal or the lost answer to its creation left |
| Browser tool | `activeBrowser` | visit, `closeBrowser` | Playwright | a handle read and set on both sides of awaits | a browser that runs can be closed |
| `DashboardServer` and its page | bounded buffer, clients, rows | `start`, `stop`, connection handlers, `addEvent` | bus | buffer limit, pages that leave and come back, a handler that `stop` leaves behind | a connected page shows the latest events |
| `Brain`, `OllamaAdapter` | script position | `evaluate`, repair of broken JSON | models | replies that are null, broken, or no JSON | always an instruction, or a loop that ends |
| Host programs `index.ts`, `agents/swe.ts`, `researcher.ts`, `swarm.ts`; terminal | agents, prompts, turns, files, namespace | a loop that thinks, ticks, asks the gate | bus, gate, tools, brain, terminal | an un-awaited tool call, tools that throw, a key that quits | every request that is shown is settled; nothing outlives the program |
| Replaying hosts `boot.ts`, `simulation.ts` | two schedulers over one log | a run and its replay | scheduler, file | neither is awaited | as Replay |

Not modelled: prompts and transport of the model adapters, telemetry,
`AgentRegistry`, the Devin agent, the weather plugin, the documentation site
(section 6 says why).

## 2. Modules

```
Lifecycle            the table (types.ts), constants only
  AgentLifecycle     abstract specification: an agent moves along rows of the table
  FileLogger         logger.ts + host/logger.ts, disk and process death included
    LifecycleController      transition() over that log, with reboots
      LifecycleControllerProofs
Tick                 runTick, a pure function
  Scheduler          LIVE kernel: loops, ticks, quotas, tool gate, host calls
    SchedulerProofs
    Replay           REPLAY mode over the log a Scheduler writes, verifyTick
      ReplayProofs
  Brain              what the adapters make of the reply of a model
Permissions          grants and policies (permissions/model.ts), operators only
  Delegation         the tree of tokens
    FailureHandler   handle() over the tree and a lifecycle (also Lifecycle, Invariants)
      FailureHandlerProofs
Invariants           the assertions of invariants/checker.ts, operators only
SqliteLogger         the log in a table, shared by kernels that die and restart
  PersistentStore    the store in memory
    SqliteStore      the store in a table
  SharedStore        namespaces behind PermissionModel.evaluate
EphemeralStore       scratch memory
  Memory             the five of them in kernels over one database
    MemoryProofs
Delivery             synchronous, nested delivery: KernelBus and swarm channels
  Swarm              the coordinator's three strategies, and votes
    Dashboard        the server's handler on the bus, its buffer, its pages
      Host           the programs, over all of the following and Brain, Lifecycle,
                       Permissions
        HostProofs   (also ToolProofs)
          ProgramProofs
Sandbox              bash in a container or a process, and git
Browser              the shared handle of the browser tool
  ToolProofs         of both
Registry             ToolRegistry
  Plugins            validator and loader, injecting into it
MC*                  constants for TLC
```

**FileLogger** (`logging/logger.ts`, `host/logger.ts`). `logs`, `nextBusSeq`,
`frozen` are the fields of the object; `disk` and `tail` are the file, split
into complete lines and what follows the last newline. `append` pushes to
memory, advances the counter and writes the line, in that order, so it has
three outcomes: `AppendOk`, `AppendDiskError` (memory kept the entry; of the
line nothing, a fragment, or everything but the newline is on disk), and
`AppendFrozen` (a logger made by `loadFromFile` holds a frozen array: `push`
throws after the counter moved). `Crash` and `CrashDuring` end the process;
`Load` is `loadFromFile`, which is all or nothing because `JSON.parse` throws on
the first bad line; `ColdBoot` is the constructor with its new file name.
`TornWrites` says whether the environment interrupts writes half way.

**LifecycleController** (`lifecycle/controller.ts`, wiring in `kernel/index.ts`).
EXTENDS FileLogger and adds the map, the history and the private counter. Each
`transition` that finds a row either appends and then updates (`Transition`) or
is stopped by the append, with the counter already moved
(`TransitionNotLogged`). A transition the table refuses throws before it touches
anything and is a stuttering step. `OtherAppend` stands for the other modules on
the same log; `Killed` and `Reboot` replace the process.

**Scheduler** (`execution/scheduler.ts`, `tick.ts`, `quota.ts`, `tools/gate.ts`,
`memory/persistent.ts`). `loops` holds the local state of every `runAgentLoop`
call: `RunAgentLoop` runs the first round up to the await or the end;
`ToolReturns`/`ToolThrows` are the handler settling (the gate logs the result);
`Resume`/`ResumeRejected` are the continuation, a later microtask, so that
anything can come between. `Tick` is one round, in the order of the source:
quota, tick, log, then by output `EndCompleted` (two transitions),
`EndBy` (`FAILED`, `PENDING_DELEGATION`) or the gate. Its refusals are kept: a
tick is logged before a transition that may be refused, the quota error swallows
the refusal of its own transition, any other error leaves the agent alone.
`HostTransition`, `SetQuota`, `PersistentWrite` are calls of host code between
the steps; there are at most `MaxHostSteps` of them. Appends succeed here:
their failure is LifecycleController's subject.
A tool call happens at most once per loop because the continuation's instruction
is always a `RETURN`, so sequence numbers are 1 and 2. The 100-step fuel of the
tick engine never runs out for the instructions that exist, and SHA-256 is taken
as injective (`KernelState`).

**Replay** (`REPLAY` branches of the same files, `replay/controller.ts`,
`host/boot.ts`, `simulation.ts`). EXTENDS Scheduler: live loops and hosts go on,
and replays start at any moment. A replay has a lifecycle map of its own that the
host sets to ACTIVE, compares every tick by hash with the *first* logged tick
with its number, takes tool results from the log, and sets its map directly.
`RestartAndReplay` and `StartReplay` are the two hosts: `boot.ts` replays in a new
kernel over a file with an empty store, `simulation.ts` in a second scheduler over
the live log and store. `verifyTick` is `ReplayController`'s comparison, a
function of the log; nothing in `src/` calls it, and `ReplayEndsAsLogged` holds
every replay against it.

**AgentLifecycle** is what the rest of the system may rely on: every change of
an agent's state is a row of the table, or `complete` followed at once by
`teardown_ok`; with restarts (`Spec`), or within one process (`Session`).
LifecycleController implements `Spec` and Scheduler implements `Session`, with
`state <- stateMap` and `state <- lifecycle` as refinement mappings.

**Delegation** (`delegation/protocol.ts`). `nodes` is the map of the tree with
the token's fields in the node; `revokedLog` is history: whose revocation has
its entry. `InitRoot` replaces a node, `Delegate` is a request that passes all
checks (the child is in the tree before the entry that may fail), `Revoke` a
whole cascade, and `RevokeCut(a, x)` one that the append for `x` stops: `Before`
says which nodes a depth-first cascade has marked by then. `Cascade` is defined
as the least set closed under what the recursion goes on to, not by recursion,
so that theorems about it are possible. `Advance` is the clock: grants and
tokens expire between calls. A request that is refused changes nothing.

**FailureHandler** (`failure/handler.ts`, `invariants/checker.ts`, wiring in
`kernel/index.ts`). One action per class; each is the whole reaction, and ends
early where an append or a transition may throw. `TakesStates` chooses between
the two lifecycles the handler is given: the map of states of its test, and the
kernel's adapter, which passes a state where `LifecycleController.transition`
expects a trigger. `Halt` hands the handler what an assertion of **Invariants**
throws (`Thrown`): each assertion is the set of its errors, empty or one breach.

**Memory** (`memory/*`, `host/db/*`, `permissions/model.ts`). Each kernel is a
process; `doing` holds what is left of a call that makes more than one commit,
so that other kernels run in between, and a kill can come there. `SqliteStore`
writes are `WriteAhead` (the entry) and then `Apply`, `ApplyThrows` or
`ApplyAndDie` (the row); `SharedStore` accesses are `Evaluate` (the
decision and its entry) and then `Access` or `AccessNotLogged`. The in-memory
stores are per kernel and gone with it. `EphemeralStore` values are stamps of
when and for which tick they were written, which is all its property tells
apart. An append to the SQLite log happens wholly or throws without a trace; the
latter, as a first step of a call, changes nothing and is no action.

**Delivery** and **Swarm** (`kernel/bus.ts`, `swarm/*`). `emit` and `send` call
handlers at once, over arrays that can grow meanwhile. `calls` is the stack of
deliveries: each frame names the handler that is running. A running handler can
send (a frame on top), subscribe, return (`HandlerReturns` goes on to the next
place, as the arrays are then), or throw to any frame below that catches. A bus
event walks the array of its kind and then that of `*`; a swarm message walks its
channel, whoever it is addressed to. `run` is one `execute` of a coordinator,
which goes on when the stack is empty again; its callbacks (splitter, worker,
merger) are points where hosts may act, and may throw. `Vote` is a ballot of
either kind (`Broadcast`, `Ballot`).

**Dashboard** (`host/dashboard/server.ts` and the script of its page). The server
is a listener to `*` at the places it subscribed at; `Notice` is what a step of
the bus has it do: buffer the event (`Buffered` drops the oldest) and put it on
the wire of each client. `Start` subscribes each time, `Stop` leaves the handlers
on the bus. A page connects (the whole buffer is the first thing on its wire, one
message, whose events `init` counts), receives (`addEvent` for each event, at most
`MaxBuffered` rows), loses its connection with what was on the wire, keeps its rows
and comes back.

**Sandbox** (`host/sandbox/docker.ts`, `host/tools/bash.ts`, `git.ts`). One record
per call: the await it is at, the container or process, the timer, whether a kill
is on its way. The daemon creates, starts and removes; `DaemonFails` is its error,
or the loss of its answer, at any await, and what it was asked for has been done
(`Creates`, `Starts`), is not, or is done later (`HappensLate`). A call that is told
of no container settles without removing one (`lost`). The command ends or does not,
`TimerFires` kills what there is to kill, and `KillLands` or is lost. A native command
is a process with the timeout of `exec`, which it may ignore, or catch and still
exit with 0, a success to Node; a git command has no timeout.

**Browser** (`host/tools/browser.ts`). `activeBrowser` is the handle, `browsers`
the processes that were launched, and each visit is at one of its awaits, any of
which may fail; `Crash` kills a process without telling the handle;
`closeBrowser` waits for the browser it saw and then clears the handle.
`overlapped` is history: whether a launch shared its time with another or with a
close.

**Registry** and **Plugins** (`tools/registry.ts`, `plugins/*`). `disk` is a list of
directories, replaced at any time by `Install`. `discoverAndLoad` validates each
manifest, loads its handlers and keeps it in `loaded`, a map by name in the order
of its keys; `injectIntoRegistry` registers the tools of the valid ones in that
order and reports; `HostRegisters` is the host's own `register` and
`bootstrapCoreTools`, before, between or after, which stops at a name that is taken. A
manifest is what is wrong with
it and its list of tools; a handler is where it comes from and what it comes to.

**Brain** (`host/brain.ts`, `host/adapters/ollama.ts`). Pure: `activeProvider` of
the keys in the environment, and what each adapter makes of a reply, which may
be any instruction, null, text, broken JSON or an error. `Ideas` is the set of
instructions that a brain may come up with.

**Host** (`host/index.ts`, `agents/swe.ts`, `researcher.ts`, `swarm.ts`, `tui.ts`,
`host/tools/*`). `program` is the program that runs: the place in its source, the
turn, the pending tool call, the results logged, its agents' states, files and
shared memory; `script` says which. Its steps end at an emit, whose handlers then
run (`Delivery`), or at an await. `CallTool` is `ToolGate.execute` up to the
promise of the handler: tools that return at once have their `Outcomes` (any may
fail, `swarm.memory.*` throws without a grant), bash and the browser are calls of
the two modules above and go on in them (`ToolsGoOn`). `SettleTool` and
`RefuseTool` are the gate resolving and rejecting; the latter is where the four
programs differ: `swe.ts` and `researcher.ts` go on, `swarm.ts` ends, and nobody
catches it for `index.ts`, which does not await the call (`AwaitsGate`). A call
that has its result already is settled by microtasks, so nothing that waits for a
timer or a reply runs before it (`Woken`). `Display` is the terminal, the first
listener to `*`; `Quit` is `process.exit`, by a key or at the end of `swarm.ts`,
possible wherever the event loop gets a turn (`Waiting`).
`config.work` chooses the program, or one of the parts `coordinator`,
`dashboard`, `commands`, `browser` and `plugins`: each behaviour is one of them in
a process of its own, since no program starts the parts it does not use.

Definitions commented *Mutant* are deliberate mistakes in the same signature as
the action they follow: substituted for it, they make TLC report the property
they are paired with in `PROJECT.json`. No action uses them.

## 3. Runs

| Run | Bounds | Shows |
|---|---|---|
| `log_file_torn` (violated) | 2 payloads, 4 entries, torn writes | an acknowledged entry is lost when its line is glued to a fragment |
| `lifecycle` | 2 agents, 1 foreign entry, 6 entries, torn writes | memory and file agree as far as writes go and a fragment costs one entry; paths, log first, file tells the state, refinement |
| `scheduler` | 2 agents, 2 loops, 1 handler and 1 missing tool, 2 values, 4 host calls | the safety and action properties of the core, and its refinement |
| `scheduler_termination` (violated) | 1 agent, 2 loops | a tick is logged for a terminated agent |
| `replay` | 1 agent, 2 loops, 1 replay of either kind, 2 values, 3 host calls, with fairness | the only run of an agent is reproduced; no replay ends as the log does not show; continuations and replays settle |
| `replay_runs` (violated) | as `replay`, 4 host calls | the second run of an agent is not reproduced |
| `failure` | 1 root, 3 children, 3 lists of grants, 3 depths (one negative), 2 lifetimes, 2 instants, 1 retry, 5 calls | the forest, authority, deep revocation, frozen subtrees, the retry budget, panics |
| `failure_wired` (violated) | same, the kernel's adapter | a breach does not terminate its agent |
| `memory` | 2 kernels, 2 callers, 4 entries, 5 to 7 steps by workload | rows and log; logged and permitted accesses; scratch memory |
| `host` | the coordinator's 4 configurations (up to 6 messages, 2 listeners per array, 4 voters); dashboard with 2 messages and 2 listeners, or 3 and 1, a buffer of 2, 1 page; 3 commands (container, native, git); 2 visits and 2 closers; 6 contents of the plugin directories, 4 tool names; `index.ts` with the mock or a language model, `swe.ts` with the mock for 4 turns or either adapter for 3, `researcher.ts`, `swarm.ts` | delivery, strategies and votes; pages; commands; browsers; plugins; every tool call of every program settled in order, nothing left at the end |
| `swarm_majority` (violated) | the coordinator's configurations | half of the voters are enough |
| `sandbox_timeout` (violated) | 2 calls, 1 of them contained, with fairness | a timer that fires too early kills nothing |

*Why the bounds are enough.* Two loops are the least that interleave, and the
properties relate at most two loops; all of an agent's shared state (map,
counters, log) is touched by both. Two agents are needed for results and
transitions of one to sit between those of the other. Making an agent ACTIVE
takes two host calls, so four leave two for each of: moving it away and back
while a loop waits, a quota set late and changed, a write; in `replay` three leave
one. Six log entries let
an agent go from DEFINED to TERMINATED (`spawn`, `activate`, `error`,
`abandon`) with two entries of others or failed ones in between; the
lines of the file and the entries in memory already differ after one failure, and
a fragment, the line glued to it and a good line after both take three entries.
Two quotas, one that stops the first continuation and one
that does not, cover both sides of the comparisons.
Five calls on the tree are a root, three delegations (a chain, or siblings, so
that a cut falls before, in and after a branch) and a revocation or breach; or a
cut, a second revocation below it and an attempt to delegate there. One retry
and five failures pass through two exhaustions. Seven steps in `memory` are two
interleaved writes of a row by two kernels with a crash, a restart and one more
commit; scratch memory needs five for init, write, checkpoint, destroy, restore.

In `host`, a complete MAP_REDUCE of two agents is five messages, the sixth is a
handler's or a callback's; two handlers per array are two levels of nesting and a
handler that comes late. Three events overflow a buffer of two, and two with a
server started twice do as well, as each is then heard twice. Two visits and two
closers are the least for a close that is overtaken by a launch and by another
close; more calls add no new kind of overlap, and the theorem of section 4 covers
them. The commands do not share anything, so one of each kind is enough. The
plugin directories hold a valid plugin after and before an incomplete one of its
name, one with a tool of another's namespace, one declaring a tool twice, an ill
manifest, none, and one that is no JSON. The loop of `swe.ts` has 14 turns in the
source and stops early only for a null reply; a turn depends on earlier ones by
the files and, for the mock, by their number, which is constant after the third.
`index.ts` has two turns, `researcher.ts` two and `swarm.ts` ten, all of which are
run. `GitCall` and the sandboxed bash occur in the part `commands`, because no
program is given them.

*Symmetry.* Agents, loops and values are interchangeable in `scheduler`, the
children nobody reports failures of in `failure`, kernels and callers in
`memory`; none of these runs has a liveness property. `replay`, `host` and
`sandbox_timeout` have no symmetry.

*Deadlock* is not checked where the environment is bounded or all loops may be
over (Scheduler, Replay), or the number of calls is (FailureHandler, Memory,
Swarm, Host, Sandbox), or programs end: the system then really has nothing to do.
FileLogger and LifecycleController are not excepted: they always can crash or
reboot.

*Fairness.* `Resume(l)`, `ResumeRejected(l)` and the replay's continuations are
weakly fair: they are microtasks, which Node runs before it does anything else.
Nothing else in the core is: hosts may stop calling, processes may die, and
handlers may hang. `ContinuationsRun` therefore says of a handler that settled
that its loop goes on, and `ReplaysSettle` needs no handler. In `SandboxSpec` the
steps of a call and of the daemon that are enabled (`GoesOn`), and the timer, are
weakly fair, because the event loop runs and timers fire; that a command ends, or
that anything fails, is not assumed. The other runs are about safety only.

## 4. Proofs

The eight `*Proofs` modules prove the following for arbitrary sets of agents,
loops, kernels, handlers, tools, calls, grants, values, depths, times and quotas.
They assume the named assumptions on constants only, which every run whose module
has them evaluates: that the bounds are numbers; that nothing and the other null
values are no values; and, of what hosts pass in, no more than its shape (a list of
agents or of plugin directories is a sequence, a trigger is one of the table's, the
events that the programs emit are event kinds).

*LifecycleController.* `IInv` is `TypeOK`, `HistoryIsPath`, `LogFirst` and
`DownHoldsNothing` (a dead process has empty memory). The last is what makes the
invariant inductive: `Load` overwrites `logs`, which would break `LogFirst` if
a history had survived the crash. One lemma per action; `TransitionNotLogged` is
the interesting one, for both ways in which the append throws. `TerminatedIsSink`
follows because no row of the table starts in TERMINATED; no run lists it, as the
refinement of `AgentLifecycle` is stronger. For the file, `FileInv` adds that the
numbers a process will give are above those in its file, which is what keeps the
lines in order (`DiskIsOrdered`), and that one restored from a file never writes.
`OneLossPerFragment` and `FileTellsState` are proved of the lines with a newline
(`LossInv`, `DiskTells`), since what waits for its newline never gets it. `Refinement` maps a
step that appended and updated to a row of the table and all else to a stutter, and
a reboot to a restart.

*Scheduler.* `LogTellsLifecycle` and `ResultBeforeReturn` are not inductive:
what a suspended loop will return must already be tied to the log. `IInv` adds
for each loop (`LoopOK`) that one that waits has a logged tick asking for its
tool, one that is resumed has its result logged after that tick, and one that
completed belongs to a TERMINATED agent. A step appends at most three entries,
so the proofs go through one lemma for a single sound append (`Good` is kept)
and chain it: tick, then `complete`, then `teardown_ok`. `CompletedOnce` follows
since completion starts in a state that is not TERMINATED and TERMINATED is a
sink. `SchedulerImplementsLifecycle` maps every round to `Move`, `Finish` or a
stutter. The quotas count log entries, and the invariant `Paid` ties that count to
the counters: no more ticks are in the log, and no more handlers were called, than
`usage` says. It is an inequality, since `consumeTick` counts before it compares,
and since a loop that is stopped has been counted without a tick. A tick that is
new was thus compared with the limit then in force (`TicksPaid`, `CallsPaid`).

*Replay.* A replay reads the log only at the first tick and the first result with
its number, so the invariant ties those to the runs. `LiveInv` is about the live side:
every tick and every result in the log is of some loop that ran, with the output
and the value of that loop (`Owned`); a tick that found its agent ACTIVE and asks
for no tool is followed at once by the moves it ends in (`TicksEnd`), since nothing
is awaited between them; an agent no write is logged of has no memory, and no tick
has hashed any (`Remembers`); and a run that ended is in the log as a whole
(`RunOK`). `ReplayOK` then says of a replay that ended that it stands on a tick of its
log: the replay compares hashes with ACTIVE, so the tick it stands on found its
agent ACTIVE as well, which is what `TicksEnd` needs. Of a replay of the only run it
says that it has done so far what the run did (`Repeats`): the first tick with a
number can only be that of the run. That nobody else ran, or wrote, is about
the present, and `SoleStays` that it was so before. A log that is read back from a file
is a prefix, of which the same entries are the first (`FirstStays`).
`ReplayAssumption` says that `null`, which `started` has for a loop that did not run,
is no instruction.

*Delegation.* `AuthorityShrinks` is not what `delegate` checks: the code compares
lists of grants once, when a child is made, against those that have not expired;
the theorem says that whatever `PermissionModel.evaluate` makes of the two lists
at any time is in order. It is kept because `Covers` is enough for `Allows`, the
hard case being expiry. `TreeIsForest` needs `ListedAreChildren`: only ids that
`delegate` hands out are ever listed, so a root that is initialised again is
nobody's child. `RevocationIsDeep` is not inductive, because a root that is
initialised again takes its unlogged revocation with it. The invariant has
`ShallowShows` instead: a revoked node with a child that is not revoked comes
with an unlogged revocation, of itself or of a node that `initRoot` cannot reset;
and `LoggedAreRevoked`. `RevokedSubtreesAreFrozen` takes the set of revoked
nodes, which depth makes closed under `Lists`, as a witness against `Subtree`.

*FailureHandler.* `HandlerKeepsProtocol`: every step maps to a step of
`DelegationSpec` or leaves the tree alone, so all theorems of the tree hold below
the handler. `HaltIsBreach` reduces what the invariant checker throws
(`AssertNames`: an error names the agent and tick it was asked about) to the
breach of that agent. `PanicsFreeze` then needs that the cascade from a node marks
its whole subtree unless an earlier revocation in it was not deep, which is where
`RevocationIsDeep` comes in. `RetryBudget` compares numbers of entries, transient
failures and scheduled retries, between two exhaustions; `Tally` says how many of
either kind are in the log since the last one: the retry record bounds the retries
from above and the failures from below.

*Memory.* Everything but the scratch memory rests on the log: a row has its own
place as its number and never changes, so a step puts at most one row behind it.
`MemoryIsLogged` then is a matter of the last row of a kernel that is about a cell
(`Tells`). `AccessesAreAllowed` needs what a kernel that is between decision and
access still knows: its last entry is that decision, whoever logged since
(`AccessBacked`). Beneath it is `AllowIsUnanimous`: whatever the order of policies
and whichever of them throws, a request is allowed exactly by a live grant and
the consent of all. `RowsAreLogged` and `LogTellsRows` need that a kernel that is about
to change a row has the entry that announces it, no two the same; for a call that
ran alone (`alone`), that nobody else is about to change that row
(`NoOtherChange`) is what survives the steps of the others.

*Host.* One invariant per part; a step of one process leaves the others alone.
Of the deliveries (`DInv`): a message is sent on top of the one whose handler sends
it, so the messages on the stack grow upwards; a delivery takes the nearest place
that is ahead (`Ahead`), so all places it has passed have heard, and only the topmost
can be heard next. Of votes: that `(n + 1) \div 2` of `n` is half or more. Of `execute`
(`SwarmInv`): what `run` says of its subtasks and stages was sent, and what hosts send
meanwhile does not come between (`SentStays`, `SuccessorFollows`). Of the dashboard
(`BoardInv`): rows and wire of a page that is connected end in the latest events
(`EndsIn`), which the page's own limit keeps because it is the server's. Of the
plugins (`PluginInv`): what is loaded of a name is what the last directory of that
name gave (`Kept`), through the fold of `this.loaded.set` over the directories. That
fold is the one place where a proof needs induction over data; it goes by a
smallest step that does not keep the invariant, from the well-foundedness of `<`.

*Sandbox.* Every step changes one call, so the invariant is one of its record
(`CommandSound`), and `SetKeepsCalls` lifts it. It rests on three facts: only a timer
that fired kills or strikes; what is being read has ended unstruck; and only a call
that fails at its creation settles without a removal. A kill that is still on its
way when the output is read thus finds nothing to strike, and the `finally` of the
call has disarmed the timer before the call is settled.

*Browser.* `OrphansComeFromOverlap` is not inductive: the handle may be
overwritten or cleared. `LaunchesAlone` says that a launch that overlapped
nothing so far sees no handle, no other launch and no close, so its assignment
loses nothing; `LateHandles` says that a handle that appeared while a launch was
under way, or that is not the one a close waits for, came from a launch that
overlapped, so overwriting or clearing it leaves an overlapped browser behind.

*Programs.* `CallsSettleInOrder` speaks of the screen, the log and the place of a
program, which are changed by different steps. `FlowInv` ties them: the screen shows
messages in the order they were sent and once each (`ShownOK`, from the invariant of
the deliveries), and a program waits for one answer at most, and only at places that
await it (`FlowOK`). Of the messages thus only the latest may be a request that is not
settled, and what a settled call sends next comes after its result is logged.
`index.ts` does not await its call; there it is the microtasks that come before
anything else (`Woken`). `NothingOutlivesProgram` needs, per program, what the turn
it is in lets it have called (`ToolsOK`: the commands and visits of later turns are
idle, those of the pending call are the only ones under way, all rest when none is
pending) and the states of its agents at each place (`StatesOK`). As its launches
do not overlap, the browser invariant of `ToolProofs` leaves no browser up once
`closeBrowser` has returned.

*Model-checked only.* Liveness (temporal reasoning under fairness is not in the
prover's reach): `ContinuationsRun`, `ReplaysSettle`, and the violated runs. Every invariant
and every action property that a passing run checks is a theorem as well. The
theorems about the tree of tokens are in `FailureHandlerProofs`.

## 5. What the code does not do

Each of the first six is a run that TLC refutes, with the line that says otherwise.

* **Lost acknowledged entries** (`host/logger.ts:32`). After an append that
  failed with part of its line written, the next append succeeds and glues its
  line to the fragment; the file can no longer be loaded.
* **Ticks after termination** (`scheduler.ts:53` against INV-09). The state is
  looked at on entry only.
* **Replays that diverge** (`scheduler.ts:87` against INV-15): the second run of an
  agent is compared with the ticks of the first.
* **Breaches that do not terminate** (`kernel/index.ts:59` against SM-INV-06). The
  adapter passes a state as a trigger.
* **Majorities of half** (`swarm/protocol.ts:87` against its comment).
* **Runaways that are not killed** (`host/sandbox/docker.ts:37` against
  `tests/docker.test.ts:21`). A timer that fires while the container is being
  created has nothing to kill, and nothing sets another.

Others are visible in the models as the condition of a property that holds:

* `SoleRunReplays` excludes agents with memory: a replaying kernel starts from an
  empty store, so their hashes diverge; and unfinished runs, which `simulation.ts`
  replays too early.
* `LogTellsRows` is INV-22 (a snapshot is what the log tells) for calls that
  returned and did not race: after a crash, a statement that threw, or two
  kernels that overlap, log and row differ and nothing reconciles them.
* `RevocationIsDeep` has the premise that every revoked token is logged: a
  cascade that an append cuts cannot be resumed.
* `SubtasksAreWorked` needs as many agents as subtasks, all different: further
  subtasks are never worked on, and results of an agent listed twice replace
  each other. `PipelineChains` knows the addressee for different agents only.
* `OrphansComeFromOverlap` allows orphans of launches that overlap. The handle of
  a browser that crashed is never replaced (every later visit fails), and a
  navigation that fails leaves its page open.
* `SettledCallsAreClean` allows a container whose removal failed, and one that the
  daemon made although the call was told of an error: `container` is still null at
  `docker.ts:90`, and nobody ever removes it. Of native commands it says nothing but
  that no timer is left: one that catches the SIGTERM of its timeout and exits with 0
  has what it printed so far given as a SUCCESS (`bash.ts:26`), and one that ignores
  it runs on, although the manifest says "strict timeouts" (`bash.ts:13`). Git
  commands have no timeout, and so may never settle.
* `PageShowsLatest` compares the end of what a page shows: a page that comes back
  gets the buffer again below the rows it kept, and a server that was stopped
  and started hears, buffers and sends every event twice.
* `RegistryIsTrusted` says nothing of permissions: `plugins/types.ts:19` and `:36`
  promise that tools outside the declared ones are rejected, and no code looks at
  them after validation.
* `CallsSettleInOrder` holds of `index.ts` because its two handlers are done at
  once; a handler with an await of its own would settle after the agent is
  terminated. A quit in the middle of a call leaves a request that was shown
  without a result.
* `NothingOutlivesProgram` excepts the agent of `swe.ts`, which stays ACTIVE; its
  loop, "cleanly terminating on RETURN" (`swe.ts:60`), ends on a null
  reply or after 14 turns only. `swarm.ts:139` has a terminated worker call a tool: the gate does
  not look at the lifecycle, and only the missing grant stops it.
* `boot.ts:78` and `simulation.ts:92` print that a replay matched without
  awaiting it.
* Nothing says that two loops exclude each other (INV-21), that concurrent
  writers of a shared key notice each other (INV-19), that reads of missing keys
  are logged (INV-03), or that scratch memory is destroyed at the end of its tick
  (INV-05: no module calls `destroy`). The `busSeq` of a lifecycle record is the
  controller's own count.

## 6. Not modelled, and the plan

Components left out: the documentation site (`docs/`), which is no part of the
kernel; `TelemetryProvider`, whose counters and spans are written and never read;
`AgentRegistry`, a write-once map that nothing reads; the weather plugin, a table
without state; and the Devin agent, which calls `registerTool`, a method that
`ToolRegistry` does not have.

Left out of the modelled parts: timestamps, error texts, prompts, the transport of
the model adapters, the wording and layout of terminal and page, the http answers
of the dashboard, and the read-only queries. Prototype-pollution or JSON round
trips of values are data, and values are opaque; the contents of files are, too.
`initialize` of `DockerSandbox` only has the daemon pull an image; the children of
the shell that `exec` starts are not followed beyond it.

In the stores, a value that is not serializable is refused before anything
happens, or, in `SharedStore`, as if the append had failed; slashes in namespaces
and keys are modelled by cells that share a resource. In the swarm, a handler or
callback that calls `execute` again is not followed. The tools of the programs
run over files and pages that no one else changes.

The next extension is an abstract specification of a store with a write-ahead log
that the SQLite pair implements up to crashes.
