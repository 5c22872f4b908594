---------------------------- MODULE ProgramProofs ----------------------------
(***************************************************************************)
(* What holds of the programs of a host, for any tools, results, brains and*)
(* numbers of calls and visits.                                            *)
(*                                                                         *)
(* FlowInv: a program waits for one answer at most, and only in places that*)
(* await it; so of the messages only the latest may be a request that is   *)
(* not settled.  EndInv: what its turn lets it have called, whether its    *)
(* tools rest when it waits for none, and the states of its agents.        *)
(***************************************************************************)
EXTENDS HostProofs

-----------------------------------------------------------------------------
(* Programs: where each is, what it waits for, what it has asked.          *)

Programs == {"index", "swe", "researcher", "swarm"}

Fields == {"at", "turn", "output", "pending", "log", "refused", "states", "files", "history", "shared"}
IsProgram(p) == DOMAIN p = Fields /\ IsSequence(p.log)

CrewOf(w) ==
  CASE w = "index" -> {"ai-explorer-1"}
    [] w = "swe" -> {"swe-agent-1"}
    [] w = "researcher" -> {"researcher-alpha"}
    [] w = "swarm" -> {"manager-1", "worker-1", "worker-2"}

AgentAt(w, turn) == IF w = "swarm" THEN SwarmTurns[turn][1] ELSE CHOOSE a \in CrewOf(w) : TRUE

\* What the turn of a script without a brain has decided.
OutputAt(w, turn) ==
  IF w = "swarm" THEN runTick(SwarmInstruction(SwarmTurns[turn][1], SwarmTurns[turn][2]))
  ELSE runTick(ToolCall(ResearcherTools[turn], noPath))

AskedBy(p) == p.pending.how # "none"

PlacesOf(w) ==
  {"off", "spawning", "turning", "ticked", "calling", "ending", "done", "quit"} \cup
  CASE w = "index" -> {"announcing", "thinking", "reporting", "dead"}
    [] w = "swe" -> {"thinking", "awaiting", "after", "pausing"}
    [] w = "researcher" -> {"awaiting", "after", "pausing", "closing", "failed"}
    [] w = "swarm" -> {"awaiting", "after", "pausing", "probing", "failed"}

InTurn == {"ticked", "calling", "awaiting", "after"}

CounterOK(w, p) ==
  /\ p.at \in PlacesOf(w) /\ p.turn \in Nat /\ p.turn >= 1
  /\ p.at \in {"off", "announcing", "spawning"} => p.turn = 1
  /\ w = "index" => /\ p.at \in {"thinking", "reporting", "ticked"} => p.turn <= 2
                    /\ p.at = "calling" => p.turn = 1
  /\ w = "researcher" => /\ p.at \in InTurn \cup {"pausing"} => p.turn <= 2
                         /\ p.at \in {"ticked", "calling"} => p.output = OutputAt(w, p.turn)
  /\ w = "swarm" => /\ p.at \in InTurn \cup {"pausing"} => p.turn <= 10
                    /\ p.at = "turning" => p.turn <= 11
                    /\ p.at \in {"ending", "probing", "done"} => p.turn = 11
                    /\ p.at \in InTurn => p.output = OutputAt(w, p.turn)

\* The message of a request names who asks for what.
Names(ms, m, agent, tool) == ms[m].body.agent = agent /\ ms[m].body.tool = tool

CallingOK(w, p, ms) ==
  p.at = "calling" =>
    Len(ms) >= 1 /\ Names(ms, Len(ms), AgentAt(w, p.turn), p.output.arg.tool)

\* Where a call is pending; only index.ts does not wait for it.
PendingWhere(w, p) ==
  \/ p.at = "quit"
  \/ /\ p.pending.how \in {"at once", "refused"}
     /\ IF w = "index" THEN p.at \in {"turning", "thinking"} /\ p.turn = 2
                       ELSE p.at \in {"awaiting", "probing"}
  \/ p.pending.how = "bash" /\ w = "researcher" /\ p.at = "awaiting" /\ p.turn = 1
  \/ p.pending.how = "browser" /\ w = "researcher" /\ p.at = "awaiting" /\ p.turn = 2

PendingOK(w, p, ms) ==
  \/ p.pending = Nothing
  \/ /\ AskedBy(p)
     /\ DOMAIN p.pending = {"how", "agent", "tick", "tool", "result", "msg"}
     /\ \/ p.pending.msg = 0
        \/ /\ p.pending.msg = Len(ms) /\ Len(ms) >= 1
           /\ Names(ms, Len(ms), p.pending.agent, p.pending.tool)
     /\ PendingWhere(w, p)

SettledIn(p, ms, m) ==
  \/ m \in p.refused
  \/ \E l \in DOMAIN p.log : /\ p.log[l].msg = m
                             /\ p.log[l].tool = ms[m].body.tool
                             /\ p.log[l].agent = ms[m].body.agent

\* Only the latest message may be a request that is not settled.
RequestsOK(p, ms) ==
  \A m \in 1..Len(ms) :
    ms[m].topic = "TOOL_CALL_REQUESTED" =>
      \/ SettledIn(p, ms, m)
      \/ m = Len(ms) /\ (p.at = "calling" \/ (AskedBy(p) /\ p.pending.msg = m))

-----------------------------------------------------------------------------
\* What the scripts say.
LEMMA Scripts ==
  ASSUME script \in Programs
  PROVE  /\ Crew = CrewOf(script) /\ AgentNow = AgentAt(script, program.turn)
         /\ script \in {"researcher", "swarm"} => runTick(Scripted) = OutputAt(script, program.turn)
         /\ script = "swarm" => LastTurn = 10
         /\ script \in {"index", "researcher"} => LastTurn = 2
         /\ "host.system.bash" \in GateTools => script = "researcher"
         /\ "host.web.browser" \in GateTools => script = "researcher"
         /\ Thinks <=> script \in {"index", "swe"}
         /\ AwaitsGate <=> script # "index"
<1>1. Crew = CrewOf(script)
  BY DEF Programs, Crew, CrewOf
<1>2. AgentNow = AgentAt(script, program.turn)
  BY <1>1 DEF AgentNow, AgentAt
<1>3. script \in {"researcher", "swarm"} => runTick(Scripted) = OutputAt(script, program.turn)
  BY <1>2 DEF Scripted, OutputAt, AgentAt, TickNow
<1>4. script = "swarm" => LastTurn = 10
  BY DEF LastTurn, SwarmTurns
<1>5. script \in {"index", "researcher"} => LastTurn = 2
  BY DEF LastTurn
<1>6. ToSet(ResearcherTools) = {"host.system.bash", "host.web.browser"}
  BY DEF ToSet, ResearcherTools
<1>7. /\ "host.system.bash" \in GateTools => script = "researcher"
      /\ "host.web.browser" \in GateTools => script = "researcher"
  BY <1>6 DEF GateTools, Programs
<1>8. QED
  BY <1>1, <1>2, <1>3, <1>4, <1>5, <1>7 DEF Thinks, AwaitsGate

\* The tools that return at once.
LEMMA AtOnce ==
  ASSUME script \in Programs, NEW agent, NEW tool, NEW arg,
         tool \notin GateTools \cap ToSet(ResearcherTools), NEW o \in Outcomes(agent, tool, arg)
  PROVE  o.how \in {"at once", "refused"}
<1>1. /\ \A result : Done(result).how = "at once" /\ DOMAIN Done(result) = {"how", "result", "files", "shared"}
      /\ Refused.how = "refused"
  BY DEF Done, Refused
<1>2. CASE tool \notin GateTools
  BY <1>1, <1>2 DEF Outcomes
<1>3. CASE tool \in GateTools
  <2>1. tool \in {"host.fs.read_file", "host.fs.write_file", "host.fs.list_dir", "host.net.fetch",
                  "swarm.memory.read", "swarm.memory.write"}
    BY <1>3 DEF GateTools, Programs
  <2>2. ASSUME NEW path, NEW r \in readFile(path) PROVE r.how = "at once"
    BY <1>1, <2>2 DEF readFile
  <2>3. ASSUME NEW path, NEW r \in writeFile(path) PROVE r.how = "at once"
    <3>1. r = Done("ERROR") \/ r = [Done("SUCCESS") EXCEPT !.files = @ \cup {path}]
      BY <2>3 DEF writeFile
    <3>2. QED
      BY <1>1, <3>1
  <2>4. ASSUME NEW path, NEW r \in listDir(path) \cup fetch(path) PROVE r.how = "at once"
    BY <1>1, <2>4 DEF listDir, fetch
  <2>5. ASSUME NEW action, NEW key, NEW r \in memory(agent, action, key)
        PROVE  r.how \in {"at once", "refused"}
    <3>1. \/ r = Refused \/ \E result : r = Done(result)
          \/ r = [Done("SUCCESS") EXCEPT !.shared[key] = agent]
      BY <2>5 DEF memory
    <3>2. QED
      BY <1>1, <3>1
  <2>6. QED
    BY <1>3, <2>1, <2>2, <2>3, <2>4, <2>5 DEF Outcomes
<1>4. QED
  BY <1>2, <1>3

-----------------------------------------------------------------------------
\* What the terminal shows: the only handler, it hears each message as it is sent.
ShownOK ==
  /\ \A a \in Arrays \ {"*"} : listeners[a] = 0
  /\ listeners["*"] = IF program.at = "off" THEN 0 ELSE 1
  /\ \/ calls = << >>
     \/ /\ Len(calls) = 1 /\ calls[1].topic \in EventKinds
        /\ calls[1].array = 2 /\ calls[1].place = 1
  /\ screen \in Seq(Nat)
  /\ \A i \in 1..Len(screen) :
       screen[i] \in 1..Len(messages) /\ (i < Len(screen) => screen[i] < Len(messages))

LEMMA StillShown ==
  ASSUME ShownOK, UNCHANGED deliveryVars, Display, program'.at = "off" <=> program.at = "off",
         IsSequence(heard)
  PROVE  ShownOK' /\ UNCHANGED screen
<1>1. ~(Len(heard) > Len(heard))
  <2>1. Len(heard) \in Nat
    BY DEF IsSequence
  <2>2. QED
    BY <2>1
<1>2. UNCHANGED <<listeners, messages, calls, heard, screen>>
  BY <1>1 DEF deliveryVars, Display
<1>3. QED
  BY <1>2 DEF ShownOK

LEMMA EventsAreHeard ==
  ASSUME DInv
  PROVE  /\ IsSequence(heard) /\ IsSequence(messages)
         /\ Len(heard) \in Nat /\ Len(messages) \in Nat
         /\ listeners \in [Arrays -> 0..MaxListeners]
         /\ "*" \in Arrays /\ EventKinds \subseteq Arrays /\ "*" \notin EventKinds
         /\ MaxListeners \in Nat
<1>1. IsSequence(heard) /\ IsSequence(messages) /\ listeners \in [Arrays -> 0..MaxListeners]
  BY DEF DInv, Sound, LogOK, HeardOK, IsSequence
<1>2. Len(heard) \in Nat /\ Len(messages) \in Nat
  BY <1>1 DEF IsSequence
<1>3. QED
  BY <1>1, <1>2, DeliveryAssumption DEF Arrays

LEMMA TerminalBoots ==
  ASSUME DInv, ShownOK, program.at = "off", program'.at # "off", Subscribe("*"), Display
  PROVE  ShownOK' /\ UNCHANGED <<screen, messages>> /\ (calls = << >> => calls' = << >>)
<1>1. UNCHANGED <<messages, calls, heard>> /\ listeners' = [listeners EXCEPT !["*"] = @ + 1]
  BY DEF Subscribe
<1>2. UNCHANGED screen
  BY <1>1, EventsAreHeard DEF Display
<1>3. \A a \in Arrays : listeners'[a] = IF a = "*" THEN listeners[a] + 1 ELSE listeners[a]
  BY <1>1, EventsAreHeard
<1>4. listeners'["*"] = 1 /\ \A a \in Arrays \ {"*"} : listeners'[a] = 0
  BY <1>3, EventsAreHeard DEF ShownOK
<1>5. QED
  BY <1>1, <1>2, <1>4 DEF ShownOK

\* An emit has the terminal show it, at once.
LEMMA EmitIsShown ==
  ASSUME DInv, ShownOK, program.at # "off", program'.at # "off", calls = << >>,
         NEW kind \in EventKinds, NEW body, Send(kind, body), Display
  PROVE  /\ ShownOK'
         /\ \E m : messages' = Append(messages, m) /\ m.topic = kind /\ m.body = body
<1> DEFINE d == Begun(kind)
           m == [topic |-> kind, body |-> body, known |-> listeners, after |-> Len(heard)]
           h == <<2, 1>>
<1>1. /\ messages' = Append(messages, m) /\ UNCHANGED listeners /\ Proceed(<< >>, d)
  BY DEF Send, Log
<1>2. d.topic = kind /\ d.array = 1 /\ d.place = 0 /\ d.msg = Len(messages) + 1
  BY DEF Begun
<1>3. Walked(kind) = <<kind, "*">>
  BY DEF Walked
<1>4. Ahead(d) = {h}
  <2>1. listeners[kind] = 0 /\ listeners["*"] = 1 /\ 1 \in 1..MaxListeners
    <3>1. kind \in Arrays \ {"*"} /\ listeners["*"] \in 0..MaxListeners
      BY EventsAreHeard
    <3>2. listeners[kind] = 0 /\ listeners["*"] = 1
      BY <3>1 DEF ShownOK
    <3>3. QED
      BY <3>1, <3>2, EventsAreHeard
  <2> HIDE DEF d
  <2>2. Ahead(d) = {g \in {1, 2} \X (1..MaxListeners) :
                      /\ g[2] <= listeners[<<kind, "*">>[g[1]]]
                      /\ g[1] > 1 \/ (g[1] = 1 /\ g[2] > 0)}
    BY <1>2, <1>3 DEF Ahead
  <2>3. h \in {1, 2} \X (1..MaxListeners) /\ h \in Ahead(d)
    BY <2>1, <2>2
  <2>4. ASSUME NEW g \in Ahead(d) PROVE g = h
    <3>1. g \in {1, 2} \X (1..MaxListeners) /\ g[2] <= listeners[<<kind, "*">>[g[1]]]
      BY <2>2
    <3>2. g[1] \in {1, 2} /\ g[2] \in 1..MaxListeners /\ g = <<g[1], g[2]>>
      BY <3>1
    <3>3. CASE g[1] = 1
      BY <2>1, <3>1, <3>2, <3>3
    <3>4. CASE g[1] = 2
      BY <2>1, <3>1, <3>2, <3>4, EventsAreHeard
    <3>5. QED
      BY <3>2, <3>3, <3>4
  <2>5. QED
    BY <2>3, <2>4
<1> HIDE DEF d, m
<1>5. /\ calls' = Append(<< >>, [d EXCEPT !.array = 2, !.place = 1])
      /\ heard' = Append(heard, [msg |-> d.msg, array |-> "*", place |-> 1])
  <2>1. PICK g \in Ahead(d) :
          /\ calls' = Append(<< >>, [d EXCEPT !.array = g[1], !.place = g[2]])
          /\ heard' = Append(heard, [msg |-> d.msg, array |-> Walked(d.topic)[g[1]], place |-> g[2]])
    <3>1. Ahead(d) # {}
      BY <1>4
    <3>2. QED
      BY <1>1, <3>1 DEF Proceed
  <2>2. g[1] = 2 /\ g[2] = 1
    BY <1>4
  <2>3. Walked(d.topic)[2] = "*"
    BY <1>2, <1>3
  <2>4. QED
    BY <2>1, <2>2, <2>3
<1>6. screen' = Append(screen, Len(messages) + 1)
  <2> DEFINE e == [msg |-> d.msg, array |-> "*", place |-> 1]
  <2>1. e.array = "*" /\ e.msg = Len(messages) + 1
    BY <1>2
  <2> HIDE DEF e
  <2>2. Len(heard') = Len(heard) + 1 /\ heard'[Len(heard) + 1] = e
    BY <1>5, EventsAreHeard, AppendAnything DEF e
  <2>3. Len(heard') > Len(heard) /\ Last(heard') = e
    BY <2>2, EventsAreHeard DEF Last
  <2>4. QED
    BY <2>1, <2>3 DEF Display
<1>7. Len(calls') = 1 /\ calls'[1] = [d EXCEPT !.array = 2, !.place = 1]
  BY <1>5
<1>8. calls'[1].topic \in EventKinds /\ calls'[1].array = 2 /\ calls'[1].place = 1
  BY <1>2, <1>7 DEF Begun, d
<1>9. Len(messages') = Len(messages) + 1
  BY <1>1, EventsAreHeard, AppendAnything
<1>10. /\ screen' \in Seq(Nat)
       /\ \A i \in 1..Len(screen') :
            screen'[i] \in 1..Len(messages') /\ (i < Len(screen') => screen'[i] < Len(messages'))
  <2>1. screen \in Seq(Nat) /\ Len(messages) + 1 \in Nat /\ Len(messages) \in Nat
    BY EventsAreHeard DEF ShownOK
  <2>2. /\ screen' \in Seq(Nat) /\ Len(screen') = Len(screen) + 1 /\ Len(screen) \in Nat
        /\ screen'[Len(screen) + 1] = Len(messages) + 1
        /\ \A i \in 1..Len(screen) : screen'[i] = screen[i]
    BY <1>6, <2>1, AppendGrows
  <2>3. \A i \in 1..Len(screen) : screen[i] \in 1..Len(messages)
    BY DEF ShownOK
  <2>4. ASSUME NEW i \in 1..Len(screen')
        PROVE  screen'[i] \in 1..Len(messages') /\ (i < Len(screen') => screen'[i] < Len(messages'))
    <3>1. CASE i = Len(screen) + 1
      BY <1>9, <2>1, <2>2, <3>1
    <3>2. CASE i \in 1..Len(screen)
      <4>1. screen'[i] = screen[i] /\ screen[i] \in 1..Len(messages)
        BY <2>2, <2>3, <3>2
      <4>2. QED
        BY <1>9, <2>1, <4>1
    <3>3. QED
      BY <2>2, <3>1, <3>2
  <2>5. QED
    BY <2>2, <2>4
<1>11. m.topic = kind /\ m.body = body
  BY DEF m
<1>12. QED
  BY <1>1, <1>7, <1>8, <1>10, <1>11 DEF ShownOK

\* The terminal returns; nobody else listens.
LEMMA TerminalLeaves ==
  ASSUME DInv, ShownOK, HandlerReturns, Display, UNCHANGED program
  PROVE  ShownOK' /\ UNCHANGED <<screen, messages>>
<1> DEFINE d == calls[1]
<1>1. /\ Len(calls) = 1 /\ calls # << >> /\ IsSequence(calls)
      /\ d.topic \in EventKinds /\ d.array = 2 /\ d.place = 1
  BY DEF HandlerReturns, ShownOK, DInv, Sound, StackOK, IsSequence
<1>2. Front(calls) = << >> /\ Last(calls) = d
  BY <1>1 DEF Front, Last, IsSequence
<1>3. Walked(d.topic) = <<d.topic, "*">> /\ listeners["*"] \in {0, 1}
  BY <1>1 DEF Walked, ShownOK
<1> HIDE DEF d
<1>4. Ahead(d) = {}
  <2> SUFFICES ASSUME NEW g \in Ahead(d) PROVE FALSE
    OBVIOUS
  <2>1. /\ g \in {1, 2} \X (1..MaxListeners)
        /\ g[2] <= listeners[<<d.topic, "*">>[g[1]]]
        /\ g[1] > 2 \/ (g[1] = 2 /\ g[2] > 1)
    BY <1>1, <1>3 DEF Ahead
  <2>2. g[1] \in {1, 2} /\ g[2] \in 1..MaxListeners
    BY <2>1
  <2>3. g[1] = 2 /\ g[2] > 1 /\ g[2] <= listeners["*"]
    BY <2>1, <2>2
  <2>4. QED
    BY <1>3, <2>2, <2>3, EventsAreHeard
<1>5. calls' = << >> /\ UNCHANGED <<heard, listeners, messages>>
  BY <1>2, <1>4 DEF HandlerReturns, Proceed
<1>6. UNCHANGED screen
  BY <1>5, EventsAreHeard DEF Display
<1>7. QED
  BY <1>5, <1>6 DEF ShownOK

-----------------------------------------------------------------------------
\* The flow of a program: its place, what it asked for, what is settled.
FlowOK(w, p, ms) ==
  /\ IsProgram(p) /\ CounterOK(w, p) /\ CallingOK(w, p, ms)
  /\ PendingOK(w, p, ms) /\ RequestsOK(p, ms)

\* A step that neither asks for a tool nor gets an answer.
LEMMA MovesOn ==
  ASSUME NEW w \in Programs, NEW p, NEW q, NEW ms, FlowOK(w, p, ms),
         DOMAIN q = Fields, q.log = p.log, q.refused = p.refused, q.pending = p.pending,
         p.at # "calling", q.at # "calling", CounterOK(w, q),
         q.pending = Nothing \/ PendingWhere(w, q)
  PROVE  FlowOK(w, q, ms)
<1>1. IsProgram(q)
  BY DEF FlowOK, IsProgram
<1>2. CallingOK(w, q, ms)
  BY DEF CallingOK
<1>3. PendingOK(w, q, ms)
  BY DEF FlowOK, PendingOK, AskedBy
<1>4. \A m : SettledIn(p, ms, m) => SettledIn(q, ms, m)
  BY DEF SettledIn
<1>5. RequestsOK(q, ms)
  BY <1>4 DEF FlowOK, RequestsOK, AskedBy
<1>6. QED
  BY <1>1, <1>2, <1>3, <1>5 DEF FlowOK

\* Nothing is pending elsewhere.
LEMMA NothingElsewhere ==
  ASSUME NEW w \in Programs, NEW p, NEW ms, FlowOK(w, p, ms),
         p.at \notin {"turning", "thinking", "awaiting", "probing", "quit"}
  PROVE  p.pending = Nothing
BY DEF FlowOK, PendingOK, PendingWhere

\* Nor where what is resolved goes first.
LEMMA NothingWhenWoken ==
  ASSUME NEW w \in Programs, NEW p, NEW ms, FlowOK(w, p, ms), p.at = "thinking",
         p.pending.how \notin {"at once", "refused"}
  PROVE  p.pending = Nothing
BY DEF FlowOK, PendingOK, PendingWhere

\* An event, with nothing pending: a request, or something else.
LEMMA EmitFlows ==
  ASSUME NEW w \in Programs, NEW p, NEW q, NEW ms, NEW m, NEW ms2, FlowOK(w, p, ms), IsSequence(ms),
         ms2 = Append(ms, m), p.pending = Nothing, p.at # "calling",
         DOMAIN q = Fields, q.log = p.log, q.refused = p.refused, q.pending = p.pending,
         CounterOK(w, q),
         \/ m.topic # "TOOL_CALL_REQUESTED" /\ q.at # "calling"
         \/ q.at = "calling" /\ m.body.agent = AgentAt(w, q.turn) /\ m.body.tool = q.output.arg.tool
  PROVE  FlowOK(w, q, ms2)
<1>1. /\ Len(ms) \in Nat /\ Len(ms2) = Len(ms) + 1 /\ ms2[Len(ms) + 1] = m
      /\ \A i \in 1..Len(ms) : ms2[i] = ms[i]
  BY AppendAnything DEF IsSequence
<1>2. IsProgram(q) /\ q.pending = Nothing
  BY DEF FlowOK, IsProgram
<1>3. CallingOK(w, q, ms2)
  BY <1>1 DEF CallingOK, Names
<1>4. PendingOK(w, q, ms2)
  BY <1>2 DEF PendingOK
<1>5. ASSUME NEW i \in 1..Len(ms2), ms2[i].topic = "TOOL_CALL_REQUESTED"
      PROVE  SettledIn(q, ms2, i) \/ (i = Len(ms2) /\ q.at = "calling")
  <2>1. CASE i = Len(ms) + 1
    BY <1>1, <1>5, <2>1
  <2>2. CASE i \in 1..Len(ms)
    <3>1. ms2[i] = ms[i]
      BY <1>1, <2>2
    <3>2. ~AskedBy(p)
      BY DEF AskedBy, Nothing
    <3>3. SettledIn(p, ms, i)
      BY <1>5, <2>2, <3>1, <3>2 DEF FlowOK, RequestsOK
    <3>4. QED
      BY <3>1, <3>3 DEF SettledIn
  <2>3. QED
    BY <1>1, <2>1, <2>2
<1>6. QED
  BY <1>2, <1>3, <1>4, <1>5 DEF FlowOK, RequestsOK

\* The gate is asked for the tool of the latest message.
LEMMA AskingFlows ==
  ASSUME NEW w \in Programs, NEW p, NEW q, NEW ms, FlowOK(w, p, ms),
         DOMAIN q = Fields, q.log = p.log, q.refused = p.refused,
         DOMAIN q.pending = {"how", "agent", "tick", "tool", "result", "msg"},
         q.pending.how # "none", PendingWhere(w, q), q.at # "calling", CounterOK(w, q),
         \/ /\ p.at = "calling" /\ q.pending.msg = Len(ms)
            /\ q.pending.agent = AgentAt(w, p.turn) /\ q.pending.tool = p.output.arg.tool
         \/ p.at # "calling" /\ p.pending = Nothing /\ q.pending.msg = 0
  PROVE  FlowOK(w, q, ms)
<1>1. IsProgram(q)
  BY DEF FlowOK, IsProgram
<1>2. CallingOK(w, q, ms)
  BY DEF CallingOK
<1>3. PendingOK(w, q, ms)
  <2>1. CASE p.at = "calling"
    <3>1. Len(ms) >= 1 /\ Names(ms, Len(ms), q.pending.agent, q.pending.tool)
      BY <2>1 DEF FlowOK, CallingOK
    <3>2. QED
      BY <2>1, <3>1 DEF PendingOK, AskedBy
  <2>2. CASE p.at # "calling"
    BY <2>2 DEF PendingOK, AskedBy
  <2>3. QED
    BY <2>1, <2>2
<1>4. \A m : SettledIn(p, ms, m) => SettledIn(q, ms, m)
  BY DEF SettledIn
<1>5. RequestsOK(q, ms)
  <2> SUFFICES ASSUME NEW m \in 1..Len(ms), ms[m].topic = "TOOL_CALL_REQUESTED"
               PROVE  SettledIn(q, ms, m) \/ (m = Len(ms) /\ q.pending.msg = m)
    BY DEF RequestsOK, AskedBy
  <2>1. SettledIn(p, ms, m) \/ (m = Len(ms) /\ (p.at = "calling" \/ AskedBy(p)))
    BY DEF FlowOK, RequestsOK
  <2>2. CASE p.at = "calling"
    BY <1>4, <2>1, <2>2
  <2>3. CASE p.at # "calling"
    BY <1>4, <2>1, <2>3 DEF AskedBy, Nothing
  <2>4. QED
    BY <2>2, <2>3
<1>6. QED
  BY <1>1, <1>2, <1>3, <1>5 DEF FlowOK

\* An answer: the result is logged, or the request is refused.
LEMMA AnswerFlows ==
  ASSUME NEW w \in Programs, NEW p, NEW q, NEW ms, NEW r, FlowOK(w, p, ms), AskedBy(p),
         p.at # "quit", DOMAIN q = Fields, q.pending = Nothing, q.at # "calling", CounterOK(w, q),
         \/ q.log = Append(p.log, [p.pending EXCEPT !.result = r]) /\ q.refused = p.refused
         \/ q.log = p.log /\ q.refused = p.refused \cup {p.pending.msg}
  PROVE  FlowOK(w, q, ms)
<1>1. IsSequence(p.log)
  BY DEF FlowOK, IsProgram
<1>2. p.pending # Nothing
  BY DEF AskedBy, Nothing
<1>3. /\ DOMAIN p.pending = {"how", "agent", "tick", "tool", "result", "msg"}
      /\ \/ p.pending.msg = 0
         \/ p.pending.msg = Len(ms) /\ Names(ms, Len(ms), p.pending.agent, p.pending.tool)
      /\ p.at # "calling"
  BY <1>2 DEF FlowOK, PendingOK, PendingWhere
<1> DEFINE e == [p.pending EXCEPT !.result = r]
<1>4. e.msg = p.pending.msg /\ e.agent = p.pending.agent /\ e.tool = p.pending.tool
  BY <1>3
<1> HIDE DEF e
<1>5. CASE q.log = Append(p.log, e) /\ q.refused = p.refused
  <2>1. /\ IsSequence(q.log) /\ Len(p.log) + 1 \in DOMAIN q.log /\ q.log[Len(p.log) + 1] = e
        /\ \A l \in DOMAIN p.log : l \in DOMAIN q.log /\ q.log[l] = p.log[l]
    <3>1. /\ Len(p.log) \in Nat /\ DOMAIN p.log = 1..Len(p.log)
          /\ Len(q.log) = Len(p.log) + 1 /\ IsSequence(q.log)
          /\ q.log[Len(p.log) + 1] = e
          /\ \A i \in 1..Len(p.log) : q.log[i] = p.log[i]
      <4>1. /\ IsSequence(Append(p.log, e))
            /\ Len(p.log) \in Nat /\ DOMAIN p.log = 1..Len(p.log)
            /\ Len(Append(p.log, e)) = Len(p.log) + 1
            /\ Append(p.log, e)[Len(p.log) + 1] = e
            /\ \A i \in 1..Len(p.log) : Append(p.log, e)[i] = p.log[i]
        BY <1>1, AppendAnything
      <4>2. QED
        BY <1>5, <4>1
    <3>2. DOMAIN q.log = 1..Len(q.log)
      BY <3>1 DEF IsSequence
    <3>3. QED
      BY <3>1, <3>2
  <2>2. \A m : SettledIn(p, ms, m) => SettledIn(q, ms, m)
    BY <1>5, <2>1 DEF SettledIn
  <2>3. p.pending.msg = Len(ms) /\ Names(ms, Len(ms), p.pending.agent, p.pending.tool)
          => SettledIn(q, ms, Len(ms))
    BY <1>4, <2>1 DEF SettledIn, Names
  <2>4. RequestsOK(q, ms)
    <3> SUFFICES ASSUME NEW m \in 1..Len(ms), ms[m].topic = "TOOL_CALL_REQUESTED"
                 PROVE  SettledIn(q, ms, m)
      BY DEF RequestsOK
    <3>1. SettledIn(p, ms, m) \/ (m = Len(ms) /\ p.pending.msg = m)
      BY <1>3 DEF FlowOK, RequestsOK
    <3>2. QED
      BY <1>3, <2>2, <2>3, <3>1
  <2>5. QED
    BY <2>1, <2>4 DEF FlowOK, IsProgram, CallingOK, PendingOK
<1>6. CASE q.log = p.log /\ q.refused = p.refused \cup {p.pending.msg}
  <2>1. \A m : SettledIn(p, ms, m) \/ m = p.pending.msg => SettledIn(q, ms, m)
    BY <1>6 DEF SettledIn
  <2>2. RequestsOK(q, ms)
    BY <1>3, <2>1 DEF FlowOK, RequestsOK
  <2>3. QED
    BY <1>1, <1>6, <2>2 DEF FlowOK, IsProgram, CallingOK, PendingOK
<1>7. QED
  BY <1>5, <1>6 DEF e

-----------------------------------------------------------------------------
\* The steps.
LEMMA BootFlows ==
  ASSUME script \in Programs, FlowOK(script, program, messages), BootHost
  PROVE  FlowOK(script, program', messages) /\ program'.at # "off"
<1> DEFINE p == program
           q == program'
<1>1. p.at = "off" /\ p.pending = Nothing
  BY NothingElsewhere DEF BootHost, Runs
<1>2. DOMAIN p = Fields /\ p.turn = 1
  BY <1>1 DEF FlowOK, IsProgram, CounterOK
<1>3. /\ DOMAIN q = Fields /\ q.log = p.log /\ q.refused = p.refused /\ q.pending = p.pending
      /\ q.turn = p.turn /\ q.at = IF script = "index" THEN "announcing" ELSE "spawning"
  BY <1>2 DEF BootHost, Fields
<1>4. CounterOK(script, q)
  BY <1>2, <1>3 DEF CounterOK, PlacesOf, InTurn, Programs
<1>5. QED
  BY <1>1, <1>3, <1>4, MovesOn

LEMMA SpawnFlows ==
  ASSUME script \in Programs, FlowOK(script, program, messages), Spawn
  PROVE  FlowOK(script, program', messages)
<1> DEFINE p == program
           q == program'
<1>1. p.at = "spawning" /\ p.pending = Nothing
  BY NothingElsewhere DEF Spawn, Runs
<1>2. DOMAIN p = Fields /\ p.turn = 1
  BY <1>1 DEF FlowOK, IsProgram, CounterOK
<1>3. /\ DOMAIN q = Fields /\ q.log = p.log /\ q.refused = p.refused /\ q.pending = p.pending
      /\ q.turn = p.turn /\ q.at = "turning"
  BY <1>2 DEF Spawn, Fields
<1>4. CounterOK(script, q)
  BY <1>2, <1>3 DEF CounterOK, PlacesOf, InTurn, Programs
<1>5. QED
  BY <1>1, <1>3, <1>4, MovesOn

LEMMA BeginTurnFlows ==
  ASSUME script \in Programs, FlowOK(script, program, messages), BeginTurn
  PROVE  FlowOK(script, program', messages)
<1> DEFINE p == program
           q == program'
<1>1. p.at = "turning"
  BY DEF BeginTurn, Runs
<1>2. DOMAIN p = Fields /\ CounterOK(script, p) /\ p.turn \in Nat /\ p.turn >= 1
  BY DEF FlowOK, IsProgram, CounterOK
<1>3. /\ DOMAIN q = Fields /\ q.log = p.log /\ q.refused = p.refused /\ q.pending = p.pending
      /\ q.turn = p.turn
      /\ \/ p.turn > LastTurn /\ q.at = "ending"
         \/ ~(p.turn > LastTurn) /\ Thinks /\ q.at = "thinking"
         \/ ~(p.turn > LastTurn) /\ ~Thinks /\ q.at = "ticked" /\ q.output = runTick(Scripted)
  BY <1>2 DEF BeginTurn, Fields
<1>4. CounterOK(script, q)
  <2>1. CASE script = "index"
    <3>1. LastTurn = 2 /\ Thinks
      BY <2>1, Scripts
    <3>2. QED
      BY <1>2, <1>3, <2>1, <3>1 DEF CounterOK, PlacesOf, InTurn
  <2>2. CASE script = "swe"
    <3>1. Thinks
      BY <2>2, Scripts
    <3>2. QED
      BY <1>2, <1>3, <2>2, <3>1 DEF CounterOK, PlacesOf, InTurn
  <2>3. CASE script = "researcher"
    <3>1. LastTurn = 2 /\ ~Thinks /\ runTick(Scripted) = OutputAt(script, p.turn)
      BY <2>3, Scripts
    <3>2. QED
      BY <1>2, <1>3, <2>3, <3>1 DEF CounterOK, PlacesOf, InTurn
  <2>4. CASE script = "swarm"
    <3>1. LastTurn = 10 /\ ~Thinks /\ runTick(Scripted) = OutputAt(script, p.turn)
      BY <2>4, Scripts
    <3>2. p.turn <= 11
      BY <1>1, <1>2, <2>4 DEF CounterOK
    <3>3. QED
      BY <1>2, <1>3, <2>4, <3>1, <3>2 DEF CounterOK, PlacesOf, InTurn
  <2>5. QED
    BY <2>1, <2>2, <2>3, <2>4 DEF Programs
<1>5. q.pending = Nothing \/ PendingWhere(script, q)
  <2>1. p.pending = Nothing \/ (script = "index" /\ p.turn = 2 /\ p.pending.how \in {"at once", "refused"})
    BY <1>1 DEF FlowOK, PendingOK, PendingWhere
  <2>2. CASE p.pending # Nothing
    <3>1. script = "index" /\ p.turn = 2 /\ p.pending.how \in {"at once", "refused"}
      BY <2>1, <2>2
    <3>2. LastTurn = 2 /\ Thinks
      BY <3>1, Scripts
    <3>3. q.at = "thinking"
      <4>1. p.turn = 2 /\ LastTurn = 2
        BY <3>1, <3>2
      <4>2. ~(p.turn > LastTurn)
        BY <4>1
      <4>3. QED
        BY <1>3, <3>2, <4>2
    <3>4. QED
      BY <1>3, <3>1, <3>3 DEF PendingWhere
  <2>3. QED
    BY <1>3, <2>2
<1>6. q.at # "calling"
  BY <1>3
<1>7. QED
  BY <1>1, <1>3, <1>4, <1>5, <1>6, MovesOn

LEMMA ThinkFlows ==
  ASSUME script \in {"index", "swe"}, FlowOK(script, program, messages), Think
  PROVE  FlowOK(script, program', messages)
<1> DEFINE p == program
           q == program'
<1>0. script \in Programs
  BY DEF Programs
<1>1. p.at = "thinking" /\ p.pending.how \notin {"at once", "refused"}
  BY DEF Think, Woken, Runs
<1>2. p.pending = Nothing
  BY <1>0, <1>1, NothingWhenWoken
<1>3. DOMAIN p = Fields /\ CounterOK(script, p)
  BY DEF FlowOK, IsProgram
<1>4. /\ DOMAIN q = Fields /\ q.log = p.log /\ q.refused = p.refused /\ q.pending = p.pending
      /\ q.turn = p.turn
      /\ q.at \in IF script = "swe" THEN {"done", "ticked"} ELSE {"dead", "reporting"}
  BY <1>3 DEF Think, Fields
<1>5. CounterOK(script, q)
  BY <1>1, <1>3, <1>4 DEF CounterOK, PlacesOf
<1>6. QED
  BY <1>0, <1>1, <1>2, <1>4, <1>5, MovesOn

LEMMA SkipToolFlows ==
  ASSUME script \in Programs, FlowOK(script, program, messages), SkipTool
  PROVE  FlowOK(script, program', messages)
<1> DEFINE p == program
           q == program'
<1>1. p.at = "ticked" /\ p.pending = Nothing
  BY NothingElsewhere DEF SkipTool, Runs
<1>2. DOMAIN p = Fields /\ CounterOK(script, p) /\ p.turn \in Nat /\ p.turn >= 1
  BY DEF FlowOK, IsProgram, CounterOK
<1>3. /\ DOMAIN q = Fields /\ q.log = p.log /\ q.refused = p.refused /\ q.pending = p.pending
      /\ q.output = p.output
      /\ q.turn = IF script = "index" THEN p.turn + 1 ELSE p.turn
      /\ q.at = IF script = "index" THEN "turning" ELSE "after"
  BY <1>2 DEF SkipTool, Fields
<1>4. CounterOK(script, q)
  BY <1>1, <1>2, <1>3 DEF CounterOK, PlacesOf, InTurn, Programs
<1>5. QED
  BY <1>1, <1>3, <1>4, MovesOn

LEMMA EndTurnFlows ==
  ASSUME script \in Programs, FlowOK(script, program, messages), EndTurn
  PROVE  FlowOK(script, program', messages)
<1> DEFINE p == program
           q == program'
<1>1. p.at = "after" /\ p.pending = Nothing
  BY NothingElsewhere DEF EndTurn, Runs
<1>2. DOMAIN p = Fields /\ CounterOK(script, p)
  BY DEF FlowOK, IsProgram
<1>3. /\ DOMAIN q = Fields /\ q.log = p.log /\ q.refused = p.refused /\ q.pending = p.pending
      /\ q.output = p.output /\ q.turn = p.turn /\ q.at = "pausing"
  BY <1>2 DEF EndTurn, Fields
<1>4. CounterOK(script, q)
  BY <1>1, <1>2, <1>3 DEF CounterOK, PlacesOf, InTurn, Programs
<1>5. QED
  BY <1>1, <1>3, <1>4, MovesOn

LEMMA PauseFlows ==
  ASSUME script \in Programs, FlowOK(script, program, messages), Pause
  PROVE  FlowOK(script, program', messages)
<1> DEFINE p == program
           q == program'
<1>1. p.at = "pausing" /\ p.pending = Nothing
  BY NothingElsewhere DEF Pause, Woken, Runs
<1>2. DOMAIN p = Fields /\ CounterOK(script, p) /\ p.turn \in Nat /\ p.turn >= 1
  BY DEF FlowOK, IsProgram, CounterOK
<1>3. /\ DOMAIN q = Fields /\ q.log = p.log /\ q.refused = p.refused /\ q.pending = p.pending
      /\ q.turn = p.turn + 1 /\ q.at = "turning"
  BY <1>2 DEF Pause, Fields
<1>4. CounterOK(script, q)
  BY <1>1, <1>2, <1>3 DEF CounterOK, PlacesOf, InTurn, Programs
<1>5. QED
  BY <1>1, <1>3, <1>4, MovesOn

\* The ends: complete, the closed browser, the loop left.
LEMMA EndsFlow ==
  ASSUME script \in Programs, FlowOK(script, program, messages),
         \/ script \in {"index", "researcher"} /\ Complete
         \/ script = "researcher" /\ CloseAwaited
         \/ script = "swe" /\ LeaveLoop
  PROVE  FlowOK(script, program', messages)
<1> DEFINE p == program
           q == program'
<1>1. p.at \in {"ending", "closing"} /\ p.pending = Nothing
  <2>1. p.at \in {"ending", "closing"}
    BY DEF Complete, CloseAwaited, LeaveLoop, Runs
  <2>2. QED
    BY <2>1, NothingElsewhere
<1>2. DOMAIN p = Fields /\ CounterOK(script, p)
  BY DEF FlowOK, IsProgram
<1>3. /\ DOMAIN q = Fields /\ q.log = p.log /\ q.refused = p.refused /\ q.pending = p.pending
      /\ q.turn = p.turn
      /\ q.at \in IF script = "researcher" THEN {"closing", "done", "failed"} ELSE {"done"}
  <2>1. CASE script \in {"index", "researcher"} /\ Complete
    BY <1>2, <2>1 DEF Complete, Fields
  <2>2. CASE script = "researcher" /\ CloseAwaited
    BY <1>2, <2>2 DEF CloseAwaited, Fields
  <2>3. CASE script = "swe" /\ LeaveLoop
    BY <1>2, <2>3 DEF LeaveLoop, Fields
  <2>4. QED
    BY <2>1, <2>2, <2>3
<1>4. CounterOK(script, q)
  BY <1>1, <1>2, <1>3 DEF CounterOK, PlacesOf, InTurn, Programs
<1>5. QED
  BY <1>1, <1>3, <1>4, MovesOn

LEMMA QuitFlows ==
  ASSUME script \in Programs, FlowOK(script, program, messages), Quit
  PROVE  FlowOK(script, program', messages)
<1> DEFINE p == program
           q == program'
<1>1. p.at \in {"thinking", "awaiting", "pausing", "closing", "done", "turning"}
  BY DEF Quit, Waiting, Woken, Runs
<1>2. DOMAIN p = Fields /\ CounterOK(script, p)
  BY DEF FlowOK, IsProgram
<1>3. /\ DOMAIN q = Fields /\ q.log = p.log /\ q.refused = p.refused /\ q.pending = p.pending
      /\ q.turn = p.turn /\ q.at = "quit"
  BY <1>2 DEF Quit, Fields
<1>4. CounterOK(script, q)
  BY <1>2, <1>3 DEF CounterOK, PlacesOf, InTurn, Programs
<1>5. PendingWhere(script, q)
  BY <1>3 DEF PendingWhere
<1>6. QED
  BY <1>1, <1>3, <1>4, <1>5, MovesOn

\* An event of a program: the terminal shows it.
LEMMA EventsFlow ==
  ASSUME script \in Programs, FlowOK(script, program, messages), DInv, ShownOK, Display,
         \/ script = "index" /\ (Announce \/ ReportTick)
         \/ RequestTool
  PROVE  FlowOK(script, program', messages') /\ ShownOK'
<1> DEFINE p == program
           q == program'
           kind == IF p.at = "announcing" THEN "AGENT_SPAWNED"
                   ELSE IF p.at = "reporting" THEN "TICK_COMPLETED" ELSE "TOOL_CALL_REQUESTED"
           tool == IF p.at = "ticked" THEN p.output.arg.tool ELSE nothing
<1>1. /\ p.at \in {"announcing", "reporting", "ticked"} /\ calls = << >>
      /\ Send(kind, KernelEvent(tool))
  <2>1. CASE Announce
    BY <2>1 DEF Announce, Runs, Emit
  <2>2. CASE ReportTick
    BY <2>2 DEF ReportTick, Runs, Emit
  <2>3. CASE RequestTool
    BY <2>3 DEF RequestTool, Runs, Emit
  <2>4. QED
    BY <2>1, <2>2, <2>3
<1>2. p.pending = Nothing /\ p.at # "calling"
  BY <1>1, NothingElsewhere
<1>3. DOMAIN p = Fields /\ CounterOK(script, p) /\ p.turn \in Nat /\ p.turn >= 1
  BY DEF FlowOK, IsProgram, CounterOK
<1>4. /\ DOMAIN q = Fields /\ q.log = p.log /\ q.refused = p.refused /\ q.pending = p.pending
      /\ q.output = p.output /\ q.turn = p.turn
      /\ q.at = IF p.at = "announcing" THEN "spawning"
                ELSE IF p.at = "reporting" THEN "ticked" ELSE "calling"
  <2>1. CASE Announce
    BY <1>3, <2>1 DEF Announce, Runs, Fields
  <2>2. CASE ReportTick
    BY <1>3, <2>2 DEF ReportTick, Runs, Fields
  <2>3. CASE RequestTool
    BY <1>3, <2>3 DEF RequestTool, Runs, Fields
  <2>4. QED
    BY <2>1, <2>2, <2>3
<1>5. p.at = "ticked" /\ script = "index" => p.turn = 1
  <2>1. p.at = "ticked" => RequestTool
    BY DEF Announce, ReportTick, Runs
  <2>2. p.at = "ticked" => ~(script = "index" /\ p.turn = 2)
    BY <2>1 DEF RequestTool, Requests
  <2>3. p.at = "ticked" /\ script = "index" => p.turn <= 2
    BY <1>3 DEF CounterOK
  <2>4. QED
    BY <1>3, <2>2, <2>3
<1>6. CounterOK(script, q)
  BY <1>1, <1>3, <1>4, <1>5 DEF CounterOK, PlacesOf, InTurn, Programs
<1>7. kind \in EventKinds
  BY HostAssumption
<1>8. q.at # "off" /\ p.at # "off"
  BY <1>1, <1>4
<1> HIDE DEF kind, tool
<1>9. PICK m : /\ messages' = Append(messages, m) /\ m.topic = kind /\ m.body = KernelEvent(tool)
               /\ ShownOK'
  BY <1>1, <1>7, <1>8, EmitIsShown
<1>10. \/ m.topic # "TOOL_CALL_REQUESTED" /\ q.at # "calling"
       \/ q.at = "calling" /\ m.body.agent = AgentAt(script, q.turn) /\ m.body.tool = q.output.arg.tool
  <2>1. CASE p.at = "ticked"
    <3>1. AgentNow = AgentAt(script, p.turn) /\ q.at = "calling"
      BY <1>4, <2>1, Scripts
    <3>2. m.body.agent = AgentNow /\ m.body.tool = p.output.arg.tool
      BY <1>9, <2>1 DEF KernelEvent, tool
    <3>3. QED
      BY <1>4, <3>1, <3>2
  <2>2. CASE p.at # "ticked"
    BY <1>1, <1>4, <1>9, <2>2 DEF kind
  <2>3. QED
    BY <2>1, <2>2
<1>11. IsSequence(messages)
  BY EventsAreHeard
<1>12. FlowOK(script, q, messages')
  BY <1>2, <1>4, <1>6, <1>9, <1>10, <1>11, EmitFlows
<1>13. QED
  BY <1>9, <1>12

\* What the gate does when it is asked.
CallMade(how, result, agent, number, tool, msg, onward) ==
  /\ DOMAIN program' = Fields
  /\ \A f \in {"output", "log", "refused", "states", "history"} : program'[f] = program[f]
  /\ program'.at = onward
  /\ program'.turn = IF AwaitsGate THEN program.turn ELSE program.turn + 1
  /\ program'.pending = [how |-> how, agent |-> agent, tick |-> number, tool |-> tool,
                         result |-> result, msg |-> msg]
  /\ \/ how \in {"at once", "refused"} /\ ToolsIdle
     \/ /\ how = "bash" /\ tool = "host.system.bash" /\ tool \in GateTools
        /\ (\E c \in Calls \ (Contained \cup Git) : Call(c)) /\ UNCHANGED browserVars
     \/ /\ how = "browser" /\ tool = "host.web.browser" /\ tool \in GateTools
        /\ (\E v \in Visits : Visit(v)) /\ UNCHANGED bash

LEMMA CallBegins ==
  ASSUME script \in Programs, DOMAIN program = Fields, NEW agent, NEW number, NEW tool, NEW arg,
         NEW msg, NEW onward, CallTool(agent, number, tool, arg, msg, onward)
  PROVE  \E how, result : CallMade(how, result, agent, number, tool, msg, onward)
<1> DEFINE Pending(o) == [how |-> o.how, agent |-> agent, tick |-> number, tool |-> tool,
                          result |-> o.result, msg |-> msg]
           Begin(o) == program' = [program EXCEPT !.at = onward, !.pending = Pending(o),
                                                  !.files = o.files, !.shared = o.shared,
                                                  !.turn = IF AwaitsGate THEN @ ELSE @ + 1]
<1>1. ASSUME NEW o, Begin(o)
      PROVE  /\ DOMAIN program' = Fields
             /\ \A f \in {"output", "log", "refused", "states", "history"} : program'[f] = program[f]
             /\ program'.at = onward
             /\ program'.turn = IF AwaitsGate THEN program.turn ELSE program.turn + 1
             /\ program'.pending = [how |-> o.how, agent |-> agent, tick |-> number, tool |-> tool,
                                    result |-> o.result, msg |-> msg]
  BY <1>1 DEF Fields
<1>2. CASE /\ tool = "host.system.bash" /\ tool \in GateTools
           /\ \E c \in Calls \ (Contained \cup Git) : Call(c)
           /\ Begin([Done("SUCCESS") EXCEPT !.how = "bash"]) /\ UNCHANGED browserVars
  <2> DEFINE o == [Done("SUCCESS") EXCEPT !.how = "bash"]
  <2>1. o.how = "bash" /\ Begin(o)
    BY <1>2 DEF Done
  <2> HIDE DEF o
  <2>2. CallMade("bash", o.result, agent, number, tool, msg, onward)
    <3>1. /\ DOMAIN program' = Fields
          /\ \A f \in {"output", "log", "refused", "states", "history"} : program'[f] = program[f]
          /\ program'.at = onward
          /\ program'.turn = IF AwaitsGate THEN program.turn ELSE program.turn + 1
          /\ program'.pending = [how |-> "bash", agent |-> agent, tick |-> number, tool |-> tool,
                                 result |-> o.result, msg |-> msg]
      BY <1>1, <2>1
    <3>2. QED
      BY <1>2, <3>1 DEF CallMade
  <2>3. QED
    BY <2>2
<1>3. CASE /\ tool = "host.web.browser" /\ tool \in GateTools
           /\ \E v \in Visits : Visit(v)
           /\ Begin([Done("SUCCESS") EXCEPT !.how = "browser"]) /\ UNCHANGED bash
  <2> DEFINE o == [Done("SUCCESS") EXCEPT !.how = "browser"]
  <2>1. o.how = "browser" /\ Begin(o)
    BY <1>3 DEF Done
  <2> HIDE DEF o
  <2>2. CallMade("browser", o.result, agent, number, tool, msg, onward)
    <3>1. /\ DOMAIN program' = Fields
          /\ \A f \in {"output", "log", "refused", "states", "history"} : program'[f] = program[f]
          /\ program'.at = onward
          /\ program'.turn = IF AwaitsGate THEN program.turn ELSE program.turn + 1
          /\ program'.pending = [how |-> "browser", agent |-> agent, tick |-> number, tool |-> tool,
                                 result |-> o.result, msg |-> msg]
      BY <1>1, <2>1
    <3>2. QED
      BY <1>3, <3>1 DEF CallMade
  <2>3. QED
    BY <2>2
<1>4. CASE /\ tool \notin GateTools \cap ToSet(ResearcherTools)
           /\ \E o \in Outcomes(agent, tool, arg) : Begin(o)
           /\ ToolsIdle
  <2>1. PICK o \in Outcomes(agent, tool, arg) : Begin(o)
    BY <1>4
  <2>2. o.how \in {"at once", "refused"}
    BY <1>4, AtOnce
  <2>3. CallMade(o.how, o.result, agent, number, tool, msg, onward)
    BY <1>1, <1>4, <2>1, <2>2 DEF CallMade
  <2>4. QED
    BY <2>3
<1>5. QED
  BY <1>2, <1>3, <1>4 DEF CallTool

LEMMA ResearcherAsks ==
  /\ OutputAt("researcher", 1).arg.tool = "host.system.bash"
  /\ OutputAt("researcher", 2).arg.tool = "host.web.browser"
BY DEF OutputAt, runTick, ToolCall, ResearcherTools

LEMMA ExecuteFlows ==
  ASSUME script \in Programs, FlowOK(script, program, messages), ExecuteTool
  PROVE  FlowOK(script, program', messages)
<1> DEFINE p == program
           q == program'
           tool == p.output.arg.tool
           agent == AgentNow
           number == IF script = "index" THEN p.turn + 1 ELSE TickNow
           onward == IF AwaitsGate THEN "awaiting" ELSE "turning"
<1>1. p.at = "calling" /\ CallTool(agent, number, tool, p.output.arg.path, Len(messages), onward)
  BY DEF ExecuteTool, Runs
<1>2. DOMAIN p = Fields /\ CounterOK(script, p) /\ p.turn \in Nat /\ p.turn >= 1
  BY DEF FlowOK, IsProgram, CounterOK
<1> HIDE DEF tool, agent, number, onward
<1>3. PICK how, result : CallMade(how, result, agent, number, tool, Len(messages), onward)
  BY <1>1, <1>2, CallBegins
<1>4. /\ DOMAIN q = Fields /\ q.log = p.log /\ q.refused = p.refused /\ q.output = p.output
      /\ q.at = onward /\ q.turn = (IF AwaitsGate THEN p.turn ELSE p.turn + 1)
      /\ q.pending = [how |-> how, agent |-> agent, tick |-> number, tool |-> tool,
                      result |-> result, msg |-> Len(messages)]
  BY <1>3 DEF CallMade
<1>5. AwaitsGate <=> script # "index"
  BY DEF AwaitsGate
<1>6. q.at # "calling"
  BY <1>4 DEF onward
<1>7. CounterOK(script, q)
  BY <1>1, <1>2, <1>4, <1>5 DEF CounterOK, PlacesOf, InTurn, Programs, onward
<1>8. /\ q.pending.how = how /\ q.pending.msg = Len(messages)
      /\ q.pending.agent = agent /\ q.pending.tool = tool
      /\ DOMAIN q.pending = {"how", "agent", "tick", "tool", "result", "msg"}
  BY <1>4
<1>9. how # "none" /\ PendingWhere(script, q)
  <2>1. CASE how \in {"at once", "refused"}
    <3>1. CASE script = "index"
      <4>1. p.turn = 1
        BY <1>1, <1>2, <3>1 DEF CounterOK
      <4>2. q.at = "turning" /\ q.turn = 2
        BY <1>4, <1>5, <3>1, <4>1 DEF onward
      <4>3. QED
        BY <1>8, <2>1, <3>1, <4>2 DEF PendingWhere
    <3>2. CASE script # "index"
      <4>1. q.at = "awaiting"
        BY <1>4, <1>5, <3>2 DEF onward
      <4>2. QED
        BY <1>8, <2>1, <3>2, <4>1 DEF PendingWhere
    <3>3. QED
      BY <3>1, <3>2
  <2>2. CASE how \in {"bash", "browser"}
    <3>1. tool \in GateTools /\ tool = IF how = "bash" THEN "host.system.bash" ELSE "host.web.browser"
      BY <1>3, <2>2 DEF CallMade
    <3>2. script = "researcher"
      BY <2>2, <3>1, Scripts
    <3>3. p.turn \in {1, 2} /\ p.output = OutputAt("researcher", p.turn)
      BY <1>1, <1>2, <3>2 DEF CounterOK, InTurn
    <3>4. p.turn = IF how = "bash" THEN 1 ELSE 2
      BY <2>2, <3>1, <3>3, ResearcherAsks DEF tool
    <3>5. q.at = "awaiting" /\ q.turn = p.turn
      BY <1>4, <1>5, <3>2 DEF onward
    <3>6. QED
      BY <1>8, <2>2, <3>2, <3>4, <3>5 DEF PendingWhere
  <2>3. QED
    BY <1>3, <2>1, <2>2 DEF CallMade
<1>10. agent = AgentAt(script, p.turn)
  BY Scripts DEF agent
<1>11. QED
  BY <1>1, <1>4, <1>6, <1>7, <1>8, <1>9, <1>10, AskingFlows DEF tool

LEMMA ProbeFlows ==
  ASSUME script = "swarm", FlowOK(script, program, messages), Probe
  PROVE  FlowOK(script, program', messages)
<1> DEFINE p == program
           q == program'
<1>0. script \in Programs
  BY DEF Programs
<1>1. /\ p.at = "ending"
      /\ CallTool("worker-1", 99, "swarm.memory.read", "worker_2_result", 0, "probing")
  BY DEF Probe, Runs
<1>2. DOMAIN p = Fields /\ CounterOK(script, p) /\ p.pending = Nothing
  BY <1>0, <1>1, NothingElsewhere DEF FlowOK, IsProgram
<1>3. PICK how, result : CallMade(how, result, "worker-1", 99, "swarm.memory.read", 0, "probing")
  BY <1>0, <1>1, <1>2, CallBegins
<1>4. /\ DOMAIN q = Fields /\ q.log = p.log /\ q.refused = p.refused
      /\ q.at = "probing" /\ q.turn = (IF AwaitsGate THEN p.turn ELSE p.turn + 1)
      /\ q.pending = [how |-> how, agent |-> "worker-1", tick |-> 99, tool |-> "swarm.memory.read",
                      result |-> result, msg |-> 0]
      /\ how \in {"at once", "refused"}
  BY <1>3 DEF CallMade
<1>5. AwaitsGate
  BY DEF AwaitsGate
<1>6. CounterOK(script, q)
  BY <1>1, <1>2, <1>4, <1>5 DEF CounterOK, PlacesOf, InTurn
<1>7. /\ q.pending.how = how /\ q.pending.msg = 0
      /\ DOMAIN q.pending = {"how", "agent", "tick", "tool", "result", "msg"}
  <2>1. q.pending = [how |-> how, agent |-> "worker-1", tick |-> 99, tool |-> "swarm.memory.read",
                     result |-> result, msg |-> 0]
    BY <1>3 DEF CallMade
  <2>2. QED
    BY <2>1
<1>8. q.pending.how # "none" /\ PendingWhere(script, q)
  BY <1>4, <1>7 DEF PendingWhere
<1>9. QED
  BY <1>0, <1>1, <1>2, <1>4, <1>6, <1>7, <1>8, AskingFlows

\* The gate resolves, or rejects.
LEMMA AnswersFlow ==
  ASSUME script \in Programs, FlowOK(script, program, messages), program.at # "quit",
         SettleTool \/ RefuseTool
  PROVE  FlowOK(script, program', messages)
<1> DEFINE p == program
           q == program'
           onward == IF p.at = "awaiting" THEN "after" ELSE IF p.at = "probing" THEN "done" ELSE p.at
<1>1. DOMAIN p = Fields /\ CounterOK(script, p)
  BY DEF FlowOK, IsProgram
<1>2. AskedBy(p)
  <2>1. CASE SettleTool
    BY <2>1 DEF SettleTool, Answered, AskedBy
  <2>2. CASE RefuseTool
    BY <2>2 DEF RefuseTool, Answered, AskedBy
  <2>3. QED
    BY <2>1, <2>2
<1>3. /\ script = "index" => p.at \in {"turning", "thinking"}
      /\ script # "index" => p.at \in {"awaiting", "probing"}
  <2>1. p.pending # Nothing
    BY <1>2 DEF AskedBy, Nothing
  <2>2. PendingWhere(script, p)
    BY <2>1 DEF FlowOK, PendingOK
  <2>3. QED
    BY <2>2 DEF PendingWhere
<1>4. ASSUME NEW r, DOMAIN r = Fields
      PROVE  /\ DOMAIN Resumed(r) = Fields /\ Resumed(r).pending = Nothing
             /\ \A f \in Fields \ {"pending", "at"} : Resumed(r)[f] = r[f]
             /\ Resumed(r).at = IF r.at = "awaiting" THEN "after"
                                ELSE IF r.at = "probing" THEN "done" ELSE r.at
  BY <1>4 DEF Resumed, Fields
<1>5. CASE SettleTool
  <2>1. PICK result : q = Resumed([p EXCEPT !.log = Append(@, [p.pending EXCEPT !.result = result])])
    BY <1>5 DEF SettleTool
  <2> DEFINE r == [p EXCEPT !.log = Append(@, [p.pending EXCEPT !.result = result])]
             e == [p.pending EXCEPT !.result = result]
  <2>2. DOMAIN r = Fields /\ r.log = Append(p.log, e) /\ \A f \in Fields \ {"log"} : r[f] = p[f]
    BY <1>1 DEF Fields
  <2>3. q = Resumed(r)
    BY <2>1
  <2> HIDE DEF r, e
  <2>4. /\ DOMAIN q = Fields /\ q.pending = Nothing /\ q.log = Append(p.log, e)
        /\ q.refused = p.refused /\ q.turn = p.turn /\ q.output = p.output /\ q.at = onward
    BY <1>4, <2>2, <2>3 DEF Fields
  <2>5. CounterOK(script, q)
    BY <1>1, <1>3, <2>4 DEF CounterOK, PlacesOf, InTurn, Programs
  <2>6. q.at # "calling"
    BY <1>3, <2>4 DEF Programs
  <2>7. QED
    BY <1>2, <2>4, <2>5, <2>6, AnswerFlows DEF e
<1>6. CASE RefuseTool
  <2> DEFINE r == [p EXCEPT !.refused = @ \cup {p.pending.msg}]
             s == Resumed(r)
  <2>1. q = CASE script = "index" -> [s EXCEPT !.at = "dead"]
              [] script = "swarm" /\ p.at = "awaiting" -> [s EXCEPT !.at = "failed"]
              [] OTHER -> s
    BY <1>6 DEF RefuseTool
  <2>2. DOMAIN r = Fields /\ r.refused = p.refused \cup {p.pending.msg}
        /\ \A f \in Fields \ {"refused"} : r[f] = p[f]
    BY <1>1 DEF Fields
  <2> HIDE DEF r
  <2>3. /\ DOMAIN s = Fields /\ s.pending = Nothing /\ s.log = p.log
        /\ s.refused = p.refused \cup {p.pending.msg}
        /\ s.turn = p.turn /\ s.output = p.output /\ s.at = onward
    BY <1>4, <2>2 DEF Fields
  <2> HIDE DEF s
  <2>4. /\ DOMAIN q = Fields /\ q.pending = Nothing /\ q.log = p.log
        /\ q.refused = p.refused \cup {p.pending.msg}
        /\ q.turn = p.turn /\ q.output = p.output
        /\ q.at = IF script = "index" THEN "dead"
                  ELSE IF script = "swarm" /\ p.at = "awaiting" THEN "failed" ELSE onward
    BY <2>1, <2>3 DEF Fields
  <2>5. CounterOK(script, q)
    BY <1>1, <1>3, <2>4 DEF CounterOK, PlacesOf, InTurn, Programs
  <2>6. q.at # "calling"
    BY <1>3, <2>4 DEF Programs
  <2>7. QED
    BY <1>2, <2>4, <2>5, <2>6, AnswerFlows
<1>7. QED
  BY <1>5, <1>6

-----------------------------------------------------------------------------
FlowInv ==
  IF script \in Programs THEN FlowOK(script, program, messages) /\ ShownOK
                         ELSE screen = << >> /\ program.at = "off"

\* What a step of a program is, by script.
ProgramStep ==
  BootstrapFullEcosystem \/ BootstrapSWE \/ BootstrapResearcher \/ BootstrapSwarm

LEMMA FlowBegins == HostInit => FlowInv
<1> SUFFICES ASSUME HostInit PROVE FlowInv
  OBVIOUS
<1>1. /\ messages = << >> /\ calls = << >> /\ screen = << >>
      /\ listeners = [a \in Arrays |-> 0] /\ program = NotStarted
  BY DEF HostInit, Init, DeliveryInit, TerminalInit
<1>2. /\ DOMAIN program = Fields /\ program.at = "off" /\ program.turn = 1
      /\ program.pending = Nothing /\ program.log = << >>
  BY <1>1 DEF NotStarted, Fields
<1>3. script \in Programs => CounterOK(script, program)
  BY <1>2 DEF CounterOK, PlacesOf, InTurn, Programs
<1>4. IsProgram(program)
  <2>1. << >> \in Seq({})
    OBVIOUS
  <2>2. IsSequence(program.log)
    BY <1>2, <2>1 DEF IsSequence
  <2>3. QED
    BY <1>2, <2>2 DEF IsProgram
<1>5. script \in Programs => FlowOK(script, program, messages)
  <2>1. Len(messages) = 0
    BY <1>1
  <2>2. RequestsOK(program, messages)
    BY <2>1 DEF RequestsOK
  <2>3. QED
    BY <1>2, <1>3, <1>4, <2>2 DEF FlowOK, CallingOK, PendingOK
<1>6. ShownOK
  <2>1. "*" \in Arrays
    BY DEF Arrays
  <2>2. \A a \in Arrays : listeners[a] = 0
    BY <1>1
  <2>3. screen \in Seq(Nat) /\ Len(screen) = 0
    BY <1>1
  <2>4. QED
    BY <1>1, <1>2, <2>1, <2>2, <2>3 DEF ShownOK
<1>7. QED
  BY <1>1, <1>2, <1>5, <1>6 DEF FlowInv

\* The steps that emit nothing leave the screen.
LEMMA SilentFlows ==
  ASSUME script \in Programs, FlowOK(script, program, messages), ShownOK, DInv, Display,
         UNCHANGED deliveryVars, program.at # "off", program'.at # "off",
         FlowOK(script, program', messages)
  PROVE  FlowOK(script, program', messages') /\ ShownOK'
<1>1. IsSequence(heard)
  BY EventsAreHeard
<1>2. ShownOK'
  BY <1>1, StillShown
<1>3. messages' = messages
  BY DEF deliveryVars
<1>4. QED
  BY <1>2, <1>3

LEMMA ProgramFlows ==
  ASSUME script \in Programs, FlowOK(script, program, messages), ShownOK, DInv, Display,
         ProgramStep, program.at # "quit"
  PROVE  FlowOK(script, program', messages') /\ ShownOK'
<1> DEFINE Fine == FlowOK(script, program', messages') /\ ShownOK'
<1>0. DOMAIN program = Fields
  BY DEF FlowOK, IsProgram
<1>1. CASE BootHost
  <2>1. FlowOK(script, program', messages) /\ program'.at # "off"
    BY <1>1, BootFlows
  <2>2. ShownOK' /\ UNCHANGED messages
    BY <1>1, <2>1, TerminalBoots DEF BootHost, Runs
  <2>3. QED
    BY <2>1, <2>2
<1>2. CASE \/ script = "index" /\ (Announce \/ ReportTick)
           \/ RequestTool
  BY <1>2, EventsFlow
<1>3. CASE TerminalReturns
  <2>1. UNCHANGED program /\ HandlerReturns
    BY <1>3 DEF TerminalReturns
  <2>2. ShownOK' /\ UNCHANGED messages
    BY <2>1, TerminalLeaves
  <2>3. QED
    BY <2>1, <2>2
<1>4. CASE Spawn \/ BeginTurn \/ (script \in {"index", "swe"} /\ Think) \/ SkipTool \/ EndTurn \/ Pause
  <2>1. FlowOK(script, program', messages)
    BY <1>4, SpawnFlows, BeginTurnFlows, ThinkFlows, SkipToolFlows, EndTurnFlows, PauseFlows
  <2>2. UNCHANGED deliveryVars
    BY <1>4 DEF Spawn, BeginTurn, Think, SkipTool, EndTurn, Pause, Silent
  <2>3. program.at # "off"
    BY <1>4 DEF Spawn, BeginTurn, Think, SkipTool, EndTurn, Pause, Woken, Runs
  <2>4. program'.at # "off"
    BY <1>0, <1>4 DEF Spawn, BeginTurn, Think, SkipTool, EndTurn, Pause, Fields
  <2>5. QED
    BY <2>1, <2>2, <2>3, <2>4, SilentFlows
<1>5. CASE \/ script \in {"index", "researcher"} /\ Complete
           \/ script = "researcher" /\ CloseAwaited
           \/ script = "swe" /\ LeaveLoop
  <2>1. FlowOK(script, program', messages)
    BY <1>5, EndsFlow
  <2>2. UNCHANGED deliveryVars
    BY <1>5 DEF Complete, CloseAwaited, LeaveLoop, Silent
  <2>3. program.at # "off"
    BY <1>5 DEF Complete, CloseAwaited, LeaveLoop, Runs
  <2>4. program'.at # "off"
    BY <1>0, <1>5 DEF Complete, CloseAwaited, LeaveLoop, Fields
  <2>5. QED
    BY <2>1, <2>2, <2>3, <2>4, SilentFlows
<1>6. CASE ExecuteTool \/ (script = "swarm" /\ Probe) \/ Quit
  <2>1. FlowOK(script, program', messages)
    BY <1>6, ExecuteFlows, ProbeFlows, QuitFlows
  <2>2. UNCHANGED deliveryVars
    BY <1>6 DEF ExecuteTool, Probe, Quit, Silent
  <2>3. program.at # "off"
    BY <1>6 DEF ExecuteTool, Probe, Quit, Waiting, Woken, Runs
  <2>4. program'.at # "off"
    <3>1. CASE ExecuteTool
      <4>1. PICK agent, number, tool, arg, msg, onward :
              onward # "off" /\ CallTool(agent, number, tool, arg, msg, onward)
        BY <3>1 DEF ExecuteTool
      <4>2. PICK how, result : CallMade(how, result, agent, number, tool, msg, onward)
        BY <1>0, <4>1, CallBegins
      <4>3. QED
        BY <4>1, <4>2 DEF CallMade
    <3>2. CASE Probe
      <4>1. CallTool("worker-1", 99, "swarm.memory.read", "worker_2_result", 0, "probing")
        BY <3>2 DEF Probe
      <4>2. PICK how, result : CallMade(how, result, "worker-1", 99, "swarm.memory.read", 0, "probing")
        BY <1>0, <4>1, CallBegins
      <4>3. QED
        BY <4>2 DEF CallMade
    <3>3. CASE Quit
      BY <1>0, <3>3 DEF Quit, Fields
    <3>4. QED
      BY <1>6, <3>1, <3>2, <3>3
  <2>5. QED
    BY <2>1, <2>2, <2>3, <2>4, SilentFlows
<1>7. CASE SettleTool \/ RefuseTool
  <2>1. FlowOK(script, program', messages)
    BY <1>7, AnswersFlow
  <2>2. UNCHANGED deliveryVars
    BY <1>7 DEF SettleTool, RefuseTool, Silent
  <2>3. AskedBy(program)
    BY <1>7 DEF SettleTool, RefuseTool, Answered, AskedBy
  <2>4. program.at \in {"turning", "thinking", "awaiting", "probing"}
    <3>1. program.pending # Nothing
      BY <2>3 DEF AskedBy, Nothing
    <3>2. PendingWhere(script, program)
      BY <3>1 DEF FlowOK, PendingOK
    <3>3. QED
      BY <3>2 DEF PendingWhere
  <2>5. program'.at \in {"turning", "thinking", "after", "done", "dead", "failed"}
    <3>1. ASSUME NEW r, DOMAIN r = Fields, r.at = program.at
          PROVE  DOMAIN Resumed(r) = Fields /\ Resumed(r).at \in {"turning", "thinking", "after", "done"}
      BY <2>4, <3>1 DEF Resumed, Fields
    <3>2. CASE SettleTool
      <4>1. PICK result : program' = Resumed([program EXCEPT !.log =
                                                Append(@, [program.pending EXCEPT !.result = result])])
        BY <3>2 DEF SettleTool
      <4> DEFINE r == [program EXCEPT !.log = Append(@, [program.pending EXCEPT !.result = result])]
      <4>2. DOMAIN r = Fields /\ r.at = program.at
        BY <1>0 DEF Fields
      <4> HIDE DEF r
      <4>3. QED
        BY <3>1, <4>1, <4>2 DEF r
    <3>3. CASE RefuseTool
      <4> DEFINE r == [program EXCEPT !.refused = @ \cup {program.pending.msg}]
                 s == Resumed(r)
      <4>1. program' = CASE script = "index" -> [s EXCEPT !.at = "dead"]
                         [] script = "swarm" /\ program.at = "awaiting" -> [s EXCEPT !.at = "failed"]
                         [] OTHER -> s
        BY <3>3 DEF RefuseTool
      <4>2. DOMAIN r = Fields /\ r.at = program.at
        BY <1>0 DEF Fields
      <4> HIDE DEF r
      <4>3. DOMAIN s = Fields /\ s.at \in {"turning", "thinking", "after", "done"}
        BY <3>1, <4>2
      <4> HIDE DEF s
      <4>4. QED
        BY <4>1, <4>3 DEF Fields
    <3>4. QED
      BY <1>7, <3>2, <3>3
  <2>6. QED
    BY <2>1, <2>2, <2>4, <2>5, SilentFlows
<1>8. CASE script = "researcher" /\ ToolsGoOn
  <2>1. UNCHANGED <<program, deliveryVars>>
    BY <1>8 DEF ToolsGoOn
  <2>2. IsSequence(heard)
    BY EventsAreHeard
  <2>3. ShownOK'
    BY <2>1, <2>2, StillShown
  <2>4. QED
    BY <2>1, <2>3 DEF deliveryVars
<1>9. QED
  BY <1>1, <1>2, <1>3, <1>4, <1>5, <1>6, <1>7, <1>8
     DEF ProgramStep, BootstrapFullEcosystem, BootstrapSWE, BootstrapResearcher, BootstrapSwarm,
         ComesBack

LEMMA HostFlows ==
  ASSUME FlowInv, HInv, [HostNext]_hostVars
  PROVE  FlowInv'
<1>1. script' = script
  <2>1. config' = config
    BY DEF HostNext, hostVars, Next, Vote
  <2>2. QED
    BY <2>1 DEF script
<1>2. CASE program.at # "quit" /\ ProgramStep /\ Display /\ UNCHANGED config
  <2>1. script \in Programs
    BY <1>2 DEF ProgramStep, BootstrapFullEcosystem, BootstrapSWE, BootstrapResearcher,
                BootstrapSwarm, Programs
  <2>2. QED
    BY <1>1, <1>2, <2>1, ProgramFlows DEF FlowInv, HInv
<1>3. CASE script \notin Programs /\ UNCHANGED programVars
  BY <1>1, <1>3 DEF FlowInv, programVars
<1>4. CASE UNCHANGED hostVars
  <2>1. UNCHANGED <<script, program, messages, screen, listeners, calls>>
    BY <1>1, <1>4 DEF hostVars, swarmVars, deliveryVars, programVars
  <2>2. FlowOK(script, program, messages)' <=> FlowOK(script, program, messages)
    BY <2>1
  <2>3. ShownOK' <=> ShownOK
    BY <2>1 DEF ShownOK
  <2>4. QED
    BY <2>1, <2>2, <2>3 DEF FlowInv
<1>5. config.work \in {"coordinator", "dashboard", "commands", "browser", "plugins"} =>
        script \notin Programs
  BY DEF script, Programs
<1>6. QED
  BY <1>2, <1>3, <1>4, <1>5 DEF HostNext, ProgramStep

LEMMA FlowHolds == HostSpec => [](HInv /\ FlowInv)
<1>1. HostInit => HInv /\ FlowInv
  BY InitDInv, FlowBegins DEF HostInit, Init, HInv
<1>2. HInv /\ FlowInv /\ [HostNext]_hostVars => HInv' /\ FlowInv'
  BY HostKeepsHInv, HostFlows
<1>3. QED
  BY <1>1, <1>2, PTL DEF HostSpec, hostVars

-----------------------------------------------------------------------------
\* ToolGate and the loops of the programs: once the terminal shows what comes after
\* a request, or the program is over, the request is in the log with its result or
\* was refused, for any tools, any results of them, and any brains.
THEOREM CallsSettle == HostSpec => []CallsSettleInOrder
<1>1. HInv /\ FlowInv => CallsSettleInOrder
  <2> SUFFICES ASSUME HInv, FlowInv, NEW i \in DOMAIN screen,
                      messages[screen[i]].topic = "TOOL_CALL_REQUESTED",
                      i < Len(screen) \/ program.at \in {"done", "failed", "dead"}
               PROVE  SettledIn(program, messages, screen[i])
    BY DEF CallsSettleInOrder, SettledIn
  <2>1. script \in Programs
    BY DEF FlowInv
  <2>2. FlowOK(script, program, messages) /\ ShownOK /\ DInv
    BY <2>1 DEF FlowInv, HInv
  <2>3. screen[i] \in 1..Len(messages) /\ (i < Len(screen) => screen[i] < Len(messages))
    BY <2>2 DEF ShownOK
  <2>4. \/ SettledIn(program, messages, screen[i])
        \/ screen[i] = Len(messages) /\ (program.at = "calling" \/ AskedBy(program))
    BY <2>2, <2>3 DEF FlowOK, RequestsOK
  <2>5. CASE i < Len(screen)
    <3>1. Len(messages) \in Nat
      BY <2>2, EventsAreHeard
    <3>2. QED
      BY <2>3, <2>4, <2>5, <3>1
  <2>6. CASE program.at \in {"done", "failed", "dead"}
    <3>1. program.pending = Nothing
      BY <2>1, <2>2, <2>6, NothingElsewhere
    <3>2. QED
      BY <2>4, <2>6, <3>1 DEF AskedBy, Nothing
  <2>7. QED
    BY <2>5, <2>6
<1>2. QED
  BY FlowHolds, <1>1, PTL

-----------------------------------------------------------------------------
(* What outlives a program.                                                *)

\* The researcher calls bash in its first turn and the browser in its second.
FirstCall(p) == p.turn = 1 /\ p.at \in {"off", "spawning", "turning", "ticked", "calling"}

FirstVisit(p) ==
  \/ p.turn = 1 /\ p.at \in {"off", "spawning", "turning", "ticked", "calling", "awaiting", "after", "pausing"}
  \/ p.turn = 2 /\ p.at \in {"turning", "ticked", "calling"}

AtMostOne(records) ==
  \A i, j \in DOMAIN records : records[i].at # "idle" /\ records[j].at # "idle" => i = j

AtRestOf(records) == \A i \in DOMAIN records : records[i].at \in {"idle", "settled"}

Unasked(records) == \A i \in DOMAIN records : records[i].at = "idle"

CommandsOK(w, p, bs) ==
  /\ w # "researcher" => Unasked(bs)
  /\ w = "researcher" /\ p.at # "quit" =>
       /\ FirstCall(p) => Unasked(bs)
       /\ p.pending.how # "bash" => AtRestOf(bs)
       /\ AtMostOne(bs)

BrowsersOK(w, p, ab, br, vs, cs) ==
  /\ \A v \in DOMAIN vs : ~vs[v].overlapped
  /\ \A b \in DOMAIN br : ~br[b].overlapped
  /\ w # "researcher" => br = << >>
  /\ w = "researcher" /\ p.at # "quit" =>
       /\ FirstVisit(p) => Unasked(vs)
       /\ p.pending.how # "browser" => AtRestOf(vs)
       /\ AtMostOne(vs)
       /\ p.at # "closing" => \A k \in DOMAIN cs : cs[k] = 0
       /\ p.at = "done" => ab = 0

ToolsOK(w, p, bs, ab, br, vs, cs) == CommandsOK(w, p, bs) /\ BrowsersOK(w, p, ab, br, vs, cs)

\* A program goes on while its tools rest.
LEMMA ToolsStay ==
  ASSUME NEW w \in Programs, NEW p, NEW q, NEW bs, NEW ab, NEW br, NEW vs, NEW cs,
         ToolsOK(w, p, bs, ab, br, vs, cs), p.at # "quit",
         w = "researcher" =>
           /\ FirstCall(q) => FirstCall(p)
           /\ FirstVisit(q) => FirstVisit(p)
           /\ q.pending.how # "bash" => p.pending.how # "bash" \/ AtRestOf(bs)
           /\ q.pending.how # "browser" => p.pending.how # "browser" \/ AtRestOf(vs)
           /\ q.at \notin {"closing", "quit"} => p.at # "closing" \/ \A k \in DOMAIN cs : cs[k] = 0
           /\ q.at = "done" => p.at = "done" \/ ab = 0
  PROVE  ToolsOK(w, q, bs, ab, br, vs, cs)
<1>1. CommandsOK(w, q, bs)
  BY DEF ToolsOK, CommandsOK
<1>2. BrowsersOK(w, q, ab, br, vs, cs)
  BY DEF ToolsOK, BrowsersOK
<1>3. QED
  BY <1>1, <1>2 DEF ToolsOK

\* What goes on with commands begins none and leaves what is settled.
LEMMA CommandsGoOn ==
  ASSUME SInv, SandboxGoesOn
  PROVE  /\ DOMAIN bash = Calls /\ DOMAIN bash' = Calls
         /\ \A c \in Calls : /\ bash[c].at \in {"idle", "settled"} => bash'[c].at = bash[c].at
                             /\ bash[c].at # "idle" => bash'[c].at # "idle"
<1>1. PICK c \in Calls :
        \/ GoesOn(c) \/ Ends(c) \/ TimerFires(c) \/ KillFails(c)
        \/ DaemonFails(c) \/ HappensLate(c) \/ NotRemoved(c)
  BY DEF SandboxGoesOn
<1>2. bash \in [Calls -> CallRecords] /\ bash[c] \in CallRecords
  BY DEF SInv
<1>3. \E r : /\ Set(c, r)
             /\ \/ r.at = bash[c].at
                \/ bash[c].at \notin {"idle", "settled"} /\ r.at # "idle"
  <2> DEFINE Fine(r) == \/ r.at = bash[c].at
                        \/ bash[c].at \notin {"idle", "settled"} /\ r.at # "idle"
  <2>1. ASSUME NEW place, place # "idle", bash[c].at \notin {"idle", "settled"}
        PROVE  /\ DOMAIN Goes(c, place) = DOMAIN bash[c]
               /\ Goes(c, place).at = place /\ Fine(Goes(c, place))
    BY <1>2, <2>1 DEF Goes, CallRecords
  <2>2. ASSUME NEW o, Finally(c, o), bash[c].at \notin {"idle", "settled"}
        PROVE  \E r : Set(c, r) /\ Fine(r)
    <3> DEFINE r == [bash[c] EXCEPT !.outcome = o, !.timer = IF @ = "armed" THEN "off" ELSE @,
                                    !.lost = At(c, "creating"),
                                    !.at = IF At(c, "creating") THEN "settled" ELSE "removing"]
    <3>1. Set(c, r)
      BY <2>2 DEF Finally
    <3>2. r.at \in {"settled", "removing"}
      BY <1>2 DEF CallRecords
    <3> HIDE DEF r
    <3>3. QED
      BY <2>2, <3>1, <3>2
  <2>3. CASE Created(c)
    BY <2>1, <2>3 DEF Created, At
  <2>4. CASE Starts(c)
    <3> DEFINE r == [bash[c] EXCEPT !.box = "running"]
    <3>1. Set(c, r) /\ r.at = bash[c].at
      BY <1>2, <2>4 DEF Starts, CallRecords
    <3> HIDE DEF r
    <3>2. QED
      BY <3>1
  <2>5. CASE Started(c)
    BY <2>1, <2>5 DEF Started, At
  <2>6. CASE KillLands(c)
    <3> DEFINE r == IF bash[c].box = "running"
                      THEN [bash[c] EXCEPT !.killing = FALSE, !.box = "ended", !.struck = TRUE]
                      ELSE [bash[c] EXCEPT !.killing = FALSE]
    <3>1. Set(c, r) /\ r.at = bash[c].at
      BY <1>2, <2>6 DEF KillLands, CallRecords
    <3> HIDE DEF r
    <3>2. QED
      BY <3>1
  <2>7. CASE Waited(c)
    <3>1. CASE bash[c].timer = "fired"
      BY <2>2, <2>7, <3>1 DEF Waited, At
    <3>2. CASE bash[c].timer # "fired"
      BY <2>1, <2>7, <3>2 DEF Waited, At
    <3>3. QED
      BY <3>1, <3>2
  <2>8. CASE Read(c)
    BY <2>2, <2>8 DEF Read, At
  <2>9. CASE Removed(c)
    <3> DEFINE r == [Goes(c, "settled") EXCEPT !.box = "removed"]
    <3>1. Set(c, r) /\ r.at = "settled"
      BY <1>2, <2>9 DEF Removed, Goes, CallRecords
    <3> HIDE DEF r
    <3>2. QED
      BY <2>9, <3>1 DEF Removed, At
  <2>10. CASE Exited(c)
    <3>1. PICK o \in {"SUCCESS", "ERROR"} :
            Set(c, [Goes(c, "settled") EXCEPT
                      !.outcome = o, !.timer = IF @ = "armed" THEN "off" ELSE @,
                      !.box = "removed"])
      BY <2>10 DEF Exited
    <3> DEFINE r == [Goes(c, "settled") EXCEPT
                       !.outcome = o, !.timer = IF @ = "armed" THEN "off" ELSE @,
                       !.box = "removed"]
    <3>2. Set(c, r) /\ r.at = "settled"
      BY <1>2, <3>1 DEF Goes, CallRecords
    <3> HIDE DEF r
    <3>3. QED
      BY <2>10, <3>2 DEF Exited, At
  <2>11. CASE Ends(c)
    <3> DEFINE r == [bash[c] EXCEPT !.box = "ended"]
    <3>1. Set(c, r) /\ r.at = bash[c].at
      BY <1>2, <2>11 DEF Ends, CallRecords
    <3> HIDE DEF r
    <3>2. QED
      BY <3>1
  <2>12. CASE TimerFires(c)
    <3> DEFINE r == [bash[c] EXCEPT !.timer = "fired", !.killing = ~At(c, "creating")]
    <3>1. Set(c, r) /\ r.at = bash[c].at
      BY <1>2, <2>12 DEF TimerFires, CallRecords
    <3> HIDE DEF r
    <3>2. QED
      BY <3>1
  <2>13. CASE DaemonFails(c)
    BY <2>2, <2>13 DEF DaemonFails
  <2>14. CASE KillFails(c)
    <3> DEFINE r == [bash[c] EXCEPT !.killing = FALSE]
    <3>1. Set(c, r) /\ r.at = bash[c].at
      BY <1>2, <2>14 DEF KillFails, CallRecords
    <3> HIDE DEF r
    <3>2. QED
      BY <3>1
  <2>15. CASE NotRemoved(c)
    <3> DEFINE r == [Goes(c, "settled") EXCEPT !.kept = TRUE]
    <3>1. Set(c, r) /\ r.at = "settled"
      BY <1>2, <2>15 DEF NotRemoved, Goes, CallRecords
    <3> HIDE DEF r
    <3>2. QED
      BY <2>15, <3>1 DEF NotRemoved, At
  <2>16. CASE Creates(c)
    <3> DEFINE r == [bash[c] EXCEPT !.box = "created"]
    <3>1. Set(c, r) /\ r.at = bash[c].at
      BY <1>2, <2>16 DEF Creates, CallRecords
    <3> HIDE DEF r
    <3>2. QED
      BY <3>1
  <2>17. CASE HappensLate(c)
    <3>1. PICK box \in {"created", "running"} : Set(c, [bash[c] EXCEPT !.box = box])
      BY <2>17 DEF HappensLate
    <3> DEFINE r == [bash[c] EXCEPT !.box = box]
    <3>2. Set(c, r) /\ r.at = bash[c].at
      BY <1>2, <3>1 DEF CallRecords
    <3> HIDE DEF r
    <3>3. QED
      BY <3>2
  <2>18. QED
    BY <1>1, <2>3, <2>4, <2>5, <2>6, <2>7, <2>8, <2>9, <2>10, <2>11, <2>12, <2>13, <2>14, <2>15,
       <2>16, <2>17 DEF GoesOn
<1>4. PICK r : /\ bash' = [bash EXCEPT ![c] = r]
               /\ \/ r.at = bash[c].at
                  \/ bash[c].at \notin {"idle", "settled"} /\ r.at # "idle"
  BY <1>3 DEF Set
<1>5. DOMAIN bash = Calls /\ DOMAIN bash' = Calls
      /\ \A d \in Calls : bash'[d] = IF d = c THEN r ELSE bash[d]
  BY <1>2, <1>4
<1>6. QED
  BY <1>4, <1>5

\* The same of the browser; and a launch that overlaps nothing stays so.
LEMMA BrowserGoesOnKeeps ==
  ASSUME BInv, BrowserGoesOn
  PROVE  /\ DOMAIN visits = Visits /\ DOMAIN visits' = Visits
         /\ DOMAIN closers = Closers /\ DOMAIN closers' = Closers
         /\ \A v \in Visits : /\ visits[v].at \in {"idle", "settled"} => visits'[v].at = visits[v].at
                              /\ visits[v].at # "idle" => visits'[v].at # "idle"
                              /\ visits'[v].overlapped = visits[v].overlapped
         /\ \A k \in Closers : closers[k] = 0 => closers'[k] = 0
         /\ (\A v \in Visits : ~visits[v].overlapped) /\ (\A b \in DOMAIN browsers : ~browsers[b].overlapped)
              => \A b \in DOMAIN browsers' : ~browsers'[b].overlapped
         /\ activeBrowser = 0 /\ (\A v \in Visits : visits[v].at # "launching") => activeBrowser' = 0
<1>1. /\ visits \in [Visits -> VisitRecords] /\ closers \in [Closers -> 0..Len(browsers)]
      /\ browsers \in Seq(Processes)
  BY DEF BInv, BrowserTypeOK
<1> DEFINE
      VisitsMove ==
        \A w \in Visits : /\ visits[w].at \in {"idle", "settled"} => visits'[w].at = visits[w].at
                          /\ visits[w].at # "idle" => visits'[w].at # "idle"
                          /\ visits'[w].overlapped = visits[w].overlapped
      ClosersRest == \A k \in Closers : closers[k] = 0 => closers'[k] = 0
      NoOverlap ==
        (\A v \in Visits : ~visits[v].overlapped) /\ (\A b \in DOMAIN browsers : ~browsers[b].overlapped)
          => \A b \in DOMAIN browsers' : ~browsers'[b].overlapped
      NoHandle ==
        activeBrowser = 0 /\ (\A v \in Visits : visits[v].at # "launching") => activeBrowser' = 0
      All == /\ DOMAIN visits' = Visits /\ DOMAIN closers' = Closers
             /\ VisitsMove /\ ClosersRest /\ NoOverlap /\ NoHandle
<1>2. ASSUME NEW v \in Visits, Launched(v)
      PROVE  All
  <2>1. /\ visits[v].at = "launching" /\ UNCHANGED closers
        /\ browsers' = Append(browsers, [up |-> TRUE, overlapped |-> visits[v].overlapped])
        /\ visits' = [visits EXCEPT ![v].at = "opening", ![v].browser = activeBrowser']
    BY <1>2 DEF Launched, InState
  <2>2. DOMAIN visits' = Visits /\ VisitsMove
    <3> DEFINE r == [visits[v] EXCEPT !.at = "opening", !.browser = activeBrowser']
    <3>1. visits[v] \in VisitRecords /\ DOMAIN visits = Visits
      BY <1>1
    <3>2. r.at = "opening" /\ r.overlapped = visits[v].overlapped
      BY <3>1 DEF VisitRecords
    <3>3. visits' = [visits EXCEPT ![v] = r]
      BY <2>1
    <3> HIDE DEF r
    <3>4. \A w \in Visits : visits'[w] = IF w = v THEN r ELSE visits[w]
      BY <3>1, <3>3
    <3>5. DOMAIN visits' = Visits
      BY <3>1, <3>3
    <3>6. QED
      BY <2>1, <3>2, <3>4, <3>5
  <2>3. NoOverlap
    <3>1. [up |-> TRUE, overlapped |-> visits[v].overlapped] \in Processes
      BY <1>1 DEF VisitRecords, Processes
    <3>2. /\ DOMAIN browsers' = 1..(Len(browsers) + 1) /\ DOMAIN browsers = 1..Len(browsers)
          /\ Len(browsers) \in Nat
          /\ browsers'[Len(browsers) + 1] = [up |-> TRUE, overlapped |-> visits[v].overlapped]
          /\ \A b \in 1..Len(browsers) : browsers'[b] = browsers[b]
      <4>1. IsSequence(browsers)
        BY <1>1 DEF IsSequence
      <4>2. QED
        BY <2>1, <4>1, AppendAnything
    <3>3. browsers'[Len(browsers) + 1].overlapped = visits[v].overlapped
      BY <3>2
    <3>4. \A b \in 1..(Len(browsers) + 1) : b = Len(browsers) + 1 \/ b \in 1..Len(browsers)
      BY <3>2
    <3>5. QED
      BY <3>2, <3>3, <3>4
  <2>4. ClosersRest /\ NoHandle /\ DOMAIN closers' = Closers
    BY <1>1, <2>1
  <2>5. QED
    BY <2>2, <2>3, <2>4
<1>3. ASSUME NEW v \in Visits, Opened(v) \/ Went(v) \/ PageClosed(v) \/ VisitFails(v)
      PROVE  All
  <2>1. UNCHANGED <<activeBrowser, browsers, closers>>
    BY <1>3 DEF Opened, Went, PageClosed, VisitFails
  <2>2. visits[v].at \in {"launching", "opening", "going", "closing"}
    BY <1>3 DEF Opened, Went, PageClosed, VisitFails, InState
  <2>3. \/ visits' = [visits EXCEPT ![v].at = "going"]
        \/ visits' = [visits EXCEPT ![v].at = "closing"]
        \/ visits' = [visits EXCEPT ![v].at = "settled", ![v].outcome = "SUCCESS"]
        \/ visits' = [visits EXCEPT ![v].at = "settled", ![v].outcome = "ERROR"]
    BY <1>3 DEF Opened, Went, PageClosed, VisitFails, Settle
  <2>4. DOMAIN visits' = Visits /\ VisitsMove
    <3> DEFINE Moved(r) == visits' = [visits EXCEPT ![v] = r]
               Same(r) == r.at # "idle" /\ r.overlapped = visits[v].overlapped
    <3>1. visits[v] \in VisitRecords /\ DOMAIN visits = Visits
      BY <1>1
    <3>2. ASSUME NEW place \in {"going", "closing"}, visits' = [visits EXCEPT ![v].at = place]
          PROVE  \E r : Moved(r) /\ Same(r)
      <4> DEFINE r == [visits[v] EXCEPT !.at = place]
      <4>1. Moved(r) /\ Same(r)
        BY <3>1, <3>2 DEF VisitRecords
      <4>2. QED
        BY <4>1
    <3>3. ASSUME NEW o, visits' = [visits EXCEPT ![v].at = "settled", ![v].outcome = o]
          PROVE  \E r : Moved(r) /\ Same(r)
      <4> DEFINE r == [visits[v] EXCEPT !.at = "settled", !.outcome = o]
      <4>1. Moved(r) /\ Same(r)
        BY <3>1, <3>3 DEF VisitRecords
      <4>2. QED
        BY <4>1
    <3>4. PICK r : visits' = [visits EXCEPT ![v] = r] /\ Same(r)
      BY <2>3, <3>2, <3>3
    <3>5. DOMAIN visits' = Visits /\ \A w \in Visits : visits'[w] = IF w = v THEN r ELSE visits[w]
      BY <3>1, <3>4
    <3>6. QED
      BY <2>2, <3>4, <3>5
  <2>5. QED
    BY <1>1, <2>1, <2>4
<1>4. ASSUME NEW b \in DOMAIN browsers, browsers' = [browsers EXCEPT ![b].up = FALSE]
      PROVE  NoOverlap
  <2>1. browsers[b] \in Processes
    BY <1>1
  <2>2. DOMAIN browsers' = DOMAIN browsers
        /\ \A d \in DOMAIN browsers : browsers'[d].overlapped = browsers[d].overlapped
    BY <1>4, <2>1 DEF Processes
  <2>3. QED
    BY <2>2
<1>5. ASSUME NEW b \in DOMAIN browsers, Crash(b)
      PROVE  All
  BY <1>1, <1>4, <1>5 DEF Crash
<1>6. ASSUME NEW k \in Closers, Closed(k)
      PROVE  All
  <2>1. closers[k] \in DOMAIN browsers
    BY <1>1, <1>6 DEF Closed
  <2>2. NoOverlap
    BY <1>4, <1>6, <2>1 DEF Closed
  <2>3. QED
    BY <1>1, <1>6, <2>2 DEF Closed
<1>7. ASSUME NEW k \in Closers, CloseFails(k)
      PROVE  All
  BY <1>1, <1>7 DEF CloseFails
<1>8. All
  BY <1>2, <1>3, <1>5, <1>6, <1>7 DEF BrowserGoesOn
<1>9. QED
  BY <1>1, <1>8

\* The tools of the programs that do not call them.
LEMMA OthersLeaveTools ==
  ASSUME script \in Programs \ {"researcher"}, FlowOK(script, program, messages), ProgramStep
  PROVE  ToolsIdle
<1>0. DOMAIN program = Fields /\ script \in Programs
  BY DEF FlowOK, IsProgram
<1>1. ASSUME NEW agent, NEW number, NEW tool, NEW arg, NEW msg, NEW onward,
             CallTool(agent, number, tool, arg, msg, onward)
      PROVE  ToolsIdle
  <2>1. PICK how, result : CallMade(how, result, agent, number, tool, msg, onward)
    BY <1>0, <1>1, CallBegins
  <2>2. "host.system.bash" \notin GateTools /\ "host.web.browser" \notin GateTools
    BY <1>0, Scripts
  <2>3. QED
    BY <2>1, <2>2 DEF CallMade
<1>2. CASE ExecuteTool
  <2>1. PICK agent, number, tool, arg, msg, onward : CallTool(agent, number, tool, arg, msg, onward)
    BY <1>2 DEF ExecuteTool
  <2>2. QED
    BY <1>1, <2>1
<1>3. CASE Probe
  <2>1. CallTool("worker-1", 99, "swarm.memory.read", "worker_2_result", 0, "probing")
    BY <1>3 DEF Probe
  <2>2. QED
    BY <1>1, <2>1
<1>4. CASE Complete
  BY <1>4 DEF Complete, ToolsIdle
<1>5. CASE Spawn \/ BeginTurn \/ Think \/ SkipTool \/ EndTurn \/ Pause \/ LeaveLoop \/ ComesBack
  BY <1>5 DEF Spawn, BeginTurn, Think, SkipTool, EndTurn, Pause, LeaveLoop, ComesBack, SettleTool,
              RefuseTool, TerminalReturns, Quit, Silent
<1>6. CASE BootHost \/ Announce \/ ReportTick \/ RequestTool
  BY <1>6 DEF BootHost, Announce, ReportTick, RequestTool, Emit
<1>7. QED
  BY <1>2, <1>3, <1>4, <1>5, <1>6
     DEF ProgramStep, BootstrapFullEcosystem, BootstrapSWE, BootstrapResearcher, BootstrapSwarm

ToolsNow == ToolsOK(script, program, bash, activeBrowser, browsers, visits, closers)
ToolsThen(p) == ToolsOK(script, p, bash', activeBrowser', browsers', visits', closers')

LEMMA OthersKeepTools ==
  ASSUME script \in Programs \ {"researcher"}, FlowOK(script, program, messages), ProgramStep,
         program.at # "quit", ToolsNow
  PROVE  ToolsThen(program')
<1>1. ToolsOK(script, program', bash, activeBrowser, browsers, visits, closers)
  BY ToolsStay DEF ToolsNow
<1>2. UNCHANGED <<bash, activeBrowser, browsers, visits, closers>>
  BY OthersLeaveTools DEF ToolsIdle, browserVars
<1>3. QED
  BY <1>1, <1>2 DEF ToolsThen

\* The steps of researcher.ts that neither ask for a tool nor get its answer.
LEMMA MovingKeepsTools ==
  ASSUME script = "researcher", FlowOK(script, program, messages), program.at # "quit", ToolsNow,
         DOMAIN closers = Closers,
         \/ BootHost \/ Spawn \/ BeginTurn \/ RequestTool \/ EndTurn \/ Pause
         \/ CloseAwaited \/ Quit
  PROVE  ToolsThen(program')
<1> DEFINE p == program
           q == program'
<1>1. /\ DOMAIN p = Fields /\ p.turn \in Nat /\ p.turn >= 1
      /\ p.at \in {"off", "spawning"} => p.turn = 1
  BY DEF FlowOK, IsProgram, CounterOK
<1>2. UNCHANGED <<bash, activeBrowser, browsers, visits, closers>>
  BY DEF BootHost, Spawn, BeginTurn, RequestTool, EndTurn, Pause, CloseAwaited, Quit, Silent, Emit,
         ToolsIdle, browserVars
<1>3. q.pending = p.pending
  BY <1>1 DEF BootHost, Spawn, BeginTurn, RequestTool, EndTurn, Pause, CloseAwaited, Quit, Fields
<1>4. \/ q.turn = p.turn /\ p.at = "off" /\ q.at = "spawning"
      \/ q.turn = p.turn /\ p.at = "spawning" /\ q.at = "turning"
      \/ q.turn = p.turn /\ p.at = "turning" /\ q.at \in {"ticked", "ending"}
      \/ q.turn = p.turn /\ p.at = "ticked" /\ q.at = "calling"
      \/ q.turn = p.turn /\ p.at = "after" /\ q.at = "pausing"
      \/ q.at = "quit"
      \/ q.turn = p.turn + 1 /\ p.at = "pausing" /\ q.at = "turning"
      \/ /\ p.at = "closing" /\ q.at \in {"done", "failed"} /\ (q.at = "done" => activeBrowser = 0)
         /\ \A k \in Closers : closers[k] = 0
  <2>1. CASE BootHost
    BY <1>1, <2>1 DEF BootHost, Runs, Fields
  <2>2. CASE Spawn
    BY <1>1, <2>2 DEF Spawn, Runs, Fields
  <2>3. CASE BeginTurn
    <3>1. ~Thinks
      BY DEF Thinks
    <3>2. QED
      BY <1>1, <2>3, <3>1 DEF BeginTurn, Runs, Fields
  <2>4. CASE RequestTool
    BY <1>1, <2>4 DEF RequestTool, Runs, Fields
  <2>5. CASE EndTurn
    BY <1>1, <2>5 DEF EndTurn, Runs, Fields
  <2>6. CASE Pause
    BY <1>1, <2>6 DEF Pause, Woken, Runs, Fields
  <2>7. CASE CloseAwaited
    BY <1>1, <2>7 DEF CloseAwaited, Runs, Fields
  <2>8. CASE Quit
    BY <1>1, <2>8 DEF Quit, Fields
  <2>9. QED
    BY <2>1, <2>2, <2>3, <2>4, <2>5, <2>6, <2>7, <2>8
<1>5. FirstCall(q) => FirstCall(p)
  BY <1>1, <1>4 DEF FirstCall
<1>6. FirstVisit(q) => FirstVisit(p)
  <2>1. CASE q.turn = p.turn + 1 /\ p.at = "pausing" /\ q.at = "turning"
    <3>1. p.turn + 1 # 1 /\ (p.turn + 1 = 2 => p.turn = 1)
      BY <1>1
    <3>2. QED
      BY <2>1, <3>1 DEF FirstVisit
  <2>2. CASE q.turn = p.turn
    <3>1. p.turn # p.turn + 1
      BY <1>1
    <3>2. QED
      BY <1>1, <1>4, <2>2, <3>1 DEF FirstVisit
  <2>3. CASE q.at \in {"done", "failed", "quit"}
    BY <2>3 DEF FirstVisit
  <2>4. QED
    BY <1>4, <2>1, <2>2, <2>3
<1>7. ToolsOK(script, q, bash, activeBrowser, browsers, visits, closers)
  <2>1. CASE q.at = "quit"
    <3>1. ~FirstCall(q) /\ ~FirstVisit(q)
      BY <2>1 DEF FirstCall, FirstVisit
    <3>2. QED
      BY <2>1, <3>1 DEF ToolsNow, ToolsOK, CommandsOK, BrowsersOK
  <2>2. CASE q.at # "quit"
    <3>1. p.at = "closing" => (\A k \in Closers : closers[k] = 0) /\ (q.at = "done" => activeBrowser = 0)
      BY <1>4, <2>2
    <3>2. q.at = "done" => p.at = "closing"
      BY <1>4
    <3>3. p.at = "closing" => q.at # "closing"
      BY <1>4, <2>2
    <3>5. \A k \in DOMAIN closers : p.at = "closing" => closers[k] = 0
      BY <3>1
    <3>6. script \in Programs
      BY DEF Programs
    <3> HIDE DEF p, q
    <3>7. /\ q.pending.how # "bash" => p.pending.how # "bash" \/ AtRestOf(bash)
          /\ q.pending.how # "browser" => p.pending.how # "browser" \/ AtRestOf(visits)
          /\ q.at \notin {"closing", "quit"} => p.at # "closing" \/ \A k \in DOMAIN closers : closers[k] = 0
          /\ q.at = "done" => p.at = "done" \/ activeBrowser = 0
      BY <1>3, <3>1, <3>2, <3>5
    <3>8. p.at # "quit" /\ ToolsOK(script, p, bash, activeBrowser, browsers, visits, closers)
      BY DEF ToolsNow, p
    <3>9. QED
      BY <1>5, <1>6, <3>6, <3>7, <3>8, ToolsStay
  <2>3. QED
    BY <2>1, <2>2
<1>8. QED
  BY <1>2, <1>7 DEF ToolsThen

\* It asks for a tool: for bash first, then for the browser.
LEMMA AskingKeepsTools ==
  ASSUME script = "researcher", FlowOK(script, program, messages), FlowOK(script, program', messages),
         program.at # "quit", ToolsNow, SInv, BInv, ExecuteTool
  PROVE  ToolsThen(program')
<1> DEFINE p == program
           q == program'
<1>1. /\ DOMAIN p = Fields /\ p.at = "calling" /\ script \in Programs /\ AwaitsGate
      /\ p.turn \in Nat
  BY DEF FlowOK, IsProgram, CounterOK, ExecuteTool, Runs, Programs, AwaitsGate
<1>2. PICK agent, number, tool, arg, msg :
        CallTool(agent, number, tool, arg, msg, "awaiting")
  BY <1>1 DEF ExecuteTool
<1>3. PICK how, result : CallMade(how, result, agent, number, tool, msg, "awaiting")
  BY <1>1, <1>2, CallBegins
<1>4. q.at = "awaiting" /\ q.turn = p.turn /\ q.pending.how = how
  <2>1. q.pending = [how |-> how, agent |-> agent, tick |-> number, tool |-> tool,
                     result |-> result, msg |-> msg]
    BY <1>3 DEF CallMade
  <2>2. q.pending.how = how
    BY <2>1
  <2>3. q.at = "awaiting" /\ q.turn = p.turn
    BY <1>1, <1>3 DEF CallMade
  <2>4. QED
    BY <2>2, <2>3
<1>5. p.pending = Nothing
  BY <1>1, NothingElsewhere
<1>6. /\ how = "bash" => p.turn = 1
      /\ how = "browser" => p.turn = 2
      /\ how \in {"at once", "refused", "bash", "browser"}
  <2>1. q.pending = Nothing \/ PendingWhere(script, q)
    BY DEF FlowOK, PendingOK
  <2>2. how \in {"at once", "refused", "bash", "browser"}
    BY <1>3 DEF CallMade
  <2>3. q.pending # Nothing
    <3>1. Nothing.how = "none"
      BY DEF Nothing
    <3>2. QED
      BY <1>4, <2>2, <3>1
  <2>4. QED
    BY <1>4, <2>1, <2>2, <2>3 DEF PendingWhere
<1>7. ~FirstCall(q) /\ (FirstVisit(q) => FirstVisit(p))
  BY <1>1, <1>4 DEF FirstCall, FirstVisit
<1>8. /\ AtRestOf(bash) /\ AtMostOne(bash) /\ AtRestOf(visits) /\ AtMostOne(visits)
      /\ FirstCall(p) => Unasked(bash)
      /\ FirstVisit(p) => Unasked(visits)
      /\ \A k \in DOMAIN closers : closers[k] = 0
      /\ \A v \in DOMAIN visits : ~visits[v].overlapped
      /\ \A b \in DOMAIN browsers : ~browsers[b].overlapped
  <2>1. p.pending.how \notin {"bash", "browser"}
    BY <1>5 DEF Nothing
  <2>2. QED
    BY <1>1, <2>1 DEF ToolsNow, ToolsOK, CommandsOK, BrowsersOK
<1>9. CASE how \in {"at once", "refused"}
  <2>1. UNCHANGED <<bash, activeBrowser, browsers, visits, closers>>
    BY <1>3, <1>9 DEF CallMade, ToolsIdle, browserVars
  <2>2. CommandsOK(script, q, bash')
    BY <1>7, <1>8, <2>1 DEF CommandsOK
  <2>3. BrowsersOK(script, q, activeBrowser', browsers', visits', closers')
    BY <1>4, <1>7, <1>8, <2>1 DEF BrowsersOK
  <2>4. QED
    BY <2>2, <2>3 DEF ToolsThen, ToolsOK
<1>10. CASE how = "bash"
  <2>1. PICK c \in Calls : Call(c)
    BY <1>3, <1>10 DEF CallMade
  <2>2. UNCHANGED <<activeBrowser, browsers, visits, closers>>
    BY <1>3, <1>10 DEF CallMade, browserVars
  <2>3. Unasked(bash)
    BY <1>1, <1>6, <1>8, <1>10 DEF FirstCall
  <2>4. PICK r : bash' = [bash EXCEPT ![c] = r]
    BY <2>1 DEF Call, Set
  <2>5. DOMAIN bash = Calls
    BY DEF SInv
  <2>6. AtMostOne(bash')
    BY <2>3, <2>4, <2>5 DEF AtMostOne, Unasked
  <2>7. CommandsOK(script, q, bash')
    BY <1>4, <1>7, <1>10, <2>6 DEF CommandsOK
  <2>8. BrowsersOK(script, q, activeBrowser', browsers', visits', closers')
    BY <1>4, <1>7, <1>8, <2>2 DEF BrowsersOK
  <2>9. QED
    BY <2>7, <2>8 DEF ToolsThen, ToolsOK
<1>11. CASE how = "browser"
  <2>1. PICK v \in Visits : Visit(v)
    BY <1>3, <1>11 DEF CallMade
  <2>2. UNCHANGED bash
    BY <1>3, <1>11 DEF CallMade
  <2>3. UNCHANGED <<activeBrowser, browsers, closers>>
    BY <2>1 DEF Visit
  <2>4. Unasked(visits)
    BY <1>1, <1>6, <1>8, <1>11 DEF FirstVisit
  <2>5. visits \in [Visits -> VisitRecords] /\ DOMAIN visits = Visits /\ DOMAIN closers = Closers
    BY DEF BInv, BrowserTypeOK
  <2>6. DOMAIN visits' = Visits /\ \A w \in Visits : ~visits'[w].overlapped
                                      /\ (w # v => visits'[w].at = visits[w].at)
    <3>1. CASE activeBrowser = 0
      <4>1. Overlaps(v) = {}
        BY <1>8, <2>4, <2>5 DEF Overlaps, InState, Unasked
      <4>2. visits' = [w \in Visits |-> [visits[w] EXCEPT !.overlapped = @ \/ w \in Overlaps(v),
                                                          !.at = IF w = v THEN "launching" ELSE @]]
        BY <2>1, <3>1 DEF Visit, Launch
      <4>3. ASSUME NEW w \in Visits
            PROVE  /\ ~visits'[w].overlapped
                   /\ (w # v => visits'[w].at = visits[w].at)
        <5>1. visits[w] \in VisitRecords /\ ~visits[w].overlapped
          BY <1>8, <2>5
        <5>2. visits'[w] = [visits[w] EXCEPT !.overlapped = @ \/ w \in Overlaps(v),
                                             !.at = IF w = v THEN "launching" ELSE @]
          BY <4>2
        <5>3. /\ visits'[w].overlapped = (visits[w].overlapped \/ w \in Overlaps(v))
              /\ visits'[w].at = IF w = v THEN "launching" ELSE visits[w].at
          BY <5>1, <5>2 DEF VisitRecords
        <5>4. QED
          BY <4>1, <5>1, <5>3
      <4>4. QED
        BY <4>2, <4>3
    <3>2. CASE activeBrowser # 0
      <4>1. visits' = [visits EXCEPT ![v].at = "opening", ![v].browser = activeBrowser]
        BY <2>1, <3>2 DEF Visit
      <4> DEFINE r == [visits[v] EXCEPT !.at = "opening", !.browser = activeBrowser]
      <4>2. visits' = [visits EXCEPT ![v] = r] /\ r.overlapped = visits[v].overlapped
        BY <2>5, <4>1 DEF VisitRecords
      <4> HIDE DEF r
      <4>3. QED
        BY <1>8, <2>5, <4>2
    <3>3. QED
      BY <3>1, <3>2
  <2>7. AtMostOne(visits')
    BY <2>4, <2>5, <2>6 DEF AtMostOne, Unasked
  <2>8. ~FirstVisit(q)
    <3>1. q.turn = 2
      BY <1>4, <1>6, <1>11
    <3>2. QED
      BY <1>4, <3>1 DEF FirstVisit
  <2>9. BrowsersOK(script, q, activeBrowser', browsers', visits', closers')
    BY <1>4, <1>8, <1>11, <2>3, <2>6, <2>7, <2>8 DEF BrowsersOK
  <2>10. CommandsOK(script, q, bash')
    BY <1>7, <1>8, <2>2 DEF CommandsOK
  <2>11. QED
    BY <2>9, <2>10 DEF ToolsThen, ToolsOK
<1>12. QED
  BY <1>6, <1>9, <1>10, <1>11

\* It has the answer: the only call is settled.
LEMMA AnswersKeepTools ==
  ASSUME script = "researcher", FlowOK(script, program, messages), program.at # "quit", ToolsNow,
         SInv, BInv, SettleTool \/ RefuseTool
  PROVE  ToolsThen(program')
<1> DEFINE p == program
           q == program'
<1>1. UNCHANGED <<bash, activeBrowser, browsers, visits, closers>>
  BY DEF SettleTool, RefuseTool, Silent, ToolsIdle, browserVars
<1>2. DOMAIN p = Fields
  BY DEF FlowOK, IsProgram
<1>3. p.pending.how \in {"at once", "refused"} \/ Answered # {}
  BY DEF SettleTool, RefuseTool
<1>4. p.at = "awaiting"
  <2>1. p.pending.how # "none"
    BY <1>3 DEF Answered
  <2>2. p.pending # Nothing
    BY <2>1 DEF Nothing
  <2>3. PendingWhere(script, p) /\ p.at \in PlacesOf(script)
    BY <2>2 DEF FlowOK, PendingOK, CounterOK
  <2>4. QED
    BY <2>3 DEF PendingWhere, PlacesOf
<1>5. q.at = "after" /\ q.pending = Nothing /\ q.turn = p.turn
  <2>1. ASSUME NEW r, DOMAIN r = Fields, r.at = p.at, r.turn = p.turn
        PROVE  /\ Resumed(r).at = "after" /\ Resumed(r).pending = Nothing
               /\ Resumed(r).turn = p.turn
    BY <1>4, <2>1 DEF Resumed, Fields
  <2>2. CASE SettleTool
    <3>1. PICK result : q = Resumed([p EXCEPT !.log = Append(@, [p.pending EXCEPT !.result = result])])
      BY <2>2 DEF SettleTool
    <3> DEFINE r == [p EXCEPT !.log = Append(@, [p.pending EXCEPT !.result = result])]
    <3>2. DOMAIN r = Fields /\ r.at = p.at /\ r.turn = p.turn /\ q = Resumed(r)
      BY <1>2, <3>1 DEF Fields
    <3> HIDE DEF r
    <3>3. QED
      BY <2>1, <3>2
  <2>3. CASE RefuseTool
    <3> DEFINE r == [p EXCEPT !.refused = @ \cup {p.pending.msg}]
    <3>1. q = Resumed(r)
      BY <2>3 DEF RefuseTool
    <3>2. DOMAIN r = Fields /\ r.at = p.at /\ r.turn = p.turn
      BY <1>2 DEF Fields
    <3> HIDE DEF r
    <3>3. QED
      BY <2>1, <3>1, <3>2
  <2>4. QED
    BY <2>2, <2>3
<1>6. /\ AtMostOne(bash) /\ AtMostOne(visits)
      /\ p.pending.how # "bash" => AtRestOf(bash)
      /\ p.pending.how # "browser" => AtRestOf(visits)
      /\ FirstVisit(p) => Unasked(visits)
      /\ \A k \in DOMAIN closers : closers[k] = 0
      /\ \A v \in DOMAIN visits : ~visits[v].overlapped
      /\ \A b \in DOMAIN browsers : ~browsers[b].overlapped
  BY <1>4 DEF ToolsNow, ToolsOK, CommandsOK, BrowsersOK
<1>7. AtRestOf(bash)
  <2>1. CASE p.pending.how = "bash"
    <3>1. PICK c \in Calls : bash[c].at = "settled"
      BY <1>3, <2>1 DEF Answered, At
    <3>2. c \in DOMAIN bash
      BY DEF SInv
    <3>3. QED
      BY <1>6, <3>1, <3>2 DEF AtMostOne, AtRestOf
  <2>2. QED
    BY <1>6, <2>1
<1>8. AtRestOf(visits)
  <2>1. CASE p.pending.how = "browser"
    <3>1. PICK v \in Visits : visits[v].at = "settled"
      BY <1>3, <2>1 DEF Answered, InState
    <3>2. v \in DOMAIN visits
      BY DEF BInv, BrowserTypeOK
    <3>3. QED
      BY <1>6, <3>1, <3>2 DEF AtMostOne, AtRestOf
  <2>2. QED
    BY <1>6, <2>1
<1>9. ~FirstCall(q) /\ (FirstVisit(q) => FirstVisit(p))
  BY <1>4, <1>5 DEF FirstCall, FirstVisit
<1>10. CommandsOK(script, q, bash')
  BY <1>1, <1>6, <1>7, <1>9 DEF CommandsOK
<1>11. BrowsersOK(script, q, activeBrowser', browsers', visits', closers')
  BY <1>1, <1>5, <1>6, <1>8, <1>9 DEF BrowsersOK
<1>12. QED
  BY <1>10, <1>11 DEF ToolsThen, ToolsOK

\* It ends: with a browser, it waits for it to close.
LEMMA CompletingKeepsTools ==
  ASSUME script = "researcher", FlowOK(script, program, messages), program.at # "quit", ToolsNow,
         Complete
  PROVE  ToolsThen(program')
<1> DEFINE p == program
           q == program'
<1>1. DOMAIN p = Fields /\ p.at = "ending" /\ p.pending = Nothing
  <2>1. p.at = "ending" /\ script \in Programs
    BY DEF Complete, Runs, Programs
  <2>2. p.pending = Nothing
    BY <2>1, NothingElsewhere
  <2>3. QED
    BY <2>1, <2>2 DEF FlowOK, IsProgram
<1>2. /\ q.pending = Nothing
      /\ q.at = IF activeBrowser # 0 THEN "closing" ELSE "done"
  BY <1>1 DEF Complete, Fields
<1>3. UNCHANGED <<bash, activeBrowser, browsers, visits>>
      /\ (activeBrowser = 0 => UNCHANGED closers)
  BY DEF Complete, closeBrowser, browserVars
<1>4. /\ AtMostOne(bash) /\ AtMostOne(visits) /\ AtRestOf(bash) /\ AtRestOf(visits)
      /\ \A k \in DOMAIN closers : closers[k] = 0
      /\ \A v \in DOMAIN visits : ~visits[v].overlapped
      /\ \A b \in DOMAIN browsers : ~browsers[b].overlapped
  <2>1. p.pending.how \notin {"bash", "browser"}
    BY <1>1 DEF Nothing
  <2>2. QED
    BY <1>1, <2>1 DEF ToolsNow, ToolsOK, CommandsOK, BrowsersOK
<1>5. ~FirstCall(q) /\ ~FirstVisit(q)
  BY <1>2 DEF FirstCall, FirstVisit
<1>6. CommandsOK(script, q, bash')
  BY <1>3, <1>4, <1>5 DEF CommandsOK
<1>7. BrowsersOK(script, q, activeBrowser', browsers', visits', closers')
  BY <1>2, <1>3, <1>4, <1>5 DEF BrowsersOK
<1>8. QED
  BY <1>6, <1>7 DEF ToolsThen, ToolsOK

\* Its tools go on.
LEMMA GoingOnKeepsTools ==
  ASSUME script = "researcher", FlowOK(script, program, messages), program.at # "quit", ToolsNow,
         SInv, BInv, ToolsGoOn
  PROVE  ToolsThen(program')
<1> DEFINE p == program
<1>1. UNCHANGED program /\ \/ SandboxGoesOn /\ UNCHANGED browserVars
                           \/ BrowserGoesOn /\ UNCHANGED bash
  BY DEF ToolsGoOn
<1>2. CommandsOK(script, p, bash) /\ BrowsersOK(script, p, activeBrowser, browsers, visits, closers)
  BY DEF ToolsNow, ToolsOK
<1>3. CASE SandboxGoesOn /\ UNCHANGED browserVars
  <2>1. /\ DOMAIN bash = Calls /\ DOMAIN bash' = Calls
        /\ \A c \in Calls : /\ bash[c].at \in {"idle", "settled"} => bash'[c].at = bash[c].at
                            /\ bash[c].at # "idle" => bash'[c].at # "idle"
    BY <1>3, CommandsGoOn
  <2>2. Unasked(bash) => Unasked(bash')
    BY <2>1 DEF Unasked
  <2>3. AtRestOf(bash) => AtRestOf(bash')
    BY <2>1 DEF AtRestOf
  <2>4. AtMostOne(bash) => AtMostOne(bash')
    BY <2>1 DEF AtMostOne
  <2>5. CommandsOK(script, p, bash')
    BY <1>2, <2>2, <2>3, <2>4 DEF CommandsOK
  <2>6. UNCHANGED <<activeBrowser, browsers, visits, closers>>
    BY <1>3 DEF browserVars
  <2>7. QED
    BY <1>1, <1>2, <2>5, <2>6 DEF ToolsThen, ToolsOK
<1>4. CASE BrowserGoesOn /\ UNCHANGED bash
  <2>1. /\ DOMAIN visits = Visits /\ DOMAIN visits' = Visits
        /\ DOMAIN closers = Closers /\ DOMAIN closers' = Closers
        /\ \A v \in Visits : /\ visits[v].at \in {"idle", "settled"} => visits'[v].at = visits[v].at
                             /\ visits[v].at # "idle" => visits'[v].at # "idle"
                             /\ visits'[v].overlapped = visits[v].overlapped
        /\ \A k \in Closers : closers[k] = 0 => closers'[k] = 0
        /\ (\A v \in Visits : ~visits[v].overlapped) /\ (\A b \in DOMAIN browsers : ~browsers[b].overlapped)
             => \A b \in DOMAIN browsers' : ~browsers'[b].overlapped
        /\ activeBrowser = 0 /\ (\A v \in Visits : visits[v].at # "launching") => activeBrowser' = 0
    BY <1>4, BrowserGoesOnKeeps
  <2>2. Unasked(visits) => Unasked(visits')
    BY <2>1 DEF Unasked
  <2>3. AtRestOf(visits) => AtRestOf(visits')
    BY <2>1 DEF AtRestOf
  <2>4. AtMostOne(visits) => AtMostOne(visits')
    BY <2>1 DEF AtMostOne
  <2>5. (\A k \in DOMAIN closers : closers[k] = 0) => \A k \in DOMAIN closers' : closers'[k] = 0
    BY <2>1
  <2>6. /\ \A v \in DOMAIN visits' : ~visits'[v].overlapped
        /\ \A b \in DOMAIN browsers' : ~browsers'[b].overlapped
    BY <1>2, <2>1 DEF BrowsersOK
  <2>7. p.at = "done" => activeBrowser' = 0
    <3>1. SUFFICES ASSUME p.at = "done" PROVE activeBrowser' = 0
      OBVIOUS
    <3>2. script \in Programs
      BY DEF Programs
    <3>3. p.pending = Nothing
      BY <3>1, <3>2, NothingElsewhere
    <3>4. p.pending.how # "browser"
      BY <3>3 DEF Nothing
    <3>5. AtRestOf(visits) /\ activeBrowser = 0
      BY <1>2, <3>1, <3>4 DEF BrowsersOK
    <3>6. \A v \in Visits : visits[v].at # "launching"
      BY <2>1, <3>5 DEF AtRestOf
    <3>7. QED
      BY <2>1, <3>5, <3>6
  <2>8. BrowsersOK(script, p, activeBrowser', browsers', visits', closers')
    BY <1>2, <2>2, <2>3, <2>4, <2>5, <2>6, <2>7 DEF BrowsersOK
  <2>9. QED
    BY <1>1, <1>2, <1>4, <2>8 DEF ToolsThen, ToolsOK
<1>5. QED
  BY <1>1, <1>3, <1>4

LEMMA ProgramKeepsTools ==
  ASSUME script \in Programs, FlowOK(script, program, messages), FlowOK(script, program', messages'),
         program.at # "quit", ToolsNow, SInv, BInv, ProgramStep
  PROVE  ToolsThen(program')
<1>1. CASE script # "researcher"
  BY <1>1, OthersKeepTools
<1>2. CASE script = "researcher"
  <2>1. DOMAIN closers = Closers
    BY DEF BInv, BrowserTypeOK
  <2>2. CASE BootHost \/ Spawn \/ BeginTurn \/ RequestTool \/ EndTurn \/ Pause \/ CloseAwaited \/ Quit
    BY <1>2, <2>1, <2>2, MovingKeepsTools
  <2>3. CASE ExecuteTool
    <3>1. UNCHANGED messages
      BY <2>3 DEF ExecuteTool, deliveryVars
    <3>2. FlowOK(script, program', messages)
      BY <3>1
    <3>3. QED
      BY <1>2, <2>3, <3>2, AskingKeepsTools
  <2>4. CASE SettleTool \/ RefuseTool
    BY <1>2, <2>4, AnswersKeepTools
  <2>5. CASE Complete
    BY <1>2, <2>5, CompletingKeepsTools
  <2>6. CASE ToolsGoOn
    BY <1>2, <2>6, GoingOnKeepsTools
  <2>7. CASE TerminalReturns
    <3>1. UNCHANGED <<program, bash, activeBrowser, browsers, visits, closers>>
      BY <2>7 DEF TerminalReturns, ToolsIdle, browserVars
    <3>2. QED
      BY <3>1 DEF ToolsNow, ToolsThen
  <2>8. QED
    BY <1>2, <2>2, <2>3, <2>4, <2>5, <2>6, <2>7
       DEF ProgramStep, BootstrapFullEcosystem, BootstrapSWE, BootstrapResearcher, BootstrapSwarm,
           ComesBack
<1>3. QED
  BY <1>1, <1>2

-----------------------------------------------------------------------------
\* The lifecycle states of a program's agents.
LEMMA Transits ==
  ASSUME NEW row \in VALID_TRANSITIONS
  PROVE  RowFor(row[1], row[2]).to = row[3]
<1> DEFINE r == [from |-> row[1], trigger |-> row[2], to |-> row[3]]
           found == RowFor(row[1], row[2])
<1>1. r \in Rows /\ r.from = row[1] /\ r.trigger = row[2] /\ r.to = row[3]
  BY DEF Rows
<1> HIDE DEF r
<1>2. found \in Rows /\ found.from = row[1] /\ found.trigger = row[2]
  BY <1>1 DEF RowFor
<1> HIDE DEF found
<1>3. found = r
  BY <1>1, <1>2, TableIsDeterministic
<1>4. QED
  BY <1>1, <1>3 DEF found

LEMMA LifeOfAgents ==
  /\ RowFor(RowFor("DEFINED", "spawn").to, "activate").to = "ACTIVE"
  /\ RowFor(RowFor("ACTIVE", "complete").to, "teardown_ok").to = "TERMINATED"
<1>1. /\ <<"DEFINED", "spawn", "SPAWNED">> \in VALID_TRANSITIONS
      /\ <<"SPAWNED", "activate", "ACTIVE">> \in VALID_TRANSITIONS
      /\ <<"ACTIVE", "complete", "COMPLETING">> \in VALID_TRANSITIONS
      /\ <<"COMPLETING", "teardown_ok", "TERMINATED">> \in VALID_TRANSITIONS
  BY DEF VALID_TRANSITIONS
<1>2. RowFor("DEFINED", "spawn").to = "SPAWNED"
  BY <1>1, Transits
<1>3. RowFor("SPAWNED", "activate").to = "ACTIVE"
  BY <1>1, Transits
<1>4. RowFor("ACTIVE", "complete").to = "COMPLETING"
  BY <1>1, Transits
<1>5. RowFor("COMPLETING", "teardown_ok").to = "TERMINATED"
  BY <1>1, Transits
<1>6. QED
  BY <1>2, <1>3, <1>4, <1>5

LEMMA Terminates ==
  ASSUME NEW s, NEW a \in DOMAIN s, s[a] = "ACTIVE"
  PROVE  /\ DOMAIN Terminate(a, s) = DOMAIN s
         /\ \A b \in DOMAIN s : Terminate(a, s)[b] = IF b = a THEN "TERMINATED" ELSE s[b]
<1> DEFINE t == Drive(a, "complete", s)
<1>1. DOMAIN t = DOMAIN s /\ \A b \in DOMAIN s : t[b] = IF b = a THEN RowFor(s[b], "complete").to ELSE s[b]
  BY DEF Drive
<1> HIDE DEF t
<1>2. Terminate(a, s) = Drive(a, "teardown_ok", t)
  BY DEF Terminate, t
<1>3. /\ DOMAIN Terminate(a, s) = DOMAIN t
      /\ \A b \in DOMAIN t : Terminate(a, s)[b] = IF b = a THEN RowFor(t[b], "teardown_ok").to ELSE t[b]
  BY <1>2 DEF Drive
<1>4. QED
  BY <1>1, <1>3, LifeOfAgents

\* The last turn of an agent of swarm.ts.
Ended(a) == IF a = "worker-1" THEN 8 ELSE IF a = "worker-2" THEN 9 ELSE 10

Unspawned == {"off", "announcing", "spawning"}
Completed == {"closing", "done"}

Expected(w, p, a) ==
  IF p.at \in Unspawned THEN "DEFINED"
  ELSE IF \/ w = "swarm" /\ (Ended(a) < p.turn \/ (Ended(a) = p.turn /\ p.at = "pausing"))
          \/ w # "swarm" /\ p.at \in Completed
    THEN "TERMINATED" ELSE "ACTIVE"

StatesOK(w, p) ==
  w # "swe" /\ p.at \notin {"quit", "failed", "dead"} =>
    DOMAIN p.states = CrewOf(w) /\ \A a \in CrewOf(w) : p.states[a] = Expected(w, p, a)

\* Steps that leave the states, where the same are expected.
SameStates(w, p, q) ==
  /\ q.states = p.states
  /\ \/ q.at \in {"quit", "failed", "dead"}
     \/ /\ p.at \notin {"quit", "failed", "dead"}
        /\ p.at \in Unspawned <=> q.at \in Unspawned
        /\ \/ w = "swarm" /\ q.turn = p.turn /\ (p.at = "pausing" <=> q.at = "pausing")
           \/ w = "swarm" /\ q.turn = p.turn + 1 /\ p.at = "pausing" /\ q.at # "pausing"
           \/ w # "swarm" /\ (p.at \in Completed <=> q.at \in Completed)

LEMMA StatesStay ==
  ASSUME NEW w \in Programs, NEW p, NEW q, StatesOK(w, p), SameStates(w, p, q), p.turn \in Nat
  PROVE  StatesOK(w, q)
<1> SUFFICES ASSUME w # "swe", q.at \notin {"quit", "failed", "dead"}
             PROVE  DOMAIN q.states = CrewOf(w) /\ \A a \in CrewOf(w) : q.states[a] = Expected(w, q, a)
  BY DEF StatesOK
<1>1. /\ p.at \notin {"quit", "failed", "dead"} /\ (p.at \in Unspawned <=> q.at \in Unspawned)
      /\ \/ w = "swarm" /\ q.turn = p.turn /\ (p.at = "pausing" <=> q.at = "pausing")
         \/ w = "swarm" /\ q.turn = p.turn + 1 /\ p.at = "pausing" /\ q.at # "pausing"
         \/ w # "swarm" /\ (p.at \in Completed <=> q.at \in Completed)
      /\ q.states = p.states
  BY DEF SameStates
<1>2. DOMAIN p.states = CrewOf(w) /\ \A a \in CrewOf(w) : p.states[a] = Expected(w, p, a)
  BY <1>1 DEF StatesOK
<1>3. ASSUME NEW a \in CrewOf(w)
      PROVE  Expected(w, q, a) = Expected(w, p, a)
  <2>1. Ended(a) \in Nat
    BY DEF Ended
  <2>2. Ended(a) < p.turn + 1 <=> (Ended(a) < p.turn \/ Ended(a) = p.turn)
    BY <2>1
  <2>3. CASE w = "swarm" /\ q.turn = p.turn /\ (p.at = "pausing" <=> q.at = "pausing")
    BY <1>1, <2>3 DEF Expected
  <2>4. CASE w = "swarm" /\ q.turn = p.turn + 1 /\ p.at = "pausing" /\ q.at # "pausing"
    BY <1>1, <2>2, <2>4 DEF Expected
  <2>5. CASE w # "swarm" /\ (p.at \in Completed <=> q.at \in Completed)
    BY <1>1, <2>5 DEF Expected
  <2>6. QED
    BY <1>1, <2>3, <2>4, <2>5
<1>4. QED
  BY <1>1, <1>2, <1>3

\* When swarm.ts ends its agents.
LEMMA SwarmEnds ==
  ASSUME NEW t \in 1..10
  PROVE  /\ OutputAt("swarm", t).kind = "COMPLETED" <=> t >= 8
         /\ AgentAt("swarm", t) \in CrewOf("swarm")
         /\ t >= 8 => \A a \in CrewOf("swarm") : Ended(a) = t <=> a = AgentAt("swarm", t)
         /\ t < 8 => \A a \in CrewOf("swarm") : Ended(a) > t
<1>1. OutputAt("swarm", t).kind = "COMPLETED" <=>
               {d \in SwarmCalls : d[1] = SwarmTurns[t][1] /\ d[2] = SwarmTurns[t][2]} = {}
  <2> DEFINE Its == {d \in SwarmCalls : d[1] = SwarmTurns[t][1] /\ d[2] = SwarmTurns[t][2]}
             i == SwarmInstruction(SwarmTurns[t][1], SwarmTurns[t][2])
  <2>1. OutputAt("swarm", t).kind = OutputKind[i.kind]
    BY DEF OutputAt, runTick
  <2>2. i = IF Its = {} THEN Return("DONE")
            ELSE ToolCall((CHOOSE c \in Its : TRUE)[3], (CHOOSE c \in Its : TRUE)[4])
    BY DEF SwarmInstruction
  <2>3. \A x, y : Return(x).kind = "RETURN" /\ ToolCall(x, y).kind = "CALL_TOOL"
    BY DEF Return, ToolCall
  <2>4. OutputKind["RETURN"] = "COMPLETED" /\ OutputKind["CALL_TOOL"] = "PENDING_TOOL"
    BY DEF OutputKind
  <2> HIDE DEF i, Its
  <2>5. CASE Its = {}
    BY <2>1, <2>2, <2>3, <2>4, <2>5 DEF Its
  <2>6. CASE Its # {}
    BY <2>1, <2>2, <2>3, <2>4, <2>6 DEF Its
  <2>7. QED
    BY <2>5, <2>6
<1>2. t \in {1, 2, 3, 4, 5, 6, 7, 8, 9, 10}
  OBVIOUS
<1>3. /\ t = 1 => SwarmTurns[t] = <<"manager-1", 1>>
      /\ t = 2 => SwarmTurns[t] = <<"worker-1", 1>>
      /\ t = 3 => SwarmTurns[t] = <<"worker-2", 1>>
      /\ t = 4 => SwarmTurns[t] = <<"worker-1", 2>>
      /\ t = 5 => SwarmTurns[t] = <<"worker-2", 2>>
      /\ t = 6 => SwarmTurns[t] = <<"manager-1", 2>>
      /\ t = 7 => SwarmTurns[t] = <<"manager-1", 3>>
      /\ t = 8 => SwarmTurns[t] = <<"worker-1", 3>>
      /\ t = 9 => SwarmTurns[t] = <<"worker-2", 3>>
      /\ t = 10 => SwarmTurns[t] = <<"manager-1", 4>>
  BY DEF SwarmTurns
<1>4. {d \in SwarmCalls : d[1] = SwarmTurns[t][1] /\ d[2] = SwarmTurns[t][2]} = {} <=> t >= 8
  <2>1. ASSUME t < 8
        PROVE  \E d \in SwarmCalls : d[1] = SwarmTurns[t][1] /\ d[2] = SwarmTurns[t][2]
    <3>1. /\ <<"manager-1", 1, "swarm.memory.write", "task_assignment">> \in SwarmCalls
          /\ <<"worker-1", 1, "swarm.memory.read",  "task_assignment">> \in SwarmCalls
          /\ <<"worker-1", 2, "swarm.memory.write", "worker_1_result">> \in SwarmCalls
          /\ <<"worker-2", 1, "swarm.memory.read",  "task_assignment">> \in SwarmCalls
          /\ <<"worker-2", 2, "swarm.memory.write", "worker_2_result">> \in SwarmCalls
          /\ <<"manager-1", 2, "swarm.memory.read",  "worker_2_result">> \in SwarmCalls
          /\ <<"manager-1", 3, "swarm.memory.write", "final_output">> \in SwarmCalls
      BY DEF SwarmCalls
    <3>2. t \in {1, 2, 3, 4, 5, 6, 7}
      BY <1>2, <2>1
    <3>3. QED
      BY <1>3, <3>1, <3>2
  <2>2. ASSUME t >= 8, NEW d \in SwarmCalls
        PROVE  ~(d[1] = SwarmTurns[t][1] /\ d[2] = SwarmTurns[t][2])
    <3>1. t \in {8, 9, 10}
      BY <1>2, <2>2
    <3>2. SwarmTurns[t][2] \in {3, 4} /\ (SwarmTurns[t][1] = "manager-1" <=> SwarmTurns[t][2] = 4)
      BY <1>3, <3>1
    <3>3. d[2] \in {1, 2, 3} /\ (d[2] = 3 => d[1] = "manager-1")
      BY DEF SwarmCalls
    <3>4. QED
      BY <3>2, <3>3
  <2>3. QED
    BY <2>1, <2>2
<1>5. AgentAt("swarm", t) = SwarmTurns[t][1] /\ CrewOf("swarm") = {"manager-1", "worker-1", "worker-2"}
  BY DEF AgentAt, CrewOf
<1>6. SwarmTurns[t][1] \in {"manager-1", "worker-1", "worker-2"}
  BY <1>2, <1>3
<1>7. t >= 8 => \A a \in CrewOf("swarm") : Ended(a) = t <=> a = SwarmTurns[t][1]
  <2>1. t >= 8 => t \in {8, 9, 10}
    BY <1>2
  <2>2. QED
    BY <1>3, <1>5, <2>1 DEF Ended
<1>8. t < 8 => \A a \in CrewOf("swarm") : Ended(a) > t
  BY <1>5 DEF Ended
<1>9. QED
  BY <1>1, <1>4, <1>5, <1>6, <1>7, <1>8

\* The steps that leave the states.
LEMMA CallsLeaveStates ==
  ASSUME script \in Programs, FlowOK(script, program, messages), NEW agent, NEW number, NEW tool,
         NEW arg, NEW msg, NEW onward, CallTool(agent, number, tool, arg, msg, onward)
  PROVE  /\ program'.states = program.states /\ program'.at = onward
         /\ program'.turn = IF AwaitsGate THEN program.turn ELSE program.turn + 1
<1>1. DOMAIN program = Fields
  BY DEF FlowOK, IsProgram
<1>2. PICK how, result : CallMade(how, result, agent, number, tool, msg, onward)
  BY <1>1, CallBegins
<1>3. QED
  BY <1>2 DEF CallMade

LEMMA AnswersLeaveStates ==
  ASSUME script \in Programs \ {"swe"}, FlowOK(script, program, messages), program.at # "quit",
         SettleTool \/ RefuseTool
  PROVE  SameStates(script, program, program')
<1> DEFINE p == program
           q == program'
           onward == IF p.at = "awaiting" THEN "after" ELSE IF p.at = "probing" THEN "done" ELSE p.at
<1>1. DOMAIN p = Fields
  BY DEF FlowOK, IsProgram
<1>2. /\ p.at \in {"turning", "thinking", "awaiting", "probing"}
      /\ script = "researcher" => p.at # "probing"
      /\ script # "index" => p.at \in {"awaiting", "probing"}
      /\ script = "index" => p.at \notin {"awaiting", "probing"}
  <2>1. AskedBy(p)
    <3>1. p.pending.how # "none"
      BY DEF SettleTool, RefuseTool, Answered
    <3>2. QED
      BY <3>1 DEF AskedBy
  <2>2. p.pending # Nothing
    BY <2>1 DEF AskedBy, Nothing
  <2>3. PendingWhere(script, p) /\ p.at \in PlacesOf(script)
    BY <2>2 DEF FlowOK, PendingOK, CounterOK
  <2>4. QED
    BY <2>3 DEF PendingWhere, PlacesOf
<1>3. ASSUME NEW r, DOMAIN r = Fields, r.at = p.at, r.turn = p.turn, r.states = p.states
      PROVE  /\ DOMAIN Resumed(r) = Fields /\ Resumed(r).at = onward
             /\ Resumed(r).turn = p.turn /\ Resumed(r).states = p.states
  BY <1>3 DEF Resumed, Fields
<1>4. q.turn = p.turn /\ q.states = p.states /\ q.at \in {onward, "dead", "failed"}
  <2>1. CASE SettleTool
    <3>1. PICK result : q = Resumed([p EXCEPT !.log = Append(@, [p.pending EXCEPT !.result = result])])
      BY <2>1 DEF SettleTool
    <3> DEFINE r == [p EXCEPT !.log = Append(@, [p.pending EXCEPT !.result = result])]
    <3>2. DOMAIN r = Fields /\ r.at = p.at /\ r.turn = p.turn /\ r.states = p.states /\ q = Resumed(r)
      BY <1>1, <3>1 DEF Fields
    <3> HIDE DEF r
    <3>3. QED
      BY <1>3, <3>2
  <2>2. CASE RefuseTool
    <3> DEFINE r == [p EXCEPT !.refused = @ \cup {p.pending.msg}]
               s == Resumed(r)
    <3>1. q = CASE script = "index" -> [s EXCEPT !.at = "dead"]
                [] script = "swarm" /\ p.at = "awaiting" -> [s EXCEPT !.at = "failed"]
                [] OTHER -> s
      BY <2>2 DEF RefuseTool
    <3>2. DOMAIN r = Fields /\ r.at = p.at /\ r.turn = p.turn /\ r.states = p.states
      BY <1>1 DEF Fields
    <3> HIDE DEF r
    <3>3. /\ DOMAIN s = Fields /\ s.at = onward
          /\ s.turn = p.turn /\ s.states = p.states
      BY <1>3, <3>2
    <3> HIDE DEF s
    <3>4. QED
      BY <3>1, <3>3 DEF Fields
  <2>3. QED
    BY <2>1, <2>2
<1>5. CASE q.at \in {"dead", "failed"}
  BY <1>4, <1>5 DEF SameStates
<1>6. CASE script = "index" /\ q.at = p.at
  BY <1>2, <1>4, <1>6 DEF SameStates, Completed
<1>7. CASE script = "researcher" /\ p.at = "awaiting" /\ q.at = "after"
  BY <1>4, <1>7 DEF SameStates, Unspawned, Completed
<1>8. CASE script = "swarm" /\ p.at \in {"awaiting", "probing"} /\ q.at \in {"after", "done"}
  BY <1>4, <1>8 DEF SameStates, Unspawned
<1>9. QED
  BY <1>2, <1>4, <1>5, <1>6, <1>7, <1>8 DEF Programs

LEMMA MovingLeavesStates ==
  ASSUME script \in Programs \ {"swe"}, FlowOK(script, program, messages), program.at # "quit",
         \/ BootHost \/ BeginTurn \/ RequestTool \/ SkipTool \/ Pause \/ Quit
         \/ script = "index" /\ (Announce \/ Think \/ ReportTick)
         \/ script = "researcher" /\ (EndTurn \/ CloseAwaited)
         \/ ExecuteTool \/ (script = "swarm" /\ Probe)
  PROVE  SameStates(script, program, program')
<1> DEFINE p == program
           q == program'
<1>1. DOMAIN p = Fields
  BY DEF FlowOK, IsProgram
<1>2. CASE BootHost
  BY <1>1, <1>2 DEF BootHost, Runs, Fields, SameStates, Unspawned, Completed, Programs
<1>3. CASE BeginTurn
  <2>1. /\ p.at = "turning" /\ q.at \in {"ending", "thinking", "ticked"}
        /\ q.turn = p.turn /\ q.states = p.states
    BY <1>1, <1>3 DEF BeginTurn, Runs, Fields
  <2>2. QED
    BY <2>1 DEF SameStates, Unspawned, Completed
<1>4. CASE RequestTool
  <2>1. p.at = "ticked" /\ q.at = "calling" /\ q.turn = p.turn /\ q.states = p.states
    BY <1>1, <1>4 DEF RequestTool, Runs, Fields
  <2>2. QED
    BY <2>1 DEF SameStates, Unspawned, Completed
<1>5. CASE SkipTool
  <2>1. /\ p.at = "ticked" /\ q.at \in {"turning", "after"} /\ q.states = p.states
        /\ script = "swarm" => q.turn = p.turn
    BY <1>1, <1>5 DEF SkipTool, Runs, Fields
  <2>2. QED
    BY <2>1 DEF SameStates, Unspawned, Completed
<1>6. CASE Pause
  <2>1. p.at = "pausing" /\ q.at = "turning" /\ q.states = p.states /\ q.turn = p.turn + 1
    BY <1>1, <1>6 DEF Pause, Woken, Runs, Fields
  <2>2. QED
    BY <2>1 DEF SameStates, Unspawned, Completed
<1>7. CASE Quit
  BY <1>1, <1>7 DEF Quit, Fields, SameStates
<1>8. CASE script = "index" /\ Announce
  BY <1>1, <1>8 DEF Announce, Runs, Fields, SameStates, Unspawned, Completed
<1>9. CASE script = "index" /\ Think
  <2>1. p.at = "thinking" /\ q.at \in {"dead", "reporting"} /\ q.states = p.states
    BY <1>1, <1>9 DEF Think, Woken, Runs, Fields
  <2>2. QED
    BY <1>9, <2>1 DEF SameStates, Unspawned, Completed
<1>10. CASE script = "index" /\ ReportTick
  BY <1>1, <1>10 DEF ReportTick, Runs, Fields, SameStates, Unspawned, Completed
<1>11. CASE script = "researcher" /\ EndTurn
  <2>1. p.at = "after" /\ q.at = "pausing" /\ q.states = p.states
    BY <1>1, <1>11 DEF EndTurn, Runs, Fields
  <2>2. QED
    BY <1>11, <2>1 DEF SameStates, Unspawned, Completed
<1>12. CASE script = "researcher" /\ CloseAwaited
  <2>1. p.at = "closing" /\ q.at \in {"done", "failed"} /\ q.states = p.states
    BY <1>1, <1>12 DEF CloseAwaited, Runs, Fields
  <2>2. QED
    BY <1>12, <2>1 DEF SameStates, Unspawned, Completed
<1>13. CASE ExecuteTool
  <2>1. PICK agent, number, tool, arg, msg, onward :
          /\ onward \in {"awaiting", "turning"}
          /\ CallTool(agent, number, tool, arg, msg, onward)
    BY <1>13 DEF ExecuteTool
  <2>2. /\ q.states = p.states /\ q.at \in {"awaiting", "turning"}
        /\ q.turn = IF AwaitsGate THEN p.turn ELSE p.turn + 1
    BY <2>1, CallsLeaveStates
  <2>3. p.at = "calling" /\ (script = "swarm" => AwaitsGate)
    BY <1>13 DEF ExecuteTool, Runs, AwaitsGate
  <2>4. QED
    BY <2>2, <2>3 DEF SameStates, Unspawned, Completed
<1>14. CASE script = "swarm" /\ Probe
  <2>1. /\ CallTool("worker-1", 99, "swarm.memory.read", "worker_2_result", 0, "probing")
        /\ p.at = "ending" /\ AwaitsGate
    BY <1>14 DEF Probe, Runs, AwaitsGate
  <2>2. q.states = p.states /\ q.at = "probing" /\ q.turn = p.turn
    BY <2>1, CallsLeaveStates
  <2>3. QED
    BY <1>14, <2>1, <2>2 DEF SameStates, Unspawned, Completed
<1>15. QED
  BY <1>2, <1>3, <1>4, <1>5, <1>6, <1>7, <1>8, <1>9, <1>10, <1>11, <1>12, <1>13, <1>14

\* The steps that change them.
LEMMA SpawnSetsStates ==
  ASSUME script \in Programs \ {"swe"}, FlowOK(script, program, messages), StatesOK(script, program),
         Spawn
  PROVE  StatesOK(script, program')
<1> DEFINE p == program
           q == program'
<1>1. DOMAIN p = Fields /\ p.at = "spawning" /\ Crew = CrewOf(script) /\ p.turn = 1
  BY Scripts DEF FlowOK, IsProgram, Spawn, Runs, CounterOK
<1>2. \A a \in CrewOf(script) : p.states[a] = "DEFINED"
  BY <1>1 DEF StatesOK, Expected, Unspawned
<1>3. /\ q.at = "turning" /\ q.turn = 1
      /\ q.states = [a \in CrewOf(script) |-> RowFor(RowFor(p.states[a], "spawn").to, "activate").to]
  BY <1>1 DEF Spawn, Fields
<1>4. DOMAIN q.states = CrewOf(script) /\ \A a \in CrewOf(script) : q.states[a] = "ACTIVE"
  BY <1>2, <1>3, LifeOfAgents
<1>5. ASSUME NEW a \in CrewOf(script)
      PROVE  Expected(script, q, a) = "ACTIVE"
  <2>1. ~(Ended(a) < 1) /\ q.at \notin Unspawned \cup Completed \cup {"pausing"}
    BY <1>3 DEF Ended, Unspawned, Completed
  <2>2. QED
    BY <1>3, <2>1 DEF Expected
<1>6. QED
  BY <1>4, <1>5 DEF StatesOK

LEMMA CompleteSetsStates ==
  ASSUME script \in {"index", "researcher"}, FlowOK(script, program, messages),
         StatesOK(script, program), Complete
  PROVE  StatesOK(script, program')
<1> DEFINE p == program
           q == program'
           a == AgentAt(script, p.turn)
<1>1. DOMAIN p = Fields /\ p.at = "ending" /\ AgentNow = a /\ CrewOf(script) = {a}
  <2>1. AgentNow = a /\ CrewOf(script) = {a}
    BY Scripts DEF Programs, AgentAt, CrewOf
  <2>2. QED
    BY <2>1 DEF FlowOK, IsProgram, Complete, Runs
<1> HIDE DEF a
<1>2. DOMAIN p.states = {a} /\ p.states[a] = "ACTIVE"
  BY <1>1 DEF StatesOK, Expected, Unspawned, Completed
<1>3. q.at \in Completed /\ q.states = Terminate(a, p.states)
  BY <1>1 DEF Complete, Fields, Completed
<1>4. DOMAIN q.states = {a} /\ q.states[a] = "TERMINATED"
  BY <1>2, <1>3, Terminates
<1>5. Expected(script, q, a) = "TERMINATED"
  BY <1>3 DEF Expected, Completed, Unspawned
<1>6. QED
  BY <1>1, <1>4, <1>5 DEF StatesOK

LEMMA TurnEndsSetStates ==
  ASSUME script = "swarm", FlowOK(script, program, messages), StatesOK(script, program), EndTurn
  PROVE  StatesOK(script, program')
<1> DEFINE p == program
           q == program'
           a == AgentAt("swarm", p.turn)
           t == p.turn
<1>1. /\ DOMAIN p = Fields /\ p.at = "after" /\ t \in 1..10 /\ AgentNow = a
      /\ p.output = OutputAt("swarm", t)
  <2>1. AgentNow = a /\ p.at = "after"
    BY Scripts DEF Programs, EndTurn, Runs
  <2>2. QED
    BY <2>1 DEF FlowOK, IsProgram, CounterOK, InTurn
<1> HIDE DEF a
<1>2. /\ DOMAIN p.states = CrewOf("swarm")
      /\ \A b \in CrewOf("swarm") : p.states[b] = IF Ended(b) < t THEN "TERMINATED" ELSE "ACTIVE"
  BY <1>1 DEF StatesOK, Expected, Unspawned
<1>3. /\ q.at = "pausing" /\ q.turn = t
      /\ q.states = IF p.output.kind = "COMPLETED" THEN Terminate(a, p.states) ELSE p.states
  BY <1>1 DEF EndTurn, Fields
<1>4. /\ p.output.kind = "COMPLETED" <=> t >= 8
      /\ a \in CrewOf("swarm")
      /\ t >= 8 => \A b \in CrewOf("swarm") : Ended(b) = t <=> b = a
      /\ t < 8 => \A b \in CrewOf("swarm") : Ended(b) > t
  BY <1>1, SwarmEnds DEF a
<1> HIDE DEF t
<1>5. /\ DOMAIN q.states = CrewOf("swarm")
      /\ \A b \in CrewOf("swarm") : q.states[b] = IF Ended(b) <= t THEN "TERMINATED" ELSE "ACTIVE"
  <2>0. t \in Int /\ \A b : Ended(b) \in Int
    BY <1>1 DEF Ended
  <2>1. CASE t >= 8
    <3>1. Ended(a) = t
      BY <1>4, <2>1
    <3>2. p.states[a] = "ACTIVE" /\ a \in DOMAIN p.states
      BY <1>2, <1>4, <2>0, <3>1
    <3>3. /\ DOMAIN q.states = DOMAIN p.states
          /\ \A b \in DOMAIN p.states : q.states[b] = IF b = a THEN "TERMINATED" ELSE p.states[b]
      <4>1. q.states = Terminate(a, p.states)
        BY <1>3, <1>4, <2>1
      <4>2. QED
        BY <3>2, <4>1, Terminates
    <3>4. ASSUME NEW b \in CrewOf("swarm")
          PROVE  q.states[b] = IF Ended(b) <= t THEN "TERMINATED" ELSE "ACTIVE"
      <4>1. CASE b = a
        <5>1. Ended(b) <= t
          BY <2>0, <3>1, <4>1
        <5>2. QED
          BY <1>2, <3>3, <4>1, <5>1
      <4>2. CASE b # a
        <5>1. Ended(b) # t
          BY <1>4, <2>1, <4>2
        <5>2. Ended(b) < t <=> Ended(b) <= t
          BY <2>0, <5>1
        <5>3. QED
          BY <1>2, <3>3, <4>2, <5>2
      <4>3. QED
        BY <4>1, <4>2
    <3>5. QED
      BY <1>2, <3>3, <3>4
  <2>2. CASE t < 8
    <3>1. q.states = p.states
      BY <1>3, <1>4, <2>0, <2>2
    <3>2. \A b \in CrewOf("swarm") : ~(Ended(b) < t) /\ ~(Ended(b) <= t)
      BY <1>4, <2>0, <2>2
    <3>3. QED
      BY <1>2, <3>1, <3>2
  <2>3. QED
    BY <2>0, <2>1, <2>2
<1>6. ASSUME NEW b \in CrewOf("swarm")
      PROVE  Expected("swarm", q, b) = IF Ended(b) <= t THEN "TERMINATED" ELSE "ACTIVE"
  <2>1. t \in Int /\ Ended(b) \in Int
    BY <1>1 DEF Ended, t
  <2>2. Ended(b) <= t <=> Ended(b) < t \/ Ended(b) = t
    BY <2>1
  <2>3. QED
    BY <1>3, <2>2 DEF Expected, Unspawned
<1>7. QED
  BY <1>5, <1>6 DEF StatesOK

LEMMA ProgramKeepsStates ==
  ASSUME script \in Programs, FlowOK(script, program, messages), StatesOK(script, program),
         program.at # "quit", ProgramStep
  PROVE  StatesOK(script, program')
<1>0. program.turn \in Nat
  BY DEF FlowOK, CounterOK
<1>1. CASE script = "swe"
  BY <1>1 DEF StatesOK
<1>2. CASE script # "swe" /\ SameStates(script, program, program')
  BY <1>0, <1>2, StatesStay
<1>3. CASE script # "swe" /\ Spawn
  BY <1>3, SpawnSetsStates
<1>4. CASE script \in {"index", "researcher"} /\ Complete
  BY <1>4, CompleteSetsStates
<1>5. CASE script = "swarm" /\ EndTurn
  BY <1>5, TurnEndsSetStates
<1>6. CASE \/ TerminalReturns
           \/ script = "researcher" /\ ToolsGoOn
  BY <1>6 DEF TerminalReturns, ToolsGoOn
<1>7. CASE script # "swe" /\ (SettleTool \/ RefuseTool)
  BY <1>2, <1>7, AnswersLeaveStates
<1>8. CASE /\ script # "swe"
           /\ \/ BootHost \/ BeginTurn \/ RequestTool \/ SkipTool \/ Pause \/ Quit
              \/ script = "index" /\ (Announce \/ Think \/ ReportTick)
              \/ script = "researcher" /\ (EndTurn \/ CloseAwaited)
              \/ ExecuteTool \/ (script = "swarm" /\ Probe)
  BY <1>2, <1>8, MovingLeavesStates
<1>9. QED
  BY <1>1, <1>3, <1>4, <1>5, <1>6, <1>7, <1>8
     DEF ProgramStep, BootstrapFullEcosystem, BootstrapSWE, BootstrapResearcher, BootstrapSwarm,
         ComesBack

-----------------------------------------------------------------------------
\* Calls of tools and visits are sound in a host, too, whichever way they come about.
EndInv ==
  /\ SInv /\ BInv
  /\ script \in Programs => StatesOK(script, program) /\ ToolsNow

LEMMA EndBegins == HostInit => EndInv
<1> SUFFICES ASSUME HostInit PROVE EndInv
  OBVIOUS
<1>1. SInv /\ BInv
  BY SandboxBegins, BrowserBegins DEF HostInit
<1>2. /\ program.at = "off" /\ program.states = [a \in Crew |-> "DEFINED"]
      /\ activeBrowser = 0 /\ browsers = << >>
      /\ \A c \in DOMAIN bash : bash[c].at = "idle"
      /\ \A v \in DOMAIN visits : visits[v].at = "idle" /\ ~visits[v].overlapped
      /\ \A k \in DOMAIN closers : closers[k] = 0
  BY DEF HostInit, NotStarted, SandboxInit, Uncalled, BrowserInit
<1>3. ASSUME script \in Programs
      PROVE  StatesOK(script, program)
  <2>1. Crew = CrewOf(script)
    BY <1>3, Scripts
  <2>2. QED
    BY <1>2, <2>1 DEF StatesOK, Expected, Unspawned
<1>4. ToolsNow
  <2>1. /\ Unasked(bash) /\ AtRestOf(bash) /\ AtMostOne(bash)
        /\ Unasked(visits) /\ AtRestOf(visits) /\ AtMostOne(visits)
    BY <1>2 DEF Unasked, AtRestOf, AtMostOne
  <2>2. CommandsOK(script, program, bash)
    BY <2>1 DEF CommandsOK
  <2>3. DOMAIN browsers = {}
    BY <1>2
  <2>4. BrowsersOK(script, program, activeBrowser, browsers, visits, closers)
    BY <1>2, <2>1, <2>3 DEF BrowsersOK
  <2>5. QED
    BY <2>2, <2>4 DEF ToolsNow, ToolsOK
<1>5. QED
  BY <1>1, <1>3, <1>4 DEF EndInv

\* What a step of a program does with commands and browsers is a step of theirs.
LEMMA ProgramsCallTools ==
  ASSUME script \in Programs, FlowOK(script, program, messages), ProgramStep
  PROVE  [SandboxNext]_bash /\ [BrowserNext]_browserVars
<1>1. ASSUME NEW agent, NEW number, NEW tool, NEW arg, NEW msg, NEW onward,
             CallTool(agent, number, tool, arg, msg, onward)
      PROVE  [SandboxNext]_bash /\ [BrowserNext]_browserVars
  <2>1. DOMAIN program = Fields
    BY DEF FlowOK, IsProgram
  <2>2. PICK how, result : CallMade(how, result, agent, number, tool, msg, onward)
    BY <1>1, <2>1, CallBegins
  <2>3. QED
    BY <2>2 DEF CallMade, ToolsIdle, SandboxNext, BrowserNext
<1>2. CASE ExecuteTool
  <2>1. PICK agent, number, tool, arg, msg, onward : CallTool(agent, number, tool, arg, msg, onward)
    BY <1>2 DEF ExecuteTool
  <2>2. QED
    BY <1>1, <2>1
<1>3. CASE Probe
  <2>1. CallTool("worker-1", 99, "swarm.memory.read", "worker_2_result", 0, "probing")
    BY <1>3 DEF Probe
  <2>2. QED
    BY <1>1, <2>1
<1>4. CASE Complete
  BY <1>4 DEF Complete, BrowserNext
<1>5. CASE Spawn \/ BeginTurn \/ Think \/ SkipTool \/ EndTurn \/ Pause \/ LeaveLoop \/ CloseAwaited
           \/ ComesBack
  BY <1>5 DEF Spawn, BeginTurn, Think, SkipTool, EndTurn, Pause, LeaveLoop, CloseAwaited, ComesBack,
              SettleTool, RefuseTool, TerminalReturns, Quit, Silent, ToolsIdle
<1>6. CASE BootHost \/ Announce \/ ReportTick \/ RequestTool
  BY <1>6 DEF BootHost, Announce, ReportTick, RequestTool, Emit, ToolsIdle
<1>7. CASE ToolsGoOn
  BY <1>7 DEF ToolsGoOn, SandboxNext, BrowserNext
<1>8. QED
  BY <1>2, <1>3, <1>4, <1>5, <1>6, <1>7
     DEF ProgramStep, BootstrapFullEcosystem, BootstrapSWE, BootstrapResearcher, BootstrapSwarm

LEMMA HostEnds ==
  ASSUME EndInv, FlowInv, FlowInv', [HostNext]_hostVars
  PROVE  EndInv'
<1>1. script' = script
  <2>1. config' = config
    BY DEF HostNext, hostVars, Next, Vote
  <2>2. QED
    BY <2>1 DEF script
<1>2. CASE program.at # "quit" /\ ProgramStep
  <2>1. script \in Programs
    BY <1>2 DEF ProgramStep, BootstrapFullEcosystem, BootstrapSWE, BootstrapResearcher,
                BootstrapSwarm, Programs
  <2>2. FlowOK(script, program, messages) /\ FlowOK(script, program', messages')
    BY <1>1, <2>1 DEF FlowInv
  <2>3. [SandboxNext]_bash /\ [BrowserNext]_browserVars
    BY <1>2, <2>1, <2>2, ProgramsCallTools
  <2>4. SInv' /\ BInv'
    BY <2>3, SandboxKeeps, BrowserKeeps DEF EndInv
  <2>5. StatesOK(script, program')
    BY <1>2, <2>1, <2>2, ProgramKeepsStates DEF EndInv
  <2>6. ToolsThen(program')
    BY <1>2, <2>1, <2>2, ProgramKeepsTools DEF EndInv
  <2>7. ToolsNow'
    BY <1>1, <2>6 DEF ToolsNow, ToolsThen
  <2>8. QED
    BY <1>1, <2>4, <2>5, <2>7 DEF EndInv
<1>3. CASE script \notin Programs /\ [SandboxNext]_bash /\ [BrowserNext]_browserVars
  <2>1. SInv' /\ BInv'
    BY <1>3, SandboxKeeps, BrowserKeeps DEF EndInv
  <2>2. QED
    BY <1>1, <1>3, <2>1 DEF EndInv
<1>4. CASE UNCHANGED hostVars
  <2>1. UNCHANGED <<script, program, bash, activeBrowser, browsers, visits, closers>>
    BY <1>1, <1>4 DEF hostVars, programVars, browserVars
  <2>2. UNCHANGED bash /\ UNCHANGED browserVars
    BY <2>1 DEF browserVars
  <2>3. SInv' /\ BInv'
    BY <2>2, SandboxKeeps, BrowserKeeps DEF EndInv
  <2>4. (StatesOK(script, program))' <=> StatesOK(script, program)
    BY <2>1
  <2>5. ToolsNow' <=> ToolsNow
    BY <2>1 DEF ToolsNow
  <2>6. QED
    BY <2>1, <2>3, <2>4, <2>5 DEF EndInv
<1>5. config.work \in {"coordinator", "dashboard", "commands", "browser", "plugins"} =>
        script \notin Programs
  BY DEF script, Programs
<1>6. CASE /\ config.work \in {"coordinator", "dashboard", "commands", "browser", "plugins"}
           /\ \/ ToolsIdle
              \/ SandboxNext /\ UNCHANGED browserVars
              \/ BrowserNext /\ UNCHANGED bash
              \/ UNCHANGED <<bash, browserVars>>
  BY <1>3, <1>5, <1>6 DEF ToolsIdle
<1>7. QED
  BY <1>2, <1>4, <1>6 DEF HostNext, ProgramStep

LEMMA EndHolds == HostSpec => [](FlowInv /\ EndInv)
<1>1. HostInit => EndInv
  BY EndBegins
<1>2. EndInv /\ FlowInv /\ FlowInv' /\ [HostNext]_hostVars => EndInv'
  BY HostEnds
<1>3. QED
  BY <1>1, <1>2, FlowHolds, PTL DEF HostSpec, hostVars

\* The ends of the programs: one that is done has no call pending, no command and no
\* browser that runs, and its agents are TERMINATED but for swe.ts; for any commands
\* and visits, and however they fail.
THEOREM NothingOutlives == HostSpec => []NothingOutlivesProgram
<1>1. FlowInv /\ EndInv => NothingOutlivesProgram
  <2> SUFFICES ASSUME FlowInv, EndInv, program.at = "done"
               PROVE  /\ program.pending = Nothing
                      /\ \A c \in Calls : bash[c].at \in {"idle", "settled"}
                      /\ \A b \in DOMAIN browsers : ~browsers[b].up
                      /\ script # "swe" => \A a \in Crew : program.states[a] = "TERMINATED"
    BY DEF NothingOutlivesProgram
  <2>1. script \in Programs
    BY DEF FlowInv
  <2>2. /\ FlowOK(script, program, messages) /\ StatesOK(script, program)
        /\ CommandsOK(script, program, bash)
        /\ BrowsersOK(script, program, activeBrowser, browsers, visits, closers)
    BY <2>1 DEF FlowInv, EndInv, ToolsNow, ToolsOK
  <2>3. program.pending = Nothing
    BY <2>1, <2>2, NothingElsewhere
  <2>4. ASSUME NEW c \in Calls PROVE bash[c].at \in {"idle", "settled"}
    <3>1. c \in DOMAIN bash
      BY DEF EndInv, SInv
    <3>2. program.pending.how # "bash"
      BY <2>3 DEF Nothing
    <3>3. Unasked(bash) \/ AtRestOf(bash)
      BY <2>2, <3>2 DEF CommandsOK
    <3>4. QED
      BY <3>1, <3>3 DEF Unasked, AtRestOf
  <2>5. ASSUME NEW b \in DOMAIN browsers PROVE ~browsers[b].up
    <3>1. CASE script = "researcher"
      <4>1. activeBrowser = 0 /\ ~browsers[b].overlapped
        BY <2>2, <3>1 DEF BrowsersOK
      <4>2. DOMAIN browsers = 1..Len(browsers)
        BY DEF EndInv, BInv, BrowserTypeOK
      <4>3. browsers[b].up => b = activeBrowser \/ browsers[b].overlapped
        BY DEF EndInv, BInv, OrphansComeFromOverlap
      <4>4. QED
        BY <4>1, <4>2, <4>3
    <3>2. CASE script # "researcher"
      <4>1. browsers = << >>
        BY <2>2, <3>2 DEF BrowsersOK
      <4>2. QED
        BY <4>1
    <3>3. QED
      BY <3>1, <3>2
  <2>6. ASSUME script # "swe", NEW a \in Crew PROVE program.states[a] = "TERMINATED"
    <3>1. Crew = CrewOf(script)
      BY <2>1, Scripts
    <3>2. program.states[a] = Expected(script, program, a)
      BY <2>2, <2>6, <3>1 DEF StatesOK
    <3>3. script = "swarm" => program.turn = 11
      BY <2>2 DEF FlowOK, CounterOK
    <3>4. script = "swarm" => Ended(a) < program.turn
      BY <3>3 DEF Ended
    <3>5. QED
      BY <3>2, <3>4 DEF Expected, Completed, Unspawned
  <2>7. QED
    BY <2>3, <2>4, <2>5, <2>6
<1>2. QED
  BY EndHolds, <1>1, PTL
==============================================================================
