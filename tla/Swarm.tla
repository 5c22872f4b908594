------------------------------- MODULE Swarm -------------------------------
(***************************************************************************)
(* SwarmCoordinator.execute (swarm/coordinator.ts) and the votes of        *)
(* SwarmProtocol.  execute is one synchronous call; what runs in between   *)
(* are the handlers of its messages and the callbacks it is given, which   *)
(* may send, subscribe and throw, and are not followed into another        *)
(* execute.  A piece of work is the sequence of what it came from and the  *)
(* agents it went through.                                                 *)
(***************************************************************************)
EXTENDS Delivery, FiniteSets

CONSTANTS
  Configs,        \* what coordinators are made with: strategy, NONE for no coordinator,
                  \*   and agentIds; and bounds of the model for the hosts around
                  \*   them: the topics they send and listen to, messages in all,
                  \*   listeners per array
  MaxSubtasks,    \* bound of the model
  Voters,
  VoterLists,     \* sequences of Voters
  nobody          \* no agent, no work, no vote

Agents == UNION {ToSet(c.agentIds) : c \in Configs}

\* Work, and what the coordinator says.
Works == Seq(Nat \cup Agents \cup {nobody})
Bodies == [from : Agents, to : Agents \cup {"*"}, work : Works \cup {nobody}]

ASSUME SwarmAssumption ==
  /\ MaxSubtasks \in Nat
  /\ nobody \notin Bodies
  /\ \A c \in Configs : /\ c.strategy \in {"MAP_REDUCE", "CONSENSUS", "PIPELINE", "NONE"}
                        /\ c.agentIds \in Seq(ToSet(c.agentIds)) /\ c.agentIds # << >>
                        /\ c.topics \subseteq EventKinds \cup Channels
  /\ {"swarm.leadership", "swarm.task", "swarm.result", "swarm.pipeline"} \subseteq Channels
  /\ VoterLists \subseteq Seq(Voters)

VARIABLES config, run, poll

vars == <<deliveryVars, config, run, poll>>

agentIds == config.agentIds
leader == agentIds[1]
Goal == <<0>>

AtRest == [at |-> "rest", i |-> 1, subtasks |-> 0, input |-> Goal, start |-> 0,
           results |-> [a \in Agents |-> nobody]]

Init ==
  /\ DeliveryInit
  /\ config \in Configs
  /\ run = AtRest
  /\ poll = nobody

-----------------------------------------------------------------------------
\* execute goes on only when its messages have been delivered.
On(at) == calls = << >> /\ run.at = at

Say(topic, from, to, work) == Send(topic, [from |-> from, to |-> to, work |-> work])
Broadcast(topic, from, work) == Say(topic, from, "*", work)

\* electLeader
Execute ==
  /\ config.strategy # "NONE"
  /\ calls = << >> /\ run.at \in {"rest", "done", "threw"}
  /\ Broadcast("swarm.leadership", leader, nobody)
  /\ run' = [AtRest EXCEPT !.at = "split", !.start = Len(messages)]

\* The strategies begin; PIPELINE splits nothing.
Split ==
  /\ On("split")
  /\ \E n \in IF config.strategy = "PIPELINE" THEN {0} ELSE 0..MaxSubtasks :
       run' = [run EXCEPT !.subtasks = n,
                          !.at = IF config.strategy = "MAP_REDUCE" THEN "assign" ELSE "work"]
  /\ UNCHANGED deliveryVars

\* subtasks[i % subtasks.length], undefined when there are none.
Subtask(i) == IF run.subtasks = 0 THEN nobody ELSE 1 + ((i - 1) % run.subtasks)

\* Mutant: every stage of a pipeline starts from the goal.
GivenGoal(i) == IF config.strategy = "PIPELINE" THEN Goal ELSE <<Subtask(i)>>

\* What agent i is given.
Given(i) == IF config.strategy = "PIPELINE" THEN run.input ELSE <<Subtask(i)>>

Assign ==
  /\ On("assign")
  /\ Say("swarm.task", leader, agentIds[run.i], Given(run.i))
  /\ run' = [run EXCEPT !.at = "work"]

\* The turn of the next agent begins.
Turn(r) == [r EXCEPT !.i = @ + 1, !.at = IF config.strategy = "MAP_REDUCE" THEN "assign" ELSE "work"]

\* Mutant: one turn too few.
OnwardTooShort(r) == IF r.i + 1 >= Len(agentIds) THEN [r EXCEPT !.at = "finish"] ELSE Turn(r)

\* The loop over the agents.
Onward(r) == IF r.i = Len(agentIds) THEN [r EXCEPT !.at = "finish"] ELSE Turn(r)

\* agentWorker returns.
Work ==
  /\ On("work")
  /\ LET done == [run EXCEPT !.results[agentIds[run.i]] = Append(Given(run.i), agentIds[run.i])]
     IN run' = IF config.strategy = "CONSENSUS" THEN Onward(done) ELSE [done EXCEPT !.at = "report"]
  /\ UNCHANGED deliveryVars

\* The agent after the first of this name, or the leader.
Successor(i) ==
  LET first == CHOOSE j \in DOMAIN agentIds :
                 /\ agentIds[j] = agentIds[i]
                 /\ \A h \in 1..(j - 1) : agentIds[h] # agentIds[i]
  IN IF first = Len(agentIds) THEN leader ELSE agentIds[first + 1]

Report ==
  /\ On("report")
  /\ LET a == agentIds[run.i]
     IN IF config.strategy = "PIPELINE"
          THEN /\ Say("swarm.pipeline", a, Successor(run.i), run.results[a])
               /\ run' = Onward([run EXCEPT !.input = run.results[a]])
          ELSE /\ Say("swarm.result", a, leader, run.results[a])
               /\ run' = Onward(run)

\* resultMerger, and execute returns.
Finish ==
  /\ On("finish")
  /\ run' = [run EXCEPT !.at = "done"]
  /\ UNCHANGED deliveryVars

\* The splitter, a worker or the merger throws, and so does execute.
CallbackThrows ==
  /\ On("split") \/ On("work") \/ On("finish")
  /\ run' = [run EXCEPT !.at = "threw"]
  /\ UNCHANGED deliveryVars

-----------------------------------------------------------------------------
\* requestVote: who did not decide disapproves; a voter counts as often as listed.
Approvals(voters, decisions) == Cardinality({i \in DOMAIN voters : decisions[voters[i]] = TRUE})
Quorum(voters) == (Len(voters) + 1) \div 2
Accepted(voters, decisions) == Approvals(voters, decisions) >= Quorum(voters)

\* Mutant: who did not decide does not object.
AllDecidedAgree(voters, decisions) == \A i \in DOMAIN voters : decisions[voters[i]] # FALSE

\* reachConsensus
AllAgree(voters, decisions) == \A i \in DOMAIN voters : decisions[voters[i]] = TRUE

\* A VoteRequest and the results of both votes on it.
Ballot(voters, decisions) ==
  [voters |-> voters, decisions |-> decisions,
   accepted |-> Accepted(voters, decisions), unanimous |-> AllAgree(voters, decisions)]

\* Both, of the same voters.  Bound of the model: votes share no state with the
\* rest, so they are held in the first state and nothing follows.
Vote ==
  /\ config.strategy # "NONE" /\ messages = << >> /\ \A a \in Arrays : listeners[a] = 0
  /\ \E voters \in VoterLists, decisions \in [Voters -> BOOLEAN \cup {nobody}] :
       poll' = Ballot(voters, decisions)
  /\ UNCHANGED <<deliveryVars, config, run>>

-----------------------------------------------------------------------------
\* Host code runs: a handler, a callback of execute, or nothing of the swarm.
HostRuns == calls # << >> \/ run.at \in {"rest", "split", "work", "finish", "done", "threw"}

HostStep ==
  /\ HostRuns
  /\ \/ \E topic \in config.topics : Send(topic, nobody)
     \/ \E topic \in config.topics : \E a \in ToSet(Walked(topic)) : Subscribe(a)
  /\ UNCHANGED run

OfCoordinator(m) == messages[m].body # nobody

\* What a handler throws also ends the execute that sent the message.
Throw(n) ==
  /\ HandlerThrows(n)
  /\ run' = IF n = 0 /\ OfCoordinator(calls[1].msg) THEN [run EXCEPT !.at = "threw"] ELSE run

Bounded == Len(messages') <= config.messages /\ \A a \in Arrays : listeners'[a] <= config.listeners

Next ==
  /\ poll = nobody
  /\ \/ /\ \/ Execute \/ Split \/ Assign \/ Work \/ Report \/ Finish \/ CallbackThrows
           \/ HostStep
           \/ HandlerReturns /\ UNCHANGED run
           \/ \E n \in 0..MaxMessages : Throw(n)
        /\ UNCHANGED <<config, poll>>
     \/ Vote
  /\ Bounded

Spec == Init /\ [][Next]_vars

-----------------------------------------------------------------------------
\* The messages that this execute has sent after electing its leader.
Own == {m \in DOMAIN messages : m > run.start + 1 /\ OfCoordinator(m)}

DistinctAgents == IsInjective(agentIds)

\* When execute returns, each of the subtasks has been worked on and is in the
\* results that are merged, if there are no more of them than agents, all
\* different.
SubtasksAreWorked ==
  run.at = "done" /\ DistinctAgents /\ run.subtasks <= Len(agentIds) =>
    \A s \in 1..run.subtasks : \E a \in Agents : run.results[a] = <<s, a>>

\* PIPELINE: the goal goes through the agents in their order, each message goes
\* to the one that works next, and the result has been through all of them.
PipelineChains ==
  config.strategy = "PIPELINE" =>
    /\ \A m \in Own :
         LET j == Cardinality({k \in Own : k <= m})
         IN /\ messages[m].body.work = Goal \o SubSeq(agentIds, 1, j)
            /\ DistinctAgents =>
                 messages[m].body.to = IF j = Len(agentIds) THEN leader ELSE agentIds[j + 1]
    /\ run.at = "done" => run.input = Goal \o agentIds

\* A unanimous vote is accepted as well, and needs the explicit consent of all;
\* a vote that half of the voters object to or ignore is not lost only if the
\* other half consents.
VotesAreSound ==
  poll # nobody =>
    LET Consenting == {i \in DOMAIN poll.voters : poll.decisions[poll.voters[i]] = TRUE}
    IN /\ poll.unanimous => poll.accepted /\ Consenting = DOMAIN poll.voters
       /\ poll.accepted <=> Cardinality(DOMAIN poll.voters \ Consenting) <= Cardinality(Consenting)

\* protocol.ts:72: "Returns accepted=true if > 50% of voters approve."
AcceptedByMajority ==
  poll # nobody /\ poll.accepted =>
    2 * Cardinality({i \in DOMAIN poll.voters : poll.decisions[poll.voters[i]] = TRUE})
      > Len(poll.voters)
=============================================================================
