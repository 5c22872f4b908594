------------------------------ MODULE MCSwarm ------------------------------
EXTENDS Swarm

CONSTANTS a1, a2, e1

Config(s, agents, topics, most, each) ==
  [strategy |-> s, agentIds |-> agents, topics |-> topics, messages |-> most, listeners |-> each]

MCConfigs ==
  {Config("MAP_REDUCE", <<a1, a2>>, {"swarm.task"}, 6, 1),
   Config("PIPELINE", <<a1, a2>>, {"swarm.pipeline"}, 5, 1),
   Config("PIPELINE", <<a1, a1>>, {"swarm.pipeline"}, 4, 1),
   Config("CONSENSUS", <<a1, a2>>, {e1}, 3, 2)}

MCChannels == {"swarm.leadership", "swarm.task", "swarm.result", "swarm.pipeline"}
MCVoterLists == UNION {[1..n -> Voters] : n \in 0..4}
=============================================================================
