------------------------------- MODULE MCHost -------------------------------
EXTENDS MCSwarm, Host

CONSTANTS pA, pB

Doing(work, brain, ticks) == [work |-> work, brain |-> brain, ticks |-> ticks]

\* Hosts without a coordinator: their work, topics, messages, listeners.
Part(work, topics, most, each) == Config("NONE", <<a1>>, topics, most, each) @@ Doing(work, nobody, 0)
Script(work, brain, ticks) == Config("NONE", <<a1>>, {}, 8, 1) @@ Doing(work, brain, ticks)

MCHostConfigs ==
  {c @@ Doing("coordinator", nobody, 0) : c \in MCConfigs}
    \cup {Part("dashboard", {e1}, 2, 2), Part("dashboard", {e1}, 3, 1)}
    \cup {Part(work, {}, 0, 0) : work \in {"commands", "browser", "plugins"}}
    \cup {Script(work, nobody, 0) : work \in {"researcher", "swarm"}}
    \cup {Script("index", activeProvider(keys), 0) : keys \in {{}, {"gemini", "anthropic"}}}
    \cup {Script("swe", activeProvider({}), 4), Script("swe", "ollama", 3),
          Script("swe", activeProvider({"gemini", "openai"}), 3)}

MCEventKinds == {e1, "AGENT_SPAWNED", "TICK_COMPLETED", "TOOL_CALL_REQUESTED"}
MCTools == {"host.fs.read_file", "host.fs.write_file", "host.fs.list_dir", "host.net.fetch"}
MCResources == {"task_assignment", "worker_1_result", "worker_2_result", "final_output"}

MCCoreTools == <<"system.fetch", "system.ask_user">>

namespace == [t \in ToolNames |-> IF t = "b.x" THEN pB ELSE IF t \in {"system.fetch", "system.ask_user"} THEN nothing ELSE pA]

Good == PluginManifest(pA, {}, <<PluginToolDeclaration("a.x", "function"), PluginToolDeclaration("a.y", "function")>>)
Partial == PluginManifest(pA, {}, <<PluginToolDeclaration("a.x", "function"), PluginToolDeclaration("a.y", "absent")>>)
Foreigner == PluginManifest(pA, {}, <<PluginToolDeclaration("a.x", "function"), PluginToolDeclaration("b.x", "function")>>)
Twice == PluginManifest(pB, {}, <<PluginToolDeclaration("b.x", "function"), PluginToolDeclaration("b.x", "other")>>)
Other == PluginManifest(pB, {}, <<PluginToolDeclaration("b.x", "function")>>)
Ill == PluginManifest(pB, {"version"}, <<PluginToolDeclaration("b.x", "function")>>)

MCDisks ==
  {<<Good, Other>>, <<Good, Partial>>, <<Partial, Good>>, <<Foreigner, Other, Twice>>,
   <<Ill, noManifest>>, <<notJson, Twice, Other>>}
=============================================================================
