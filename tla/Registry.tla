------------------------------ MODULE Registry ------------------------------
(***************************************************************************)
(* ToolRegistry (tools/registry.ts).  A handler is a record: from is the   *)
(* plugin it came with, or nothing, as it is the host's; does is what      *)
(* calling it comes to: "SUCCESS" or "ERROR" at once, "throws", or a       *)
(* "promise" of either.                                                    *)
(***************************************************************************)
EXTENDS Naturals, Sequences

CONSTANTS
  ToolNames,
  CoreTools,      \* system.read_file, system.fetch, system.ask_user, in this order
  nothing

ASSUME RegistryAssumption == CoreTools \in Seq(ToolNames)

VARIABLE registry

RegistryInit == registry = [t \in ToolNames |-> nothing]

Registered(t) == registry[t] # nothing

\* register throws for a name it has.
register(t, handler) ==
  /\ ~Registered(t)
  /\ registry' = [registry EXCEPT ![t] = handler]

ByHost(does) == [from |-> nothing, does |-> does]

\* It throws at the first tool whose name is taken; those before it stay.
bootstrapCoreTools ==
  LET New == {i \in DOMAIN CoreTools : \A j \in 1..i : ~Registered(CoreTools[j])}
  IN registry' = [t \in ToolNames |->
                    IF \E i \in New : CoreTools[i] = t THEN ByHost("SUCCESS") ELSE registry[t]]

\* executeSync: a handler that gives a promise has begun, and is refused.
executeSync(handler) ==
  IF handler # nothing /\ handler.does \in {"SUCCESS", "ERROR"} THEN handler.does ELSE "ERROR"
=============================================================================
