------------------------------- MODULE Plugins -------------------------------
(***************************************************************************)
(* PluginValidator and PluginLoader (plugins/validator.ts, loader.ts): what*)
(* is found in the plugin directories, what of it is loaded, and what gets *)
(* into the ToolRegistry.  A manifest is what the validator looks at.      *)
(***************************************************************************)
EXTENDS Registry, SequencesExt

CONSTANTS
  namespaceOf,    \* [ToolNames -> names of plugins]: what stands before the dot
  Disks,          \* what may be in the plugin directories, in readdir's order
  noManifest, notJson

VARIABLES
  disk,
  results,        \* what discoverAndLoad returned last
  loaded,         \* this.loaded, a Map, in the order of its keys
  report          \* what injectIntoRegistry returned since then, or nothing

pluginVars == <<registry, disk, results, loaded, report>>

\* A declaration in a manifest: what its module turns out to be, and to do.  The
\* permissions in a manifest are validated, and looked at no more.
PluginToolDeclaration(name, loads) == [name |-> name, loads |-> loads, does |-> "SUCCESS"]
PluginManifest(name, faults, tools) == [name |-> name, faults |-> faults, tools |-> tools]

PluginsInit ==
  /\ RegistryInit
  /\ disk = << >>
  /\ results = << >> /\ loaded = << >> /\ report = nothing

\* What is wrong with a manifest, namespaces aside: a required field is absent, or
\* the name, the version, the permissions, the list of tools or one of them is ill.
Faults == {"field", "name", "version", "permissions", "tools", "tool"}

Foreign(m) == \E i \in DOMAIN m.tools : namespaceOf[m.tools[i].name] # m.name

validate(m) ==
  IF "field" \in m.faults THEN {"field"}
  ELSE m.faults \cup {f \in {"namespace"} : "tools" \notin m.faults /\ Foreign(m)}

Loads(declaration) == declaration.loads = "function"

\* The module is absent or throws, or does not export a function; of two tools of
\* a name the later stays.
loadToolHandlers(m) ==
  [tools  |-> {d \in ToSet(m.tools) :
                 \E i \in DOMAIN m.tools :
                   /\ m.tools[i] = d /\ Loads(d)
                   /\ \A j \in (i + 1)..Len(m.tools) :
                        ~(Loads(m.tools[j]) /\ m.tools[j].name = d.name)},
   errors |-> {d \in ToSet(m.tools) : ~Loads(d)}]

\* One with a handler missing is kept, as invalid.
LoadedPlugin(manifest, handlers) ==
  [stored |-> TRUE, valid |-> handlers.errors = {}, manifest |-> manifest, tools |-> handlers.tools]

Rejected == [stored |-> FALSE, valid |-> FALSE, manifest |-> nothing, tools |-> {}]

\* One directory.
LoadFrom(directory) ==
  IF directory \in {noManifest, notJson} THEN Rejected
  ELSE IF validate(directory) # {} THEN Rejected
  ELSE LoadedPlugin(directory, loadToolHandlers(directory))

Named(plugins, name) == {i \in DOMAIN plugins : plugins[i].manifest.name = name}

\* this.loaded.set: a later plugin of the same name takes the place.
SetLoaded(plugins, p) ==
  IF ~p.stored THEN plugins
  ELSE IF Named(plugins, p.manifest.name) = {} THEN Append(plugins, p)
  ELSE [i \in DOMAIN plugins |-> IF i \in Named(plugins, p.manifest.name) THEN p ELSE plugins[i]]

SetAll(plugins, found) ==
  LET after[n \in 0..Len(found)] == IF n = 0 THEN plugins ELSE SetLoaded(after[n - 1], found[n])
  IN after[Len(found)]

discoverAndLoad ==
  /\ results' = [i \in DOMAIN disk |-> LoadFrom(disk[i])]
  /\ loaded' = SetAll(loaded, results')
  /\ report' = nothing
  /\ UNCHANGED <<registry, disk>>

HandlerOf(p, d) == [from |-> p, does |-> d.does]

Manifests == (UNION {ToSet(d) : d \in Disks}) \ {noManifest, notJson}

\* Directories are listed, manifests list their tools, and nothing is no handler.
ASSUME PluginAssumption ==
  /\ \A d \in Disks : d \in Seq(ToSet(d))
  /\ \A m \in Manifests :
       /\ m.tools \in Seq(ToSet(m.tools))
       /\ \A d \in ToSet(m.tools) :
            /\ d.name \in ToolNames
            /\ HandlerOf(LoadedPlugin(m, loadToolHandlers(m)), d) # nothing

Offers(p, t) == \E d \in p.tools : d.name = t
OfferOf(p, t) == HandlerOf(p, CHOOSE d \in p.tools : d.name = t)

\* Each chosen one registers its tools in turn; register refuses names it has.  Of
\* the others the report gives the names.
InjectFrom(chosen) ==
  LET Offering(t) == {i \in chosen : Offers(loaded[i], t)}
      New == {t \in ToolNames : ~Registered(t) /\ Offering(t) # {}}
      First(t) == CHOOSE i \in Offering(t) : \A j \in Offering(t) : i <= j
  IN /\ registry' = [t \in ToolNames |-> IF t \in New THEN OfferOf(loaded[First(t)], t) ELSE registry[t]]
     /\ report' = [injected |-> New,
                   rejected |-> {t \in ToolNames :
                                   \E i \in Offering(t) : t \notin New \/ i # First(t)}
                                  \cup {loaded[i].manifest.name : i \in DOMAIN loaded \ chosen}]

\* Mutant: invalid plugins give what they have.
InjectAll ==
  /\ InjectFrom(DOMAIN loaded)
  /\ UNCHANGED <<disk, results, loaded>>

injectIntoRegistry ==
  /\ InjectFrom({i \in DOMAIN loaded : loaded[i].valid})
  /\ UNCHANGED <<disk, results, loaded>>

\* The host registers its own, and someone replaces the plugins; modules are
\* loaded once, so a changed one has another path.
HostRegisters ==
  /\ bootstrapCoreTools \/ \E t \in ToolNames : register(t, ByHost("promise"))
  /\ UNCHANGED <<disk, results, loaded, report>>

Install ==
  /\ disk' \in Disks
  /\ UNCHANGED <<registry, results, loaded, report>>

PluginsNext == discoverAndLoad \/ injectIntoRegistry \/ HostRegisters \/ Install

-----------------------------------------------------------------------------
\* A tool in the registry is the host's, or it bears the name of a plugin whose
\* manifest was valid and whose handlers were all there; and once plugins are
\* injected, each tool of one that was reported valid is registered with its own
\* handler or is among those rejected, unless a later directory took its name.
RegistryIsTrusted ==
  /\ \A t \in ToolNames :
       Registered(t) /\ registry[t].from # nothing =>
         LET m == registry[t].from.manifest
         IN /\ m.faults = {} /\ namespaceOf[t] = m.name
            /\ \A i \in DOMAIN m.tools : Loads(m.tools[i]) /\ namespaceOf[m.tools[i].name] = m.name
  /\ report # nothing =>
       \A i \in DOMAIN results :
         results[i].valid
         /\ (\A j \in (i + 1)..Len(results) :
               results[j].stored => results[j].manifest.name # results[i].manifest.name)
         => \A d \in results[i].tools :
              registry[d.name] = HandlerOf(results[i], d) \/ d.name \in report.rejected
=============================================================================
