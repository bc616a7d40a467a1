------------------------------- MODULE Plugins -------------------------------
(***************************************************************************)
(* The plugin registry (app/plugins/registry.py) and what changes it or    *)
(* the dynamic configuration at run time: the plugin API, PUT /config, the *)
(* start of the process; and the policy, which takes its fences from       *)
(* Settings (app/graph/nodes/policy_evaluate.py).                          *)
(*                                                                         *)
(* The set of disabled plugins lives in the registry and, under the key    *)
(* disabled_plugins, in the dynamic configuration. A handler runs alone    *)
(* between two awaits; the awaits are those of DynamicConfig.update.       *)
(***************************************************************************)
EXTENDS DynamicConfig

CONSTANTS
    Builtin,       \* the plugins of package app.plugins.builtin
    Custom,        \* the plugins that may be uploaded
    DisabledKey,   \* "disabled_plugins"
    Bodies,        \* the bodies of PUT /config
    FenceKey       \* a key of the safety fences

Plugins == Builtin \cup Custom

\* The lists of plugin names.
Lists == {ds : ds \in SUBSET Plugins}

ASSUME PluginsAssumption ==
    /\ Builtin \cap Custom = {}
    /\ Absent \notin Plugins
    /\ DisabledKey \in Keys \ InSettings
    /\ FenceKey \in InSettings
    /\ Bodies \subseteq Entries
    /\ Lists \subseteq Fits[DisabledKey]

VARIABLES
    files,         \* the files of the custom plugins directory
    plugins,       \* PluginRegistry._plugins
    disabled,      \* PluginRegistry._disabled
    deletes,       \* the plugin a request deletes
    policy,        \* the fences the policy singleton was built with
    judged,        \* history: the fences of the last evaluation, used and configured
    overrides      \* history: the requests that sent a list past the registry

registryVars == <<files, plugins, disabled, deletes, policy, judged, overrides>>
vars == <<configVars, registryVars>>

\* A broken file is one that raises when it is imported.
Files == {"none", "good", "broken"}

TypeOK ==
    /\ ConfigTypeOK
    /\ files \in [Custom -> Files]
    /\ plugins \in SUBSET Plugins
    /\ disabled \in SUBSET Plugins
    /\ deletes \in [Requests -> Custom \cup {Absent}]
    /\ policy \in Values \cup {Absent}
    /\ judged \in [used : Values, configured : Values]
    /\ overrides \in SUBSET Requests

Init ==
    /\ ConfigInit
    /\ files = [p \in Custom |-> "none"]
    /\ plugins = Builtin
    /\ disabled = {}
    /\ deletes = [u \in Requests |-> Absent]
    /\ policy = Absent
    /\ judged = [used |-> Default[FenceKey], configured |-> Default[FenceKey]]
    /\ overrides = {}

-----------------------------------------------------------------------------

\* The plugins that discover_builtin and discover_custom register.
Discovered(fs) == Builtin \cup {p \in Custom : fs[p] = "good"}

\* PluginRegistry.reload: every plugin is found anew, and the disabled names are
\* those it is given, also of plugins that are not there.
reload(fs, disabled_names) ==
    /\ plugins' = Discovered(fs)
    /\ disabled' = disabled_names

OnlyDisabled(ds) == [k \in Keys |-> IF k = DisabledKey THEN ds ELSE Absent]

\* PUT /config takes any managed key, disabled_plugins among them, of which the
\* registry hears nothing before the next start.
update_config(u, c) ==
    /\ Begin(u, c)
    /\ overrides' = IF c[DisabledKey] = Absent THEN overrides ELSE overrides \cup {u}
    /\ UNCHANGED <<files, plugins, disabled, deletes, policy, judged>>

\* Defect the runs must notice: the list is read before the plugin is toggled.
toggle_plugin_late(u, p, enabled) ==
    /\ p \in plugins
    /\ disabled' = IF enabled THEN disabled \ {p} ELSE disabled \cup {p}
    /\ Begin(u, OnlyDisabled(disabled))
    /\ UNCHANGED <<files, plugins, deletes, policy, judged, overrides>>

\* The registry changes at once, and its list is persisted.
toggle_plugin(u, p, enabled) ==
    /\ p \in plugins
    /\ disabled' = IF enabled THEN disabled \ {p} ELSE disabled \cup {p}
    /\ Begin(u, OnlyDisabled(disabled'))
    /\ UNCHANGED <<files, plugins, deletes, policy, judged, overrides>>

\* Without a list reload keeps the names it has.
reload_plugins ==
    /\ reload(files, disabled)
    /\ UNCHANGED <<configVars, files, deletes, policy, judged, overrides>>

upload_plugin(p, file) ==
    /\ files' = [files EXCEPT ![p] = file]
    /\ reload(files', disabled)
    /\ UNCHANGED <<configVars, deletes, policy, judged, overrides>>

\* Only a plugin that is registered is known to be custom, and its file must be
\* there. The registry is reloaded only after the list was persisted.
delete_custom_plugin(u, p) ==
    /\ p \in plugins
    /\ files[p] # "none"
    /\ files' = [files EXCEPT ![p] = "none"]
    /\ disabled' = disabled \ {p}
    /\ Begin(u, OnlyDisabled(disabled'))
    /\ deletes' = [deletes EXCEPT ![u] = p]
    /\ UNCHANGED <<plugins, policy, judged, overrides>>

Read(u, k) == Select(u, k) /\ UNCHANGED registryVars

\* Defect the runs must notice: a deletion that leaves the registry alone.
Flushed_only(u) == Flush(u) /\ UNCHANGED registryVars

\* update returns. A deletion reloads the registry with the list it had taken
\* before it waited, whatever was toggled meanwhile.
Flushed(u) ==
    /\ Flush(u)
    /\ \/ /\ deletes[u] = Absent
          /\ UNCHANGED registryVars
       \/ /\ deletes[u] # Absent
          /\ reload(files, configs[u][DisabledKey])
          /\ UNCHANGED <<files, deletes, policy, judged, overrides>>

\* A list of the registry's own, with nobody else's beside it, is back in step.
Committed(u) ==
    /\ Commit(u)
    /\ overrides' = IF DisabledKey \in Named(configs[u]) \ clashed[u] /\ u \notin overrides
                    THEN {} ELSE overrides
    /\ UNCHANGED <<files, plugins, disabled, deletes, policy, judged>>

RolledBack(u) == RollBack(u) /\ UNCHANGED registryVars

\* The policy is built once, at the first evaluation of the process.
EvaluatePolicy ==
    /\ policy' = IF policy = Absent THEN settings[FenceKey] ELSE policy
    /\ judged' = [used |-> policy', configured |-> settings[FenceKey]]
    /\ UNCHANGED <<configVars, files, plugins, disabled, deletes, overrides>>

\* The disabled names in the configuration a start has loaded, if it has any; a
\* value that is no list counts as none.
_load_disabled_plugins(loaded) ==
    IF loaded[DisabledKey] \in Lists THEN loaded[DisabledKey] ELSE {}

\* lifespan: load the configuration, apply it, restore the disabled plugins.
Start(loaded) ==
    /\ Restart(loaded)
    /\ reload(files, _load_disabled_plugins(cache'))
    /\ policy' = Absent
    /\ overrides' = {}
    /\ UNCHANGED <<files, deletes, judged>>

Next ==
    \/ \E u \in Requests :
         \/ \E c \in Bodies : update_config(u, c)
         \/ \E p \in Plugins, enabled \in BOOLEAN : toggle_plugin(u, p, enabled)
         \/ \E p \in Custom : delete_custom_plugin(u, p)
         \/ \E k \in Keys : Read(u, k)
         \/ Flushed(u) \/ Committed(u) \/ RolledBack(u)
    \/ \E p \in Custom, file \in {"good", "broken"} : upload_plugin(p, file)
    \/ reload_plugins
    \/ EvaluatePolicy
    \/ \E loaded \in BOOLEAN : Start(loaded)

Spec == Init /\ [][Next]_vars

-----------------------------------------------------------------------------
(* Properties. *)

\* The set of disabled plugins a start would restore is the one in memory, unless
\* a clash, a failure or a failed load split the two, or a list sent to PUT /config
\* went past the registry; a later toggle or deletion that is alone heals it.
DisabledIsKept ==
    /\ overrides = {}
    /\ DisabledKey \notin suspect
    /\ \A u \in Requests : DisabledKey \notin Named(configs[u])
    => disabled = _load_disabled_plugins(rows)

\* A custom plugin whose file is gone is still registered only while the request
\* that deletes it has not reloaded the registry, or because that one failed.
GhostsAreDeleted ==
    \A p \in plugins \cap Custom : files[p] = "none" =>
        \E u \in Requests : deletes[u] = p /\ step[u] \in {"selecting", "flushing", "failed"}

\* Once new fences are committed the next evaluation of the policy uses them: what
\* docs/guide/configuration.md says of the safety fences.
NewFencesApply ==
    [][/\ judged' # judged
       /\ FenceKey \notin suspect
       /\ \A u \in Requests : FenceKey \notin Named(configs[u])
       => judged'.used = settings[FenceKey]]_vars

=============================================================================
