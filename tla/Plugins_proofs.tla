---------------------------- MODULE Plugins_proofs ----------------------------
(***************************************************************************)
(* Proofs about DynamicConfig and Plugins, for any number of requests, any *)
(* keys, values and plugins.                                               *)
(*                                                                         *)
(* ConfigInductive adds to the invariants what a request knows between its *)
(* queries and its commit about a key that nobody else has in hand: the    *)
(* cache holds its value, and the row is still the one it read. A key that *)
(* leaves the hand of a request has either been committed in that state or *)
(* is suspect, so agreement need not be claimed while it is in hand.       *)
(***************************************************************************)
EXTENDS Plugins, TLAPS

\* The locals of a request are those of a coroutine under way.
Locals ==
    \A u \in Requests :
        /\ ~Active(u) => configs[u] = Nothing /\ todo[u] = {} /\ clashed[u] = {}
        /\ todo[u] \subseteq Named(configs[u])
        /\ step[u] # "selecting" => todo[u] = {}

\* What went past the cast fits.
CastKept ==
    \A u \in Requests : \A k \in Named(configs[u]) \ todo[u] : configs[u][k] \in Fits[k]

\* Two requests with one key in hand know of each other, and the key is suspect.
Clashes ==
    /\ \A u \in Requests : clashed[u] \subseteq suspect \cap Named(configs[u])
    /\ \A u, w \in Requests : \A k \in Named(configs[u]) \cap Named(configs[w]) :
         u # w => k \in clashed[u]

\* A key that a request has to itself, once its row is read.
Alone ==
    \A u \in Requests : \A k \in Named(configs[u]) \ (todo[u] \cup clashed[u]) :
        /\ cache[k] = configs[u][k]
        /\ read[u][k] = rows[k]
        /\ step[u] # "selecting" /\ k \in InSettings => settings[k] = configs[u][k]

\* The inductive invariant of the configuration.
ConfigInductive ==
    /\ ConfigTypeOK
    /\ Locals
    /\ CastKept
    /\ Clashes
    /\ Alone
    /\ RowsLoad
    /\ CleanKeysAgree

\* The steps of Next, as DynamicConfig sees them.
ConfigStep ==
    \/ \E u \in Requests :
         \/ \E c \in Entries : Begin(u, c)
         \/ \E k \in Keys : Select(u, k)
         \/ Flush(u) \/ Commit(u) \/ RollBack(u)
    \/ \E loaded \in BOOLEAN : Restart(loaded)
    \/ UNCHANGED configVars

USE DynamicConfigAssumption

-----------------------------------------------------------------------------
(* The configuration. *)

LEMMA ConfigInitially == ConfigInit => ConfigInductive
<1>1. ConfigInit => ConfigTypeOK /\ RowsLoad
  BY DEF ConfigInit, ConfigTypeOK, RowsLoad, Entries, Nothing, Steps
<1>2. ConfigInit => Locals /\ CastKept /\ Clashes /\ Alone
  BY DEF ConfigInit, Locals, CastKept, Clashes, Alone, Named, Nothing, Active
<1>3. ConfigInit => CleanKeysAgree
  BY DEF ConfigInit, CleanKeysAgree, Nothing
<1> QED
  BY <1>1, <1>2, <1>3 DEF ConfigInductive

\* Types are kept by every step of a request and by a start.
LEMMA ConfigStepIsTyped ==
  ASSUME ConfigTypeOK, ConfigStep
  PROVE  ConfigTypeOK'
<1> USE DEF ConfigTypeOK, Entries, Nothing, Steps
<1>1. ASSUME NEW u \in Requests, NEW c \in Entries, Begin(u, c) PROVE ConfigTypeOK'
  BY <1>1 DEF Begin, Named
<1>2. ASSUME NEW u \in Requests, NEW k \in Keys, Select(u, k) PROVE ConfigTypeOK'
  BY <1>2 DEF Select, apply_to_settings
<1>3. ASSUME NEW u \in Requests, Flush(u) PROVE ConfigTypeOK'
  BY <1>3 DEF Flush
<1>4. ASSUME NEW u \in Requests, Commit(u) PROVE ConfigTypeOK'
  BY <1>4 DEF Commit, Gone, Dirty, Named
<1>5. ASSUME NEW u \in Requests, RollBack(u) PROVE ConfigTypeOK'
  BY <1>5 DEF RollBack, Gone, Named
<1>6. ASSUME NEW loaded \in BOOLEAN, Restart(loaded) PROVE ConfigTypeOK'
  BY <1>6 DEF Restart, Gone, Named, apply_to_settings
<1>7. CASE UNCHANGED configVars
  BY <1>7 DEF configVars
<1> QED
  BY <1>1, <1>2, <1>3, <1>4, <1>5, <1>6, <1>7 DEF ConfigStep

\* A request's locals change with its step only.
LEMMA LocalsKept ==
  ASSUME ConfigTypeOK, Locals, ConfigStep
  PROVE  Locals'
<1> USE DEF ConfigTypeOK, Entries, Nothing, Steps, Locals, Active
<1>1. ASSUME NEW u \in Requests, NEW c \in Entries, Begin(u, c) PROVE Locals'
  BY <1>1 DEF Begin, Named
<1>2. ASSUME NEW u \in Requests, NEW k \in Keys, Select(u, k) PROVE Locals'
  BY <1>2 DEF Select, Named
<1>3. ASSUME NEW u \in Requests, Flush(u) PROVE Locals'
  BY <1>3 DEF Flush, Named
<1>4. ASSUME NEW u \in Requests, Commit(u) PROVE Locals'
  BY <1>4 DEF Commit, Gone, Named
<1>5. ASSUME NEW u \in Requests, RollBack(u) PROVE Locals'
  BY <1>5 DEF RollBack, Gone, Named
<1>6. ASSUME NEW loaded \in BOOLEAN, Restart(loaded) PROVE Locals'
  BY <1>6 DEF Restart, Gone, Named
<1>7. CASE UNCHANGED configVars
  BY <1>7 DEF configVars, Named
<1> QED
  BY <1>1, <1>2, <1>3, <1>4, <1>5, <1>6, <1>7 DEF ConfigStep

LEMMA IdleHasNothing ==
  ASSUME Locals, NEW u \in Requests, step[u] = "idle"
  PROVE  Named(configs[u]) = {}
<1>1. ~Active(u)
  BY DEF Active
<1>2. configs[u] = Nothing
  BY <1>1 DEF Locals
<1> QED
  BY <1>2 DEF Named, Nothing

\* A value is cast before its key leaves todo.
LEMMA CastStaysKept ==
  ASSUME ConfigTypeOK, Locals, CastKept, ConfigStep
  PROVE  CastKept'
<1> USE DEF ConfigTypeOK, Entries, Nothing, CastKept, Named
<1>1. ASSUME NEW u \in Requests, NEW c \in Entries, Begin(u, c) PROVE CastKept'
  BY <1>1 DEF Begin
<1>2. ASSUME NEW u \in Requests, NEW k \in Keys, Select(u, k) PROVE CastKept'
  BY <1>2 DEF Select
<1>3. ASSUME NEW u \in Requests, Flush(u) PROVE CastKept'
  BY <1>3 DEF Flush
<1>4. ASSUME NEW u \in Requests, Commit(u) \/ RollBack(u) PROVE CastKept'
  BY <1>4 DEF Commit, RollBack, Gone
<1>5. ASSUME NEW loaded \in BOOLEAN, Restart(loaded) PROVE CastKept'
  BY <1>5 DEF Restart, Gone
<1>6. CASE UNCHANGED configVars
  BY <1>6 DEF configVars
<1> QED
  BY <1>1, <1>2, <1>3, <1>4, <1>5, <1>6 DEF ConfigStep

\* A clash is noted on both sides when the second request begins, and its key
\* stays suspect while one of the two is under way.
LEMMA ClashesKept ==
  ASSUME ConfigTypeOK, Locals, Clashes, ConfigStep
  PROVE  Clashes'
<1> USE DEF ConfigTypeOK, Entries, Nothing, Clashes, Named
<1>1. ASSUME NEW u \in Requests, NEW c \in Entries, Begin(u, c) PROVE Clashes'
  <2>1. \A w \in Requests : clashed'[w] \subseteq suspect' \cap Named(configs'[w])
    <3>1. ASSUME NEW w \in Requests, w # u
          PROVE  clashed'[w] \subseteq suspect' \cap Named(configs'[w])
      BY <1>1, <3>1 DEF Begin
    <3>2. clashed'[u] \subseteq suspect' \cap Named(configs'[u])
      BY <1>1 DEF Begin
    <3> QED
      BY <3>1, <3>2
  <2>2. Named(configs[u]) = {}
    BY <1>1, IdleHasNothing DEF Begin
  <2>3. ASSUME NEW v \in Requests, NEW w \in Requests, v # w,
               NEW k \in Named(configs'[v]) \cap Named(configs'[w])
        PROVE  k \in clashed'[v]
    <3>1. CASE v = u
      BY <1>1, <2>3, <3>1 DEF Begin
    <3>2. CASE w = u
      BY <1>1, <2>3, <3>2 DEF Begin
    <3>3. CASE v # u /\ w # u
      BY <1>1, <2>3, <3>3 DEF Begin
    <3> QED
      BY <3>1, <3>2, <3>3
  <2> QED
    BY <2>1, <2>3
<1>2. ASSUME NEW u \in Requests, NEW k \in Keys, Select(u, k) PROVE Clashes'
  BY <1>2 DEF Select
<1>3. ASSUME NEW u \in Requests, Flush(u) PROVE Clashes'
  BY <1>3 DEF Flush
<1>4. ASSUME NEW u \in Requests, Commit(u) PROVE Clashes'
  <2>1. ASSUME NEW w \in Requests, NEW k \in clashed'[w]
        PROVE  k \in suspect' \cap Named(configs'[w])
    <3>1. w # u /\ k \in clashed[w] /\ k \in suspect
      BY <1>4, <2>1 DEF Commit, Gone
    <3>2. k \in Named(configs[u]) => k \in clashed[u]
      BY <3>1, <1>4
    <3> QED
      BY <1>4, <3>1, <3>2 DEF Commit, Gone
  <2>2. ASSUME NEW v \in Requests, NEW w \in Requests, v # w,
               NEW k \in Named(configs'[v]) \cap Named(configs'[w])
        PROVE  k \in clashed'[v]
    BY <1>4, <2>2 DEF Commit, Gone
  <2> QED
    BY <2>1, <2>2
<1>5. ASSUME NEW u \in Requests, RollBack(u) PROVE Clashes'
  BY <1>5 DEF RollBack, Gone
<1>6. ASSUME NEW loaded \in BOOLEAN, Restart(loaded) PROVE Clashes'
  BY <1>6 DEF Restart, Gone
<1>7. CASE UNCHANGED configVars
  BY <1>7 DEF configVars
<1> QED
  BY <1>1, <1>2, <1>3, <1>4, <1>5, <1>6, <1>7 DEF ConfigStep

\* Nobody else touches the cache or the row of a key that a request has to itself.
LEMMA AloneKept ==
  ASSUME ConfigTypeOK, Locals, Clashes, Alone, ConfigStep
  PROVE  Alone'
<1> USE DEF ConfigTypeOK, Entries, Nothing, Clashes, Named, Alone
<1>1. ASSUME NEW u \in Requests, NEW c \in Entries, Begin(u, c) PROVE Alone'
  BY <1>1 DEF Begin
<1>2. ASSUME NEW u \in Requests, NEW j \in Keys, Select(u, j) PROVE Alone'
  <2> SUFFICES ASSUME NEW w \in Requests, NEW k \in Named(configs'[w]) \ (todo'[w] \cup clashed'[w])
               PROVE  /\ cache'[k] = configs'[w][k]
                      /\ read'[w][k] = rows'[k]
                      /\ step'[w] # "selecting" /\ k \in InSettings => settings'[k] = configs'[w][k]
    OBVIOUS
  <2>1. CASE w = u /\ k = j
    BY <1>2, <2>1 DEF Select, apply_to_settings
  <2>2. CASE w = u /\ k # j
    BY <1>2, <2>2 DEF Select, apply_to_settings
  <2>3. CASE w # u
    <3>1. k # j
      BY <1>2, <2>3 DEF Select, Locals
    <3> QED
      BY <1>2, <2>3, <3>1 DEF Select, apply_to_settings
  <2> QED
    BY <2>1, <2>2, <2>3
<1>3. ASSUME NEW u \in Requests, Flush(u) PROVE Alone'
  BY <1>3 DEF Flush
<1>4. ASSUME NEW u \in Requests, Commit(u) PROVE Alone'
  <2>1. ASSUME NEW w \in Requests, NEW k \in Named(configs'[w]) \ (todo'[w] \cup clashed'[w])
        PROVE  w # u /\ k \notin Dirty(u)
    BY <1>4, <2>1 DEF Commit, Gone, Dirty
  <2> QED
    BY <1>4, <2>1 DEF Commit, Gone
<1>5. ASSUME NEW u \in Requests, RollBack(u) PROVE Alone'
  BY <1>5 DEF RollBack, Gone
<1>6. ASSUME NEW loaded \in BOOLEAN, Restart(loaded) PROVE Alone'
  BY <1>6 DEF Restart, Gone
<1>7. CASE UNCHANGED configVars
  BY <1>7 DEF configVars
<1> QED
  BY <1>1, <1>2, <1>3, <1>4, <1>5, <1>6, <1>7 DEF ConfigStep

\* Only a commit writes rows, and all its keys went past the cast.
LEMMA RowsKept ==
  ASSUME ConfigTypeOK, Locals, CastKept, RowsLoad, ConfigStep
  PROVE  RowsLoad'
<1> USE DEF RowsLoad
<1>1. ASSUME NEW u \in Requests, Commit(u) PROVE RowsLoad'
  BY <1>1 DEF Commit, Dirty, Locals, CastKept
<1>2. ASSUME rows' = rows PROVE RowsLoad'
  BY <1>2
<1>3. rows' = rows \/ \E u \in Requests : Commit(u)
  BY DEF ConfigStep, Begin, Select, Flush, RollBack, Restart, configVars
<1> QED
  BY <1>1, <1>2, <1>3

\* A clean key that is in nobody's hand stays so, or has just been committed by
\* a request that had it to itself.
LEMMA CleanKept ==
  ASSUME ConfigTypeOK, Locals, Clashes, Alone, CleanKeysAgree, ConfigStep
  PROVE  CleanKeysAgree'
<1> USE DEF ConfigTypeOK, Entries, Nothing, Named, CleanKeysAgree
<1>1. ASSUME NEW u \in Requests, NEW c \in Entries, Begin(u, c) PROVE CleanKeysAgree'
  <2>1. Named(configs[u]) = {}
    BY <1>1, IdleHasNothing DEF Begin
  <2> QED
    BY <1>1, <2>1 DEF Begin
<1>2. ASSUME NEW u \in Requests, NEW j \in Keys, Select(u, j) PROVE CleanKeysAgree'
  <2>1. j \in Named(configs[u])
    BY <1>2 DEF Select, Locals
  <2> QED
    BY <1>2, <2>1 DEF Select, apply_to_settings
<1>3. ASSUME NEW u \in Requests, Flush(u) PROVE CleanKeysAgree'
  BY <1>3 DEF Flush
<1>4. ASSUME NEW u \in Requests, Commit(u) PROVE CleanKeysAgree'
  <2> SUFFICES ASSUME NEW k \in Keys \ suspect', \A w \in Requests : k \notin Named(configs'[w])
               PROVE  /\ cache'[k] = rows'[k]
                      /\ k \in InSettings =>
                           settings'[k] = IF rows'[k] = Absent THEN Default[k] ELSE rows'[k]
    OBVIOUS
  <2>1. CASE k \in Named(configs[u])
    <3>1. k \notin clashed[u] /\ todo[u] = {}
      BY <1>4, <2>1 DEF Commit, Clashes, Locals
    <3>2. /\ cache[k] = configs[u][k]
          /\ read[u][k] = rows[k]
          /\ k \in InSettings => settings[k] = configs[u][k]
      BY <1>4, <2>1, <3>1 DEF Commit, Alone
    <3>3. rows'[k] = configs[u][k]
      BY <1>4, <2>1, <3>2 DEF Commit, Dirty
    <3> QED
      BY <1>4, <2>1, <3>2, <3>3 DEF Commit
  <2>2. CASE k \notin Named(configs[u])
    BY <1>4, <2>2 DEF Commit, Gone, Dirty
  <2> QED
    BY <2>1, <2>2
<1>5. ASSUME NEW u \in Requests, RollBack(u) PROVE CleanKeysAgree'
  BY <1>5 DEF RollBack, Gone
<1>6. ASSUME NEW loaded \in BOOLEAN, Restart(loaded) PROVE CleanKeysAgree'
  BY <1>6 DEF Restart, apply_to_settings
<1>7. CASE UNCHANGED configVars
  BY <1>7 DEF configVars
<1> QED
  BY <1>1, <1>2, <1>3, <1>4, <1>5, <1>6, <1>7 DEF ConfigStep

LEMMA ConfigIsInductive ==
  ASSUME ConfigInductive, ConfigStep
  PROVE  ConfigInductive'
BY ConfigStepIsTyped, LocalsKept, CastStaysKept, ClashesKept, AloneKept, RowsKept, CleanKept
   DEF ConfigInductive

-----------------------------------------------------------------------------
(* The registry. *)

\* A deletion has the list of disabled plugins in hand.
Deleting ==
    \A u \in Requests :
        /\ step[u] = "idle" => deletes[u] = Absent
        /\ Active(u) /\ deletes[u] # Absent =>
             /\ DisabledKey \in Named(configs[u])
             /\ configs[u][DisabledKey] \in SUBSET Plugins

\* A request that has a list of the registry's to itself is about to persist the
\* one in memory.
ListInHand ==
    \A u \in Requests \ overrides :
        DisabledKey \in Named(configs[u]) \ clashed[u] => disabled = configs[u][DisabledKey]

\* The inductive invariant.
Inductive ==
    /\ ConfigInductive
    /\ TypeOK
    /\ Deleting
    /\ ListInHand
    /\ DisabledIsKept
    /\ GhostsAreDeleted

USE PluginsAssumption

LEMMA ListIsEntry ==
  ASSUME NEW ds \in SUBSET Plugins
  PROVE  /\ OnlyDisabled(ds) \in Entries
         /\ OnlyDisabled(ds)[DisabledKey] = ds
         /\ Named(OnlyDisabled(ds)) = {DisabledKey}
<1>1. ds \in Values
  BY DEF Lists
<1>2. OnlyDisabled(ds) \in Entries
  BY <1>1 DEF OnlyDisabled, Entries
<1>3. OnlyDisabled(ds)[DisabledKey] = ds
  BY DEF OnlyDisabled
<1>4. Named(OnlyDisabled(ds)) = {DisabledKey}
  BY <1>1 DEF OnlyDisabled, Named
<1> QED
  BY <1>2, <1>3, <1>4

\* Every step of the registry is one of the configuration.
LEMMA StepsOfConfiguration ==
  ASSUME TypeOK, Next
  PROVE  ConfigStep
<1>1. ASSUME NEW u \in Requests, NEW c \in Bodies, update_config(u, c) PROVE ConfigStep
  BY <1>1 DEF update_config, ConfigStep
<1>2. ASSUME NEW u \in Requests, NEW p \in Plugins, NEW enabled \in BOOLEAN,
             toggle_plugin(u, p, enabled)
      PROVE  ConfigStep
  <2>1. disabled' \in SUBSET Plugins
    BY <1>2 DEF toggle_plugin, TypeOK
  <2> QED
    BY <1>2, <2>1, ListIsEntry DEF toggle_plugin, ConfigStep
<1>3. ASSUME NEW u \in Requests, NEW p \in Custom, delete_custom_plugin(u, p) PROVE ConfigStep
  <2>1. disabled' \in SUBSET Plugins
    BY <1>3 DEF delete_custom_plugin, TypeOK
  <2> QED
    BY <1>3, <2>1, ListIsEntry DEF delete_custom_plugin, ConfigStep
<1>4. ASSUME NEW u \in Requests, NEW k \in Keys, Read(u, k) PROVE ConfigStep
  BY <1>4 DEF Read, ConfigStep
<1>5. ASSUME NEW u \in Requests, Flushed(u) \/ Committed(u) \/ RolledBack(u) PROVE ConfigStep
  BY <1>5 DEF Flushed, Committed, RolledBack, ConfigStep, reload
<1>6. ASSUME \/ \E p \in Custom, file \in {"good", "broken"} : upload_plugin(p, file)
             \/ reload_plugins \/ EvaluatePolicy
      PROVE  ConfigStep
  BY <1>6 DEF upload_plugin, reload_plugins, EvaluatePolicy, ConfigStep, reload
<1>7. ASSUME NEW loaded \in BOOLEAN, Start(loaded) PROVE ConfigStep
  BY <1>7 DEF Start, ConfigStep, reload, _load_disabled_plugins
<1> QED
  BY <1>1, <1>2, <1>3, <1>4, <1>5, <1>6, <1>7 DEF Next

\* A list of names is restored as it is, and nothing but one is restored.
LEMMA RestoredIsList ==
  /\ \A entries : _load_disabled_plugins(entries) \in SUBSET Plugins
  /\ \A entries : entries[DisabledKey] \in SUBSET Plugins =>
       _load_disabled_plugins(entries) = entries[DisabledKey]
BY DEF _load_disabled_plugins, Lists

LEMMA RegistryIsTyped ==
  ASSUME Inductive, [Next]_vars, ConfigTypeOK'
  PROVE  TypeOK'
<1> USE DEF TypeOK, Plugins, Discovered, Files, registryVars
<1>1. ASSUME NEW u \in Requests, NEW c \in Bodies, update_config(u, c) PROVE TypeOK'
  BY <1>1 DEF Inductive, update_config
<1>2. ASSUME NEW u \in Requests, NEW p \in Plugins, NEW enabled \in BOOLEAN,
             toggle_plugin(u, p, enabled)
      PROVE  TypeOK'
  BY <1>2 DEF Inductive, toggle_plugin
<1>3. ASSUME NEW u \in Requests, NEW p \in Custom, delete_custom_plugin(u, p) PROVE TypeOK'
  BY <1>3 DEF Inductive, delete_custom_plugin
<1>4. ASSUME NEW u \in Requests, NEW k \in Keys, Read(u, k) PROVE TypeOK'
  BY <1>4 DEF Inductive, Read
<1>5. ASSUME NEW u \in Requests, Flushed(u) PROVE TypeOK'
  <2>1. CASE deletes[u] = Absent
    BY <1>5, <2>1 DEF Inductive, Flushed, reload
  <2>2. CASE deletes[u] # Absent
    <3>1. configs[u][DisabledKey] \in SUBSET Plugins
      BY <1>5, <2>2 DEF Inductive, Deleting, Flushed, Flush, Active, reload
    <3> QED
      BY <1>5, <2>2, <3>1 DEF Inductive, Flushed, reload
  <2> QED
    BY <2>1, <2>2
<1>6. ASSUME NEW u \in Requests, Committed(u) \/ RolledBack(u) PROVE TypeOK'
  BY <1>6 DEF Inductive, Committed, RolledBack
<1>7. ASSUME NEW p \in Custom, NEW file \in {"good", "broken"}, upload_plugin(p, file)
      PROVE  TypeOK'
  BY <1>7 DEF Inductive, upload_plugin, reload
<1>8. CASE reload_plugins
  BY <1>8 DEF Inductive, reload_plugins, reload
<1>9. CASE EvaluatePolicy
  BY <1>9 DEF Inductive, EvaluatePolicy, ConfigTypeOK
<1>10. ASSUME NEW loaded \in BOOLEAN, Start(loaded) PROVE TypeOK'
  <2>1. disabled' \in SUBSET Plugins
    BY <1>10, RestoredIsList DEF Start, reload
  <2> QED
    BY <1>10, <2>1 DEF Inductive, Start, reload
<1>11. CASE UNCHANGED vars
  BY <1>11 DEF Inductive, vars
<1> QED
  BY <1>1, <1>2, <1>3, <1>4, <1>5, <1>6, <1>7, <1>8, <1>9, <1>10, <1>11 DEF Next

\* A request deletes a plugin from its beginning on, or never.
LEMMA DeletingKept ==
  ASSUME Inductive, [Next]_vars
  PROVE  Deleting'
<1> USE DEF Inductive, Deleting, TypeOK, ConfigTypeOK, Active, Steps, registryVars
<1>1. ASSUME NEW u \in Requests, NEW c \in Bodies, update_config(u, c) PROVE Deleting'
  BY <1>1 DEF update_config, Begin
<1>2. ASSUME NEW u \in Requests, NEW p \in Plugins, NEW enabled \in BOOLEAN,
             toggle_plugin(u, p, enabled)
      PROVE  Deleting'
  BY <1>2 DEF toggle_plugin, Begin
<1>3. ASSUME NEW u \in Requests, NEW p \in Custom, delete_custom_plugin(u, p) PROVE Deleting'
  <2>1. disabled' \in SUBSET Plugins
    BY <1>3 DEF delete_custom_plugin
  <2>2. /\ Named(configs'[u]) = {DisabledKey}
        /\ configs'[u][DisabledKey] \in SUBSET Plugins
    BY <1>3, <2>1, ListIsEntry DEF delete_custom_plugin, Begin
  <2> QED
    BY <1>3, <2>2 DEF delete_custom_plugin, Begin
<1>4. ASSUME NEW u \in Requests, NEW k \in Keys, Read(u, k) PROVE Deleting'
  BY <1>4 DEF Read, Select
<1>5. ASSUME NEW u \in Requests, Flushed(u) PROVE Deleting'
  BY <1>5 DEF Flushed, Flush, reload
<1>6. ASSUME NEW u \in Requests, Committed(u) \/ RolledBack(u) PROVE Deleting'
  BY <1>6 DEF Committed, Commit, RolledBack, RollBack, Gone
<1>7. ASSUME \/ \E p \in Custom, file \in {"good", "broken"} : upload_plugin(p, file)
             \/ reload_plugins \/ EvaluatePolicy
             \/ UNCHANGED vars
      PROVE  Deleting'
  BY <1>7 DEF upload_plugin, reload_plugins, EvaluatePolicy, vars, configVars, reload
<1>8. ASSUME NEW loaded \in BOOLEAN, Start(loaded) PROVE Deleting'
  BY <1>8 DEF Start, Restart, reload, _load_disabled_plugins
<1> QED
  BY <1>1, <1>2, <1>3, <1>4, <1>5, <1>6, <1>7, <1>8 DEF Next

\* Begin with a list of disabled plugins: whoever else has the list in hand now
\* shares it, so the memory has to agree with the new list only.
LEMMA ListBegun ==
  ASSUME Inductive, NEW u \in Requests, disabled' \in SUBSET Plugins,
         Begin(u, OnlyDisabled(disabled')), overrides' = overrides
  PROVE  ListInHand' /\ DisabledIsKept'
<1>1. /\ configs'[u][DisabledKey] = disabled'
      /\ DisabledKey \in Named(configs'[u])
  BY ListIsEntry DEF Inductive, TypeOK, ConfigTypeOK, Begin
<1>2. ASSUME NEW w \in Requests, w # u, DisabledKey \in Named(configs'[w])
      PROVE  DisabledKey \in clashed'[w]
  <2>1. DisabledKey \in Named(configs[w])
    BY <1>2 DEF Inductive, TypeOK, ConfigTypeOK, Begin, Named
  <2>2. DisabledKey \in Named(OnlyDisabled(disabled'))
    BY ListIsEntry
  <2> QED
    BY <1>2, <2>1, <2>2 DEF Begin
<1> QED
  BY <1>1, <1>2 DEF ListInHand, DisabledIsKept

\* The list in memory changes with a request that takes it in hand, with a
\* deletion that has it in hand, and with a start.
LEMMA ListKept ==
  ASSUME Inductive, [Next]_vars
  PROVE  ListInHand'
<1> USE DEF Inductive, ListInHand, TypeOK, ConfigTypeOK, Named, registryVars, Entries
<1>1. ASSUME NEW u \in Requests, NEW c \in Bodies, update_config(u, c) PROVE ListInHand'
  BY <1>1 DEF update_config, Begin
<1>2. ASSUME NEW u \in Requests, NEW p \in Plugins, NEW enabled \in BOOLEAN,
             toggle_plugin(u, p, enabled)
      PROVE  ListInHand'
  <2>1. disabled' \in SUBSET Plugins
    BY <1>2 DEF toggle_plugin
  <2>2. Begin(u, OnlyDisabled(disabled')) /\ overrides' = overrides
    BY <1>2 DEF toggle_plugin
  <2> QED
    BY <2>1, <2>2, ListBegun
<1>3. ASSUME NEW u \in Requests, NEW p \in Custom, delete_custom_plugin(u, p) PROVE ListInHand'
  <2>1. disabled' \in SUBSET Plugins
    BY <1>3 DEF delete_custom_plugin
  <2>2. Begin(u, OnlyDisabled(disabled')) /\ overrides' = overrides
    BY <1>3 DEF delete_custom_plugin
  <2> QED
    BY <2>1, <2>2, ListBegun
<1>4. ASSUME NEW u \in Requests, NEW k \in Keys, Read(u, k) PROVE ListInHand'
  BY <1>4 DEF Read, Select
<1>5. ASSUME NEW u \in Requests, Flushed(u) PROVE ListInHand'
  <2>1. CASE deletes[u] = Absent
    BY <1>5, <2>1 DEF Flushed, Flush, reload
  <2>2. CASE deletes[u] # Absent
    <3>1. DisabledKey \in Named(configs[u])
      BY <1>5, <2>2 DEF Deleting, Flushed, Flush, Active, reload
    <3>2. ASSUME NEW w \in Requests, DisabledKey \in Named(configs[w]) \ clashed[w]
          PROVE  w = u
      BY <3>1, <3>2 DEF ConfigInductive, Clashes
    <3> QED
      BY <1>5, <2>2, <3>2 DEF Flushed, Flush, reload
  <2> QED
    BY <2>1, <2>2
<1>6. ASSUME NEW u \in Requests, Committed(u) \/ RolledBack(u) PROVE ListInHand'
  <2> SUFFICES ASSUME NEW w \in Requests \ overrides',
                      DisabledKey \in Named(configs'[w]) \ clashed'[w]
               PROVE  disabled' = configs'[w][DisabledKey]
    BY DEF ListInHand
  <2>1. w # u /\ configs'[w] = configs[w] /\ clashed'[w] = clashed[w]
    BY <1>6 DEF Committed, Commit, RolledBack, RollBack, Gone, Nothing
  <2>2. disabled' = disabled
    BY <1>6 DEF Committed, RolledBack
  <2>3. w \notin overrides
    <3>1. CASE DisabledKey \in Named(configs[u]) \ clashed[u]
      BY <2>1, <3>1 DEF ConfigInductive, Clashes
    <3>2. CASE DisabledKey \notin Named(configs[u]) \ clashed[u]
      BY <1>6, <3>2 DEF Committed, RolledBack
    <3> QED
      BY <3>1, <3>2
  <2> QED
    BY <2>1, <2>2, <2>3
<1>7. ASSUME \/ \E p \in Custom, file \in {"good", "broken"} : upload_plugin(p, file)
             \/ reload_plugins \/ EvaluatePolicy
             \/ UNCHANGED vars
      PROVE  ListInHand'
  BY <1>7 DEF upload_plugin, reload_plugins, EvaluatePolicy, vars, configVars, reload
<1>8. ASSUME NEW loaded \in BOOLEAN, Start(loaded) PROVE ListInHand'
  BY <1>8 DEF Start, Restart, Gone, Nothing, reload, _load_disabled_plugins
<1> QED
  BY <1>1, <1>2, <1>3, <1>4, <1>5, <1>6, <1>7, <1>8 DEF Next

\* A list that is in nobody's hand and clean has been committed by a request that
\* had it to itself, or restored.
LEMMA DisabledKept ==
  ASSUME Inductive, [Next]_vars
  PROVE  DisabledIsKept'
<1> USE DEF Inductive, DisabledIsKept, TypeOK, ConfigTypeOK, Named, registryVars, Entries
<1>1. ASSUME NEW u \in Requests, NEW c \in Bodies, update_config(u, c) PROVE DisabledIsKept'
  <2>1. Named(configs[u]) = {}
    BY <1>1, IdleHasNothing DEF update_config, Begin, ConfigInductive
  <2> QED
    BY <1>1, <2>1 DEF update_config, Begin
<1>2. ASSUME NEW u \in Requests, NEW p \in Plugins, NEW enabled \in BOOLEAN,
             toggle_plugin(u, p, enabled)
      PROVE  DisabledIsKept'
  <2>1. disabled' \in SUBSET Plugins
    BY <1>2 DEF toggle_plugin
  <2>2. Begin(u, OnlyDisabled(disabled')) /\ overrides' = overrides
    BY <1>2 DEF toggle_plugin
  <2> QED
    BY <2>1, <2>2, ListBegun
<1>3. ASSUME NEW u \in Requests, NEW p \in Custom, delete_custom_plugin(u, p)
      PROVE  DisabledIsKept'
  <2>1. disabled' \in SUBSET Plugins
    BY <1>3 DEF delete_custom_plugin
  <2>2. Begin(u, OnlyDisabled(disabled')) /\ overrides' = overrides
    BY <1>3 DEF delete_custom_plugin
  <2> QED
    BY <2>1, <2>2, ListBegun
<1>4. ASSUME NEW u \in Requests, NEW k \in Keys, Read(u, k) PROVE DisabledIsKept'
  BY <1>4 DEF Read, Select
<1>5. ASSUME NEW u \in Requests, Flushed(u) PROVE DisabledIsKept'
  <2>1. CASE deletes[u] = Absent
    BY <1>5, <2>1 DEF Flushed, Flush, reload
  <2>2. CASE deletes[u] # Absent
    <3>1. DisabledKey \in Named(configs[u])
      BY <1>5, <2>2 DEF Deleting, Flushed, Flush, Active, reload
    <3> QED
      BY <1>5, <3>1 DEF Flushed, Flush, reload
  <2> QED
    BY <2>1, <2>2
<1>6. ASSUME NEW u \in Requests, Committed(u) PROVE DisabledIsKept'
  <2> SUFFICES ASSUME overrides' = {}, DisabledKey \notin suspect',
                      \A w \in Requests : DisabledKey \notin Named(configs'[w])
               PROVE  disabled' = _load_disabled_plugins(rows')
    BY DEF _load_disabled_plugins
  <2>1. CASE DisabledKey \in Named(configs[u])
    <3>1. DisabledKey \notin clashed[u] /\ todo[u] = {}
      BY <1>6, <2>1 DEF Committed, Commit, ConfigInductive, Clashes, Locals
    <3>2. u \notin overrides
      BY <1>6, <2>1, <3>1 DEF Committed
    <3>3. read[u][DisabledKey] = rows[DisabledKey] /\ disabled = configs[u][DisabledKey]
      BY <2>1, <3>1, <3>2 DEF ConfigInductive, Alone, ListInHand
    <3>4. rows'[DisabledKey] = disabled'
      BY <1>6, <2>1, <3>3 DEF Committed, Commit, Dirty
    <3>5. disabled' \in SUBSET Plugins
      BY <1>6 DEF Committed
    <3> QED
      BY <3>4, <3>5, RestoredIsList
  <2>2. CASE DisabledKey \notin Named(configs[u])
    <3>1. rows'[DisabledKey] = rows[DisabledKey] /\ disabled' = disabled
      BY <1>6, <2>2 DEF Committed, Commit, Dirty
    <3>2. \A w \in Requests : DisabledKey \notin Named(configs[w])
      BY <1>6, <2>2 DEF Committed, Commit, Gone
    <3>3. overrides = {} /\ DisabledKey \notin suspect
      BY <1>6, <2>2 DEF Committed, Commit
    <3> QED
      BY <3>1, <3>2, <3>3 DEF _load_disabled_plugins
  <2> QED
    BY <2>1, <2>2
<1>7. ASSUME NEW u \in Requests, RolledBack(u) PROVE DisabledIsKept'
  BY <1>7 DEF RolledBack, RollBack, Gone
<1>8. ASSUME \/ \E p \in Custom, file \in {"good", "broken"} : upload_plugin(p, file)
             \/ reload_plugins \/ EvaluatePolicy
             \/ UNCHANGED vars
      PROVE  DisabledIsKept'
  BY <1>8 DEF upload_plugin, reload_plugins, EvaluatePolicy, vars, configVars, reload
<1>9. ASSUME NEW loaded \in BOOLEAN, Start(loaded) PROVE DisabledIsKept'
  BY <1>9 DEF Start, Restart, Nothing, reload, _load_disabled_plugins
<1> QED
  BY <1>1, <1>2, <1>3, <1>4, <1>5, <1>6, <1>7, <1>8, <1>9 DEF Next

\* The registry is discovered from the files, except between a deletion of a
\* file and the flush after it.
LEMMA GhostsKept ==
  ASSUME Inductive, [Next]_vars
  PROVE  GhostsAreDeleted'
<1> USE DEF Inductive, GhostsAreDeleted, TypeOK, ConfigTypeOK, Deleting, Files, registryVars
<1>1. ASSUME NEW u \in Requests, NEW c \in Bodies, update_config(u, c) PROVE GhostsAreDeleted'
  BY <1>1 DEF update_config, Begin, Plugins
<1>2. ASSUME NEW u \in Requests, NEW p \in Plugins, NEW enabled \in BOOLEAN,
             toggle_plugin(u, p, enabled)
      PROVE  GhostsAreDeleted'
  BY <1>2 DEF toggle_plugin, Begin, Plugins
<1>3. ASSUME NEW u \in Requests, NEW p \in Custom, delete_custom_plugin(u, p)
      PROVE  GhostsAreDeleted'
  <2> SUFFICES ASSUME NEW q \in plugins \cap Custom, files'[q] = "none"
               PROVE  \E w \in Requests :
                        deletes'[w] = q /\ step'[w] \in {"selecting", "flushing", "failed"}
    BY <1>3 DEF delete_custom_plugin
  <2>1. CASE q = p
    BY <1>3, <2>1 DEF delete_custom_plugin, Begin
  <2>2. CASE q # p
    <3>1. PICK w \in Requests : deletes[w] = q /\ step[w] \in {"selecting", "flushing", "failed"}
      BY <1>3, <2>2 DEF delete_custom_plugin
    <3>2. w # u
      BY <1>3, <3>1 DEF delete_custom_plugin, Begin
    <3> QED
      BY <1>3, <3>1, <3>2 DEF delete_custom_plugin, Begin
  <2> QED
    BY <2>1, <2>2
<1>4. ASSUME NEW u \in Requests, NEW k \in Keys, Read(u, k) PROVE GhostsAreDeleted'
  BY <1>4 DEF Read, Select
<1>5. ASSUME NEW u \in Requests, Flushed(u) PROVE GhostsAreDeleted'
  <2>1. CASE deletes[u] = Absent
    BY <1>5, <2>1 DEF Flushed, Flush, Plugins, reload
  <2>2. CASE deletes[u] # Absent
    BY <1>5, <2>2 DEF Flushed, Discovered, reload
  <2> QED
    BY <2>1, <2>2
<1>6. ASSUME NEW u \in Requests, Committed(u) \/ RolledBack(u) PROVE GhostsAreDeleted'
  BY <1>6 DEF Committed, Commit, RolledBack, RollBack
<1>7. ASSUME NEW p \in Custom, NEW file \in {"good", "broken"}, upload_plugin(p, file)
      PROVE  GhostsAreDeleted'
  BY <1>7 DEF upload_plugin, Discovered, reload
<1>8. CASE reload_plugins
  BY <1>8 DEF reload_plugins, Discovered, reload
<1>9. CASE EvaluatePolicy \/ UNCHANGED vars
  BY <1>9 DEF EvaluatePolicy, vars, configVars
<1>10. ASSUME NEW loaded \in BOOLEAN, Start(loaded) PROVE GhostsAreDeleted'
  BY <1>10 DEF Start, Discovered, reload, _load_disabled_plugins
<1> QED
  BY <1>1, <1>2, <1>3, <1>4, <1>5, <1>6, <1>7, <1>8, <1>9, <1>10 DEF Next

-----------------------------------------------------------------------------
(* The theorems. *)

\* The inductive invariant holds in every behaviour.
LEMMA InductiveInvariant == Spec => []Inductive
<1>1. Init => Inductive
  <2>1. Init => ConfigInductive /\ TypeOK
    BY ConfigInitially DEF Init, ConfigInductive, TypeOK, Files, Plugins
  <2>2. Init => Deleting /\ ListInHand /\ GhostsAreDeleted
    BY DEF Init, ConfigInit, Nothing, Named, Active, Deleting, ListInHand, GhostsAreDeleted
  <2>3. Absent \notin Lists
    <3>1. Fits[DisabledKey] \subseteq Values
      OBVIOUS
    <3> QED
      BY <3>1
  <2>4. Init => DisabledIsKept
    BY <2>3 DEF Init, ConfigInit, Nothing, DisabledIsKept, _load_disabled_plugins
  <2> QED
    BY <2>1, <2>2, <2>4 DEF Inductive
<1>2. Inductive /\ [Next]_vars => Inductive'
  <2> SUFFICES ASSUME Inductive, [Next]_vars PROVE Inductive'
    OBVIOUS
  <2>1. ConfigStep
    BY StepsOfConfiguration DEF Inductive, vars, ConfigStep
  <2>2. ConfigInductive'
    BY <2>1, ConfigIsInductive DEF Inductive
  <2>3. TypeOK'
    BY <2>2, RegistryIsTyped DEF ConfigInductive
  <2> QED
    BY <2>2, <2>3, DeletingKept, ListKept, DisabledKept, GhostsKept DEF Inductive
<1> QED
  BY <1>1, <1>2, PTL DEF Spec

\* Every variable keeps its type, for any keys, values and plugins.
THEOREM TypeCorrect == Spec => []TypeOK
<1>1. Inductive => TypeOK
  BY DEF Inductive
<1> QED
  BY InductiveInvariant, <1>1, PTL

\* No batch of updates, however it ends and whatever runs beside it, commits a
\* value that a later start could not load (DynamicConfig.update and load).
THEOREM EveryRowLoads == Spec => []RowsLoad
<1>1. Inductive => RowsLoad
  BY DEF Inductive, ConfigInductive
<1> QED
  BY InductiveInvariant, <1>1, PTL

\* Cache, Settings and table agree on every key that no clash and no failure has
\* split, and an update that is alone heals a key (DynamicConfig.update).
THEOREM CleanKeysStayInStep == Spec => []CleanKeysAgree
<1>1. Inductive => CleanKeysAgree
  BY DEF Inductive, ConfigInductive
<1> QED
  BY InductiveInvariant, <1>1, PTL

\* What is disabled in memory is what a start restores, unless a clash or a
\* failure split the two or PUT /config sent a list past the registry (the plugin
\* API, PUT /config and lifespan).
THEOREM DisabledSurvivesStarts == Spec => []DisabledIsKept
<1>1. Inductive => DisabledIsKept
  BY DEF Inductive
<1> QED
  BY InductiveInvariant, <1>1, PTL

\* A registered plugin without a file is being deleted, or its deletion failed
\* (delete_custom_plugin).
THEOREM GhostsComeFromDeletions == Spec => []GhostsAreDeleted
<1>1. Inductive => GhostsAreDeleted
  BY DEF Inductive
<1> QED
  BY InductiveInvariant, <1>1, PTL

=============================================================================
