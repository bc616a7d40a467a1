---------------------------- MODULE DynamicConfig ----------------------------
(***************************************************************************)
(* The dynamic configuration (app/config/dynamic.py): one value per key in *)
(* three places, the table system_configs, the cache in memory and the     *)
(* Settings object, and the requests that update them.                     *)
(*                                                                         *)
(* An update is a coroutine with a session of its own. It reads the row of *)
(* each key, puts the new value into the cache at once, and writes the     *)
(* rows when it flushes and commits. The serialised form of a value is     *)
(* left out: what was serialised is cast back to the value, or the cast    *)
(* raises (Fits).                                                          *)
(***************************************************************************)
EXTENDS Naturals

CONSTANTS
    Requests,      \* the requests that update the configuration, one coroutine each
    Keys,          \* the managed keys (MANAGED_CONFIGS)
    Values,        \* the values a client may send
    Fits,          \* the values of each key that its type's cast accepts
    InSettings,    \* the keys that have an attribute of Settings
    Default,       \* what Settings has without a row: the environment's
    Absent         \* no row, no entry, nothing sent

ASSUME DynamicConfigAssumption ==
    /\ InSettings \subseteq Keys
    /\ Fits \in [Keys -> SUBSET Values]
    /\ Default \in [Keys -> Values]
    /\ Absent \notin Values

VARIABLES
    rows,          \* the committed rows of table system_configs
    cache,         \* DynamicConfig._cache
    settings,      \* the Settings singleton
    step,          \* where each request stands
    configs,       \* what it was asked to set
    todo,          \* the keys of it whose row has not been read yet
    read,          \* the rows it has read
    clashed,       \* history: its keys that another request had in hand meanwhile
    suspect        \* history: the keys that a clash or a failure may have split

configVars == <<rows, cache, settings, step, configs, todo, read, clashed, suspect>>

Entries == [Keys -> Values \cup {Absent}]
Nothing == [k \in Keys |-> Absent]

Steps == {"idle", "selecting", "flushing", "committing", "done", "failed"}

ConfigTypeOK ==
    /\ rows \in Entries
    /\ cache \in Entries
    /\ settings \in [Keys -> Values]
    /\ step \in [Requests -> Steps]
    /\ configs \in [Requests -> Entries]
    /\ todo \in [Requests -> SUBSET Keys]
    /\ read \in [Requests -> Entries]
    /\ clashed \in [Requests -> SUBSET Keys]
    /\ suspect \in SUBSET Keys

ConfigInit ==
    /\ rows = Nothing
    /\ cache = Nothing
    /\ settings = Default
    /\ step = [u \in Requests |-> "idle"]
    /\ configs = [u \in Requests |-> Nothing]
    /\ todo = [u \in Requests |-> {}]
    /\ read = [u \in Requests |-> Nothing]
    /\ clashed = [u \in Requests |-> {}]
    /\ suspect = {}

-----------------------------------------------------------------------------

Active(u) == step[u] \in {"selecting", "flushing", "committing"}

Named(c) == {k \in Keys : c[k] # Absent}

\* The unit of work writes only what differs from the row that was read.
Dirty(u) == {k \in Named(configs[u]) : read[u][k] # configs[u][k]}

\* Defect the runs must notice: a key without an entry is copied as well.
apply_to_settings_all(s, entries) ==
    [k \in Keys |-> IF k \in InSettings THEN entries[k] ELSE s[k]]

\* apply_to_settings copies the whole cache, whoever put a value there.
apply_to_settings(s, entries) ==
    [k \in Keys |-> IF k \in InSettings /\ entries[k] # Absent THEN entries[k] ELSE s[k]]

\* A request enters update; its first query is under way.
Begin(u, c) ==
    LET clash(w) == Named(c) \cap Named(configs[w])
    IN  /\ step[u] = "idle"
        /\ Named(c) # {}
        /\ step' = [step EXCEPT ![u] = "selecting"]
        /\ configs' = [configs EXCEPT ![u] = c]
        /\ todo' = [todo EXCEPT ![u] = Named(c)]
        /\ clashed' = [w \in Requests |->
                         IF w = u THEN UNION {clash(v) : v \in Requests}
                                  ELSE clashed[w] \cup clash(w)]
        /\ suspect' = suspect \cup UNION {clash(v) : v \in Requests}
        /\ UNCHANGED <<rows, cache, settings, read>>

\* Defects the runs must notice: the value is kept as it was sent, and the cache
\* is left to the next start.
Select_uncast(u, k) ==
    /\ step[u] = "selecting"
    /\ k \in todo[u]
    /\ read' = [read EXCEPT ![u][k] = rows[k]]
    /\ cache' = [cache EXCEPT ![k] = configs[u][k]]
    /\ todo' = [todo EXCEPT ![u] = @ \ {k}]
    /\ IF todo[u] = {k}
       THEN /\ settings' = apply_to_settings(settings, cache')
            /\ step' = [step EXCEPT ![u] = "flushing"]
       ELSE UNCHANGED <<settings, step>>
    /\ UNCHANGED <<rows, configs, clashed, suspect>>

Select_uncached(u, k) ==
    /\ step[u] = "selecting"
    /\ k \in todo[u]
    /\ configs[u][k] \in Fits[k]
    /\ read' = [read EXCEPT ![u][k] = rows[k]]
    /\ todo' = [todo EXCEPT ![u] = @ \ {k}]
    /\ step' = [step EXCEPT ![u] = IF todo[u] = {k} THEN "flushing" ELSE @]
    /\ UNCHANGED <<rows, cache, settings, configs, clashed, suspect>>

\* The row of one key has been read: the cast value goes into the cache. After
\* the last key the cache is applied to Settings.
Select(u, k) ==
    /\ step[u] = "selecting"
    /\ k \in todo[u]
    /\ configs[u][k] \in Fits[k]
    /\ read' = [read EXCEPT ![u][k] = rows[k]]
    /\ cache' = [cache EXCEPT ![k] = configs[u][k]]
    /\ todo' = [todo EXCEPT ![u] = @ \ {k}]
    /\ IF todo[u] = {k}
       THEN /\ settings' = apply_to_settings(settings, cache')
            /\ step' = [step EXCEPT ![u] = "flushing"]
       ELSE UNCHANGED <<settings, step>>
    /\ UNCHANGED <<rows, configs, clashed, suspect>>

\* The rows are written, and locked until the commit. An INSERT needs that no
\* row has appeared since the query.
Flush(u) ==
    /\ step[u] = "flushing"
    /\ \A w \in Requests \ {u} : step[w] = "committing" => Dirty(u) \cap Dirty(w) = {}
    /\ \A k \in Dirty(u) : read[u][k] = Absent => rows[k] = Absent
    /\ step' = [step EXCEPT ![u] = "committing"]
    /\ UNCHANGED <<rows, cache, settings, configs, todo, read, clashed, suspect>>

\* The locals of a coroutine that has ended.
Gone(ended) ==
    /\ configs' = [u \in Requests |-> IF u \in ended THEN Nothing ELSE configs[u]]
    /\ todo' = [u \in Requests |-> IF u \in ended THEN {} ELSE todo[u]]
    /\ read' = [u \in Requests |-> IF u \in ended THEN Nothing ELSE read[u]]
    /\ clashed' = [u \in Requests |-> IF u \in ended THEN {} ELSE clashed[u]]

\* The end of the session. A key nobody else had in hand is clean from now on.
Commit(u) ==
    /\ step[u] = "committing"
    /\ rows' = [k \in Keys |-> IF k \in Dirty(u) THEN configs[u][k] ELSE rows[k]]
    /\ step' = [step EXCEPT ![u] = "done"]
    /\ suspect' = suspect \ (Named(configs[u]) \ clashed[u])
    /\ Gone({u})
    /\ UNCHANGED <<cache, settings>>

\* The cast, the query, the INSERT or the commit raises: the session is rolled
\* back, cache and Settings are not.
RollBack(u) ==
    /\ Active(u)
    /\ step' = [step EXCEPT ![u] = "failed"]
    /\ suspect' = suspect \cup Named(configs[u])
    /\ Gone({u})
    /\ UNCHANGED <<rows, cache, settings>>

\* The process dies and starts again. A load that fails is logged, and the
\* process goes on with the environment's values.
Restart(loaded) ==
    /\ cache' = IF loaded THEN rows ELSE Nothing
    /\ settings' = apply_to_settings(Default, cache')
    /\ step' = [u \in Requests |-> IF Active(u) THEN "failed" ELSE step[u]]
    /\ suspect' = IF loaded THEN {} ELSE Named(rows)
    /\ Gone(Requests)
    /\ UNCHANGED rows

-----------------------------------------------------------------------------
(* Properties. *)

\* Every row can be loaded: a value that does not fit its key's type is never
\* committed, whatever else the batch holds. One such row would end every load
\* half way, and with it the fences and the disabled plugins of every start.
RowsLoad == \A k \in Keys : rows[k] # Absent => rows[k] \in Fits[k]

\* Cache, Settings and rows agree on every key that no request has in hand and
\* that no clash or failure has split; a later update that is alone heals it.
CleanKeysAgree ==
    \A k \in Keys \ suspect :
        (\A u \in Requests : k \notin Named(configs[u])) =>
            /\ cache[k] = rows[k]
            /\ k \in InSettings =>
                 settings[k] = IF rows[k] = Absent THEN Default[k] ELSE rows[k]

=============================================================================
