----------------------------- MODULE MergeModels -----------------------------
(***************************************************************************)
(* merge_models (nvidia_nim_proxy/opencode_sync.py) with the registry of   *)
(* limits (model_limits.py): what a merge of NVIDIA's list makes of the    *)
(* providers in OpenCode's configuration.                                  *)
(*                                                                         *)
(* A configuration is a function from the providers it names; a provider   *)
(* is ours or not (an object, of our adapter and endpoint, whose models    *)
(* are an object) and has entries for some models.  Of an entry only its   *)
(* limit is ever looked at; `rest' is everything else in it.               *)
(***************************************************************************)
EXTENDS Integers, FiniteSets

CONSTANTS
    Models,           \* model names
    Retired,          \* RETIRED_HOSTED_MODELS
    Legacy,           \* LEGACY_DEEPSEEK_MODELS
    Registry,         \* the limits of every model in MODEL_CONTEXT_LIMITS
    Template,         \* LEGACY_MODEL_LIMIT
    NoLimit,          \* an entry without a limit
    LocalProvider,    \* PROVIDER_ID
    DirectProviders   \* DIRECT_PROVIDER_IDS

\* OPENCODE_CHAT_MODELS
Reviewed == DOMAIN Registry \ Retired

ASSUME MergeAssumption ==
    /\ Retired \subseteq Models /\ Legacy \subseteq Models
    /\ DOMAIN Registry \subseteq Models
    /\ Legacy \cap DOMAIN Registry = {}
    /\ \A m \in DOMAIN Registry : Registry[m] # NoLimit
    /\ LocalProvider \notin DirectProviders

Synced == DirectProviders \cup {LocalProvider}

\* The value of `rest' in an entry that is no object, and in one of sync's.
NoObject == "no object"
Generated == "generated"

Entry(limit, rest) == [limit |-> limit, rest |-> rest]

Eligible(list) == list \cap Reviewed

Obsolete(m, list) == m \in Retired \/ m \in Legacy \ list

\* Seeded fault: every entry with the old template is migrated, also that of
\* a model whose limits the template happens to give.
LimitMissingOrTemplate(m, entry) == entry.limit \in {NoLimit, Template}

\* Seeded fault: a limit of the user's is replaced.
LimitDiffers(m, entry) == entry.limit # Registry[m]

\* The limit is absent or the old template, and not the right one by chance.
LimitOutdated(m, entry) == entry.limit \in {NoLimit, Template} \ {Registry[m]}

\* What becomes of the entries of a provider.
Removed(models, list) == {m \in DOMAIN models : Obsolete(m, list)}
Added(models, list) == Eligible(list) \ DOMAIN models
Migrated(models, list) ==
    {m \in Eligible(list) \cap DOMAIN models : LimitOutdated(m, models[m])}

MergedModels(models, list) ==
    [m \in (DOMAIN models \ Removed(models, list)) \cup Added(models, list) |->
        IF m \in Added(models, list) THEN Entry(Registry[m], Generated)
        ELSE IF m \in Migrated(models, list) THEN Entry(Registry[m], models[m].rest)
        ELSE models[m]]

\* setdefault: a configuration without our local provider gets an empty one.
WithLocal(config) ==
    [p \in DOMAIN config \cup {LocalProvider} |->
        IF p \in DOMAIN config THEN config[p] ELSE [ours |-> TRUE, models |-> <<>>]]

\* A list without any reviewed model leaves everything as it is.
Merge(config, list) ==
    IF Eligible(list) = {} THEN config
    ELSE [p \in DOMAIN WithLocal(config) |->
             IF p \in Synced
               THEN [ours |-> TRUE,
                     models |-> MergedModels(WithLocal(config)[p].models, list)]
               ELSE config[p]]

\* OpenCodeSyncError: the copy that was being merged is dropped as a whole.
Refuses(config, list) ==
    /\ Eligible(list) # {}
    /\ \E p \in Synced \cap DOMAIN config :
           \/ ~config[p].ours
           \/ \E m \in Eligible(list) \cap DOMAIN config[p].models :
                  config[p].models[m].rest = NoObject

\* `changed' of one provider, and of all of them.
ChangedIn(models, list) ==
    Cardinality(Removed(models, list)) + Cardinality(Added(models, list))
        + Cardinality(Migrated(models, list))

ChangesNothing(config, list) ==
    \/ Eligible(list) = {}
    \/ \A p \in Synced \cap DOMAIN WithLocal(config) :
           ChangedIn(WithLocal(config)[p].models, list) = 0

-----------------------------------------------------------------------------
\* Properties

\* What a merge must leave alone: other providers, the models of which sync
\* knows nothing, a limit that is neither absent nor the old template, and
\* everything but the limit of an entry.
KeepsTheUsers(config, merged, list) ==
    \A p \in DOMAIN config :
        /\ p \in DOMAIN merged
        /\ p \notin Synced => merged[p] = config[p]
        /\ \A m \in DOMAIN config[p].models \ (Retired \cup Legacy) :
               /\ m \in DOMAIN merged[p].models
               /\ merged[p].models[m].rest = config[p].models[m].rest
               /\ \/ merged[p].models[m].limit = config[p].models[m].limit
                  \/ config[p].models[m].limit \in {NoLimit, Template} /\ m \in Reviewed
=============================================================================
