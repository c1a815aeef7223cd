----------------------------- MODULE CatalogProofs -----------------------------
(***************************************************************************)
(* Proofs about CatalogSync: the catalog's worker and the sync of          *)
(* OpenCode's configuration, for every sequence of lists, every content of *)
(* the configuration, every registry of limits and every delay.            *)
(***************************************************************************)
EXTENDS CatalogSync, FiniteSetTheorems, TLAPS

-----------------------------------------------------------------------------
\* The inductive invariant

\* What the worker holds has come from NVIDIA, and a list on its way to the cache
\* and to the memory is not older than what is there: both only ever take in a
\* list that was NVIDIA's when it was fetched.  No failure is counted once the
\* list is published.
WorkerInv ==
    /\ ~up => place = "none"
    /\ place \in {"none", "load"} => models = NoList
    /\ models <= live /\ fetched <= live /\ cache <= live
    /\ place = "publish" => models <= fetched
    /\ place \in {"publish", "save", "replace"} => cache <= fetched
    /\ place \in {"publish", "save", "replace", "notify", "callback"} => fetched \in seen
    /\ place \in {"save", "replace", "notify", "callback"} => failures = 0

\* What the sync is about to write was fetched by this process and is in a backup,
\* and the file is as it was read until the user comes between.
SyncInv ==
    /\ phase \in {"link", "backup", "look", "replace"} => list \in seen
    /\ phase \in {"look", "replace"} => original \in backups
    /\ phase = "replace" => file = original \/ raced

SystemInv == SystemTypeOK /\ WorkerInv /\ SyncInv

-----------------------------------------------------------------------------
\* Delays

\* A power of two is a natural number: there are that many sets of numbers up to n.
LEMMA PowerOfTwo ==
    ASSUME NEW n \in Nat
    PROVE  2 ^ n \in Nat
<1>1. IsFiniteSet(1 .. n) /\ Cardinality(1 .. n) = n
  BY FS_Interval
<1>2. IsFiniteSet(SUBSET (1 .. n)) /\ Cardinality(SUBSET (1 .. n)) = 2 ^ n
  BY <1>1, FS_SUBSET
<1> QED
  BY <1>2, FS_CardinalityType

\* After a failure the worker waits no longer than either limit.
LEMMA DelayType ==
    /\ RefreshDelay \in 0 .. RefreshDelay
    /\ \A n \in Nat \ {0} : Backoff(n) \in 0 .. RefreshDelay /\ Backoff(n) <= MaxBackoff
<1>1. RefreshDelay \in Nat /\ MaxBackoff \in Nat
  BY CatalogAssumption
<1>2. ASSUME NEW n \in Nat \ {0}
      PROVE  Backoff(n) \in Nat /\ Backoff(n) <= RefreshDelay /\ Backoff(n) <= MaxBackoff
  <2>1. n - 1 \in Nat
    OBVIOUS
  <2>2. 2 ^ (n - 1) \in Nat
    BY <2>1, PowerOfTwo
  <2> DEFINE d == 2 ^ (n - 1)
  <2> HIDE DEF d
  <2>3. /\ Min({RefreshDelay, d, MaxBackoff}) \in Nat
        /\ Min({RefreshDelay, d, MaxBackoff}) <= RefreshDelay
    BY <1>1, <2>2, SMT DEF Min, d
  <2>4. Min({RefreshDelay, d, MaxBackoff}) <= MaxBackoff
    BY <1>1, <2>2, SMT DEF Min, d
  <2> QED
    BY <2>3, <2>4 DEF Backoff, d
<1> QED
  BY <1>1, <1>2

\* The count of failures stays within its bound.
LEMMA FailureType ==
    ASSUME NEW n \in 0 .. MaxFailures
    PROVE  Min({n + 1, MaxFailures}) \in 1 .. MaxFailures
<1>1. MaxFailures \in Nat \ {0} /\ n \in Nat
  BY CatalogAssumption
<1> QED
  BY <1>1, SMT DEF Min

-----------------------------------------------------------------------------
\* The worker

\* Nothing has been fetched before the process starts.
LEMMA WorkerInit == CatalogInit => CatalogTypeOK /\ WorkerInv
<1> SUFFICES ASSUME CatalogInit
             PROVE  CatalogTypeOK /\ WorkerInv
  OBVIOUS
<1>1. 1 \in Lists /\ RefreshDelay \in Nat /\ MaxFailures \in Nat
  BY CatalogAssumption DEF Lists
<1>2. failures \in 0 .. MaxFailures /\ delay \in 0 .. RefreshDelay /\ ~(failures > 0)
  BY <1>1 DEF CatalogInit
<1>3. /\ live \in Lists /\ cache \in Lists \cup {NoList, Garbled}
      /\ {models, fetched} \subseteq Lists \cup {NoList} /\ seen \subseteq Lists
  BY <1>1 DEF CatalogInit
<1>4. CatalogTypeOK
  BY <1>2, <1>3 DEF CatalogInit, CatalogTypeOK, WorkerPlaces
<1>5. WorkerInv
  BY DEF CatalogInit, WorkerInv, NoList, Garbled
<1> QED
  BY <1>4, <1>5

\* The facts about the numbers of lists that the steps below need.
LEMMA ListNumbers ==
    ASSUME CatalogTypeOK
    PROVE  /\ live \in Int /\ cache \in Int /\ models \in Int /\ fetched \in Int
           /\ live >= 1 /\ models >= 0 /\ fetched >= 0
           /\ \A n : n \in Lists <=> n \in 1 .. LastList
           /\ LastList \in Int /\ NoList = 0
  BY CatalogAssumption DEF CatalogTypeOK, Lists, NoList, Garbled

\* A step of the worker keeps the types.
LEMMA WorkerTypes ==
    ASSUME CatalogTypeOK, WorkerInv, WorkerStep \/ CallbackReturns
    PROVE  CatalogTypeOK'
<1>1. CASE LoadCache \/ Publish
  <2>1. failures' \in 0 .. MaxFailures /\ (failures' > 0 => delay' <= MaxBackoff)
    BY <1>1, CatalogAssumption DEF CatalogTypeOK, LoadCache, Publish
  <2> QED
    BY <1>1, <2>1 DEF CatalogTypeOK, WorkerPlaces, LoadCache, Publish
<1>2. CASE FetchFails
  <2>1. failures' \in 1 .. MaxFailures
    BY <1>2, FailureType DEF CatalogTypeOK, FetchFails
  <2>2. failures' \in Nat \ {0} /\ failures' \in 0 .. MaxFailures
    BY <2>1, CatalogAssumption
  <2>3. delay' \in 0 .. RefreshDelay /\ delay' <= MaxBackoff
    BY <1>2, <2>2, DelayType DEF FetchFails
  <2> QED
    BY <1>2, <2>2, <2>3 DEF CatalogTypeOK, WorkerPlaces, FetchFails
<1>3. CASE FetchAnswers
  BY <1>3 DEF CatalogTypeOK, WorkerPlaces, FetchAnswers
<1>4. CASE ReplaceCache
  <2>1. fetched \in Lists
    BY <1>4 DEF CatalogTypeOK, WorkerInv, ReplaceCache
  <2> QED
    BY <1>4, <2>1 DEF CatalogTypeOK, WorkerPlaces, ReplaceCache
<1>5. CASE SkipCallback \/ CallbackReturns
  <2>1. Refreshed
    BY <1>5 DEF SkipCallback, CallbackReturns
  <2>2. failures = 0
    BY <1>5 DEF WorkerInv, SkipCallback, CallbackReturns
  <2> QED
    BY <2>1, <2>2, DelayType DEF CatalogTypeOK, WorkerPlaces, Refreshed
<1>6. CASE BeginRefresh \/ WriteCache \/ SaveFails \/ CallBack \/ WakeUp
  BY <1>6 DEF CatalogTypeOK, WorkerPlaces, BeginRefresh, WriteCache, SaveFails, CallBack,
     WakeUp
<1> QED
  BY <1>1, <1>2, <1>3, <1>4, <1>5, <1>6 DEF WorkerStep

\* A step of the worker keeps the order of the lists.
LEMMA WorkerOrders ==
    ASSUME CatalogTypeOK, WorkerInv, WorkerStep \/ CallbackReturns
    PROVE  WorkerInv' /\ (up /\ up' => models' >= models)
           /\ (cache \in Lists => cache' \in Lists /\ cache' >= cache)
<1> USE ListNumbers
<1>1. CASE LoadCache
  BY <1>1 DEF LoadCache, WorkerInv
<1>2. CASE BeginRefresh \/ FetchFails \/ WriteCache \/ SaveFails \/ CallBack \/ WakeUp
  BY <1>2 DEF BeginRefresh, FetchFails, WriteCache, SaveFails, CallBack, WakeUp, WorkerInv
<1>3. CASE FetchAnswers
  BY <1>3 DEF FetchAnswers, WorkerInv
<1>4. CASE Publish
  BY <1>4 DEF Publish, WorkerInv
<1>5. CASE ReplaceCache
  <2>1. fetched \in Lists
    BY <1>5 DEF CatalogTypeOK, WorkerInv, ReplaceCache
  <2> QED
    BY <1>5, <2>1 DEF ReplaceCache, WorkerInv
<1>6. CASE SkipCallback \/ CallbackReturns
  BY <1>6 DEF SkipCallback, CallbackReturns, Refreshed, WorkerInv
<1> QED
  BY <1>1, <1>2, <1>3, <1>4, <1>5, <1>6 DEF WorkerStep

\* So does everything else that happens to the process.
LEMMA ProcessKeeps ==
    ASSUME CatalogTypeOK, WorkerInv, Start \/ Stop \/ Exit \/ ListChanges \/ TimePasses
    PROVE  CatalogTypeOK' /\ WorkerInv' /\ (up /\ up' => models' >= models)
           /\ (cache \in Lists => cache' \in Lists /\ cache' >= cache)
<1> USE ListNumbers
<1>1. CASE Start
  BY <1>1 DEF Start, CatalogTypeOK, WorkerInv, WorkerPlaces
<1>2. CASE Stop
  BY <1>2 DEF Stop, CatalogTypeOK, WorkerInv, workerVars
<1>3. CASE Exit
  <2>1. MaxFailures \in Nat /\ RefreshDelay \in Nat
    BY CatalogAssumption
  <2>2. failures' \in 0 .. MaxFailures /\ ~(failures' > 0) /\ delay' \in 0 .. RefreshDelay
    BY <1>3, <2>1 DEF Exit
  <2>3. CatalogTypeOK'
    BY <1>3, <2>2 DEF Exit, CatalogTypeOK, WorkerPlaces
  <2> QED
    BY <1>3, <2>3 DEF Exit, WorkerInv
<1>4. CASE ListChanges
  BY <1>4 DEF ListChanges, CatalogTypeOK, WorkerInv, workerVars
<1>5. CASE TimePasses
  <2>1. delay' \in 0 .. RefreshDelay /\ (delay <= MaxBackoff => delay' <= MaxBackoff)
    BY <1>5, CatalogAssumption DEF TimePasses, CatalogTypeOK
  <2> QED
    BY <1>5, <2>1 DEF TimePasses, CatalogTypeOK, WorkerInv
<1> QED
  BY <1>1, <1>2, <1>3, <1>4, <1>5

-----------------------------------------------------------------------------
\* The sync

\* A readable content is the edit of whoever wrote it.
LEMMA ReadableEdit ==
    ASSUME NEW e, NEW configs, NEW content \in Readable(e, configs)
    PROVE  content.edit = e
  BY DEF Readable

\* At first no call of sync runs.
LEMMA SyncStarts == SyncInit => SyncTypeOK /\ SyncInv
<1> SUFFICES ASSUME SyncInit
             PROVE  SyncTypeOK /\ SyncInv
  OBVIOUS
<1>1. LastEdit \in Nat
  BY SyncAssumption
<1>2. NoFile.edit = -1 /\ Unreadable(0).edit = 0
  BY DEF NoFile, Unreadable
<1>3. file.edit \in -1 .. LastEdit
  <2>1. file \in {NoFile, Unreadable(0)} \/ file \in Readable(0, UserConfigs)
    BY DEF SyncInit
  <2>2. file.edit \in {-1, 0}
    BY <1>2, <2>1, ReadableEdit
  <2> QED
    BY <1>1, <2>2
<1>4. original.edit \in -1 .. LastEdit /\ edits \in 0 .. LastEdit
  BY <1>1, <1>2 DEF SyncInit
<1>5. SyncTypeOK
  BY <1>3, <1>4 DEF SyncInit, SyncTypeOK
<1>6. SyncInv
  BY DEF SyncInit, SyncInv
<1> QED
  BY <1>5, <1>6

\* What sync writes is somebody's edit, or a file that it creates.
LEMMA UpdatedType ==
    ASSUME SyncTypeOK
    PROVE  Updated(original, list).edit \in -1 .. LastEdit
  BY SyncAssumption DEF SyncTypeOK, Updated

\* A call of sync, with a list that this process has fetched.
LEMMA CallKeeps ==
    ASSUME SyncTypeOK, SyncInv,
           \/ ReadConfig(fetched) /\ fetched \in seen /\ fetched \in DOMAIN Listing
           \/ ReadFails,
           UNCHANGED seen
    PROVE  SyncTypeOK' /\ SyncInv'
<1>1. CASE ReadConfig(fetched) /\ fetched \in seen /\ fetched \in DOMAIN Listing
  BY <1>1 DEF ReadConfig, SyncTypeOK, SyncInv
<1>2. CASE ReadFails
  BY <1>2 DEF ReadFails, SyncTypeOK, SyncInv
<1> QED
  BY <1>1, <1>2

\* What happens within a call.
LEMMA StepKeeps ==
    ASSUME SyncTypeOK, SyncInv, SyncStep, UNCHANGED seen
    PROVE  SyncTypeOK' /\ SyncInv'
<1>1. Updated(original, list).edit \in -1 .. LastEdit
  BY UpdatedType
<1>2. CASE LinkConfig
  <2>1. file'.edit \in -1 .. LastEdit
    BY <1>1, <1>2 DEF LinkConfig, SyncTypeOK
  <2> QED
    BY <1>2, <2>1 DEF LinkConfig, SyncTypeOK, SyncInv
<1>3. CASE WriteBackup
  BY <1>3 DEF WriteBackup, SyncTypeOK, SyncInv
<1>4. CASE LookAgain
  BY <1>4 DEF LookAgain, SyncTypeOK, SyncInv
<1>5. CASE ReplaceConfig
  <2>1. file'.edit \in -1 .. LastEdit
    BY <1>1, <1>5 DEF ReplaceConfig
  <2> QED
    BY <1>5, <2>1 DEF ReplaceConfig, SyncTypeOK, SyncInv
<1>6. CASE SyncFails
  BY <1>6 DEF SyncFails, SyncTypeOK, SyncInv
<1> QED
  BY <1>2, <1>3, <1>4, <1>5, <1>6 DEF SyncStep

\* The end of a call.
LEMMA ForgetKeeps ==
    ASSUME SyncTypeOK, SyncInv, ForgetCall
    PROVE  SyncTypeOK' /\ SyncInv' /\ phase' = "idle"
<1>1. original'.edit \in -1 .. LastEdit
  BY SyncAssumption DEF ForgetCall, NoFile
<1> QED
  BY <1>1 DEF ForgetCall, SyncTypeOK, SyncInv

\* An edit of the user's, which may come at any moment.
LEMMA EditKeeps ==
    ASSUME SyncTypeOK, SyncInv, Edit, UNCHANGED seen
    PROVE  SyncTypeOK' /\ SyncInv'
<1>1. edits' \in 0 .. LastEdit
  BY SyncAssumption DEF Edit, SaveFile, RemoveFile, SyncTypeOK
<1>2. file'.edit = edits' \/ file'.edit = -1
  <2>1. CASE RemoveFile
    BY <2>1 DEF RemoveFile, NoFile
  <2>2. CASE file' = Unreadable(edits')
    BY <2>2 DEF Unreadable
  <2>3. CASE file' \in Readable(edits', UserConfigs \cup {file.config})
    BY <2>3, ReadableEdit
  <2> QED
    BY <2>1, <2>2, <2>3 DEF Edit, SaveFile
<1>3. file'.edit \in -1 .. LastEdit
  BY <1>1, <1>2, SyncAssumption
<1>4. SyncTypeOK'
  BY <1>1, <1>3 DEF Edit, SyncTypeOK
<1>5. SyncInv'
  BY DEF Edit, SyncInv
<1> QED
  BY <1>4, <1>5

-----------------------------------------------------------------------------
\* Both together

\* A sync that has work keeps the worker in its callback.
LEMMA SystemInvNext == SystemInv /\ [SystemNext]_systemVars => SystemInv'
<1> SUFFICES ASSUME SystemInv, [SystemNext]_systemVars
             PROVE  SystemInv'
  OBVIOUS
<1> USE DEF SystemInv, SystemTypeOK
<1>1. CASE ServerStep
  <2>1. CatalogTypeOK' /\ WorkerInv'
    BY <1>1, ProcessKeeps DEF ServerStep
  <2>2. UNCHANGED syncVars /\ seen' = seen /\ (place' = place \/ place = "none")
    BY <1>1 DEF ServerStep, Start, Stop, workerVars, WorkerInv
  <2> QED
    BY <2>1, <2>2 DEF syncVars, SyncTypeOK, SyncInv
<1>2. CASE ProcessEnds
  BY <1>2, ProcessKeeps, ForgetKeeps DEF ProcessEnds
<1>3. CASE CatalogStep
  <2>1. CatalogTypeOK' /\ WorkerInv'
    BY <1>3, WorkerTypes, WorkerOrders DEF CatalogStep
  <2>2. phase = "idle" /\ phase' = "idle"
    BY <1>3 DEF CatalogStep, WorkerStep, LoadCache, BeginRefresh, FetchFails, FetchAnswers,
       Publish, WriteCache, ReplaceCache, SaveFails, SkipCallback, CallBack, WakeUp, syncVars
  <2> QED
    BY <1>3, <2>1, <2>2 DEF CatalogStep, syncVars, SyncTypeOK, SyncInv
<1>4. CASE CallSync \/ CallFails
  <2>1. fetched \in seen /\ seen \subseteq Lists /\ Lists \subseteq DOMAIN Listing
    BY <1>4, SystemAssumption DEF CallSync, CallFails, CatalogTypeOK, WorkerInv
  <2>2. UNCHANGED catalogVars /\ place = "callback"
    BY <1>4 DEF CallSync, CallFails
  <2>3. SyncTypeOK' /\ SyncInv'
    BY <1>4, <2>1, <2>2, CallKeeps DEF CallSync, CallFails, catalogVars, workerVars
  <2> QED
    BY <2>2, <2>3 DEF catalogVars, workerVars, CatalogTypeOK, WorkerInv
<1>5. CASE SyncRuns
  <2>1. UNCHANGED catalogVars /\ phase # "idle"
    BY <1>5 DEF SyncRuns, SyncStep, LinkConfig, WriteBackup, LookAgain, ReplaceConfig, SyncFails
  <2>2. SyncTypeOK' /\ SyncInv'
    BY <1>5, <2>1, StepKeeps DEF SyncRuns, catalogVars, workerVars
  <2> QED
    BY <2>1, <2>2 DEF catalogVars, workerVars, CatalogTypeOK, WorkerInv
<1>6. CASE SyncReturns
  BY <1>6, WorkerTypes, WorkerOrders, ForgetKeeps DEF SyncReturns
<1>7. CASE Environment
  <2>1. CASE (ListChanges \/ TimePasses) /\ UNCHANGED syncVars
    <3>1. CatalogTypeOK' /\ WorkerInv'
      BY <2>1, ProcessKeeps
    <3>2. UNCHANGED <<place, seen>>
      BY <2>1 DEF ListChanges, TimePasses, workerVars
    <3> QED
      BY <2>1, <3>1, <3>2 DEF syncVars, SyncTypeOK, SyncInv
  <2>2. CASE Edit /\ UNCHANGED catalogVars
    <3>1. SyncTypeOK' /\ SyncInv' /\ phase' = phase
      BY <2>2, EditKeeps DEF Edit, catalogVars, workerVars
    <3> QED
      BY <2>2, <3>1 DEF catalogVars, workerVars, CatalogTypeOK, WorkerInv
  <2> QED
    BY <1>7, <2>1, <2>2 DEF Environment
<1>8. CASE UNCHANGED systemVars
  BY <1>8 DEF systemVars, syncVars, catalogVars, workerVars, CatalogTypeOK, WorkerInv,
              SyncTypeOK, SyncInv
<1> QED
  BY <1>1, <1>2, <1>3, <1>4, <1>5, <1>6, <1>7, <1>8 DEF SystemNext, ThreadStep

\* The worker and the sync agree about what was fetched and what is in the files.
THEOREM SystemInvariant == SystemSpec => []SystemInv
<1>1. SystemInit => SystemInv
  BY WorkerInit, SyncStarts DEF SystemInit, SyncInit, SystemInv, SystemTypeOK
<1> QED
  BY <1>1, SystemInvNext, PTL DEF SystemSpec

\* Every variable of the two components has its type, and a call of sync has work
\* only while the worker waits for its callback.
THEOREM SystemTypes == SystemSpec => []SystemTypeOK
<1>1. SystemInv => SystemTypeOK
  BY DEF SystemInv
<1> QED
  BY <1>1, SystemInvariant, PTL

-----------------------------------------------------------------------------
\* The catalog's lists

\* What a step may do to the published list and to the cache.
LEMMA ListsNext ==
    SystemInv /\ [SystemNext]_systemVars =>
        /\ up /\ up' => models' >= models
        /\ cache \in Lists => cache' \in Lists /\ cache' >= cache
<1> SUFFICES ASSUME SystemInv, [SystemNext]_systemVars
             PROVE  /\ up /\ up' => models' >= models
                    /\ cache \in Lists => cache' \in Lists /\ cache' >= cache
  OBVIOUS
<1>1. CatalogTypeOK /\ WorkerInv
  BY DEF SystemInv, SystemTypeOK
<1>2. CASE WorkerStep \/ CallbackReturns
  BY <1>1, <1>2, WorkerOrders
<1>3. CASE Start \/ Stop \/ Exit \/ ListChanges \/ TimePasses
  BY <1>1, <1>3, ProcessKeeps
<1>4. CASE UNCHANGED catalogVars
  BY <1>1, <1>4, ListNumbers DEF catalogVars, workerVars
<1> QED
  BY <1>2, <1>3, <1>4 DEF SystemNext, ServerStep, ProcessEnds, ThreadStep, CatalogStep,
     CallSync, CallFails, SyncRuns, SyncReturns, Environment, systemVars

\* While the process runs, a published list is not taken back and not replaced by
\* an older one: a refresh publishes what was NVIDIA's list when it was fetched,
\* and the cache is loaded before the first.
THEOREM PublishedListsAdvance == SystemSpec => NeverBackwards
<1>1. SystemInv /\ [SystemNext]_systemVars => [up /\ up' => models' >= models]_catalogVars
  BY ListsNext
<1> QED
  BY <1>1, SystemInvariant, PTL DEF SystemSpec, NeverBackwards

\* A good cache file stays good and gets no older, wherever the process ends.
THEOREM CacheKept == SystemSpec => CacheSurvives
<1>1. SystemInv /\ [SystemNext]_systemVars
          => [(cache \in Lists) => cache' \in Lists /\ cache' >= cache]_catalogVars
  BY ListsNext
<1> QED
  BY <1>1, SystemInvariant, PTL DEF SystemSpec, CacheSurvives

-----------------------------------------------------------------------------
\* What the sync writes

\* The sync only ever writes the merge of what it has read with a list that this
\* process has fetched, and over nothing but a file that is in a backup, unless
\* the user has come between its last look and the replacement.
LEMMA WritesNext ==
    ASSUME SystemInv, [SystemNext]_systemVars, SyncWrites
    PROVE  /\ list \in seen
           /\ file'.config = Merge(original.config, Listing[list])
           /\ file # NoFile => file \in backups \/ raced
<1>1. LinkConfig \/ ReplaceConfig
  <2>1. ~Edit
    BY DEF Edit, SaveFile, RemoveFile, SyncWrites, SystemInv, SystemTypeOK, SyncTypeOK
  <2>2. file' # file
    BY DEF SyncWrites
  <2> QED
    BY <2>1, <2>2
       DEF SystemNext, ServerStep, ProcessEnds, ThreadStep, CatalogStep, CallSync, CallFails,
           SyncRuns, SyncReturns, Environment, systemVars, syncVars, ForgetCall, ReadConfig,
           ReadFails, SyncStep, WriteBackup, LookAgain, SyncFails
<1>2. file' = Updated(original, list)
  BY <1>1 DEF LinkConfig, ReplaceConfig, SyncWrites
<1>3. list \in seen /\ (file # NoFile => file \in backups \/ raced)
  BY <1>1 DEF LinkConfig, ReplaceConfig, SyncWrites, SystemInv, SyncInv
<1> QED
  BY <1>2, <1>3 DEF Updated

\* No edit of the user's is lost: what sync overwrites is in a backup.
THEOREM NoEditLost == SystemSpec => EditsKept
<1>1. SystemInv /\ [SystemNext]_systemVars
          => [SyncWrites /\ file # NoFile => file \in backups \/ raced]_syncVars
  BY WritesNext
<1> QED
  BY <1>1, SystemInvariant, PTL DEF SystemSpec, EditsKept

\* A list gets into the configuration only when this process has fetched it, not
\* from the cache and not from an earlier process.
THEOREM FetchedBeforeSynced == SystemSpec => OnlyLiveLists
<1>1. SystemInv /\ [SystemNext]_systemVars
          => [SyncWrites =>
                 \E n \in seen : file'.config = Merge(original.config, Listing[n])]_systemVars
  BY WritesNext
<1> QED
  BY <1>1, SystemInvariant, PTL DEF SystemSpec, OnlyLiveLists

-----------------------------------------------------------------------------
\* merge_models

\* What becomes of the entries of a provider, one by one.
LEMMA MergedEntries ==
    ASSUME NEW entries, NEW names
    PROVE  /\ DOMAIN MergedModels(entries, names) =
                  (DOMAIN entries \ Removed(entries, names)) \cup Added(entries, names)
           /\ \A m \in DOMAIN MergedModels(entries, names) :
                  MergedModels(entries, names)[m] =
                      IF m \in Added(entries, names) THEN Entry(Registry[m], Generated)
                      ELSE IF m \in Migrated(entries, names)
                        THEN Entry(Registry[m], entries[m].rest)
                      ELSE entries[m]
  BY DEF MergedModels

\* A model that NVIDIA lists and the registry has is never obsolete.
LEMMA EligibleStays ==
    ASSUME NEW names, NEW m \in Eligible(names)
    PROVE  ~Obsolete(m, names)
  BY DEF Eligible, Reviewed, Obsolete

\* A second merge of the same list finds nothing to remove, to add or to migrate.
LEMMA MergeSettles ==
    ASSUME NEW entries, NEW names
    PROVE  ChangedIn(MergedModels(entries, names), names) = 0
<1> DEFINE merged == MergedModels(entries, names)
<1>1. /\ DOMAIN merged = (DOMAIN entries \ Removed(entries, names)) \cup Added(entries, names)
      /\ \A m \in DOMAIN merged :
             merged[m] = IF m \in Added(entries, names) THEN Entry(Registry[m], Generated)
                         ELSE IF m \in Migrated(entries, names)
                           THEN Entry(Registry[m], entries[m].rest)
                         ELSE entries[m]
  BY MergedEntries
<1> HIDE DEF merged
<1>2. Removed(merged, names) = {}
  BY <1>1, EligibleStays DEF Removed, Added
<1>3. Added(merged, names) = {}
  BY <1>1, EligibleStays DEF Removed, Added
<1>4. Migrated(merged, names) = {}
  <2> SUFFICES ASSUME NEW m \in Eligible(names) \cap DOMAIN merged,
                      LimitOutdated(m, merged[m])
               PROVE  FALSE
    BY DEF Migrated
  <2>1. CASE m \in Added(entries, names) \cup Migrated(entries, names)
    <3>1. PICK rest : merged[m] = Entry(Registry[m], rest)
      BY <1>1, <2>1
    <3>2. merged[m].limit = Registry[m]
      BY <3>1 DEF Entry
    <3> QED
      BY <3>2 DEF LimitOutdated
  <2>2. CASE m \notin Added(entries, names) \cup Migrated(entries, names)
    <3>1. merged[m] = entries[m] /\ m \in DOMAIN entries
      BY <1>1, <2>2
    <3> QED
      BY <2>2, <3>1 DEF Migrated
  <2> QED
    BY <2>1, <2>2
<1>5. ChangedIn(merged, names) = Cardinality({}) + Cardinality({}) + Cardinality({})
  BY <1>2, <1>3, <1>4 DEF ChangedIn
<1>6. ChangedIn(merged, names) = 0
  BY <1>5, FS_EmptySet
<1> QED
  BY <1>6 DEF merged

\* So does a second merge of all providers.
LEMMA MergeIsSettled ==
    ASSUME NEW settings, NEW names
    PROVE  ChangesNothing(Merge(settings, names), names)
<1>1. CASE Eligible(names) = {}
  BY <1>1 DEF ChangesNothing
<1>2. CASE Eligible(names) # {}
  <2> DEFINE merged == Merge(settings, names)
  <2>1. merged = [p \in DOMAIN WithLocal(settings) |->
                      IF p \in Synced
                        THEN [ours |-> TRUE,
                              models |-> MergedModels(WithLocal(settings)[p].models, names)]
                        ELSE settings[p]]
    BY <1>2 DEF Merge
  <2>2. LocalProvider \in DOMAIN merged
    BY <2>1 DEF WithLocal
  <2> HIDE DEF merged
  <2>3. WithLocal(merged) = merged
    BY <2>1, <2>2 DEF WithLocal
  <2>4. ASSUME NEW p \in Synced \cap DOMAIN merged
        PROVE  ChangedIn(merged[p].models, names) = 0
    BY <2>1, <2>4, MergeSettles
  <2>5. ChangesNothing(merged, names)
    BY <2>3, <2>4 DEF ChangesNothing
  <2> QED
    BY <2>5 DEF merged
<1> QED
  BY <1>1, <1>2

\* A merge leaves the user's providers, models, limits and settings alone.
LEMMA MergeKeeps ==
    ASSUME NEW settings, NEW names
    PROVE  KeepsTheUsers(settings, Merge(settings, names), names)
<1>1. CASE Eligible(names) = {}
  BY <1>1 DEF KeepsTheUsers, Merge
<1>2. CASE Eligible(names) # {}
  <2> SUFFICES
        ASSUME NEW p \in DOMAIN settings
        PROVE  /\ p \in DOMAIN Merge(settings, names)
               /\ p \notin Synced => Merge(settings, names)[p] = settings[p]
               /\ \A m \in DOMAIN settings[p].models \ (Retired \cup Legacy) :
                      LET before == settings[p].models
                          after == Merge(settings, names)[p].models
                      IN  /\ m \in DOMAIN after
                          /\ after[m].rest = before[m].rest
                          /\ \/ after[m].limit = before[m].limit
                             \/ before[m].limit \in {NoLimit, Template} /\ m \in Reviewed
    BY DEF KeepsTheUsers
  <2>1. /\ p \in DOMAIN WithLocal(settings) /\ WithLocal(settings)[p] = settings[p]
        /\ DOMAIN Merge(settings, names) = DOMAIN WithLocal(settings)
    BY <1>2 DEF Merge, WithLocal
  <2>2. CASE p \notin Synced
    BY <1>2, <2>1, <2>2 DEF Merge
  <2>3. CASE p \in Synced
    <3>1. Merge(settings, names)[p].models = MergedModels(settings[p].models, names)
      BY <1>2, <2>1, <2>3 DEF Merge
    <3> DEFINE before == settings[p].models
               after == MergedModels(before, names)
    <3> HIDE DEF before
    <3>2. ASSUME NEW m \in DOMAIN before \ (Retired \cup Legacy)
          PROVE  /\ m \in DOMAIN after
                 /\ after[m].rest = before[m].rest
                 /\ \/ after[m].limit = before[m].limit
                    \/ before[m].limit \in {NoLimit, Template} /\ m \in Reviewed
      <4>1. m \notin Removed(before, names) /\ m \notin Added(before, names)
        BY DEF Removed, Obsolete, Added
      <4>2. m \in DOMAIN after
            /\ after[m] = IF m \in Migrated(before, names)
                            THEN Entry(Registry[m], before[m].rest) ELSE before[m]
        BY <4>1, MergedEntries
      <4>3. m \in Migrated(before, names) =>
                before[m].limit \in {NoLimit, Template} /\ m \in Reviewed
        BY DEF Migrated, LimitOutdated, Eligible
      <4> HIDE DEF after
      <4> QED
        BY <4>2, <4>3 DEF Entry
    <3> QED
      BY <2>1, <2>3, <3>1, <3>2 DEF before
  <2> QED
    BY <2>2, <2>3
<1> QED
  BY <1>1, <1>2

\* When sync has written the file the same list changes nothing any more, so that
\* it does not write the file, and one more backup, at every refresh.
THEOREM SyncIsSettled == SystemSpec => SyncSettles
<1>1. SystemInv /\ [SystemNext]_systemVars
          => [SyncWrites => ChangesNothing(file'.config, Listing[list])]_syncVars
  <2> SUFFICES ASSUME SystemInv, [SystemNext]_systemVars, SyncWrites
               PROVE  ChangesNothing(file'.config, Listing[list])
    OBVIOUS
  <2>1. file'.config = Merge(original.config, Listing[list])
    BY WritesNext
  <2> QED
    BY <2>1, MergeIsSettled
<1> QED
  BY <1>1, SystemInvariant, PTL DEF SystemSpec, SyncSettles

\* Sync leaves the user's own providers, models, limits and settings alone.
THEOREM UsersAreKept == SystemSpec => UserEntriesKept
<1>1. SystemInv /\ [SystemNext]_systemVars
          => [SyncWrites => KeepsTheUsers(original.config, file'.config, Listing[list])]_syncVars
  <2> SUFFICES ASSUME SystemInv, [SystemNext]_systemVars, SyncWrites
               PROVE  KeepsTheUsers(original.config, file'.config, Listing[list])
    OBVIOUS
  <2>1. file'.config = Merge(original.config, Listing[list])
    BY WritesNext
  <2> QED
    BY <2>1, MergeKeeps
<1> QED
  BY <1>1, SystemInvariant, PTL DEF SystemSpec, UserEntriesKept
=============================================================================
