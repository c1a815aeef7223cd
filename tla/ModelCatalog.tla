----------------------------- MODULE ModelCatalog -----------------------------
(***************************************************************************)
(* ModelCatalog (nvidia_nim_proxy/model_catalog.py): the background worker *)
(* that fetches NVIDIA's list of models, publishes it in memory and keeps  *)
(* it in a cache file, in a process that may be stopped, may end between   *)
(* any two steps (the worker is a daemon thread) and may be started again. *)
(*                                                                         *)
(* A list of models is a number, the greater the newer; NVIDIA's is live.  *)
(* Time is counted in units of 30 seconds.                                 *)
(***************************************************************************)
EXTENDS Integers, FiniteSetsExt

CONSTANTS
    LastList,      \* NVIDIA changes its list this often
    RefreshDelay,  \* refresh_seconds
    MaxBackoff,    \* 300 seconds
    MaxFailures    \* failures are counted up to 5

NoList == 0
Lists == 1 .. LastList

\* A cache that load_cache rejects.
Garbled == -1

ASSUME CatalogAssumption ==
    /\ LastList \in Nat \ {0}
    /\ RefreshDelay \in Nat \ {0}
    /\ MaxBackoff \in Nat \ {0}
    /\ MaxFailures \in Nat \ {0}

VARIABLES
    live,      \* NVIDIA's list
    cache,     \* the list in the cache file
    up,        \* the process runs
    stop,      \* the _stop event
    place,     \* where the worker is
    models,    \* the published list
    failed,    \* _failed
    fetched,   \* the list the current refresh has fetched
    failures,  \* failures in a row
    delay,     \* what is left of the worker's wait
    seen       \* history: the lists this process has fetched

workerVars == <<place, models, failed, fetched, failures, delay, seen>>
catalogVars == <<live, cache, up, stop, workerVars>>

CatalogInit ==
    /\ live = 1
    /\ cache \in {NoList, Garbled}
    /\ up = FALSE
    /\ stop = FALSE
    /\ place = "none"
    /\ models = NoList
    /\ failed = FALSE
    /\ fetched = NoList
    /\ failures = 0
    /\ delay = 0
    /\ seen = {}

-----------------------------------------------------------------------------
\* The process

\* The server is built and its catalog's worker started.
Start ==
    /\ ~up
    /\ up' = TRUE
    /\ place' = "load"
    /\ UNCHANGED <<live, cache, stop, models, failed, fetched, failures, delay, seen>>

\* server_close calls stop; the worker is not waited for.
Stop ==
    /\ up /\ ~stop
    /\ stop' = TRUE
    /\ UNCHANGED <<live, cache, up, workerVars>>

\* The process ends, stopped or not, and its memory with it.
Exit ==
    /\ up
    /\ up' = FALSE
    /\ stop' = FALSE
    /\ place' = "none"
    /\ models' = NoList
    /\ failed' = FALSE
    /\ fetched' = NoList
    /\ failures' = 0
    /\ delay' = 0
    /\ seen' = {}
    /\ UNCHANGED <<live, cache>>

-----------------------------------------------------------------------------
\* The worker

\* Seeded fault: the lists in the cache are handed to the callback too.
LoadCacheNotifies ==
    /\ place = "load"
    /\ models' = IF cache \in Lists THEN cache ELSE models
    /\ fetched' = IF cache \in Lists THEN cache ELSE fetched
    /\ place' = IF cache \in Lists THEN "notify" ELSE "loop"
    /\ UNCHANGED <<live, cache, up, stop, failed, failures, delay, seen>>

LoadCache ==
    /\ place = "load"
    /\ models' = IF cache \in Lists THEN cache ELSE models
    /\ place' = "loop"
    /\ UNCHANGED <<live, cache, up, stop, failed, fetched, failures, delay, seen>>

\* The condition of the loop, and the first look of refresh at the event.
BeginRefresh ==
    /\ place = "loop"
    /\ place' = IF stop THEN "ended" ELSE "fetch"
    /\ UNCHANGED <<live, cache, up, stop, models, failed, fetched, failures, delay, seen>>

\* Seeded fault: the backoff has no cap.
BackoffUncapped(n) == 2 ^ (n - 1)

Backoff(n) == Min({RefreshDelay, 2 ^ (n - 1), MaxBackoff})

\* No answer, or one that normalize_catalog rejects.
FetchFails ==
    /\ place = "fetch"
    /\ failed' = TRUE
    /\ failures' = Min({failures + 1, MaxFailures})
    /\ delay' = Backoff(failures')
    /\ place' = "wait"
    /\ UNCHANGED <<live, cache, up, stop, models, fetched, seen>>

\* A complete list; refresh looks at the event again.
FetchAnswers ==
    /\ place = "fetch"
    /\ fetched' = live
    /\ seen' = seen \cup {live}
    /\ place' = IF stop THEN "ended" ELSE "publish"
    /\ UNCHANGED <<live, cache, up, stop, models, failed, failures, delay>>

\* The worker's count of failures is reset when refresh returns; nothing looks
\* at it before.
Publish ==
    /\ place = "publish"
    /\ models' = fetched
    /\ failed' = FALSE
    /\ failures' = 0
    /\ place' = "save"
    /\ UNCHANGED <<live, cache, up, stop, fetched, delay, seen>>

\* Seeded fault: the cache file itself is written, not a temporary file.
WriteCacheInPlace ==
    /\ place = "save"
    /\ cache' = Garbled
    /\ place' = "replace"
    /\ UNCHANGED <<live, up, stop, models, failed, fetched, failures, delay, seen>>

\* The temporary file of _save_cache, which nobody ever reads.
WriteCache ==
    /\ place = "save"
    /\ place' = "replace"
    /\ UNCHANGED <<live, cache, up, stop, models, failed, fetched, failures, delay, seen>>

ReplaceCache ==
    /\ place = "replace"
    /\ cache' = fetched
    /\ place' = "notify"
    /\ UNCHANGED <<live, up, stop, models, failed, fetched, failures, delay, seen>>

\* An OSError in _save_cache: the list stays in memory only.
SaveFails ==
    /\ place \in {"save", "replace"}
    /\ place' = "notify"
    /\ UNCHANGED <<live, cache, up, stop, models, failed, fetched, failures, delay, seen>>

\* Seeded fault: the worker ends after its first success.
RefreshedOnce ==
    /\ delay' = 0
    /\ place' = "ended"
    /\ UNCHANGED <<live, cache, up, stop, models, failed, fetched, failures, seen>>

\* refresh returns True.
Refreshed ==
    /\ delay' = RefreshDelay
    /\ place' = "wait"
    /\ UNCHANGED <<live, cache, up, stop, models, failed, fetched, failures, seen>>

\* No callback once the event is set.
SkipCallback ==
    /\ place = "notify"
    /\ stop
    /\ Refreshed

\* The callback is called; what it does is the other component's.
CallBack ==
    /\ place = "notify"
    /\ ~stop
    /\ place' = "callback"
    /\ UNCHANGED <<live, cache, up, stop, models, failed, fetched, failures, delay, seen>>

\* The callback returns or raises.
CallbackReturns ==
    /\ place = "callback"
    /\ Refreshed

\* Seeded fault: the cache is read again in every pass of the loop.
WakeUpAndLoad ==
    /\ place = "wait"
    /\ stop \/ delay = 0
    /\ place' = IF stop THEN "ended" ELSE "load"
    /\ UNCHANGED <<live, cache, up, stop, models, failed, fetched, failures, delay, seen>>

\* _stop.wait(delay)
WakeUp ==
    /\ place = "wait"
    /\ stop \/ delay = 0
    /\ place' = IF stop THEN "ended" ELSE "loop"
    /\ UNCHANGED <<live, cache, up, stop, models, failed, fetched, failures, delay, seen>>

WorkerStep ==
    \/ LoadCache \/ BeginRefresh
    \/ FetchFails \/ FetchAnswers
    \/ Publish \/ WriteCache \/ ReplaceCache \/ SaveFails
    \/ SkipCallback \/ CallBack
    \/ WakeUp

-----------------------------------------------------------------------------
\* The environment

\* NVIDIA changes its list.
ListChanges ==
    /\ live < LastList
    /\ live' = live + 1
    /\ UNCHANGED <<cache, up, stop, workerVars>>

TimePasses ==
    /\ delay > 0
    /\ delay' = delay - 1
    /\ UNCHANGED <<live, cache, up, stop, place, models, failed, fetched, failures, seen>>

-----------------------------------------------------------------------------
\* Properties

WorkerPlaces == {"none", "load", "loop", "fetch", "publish", "save", "replace",
                 "notify", "callback", "wait", "ended"}

\* Every variable of the catalog has its type; after a failure the worker waits
\* no longer than the backoff's limit, nor than the usual time between refreshes.
CatalogTypeOK ==
    /\ live \in Lists
    /\ cache \in Lists \cup {NoList, Garbled}
    /\ {up, stop, failed} \subseteq BOOLEAN
    /\ place \in WorkerPlaces
    /\ {models, fetched} \subseteq Lists \cup {NoList}
    /\ failures \in 0 .. MaxFailures
    /\ delay \in 0 .. RefreshDelay
    /\ failures > 0 => delay <= MaxBackoff
    /\ seen \subseteq Lists

\* While the process runs, a published list is not taken back and not replaced
\* by an older one, whatever of the saves, the loads and the fetches fails.
NeverBackwards == [][up /\ up' => models' >= models]_catalogVars

\* Whenever the process ends, and whatever fails, a cache file that was good
\* stays good, and gets no older.
CacheSurvives ==
    [][(cache \in Lists) => cache' \in Lists /\ cache' >= cache]_catalogVars
=============================================================================
