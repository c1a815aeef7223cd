----------------------------- MODULE CatalogSync ------------------------------
(***************************************************************************)
(* The catalog's worker with OpenCodeModelSync as its callback             *)
(* (server.py, main): sync runs on the worker's thread, inside refresh.    *)
(***************************************************************************)
EXTENDS ModelCatalog, OpenCodeSync

\* The catalog's lists are those that the sync knows the content of.
ASSUME SystemAssumption == Lists \subseteq DOMAIN Listing

systemVars == <<catalogVars, syncVars>>

SystemInit == CatalogInit /\ SyncInit

ServerStep == (Start \/ Stop) /\ UNCHANGED syncVars

\* Whatever sync was about is dropped in the middle.
ProcessEnds == Exit /\ ForgetCall

CatalogStep == WorkerStep /\ UNCHANGED syncVars

CallSync ==
    /\ place = "callback"
    /\ ReadConfig(fetched)
    /\ UNCHANGED catalogVars

CallFails ==
    /\ place = "callback"
    /\ ReadFails
    /\ UNCHANGED catalogVars

SyncRuns == SyncStep /\ UNCHANGED catalogVars

SyncReturns ==
    /\ phase = "done"
    /\ CallbackReturns
    /\ ForgetCall

Environment ==
    \/ (ListChanges \/ TimePasses) /\ UNCHANGED syncVars
    \/ Edit /\ UNCHANGED catalogVars

\* What the worker's thread does by itself.
ThreadStep == CatalogStep \/ CallSync \/ CallFails \/ SyncRuns \/ SyncReturns

SystemNext == ServerStep \/ ProcessEnds \/ ThreadStep \/ Environment

SystemSpec == SystemInit /\ [][SystemNext]_systemVars

\* The thread runs and time passes.  The environment's part: what may fail
\* does not fail for ever when it is tried again and again.
SystemFairness ==
    /\ WF_systemVars(ThreadStep)
    /\ WF_systemVars(TimePasses /\ UNCHANGED syncVars)
    /\ SF_systemVars(FetchAnswers /\ UNCHANGED syncVars)
    /\ SF_systemVars(CallSync)
    /\ SF_systemVars(LinkConfig /\ UNCHANGED catalogVars)
    /\ SF_systemVars(WriteBackup /\ UNCHANGED catalogVars)
    /\ SF_systemVars(LookAgain /\ UNCHANGED catalogVars)
    /\ SF_systemVars(ReplaceConfig /\ UNCHANGED catalogVars)

FairSystemSpec == SystemSpec /\ SystemFairness

-----------------------------------------------------------------------------
\* Properties

\* Types of both components; the sync has work only while the worker waits
\* for its callback.
SystemTypeOK ==
    /\ CatalogTypeOK
    /\ SyncTypeOK
    /\ phase # "idle" => place = "callback"

\* A list gets into the configuration only when this process has fetched it:
\* the sync uses a live catalog and never the cache.
OnlyLiveLists ==
    [][SyncWrites =>
          \E n \in seen : file'.config = Merge(original.config, Listing[n])]_systemVars

\* While the process runs, the configuration ends up merged with NVIDIA's list
\* for good, unless the user has left it in a form that sync refuses: an edit
\* that makes one call give up is taken up by a later refresh.
ConfigConverges ==
    <>[](up /\ ~stop) =>
        <>[](file.readable /\ ~Refuses(file.config, Listing[live]) =>
                ChangesNothing(file.config, Listing[live]))
=============================================================================
