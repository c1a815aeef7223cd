# Verification of the NVIDIA NIM proxy

TLA+ models of this repository: the queues through which request threads share
NVIDIA API keys, the request handlers that fail over between keys, the way of
one request from the start of the process over the front end and the sanitizer
to the last byte of its response, and the background worker that keeps the
model catalog and OpenCode's configuration up to date. TLC checks the models on
small instances; TLAPS proves the invariants, action properties and refinements
of all components for every value of their constants.

Paths are relative to the repository; `server.py` and its neighbours are in
`src/nvidia_nim_proxy/`.

## 1. The system

A local HTTP proxy (`ThreadingHTTPServer`, one daemon thread per connection)
stands between clients such as OpenCode and NVIDIA's chat completion API. In
Env and Client mode a request brings its key, or uses the one of the
environment, and is queued per key. In Pool mode it leases one of several keys,
fails over to another when NVIDIA refuses it, and, with the retry loop on, goes
on in rounds until it succeeds or its client leaves. One more thread fetches
the list of models, caches it on disk and, if asked to, merges it into
OpenCode's configuration.

| Component | State | Operations | Used by |
|---|---|---|---|
| `NvidiaKeyPool` (`key_pool.py`) | per key: leases out, cooldown, quarantine; cursor; deque of tickets; one `Condition` | `acquire`, `release` and `release_if_active` of a lease, `has_untried_candidate`, `should_failover`, `snapshot` | pool request handler |
| `RequestScheduler` (`scheduler.py`) | a lane (deque, count) per key fingerprint, made and dropped on demand; a global count; one `Condition` | `acquire`, `release`, `snapshot` | direct request handler |
| Pool request handler (`server.py`, `_forward_from_pool`, `_run_pool_request`) | keys tried, failover count, backoff, lease; the semaphore `pool_retry_slots` | one request from arrival to its end | client threads |
| Direct request handler (`server.py`, `_forward_direct`) | lease | one request from arrival to its end | client threads |
| Response relay and tool-call diagnostics (`server.py`) | what it has scanned of one stream | copies NVIDIA's response, reports broken tool calls | both handlers |
| HTTP front end (`server.py`, `do_GET`, `do_POST`) | none shared | routes, authorization, body checks, `/health` | clients |
| `ModelCatalog` (`model_catalog.py`) | published list, failure flag, stop event, cache file | `start`, `stop`, `refresh`, `load_cache`, `snapshot` | server, front end |
| `OpenCodeModelSync` (`opencode_sync.py`) | configuration file, backups | `sync` | callback of `ModelCatalog.refresh` |
| Sanitizer, profiles, limits (`sanitizer.py`, `model_profiles.py`, `model_limits.py`) | none | rewrite one request body | handlers |
| Credentials (`credentials.py`) | none | parse and compare keys | configuration, handlers |
| Command line, launchers (`server.py` `main`, `run_proxy.ps1`, `*.bat`) | none | check options and wire the parts up | user |

How they interact: handlers call the pool or the scheduler, hold a lease across
network calls, and give it back in a `finally`; both queues call back into the
handler (`cancelled=self._client_disconnected`) from inside their critical
section; threads meet only in the two `Condition`s and the semaphore. The
catalog's worker calls the sync on its own thread, inside `refresh`; the sync
shares the configuration file with a user who knows nothing of it.

What is hard here, and what makes each component correct:

- **Key pool.** Many ways into and out of one queue (free key, no key, full,
  head, deadline, disconnect), waits whose length is computed from state that
  others change, results of concurrent leases of one key applied in any order.
  Correct means: leases counted exactly; limits kept; admission in order of
  arrival; no thread asleep that could go on; nobody asleep past a deadline or
  the end of a cooldown; a key's health only worsened by results; no healthy
  key starved by the round robin; every call returns.
- **Scheduler.** The same queue per key over one `Condition`, plus lanes that
  disappear while threads still hold references to them. Correct means: one
  lane per key in use, none leaked; the two counts agree; the limit of a key
  holds across lanes dropped and made again.
- **Pool request handler.** Two error paths, a dozen exits, and questions to
  the pool whose answers are stale when used. Correct means: one response and
  never a second; no request forgotten; a key not tried twice in a round;
  bounded failover; nothing held outside the `try` block; no attempt for a
  client that is seen to have gone; permits neither lost nor doubled; the loop
  gives up for want of keys only when all are quarantined, and keeps trying
  otherwise; a request whose own peers do their part ends, whatever becomes of
  the others.
- **Direct request handler.** Correct means: NVIDIA sees no more than the limit
  per key; one response; lease given back on every exit.
- **Catalog and sync.** A daemon thread that may die between any two steps, a
  network and a disk that fail, an editor that saves the same file, and rules of
  merging that must agree with each other. Correct means: lists never go
  backwards; the cache file is always whole; the user's edits are never
  overwritten without a backup; only fetched lists are merged; a merge leaves
  the user's entries alone and nothing to merge; the configuration converges.
- **Relay.** A stream that is cut into chunks anywhere and may break anywhere,
  and a scan with two limits that hands its buffer over to the stream behind
  it. Correct means: the client gets NVIDIA's bytes, each once and in order;
  markup in the scanned events never reaches it; a response that has begun is
  neither answered again nor retried.
- **Front end, sanitizer, credentials, command line.** Sequential code, whose
  hazards are in combinations: settings that are valid one by one, nestings
  that the depth check walks without recursion, efforts asked for in several
  places at once. Correct means: bodies are refused for their depth exactly
  beyond the limit; what is forwarded is what the API takes and what the client
  asked for, and sanitizing it again changes nothing; it goes with the right
  key and never with the proxy's own; no worker runs without the port.

`PROJECT.json` lists the hazards with their lines and the properties that watch
over them.

## 2. The modules

| Module | Models |
|---|---|
| `FifoAdmission` | abstract: what a bounded first-come-first-served admission queue promises |
| `KeyPool` | `NvidiaKeyPool` and its callers |
| `KeyPoolRotation` | extends `KeyPool`: counts, as a history variable, the grants that pass a key over |
| `PoolRequest` | extends `KeyPool`: the Pool handler run by every thread against the shared pool |
| `Scheduler` | `RequestScheduler` and its callers |
| `DirectRequest` | extends `Scheduler`: the Env and Client handler |
| `ModelCatalog` | the catalog's worker, its cache and its process |
| `MergeModels` | `merge_models` and the registry of limits, as operators |
| `OpenCodeSync` | extends `MergeModels`: one call of `sync` against a concurrent user |
| `CatalogSync` | extends `ModelCatalog` and `OpenCodeSync`: the sync as the callback of the worker, as `main` wires it |
| `RequestContract` | abstract: what a request promises its client |
| `ClientConnection` | the response towards the client, and the client's departure |
| `Startup` | `main`: settings that are rejected, the server, the worker, the end of the process |
| `Sanitizer` | `sanitize_chat_completion_body` with the reasoning profiles, as operators |
| `FrontEnd` | extends `Startup`, `Sanitizer`, `ClientConnection`: `do_GET`, `do_POST` |
| `Relay` | `_relay_upstream_response` and the scan for tool-call markup |
| `ProxyRequest` | extends `FrontEnd` and `Relay`: one request from the start of the process to its last byte |
| `MC...` | constants for TLC |
| `QueueLemmas` | lemmas on numbers, sequences and queues |
| `...Proofs` | the theorems of section 5: `KeyPoolProofs`, `KeyPoolRotationProofs`, `PoolRequestProofs`, `SchedulerProofs`, `DirectRequestProofs`, `CatalogProofs` (all of `CatalogSync`), `ProxyProofs` (all of `ProxyRequest`) |

`PROJECT.json` maps every definition to its lines. Definitions commented "Seeded
fault" are not part of any specification: each is a plausible bug, kept beside
the definition it would spoil, and shows that a property notices it.

### KeyPool and Scheduler

A thread is `idle`, `calling` (it has read the clock and waits for the lock),
`waiting` (in `Condition.wait`), `leased`, or holds an exception. One critical
section is one action: `Enter` is `acquire` from the lock to its end or its
first wait, `Resume` is one wakeup to the end or the next wait, `Release` and
`Finish` are the two ways to give a lease back. The lock makes this exact,
except that the clock and the sockets are held still within a section.

- *Time* is relative: a cooldown, deadline or wait is what is left of it, and
  `Tick` takes a unit off each. Threads may be arbitrarily late: a wait that is
  over need not be resumed at once, and the `Condition` may be reacquired after
  others have acted.
- *Tickets.* The code compares tickets by value when it removes one
  (`deque.remove` of a frozen dataclass) and by identity when it asks whether a
  thread is the head (`is`). A ticket has an `owner` for identity; a ticket left
  behind by a call that has ended belongs to `Nobody`. Clock readings are only
  compared for equality, so they are names; `CoarseClock` says whether two calls
  may read the same value, which a real monotonic clock allows (its resolution
  was about 15.6 ms on Windows before Python 3.13).
- *Keys.* `Selects` is the scan of `_select_available`: a key at the smallest
  distance after the cursor. The scan and the comparison of lanes are written
  as what they find, not how.
- *Cooldowns.* `CooldownSeconds` distinguishes an absent header, one that cannot
  be parsed, and a number of seconds, clamped at zero and at the cap.
- *Departures.* `gone` are the threads whose client has closed its connection.
  `_client_disconnected` peeks at one byte, and any byte counts as a client
  that is there: a departure is not seen while bytes of the client's own lie
  unread in the connection (`server.py:855-856`). `Unread` are the threads
  whose clients leave some behind, and `Probe` finds the others only. In most
  runs `Unread` is empty; `KeyPool_forever` and `PoolRequest_loop` have one
  thread of this kind, and the theorems hold for any `Unread`.
- `_release` raises when the counter is zero; the model has it as a guard
  `active[k] > 0`, and `LeasesCounted` proves that it never blocks.
- *Lanes* of the scheduler are objects with names; the name of a dropped lane is
  reused only when no thread refers to it.

### PoolRequest and DirectRequest

`at` is the line a thread is at. A step ends at the next critical section of
the pool, the next network call, or the next place where the client may be
found gone; everything else that a thread does is local. `exit` says whether the
`try` block is left by `continue` or `return`, so that `Finally` is one action
for all of the exits, as in the code. NVIDIA is an environment that answers
with any status of `Answers`, or fails as DNS, TLS or otherwise. `ThreadStep` is
what a thread does by itself, `UpstreamStep` what NVIDIA does to an attempt, and
`RelayEnds` the end of a relay, for which NVIDIA must come to an end and the
client must read what it is sent, or go. `RetryLoop` is
the pool's `WaitForever`, as `ProxyConfig` sets both from `pool_retry_loop`.
`UsesThePool` says that every step of the handler is a step of the pool's own
specification, so what is checked or proved of the pool under arbitrary callers
holds under the real one; the steps of `DirectRequest` are conjunctions with
actions of `Scheduler`.

### ModelCatalog, OpenCodeSync and CatalogSync

The worker's `place` goes through `load`, then rounds of `fetch`, `publish`,
`save`, `replace`, `notify`, `callback`, `wait`. `Stop` and `Exit` may fall
between any two of them, and a new process starts with what is on disk. The
lists that NVIDIA publishes one after the other are `Listing[1]`,
`Listing[2]`, ...; the catalog only handles their numbers, the sync their
content. A configuration maps providers to entries, of which
`merge_models` looks at the limit and keeps the rest; the file also has who
saved it last and whether it can be read at all. Its user saves, removes or
creates it at any step, with any of `UserConfigs` or with what sync has made of
the file. Reads and writes of one file are atomic: the code writes temporary
files and publishes them with `os.replace` and `os.link`, and a user's editor
is assumed to do no worse than produce a file that is not strict JSON, which is
one of the contents. That also stands for the contents that `sync` refuses for
good after the merge (`opencode_sync.py:179-183`: a `NaN`, or a result that
exceeds the limit of its size): to `sync` they are as good as unreadable.

### Startup, FrontEnd, Relay and ProxyRequest

`Settings` is the product of what the environment and the command line may say,
and `Rejected` the reasons for not starting. One request at a time then goes
through `step`: what is shared between requests is in `KeyPool` and
`Scheduler`, so between `queue` and `relay` this model keeps only the outcomes
of queueing, with the key of every attempt chosen freely from the pool's. Of a
body two views are taken, of its nesting and of its fields, since the code
looks at one without the other: first `validate_json_depth` walks the nesting
with a stack of iterators (`Descend`, `Ascend`, `TooDeep`), then the fields are
sanitized.

In the relay a byte is its position in the stream. Events have sizes, belong to
choices and carry text, a marker or half of one; chunks are cut anywhere, within
an event too, and `Completed` is what can be parsed of a prefix. `doing` is the
place in `_relay_upstream_response`; `raised` is an exception in it, which its
caller answers (`RelayRaises`) or, in Pool mode, fails over from.

`ProxyRequest` implements `RequestContract` with `phase` read off `step` and
`responses`. There a request is begun, answered with one status line and ended;
it may end without one only if the client has gone, or with the process.

## 3. The runs

All of them together take about twenty minutes with two workers.

| Run | Question | Checks |
|---|---|---|
| `KeyPool_standard` | 3 threads, 2 keys, bounded waits that a disconnect cancels: is the queue right? | `TypeOK`, `QueuedRequestsAreWaiting`, `NoLostWakeup`, `NoOversleep`, `EveryKeyTakesItsTurn`, `ImplementsFifo` |
| `KeyPool_equal_tickets` | may a ticket outlive its call? (yes, see findings) | `QueuedRequestsAreWaiting`, violated |
| `PoolRequest_standard` | standard Pool mode, 3 keys: failover, relay, disconnects | `OneResponse`, `NothingHeldBetweenAttempts`, `FaultsBounded`, `UsesThePool`, `NoKeyTwice` |
| `PoolRequest_ends` | standard Pool mode with tickets that may be equal: is there always a ticket to remove, and does a request end whose own peers do their part, though other relays may hang? | `TicketsBalance`, `RequestEnds` |
| `KeyPool_forever` | the waits without a deadline of the retry loop, 3 threads, 2 keys with 2 leases each, an unseen departure: are leases counted exactly and results applied right, and does every `acquire` return if leases are given back? | `ActiveMatchesLeases`, `KeyHealthOnlyWorsens`, `AcquireReturns` |
| `PoolRequest_loop` | the retry loop under fairness, with quarantines, rounds and an unseen departure: does it give up only when it must, does a request leave after its client, and is it served in the end? | `LoopGivesUpRightly`, `SlotsMatch`, `DepartedLeave`, `LoopSucceeds` |
| `PoolRequest_last_answer` | does the client see NVIDIA's last answer? (not always) | `LastAnswerReturned`, violated |
| `PoolRequest_unread_refusal` | is a refused key always quarantined? (not always) | `RefusedKeyQuarantined`, violated |
| `Scheduler_lanes` | 4 requests, 2 keys: lanes dropped and made again | `LanesInUse`, `QueuedMatches`, `NoLostWakeup`, `ImplementsFifo` |
| `DirectRequest` | Env and Client mode over the scheduler under fairness, 3 threads and 1 key: is NVIDIA's limit kept, and does a request end, and end clean, whose own peers do their part, though the relay before it may hang? | `KeyNeverOverloaded`, `CleanEnd`, `RequestEnds` |
| `CatalogSync` | the worker and the sync with a user, failures, crashes and restarts | `SystemTypeOK`, `NeverBackwards`, `CacheSurvives`, `EditsKept`, `OnlyLiveLists`, `SyncSettles`, `UserEntriesKept`, `ConfigConverges` |
| `ProxyRequest` | start-ups, bodies and streams of every kind: what is sent where, and what does the client get? | `BodyRight`, `ServedRight`, `RelayFaithful`, `LeakWithheld`, `ImplementsContract` |

**Bounds.** Two keys are the least for failover, for a quarantine that leaves a
key, and for the rotation; `KeyPool_forever` has two leases per key, where
results of concurrent leases meet, in any order, with 401, 429 and
`Retry-After`. Three threads give a holder, a head and one behind it; four over
two keys give two busy lanes and a full queue. The permits of the loop are one
for every lease and every place in the queue, three here, and two requests
never exhaust them; the theorem `SlotsNeverLeak` covers any number of requests.
`QueueWait` and `MaxCooldown` of 2 with `Poll` 1 or 2 let a deadline, a poll
and the end of a cooldown fall in any order. `MaxTotalQueued` is small enough
to be met. In the handler runs time is coarser (all intervals 1): what they ask
does not depend on how long a wait is, only on which of two events comes first,
and every order occurs. `PoolRequest_standard` has three keys, without which no
request can exceed a failover budget of 1; it pays for them with cooldowns that
end at once (as with `Retry-After: 0`) and without 401, which
`PoolRequest_loop` and the violated runs have. `PoolRequest_ends` is about
waiting, so NVIDIA only rate limits or fails there; that failover itself ends
follows from `NoKeyTwice`. What a request without a deadline does behind
another is asked of the pool itself, in `KeyPool_forever`, where three threads
and a queue of two put one behind a head that waits for a cooldown; the
handler's two liveness properties of the loop need two threads.
`Scheduler_lanes` has limits of two per key and three in all, so that either
may be met first. In the scheduler the model of a request matters only for the
equality of tickets, which the exact clock decides already: one is enough.
`Names` bounds the names of clock readings: there are always more of them than
readings still stored, so it excludes nothing.

In `CatalogSync`, `LastList` and `LastEdit` say how often NVIDIA changes its
list and the user the file; two of each cover an edit during a sync, an edit
after it, a removal followed by a new file, and a new list after a failed sync.
The lists withdraw a retired and a legacy model and add a new one; the user's
entries have every kind of limit (absent, the old template where it is wrong,
the old template where it happens to be right, their own) in the local, a direct
and a foreign provider. `MaxBackoff` 2, `RefreshDelay` 3 and `MaxFailures` 3 are
scaled down such that `MaxBackoff` cuts the last doubling and is not the usual
delay, as the 300 s of the code do with 5 failures in units of 30 s.

In `ProxyRequest`, all settings are combined. Bodies are nested up to four deep
against a limit of three, and ask for an allowed, a forbidden or no effort in
every place. Streams have up to three events of one or three bytes, chunks up to
three, and the scan ends after four bytes or two events: either limit may be met
first, a marker may be whole or in two halves, lie within them, across them or
behind them, be split over chunks, or be interleaved with the events of another
choice. One request at a time is enough, since the modules of this run share
nothing between requests but the configuration.

Symmetry is used only in runs without liveness properties, whose properties and
constants treat threads (and scheduler keys) alike: `Unread` is empty there.

**Deadlock** is checked in every run: time can always pass, a thread can always
start a call, a process can always be restarted.

**Fairness.** Threads run and time passes, and that is all that
`RequestFairness` assumes of the handlers. A thread that can run does, and gets
the lock in the end: weak fairness of its own steps, which stay enabled, since a
notification or a timeout is not taken back. The assumption ends where the
thread waits for another machine, because the code bounds neither side of a
relay: the timeout of an upstream connection is one of every single read, so
that an answer may trickle in for ever, and `wfile.write` to a client that stays
connected and does not read has no timeout at all (`server.py:1270`, `1290`,
`1338`). (The proxy's own answers are short and fit into the buffer of a new
connection's socket.) So that a relay ends is nowhere assumed; it is a premise
of the properties that need it:

- `RequestEnds` has it (`PeersMove(r)`) of the request itself only. A request
  of standard Pool mode or of Env and Client mode whose NVIDIA and whose client
  do their part ends even when the relays before it hang for ever, since its
  wait has a deadline. `DepartedLeave` has the same premise: the retry loop's
  request goes with its client, if that is seen to go.
- `LoopSucceeds` and `AcquireReturns` have it of all requests, since in the
  retry loop waits have no deadline: behind a relay that hangs on the only
  usable key a request does wait for ever, until its client leaves.
  `LoopSucceeds` also has the premise that NVIDIA, asked by the request again
  and again, answers with a success again and again (strong fairness,
  `NvidiaRelents`).

The pool's own `FairSpec` has the threads inside `acquire` run and time pass.
The worker of the catalog runs, too, and `CatalogSync` also
assumes strong fairness of a successful fetch and of the successful outcome of
each file operation: what may fail does not fail for ever when it is tried
again and again. `ConfigConverges` needs it.

## 4. Findings

1. *A request can leave the queue with another's ticket*
   (`KeyPool_equal_tickets`, `key_pool.py:352`). Tickets of two calls are equal
   when they have the same set of tried keys and the same clock reading.
   `deque.remove` then takes out the first. When the later call is the one that
   leaves (disconnect or timeout), the earlier loses its ticket and the later
   one's stays behind as a ghost: the earlier call is never the head again as
   long as the ghost stands, and everybody waits until it gives up and removes
   the ghost. `TicketsBalance` and `RequestEnds` in `PoolRequest_ends` show how
   far the damage goes with bounded waits: numbers still match, `remove` never
   raises, and requests still end. In the retry loop, where waits
   have no deadline, only a departure removes the ghost. `RequestScheduler`
   removes by value too (`scheduler.py:188`). Comparing by identity
   (`eq=False`) would remove the difference. All other runs but
   `PoolRequest_ends` use a clock whose stored readings differ.
2. *The last answer may be lost* (`PoolRequest_last_answer`, `server.py:917`).
   Between `has_untried_candidate` and `acquire` another request may quarantine
   the last untried key; the client then gets the proxy's 503, not NVIDIA's
   status.
3. *An unreadable refusal does not count* (`PoolRequest_unread_refusal`,
   `server.py:1092`). If the body of a 401 or 403 that is to be relayed cannot
   be read, the lease is released without its status and the key stays in
   rotation.

One window is open by nature and is excluded from `EditsKept` by its history
variable `raced`: an edit between `sync`'s second read and `os.replace` is
overwritten and is in no backup.

## 5. Proofs

TLAPS proves every invariant and every action property of the passing runs, and
the refinements, for every value of the constants: any finite set of
threads, any number of keys, any limits, timeouts, settings, bodies, streams,
configurations and lists, bounded or unbounded waits. TLC checked the inductive
invariants on the constants of the runs before they were proved.

**Assumptions.** The named `ASSUME`s of the modules are all that is assumed of
constants; TLC evaluates them in the runs. They say what the constructors and
the command line check (limits are positive, `WaitForever` needs a probe), what
the tables of profiles and limits in the source are like
(`SanitizerAssumption`, `MergeAssumption`), and what kind of value a constant
is (keys, statuses, nestings as parent numbers). Three theorems also assume
`~CoarseClock`, a clock that never returns a reading twice to calls whose
tickets are still in use: `QueueIsOwned` and both `FirstComeFirstServed`.
Finding 1 shows that the first fails without it. All others hold for either
clock.

### The key pool: `KeyPoolProofs`, `KeyPoolRotationProofs`

- `TypeCorrect`, `LeasesCounted` (`ActiveMatchesLeases`), `HealthOnlyWorsens`
  (`KeyHealthOnlyWorsens`), from `InductiveInvariant`. `TypeOK` contains both
  limits, but is not inductive: that a release leaves `active[k]` at zero or
  more needs the exact count; the count needs that a thread holds a key exactly
  while it is `leased` (`LeaseShape`); and a typed ticket needs a clock reading
  in every call (`CallsStamped`). `PoolInv` is the four of them.
- `HeadNeverForgotten` (`NoLostWakeup`) and `SleepsEndInTime` (`NoOversleep`).
  Their conjunction `WakeInv` is inductive given `PoolInv`: whatever changes the
  head, frees a key or touches a cooldown notifies, or leaves the sleeper's
  reasons to sleep as they were, and a timer starts at most at the deadline and
  at the first cooldown (`SleepTimeBound`) and then shrinks together with them.
- `TicketsInBalance` (`TicketsBalance`), `QueueIsOwned`
  (`QueuedRequestsAreWaiting`), from `QueueInv`. A ghost makes the queue's
  *identities* wrong, but never its *values*: `QueueHolds` says that there is a
  bijection between the tickets in the queue and the waiting threads that keeps
  the value, and removing the first equal ticket keeps such a bijection
  (`QueueLemmas`). With the exact clock the values tell threads apart, and the
  bijection is ownership.
- `FirstComeFirstServed` (`ImplementsFifo`): with ownership, each action of the
  pool is one of `FifoAdmission` or a stutter, and removal by value is the
  abstract removal by identity.
- `KeysTakeTurns` (`EveryKeyTakesItsTurn`): for every key, the grants that have
  passed it over and its distance ahead of the cursor together never exceed
  `NKeys` (`RotationInv`), since every grant that passes a key over brings the
  cursor nearer to it.

### Pool mode: `PoolRequestProofs`

`RequestInv` is `PoolInv`, `QueueInv` and `HandlerInv`. The last relates, for
each thread, its place in the handler to the state of its call and lease
(`PlaceRight`), to the keys it has excluded and to why `acquire` raised
(`CallRight`), to what it has answered and how it will leave the `try` block
(`ExitRight`, `AnswerRight`), and to its counters (`FaultRight`), together with
the permits (`SlotsMatch`).

- `HandlerUsesThePool` (`UsesThePool`): every step of the handler is a step of
  the pool. So what is proved of the pool is true under the handler, which
  `PoolUnderHandler` says of `ActiveMatchesLeases`, `KeyHealthOnlyWorsens`,
  `TicketsBalance`, `NoLostWakeup` and `NoOversleep`.
- `AnsweredOnce` (`OneResponse`), `NothingCarriedOver`
  (`NothingHeldBetweenAttempts`), `FaultsStayBounded` (`FaultsBounded`),
  `SlotsNeverLeak` (`SlotsMatch`), `GivesUpRightly` (`LoopGivesUpRightly`),
  `KeysUsedOnce` (`NoKeyTwice`).

### Env and Client mode: `SchedulerProofs`, `DirectRequestProofs`

- `SchedulerInvariant`, with `LanesNeverLeak` (`LanesInUse`), `QueuesCounted`
  (`QueuedMatches`), `HeadNeverForgotten` (`NoLostWakeup`) and
  `FirstComeFirstServed` (`ImplementsFifo`, each key's lane). `SchedInv` ties
  the dictionary to the threads: the lane of a key is there exactly while
  somebody uses the key, everybody who waits for the key works on that object,
  no two keys share one, and one that is not in the dictionary is as good as
  new, which is why a lane made again starts from nothing. A thread that
  creates a lane and has not joined it yet is covered by `Works`, which holds
  in the middle of `acquire`.
- `RequestInvariant`, with `KeysNotOverloaded` (`KeyNeverOverloaded`) and
  `EndsCleanly` (`CleanEnd`).

### Catalog and sync: `CatalogProofs`

`SystemInv` is the types, `WorkerInv` and `SyncInv`. Lists are ordered by the
time NVIDIA published them; what is published, fetched or cached is no newer
than what NVIDIA has, and at each place of the worker the one that is about to
be overwritten is no newer than what overwrites it. No failure is counted any
more once a list is published, so that only failures start the shorter delays.
From the second read to `os.replace`, the sync has a backup of what it read, and
the file is still that unless the user came between (`raced`).

- `SystemTypes` (`SystemTypeOK`), `PublishedListsAdvance` (`NeverBackwards`),
  `CacheKept` (`CacheSurvives`), `NoEditLost` (`EditsKept`),
  `FetchedBeforeSynced` (`OnlyLiveLists`).
- `SyncIsSettled` (`SyncSettles`), `UsersAreKept` (`UserEntriesKept`): lemmas
  about `Merge` for every configuration, list and registry. Both are action
  properties of what the sync writes.

### From the start of the process to the last byte: `ProxyProofs`

`ProxyInv` has a part for each component. `StartInv`: only accepted settings
come up. `KeyInv`: which key a request has at each place in each mode.
`AnswerInv`: which responses it can have had. `WalkInv` and `BodyInv`: the walk
over the body. `RelayInv`: bytes and markup of the answer.

- `RightlyServed` (`ServedRight`), `KeepsContract` (`ImplementsContract`).
- `BodiesRight` (`BodyRight`): the stack of iterators of `validate_json_depth`
  decides exactly whether the body is too deep. The iterators forget what has
  been taken from them; so `WalkInv` says that there is a set of visited
  containers, none too deep, such that every child of a visited one has been
  visited or is in a frame, and that the k-th frame has containers of depth k +
  1 only. When the frames are empty that set is everything (`AllVisited`). For
  what is forwarded, `SanitizedIsRight`, for every body and profile: sanitizing
  settles, and of the places that ask for an effort the first is heard, the
  body itself before `extra_body` before `extraBody` (`sanitizer.py:51`:
  "Prefer explicit wire fields over legacy SDK wrappers").
- `RelaysFaithfully` (`RelayFaithful`): `BytesInv` says at each place which
  prefix of the stream has been sent or is held, for any cut into chunks.
- `MarkupWithheld` (`LeakWithheld`): `MarkupInv` says that nothing scanned so
  far is markup, and that the scan has reached its limits (`ScanOver`) before
  a byte is sent on while more may come: further chunks cannot then change what
  the scan would have seen.

### How the proofs are laid out

One lemma per action, and under it one step per conjunct that the action
disturbs; the actions of `acquire` rest on one lemma per way out of it.
`QueueLemmas` has what is known of minima, of removal of the first equal
element of a sequence, and of bijections between two families. Inductions over
data (the depth of a container, the fold over events, that a walk has visited
all) are done without an induction theorem: the natural numbers are well
founded, so if a statement fails there is a least number for which it fails
(`LeastNumber`), and that leads to a contradiction. Existence of a recursively
defined function (`Depths`, the fold of the community modules) is shown the
same way.

**Only model-checked.** The liveness properties `RequestEnds`, `DepartedLeave`,
`LoopSucceeds`, `AcquireReturns` and `ConfigConverges`: fairness and `ENABLED`
are out of the prover's reach. The properties of the violated runs are false.

## 6. Not modelled

- The launchers: scripts that set variables and start the process.
- How strings are taken apart: `Authorization` headers, command line options,
  JSON, SSE lines, status and header lines. What they yield is an input here.
- Fingerprints, redaction, logging and the wording of errors; what `/health`
  and `snapshot` report; the sanitizer's report of what it has stripped, which
  is only logged.
- In the catalog: `updated_at` and the age at which a list becomes stale, what
  `normalize_catalog` accepts, a `refresh` called other than by the worker.
- Temporary files that a crash leaves behind.
- The sanitizer for a provider other than NVIDIA, which the server never asks
  for, and other fields of `chat_template_kwargs` and `extra_body`, which are
  dropped.
- Several requests on one HTTP/1.1 connection: the handler speaks HTTP/1.0 and
  closes it after each.
- Interpreter-level effects: an exception raised by the probe itself, a
  `KeyboardInterrupt` in the middle of a handler, failed allocations.

Read off the code while modelling, and not the subject of a run of its own:

- A departure may go unseen (`server.py:856`, `Unread` in the models). A client
  that leaves while a byte of its own is unread in the connection counts as
  connected. Its request queues on, opens attempts and, in the retry loop, has
  nothing left that would end it as long as NVIDIA refuses, although
  `README.md:370` and `README.md:390` say that no further attempt is started.
- Late markup is relayed (`server.py:455`). In diagnostic mode a stream is
  scanned up to 8 events or 8 KiB. Markup that comes, or is completed, behind
  them goes to the client and is logged at most, where `README.md:338` speaks of
  markup in assistant text without a limit. `CHANGELOG.md:100` has the limit as
  intended, and `LeakWithheld` claims no more than that.
- An `NVIDIA_API_KEY` with a line break in it (also at its end, it is not
  stripped) makes `http.client` raise a `ValueError` that nothing catches
  (`server.py:1126`): the lease is given back, the client gets no response. The
  keys of the models are such that they can be sent.
- A client that stays connected and does not read keeps its thread and its key
  for as long as it likes.
- A `NIM_PROXY_CLIENT_KEY` or `NVIDIA_API_KEY` of white space only passes the
  start-up checks, and every request is then refused.
- Reading a request body has no timeout: a client that sends less than it
  announces keeps its thread until it leaves.
- A client that only shuts down its sending side counts as gone.

## 7. Plan

Done: all modules of section 2, the runs of section 3, the theorems of section
5. Left:

1. Proofs: the same results along shorter arguments where a lemma repeats a
   case analysis of another (`Enter` and `Resume` in `KeyPoolProofs` and
   `SchedulerProofs`), and a statement of the first-come-first-served order
   that survives ghosts, for the coarse clock.
2. Staleness by age and `payload` in `ModelCatalog`; what `normalize_catalog`
   accepts.
