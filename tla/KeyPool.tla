------------------------------- MODULE KeyPool -------------------------------
(***************************************************************************)
(* NvidiaKeyPool (nvidia_nim_proxy/key_pool.py): the pool of NVIDIA API    *)
(* keys from which request threads lease one key at a time.                *)
(*                                                                         *)
(* Every critical section of the pool's Condition is one atomic action;    *)
(* time does not advance and the socket's state does not change inside     *)
(* one.  Between them threads, the clock and the clients interleave        *)
(* freely.                                                                 *)
(*                                                                         *)
(* Time is relative: a cooldown, a deadline and a sleep are the time that  *)
(* is left of them, and Tick takes one unit off each.  The monotonic       *)
(* reading stored in a ticket is only ever compared for equality, so it is *)
(* a name: <<r, n>> is a reading that r was the first to make.             *)
(***************************************************************************)
EXTENDS Integers, FiniteSets, Sequences, SequencesExt

CONSTANTS
    Callers,              \* request threads
    Nobody,               \* owner of a ticket whose call has ended
    NKeys,                \* number of keys in the pool
    MaxConcurrentPerKey,  \* max_concurrent_per_key
    MaxTotalQueued,       \* max_total_queued
    QueueWait,            \* queue_wait_seconds
    DefaultCooldown,      \* default_cooldown_seconds
    MaxCooldown,          \* the code's 2^31 - 1
    Poll,                 \* POOL_CANCEL_POLL_SECONDS
    Cancellable,          \* the caller passes a `cancelled' probe
    Unread,               \* threads whose clients leave bytes unread behind
    WaitForever,          \* the caller passes wait_forever
    HonorRetry5xx,        \* honor_retryable_5xx_retry_after
    CoarseClock,          \* two clock readings may return the same value
    Attempts,             \* sets of keys a caller may have tried before
    Statuses,             \* upstream statuses a lease may be released with
    RetryAfters           \* Retry-After headers a lease may be released with

Keys == 0 .. NKeys - 1
NoKey == -1
Stamps == Callers \X Nat
NoStamp == <<>>

\* A release that sets no result leaves the lease's status at None.
NoStatus == 0

QuarantineStatuses == {401, 403}
CooldownStatuses == {408, 429}
PoolRetryableStatuses == {408, 429, 500, 502, 503, 504, 529}

\* The exceptions acquire raises.
Raised == {"cancelled", "unavailable", "full", "timeout"}

ASSUME PoolAssumption ==
    /\ IsFiniteSet(Callers)
    /\ Nobody \notin Callers
    /\ NKeys \in Nat \ {0}
    /\ MaxConcurrentPerKey \in Nat \ {0}
    /\ MaxTotalQueued \in Nat \ {0}
    /\ QueueWait \in Nat \ {0}
    /\ DefaultCooldown \in Nat \ {0}
    /\ MaxCooldown \in Nat
    /\ Poll \in Nat \ {0}
    /\ {Cancellable, WaitForever, HonorRetry5xx, CoarseClock} \subseteq BOOLEAN
    /\ WaitForever => Cancellable
    /\ Unread \subseteq Callers
    /\ Attempts \subseteq SUBSET Keys
    /\ Statuses \subseteq Nat
    /\ RetryAfters \subseteq
           [kind : {"absent", "garbled", "seconds"}, seconds : Int]

VARIABLES
    active,       \* active[k]: leases of key k that are out
    cool,         \* cool[k]: what is left of k's cooldown
    quarantined,  \* keys that are quarantined
    cursor,       \* the key selected last
    waiters,      \* the deque of tickets
    pc,           \* where the thread is in acquire, or holding a lease
    attempted,    \* argument of the call in progress
    stamp,        \* started_at of the call in progress
    left,         \* what is left until its deadline
    timer,        \* what is left of its Condition.wait timeout
    notified,     \* sleeping threads that a notify_all has woken
    held,         \* the key of the thread's lease
    released,     \* the lease's _released flag
    gone,         \* clients that have disconnected
    reading       \* coarse clock: its value, once it has been read

keyVars == <<active, cool, quarantined, cursor>>
callVars == <<attempted, stamp, left, timer>>
leaseVars == <<held, released>>
vars == <<active, cool, quarantined, cursor, waiters, pc, attempted, stamp,
          left, timer, notified, held, released, gone, reading>>

Waiting == {r \in Callers : pc[r] = "waiting"}
InCall == {r \in Callers : pc[r] \in {"calling", "waiting"}}

Init ==
    /\ active = [k \in Keys |-> 0]
    /\ cool = [k \in Keys |-> 0]
    /\ quarantined = {}
    /\ cursor = NoKey
    /\ waiters = <<>>
    /\ pc = [r \in Callers |-> "idle"]
    /\ attempted = [r \in Callers |-> {}]
    /\ stamp = [r \in Callers |-> NoStamp]
    /\ left = [r \in Callers |-> 0]
    /\ timer = [r \in Callers |-> 0]
    /\ notified = {}
    /\ held = [r \in Callers |-> NoKey]
    /\ released = [r \in Callers |-> FALSE]
    /\ gone = {}
    /\ reading = NoStamp

-----------------------------------------------------------------------------
\* Key selection

\* Seeded fault: a busy key is not skipped.
SelectableWhenBusy(k, tried) ==
    /\ k \notin tried
    /\ k \notin quarantined
    /\ cool[k] = 0

\* The loop body of _select_available does not `continue' on k.
Selectable(k, tried) ==
    /\ k \notin tried
    /\ k \notin quarantined
    /\ cool[k] = 0
    /\ active[k] < MaxConcurrentPerKey

\* Seeded fault: the scan starts at the first key, not after the cursor.
FromTheFirst(offset) == offset - 1

\* The key at a distance of 1 .. NKeys after the cursor.
After(offset) == (cursor + offset) % NKeys

\* _select_available returns k: the first selectable key after the cursor.
Selects(k, tried) ==
    \E offset \in 1 .. NKeys :
        /\ k = After(offset)
        /\ Selectable(k, tried)
        /\ \A nearer \in 1 .. offset - 1 : ~Selectable(After(nearer), tried)

NoneSelectable(tried) == \A k \in Keys : ~Selectable(k, tried)

NoFutureCandidate(tried) == \A k \in Keys : k \in tried \/ k \in quarantined

CoolingCandidates(tried) ==
    {k \in Keys : k \notin tried /\ k \notin quarantined /\ cool[k] > 0}

\* Seeded fault: cooldowns are not looked at.
DelayIgnoringCooldowns(tried) == QueueWait

NextStateChangeDelay(tried) ==
    IF CoolingCandidates(tried) = {}
      THEN QueueWait
      ELSE Min({cool[k] : k \in CoolingCandidates(tried)})

-----------------------------------------------------------------------------
\* Tickets.  Two ticket objects are `==' when their fields are equal, and
\* `is' the same only when the same call made them.  That call is the one its
\* owner is in; when it ends and leaves a ticket behind, nobody has the object.

Ticket(r) == [owner |-> r, attempted |-> attempted[r], at |-> stamp[r]]

SameValue(t, u) == t.attempted = u.attempted /\ t.at = u.at

\* Seeded faults: the ticket stays in the queue, or the head is taken out.
KeepTicket(queue, t) == queue
RemoveHead(queue, t) == Tail(queue)

\* deque.remove takes out the first ticket that is equal, not identical.
RemoveTicket(queue, t) == RemoveFirstMatch(queue, LAMBDA u : SameValue(u, t))

Abandon(queue, r) ==
    [i \in DOMAIN queue |->
        IF queue[i].owner = r THEN [queue[i] EXCEPT !.owner = Nobody] ELSE queue[i]]

\* Seeded fault: notify instead of notify_all.
NotifyOne(r) ==
    IF Waiting \ ({r} \cup notified) = {}
      THEN notified' = notified \ {r}
      ELSE \E s \in Waiting \ ({r} \cup notified) : notified' = (notified \ {r}) \cup {s}

\* notify_all, called by r: every thread asleep in Condition.wait may go on.
NotifyAll(r) == notified' = Waiting \ {r}

-----------------------------------------------------------------------------
\* acquire

\* Seeded fault: a closed connection is not recognized.
BlindProbe(r) == FALSE

\* _client_disconnected peeks at one byte: a client that has closed its
\* connection is not seen to be gone while bytes of its own lie unread in it.
Probe(r) == Cancellable /\ r \in gone \ Unread

LiveStamps ==
    {stamp[q] : q \in Callers} \cup {waiters[i].at : i \in DOMAIN waiters} \cup {reading}

Names == 0 .. Cardinality(Callers) + MaxTotalQueued

\* r reads a value that the clock has not had before; the first unused name
\* is as good as any.
NewReading(r, s) ==
    \E n \in Names :
        /\ s = <<r, n>>
        /\ s \notin LiveStamps
        /\ \A m \in 0 .. n - 1 : <<r, m>> \in LiveStamps

\* A coarse clock may also still have the value that was read last.
Reads(r, s) == NewReading(r, s) \/ (CoarseClock /\ reading # NoStamp /\ s = reading)

\* started_at and the deadline are taken before the lock is.
BeginAcquire(r, tried) ==
    /\ pc[r] = "idle"
    /\ pc' = [pc EXCEPT ![r] = "calling"]
    /\ attempted' = [attempted EXCEPT ![r] = tried]
    /\ \E s \in Callers \X Names :
           /\ Reads(r, s)
           /\ stamp' = [stamp EXCEPT ![r] = s]
           /\ reading' = IF CoarseClock THEN s ELSE NoStamp
    /\ left' = [left EXCEPT ![r] = IF WaitForever THEN 0 ELSE QueueWait]
    /\ UNCHANGED <<keyVars, waiters, timer, notified, leaseVars, gone>>

\* The call ends and its locals with it.
EndCall(r, outcome) ==
    /\ pc' = [pc EXCEPT ![r] = outcome]
    /\ attempted' = [attempted EXCEPT ![r] = {}]
    /\ stamp' = [stamp EXCEPT ![r] = NoStamp]
    /\ left' = [left EXCEPT ![r] = 0]
    /\ timer' = [timer EXCEPT ![r] = 0]

\* The call raises.
Raise(r, outcome) ==
    /\ EndCall(r, outcome)
    /\ UNCHANGED <<keyVars, leaseVars>>

\* The call returns a lease of k, which _select_available has moved to.
Grant(r, k) ==
    /\ cursor' = k
    /\ active' = [active EXCEPT ![k] = @ + 1]
    /\ held' = [held EXCEPT ![r] = k]
    /\ released' = [released EXCEPT ![r] = FALSE]
    /\ EndCall(r, "leased")
    /\ UNCHANGED <<cool, quarantined>>

\* `self._waiters[0] is ticket'
IsHead(r, queue) == queue # <<>> /\ queue[1].owner = r

\* The head of the queue may leave it, with a key or with none to wait for.
HeadMayLeave(r, queue) ==
    /\ IsHead(r, queue)
    /\ ~NoneSelectable(attempted[r]) \/ NoFutureCandidate(attempted[r])

Leave(r, queue, outcome) ==
    /\ waiters' = Abandon(RemoveTicket(queue, Ticket(r)), r)
    /\ NotifyAll(r)
    /\ Raise(r, outcome)

\* The timeout of Condition.wait.  In an unbounded wait `remaining' is the
\* poll interval.
SleepTime(r) ==
    LET remaining == IF WaitForever THEN Poll ELSE left[r]
        delay == Min({remaining, NextStateChangeDelay(attempted[r])})
    IN IF Cancellable THEN Min({delay, Poll}) ELSE delay

LoopCancelled(r, queue) ==
    /\ Probe(r)
    /\ Leave(r, queue, "cancelled")

LoopGrant(r, queue) ==
    /\ ~Probe(r)
    /\ IsHead(r, queue)
    /\ \E k \in Keys : Selects(k, attempted[r]) /\ Grant(r, k)
    /\ waiters' = Tail(queue)
    /\ NotifyAll(r)

LoopUnavailable(r, queue) ==
    /\ ~Probe(r)
    /\ IsHead(r, queue)
    /\ NoneSelectable(attempted[r])
    /\ NoFutureCandidate(attempted[r])
    /\ Leave(r, queue, "unavailable")

LoopTimeout(r, queue) ==
    /\ ~Probe(r)
    /\ ~HeadMayLeave(r, queue)
    /\ ~WaitForever /\ left[r] = 0
    /\ Leave(r, queue, "timeout")

LoopSleep(r, queue) ==
    /\ ~Probe(r)
    /\ ~HeadMayLeave(r, queue)
    /\ WaitForever \/ left[r] > 0
    /\ waiters' = queue
    /\ pc' = [pc EXCEPT ![r] = "waiting"]
    /\ timer' = [timer EXCEPT ![r] = SleepTime(r)]
    /\ notified' = notified \ {r}
    /\ UNCHANGED <<keyVars, leaseVars, attempted, stamp, left>>

\* One pass of the while loop over a queue that holds r's ticket.
WaitLoop(r, queue) ==
    \/ LoopCancelled(r, queue)
    \/ LoopGrant(r, queue)
    \/ LoopUnavailable(r, queue)
    \/ LoopTimeout(r, queue)
    \/ LoopSleep(r, queue)

EnterCancelled(r) ==
    /\ Probe(r)
    /\ Raise(r, "cancelled")
    /\ UNCHANGED <<waiters, notified>>

\* Seeded fault: a new call takes a free key past the queue.
EnterGrantPastQueue(r) ==
    /\ ~Probe(r)
    /\ \E k \in Keys : Selects(k, attempted[r]) /\ Grant(r, k)
    /\ UNCHANGED <<waiters, notified>>

EnterGrant(r) ==
    /\ ~Probe(r)
    /\ waiters = <<>>
    /\ \E k \in Keys : Selects(k, attempted[r]) /\ Grant(r, k)
    /\ UNCHANGED <<waiters, notified>>

EnterUnavailable(r) ==
    /\ ~Probe(r)
    /\ waiters = <<>>
    /\ NoneSelectable(attempted[r])
    /\ NoFutureCandidate(attempted[r])
    /\ Raise(r, "unavailable")
    /\ UNCHANGED <<waiters, notified>>

\* Neither a key nor an early error: the call has to queue.
MustQueue(r) ==
    /\ ~Probe(r)
    /\ \/ waiters # <<>>
       \/ NoneSelectable(attempted[r]) /\ ~NoFutureCandidate(attempted[r])

EnterFull(r) ==
    /\ MustQueue(r)
    /\ Len(waiters) >= MaxTotalQueued
    /\ Raise(r, "full")
    /\ UNCHANGED <<waiters, notified>>

EnterQueue(r) ==
    /\ MustQueue(r)
    /\ Len(waiters) < MaxTotalQueued
    /\ WaitLoop(r, Append(waiters, Ticket(r)))

\* The critical section of acquire, up to its end or its first wait.
Enter(r) ==
    /\ pc[r] = "calling"
    /\ \/ EnterCancelled(r)
       \/ EnterGrant(r)
       \/ EnterUnavailable(r)
       \/ EnterFull(r)
       \/ EnterQueue(r)
    /\ UNCHANGED <<gone, reading>>

\* Condition.wait returns, on a notification or a timeout, with the lock.
Resume(r) ==
    /\ pc[r] = "waiting"
    /\ r \in notified \/ timer[r] = 0
    /\ WaitLoop(r, waiters)
    /\ UNCHANGED <<gone, reading>>

-----------------------------------------------------------------------------
\* Leases

\* parse_retry_after_seconds, then the cap of _release.
CooldownSeconds(retryAfter) ==
    Min({MaxCooldown,
         IF retryAfter.kind = "seconds"
           THEN Max({0, retryAfter.seconds})
           ELSE DefaultCooldown})

StartsCooldown(status, retryAfter) ==
    /\ status \notin QuarantineStatuses
    /\ \/ status \in CooldownStatuses
       \/ /\ HonorRetry5xx
          /\ status \in PoolRetryableStatuses
          /\ retryAfter.kind # "absent"

\* Seeded fault: the last result alone sets the cooldown.
CooldownOverwritten(k, status, retryAfter) ==
    IF StartsCooldown(status, retryAfter) THEN CooldownSeconds(retryAfter) ELSE cool[k]

\* A cooldown is extended, never shortened.
CooldownAfter(k, status, retryAfter) ==
    IF StartsCooldown(status, retryAfter)
      THEN Max({cool[k], CooldownSeconds(retryAfter)})
      ELSE cool[k]

QuarantinedAfter(k, status) ==
    IF status \in QuarantineStatuses THEN quarantined \cup {k} ELSE quarantined

\* Seeded fault: the _released flag is not looked at.
AlwaysUnreleased(r) == TRUE

\* _release returns early when the lease has been released before.
Unreleased(r) == ~released[r]

\* _release, but for the flag.
GiveBack(r, status, retryAfter) ==
    LET k == held[r]
    IN IF Unreleased(r)
         THEN /\ active[k] > 0
              /\ active' = [active EXCEPT ![k] = @ - 1]
              /\ quarantined' = QuarantinedAfter(k, status)
              /\ cool' = [cool EXCEPT ![k] = CooldownAfter(k, status, retryAfter)]
              /\ NotifyAll(r)
         ELSE UNCHANGED <<active, quarantined, cool, notified>>

\* PoolLease.release(status=..., retry_after=...)
Release(r, status, retryAfter) ==
    /\ pc[r] = "leased"
    /\ GiveBack(r, status, retryAfter)
    /\ released' = [released EXCEPT ![r] = TRUE]
    /\ UNCHANGED <<cursor, waiters, pc, callVars, held, gone, reading>>

NoRetryAfter == [kind |-> "absent", seconds |-> 0]

\* The holder's `finally': release_if_active, and the lease is dropped.
Finish(r) ==
    /\ pc[r] = "leased"
    /\ GiveBack(r, NoStatus, NoRetryAfter)
    /\ held' = [held EXCEPT ![r] = NoKey]
    /\ released' = [released EXCEPT ![r] = FALSE]
    /\ pc' = [pc EXCEPT ![r] = "idle"]
    /\ UNCHANGED <<cursor, waiters, callVars, gone, reading>>

-----------------------------------------------------------------------------
\* The callers' environment

\* The handler has dealt with the exception acquire raised.
Catch(r) ==
    /\ pc[r] \in Raised
    /\ pc' = [pc EXCEPT ![r] = "idle"]
    /\ UNCHANGED <<keyVars, waiters, callVars, notified, leaseVars, gone, reading>>

\* The client closes its connection.
Disconnect(r) ==
    /\ Cancellable
    /\ r \notin gone
    /\ gone' = gone \cup {r}
    /\ UNCHANGED <<keyVars, waiters, pc, callVars, notified, leaseVars, reading>>

\* The thread's request is over and another connection takes its place.
Reconnect(r) ==
    /\ pc[r] = "idle"
    /\ r \in gone
    /\ gone' = gone \ {r}
    /\ UNCHANGED <<keyVars, waiters, pc, callVars, notified, leaseVars, reading>>

Elapse(t) == IF t > 0 THEN t - 1 ELSE 0

\* One unit of time passes.
Tick ==
    /\ cool' = [k \in Keys |-> Elapse(cool[k])]
    /\ left' = [r \in Callers |-> Elapse(left[r])]
    /\ timer' = [r \in Callers |-> Elapse(timer[r])]
    /\ reading' = NoStamp
    /\ UNCHANGED <<active, quarantined, cursor, waiters, pc, attempted, stamp,
                   notified, leaseVars, gone>>

Next ==
    \/ Tick
    \/ \E r \in Callers :
           \/ \E tried \in Attempts : BeginAcquire(r, tried)
           \/ Enter(r)
           \/ Resume(r)
           \/ \E status \in Statuses, retryAfter \in RetryAfters :
                  Release(r, status, retryAfter)
           \/ Finish(r)
           \/ Catch(r)
           \/ Disconnect(r)
           \/ Reconnect(r)

Spec == Init /\ [][Next]_vars

\* Threads in acquire run and time passes.  Nothing is assumed of the holders of
\* leases or of the clients.
FairSpec ==
    /\ Spec
    /\ WF_vars(Tick)
    /\ \A r \in Callers : WF_vars(Enter(r) \/ Resume(r))

-----------------------------------------------------------------------------
\* Properties

\* Every variable has its type; no key has more leases than
\* max_concurrent_per_key and the queue has no more tickets than
\* max_total_queued.
TypeOK ==
    /\ active \in [Keys -> 0 .. MaxConcurrentPerKey]
    /\ cool \in [Keys -> Nat]
    /\ quarantined \subseteq Keys
    /\ cursor \in Keys \cup {NoKey}
    /\ waiters \in Seq([owner : Callers \cup {Nobody}, attempted : SUBSET Keys, at : Stamps])
    /\ Len(waiters) <= MaxTotalQueued
    /\ pc \in [Callers -> {"idle", "calling", "waiting", "leased"} \cup Raised]
    /\ attempted \in [Callers -> SUBSET Keys]
    /\ stamp \in [Callers -> Stamps \cup {NoStamp}]
    /\ left \in [Callers -> 0 .. QueueWait]
    /\ timer \in [Callers -> Nat]
    /\ notified \subseteq Callers
    /\ held \in [Callers -> Keys \cup {NoKey}]
    /\ released \in [Callers -> BOOLEAN]
    /\ gone \subseteq Callers
    /\ reading \in Stamps \cup {NoStamp}

Holders(k) == {r \in Callers : held[r] = k /\ ~released[r]}

\* The counter of a key is the number of unreleased leases of it: _release
\* never finds `active <= 0' and raises, no lease is counted twice or given
\* back twice, and a key is never leaked.
ActiveMatchesLeases == \A k \in Keys : active[k] = Cardinality(Holders(k))

\* For every value of a ticket there are as many tickets in the deque as
\* threads that wait with one: deque.remove never raises ValueError, and
\* `waiters[0]' never IndexError, even when tickets of two calls are equal.
TicketsBalance ==
    /\ Len(waiters) = Cardinality(Waiting)
    /\ \A r \in Waiting :
           Cardinality({i \in DOMAIN waiters : SameValue(waiters[i], Ticket(r))})
             = Cardinality({s \in Waiting : SameValue(Ticket(s), Ticket(r))})

\* No ticket outlives its call: a request that left the queue has no ticket
\* in it, so the head of the queue is always a thread that can act on it.
QueuedRequestsAreWaiting ==
    \A i \in DOMAIN waiters :
        /\ waiters[i].owner \in Waiting
        /\ waiters[i] = Ticket(waiters[i].owner)

\* A thread that sleeps at the head of the queue without a pending
\* notification has neither a key to take nor a reason to give up: no
\* release, cooldown or departure that concerns it goes unsignalled.
NoLostWakeup ==
    \A r \in Waiting \ notified :
        timer[r] > 0 => ~HeadMayLeave(r, waiters)

\* No thread sleeps past its deadline, and the head of the queue not past
\* the end of a cooldown that could give it a key.
NoOversleep ==
    \A r \in Waiting \ notified :
        /\ ~WaitForever => timer[r] <= left[r]
        /\ IsHead(r, waiters) =>
               \A k \in CoolingCandidates(attempted[r]) : timer[r] <= cool[k]

\* As long as leases are given back, every call of acquire returns, also one
\* without a deadline: behind a head that waits for a cooldown of a key that it
\* may use, and behind a request whose client went away unseen.
AcquireReturns ==
    (\A s \in Callers : WF_vars(Finish(s))) =>
        \A r \in Callers : (r \in InCall) ~> (r \notin InCall)

\* Only the passing of time makes a cooldown shorter, and nothing lifts a
\* quarantine: when two requests share a key, the mild result of one does
\* not undo the other's rate limit or authorization failure.
KeyHealthOnlyWorsens ==
    [][/\ quarantined \subseteq quarantined'
       /\ \A k \in Keys : cool'[k] < cool[k] => Tick]_vars

\* The pool is a bounded FIFO admission component.
Fifo == INSTANCE FifoAdmission WITH
    Requests <- Callers,
    Resources <- Keys,
    Nothing <- NoKey,
    Capacity <- MaxConcurrentPerKey,
    Bound <- MaxTotalQueued,
    queue <- [i \in DOMAIN waiters |-> waiters[i].owner],
    holding <- [r \in Callers |-> IF released[r] THEN NoKey ELSE held[r]]

\* Admission is first come first served, within the bounds of the queue and
\* of every key.
ImplementsFifo == Fifo!Spec
=============================================================================
