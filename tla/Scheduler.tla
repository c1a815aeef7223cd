------------------------------ MODULE Scheduler ------------------------------
(***************************************************************************)
(* RequestScheduler (nvidia_nim_proxy/scheduler.py): in Env and Client     *)
(* mode the requests of one API key share a bounded FIFO lane, and the     *)
(* lanes of different keys are independent.                                *)
(*                                                                         *)
(* Lanes are created on demand and dropped when idle.  A thread in acquire *)
(* works on the lane object it looked up when it came in, release on the   *)
(* one the dictionary holds at that time, so lanes are objects with an     *)
(* identity here.  Critical sections, time and clock readings are modelled *)
(* as in KeyPool.                                                          *)
(***************************************************************************)
EXTENDS Integers, FiniteSets, Sequences, SequencesExt

CONSTANTS
    Callers,              \* request threads
    Nobody,               \* owner of a ticket whose call has ended
    Keys,                 \* API key fingerprints
    NoKey,                \* the key of a thread without a request
    Models,               \* model names
    MaxConcurrentPerKey,  \* max_concurrent_per_key
    MaxQueuePerKey,       \* max_queue_per_key
    MaxTotalQueued,       \* max_total_queued
    QueueWait,            \* queue_wait_seconds
    Poll,                 \* CANCEL_POLL_SECONDS
    Cancellable,          \* the caller passes a `cancelled' probe
    Unread,               \* threads whose clients leave bytes unread behind
    CoarseClock           \* two clock readings may return the same value

ASSUME SchedulerAssumption ==
    /\ IsFiniteSet(Callers) /\ Nobody \notin Callers
    /\ IsFiniteSet(Keys) /\ NoKey \notin Keys
    /\ {MaxConcurrentPerKey, MaxQueuePerKey, MaxTotalQueued, QueueWait, Poll}
           \subseteq Nat \ {0}
    /\ {Cancellable, CoarseClock} \subseteq BOOLEAN
    /\ Unread \subseteq Callers

\* Lane objects.  At most one per key is in the dictionary and at most one per
\* thread is in use besides.
Lanes == 1 .. Cardinality(Keys) + Cardinality(Callers)
NoLane == 0

NoStamp == <<>>

Raised == {"cancelled", "full", "timeout"}

VARIABLES
    lanes,     \* the dictionary: fingerprint to lane
    active,    \* active[l] of a lane object
    waiters,   \* waiters[l] of a lane object
    queued,    \* _queued
    pc,        \* where the thread is in acquire, or holding a lease
    key,       \* fingerprint of the thread's call or lease
    lane,      \* the local variable `lane' of the thread's call
    model,     \* model of the call in progress
    stamp,     \* started_at of the call in progress
    left,      \* what is left until its deadline
    timer,     \* what is left of its Condition.wait timeout
    notified,  \* sleeping threads that a notify_all has woken
    released,  \* the lease's _released flag
    gone,      \* clients that have disconnected
    reading    \* coarse clock: its value, once it has been read

laneVars == <<lanes, active, waiters, queued>>
callVars == <<lane, model, stamp, left, timer>>
vars == <<lanes, active, waiters, queued, pc, key, lane, model, stamp, left,
          timer, notified, released, gone, reading>>

Waiting == {r \in Callers : pc[r] = "waiting"}

Init ==
    /\ lanes = [f \in Keys |-> NoLane]
    /\ active = [l \in Lanes |-> 0]
    /\ waiters = [l \in Lanes |-> <<>>]
    /\ queued = 0
    /\ pc = [r \in Callers |-> "idle"]
    /\ key = [r \in Callers |-> NoKey]
    /\ lane = [r \in Callers |-> NoLane]
    /\ model = [r \in Callers |-> ""]
    /\ stamp = [r \in Callers |-> NoStamp]
    /\ left = [r \in Callers |-> 0]
    /\ timer = [r \in Callers |-> 0]
    /\ notified = {}
    /\ released = [r \in Callers |-> FALSE]
    /\ gone = {}
    /\ reading = NoStamp

-----------------------------------------------------------------------------
\* Tickets are equal by value, as in KeyPool; here they carry the model.

Ticket(r) == [owner |-> r, model |-> model[r], at |-> stamp[r]]

SameValue(t, u) == t.model = u.model /\ t.at = u.at

RemoveTicket(queue, t) == RemoveFirstMatch(queue, LAMBDA u : SameValue(u, t))

Abandon(queue, r) ==
    [i \in DOMAIN queue |->
        IF queue[i].owner = r THEN [queue[i] EXCEPT !.owner = Nobody] ELSE queue[i]]

\* Seeded fault: notify instead of notify_all.
NotifyOne(r) ==
    IF Waiting \ ({r} \cup notified) = {}
      THEN notified' = notified \ {r}
      ELSE \E s \in Waiting \ ({r} \cup notified) : notified' = (notified \ {r}) \cup {s}

NotifyAll(r) == notified' = Waiting \ {r}

\* A client that has closed its connection is not seen to be gone while bytes
\* of its own lie unread in it.
Probe(r) == Cancellable /\ r \in gone \ Unread

LiveStamps ==
    {stamp[q] : q \in Callers} \cup {reading}
        \cup UNION {{waiters[l][i].at : i \in DOMAIN waiters[l]} : l \in Lanes}

Names == 0 .. Cardinality(Callers) + MaxTotalQueued

NewReading(r, s) ==
    \E n \in Names :
        /\ s = <<r, n>>
        /\ s \notin LiveStamps
        /\ \A m \in 0 .. n - 1 : <<r, m>> \in LiveStamps

Reads(r, s) == NewReading(r, s) \/ (CoarseClock /\ reading # NoStamp /\ s = reading)

-----------------------------------------------------------------------------
\* acquire

\* started_at and the deadline are taken before the lock is.
BeginAcquire(r, f, m) ==
    /\ pc[r] = "idle"
    /\ pc' = [pc EXCEPT ![r] = "calling"]
    /\ key' = [key EXCEPT ![r] = f]
    /\ model' = [model EXCEPT ![r] = m]
    /\ \E s \in Callers \X Names :
           /\ Reads(r, s)
           /\ stamp' = [stamp EXCEPT ![r] = s]
           /\ reading' = IF CoarseClock THEN s ELSE NoStamp
    /\ left' = [left EXCEPT ![r] = QueueWait]
    /\ UNCHANGED <<laneVars, lane, timer, notified, released, gone>>

EndCall(r, outcome) ==
    /\ pc' = [pc EXCEPT ![r] = outcome]
    /\ lane' = [lane EXCEPT ![r] = NoLane]
    /\ model' = [model EXCEPT ![r] = ""]
    /\ stamp' = [stamp EXCEPT ![r] = NoStamp]
    /\ left' = [left EXCEPT ![r] = 0]
    /\ timer' = [timer EXCEPT ![r] = 0]

\* The call raises; its key is of no further use.
Raise(r, outcome) ==
    /\ EndCall(r, outcome)
    /\ key' = [key EXCEPT ![r] = NoKey]
    /\ UNCHANGED released

\* The call returns a lease of its key, from lane object l.
Grant(r, l) ==
    /\ active' = [active EXCEPT ![l] = @ + 1]
    /\ released' = [released EXCEPT ![r] = FALSE]
    /\ EndCall(r, "leased")
    /\ UNCHANGED key

\* An object that neither the dictionary nor a thread refers to.
Unreferenced(l) ==
    /\ \A f \in Keys : lanes[f] # l
    /\ \A r \in Callers : lane[r] # l

\* setdefault: the key's lane, or a new one.
LaneFor(f, l) ==
    IF lanes[f] # NoLane
      THEN l = lanes[f]
      ELSE Unreferenced(l) /\ \A k \in 1 .. l - 1 : ~Unreferenced(k)

\* Seeded fault: a lane is dropped under its waiters.
WithoutUnleasedLane(f, n, queue) == IF n = 0 THEN [lanes EXCEPT ![f] = NoLane] ELSE lanes

\* _remove_idle_lane of a lane object with n active leases and this queue.
WithoutIdleLane(f, n, queue) ==
    IF n = 0 /\ queue = <<>> THEN [lanes EXCEPT ![f] = NoLane] ELSE lanes

\* Seeded fault: the global count is not corrected.
LeaveUncounted(r, l, queue, total, outcome) ==
    LET remaining == Abandon(RemoveTicket(queue, Ticket(r)), r)
    IN /\ waiters' = [waiters EXCEPT ![l] = remaining]
       /\ queued' = total
       /\ lanes' = WithoutIdleLane(key[r], active[l], remaining)
       /\ NotifyAll(r)
       /\ Raise(r, outcome)
       /\ UNCHANGED active

\* _remove_waiter, when `total' tickets are queued, and the exception.
Leave(r, l, queue, total, outcome) ==
    LET remaining == Abandon(RemoveTicket(queue, Ticket(r)), r)
    IN /\ waiters' = [waiters EXCEPT ![l] = remaining]
       /\ queued' = total - 1
       /\ lanes' = WithoutIdleLane(key[r], active[l], remaining)
       /\ NotifyAll(r)
       /\ Raise(r, outcome)
       /\ UNCHANGED active

\* Seeded fault: one lease too many.
MayAdmitOnceMore(r, l, queue) ==
    /\ queue # <<>> /\ queue[1].owner = r
    /\ active[l] <= MaxConcurrentPerKey

\* The loop's `break' condition.
MayAdmit(r, l, queue) ==
    /\ queue # <<>> /\ queue[1].owner = r
    /\ active[l] < MaxConcurrentPerKey

LoopCancelled(r, l, queue, total) ==
    /\ Probe(r)
    /\ Leave(r, l, queue, total, "cancelled")

LoopTimeout(r, l, queue, total) ==
    /\ ~Probe(r)
    /\ left[r] = 0
    /\ Leave(r, l, queue, total, "timeout")

LoopGrant(r, l, queue, total) ==
    /\ ~Probe(r)
    /\ left[r] > 0
    /\ MayAdmit(r, l, queue)
    /\ waiters' = [waiters EXCEPT ![l] = Tail(queue)]
    /\ queued' = total - 1
    /\ NotifyAll(r)
    /\ Grant(r, l)
    /\ UNCHANGED lanes

\* Seeded fault: every wait gets the whole queue_wait_seconds again.
LoopSleepAnew(r, l, queue, total) ==
    /\ ~Probe(r)
    /\ left[r] > 0
    /\ ~MayAdmit(r, l, queue)
    /\ waiters' = [waiters EXCEPT ![l] = queue]
    /\ queued' = total
    /\ pc' = [pc EXCEPT ![r] = "waiting"]
    /\ lane' = [lane EXCEPT ![r] = l]
    /\ left' = [left EXCEPT ![r] = QueueWait]
    /\ timer' = [timer EXCEPT ![r] = IF Cancellable THEN Min({QueueWait, Poll}) ELSE QueueWait]
    /\ notified' = notified \ {r}
    /\ UNCHANGED <<lanes, active, key, model, stamp, released>>

LoopSleep(r, l, queue, total) ==
    /\ ~Probe(r)
    /\ left[r] > 0
    /\ ~MayAdmit(r, l, queue)
    /\ waiters' = [waiters EXCEPT ![l] = queue]
    /\ queued' = total
    /\ pc' = [pc EXCEPT ![r] = "waiting"]
    /\ lane' = [lane EXCEPT ![r] = l]
    /\ timer' = [timer EXCEPT ![r] = IF Cancellable THEN Min({left[r], Poll}) ELSE left[r]]
    /\ notified' = notified \ {r}
    /\ UNCHANGED <<lanes, active, key, model, stamp, left, released>>

\* One pass of the while loop, on lane object l with the queue and the total
\* count that include r's ticket.
WaitLoop(r, l, queue, total) ==
    \/ LoopCancelled(r, l, queue, total)
    \/ LoopTimeout(r, l, queue, total)
    \/ LoopGrant(r, l, queue, total)
    \/ LoopSleep(r, l, queue, total)

EnterCancelled(r) ==
    /\ Probe(r)
    /\ Raise(r, "cancelled")
    /\ UNCHANGED <<laneVars, notified>>

\* Seeded fault: a new call takes a free slot past the lane's queue.
EnterGrantPastQueue(r, l) ==
    /\ active[l] < MaxConcurrentPerKey
    /\ lanes' = [lanes EXCEPT ![key[r]] = l]
    /\ Grant(r, l)
    /\ UNCHANGED <<waiters, queued, notified>>

EnterGrant(r, l) ==
    /\ active[l] < MaxConcurrentPerKey
    /\ waiters[l] = <<>>
    /\ lanes' = [lanes EXCEPT ![key[r]] = l]
    /\ Grant(r, l)
    /\ UNCHANGED <<waiters, queued, notified>>

MustQueue(l) == active[l] >= MaxConcurrentPerKey \/ waiters[l] # <<>>

HasRoom(l) == Len(waiters[l]) < MaxQueuePerKey /\ queued < MaxTotalQueued

EnterFull(r, l) ==
    /\ MustQueue(l)
    /\ ~HasRoom(l)
    /\ Raise(r, "full")
    /\ UNCHANGED <<laneVars, notified>>

EnterQueue(r, l) ==
    /\ MustQueue(l)
    /\ HasRoom(l)
    /\ WaitLoop(r, l, Append(waiters[l], Ticket(r)), queued + 1)

\* The critical section of acquire, up to its end or its first wait.
Enter(r) ==
    /\ pc[r] = "calling"
    /\ \/ EnterCancelled(r)
       \/ /\ ~Probe(r)
          /\ \E l \in Lanes :
                 /\ LaneFor(key[r], l)
                 /\ EnterGrant(r, l) \/ EnterFull(r, l) \/ EnterQueue(r, l)
    /\ UNCHANGED <<gone, reading>>

\* Condition.wait returns, on a notification or a timeout, with the lock.
Resume(r) ==
    /\ pc[r] = "waiting"
    /\ r \in notified \/ timer[r] = 0
    /\ WaitLoop(r, lane[r], waiters[lane[r]], queued)
    /\ UNCHANGED <<gone, reading>>

-----------------------------------------------------------------------------
\* Leases

Unreleased(r) == ~released[r]

\* _release, but for the flag: the lane is looked up by fingerprint.
GiveBack(r) ==
    LET l == lanes[key[r]]
    IN IF Unreleased(r)
         THEN /\ l # NoLane /\ active[l] > 0
              /\ active' = [active EXCEPT ![l] = @ - 1]
              /\ lanes' = WithoutIdleLane(key[r], active[l] - 1, waiters[l])
              /\ NotifyAll(r)
         ELSE UNCHANGED <<active, lanes, notified>>

\* QueueLease.release
Release(r) ==
    /\ pc[r] = "leased"
    /\ GiveBack(r)
    /\ released' = [released EXCEPT ![r] = TRUE]
    /\ UNCHANGED <<waiters, queued, pc, key, callVars, gone, reading>>

\* The holder drops a lease that it has released.
Drop(r) ==
    /\ pc[r] = "leased"
    /\ released[r]
    /\ pc' = [pc EXCEPT ![r] = "idle"]
    /\ key' = [key EXCEPT ![r] = NoKey]
    /\ released' = [released EXCEPT ![r] = FALSE]
    /\ UNCHANGED <<laneVars, callVars, notified, gone, reading>>

-----------------------------------------------------------------------------
\* The callers' environment

\* The handler has dealt with the exception acquire raised.
Catch(r) ==
    /\ pc[r] \in Raised
    /\ pc' = [pc EXCEPT ![r] = "idle"]
    /\ UNCHANGED <<laneVars, key, callVars, notified, released, gone, reading>>

\* The client closes its connection.
Disconnect(r) ==
    /\ Cancellable
    /\ r \notin gone
    /\ gone' = gone \cup {r}
    /\ UNCHANGED <<laneVars, pc, key, callVars, notified, released, reading>>

\* Another connection takes the thread's place.
Reconnect(r) ==
    /\ pc[r] = "idle"
    /\ r \in gone
    /\ gone' = gone \ {r}
    /\ UNCHANGED <<laneVars, pc, key, callVars, notified, released, reading>>

Elapse(t) == IF t > 0 THEN t - 1 ELSE 0

Tick ==
    /\ left' = [r \in Callers |-> Elapse(left[r])]
    /\ timer' = [r \in Callers |-> Elapse(timer[r])]
    /\ reading' = NoStamp
    /\ UNCHANGED <<laneVars, pc, key, lane, model, stamp, notified, released, gone>>

Next ==
    \/ Tick
    \/ \E r \in Callers :
           \/ \E f \in Keys, m \in Models : BeginAcquire(r, f, m)
           \/ Enter(r)
           \/ Resume(r)
           \/ Release(r)
           \/ Drop(r)
           \/ Catch(r)
           \/ Disconnect(r)
           \/ Reconnect(r)

Spec == Init /\ [][Next]_vars

-----------------------------------------------------------------------------
\* Properties

Holders(f) == {r \in Callers : pc[r] = "leased" /\ key[r] = f /\ ~released[r]}

WaitingFor(f) == {r \in Waiting : key[r] = f}

\* The dictionary holds the lane of a key exactly while somebody uses the key;
\* it is the lane that all of them work on, and it counts the leases, which are
\* never more than max_concurrent_per_key, even if the lane is dropped and made
\* again in between.  So a release always finds its lane, no lane leaks, and
\* nobody waits on an object that no release will look at.
LanesInUse ==
    \A f \in Keys :
        /\ lanes[f] = NoLane <=> Holders(f) \cup WaitingFor(f) = {}
        /\ \A r \in WaitingFor(f) : lane[r] = lanes[f]
        /\ lanes[f] # NoLane => active[lanes[f]] = Cardinality(Holders(f))
        /\ Cardinality(Holders(f)) <= MaxConcurrentPerKey

\* The global count and the lanes' queues, which are kept apart, both agree with
\* the requests that wait, and neither passes its own bound.
QueuedMatches ==
    /\ queued = Cardinality(Waiting)
    /\ queued <= MaxTotalQueued
    /\ \A f \in Keys : lanes[f] # NoLane =>
           /\ Len(waiters[lanes[f]]) = Cardinality(WaitingFor(f))
           /\ Len(waiters[lanes[f]]) <= MaxQueuePerKey

\* The head of a lane does not sleep, without a pending notification, while
\* its key has a free slot, and nobody sleeps past the deadline.
NoLostWakeup ==
    \A r \in Waiting \ notified :
        /\ timer[r] <= left[r]
        /\ timer[r] > 0 => ~MayAdmit(r, lane[r], waiters[lane[r]])

LaneQueue(f) == IF lanes[f] = NoLane THEN <<>> ELSE waiters[lanes[f]]

\* Every lane is a bounded FIFO admission component of its own.
Fifo(f) == INSTANCE FifoAdmission WITH
    Requests <- Callers,
    Resources <- {f},
    Nothing <- NoKey,
    Capacity <- MaxConcurrentPerKey,
    Bound <- MaxQueuePerKey,
    queue <- [i \in DOMAIN LaneQueue(f) |-> LaneQueue(f)[i].owner],
    holding <- [r \in Callers |-> IF r \in Holders(f) THEN f ELSE NoKey]

\* The requests of one key are admitted first come first served, whatever
\* happens in the lanes of other keys.
ImplementsFifo ==
    /\ \A f \in Keys : Fifo(f)!Init
    /\ [][\A f \in Keys : [Fifo(f)!Next]_(Fifo(f)!vars)]_vars
=============================================================================
