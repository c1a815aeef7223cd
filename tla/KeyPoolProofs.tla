---------------------------- MODULE KeyPoolProofs ----------------------------
(***************************************************************************)
(* Proofs about KeyPool, for every set of callers, every number of keys    *)
(* and every value of the limits and timeouts: its types and leases, then  *)
(* its sleepers, its tickets and the order of admission.                   *)
(***************************************************************************)
EXTENDS KeyPool, QueueLemmas

-----------------------------------------------------------------------------
\* Tickets

\* Whichever ticket is taken out of a queue, a queue is left, and no longer one.
LEMMA RemoveTicketType ==
    ASSUME NEW S, NEW q \in Seq(S), NEW t
    PROVE  /\ RemoveTicket(q, t) \in Seq(S)
           /\ Len(RemoveTicket(q, t)) <= Len(q)
<1> DEFINE I == {i \in 1 .. Len(q) : SameValue(q[i], t)}
<1>1. Len(q) \in Nat
  OBVIOUS
<1>2. CASE I = {}
  <2>1. RemoveTicket(q, t) = q
    BY <1>2 DEF RemoveTicket, RemoveFirstMatch
  <2> QED
    BY <2>1, <1>1
<1>3. CASE I # {}
  <2>1. RemoveTicket(q, t) = RemoveAt(q, Min(I))
    BY <1>3 DEF RemoveTicket, RemoveFirstMatch, SelectInSeq
  <2>2. Min(I) \in I
    <3>1. I \in SUBSET Nat
      BY <1>1
    <3> HIDE DEF I
    <3> QED
      BY <1>3, <3>1, MinNat
  <2>3. Min(I) \in 1 .. Len(q)
    BY <2>2
  <2>4. /\ RemoveAt(q, Min(I)) \in Seq(S)
        /\ Len(RemoveAt(q, Min(I))) = Len(q) - 1
    <3> HIDE DEF I
    <3> QED
      BY <2>3, RemoveAtType
  <2> HIDE DEF I
  <2> QED
    BY <1>1, <2>1, <2>4
<1> QED
  BY <1>2, <1>3
-----------------------------------------------------------------------------
\* The inductive invariant

Tickets == [owner : Callers \cup {Nobody}, attempted : SUBSET Keys, at : Stamps]

\* A thread has a key exactly while it holds a lease, and only a lease can
\* have been released.
LeaseShape ==
    \A r \in Callers :
        /\ pc[r] = "leased" => held[r] \in Keys
        /\ pc[r] # "leased" => held[r] = NoKey /\ ~released[r]

\* Whoever may still append a ticket has read the clock.
CallsStamped ==
    \A r \in Callers : pc[r] \in {"calling", "waiting"} => stamp[r] \in Stamps

PoolInv == TypeOK /\ LeaseShape /\ CallsStamped /\ ActiveMatchesLeases

\* A ticket whose owner has left is still a ticket.
LEMMA AbandonType ==
    ASSUME NEW q \in Seq(Tickets), NEW r \in Callers
    PROVE  /\ Abandon(q, r) \in Seq(Tickets)
           /\ Len(Abandon(q, r)) = Len(q)
<1>1. /\ Len(q) \in Nat
      /\ DOMAIN q = 1 .. Len(q)
      /\ \A i \in 1 .. Len(q) : q[i] \in Tickets
  BY LenProperties, ElementOfSeq
<1>2. \A t \in Tickets : [t EXCEPT !.owner = Nobody] \in Tickets
  BY DEF Tickets
<1> QED
  BY <1>1, <1>2 DEF Abandon

\* A ticket of a call that has read the clock.
LEMMA TicketType ==
    ASSUME TypeOK, NEW r \in Callers, stamp[r] \in Stamps
    PROVE  Ticket(r) \in Tickets
  BY DEF TypeOK, Ticket, Tickets

\* -1 is no key.
LEMMA NoKeyIsNone == NoKey \notin Keys
  BY PoolAssumption DEF NoKey, Keys

\* What is left of an interval is never negative, and never more than it was.
LEMMA ElapseType ==
    ASSUME NEW t \in Nat
    PROVE  Elapse(t) \in Nat /\ Elapse(t) <= t
  BY DEF Elapse

\* A thread that goes to sleep sets a timeout that ends.
LEMMA SleepTimeType ==
    ASSUME TypeOK, NEW r \in Callers
    PROVE  SleepTime(r) \in Nat
<1> DEFINE remaining == IF WaitForever THEN Poll ELSE left[r]
           next == NextStateChangeDelay(attempted[r])
<1>1. remaining \in Nat
  BY PoolAssumption DEF TypeOK
<1>2. next \in Nat
  <2> DEFINE delays == {cool[k] : k \in CoolingCandidates(attempted[r])}
  <2>1. delays \in SUBSET Nat
    BY DEF TypeOK, CoolingCandidates
  <2>2. CASE CoolingCandidates(attempted[r]) = {}
    BY <2>2, PoolAssumption DEF NextStateChangeDelay
  <2>3. CASE CoolingCandidates(attempted[r]) # {}
    <3>1. next = Min(delays)
      BY <2>3 DEF NextStateChangeDelay
    <3>2. delays # {}
      BY <2>3
    <3> HIDE DEF delays
    <3> QED
      BY <2>1, <3>1, <3>2, MinNat
  <2> QED
    BY <2>2, <2>3
<1> HIDE DEF remaining, next
<1>3. Min({remaining, next}) \in Nat
  BY <1>1, <1>2, MinPairNat
<1>4. Min({Min({remaining, next}), Poll}) \in Nat
  <2> DEFINE delay == Min({remaining, next})
  <2>1. delay \in Nat /\ Poll \in Nat
    BY <1>3, PoolAssumption
  <2> HIDE DEF delay
  <2>2. Min({delay, Poll}) \in Nat
    BY <2>1, MinPairNat
  <2> QED
    BY <2>2 DEF delay
<1> QED
  BY <1>3, <1>4 DEF SleepTime, remaining, next

\* Whatever the Retry-After header says, the cooldown it asks for is a natural.
LEMMA CooldownSecondsType ==
    ASSUME NEW retryAfter \in [kind : {"absent", "garbled", "seconds"}, seconds : Int]
    PROVE  CooldownSeconds(retryAfter) \in Nat
<1> DEFINE field == retryAfter.seconds
           asked == IF retryAfter.kind = "seconds"
                      THEN Max({0, field})
                      ELSE DefaultCooldown
<1>1. field \in Int
  OBVIOUS
<1>2. Max({0, field}) \in Nat
  <2> HIDE DEF field
  <2> QED
    BY <1>1, MaxPairNat
<1>3. asked \in Nat /\ MaxCooldown \in Nat
  BY <1>2, PoolAssumption
<1>4. CooldownSeconds(retryAfter) = Min({MaxCooldown, asked})
  BY DEF CooldownSeconds
<1> HIDE DEF asked
<1>5. Min({MaxCooldown, asked}) \in Nat
  BY <1>3, MinPairNat
<1> QED
  BY <1>4, <1>5

\* A cooldown is never negative.
LEMMA CooldownAfterType ==
    ASSUME TypeOK, NEW k \in Keys, NEW status \in Nat,
           NEW retryAfter \in [kind : {"absent", "garbled", "seconds"}, seconds : Int]
    PROVE  CooldownAfter(k, status, retryAfter) \in Nat
<1> DEFINE c == cool[k]
           seconds == CooldownSeconds(retryAfter)
<1>1. c \in Nat /\ seconds \in Nat
  BY CooldownSecondsType DEF TypeOK
<1>2. Max({c, seconds}) \in Nat
  <2> HIDE DEF c, seconds
  <2> QED
    BY <1>1, MaxPairNat
<1> QED
  BY <1>1, <1>2 DEF CooldownAfter

-----------------------------------------------------------------------------
\* Preservation, outcome by outcome

\* The parts of the queue and the notifications are what a pool step makes of
\* them besides.
QueueTyped ==
    /\ waiters' \in Seq(Tickets)
    /\ Len(waiters') <= MaxTotalQueued
    /\ notified' \subseteq Callers
    /\ gone' = gone
    /\ reading' = reading

\* A call that ends with an exception leaves the leases alone.
LEMMA RaisePreserves ==
    ASSUME PoolInv, QueueTyped,
           NEW r \in Callers, pc[r] \in {"calling", "waiting"},
           NEW outcome \in Raised, Raise(r, outcome)
    PROVE  PoolInv'
<1> USE DEF PoolInv
<1>1. TypeOK'
  BY PoolAssumption DEF TypeOK, Raise, EndCall, QueueTyped, Tickets, Raised, keyVars, leaseVars
<1>2. LeaseShape'
  BY DEF TypeOK, LeaseShape, Raise, EndCall, Raised, leaseVars
<1>3. CallsStamped'
  BY DEF TypeOK, CallsStamped, Raise, EndCall, Raised
<1>4. ActiveMatchesLeases'
  BY DEF ActiveMatchesLeases, Holders, Raise, keyVars, leaseVars
<1> QED
  BY <1>1, <1>2, <1>3, <1>4

\* A grant adds one lease to one key.
LEMMA GrantPreserves ==
    ASSUME PoolInv, QueueTyped,
           NEW r \in Callers, pc[r] \in {"calling", "waiting"},
           NEW k \in Keys, Selectable(k, attempted[r]), Grant(r, k)
    PROVE  PoolInv'
<1> USE DEF PoolInv
<1>1. TypeOK'
  BY PoolAssumption DEF TypeOK, Selectable, Grant, EndCall, QueueTyped, Tickets
<1>2. LeaseShape'
  BY DEF TypeOK, LeaseShape, Grant, EndCall
<1>3. CallsStamped'
  BY DEF TypeOK, CallsStamped, Grant, EndCall
<1>4. ActiveMatchesLeases'
  <2>1. held[r] = NoKey
    BY DEF LeaseShape
  <2>2. Holders(k)' = Holders(k) \cup {r} /\ r \notin Holders(k)
    BY <2>1, NoKeyIsNone DEF TypeOK, Holders, Grant
  <2>3. \A j \in Keys \ {k} : Holders(j)' = Holders(j)
    BY <2>1, NoKeyIsNone DEF TypeOK, Holders, Grant
  <2>4. IsFiniteSet(Holders(k))
    BY PoolAssumption, FS_Subset DEF Holders
  <2>5. Cardinality(Holders(k)') = active[k] + 1
    BY <2>2, <2>4, FS_AddElement DEF ActiveMatchesLeases
  <2> QED
    BY <2>3, <2>5 DEF TypeOK, ActiveMatchesLeases, Grant
<1> QED
  BY <1>1, <1>2, <1>3, <1>4
\* A call that gives up takes one ticket out of the queue and leaves the
\* leases alone.
LEMMA LeavePreserves ==
    ASSUME PoolInv,
           NEW r \in Callers, pc[r] \in {"calling", "waiting"},
           NEW queue \in Seq(Tickets), Len(queue) <= MaxTotalQueued,
           NEW outcome \in Raised, Leave(r, queue, outcome),
           gone' = gone, reading' = reading
    PROVE  PoolInv'
<1> DEFINE rest == RemoveTicket(queue, Ticket(r))
<1>1. rest \in Seq(Tickets) /\ Len(rest) <= Len(queue)
  BY RemoveTicketType
<1>2. Abandon(rest, r) \in Seq(Tickets) /\ Len(Abandon(rest, r)) = Len(rest)
  <2> HIDE DEF rest
  <2> QED
    BY <1>1, AbandonType
<1>3. Len(waiters') <= MaxTotalQueued
  <2>1. waiters' = Abandon(rest, r)
    BY DEF Leave
  <2>2. Len(queue) \in Nat /\ Len(rest) \in Nat /\ MaxTotalQueued \in Nat
    BY <1>1, LenProperties, PoolAssumption
  <2> HIDE DEF rest
  <2> QED
    BY <1>1, <1>2, <2>1, <2>2
<1>4. QueueTyped
  BY <1>2, <1>3 DEF QueueTyped, Leave, NotifyAll, Waiting
<1>5. Raise(r, outcome)
  BY DEF Leave
<1> QED
  BY <1>4, <1>5, RaisePreserves

\* A thread that goes to sleep touches no lease.
LEMMA SleepPreserves ==
    ASSUME PoolInv,
           NEW r \in Callers, pc[r] \in {"calling", "waiting"},
           NEW queue \in Seq(Tickets), Len(queue) <= MaxTotalQueued,
           LoopSleep(r, queue), gone' = gone, reading' = reading
    PROVE  PoolInv'
<1> USE DEF PoolInv
<1>1. SleepTime(r) \in Nat
  BY SleepTimeType
<1>2. TypeOK'
  BY <1>1 DEF TypeOK, LoopSleep, Tickets, keyVars, leaseVars
<1>3. LeaseShape'
  BY DEF TypeOK, LeaseShape, LoopSleep, leaseVars
<1>4. CallsStamped'
  BY DEF TypeOK, CallsStamped, LoopSleep
<1>5. ActiveMatchesLeases'
  BY DEF ActiveMatchesLeases, Holders, LoopSleep, keyVars, leaseVars
<1> QED
  BY <1>2, <1>3, <1>4, <1>5

\* Every way out of a pass of acquire's loop preserves the invariant.
LEMMA WaitLoopPreserves ==
    ASSUME PoolInv,
           NEW r \in Callers, pc[r] \in {"calling", "waiting"},
           NEW queue \in Seq(Tickets), Len(queue) <= MaxTotalQueued,
           WaitLoop(r, queue), gone' = gone, reading' = reading
    PROVE  PoolInv'
<1>1. CASE LoopCancelled(r, queue)
  <2>1. Leave(r, queue, "cancelled") /\ "cancelled" \in Raised
    BY <1>1 DEF LoopCancelled, Raised
  <2> QED
    BY <2>1, LeavePreserves
<1>2. CASE LoopGrant(r, queue)
  <2>1. PICK k \in Keys : Selects(k, attempted[r]) /\ Grant(r, k)
    BY <1>2 DEF LoopGrant
  <2>2. Selectable(k, attempted[r])
    BY <2>1 DEF Selects
  <2>3. Tail(queue) \in Seq(Tickets) /\ Len(Tail(queue)) <= MaxTotalQueued
    <3>1. queue # <<>>
      BY <1>2 DEF LoopGrant, IsHead
    <3>2. /\ Tail(queue) \in Seq(Tickets)
          /\ Len(Tail(queue)) = Len(queue) - 1
      BY <3>1, HeadTailProperties
    <3> QED
      BY <3>2, LenProperties, PoolAssumption
  <2>4. QueueTyped
    BY <1>2, <2>3 DEF QueueTyped, LoopGrant, NotifyAll, Waiting
  <2> QED
    BY <2>1, <2>2, <2>4, GrantPreserves
<1>3. CASE LoopUnavailable(r, queue)
  <2>1. Leave(r, queue, "unavailable") /\ "unavailable" \in Raised
    BY <1>3 DEF LoopUnavailable, Raised
  <2> QED
    BY <2>1, LeavePreserves
<1>4. CASE LoopTimeout(r, queue)
  <2>1. Leave(r, queue, "timeout") /\ "timeout" \in Raised
    BY <1>4 DEF LoopTimeout, Raised
  <2> QED
    BY <2>1, LeavePreserves
<1>5. CASE LoopSleep(r, queue)
  BY <1>5, SleepPreserves
<1> QED
  BY <1>1, <1>2, <1>3, <1>4, <1>5 DEF WaitLoop

\* The critical section in which a call starts.
LEMMA EnterPreserves ==
    ASSUME PoolInv, NEW r \in Callers, Enter(r)
    PROVE  PoolInv'
<1>1. /\ pc[r] \in {"calling", "waiting"}
      /\ gone' = gone /\ reading' = reading
  BY DEF Enter
<1>2. ASSUME UNCHANGED <<waiters, notified>>
      PROVE  QueueTyped
  BY <1>1, <1>2 DEF QueueTyped, PoolInv, TypeOK, Tickets
<1>3. CASE EnterCancelled(r)
  BY <1>1, <1>2, <1>3, RaisePreserves DEF EnterCancelled, Raised
<1>4. CASE EnterGrant(r)
  <2>1. PICK k \in Keys : Selects(k, attempted[r]) /\ Grant(r, k)
    BY <1>4 DEF EnterGrant
  <2>2. Selectable(k, attempted[r])
    BY <2>1 DEF Selects
  <2>3. QueueTyped
    BY <1>2, <1>4 DEF EnterGrant
  <2> QED
    BY <1>1, <2>1, <2>2, <2>3, GrantPreserves
<1>5. CASE EnterUnavailable(r)
  BY <1>1, <1>2, <1>5, RaisePreserves DEF EnterUnavailable, Raised
<1>6. CASE EnterFull(r)
  BY <1>1, <1>2, <1>6, RaisePreserves DEF EnterFull, Raised
<1>7. CASE EnterQueue(r)
  <2> DEFINE queue == Append(waiters, Ticket(r))
  <2>1. waiters \in Seq(Tickets) /\ Ticket(r) \in Tickets
    BY <1>1, TicketType DEF PoolInv, TypeOK, Tickets, CallsStamped
  <2>2. queue \in Seq(Tickets) /\ Len(queue) = Len(waiters) + 1
    BY <2>1, AppendProperties
  <2>3. Len(queue) <= MaxTotalQueued
    BY <1>7, <2>1, <2>2, LenProperties, PoolAssumption DEF EnterQueue
  <2>4. WaitLoop(r, queue)
    BY <1>7 DEF EnterQueue
  <2> HIDE DEF queue
  <2> QED
    BY <1>1, <2>2, <2>3, <2>4, WaitLoopPreserves
<1> QED
  BY <1>3, <1>4, <1>5, <1>6, <1>7 DEF Enter

\* The critical section in which a call goes on after a wait.
LEMMA ResumePreserves ==
    ASSUME PoolInv, NEW r \in Callers, Resume(r)
    PROVE  PoolInv'
<1>1. waiters \in Seq(Tickets) /\ Len(waiters) <= MaxTotalQueued
  BY DEF PoolInv, TypeOK, Tickets
<1>2. /\ pc[r] \in {"calling", "waiting"}
      /\ WaitLoop(r, waiters)
      /\ gone' = gone /\ reading' = reading
  BY DEF Resume
<1> QED
  BY <1>1, <1>2, WaitLoopPreserves

\* A lease that is given back is taken off its key's counter, at most once.
LEMMA GiveBackPreserves ==
    ASSUME PoolInv, NEW r \in Callers, pc[r] = "leased",
           NEW status \in Nat,
           NEW retryAfter \in [kind : {"absent", "garbled", "seconds"}, seconds : Int],
           GiveBack(r, status, retryAfter),
           \A j \in Keys : Holders(j)' = Holders(j) \ {r}
    PROVE  /\ active' \in [Keys -> 0 .. MaxConcurrentPerKey]
           /\ cool' \in [Keys -> Nat]
           /\ quarantined' \subseteq Keys
           /\ notified' \subseteq Callers
           /\ ActiveMatchesLeases'
<1> USE DEF PoolInv
<1>1. PICK k \in Keys : k = held[r]
  BY DEF LeaseShape
<1>2. CASE released[r]
  <2>1. UNCHANGED <<active, quarantined, cool, notified>>
    BY <1>2 DEF GiveBack, Unreleased
  <2>2. \A j \in Keys : Holders(j)' = Holders(j)
    BY <1>2 DEF Holders
  <2> QED
    BY <2>1, <2>2 DEF TypeOK, ActiveMatchesLeases
<1>3. CASE ~released[r]
  <2>1. /\ active[k] > 0
        /\ active' = [active EXCEPT ![k] = @ - 1]
        /\ quarantined' = QuarantinedAfter(k, status)
        /\ cool' = [cool EXCEPT ![k] = CooldownAfter(k, status, retryAfter)]
        /\ NotifyAll(r)
    BY <1>1, <1>3 DEF GiveBack, Unreleased
  <2>2. CooldownAfter(k, status, retryAfter) \in Nat
    BY <1>1, CooldownAfterType
  <2>3. r \in Holders(k) /\ \A j \in Keys \ {k} : r \notin Holders(j)
    BY <1>1, <1>3 DEF Holders
  <2>4. Cardinality(Holders(k)') = active[k] - 1
    <3>1. IsFiniteSet(Holders(k))
      BY PoolAssumption, FS_Subset DEF Holders
    <3>2. Cardinality(Holders(k) \ {r}) = Cardinality(Holders(k)) - 1
      BY <2>3, <3>1, FS_RemoveElement
    <3> QED
      BY <1>1, <3>2 DEF ActiveMatchesLeases
  <2>5. \A j \in Keys \ {k} : Holders(j)' = Holders(j)
    BY <2>3
  <2>6. ActiveMatchesLeases'
    BY <1>1, <2>1, <2>4, <2>5 DEF TypeOK, ActiveMatchesLeases
  <2>7. active' \in [Keys -> 0 .. MaxConcurrentPerKey]
    BY <1>1, <2>1, PoolAssumption DEF TypeOK
  <2> QED
    BY <1>1, <2>1, <2>2, <2>6, <2>7 DEF TypeOK, QuarantinedAfter, NotifyAll, Waiting
<1> QED
  BY <1>2, <1>3

\* A lease that is released explicitly.
LEMMA ReleasePreserves ==
    ASSUME PoolInv, NEW r \in Callers,
           NEW status \in Nat,
           NEW retryAfter \in [kind : {"absent", "garbled", "seconds"}, seconds : Int],
           Release(r, status, retryAfter)
    PROVE  PoolInv'
<1> USE DEF PoolInv
<1>1. pc[r] = "leased" /\ GiveBack(r, status, retryAfter)
  BY DEF Release
<1>2. \A j \in Keys : Holders(j)' = Holders(j) \ {r}
  BY DEF TypeOK, Holders, Release
<1>3. /\ active' \in [Keys -> 0 .. MaxConcurrentPerKey]
      /\ cool' \in [Keys -> Nat]
      /\ quarantined' \subseteq Keys
      /\ notified' \subseteq Callers
      /\ ActiveMatchesLeases'
  BY <1>1, <1>2, GiveBackPreserves
<1>4. TypeOK'
  BY <1>3 DEF TypeOK, Release, callVars
<1>5. LeaseShape'
  BY DEF TypeOK, LeaseShape, Release
<1>6. CallsStamped'
  BY DEF CallsStamped, Release, callVars
<1> QED
  BY <1>3, <1>4, <1>5, <1>6

\* A lease that its holder's `finally' drops.
LEMMA FinishPreserves ==
    ASSUME PoolInv, NEW r \in Callers, Finish(r)
    PROVE  PoolInv'
<1> USE DEF PoolInv
<1>1. pc[r] = "leased" /\ GiveBack(r, NoStatus, NoRetryAfter)
  BY DEF Finish
<1>2. \A j \in Keys : Holders(j)' = Holders(j) \ {r}
  BY NoKeyIsNone DEF TypeOK, Holders, Finish
<1>3. /\ NoStatus \in Nat
      /\ NoRetryAfter \in [kind : {"absent", "garbled", "seconds"}, seconds : Int]
  BY DEF NoStatus, NoRetryAfter
<1>4. /\ active' \in [Keys -> 0 .. MaxConcurrentPerKey]
      /\ cool' \in [Keys -> Nat]
      /\ quarantined' \subseteq Keys
      /\ notified' \subseteq Callers
      /\ ActiveMatchesLeases'
  BY <1>1, <1>2, <1>3, GiveBackPreserves
<1>5. TypeOK'
  BY <1>4 DEF TypeOK, Finish, callVars
<1>6. LeaseShape'
  BY DEF TypeOK, LeaseShape, Finish
<1>7. CallsStamped'
  BY DEF TypeOK, CallsStamped, Finish, callVars
<1> QED
  BY <1>4, <1>5, <1>6, <1>7

\* A call that begins reads the clock and touches neither queue nor leases.
LEMMA BeginPreserves ==
    ASSUME PoolInv, NEW r \in Callers, NEW tried \in Attempts, BeginAcquire(r, tried)
    PROVE  PoolInv'
<1> USE DEF PoolInv
<1>1. PICK s \in Callers \X Names :
          /\ stamp' = [stamp EXCEPT ![r] = s]
          /\ reading' = IF CoarseClock THEN s ELSE NoStamp
  BY DEF BeginAcquire
<1>2. s \in Stamps
  <2>1. Cardinality(Callers) \in Nat /\ MaxTotalQueued \in Nat
    BY PoolAssumption, FS_CardinalityType
  <2> QED
    BY <2>1 DEF Names, Stamps
<1>3. tried \in SUBSET Keys
  BY PoolAssumption
<1>4. TypeOK'
  BY <1>1, <1>2, <1>3, PoolAssumption DEF TypeOK, BeginAcquire, keyVars, leaseVars
<1>5. LeaseShape'
  BY DEF TypeOK, LeaseShape, BeginAcquire, leaseVars
<1>6. CallsStamped'
  BY <1>1, <1>2 DEF TypeOK, CallsStamped, BeginAcquire
<1>7. ActiveMatchesLeases'
  BY DEF ActiveMatchesLeases, Holders, BeginAcquire, keyVars, leaseVars
<1> QED
  BY <1>4, <1>5, <1>6, <1>7

\* The passing of time changes no lease.
LEMMA TickPreserves ==
    ASSUME PoolInv, Tick
    PROVE  PoolInv'
<1> USE DEF PoolInv
<1>1. /\ cool' \in [Keys -> Nat]
      /\ timer' \in [Callers -> Nat]
  BY ElapseType DEF TypeOK, Tick
<1>2. left' \in [Callers -> 0 .. QueueWait]
  <2>1. \A r \in Callers : Elapse(left[r]) \in 0 .. QueueWait
    BY PoolAssumption DEF TypeOK, Elapse
  <2> QED
    BY <2>1 DEF Tick
<1>3. TypeOK'
  BY <1>1, <1>2 DEF TypeOK, Tick, leaseVars
<1>4. LeaseShape'
  BY DEF LeaseShape, Tick, leaseVars
<1>5. CallsStamped'
  BY DEF CallsStamped, Tick
<1>6. ActiveMatchesLeases'
  BY DEF ActiveMatchesLeases, Holders, Tick, leaseVars
<1> QED
  BY <1>3, <1>4, <1>5, <1>6

-----------------------------------------------------------------------------
\* The theorems

\* The pool starts with no lease and no ticket.
LEMMA PoolInvInit == Init => PoolInv
<1> SUFFICES ASSUME Init
             PROVE  PoolInv
  OBVIOUS
<1>1. TypeOK
  BY PoolAssumption, EmptySeq DEF Init, TypeOK, Raised
<1>2. LeaseShape /\ CallsStamped
  BY DEF Init, LeaseShape, CallsStamped
<1>3. ActiveMatchesLeases
  <2>1. \A k \in Keys : Holders(k) = {}
    BY NoKeyIsNone DEF Init, Holders
  <2> QED
    BY <2>1, FS_EmptySet DEF Init, ActiveMatchesLeases
<1> QED
  BY <1>1, <1>2, <1>3 DEF PoolInv

\* Every step of the pool, its callers and the clock preserves the invariant.
LEMMA PoolInvNext == PoolInv /\ [Next]_vars => PoolInv'
<1> SUFFICES ASSUME PoolInv, [Next]_vars
             PROVE  PoolInv'
  OBVIOUS
<1>1. CASE Tick
  BY <1>1, TickPreserves
<1>2. ASSUME NEW r \in Callers, NEW tried \in Attempts, BeginAcquire(r, tried)
      PROVE  PoolInv'
  BY <1>2, BeginPreserves
<1>3. ASSUME NEW r \in Callers, Enter(r)
      PROVE  PoolInv'
  BY <1>3, EnterPreserves
<1>4. ASSUME NEW r \in Callers, Resume(r)
      PROVE  PoolInv'
  BY <1>4, ResumePreserves
<1>5. ASSUME NEW r \in Callers, NEW status \in Statuses, NEW retryAfter \in RetryAfters,
             Release(r, status, retryAfter)
      PROVE  PoolInv'
  <2>1. /\ status \in Nat
        /\ retryAfter \in [kind : {"absent", "garbled", "seconds"}, seconds : Int]
    BY PoolAssumption
  <2> QED
    BY <1>5, <2>1, ReleasePreserves
<1>6. ASSUME NEW r \in Callers, Finish(r)
      PROVE  PoolInv'
  BY <1>6, FinishPreserves
<1>7. ASSUME NEW r \in Callers, Catch(r)
      PROVE  PoolInv'
  BY <1>7 DEF PoolInv, TypeOK, LeaseShape, CallsStamped, ActiveMatchesLeases, Holders,
              Catch, Raised, keyVars, callVars, leaseVars
<1>8. ASSUME NEW r \in Callers, Disconnect(r)
      PROVE  PoolInv'
  BY <1>8 DEF PoolInv, TypeOK, LeaseShape, CallsStamped, ActiveMatchesLeases, Holders,
              Disconnect, keyVars, callVars, leaseVars
<1>9. ASSUME NEW r \in Callers, Reconnect(r)
      PROVE  PoolInv'
  BY <1>9 DEF PoolInv, TypeOK, LeaseShape, CallsStamped, ActiveMatchesLeases, Holders,
              Reconnect, keyVars, callVars, leaseVars
<1>10. CASE UNCHANGED vars
  BY <1>10 DEF PoolInv, TypeOK, LeaseShape, CallsStamped, ActiveMatchesLeases, Holders, vars
<1> QED
  BY <1>1, <1>2, <1>3, <1>4, <1>5, <1>6, <1>7, <1>8, <1>9, <1>10 DEF Next

\* The inductive invariant holds in every reachable state.
THEOREM InductiveInvariant == Spec => []PoolInv
<1>1. Init => PoolInv
  BY PoolInvInit
<1>2. PoolInv /\ [Next]_vars => PoolInv'
  BY PoolInvNext
<1> QED
  BY <1>1, <1>2, PTL DEF Spec

\* Every variable keeps its type: no key ever has more leases out than
\* max_concurrent_per_key, and the deque never holds more than
\* max_total_queued tickets.
THEOREM TypeCorrect == Spec => []TypeOK
<1>1. PoolInv => TypeOK
  BY DEF PoolInv
<1> QED
  BY <1>1, InductiveInvariant, PTL

\* A key's counter is always the number of its unreleased leases: _release
\* never finds it at zero, and no lease is leaked or given back twice.
THEOREM LeasesCounted == Spec => []ActiveMatchesLeases
<1>1. PoolInv => ActiveMatchesLeases
  BY DEF PoolInv
<1> QED
  BY <1>1, InductiveInvariant, PTL

-----------------------------------------------------------------------------
\* The health of the keys

\* What an action may do to a key's health when it is not the clock's.
HealthKept == quarantined \subseteq quarantined' /\ \A k \in Keys : cool'[k] >= cool[k]

\* The result of a lease never shortens a cooldown.
LEMMA CooldownGrows ==
    ASSUME TypeOK, NEW k \in Keys, NEW status \in Nat,
           NEW retryAfter \in [kind : {"absent", "garbled", "seconds"}, seconds : Int]
    PROVE  CooldownAfter(k, status, retryAfter) >= cool[k]
<1> DEFINE c == cool[k]
           seconds == CooldownSeconds(retryAfter)
<1>1. c \in Int
  BY DEF TypeOK
<1>2. CASE StartsCooldown(status, retryAfter)
  <2>1. seconds \in Nat
    BY CooldownSecondsType
  <2>2. Max({c, seconds}) >= c
    <3> HIDE DEF c, seconds
    <3> QED
      BY <1>1, <2>1, MaxPair
  <2> QED
    BY <1>2, <2>2 DEF CooldownAfter
<1>3. CASE ~StartsCooldown(status, retryAfter)
  <2>1. CooldownAfter(k, status, retryAfter) = c
    BY <1>3 DEF CooldownAfter
  <2> QED
    BY <1>1, <2>1
<1> QED
  BY <1>2, <1>3

\* Whatever a lease is given back with, no key gets healthier.
LEMMA GiveBackWorsens ==
    ASSUME PoolInv, NEW r \in Callers, pc[r] = "leased",
           NEW status \in Nat,
           NEW retryAfter \in [kind : {"absent", "garbled", "seconds"}, seconds : Int],
           GiveBack(r, status, retryAfter)
    PROVE  HealthKept
<1>1. PICK k \in Keys : k = held[r]
  BY DEF PoolInv, LeaseShape
<1>2. cool \in [Keys -> Nat]
  BY DEF PoolInv, TypeOK
<1>3. CASE released[r]
  BY <1>2, <1>3 DEF GiveBack, Unreleased, HealthKept
<1>4. CASE ~released[r]
  <2>1. /\ quarantined' = QuarantinedAfter(k, status)
        /\ cool' = [cool EXCEPT ![k] = CooldownAfter(k, status, retryAfter)]
    BY <1>1, <1>4 DEF GiveBack, Unreleased
  <2>2. CooldownAfter(k, status, retryAfter) >= cool[k]
    BY CooldownGrows DEF PoolInv
  <2> QED
    BY <1>2, <2>1, <2>2 DEF HealthKept, QuarantinedAfter
<1> QED
  BY <1>3, <1>4

\* A pass of acquire's loop does not look at the results of leases.
LEMMA WaitLoopKeepsHealth ==
    ASSUME NEW r, NEW queue, WaitLoop(r, queue)
    PROVE  UNCHANGED <<cool, quarantined>>
<1>1. ASSUME NEW outcome, Leave(r, queue, outcome)
      PROVE  UNCHANGED <<cool, quarantined>>
  BY <1>1 DEF Leave, Raise, keyVars
<1> QED
  BY <1>1 DEF WaitLoop, LoopCancelled, LoopGrant, LoopUnavailable, LoopTimeout, LoopSleep,
              Grant, keyVars

\* Only the passing of time makes a key healthier.
Worsens ==
    /\ quarantined \subseteq quarantined'
    /\ \A k \in Keys : cool'[k] < cool[k] => Tick

LEMMA HealthNext == PoolInv /\ [Next]_vars => Worsens
<1> SUFFICES ASSUME PoolInv, [Next]_vars
             PROVE  Worsens
  OBVIOUS
<1>1. cool \in [Keys -> Nat]
  BY DEF PoolInv, TypeOK
<1>2. ASSUME UNCHANGED <<cool, quarantined>>
      PROVE  Worsens
  BY <1>1, <1>2 DEF Worsens
<1>3. ASSUME HealthKept, cool' \in [Keys -> Nat]
      PROVE  Worsens
  BY <1>1, <1>3 DEF HealthKept, Worsens
<1>4. cool' \in [Keys -> Nat]
  BY PoolInvNext DEF PoolInv, TypeOK
<1>5. CASE Tick
  BY <1>5 DEF Tick, Worsens
<1>6. ASSUME NEW r \in Callers, NEW tried \in Attempts, BeginAcquire(r, tried)
      PROVE  Worsens
  BY <1>2, <1>6 DEF BeginAcquire, keyVars
<1>7. ASSUME NEW r \in Callers, Enter(r)
      PROVE  Worsens
  <2>1. UNCHANGED <<cool, quarantined>>
    BY <1>7, WaitLoopKeepsHealth DEF Enter, EnterCancelled, EnterGrant, EnterUnavailable,
                                     EnterFull, EnterQueue, Raise, Grant, keyVars
  <2> QED
    BY <1>2, <2>1
<1>8. ASSUME NEW r \in Callers, Resume(r)
      PROVE  Worsens
  <2>1. UNCHANGED <<cool, quarantined>>
    BY <1>8, WaitLoopKeepsHealth DEF Resume
  <2> QED
    BY <1>2, <2>1
<1>9. ASSUME NEW r \in Callers, NEW status \in Statuses, NEW retryAfter \in RetryAfters,
             Release(r, status, retryAfter)
      PROVE  Worsens
  <2>1. /\ status \in Nat
        /\ retryAfter \in [kind : {"absent", "garbled", "seconds"}, seconds : Int]
    BY PoolAssumption
  <2>2. pc[r] = "leased" /\ GiveBack(r, status, retryAfter)
    BY <1>9 DEF Release
  <2> QED
    BY <1>3, <1>4, <2>1, <2>2, GiveBackWorsens
<1>10. ASSUME NEW r \in Callers, Finish(r)
       PROVE  Worsens
  <2>1. /\ NoStatus \in Nat
        /\ NoRetryAfter \in [kind : {"absent", "garbled", "seconds"}, seconds : Int]
    BY DEF NoStatus, NoRetryAfter
  <2>2. pc[r] = "leased" /\ GiveBack(r, NoStatus, NoRetryAfter)
    BY <1>10 DEF Finish
  <2> QED
    BY <1>3, <1>4, <2>1, <2>2, GiveBackWorsens
<1>11. ASSUME NEW r \in Callers, Catch(r) \/ Disconnect(r) \/ Reconnect(r)
       PROVE  Worsens
  BY <1>2, <1>11 DEF Catch, Disconnect, Reconnect, keyVars
<1>12. CASE UNCHANGED vars
  BY <1>2, <1>12 DEF vars
<1> QED
  BY <1>5, <1>6, <1>7, <1>8, <1>9, <1>10, <1>11, <1>12 DEF Next

\* However the leases of several requests on one key end, and in whatever
\* order, nothing but the passing of time shortens a cooldown and nothing
\* lifts a quarantine.
THEOREM HealthOnlyWorsens == Spec => KeyHealthOnlyWorsens
<1>1. PoolInv /\ [Next]_vars => [Worsens]_vars
  BY HealthNext
<1> QED
  BY <1>1, InductiveInvariant, PTL DEF Spec, KeyHealthOnlyWorsens, Worsens
-----------------------------------------------------------------------------
\* Sleepers

\* Whoever sleeps without a pending notification has no reason to be awake and
\* will wake up in time.
WakeInv == NoLostWakeup /\ NoOversleep

\* A timeout of Condition.wait ends no later than the call's deadline and the
\* cooldown of any key that the call could use.
LEMMA SleepTimeBound ==
    ASSUME TypeOK, NEW r \in Callers
    PROVE  /\ ~WaitForever => SleepTime(r) <= left[r]
           /\ \A k \in CoolingCandidates(attempted[r]) : SleepTime(r) <= cool[k]
<1> DEFINE remaining == IF WaitForever THEN Poll ELSE left[r]
           next == NextStateChangeDelay(attempted[r])
           delay == Min({remaining, next})
<1>1. remaining \in Nat
  BY PoolAssumption DEF TypeOK
<1>2. next \in Nat /\ \A k \in CoolingCandidates(attempted[r]) : next <= cool[k]
  <2> DEFINE delays == {cool[k] : k \in CoolingCandidates(attempted[r])}
  <2>1. delays \in SUBSET Nat
    BY DEF TypeOK, CoolingCandidates
  <2>2. CASE CoolingCandidates(attempted[r]) = {}
    BY <2>2, PoolAssumption DEF NextStateChangeDelay
  <2>3. CASE CoolingCandidates(attempted[r]) # {}
    <3>1. next = Min(delays)
      BY <2>3 DEF NextStateChangeDelay
    <3>2. delays # {}
      BY <2>3
    <3>3. Min(delays) \in delays /\ \A d \in delays : Min(delays) <= d
      <4> HIDE DEF delays
      <4> QED
        BY <2>1, <3>2, MinNat
    <3> QED
      BY <2>1, <3>1, <3>3
  <2> QED
    BY <2>2, <2>3
<1>3. delay \in Nat /\ delay <= remaining /\ delay <= next
  <2> HIDE DEF remaining, next
  <2> QED
    BY <1>1, <1>2, MinPair, MinPairNat
<1>4. Min({delay, Poll}) \in Nat /\ Min({delay, Poll}) <= delay
  <2>1. Poll \in Nat
    BY PoolAssumption
  <2> HIDE DEF delay
  <2> QED
    BY <1>3, <2>1, MinPair, MinPairNat
<1>5. SleepTime(r) = IF Cancellable THEN Min({delay, Poll}) ELSE delay
  BY DEF SleepTime
<1>6. SleepTime(r) \in Nat /\ SleepTime(r) <= remaining /\ SleepTime(r) <= next
  <2> HIDE DEF delay, remaining, next
  <2>1. remaining \in Nat /\ next \in Nat
    BY <1>1, <1>2
  <2> QED
    BY <1>3, <1>4, <1>5, <2>1
<1>7. ~WaitForever => SleepTime(r) <= left[r]
  BY <1>6
<1>8. ASSUME NEW k \in CoolingCandidates(attempted[r])
      PROVE  SleepTime(r) <= cool[k]
  <2>1. cool[k] \in Nat
    BY DEF TypeOK, CoolingCandidates
  <2> HIDE DEF next
  <2> QED
    BY <1>2, <1>6, <2>1
<1> QED
  BY <1>7, <1>8

\* Where every thread that goes on waiting has been notified there is nobody
\* to be forgotten.
LEMMA AllAwake ==
    ASSUME Waiting' \ notified' = {}
    PROVE  WakeInv'
  BY DEF WakeInv, NoLostWakeup, NoOversleep

\* A call that leaves the queue wakes everybody.
LEMMA LeaveWakes ==
    ASSUME TypeOK, NEW r \in Callers, NEW queue, NEW outcome \in Raised,
           Leave(r, queue, outcome)
    PROVE  WakeInv'
<1>1. Waiting' = Waiting \ {r}
  BY DEF TypeOK, Leave, Raise, EndCall, Waiting, Raised
<1> QED
  BY <1>1, AllAwake DEF Leave, NotifyAll

\* A call that gets a key from the head of the queue wakes everybody.
LEMMA GrantWakes ==
    ASSUME TypeOK, NEW r \in Callers, NEW queue, LoopGrant(r, queue)
    PROVE  WakeInv'
<1>1. Waiting' = Waiting \ {r}
  BY DEF TypeOK, LoopGrant, Grant, EndCall, Waiting
<1> QED
  BY <1>1, AllAwake DEF LoopGrant, NotifyAll

\* A thread goes to sleep for no longer than it should, and changes nothing for
\* those asleep.
LEMMA SleepWakes ==
    ASSUME TypeOK, WakeInv, NEW r \in Callers,
           NEW queue, \A s \in Waiting \ {r} : IsHead(s, queue) => IsHead(s, waiters),
           LoopSleep(r, queue)
    PROVE  WakeInv'
<1>1. \A s \in Waiting' \ notified' : s = r \/ s \in Waiting \ notified
  BY DEF TypeOK, LoopSleep, Waiting
<1>2. /\ \A s \in Callers \ {r} : timer'[s] = timer[s]
      /\ timer'[r] = SleepTime(r)
      /\ waiters' = queue
      /\ UNCHANGED <<cool, active, quarantined, attempted, left>>
  BY DEF TypeOK, LoopSleep, keyVars
<1>3. /\ \A tried : NoneSelectable(tried)' <=> NoneSelectable(tried)
      /\ \A tried : NoFutureCandidate(tried)' <=> NoFutureCandidate(tried)
      /\ \A tried : CoolingCandidates(tried)' = CoolingCandidates(tried)
  BY <1>2 DEF NoneSelectable, Selectable, NoFutureCandidate, CoolingCandidates
<1>4. \A s : HeadMayLeave(s, waiters)' <=> HeadMayLeave(s, queue)
  BY <1>2, <1>3 DEF HeadMayLeave, IsHead
<1>5. NoLostWakeup'
  <2> SUFFICES ASSUME NEW s \in Waiting' \ notified', timer'[s] > 0
               PROVE  ~HeadMayLeave(s, queue)
    BY <1>4 DEF NoLostWakeup
  <2>1. CASE s = r
    BY <2>1 DEF LoopSleep
  <2>2. CASE s # r
    <3>1. s \in Waiting \ notified /\ timer[s] > 0
      BY <1>1, <1>2, <2>2 DEF Waiting
    <3> QED
      BY <2>2, <3>1 DEF WakeInv, NoLostWakeup, HeadMayLeave
  <2> QED
    BY <2>1, <2>2
<1>6. NoOversleep'
  <2> SUFFICES ASSUME NEW s \in Waiting' \ notified'
               PROVE  /\ ~WaitForever => timer'[s] <= left[s]
                      /\ IsHead(s, queue) =>
                             \A k \in CoolingCandidates(attempted[s]) : timer'[s] <= cool[k]
    BY <1>2, <1>3 DEF NoOversleep, IsHead
  <2>1. CASE s = r
    BY <1>2, <2>1, SleepTimeBound
  <2>2. CASE s # r
    <3>1. s \in Waiting \ notified
      BY <1>1, <2>2
    <3> QED
      BY <1>2, <2>2, <3>1 DEF WakeInv, NoOversleep, Waiting
  <2> QED
    BY <2>1, <2>2
<1> QED
  BY <1>5, <1>6 DEF WakeInv

\* Every way out of a pass of acquire's loop keeps the sleepers informed.
LEMMA WaitLoopWakes ==
    ASSUME TypeOK, WakeInv, NEW r \in Callers,
           NEW queue, \A s \in Waiting \ {r} : IsHead(s, queue) => IsHead(s, waiters),
           WaitLoop(r, queue)
    PROVE  WakeInv'
<1>1. CASE LoopSleep(r, queue)
  BY <1>1, SleepWakes
<1>2. CASE LoopGrant(r, queue)
  BY <1>2, GrantWakes
<1>3. ASSUME NEW outcome \in Raised, Leave(r, queue, outcome)
      PROVE  WakeInv'
  BY <1>3, LeaveWakes
<1> QED
  BY <1>1, <1>2, <1>3 DEF WaitLoop, LoopCancelled, LoopUnavailable, LoopTimeout, Raised

\* A step that does not concern the queue, nor make a key usable, leaves the
\* sleepers as they are.
LEMMA QuietWakes ==
    ASSUME TypeOK, WakeInv,
           Waiting' = Waiting, UNCHANGED <<waiters, notified, cool, quarantined>>,
           \A s \in Waiting : UNCHANGED <<timer[s], left[s], attempted[s]>>,
           \A s \in Waiting, k \in Keys :
               IsHead(s, waiters) /\ Selectable(k, attempted[s])'
                   => Selectable(k, attempted[s])
    PROVE  WakeInv'
<1>1. \A s \in Waiting : HeadMayLeave(s, waiters)' => HeadMayLeave(s, waiters)
  BY DEF HeadMayLeave, IsHead, NoneSelectable, NoFutureCandidate
<1> QED
  BY <1>1 DEF WakeInv, NoLostWakeup, NoOversleep, IsHead, CoolingCandidates

\* A lease that is given back wakes everybody, unless it had been before.
LEMMA GiveBackWakes ==
    ASSUME TypeOK, WakeInv, NEW r \in Callers, pc[r] = "leased",
           NEW status, NEW retryAfter, GiveBack(r, status, retryAfter),
           Waiting' = Waiting, UNCHANGED <<waiters, attempted, left, timer>>
    PROVE  WakeInv'
<1>1. CASE released[r]
  <2>1. UNCHANGED <<active, quarantined, cool, notified>>
    BY <1>1 DEF GiveBack, Unreleased
  <2> QED
    BY <2>1, QuietWakes DEF Selectable
<1>2. CASE ~released[r]
  <2>1. Waiting' \ notified' = {}
    BY <1>2 DEF GiveBack, Unreleased, NotifyAll, Waiting
  <2> QED
    BY <2>1, AllAwake
<1> QED
  BY <1>1, <1>2

\* Nobody waits in a queue that is empty, so nobody is forgotten when a call
\* enters and leaves it without having queued.
LEMMA EnterWakes ==
    ASSUME TypeOK, WakeInv, NEW r \in Callers, Enter(r)
    PROVE  WakeInv'
<1>1. pc[r] = "calling"
  BY DEF Enter
<1>2. ASSUME NEW outcome \in Raised, Raise(r, outcome), UNCHANGED <<waiters, notified>>
      PROVE  WakeInv'
  <2>1. Waiting' = Waiting /\ r \notin Waiting
    BY <1>1, <1>2 DEF TypeOK, Raise, EndCall, Waiting, Raised
  <2>2. /\ UNCHANGED <<cool, quarantined, active>>
        /\ \A s \in Waiting : UNCHANGED <<timer[s], left[s], attempted[s]>>
    BY <1>2, <2>1 DEF TypeOK, Raise, EndCall, keyVars, Waiting
  <2> QED
    BY <1>2, <2>1, <2>2, QuietWakes DEF Selectable, Waiting
<1>3. CASE EnterCancelled(r)
  BY <1>2, <1>3 DEF EnterCancelled, Raised
<1>4. CASE EnterGrant(r)
  <2>1. PICK k \in Keys : Grant(r, k)
    BY <1>4 DEF EnterGrant
  <2>2. Waiting' = Waiting /\ r \notin Waiting
    BY <1>1, <2>1 DEF TypeOK, Grant, EndCall, Waiting
  <2>3. /\ UNCHANGED <<cool, quarantined, waiters, notified>>
        /\ \A s \in Waiting : UNCHANGED <<timer[s], left[s], attempted[s]>>
    BY <1>4, <2>1, <2>2 DEF TypeOK, EnterGrant, Grant, EndCall, Waiting
  <2>4. \A s : ~IsHead(s, waiters)
    BY <1>4 DEF EnterGrant, IsHead
  <2> QED
    BY <2>2, <2>3, <2>4, QuietWakes
<1>5. CASE EnterUnavailable(r)
  BY <1>2, <1>5 DEF EnterUnavailable, Raised
<1>6. CASE EnterFull(r)
  BY <1>2, <1>6 DEF EnterFull, Raised
<1>7. CASE EnterQueue(r)
  <2> DEFINE queue == Append(waiters, Ticket(r))
  <2>1. \A s \in Waiting \ {r} : IsHead(s, queue) => IsHead(s, waiters)
    <3>1. waiters \in Seq([owner : Callers \cup {Nobody}, attempted : SUBSET Keys, at : Stamps])
      BY DEF TypeOK
    <3>2. CASE waiters = <<>>
      <4>1. queue[1] = Ticket(r)
        BY <3>2
      <4> QED
        BY <4>1 DEF IsHead, Ticket
    <3>3. CASE waiters # <<>>
      <4>1. queue[1] = waiters[1]
        BY <3>1, <3>3
      <4> QED
        BY <3>3, <4>1 DEF IsHead
    <3> QED
      BY <3>2, <3>3
  <2>2. WaitLoop(r, queue)
    BY <1>7 DEF EnterQueue
  <2> QED
    BY <2>1, <2>2, WaitLoopWakes
<1> QED
  BY <1>3, <1>4, <1>5, <1>6, <1>7 DEF Enter

\* A key whose cooldown ends with this unit of time ends the sleep of the head
\* of the queue too.
LEMMA TickWakes ==
    ASSUME TypeOK, WakeInv, Tick
    PROVE  WakeInv'
<1>1. /\ UNCHANGED <<active, quarantined, waiters, attempted, notified>>
      /\ Waiting' = Waiting
      /\ \A r \in Callers : timer'[r] = Elapse(timer[r]) /\ left'[r] = Elapse(left[r])
      /\ \A k \in Keys : cool'[k] = Elapse(cool[k])
  BY DEF Tick, Waiting
<1>2. /\ \A r \in Callers : timer[r] \in Nat /\ left[r] \in Nat
      /\ \A k \in Keys : cool[k] \in Nat
  BY PoolAssumption DEF TypeOK
<1>3. \A a, b \in Nat : a <= b => Elapse(a) <= Elapse(b)
  BY DEF Elapse
<1>4. NoOversleep'
  BY <1>1, <1>2, <1>3 DEF WakeInv, NoOversleep, IsHead, CoolingCandidates, Waiting, Elapse
<1>5. NoLostWakeup'
  <2> SUFFICES ASSUME NEW r \in Waiting \ notified, timer'[r] > 0, IsHead(r, waiters)
               PROVE  NoneSelectable(attempted[r])' /\ ~NoFutureCandidate(attempted[r])'
    BY <1>1 DEF NoLostWakeup, HeadMayLeave, IsHead
  <2>1. r \in Callers /\ timer[r] > 1
    BY <1>1, <1>2 DEF Waiting, Elapse
  <2>2. NoneSelectable(attempted[r]) /\ ~NoFutureCandidate(attempted[r])
    BY <1>2, <2>1 DEF WakeInv, NoLostWakeup, HeadMayLeave
  <2>3. \A k \in CoolingCandidates(attempted[r]) : cool[k] > 1
    BY <1>2, <2>1 DEF WakeInv, NoOversleep, CoolingCandidates
  <2>4. NoneSelectable(attempted[r])'
    <3> SUFFICES ASSUME NEW k \in Keys, Selectable(k, attempted[r])'
                 PROVE  FALSE
      BY DEF NoneSelectable
    <3>1. /\ k \notin attempted[r] /\ k \notin quarantined
          /\ Elapse(cool[k]) = 0
          /\ active[k] < MaxConcurrentPerKey
      BY <1>1 DEF Selectable
    <3>2. cool[k] # 0
      BY <2>2, <3>1 DEF NoneSelectable, Selectable
    <3>3. k \in CoolingCandidates(attempted[r])
      BY <1>2, <3>1, <3>2 DEF CoolingCandidates
    <3> QED
      BY <1>2, <2>3, <3>1, <3>3 DEF Elapse
  <2> QED
    BY <1>1, <2>2, <2>4 DEF NoFutureCandidate
<1> QED
  BY <1>4, <1>5 DEF WakeInv

\* Every step of the pool, its callers and the clock keeps the sleepers right.
LEMMA WakeInvNext == TypeOK /\ WakeInv /\ [Next]_vars => WakeInv'
<1> SUFFICES ASSUME TypeOK, WakeInv, [Next]_vars
             PROVE  WakeInv'
  OBVIOUS
<1>1. CASE Tick
  BY <1>1, TickWakes
<1>2. ASSUME NEW r \in Callers, NEW tried \in Attempts, BeginAcquire(r, tried)
      PROVE  WakeInv'
  <2>1. Waiting' = Waiting /\ r \notin Waiting
    BY <1>2 DEF TypeOK, BeginAcquire, Waiting
  <2>2. /\ UNCHANGED <<cool, quarantined, active, waiters, notified>>
        /\ \A s \in Waiting : UNCHANGED <<timer[s], left[s], attempted[s]>>
    BY <1>2, <2>1 DEF TypeOK, BeginAcquire, keyVars, Waiting
  <2> QED
    BY <2>1, <2>2, QuietWakes DEF Selectable, Waiting
<1>3. ASSUME NEW r \in Callers, Enter(r)
      PROVE  WakeInv'
  BY <1>3, EnterWakes
<1>4. ASSUME NEW r \in Callers, Resume(r)
      PROVE  WakeInv'
  BY <1>4, WaitLoopWakes DEF Resume
<1>5. ASSUME NEW r \in Callers, NEW status, NEW retryAfter, GiveBack(r, status, retryAfter),
             Release(r, status, retryAfter) \/ Finish(r)
      PROVE  WakeInv'
  <2>1. Waiting' = Waiting /\ pc[r] = "leased"
    BY <1>5 DEF TypeOK, Release, Finish, Waiting
  <2>2. UNCHANGED <<waiters, attempted, left, timer>>
    BY <1>5 DEF Release, Finish, callVars
  <2> QED
    BY <1>5, <2>1, <2>2, GiveBackWakes
<1>6. ASSUME NEW r \in Callers, Catch(r) \/ Disconnect(r) \/ Reconnect(r)
      PROVE  WakeInv'
  <2>1. Waiting' = Waiting
    BY <1>6 DEF TypeOK, Catch, Disconnect, Reconnect, Waiting, Raised
  <2>2. UNCHANGED <<cool, quarantined, active, waiters, notified, timer, left, attempted>>
    BY <1>6 DEF Catch, Disconnect, Reconnect, keyVars, callVars
  <2> QED
    BY <2>1, <2>2, QuietWakes DEF Selectable
<1>7. CASE UNCHANGED vars
  <2>1. /\ Waiting' = Waiting
        /\ UNCHANGED <<cool, quarantined, active, waiters, notified, timer, left, attempted>>
    BY <1>7 DEF vars, Waiting
  <2> QED
    BY <2>1, QuietWakes DEF Selectable
<1> QED
  BY <1>1, <1>2, <1>3, <1>4, <1>5, <1>6, <1>7 DEF Next, Release, Finish

\* Whoever sleeps without a pending notification sleeps rightly.
LEMMA Wakefulness == Spec => []WakeInv
<1>1. Init => WakeInv
  BY DEF Init, WakeInv, NoLostWakeup, NoOversleep, Waiting
<1> QED
  BY <1>1, WakeInvNext, TypeCorrect, PTL DEF Spec

\* A thread that sleeps at the head of the queue without a pending
\* notification has nothing to take and no reason to give up: no release,
\* cooldown or departure goes unsignalled, however the threads interleave and
\* even if two clock readings are equal.
THEOREM HeadNeverForgotten == Spec => []NoLostWakeup
<1>1. WakeInv => NoLostWakeup
  BY DEF WakeInv
<1> QED
  BY <1>1, Wakefulness, PTL

\* No thread sleeps past its deadline, nor the head of the queue past the end
\* of a cooldown that could give it a key.
THEOREM SleepsEndInTime == Spec => []NoOversleep
<1>1. WakeInv => NoOversleep
  BY DEF WakeInv
<1> QED
  BY <1>1, Wakefulness, PTL

-----------------------------------------------------------------------------
\* Tickets

\* What deque.remove compares.
Value(t) == <<t.attempted, t.at>>
Values(queue) == [i \in DOMAIN queue |-> Value(queue[i])]
TicketValues(S) == [s \in S |-> Value(Ticket(s))]

\* The deque holds, by value, exactly the tickets of the threads in S; a ticket
\* whose call still goes on is the ticket of that call, and no call has two.
\* With a clock that never repeats a reading every ticket's call goes on.
OwnersMatch(queue, S) ==
    /\ \A i \in DOMAIN queue :
           queue[i].owner # Nobody =>
               queue[i].owner \in S /\ queue[i] = Ticket(queue[i].owner)
    /\ \A i, j \in DOMAIN queue :
           queue[i].owner # Nobody /\ queue[i].owner = queue[j].owner => i = j

NoOrphans(queue) == \A i \in DOMAIN queue : queue[i].owner # Nobody

QueueHolds(queue, S) ==
    /\ Matching(Values(queue), TicketValues(S))
    /\ OwnersMatch(queue, S)
    /\ ~CoarseClock => NoOrphans(queue)

\* A clock that never repeats a reading tells the calls apart.
StampsDistinct == ~CoarseClock => \A q, r \in InCall : stamp[q] = stamp[r] => q = r

QueueInv == QueueHolds(waiters, Waiting) /\ StampsDistinct

\* The values of a queue make a sequence as long as the queue.
LEMMA ValuesType ==
    ASSUME NEW queue \in Seq(Tickets)
    PROVE  /\ Values(queue) \in Seq((SUBSET Keys) \X Stamps)
           /\ Len(Values(queue)) = Len(queue)
           /\ \A i \in 1 .. Len(queue) : Values(queue)[i] = Value(queue[i])
<1>1. Len(queue) \in Nat /\ DOMAIN queue = 1 .. Len(queue)
  BY LenProperties
<1>2. \A i \in 1 .. Len(queue) : Value(queue[i]) \in (SUBSET Keys) \X Stamps
  <2>1. \A i \in 1 .. Len(queue) : queue[i] \in Tickets
    BY ElementOfSeq
  <2>2. \A t \in Tickets : t.attempted \in SUBSET Keys /\ t.at \in Stamps
    BY DEF Tickets
  <2> HIDE DEF Tickets
  <2> QED
    BY <2>1, <2>2 DEF Value
<1> QED
  BY <1>1, <1>2 DEF Values

\* Two tickets are == when their values are equal.
LEMMA SameValueValue ==
    ASSUME NEW t, NEW u
    PROVE  SameValue(t, u) <=> Value(t) = Value(u)
  BY DEF SameValue, Value

\* deque.remove takes out a ticket that is == to the one it is given.
LEMMA RemoveTicketAt ==
    ASSUME NEW S, NEW queue \in Seq(S), NEW t,
           NEW j \in 1 .. Len(queue), SameValue(queue[j], t)
    PROVE  \E m \in 1 .. Len(queue) :
               /\ SameValue(queue[m], t)
               /\ RemoveTicket(queue, t) = RemoveAt(queue, m)
<1> DEFINE I == {i \in 1 .. Len(queue) : SameValue(queue[i], t)}
<1>1. I \in SUBSET Nat /\ j \in I
  OBVIOUS
<1>2. RemoveTicket(queue, t) = RemoveAt(queue, Min(I))
  BY <1>1 DEF RemoveTicket, RemoveFirstMatch, SelectInSeq
<1>3. Min(I) \in I
  <2> HIDE DEF I
  <2> QED
    BY <1>1, MinNat
<1> QED
  BY <1>2, <1>3

\* When any ticket with the value of r's has been taken out, the queue holds the
\* tickets of the other threads, whosever ticket it was.
LEMMA QueueWithout ==
    ASSUME NEW queue \in Seq(Tickets), NEW S \in SUBSET Callers, QueueHolds(queue, S),
           S \subseteq InCall, StampsDistinct,
           NEW r \in S, NEW m \in 1 .. Len(queue), Value(queue[m]) = Value(Ticket(r))
    PROVE  QueueHolds(Abandon(RemoveAt(queue, m), r), S \ {r})
<1> DEFINE short == RemoveAt(queue, m)
           rest == Abandon(short, r)
<1>1. DOMAIN queue = 1 .. Len(queue) /\ Len(queue) \in Nat
  BY LenProperties
<1>2. /\ short \in Seq(Tickets)
      /\ Len(short) = Len(queue) - 1
      /\ DOMAIN short = 1 .. Len(queue) - 1
  BY RemoveAtOrigin
<1>3. \A i \in DOMAIN short :
          /\ Origin(m, i) \in DOMAIN queue /\ Origin(m, i) # m
          /\ short[i] = queue[Origin(m, i)]
  <2>1. \A i \in 1 .. Len(queue) - 1 :
            /\ Origin(m, i) \in 1 .. Len(queue) /\ Origin(m, i) # m
            /\ short[i] = queue[Origin(m, i)]
    BY RemoveAtOrigin
  <2> HIDE DEF short
  <2> QED
    BY <1>1, <1>2, <2>1
<1>4. \A i, j \in DOMAIN short : Origin(m, i) = Origin(m, j) => i = j
  <2>1. \A i, j \in 1 .. Len(queue) - 1 : Origin(m, i) = Origin(m, j) => i = j
    BY RemoveAtOrigin
  <2> HIDE DEF short
  <2> QED
    BY <1>2, <2>1
<1> HIDE DEF short
<1>5. /\ DOMAIN rest = DOMAIN short
      /\ \A i \in DOMAIN short :
             /\ short[i].owner = r => rest[i].owner = Nobody
             /\ short[i].owner # r => rest[i] = short[i]
             /\ Value(rest[i]) = Value(short[i])
  <2>1. \A i \in DOMAIN short : short[i] \in Tickets
    BY <1>2, ElementOfSeq, LenProperties
  <2> QED
    BY <2>1 DEF Abandon, Value, Tickets
<1>6. rest \in Seq(Tickets) /\ Len(rest) = Len(short)
  BY <1>2, AbandonType
<1> HIDE DEF rest
<1>7. Matching(Values(rest), TicketValues(S \ {r}))
  <2> DEFINE v == Values(queue)
             w == TicketValues(S)
             u == TicketValues(S \ {r})
  <2>1. /\ v \in Seq((SUBSET Keys) \X Stamps) /\ Len(v) = Len(queue)
        /\ v[m] = w[r]
        /\ Matching(v, w)
    BY ValuesType DEF QueueHolds, TicketValues
  <2>2. /\ DOMAIN w = S /\ DOMAIN u = DOMAIN w \ {r}
        /\ \A s \in DOMAIN u : u[s] = w[s]
    BY DEF TicketValues
  <2> HIDE DEF w, u
  <2>3. Matching(RemoveAt(v, m), u)
    <3> HIDE DEF v
    <3> QED
      BY <2>1, <2>2, MatchingRemove
  <2>4. RemoveAt(v, m) = Values(rest)
    <3>1. /\ RemoveAt(v, m) \in Seq((SUBSET Keys) \X Stamps)
          /\ Len(RemoveAt(v, m)) = Len(queue) - 1
      <4> HIDE DEF v
      <4> QED
        BY <2>1, RemoveAtOrigin
    <3>2. \A i \in 1 .. Len(queue) - 1 : RemoveAt(v, m)[i] = v[Origin(m, i)]
      <4> HIDE DEF v
      <4> QED
        BY <2>1, RemoveAtOrigin
    <3>3. /\ Values(rest) \in Seq((SUBSET Keys) \X Stamps)
          /\ Len(Values(rest)) = Len(queue) - 1
          /\ \A i \in 1 .. Len(queue) - 1 : Values(rest)[i] = Value(rest[i])
      BY <1>2, <1>6, ValuesType
    <3>4. \A i \in 1 .. Len(queue) - 1 : v[Origin(m, i)] = Value(rest[i])
      BY <1>1, <1>2, <1>3, <1>5 DEF Values
    <3> HIDE DEF v
    <3> QED
      BY <3>1, <3>2, <3>3, <3>4, SeqEqual
  <2> QED
    BY <2>3, <2>4 DEF u
<1>8. OwnersMatch(rest, S \ {r})
  BY <1>3, <1>4, <1>5 DEF QueueHolds, OwnersMatch
<1>9. ~CoarseClock => NoOrphans(rest)
  <2> SUFFICES ASSUME ~CoarseClock
               PROVE  NoOrphans(rest)
    OBVIOUS
  <2>1. queue[m].owner \in S /\ queue[m] = Ticket(queue[m].owner)
    BY <1>1 DEF QueueHolds, OwnersMatch, NoOrphans
  <2>2. stamp[queue[m].owner] = stamp[r]
    BY <2>1 DEF Value, Ticket
  <2>3. queue[m].owner = r
    BY <2>1, <2>2 DEF StampsDistinct
  <2>4. \A i \in DOMAIN short : short[i].owner # r
    BY <1>1, <1>3, <2>3 DEF QueueHolds, OwnersMatch, NoOrphans
  <2> QED
    BY <1>3, <1>5, <2>4 DEF QueueHolds, NoOrphans
<1> QED
  BY <1>7, <1>8, <1>9 DEF QueueHolds, rest, short

\* Every thread of a queue that holds its ticket finds one to take away.
LEMMA TicketFound ==
    ASSUME NEW queue \in Seq(Tickets), NEW S, QueueHolds(queue, S), NEW r \in S
    PROVE  \E m \in 1 .. Len(queue) :
               /\ Value(queue[m]) = Value(Ticket(r))
               /\ RemoveTicket(queue, Ticket(r)) = RemoveAt(queue, m)
<1>1. PICK f : Assigns(f, Values(queue), TicketValues(S))
  BY DEF QueueHolds, Matching
<1>2. /\ DOMAIN Values(queue) = 1 .. Len(queue)
      /\ DOMAIN TicketValues(S) = S /\ TicketValues(S)[r] = Value(Ticket(r))
  BY LenProperties DEF Values, TicketValues
<1>3. PICK j \in 1 .. Len(queue) : f[j] = r
  BY <1>1, <1>2 DEF Assigns
<1>4. Value(queue[j]) = Value(Ticket(r))
  BY <1>1, <1>2, <1>3 DEF Assigns, Values
<1>5. SameValue(queue[j], Ticket(r))
  BY <1>4, SameValueValue
<1>6. \A m \in 1 .. Len(queue) :
          SameValue(queue[m], Ticket(r)) <=> Value(queue[m]) = Value(Ticket(r))
  BY SameValueValue
<1> QED
  BY <1>5, <1>6, RemoveTicketAt

\* _remove_waiter: the queue holds the tickets of the others.
LEMMA QueueLeft ==
    ASSUME NEW queue \in Seq(Tickets), NEW S \in SUBSET Callers, QueueHolds(queue, S),
           S \subseteq InCall, StampsDistinct, NEW r \in S
    PROVE  QueueHolds(Abandon(RemoveTicket(queue, Ticket(r)), r), S \ {r})
<1>1. PICK m \in 1 .. Len(queue) :
          /\ Value(queue[m]) = Value(Ticket(r))
          /\ RemoveTicket(queue, Ticket(r)) = RemoveAt(queue, m)
  BY TicketFound
<1>2. QueueHolds(Abandon(RemoveAt(queue, m), r), S \ {r})
  BY <1>1, QueueWithout
<1> QED
  BY <1>1, <1>2

\* When a thread's own ticket is taken out, no ticket of its own is left.
LEMMA OwnTicketOut ==
    ASSUME NEW queue \in Seq(Tickets), NEW S, OwnersMatch(queue, S),
           NEW r \in Callers, NEW m \in 1 .. Len(queue), queue[m].owner = r
    PROVE  Abandon(RemoveAt(queue, m), r) = RemoveAt(queue, m)
<1> DEFINE short == RemoveAt(queue, m)
<1>1. DOMAIN queue = 1 .. Len(queue) /\ r # Nobody
  BY LenProperties, PoolAssumption
<1>2. /\ short \in Seq(Tickets)
      /\ DOMAIN short = 1 .. Len(queue) - 1
  BY RemoveAtOrigin
<1>3. \A i \in 1 .. Len(queue) - 1 :
          /\ Origin(m, i) \in 1 .. Len(queue) /\ Origin(m, i) # m
          /\ short[i] = queue[Origin(m, i)]
  BY RemoveAtOrigin
<1> HIDE DEF short
<1>4. \A i \in DOMAIN short : short[i].owner # r
  BY <1>1, <1>2, <1>3 DEF OwnersMatch
<1>5. short = [i \in DOMAIN short |-> short[i]]
  BY <1>2
<1> QED
  BY <1>4, <1>5 DEF Abandon, short

\* The thread at the head takes its own ticket, and no other, out with popleft.
LEMMA QueuePopped ==
    ASSUME NEW queue \in Seq(Tickets), NEW S \in SUBSET Callers, QueueHolds(queue, S),
           S \subseteq InCall, StampsDistinct, NEW r \in S, IsHead(r, queue)
    PROVE  QueueHolds(Tail(queue), S \ {r})
<1>1. queue # <<>> /\ queue[1].owner = r
  BY DEF IsHead
<1>2. 1 \in 1 .. Len(queue) /\ Tail(queue) = RemoveAt(queue, 1)
  BY <1>1, TailIsRemoveAt
<1>3. OwnersMatch(queue, S) /\ r \in Callers /\ r # Nobody /\ DOMAIN queue = 1 .. Len(queue)
  BY PoolAssumption, LenProperties DEF QueueHolds
<1>4. queue[1] = Ticket(r)
  BY <1>1, <1>2, <1>3 DEF OwnersMatch
<1>5. QueueHolds(Abandon(RemoveAt(queue, 1), r), S \ {r})
  BY <1>2, <1>4, QueueWithout
<1>6. Abandon(RemoveAt(queue, 1), r) = RemoveAt(queue, 1)
  BY <1>1, <1>2, <1>3, OwnTicketOut
<1> QED
  BY <1>2, <1>5, <1>6

\* A call that queues adds its ticket.
LEMMA QueueJoined ==
    ASSUME NEW queue \in Seq(Tickets), NEW S \in SUBSET Callers, QueueHolds(queue, S),
           NEW r \in Callers \ S, Ticket(r) \in Tickets
    PROVE  /\ Append(queue, Ticket(r)) \in Seq(Tickets)
           /\ QueueHolds(Append(queue, Ticket(r)), S \cup {r})
<1> DEFINE t == Ticket(r)
           long == Append(queue, t)
<1>1. DOMAIN queue = 1 .. Len(queue) /\ Len(queue) \in Nat /\ r # Nobody
  BY LenProperties, PoolAssumption
<1>2. /\ long \in Seq(Tickets)
      /\ Len(long) = Len(queue) + 1
      /\ DOMAIN long = 1 .. Len(queue) + 1
      /\ long[Len(queue) + 1] = t
      /\ \A i \in 1 .. Len(queue) : long[i] = queue[i]
  <2>1. t \in Tickets
    OBVIOUS
  <2> HIDE DEF t
  <2> QED
    BY <2>1, AppendProperties, LenProperties
<1>3. t.owner = r
  BY DEF Ticket
<1> HIDE DEF long
<1>4. Matching(Values(long), TicketValues(S \cup {r}))
  <2> DEFINE v == Values(queue)
             w == TicketValues(S)
             u == TicketValues(S \cup {r})
             x == Value(t)
             V == (SUBSET Keys) \X Stamps
  <2>1. /\ v \in Seq((SUBSET Keys) \X Stamps) /\ Len(v) = Len(queue)
        /\ \A i \in 1 .. Len(queue) : v[i] = Value(queue[i])
        /\ Matching(v, w)
    BY ValuesType DEF QueueHolds
  <2>2. /\ r \in DOMAIN u /\ DOMAIN w = DOMAIN u \ {r}
        /\ u[r] = x
        /\ \A s \in DOMAIN w : u[s] = w[s]
    BY DEF TicketValues
  <2>3. x \in (SUBSET Keys) \X Stamps
    BY DEF Value, Tickets
  <2>4. v \in Seq(V) /\ x \in V
    BY <2>1, <2>3
  <2> HIDE DEF w, u, v, x
  <2>5. Matching(Append(v, x), u)
    <3> HIDE DEF V
    <3> QED
      BY <2>1, <2>2, <2>4, MatchingAppend
  <2>6. Append(v, x) = Values(long)
    <3>1. /\ Append(v, x) \in Seq((SUBSET Keys) \X Stamps)
          /\ Len(Append(v, x)) = Len(queue) + 1
          /\ \A i \in 1 .. Len(queue) : Append(v, x)[i] = v[i]
          /\ Append(v, x)[Len(queue) + 1] = x
      BY <2>1, <2>3, AppendProperties
    <3>2. /\ Values(long) \in Seq((SUBSET Keys) \X Stamps)
          /\ Len(Values(long)) = Len(queue) + 1
          /\ \A i \in 1 .. Len(queue) + 1 : Values(long)[i] = Value(long[i])
      BY <1>2, ValuesType
    <3>3. \A i \in 1 .. Len(queue) + 1 : Append(v, x)[i] = Values(long)[i]
      BY <1>1, <1>2, <2>1, <3>1, <3>2 DEF x
    <3> QED
      BY <3>1, <3>2, <3>3, SeqEqual
  <2> QED
    BY <2>5, <2>6 DEF u
<1>5. OwnersMatch(long, S \cup {r})
  BY <1>1, <1>2, <1>3 DEF QueueHolds, OwnersMatch
<1>6. ~CoarseClock => NoOrphans(long)
  BY <1>1, <1>2, <1>3 DEF QueueHolds, NoOrphans
<1> QED
  BY <1>2, <1>4, <1>5, <1>6 DEF QueueHolds, long

\* A step that keeps the arguments and clock readings of the threads in S keeps
\* their tickets.
LEMMA QueueKept ==
    ASSUME NEW queue, NEW S, QueueHolds(queue, S),
           waiters' = queue, Waiting' = S,
           \A s \in S : attempted'[s] = attempted[s] /\ stamp'[s] = stamp[s]
    PROVE  QueueHolds(waiters, Waiting)'
<1>1. TicketValues(S) = TicketValues(Waiting)'
  BY DEF TicketValues, Ticket, Value
<1>2. Values(queue) = Values(waiters)'
  BY DEF Values, Value
<1>3. OwnersMatch(waiters, Waiting)'
  BY DEF QueueHolds, OwnersMatch, Ticket
<1> QED
  BY <1>1, <1>2, <1>3 DEF QueueHolds, NoOrphans

\* A step that begins no call leaves the calls in progress apart.
LEMMA StampsKept ==
    ASSUME StampsDistinct, InCall' \subseteq InCall,
           \A s \in InCall' : stamp'[s] = stamp[s]
    PROVE  StampsDistinct'
  BY DEF StampsDistinct

\* A pass of acquire's loop over a queue that holds the caller's ticket.
LEMMA WaitLoopQueue ==
    ASSUME PoolInv, QueueInv, NEW r \in Callers, pc[r] \in {"calling", "waiting"},
           NEW queue \in Seq(Tickets), QueueHolds(queue, Waiting \cup {r}),
           WaitLoop(r, queue)
    PROVE  QueueInv'
<1> DEFINE S == Waiting \cup {r}
<1>1. S \in SUBSET Callers /\ S \subseteq InCall /\ r \in S /\ StampsDistinct
  BY DEF Waiting, InCall, QueueInv
<1>2. ASSUME NEW rest, waiters' = rest, QueueHolds(rest, S \ {r}),
             NEW outcome \in Raised \cup {"leased"}, EndCall(r, outcome)
      PROVE  QueueInv'
  <2>1. /\ Waiting' = S \ {r} /\ InCall' = InCall \ {r}
        /\ \A s \in Callers \ {r} : attempted'[s] = attempted[s] /\ stamp'[s] = stamp[s]
    BY <1>2 DEF PoolInv, TypeOK, EndCall, Waiting, InCall, Raised
  <2>2. QueueHolds(waiters, Waiting)'
    BY <1>1, <1>2, <2>1, QueueKept
  <2>3. StampsDistinct'
    BY <1>1, <2>1, StampsKept DEF InCall
  <2> QED
    BY <2>2, <2>3 DEF QueueInv
<1>3. ASSUME NEW outcome \in Raised, Leave(r, queue, outcome)
      PROVE  QueueInv'
  <2>1. QueueHolds(Abandon(RemoveTicket(queue, Ticket(r)), r), S \ {r})
    BY <1>1, QueueLeft
  <2> QED
    BY <1>2, <1>3, <2>1 DEF Leave, Raise
<1>4. CASE LoopGrant(r, queue)
  <2>1. QueueHolds(Tail(queue), S \ {r})
    BY <1>1, <1>4, QueuePopped DEF LoopGrant
  <2>2. waiters' = Tail(queue) /\ EndCall(r, "leased")
    BY <1>4 DEF LoopGrant, Grant
  <2> QED
    BY <1>2, <2>1, <2>2
<1>5. CASE LoopSleep(r, queue)
  <2>1. /\ Waiting' = S /\ InCall' = InCall /\ waiters' = queue
        /\ UNCHANGED <<attempted, stamp>>
    BY <1>5 DEF PoolInv, TypeOK, LoopSleep, Waiting, InCall
  <2>2. QueueHolds(waiters, Waiting)'
    BY <2>1, QueueKept
  <2>3. StampsDistinct'
    BY <1>1, <2>1, StampsKept
  <2> QED
    BY <2>2, <2>3 DEF QueueInv
<1> QED
  BY <1>3, <1>4, <1>5 DEF WaitLoop, LoopCancelled, LoopUnavailable, LoopTimeout, Raised

\* A step that leaves the queue, the calls in progress and their arguments alone.
LEMMA QuietQueue ==
    ASSUME QueueInv, waiters' = waiters, Waiting' = Waiting, InCall' \subseteq InCall,
           \A s \in InCall' : attempted'[s] = attempted[s] /\ stamp'[s] = stamp[s]
    PROVE  QueueInv'
<1>1. Waiting' \subseteq InCall'
  BY DEF Waiting, InCall
<1>2. QueueHolds(waiters, Waiting)'
  BY <1>1, QueueKept DEF QueueInv
<1>3. StampsDistinct'
  BY StampsKept DEF QueueInv
<1> QED
  BY <1>2, <1>3 DEF QueueInv

\* A new call has no ticket yet; without a repeated reading its stamp is new.
LEMMA BeginQueue ==
    ASSUME PoolInv, QueueInv, NEW r \in Callers, NEW tried \in Attempts,
           BeginAcquire(r, tried)
    PROVE  QueueInv'
<1>1. PICK s \in Callers \X Names : Reads(r, s) /\ stamp' = [stamp EXCEPT ![r] = s]
  BY DEF BeginAcquire
<1>2. /\ waiters' = waiters /\ Waiting' = Waiting /\ r \notin Waiting
      /\ InCall' = InCall \cup {r} /\ r \notin InCall
      /\ \A q \in Callers \ {r} : attempted'[q] = attempted[q] /\ stamp'[q] = stamp[q]
      /\ stamp'[r] = s
  BY <1>1 DEF PoolInv, TypeOK, BeginAcquire, Waiting, InCall
<1>3. QueueHolds(waiters, Waiting)'
  BY <1>2, QueueKept DEF QueueInv, Waiting
<1>4. StampsDistinct'
  <2> SUFFICES ASSUME ~CoarseClock
               PROVE  \A p, q \in InCall' : stamp'[p] = stamp'[q] => p = q
    BY DEF StampsDistinct
  <2>1. \A q \in Callers : stamp[q] # s
    BY <1>1 DEF Reads, NewReading, LiveStamps
  <2> QED
    BY <1>2, <2>1 DEF QueueInv, StampsDistinct, InCall
<1> QED
  BY <1>3, <1>4 DEF QueueInv

\* The queue that a call goes through when it has to queue.
LEMMA EnterQueueHolds ==
    ASSUME PoolInv, QueueInv, NEW r \in Callers, pc[r] = "calling"
    PROVE  /\ Append(waiters, Ticket(r)) \in Seq(Tickets)
           /\ QueueHolds(Append(waiters, Ticket(r)), Waiting \cup {r})
<1>1. waiters \in Seq(Tickets)
  BY DEF PoolInv, TypeOK, Tickets
<1>2. Ticket(r) \in Tickets
  BY TicketType DEF PoolInv, CallsStamped
<1>3. Waiting \in SUBSET Callers /\ r \in Callers \ Waiting
  BY DEF Waiting
<1> QED
  BY <1>1, <1>2, <1>3, QueueJoined DEF QueueInv

\* The critical section in which a call starts.
LEMMA EnterQueueInv ==
    ASSUME PoolInv, QueueInv, NEW r \in Callers, Enter(r)
    PROVE  QueueInv'
<1>1. pc[r] = "calling"
  BY DEF Enter
<1>2. ASSUME NEW outcome \in Raised \cup {"leased"}, EndCall(r, outcome), waiters' = waiters
      PROVE  QueueInv'
  <2>1. /\ Waiting' = Waiting /\ InCall' \subseteq InCall
        /\ \A s \in InCall' : attempted'[s] = attempted[s] /\ stamp'[s] = stamp[s]
    BY <1>1, <1>2 DEF PoolInv, TypeOK, EndCall, Waiting, InCall, Raised
  <2> QED
    BY <1>2, <2>1, QuietQueue
<1>3. CASE EnterQueue(r)
  BY <1>1, <1>3, EnterQueueHolds, WaitLoopQueue DEF EnterQueue
<1> QED
  BY <1>2, <1>3 DEF Enter, EnterCancelled, EnterGrant, EnterUnavailable, EnterFull,
                    Raise, Grant, Raised

\* Every step keeps the queue in line with the calls.
LEMMA QueueInvNext == PoolInv /\ QueueInv /\ [Next]_vars => QueueInv'
<1> SUFFICES ASSUME PoolInv, QueueInv, [Next]_vars
             PROVE  QueueInv'
  OBVIOUS
<1>1. ASSUME NEW r \in Callers, NEW tried \in Attempts, BeginAcquire(r, tried)
      PROVE  QueueInv'
  BY <1>1, BeginQueue
<1>2. ASSUME NEW r \in Callers, Enter(r)
      PROVE  QueueInv'
  BY <1>2, EnterQueueInv
<1>3. ASSUME NEW r \in Callers, Resume(r)
      PROVE  QueueInv'
  <2>1. r \in Waiting /\ waiters \in Seq(Tickets)
    BY <1>3 DEF Resume, Waiting, PoolInv, TypeOK, Tickets
  <2>2. Waiting \cup {r} = Waiting
    BY <2>1
  <2> QED
    BY <1>3, <2>1, <2>2, WaitLoopQueue DEF Resume, QueueInv
<1>4. CASE Tick \/ \E r \in Callers : Disconnect(r) \/ Reconnect(r)
  <2>1. UNCHANGED <<waiters, pc, attempted, stamp>>
    BY <1>4 DEF Tick, Disconnect, Reconnect, callVars
  <2> QED
    BY <2>1, QuietQueue DEF Waiting, InCall
<1>5. ASSUME NEW r \in Callers, Catch(r) \/ Finish(r)
      PROVE  QueueInv'
  <2>1. /\ Waiting' = Waiting /\ InCall' = InCall
        /\ UNCHANGED <<waiters, attempted, stamp>>
    BY <1>5 DEF PoolInv, TypeOK, Catch, Finish, callVars, Waiting, InCall, Raised
  <2> QED
    BY <2>1, QuietQueue
<1>6. ASSUME NEW r \in Callers, NEW status, NEW retryAfter, Release(r, status, retryAfter)
      PROVE  QueueInv'
  BY <1>6, QuietQueue DEF Release, callVars, Waiting, InCall
<1>7. CASE UNCHANGED vars
  BY <1>7, QuietQueue DEF vars, Waiting, InCall
<1> QED
  BY <1>1, <1>2, <1>3, <1>4, <1>5, <1>6, <1>7 DEF Next

\* At first there is neither a call nor a ticket.
LEMMA QueueInvInit == Init => QueueInv
<1> SUFFICES ASSUME Init
             PROVE  QueueInv
  OBVIOUS
<1>1. Waiting = {} /\ InCall = {} /\ waiters = <<>>
  BY DEF Init, Waiting, InCall
<1>2. DOMAIN waiters = {}
  BY <1>1
<1>3. Matching(Values(waiters), TicketValues(Waiting))
  BY <1>1, <1>2, MatchingEmpty DEF Values, TicketValues
<1> QED
  BY <1>1, <1>2, <1>3 DEF QueueInv, QueueHolds, OwnersMatch, NoOrphans, StampsDistinct

\* The queue and the calls stay in line.
LEMMA QueueInLine == Spec => []QueueInv
  BY QueueInvInit, QueueInvNext, InductiveInvariant, PTL DEF Spec

\* What the invariant says of the balance of equal tickets.
LEMMA BalanceOfMatch == PoolInv /\ QueueInv => TicketsBalance
<1> SUFFICES ASSUME PoolInv, QueueInv
             PROVE  TicketsBalance
  OBVIOUS
<1> DEFINE v == Values(waiters)
           w == TicketValues(Waiting)
<1>1. waiters \in Seq(Tickets)
  BY DEF PoolInv, TypeOK, Tickets
<1>2. v \in Seq((SUBSET Keys) \X Stamps) /\ Len(v) = Len(waiters) /\ Matching(v, w)
  BY <1>1, ValuesType DEF QueueInv, QueueHolds
<1>3. /\ Len(v) = Cardinality(DOMAIN w)
      /\ \A x : Count(v, x) = Count(w, x)
  <2> DEFINE V == (SUBSET Keys) \X Stamps
  <2>1. v \in Seq(V)
    BY <1>2
  <2> HIDE DEF v, w, V
  <2> QED
    BY <1>2, <2>1, MatchingCounts
<1>4. DOMAIN w = Waiting
  BY DEF TicketValues
<1>5. ASSUME NEW r \in Waiting
      PROVE  Cardinality({i \in DOMAIN waiters : SameValue(waiters[i], Ticket(r))})
               = Cardinality({s \in Waiting : SameValue(Ticket(s), Ticket(r))})
  <2> DEFINE x == Value(Ticket(r))
  <2>1. {i \in DOMAIN waiters : SameValue(waiters[i], Ticket(r))} = {i \in DOMAIN v : v[i] = x}
    BY DEF Values, SameValue, Value
  <2>2. {s \in Waiting : SameValue(Ticket(s), Ticket(r))} = {s \in DOMAIN w : w[s] = x}
    BY DEF TicketValues, SameValue, Value
  <2> HIDE DEF v, w, x
  <2> QED
    BY <1>3, <2>1, <2>2 DEF Count
<1>6. Len(waiters) = Cardinality(Waiting)
  BY <1>2, <1>3, <1>4
<1> QED
  BY <1>5, <1>6 DEF TicketsBalance

\* However often two calls make equal tickets, for every value there are as many
\* tickets in the deque as threads that wait with one: deque.remove always finds
\* what it looks for, and the queue is empty exactly when nobody waits.
THEOREM TicketsInBalance == Spec => []TicketsBalance
  BY QueueInLine, InductiveInvariant, BalanceOfMatch, PTL

\* With a clock that never returns the same reading twice every ticket in the
\* queue is the ticket of a thread that waits: no ticket outlives its call.
THEOREM QueueIsOwned ==
    ASSUME ~CoarseClock
    PROVE  Spec => []QueuedRequestsAreWaiting
<1>1. QueueInv => QueuedRequestsAreWaiting
  BY DEF QueueInv, QueueHolds, NoOrphans, OwnersMatch, QueuedRequestsAreWaiting
<1> QED
  BY <1>1, QueueInLine, PTL

-----------------------------------------------------------------------------
\* Order of admission

\* What the abstract component sees of a deque and of the leases.
Owners(queue) == [i \in DOMAIN queue |-> queue[i].owner]
Holding == [r \in Callers |-> IF released[r] THEN NoKey ELSE held[r]]

\* The owners of a queue make a sequence as long as the queue.
LEMMA OwnersType ==
    ASSUME NEW queue \in Seq(Tickets)
    PROVE  /\ Owners(queue) \in Seq(Callers \cup {Nobody})
           /\ Len(Owners(queue)) = Len(queue)
           /\ DOMAIN Owners(queue) = 1 .. Len(queue)
           /\ \A i \in 1 .. Len(queue) : Owners(queue)[i] = queue[i].owner
<1>1. Len(queue) \in Nat /\ DOMAIN queue = 1 .. Len(queue)
  BY LenProperties
<1>2. \A i \in 1 .. Len(queue) : queue[i].owner \in Callers \cup {Nobody}
  BY ElementOfSeq DEF Tickets
<1> QED
  BY <1>1, <1>2 DEF Owners

\* The owners of a queue that has lost a ticket.
LEMMA OwnersWithout ==
    ASSUME NEW queue \in Seq(Tickets), NEW m \in 1 .. Len(queue)
    PROVE  Owners(RemoveAt(queue, m)) = RemoveAt(Owners(queue), m)
<1> DEFINE short == RemoveAt(queue, m)
           owners == Owners(queue)
           T == Callers \cup {Nobody}
<1>1. /\ owners \in Seq(T) /\ Len(owners) = Len(queue)
      /\ \A i \in 1 .. Len(queue) : owners[i] = queue[i].owner
  BY OwnersType
<1>2. /\ short \in Seq(Tickets)
      /\ Len(short) = Len(queue) - 1
      /\ \A i \in 1 .. Len(queue) - 1 :
             /\ Origin(m, i) \in 1 .. Len(queue)
             /\ short[i] = queue[Origin(m, i)]
  BY RemoveAtOrigin
<1> HIDE DEF short, owners, T
<1>3. /\ RemoveAt(owners, m) \in Seq(T)
      /\ Len(RemoveAt(owners, m)) = Len(queue) - 1
      /\ \A i \in 1 .. Len(queue) - 1 : RemoveAt(owners, m)[i] = owners[Origin(m, i)]
  <2>1. m \in 1 .. Len(owners)
    BY <1>1
  <2>2. /\ RemoveAt(owners, m) \in Seq(T)
        /\ Len(RemoveAt(owners, m)) = Len(owners) - 1
        /\ \A i \in 1 .. Len(owners) - 1 : RemoveAt(owners, m)[i] = owners[Origin(m, i)]
    BY <1>1, <2>1, RemoveAtOrigin
  <2> QED
    BY <1>1, <2>2
<1>4. /\ Owners(short) \in Seq(T)
      /\ Len(Owners(short)) = Len(queue) - 1
      /\ \A i \in 1 .. Len(queue) - 1 : Owners(short)[i] = short[i].owner
  BY <1>2, OwnersType DEF T
<1>5. \A i \in 1 .. Len(queue) - 1 : Owners(short)[i] = RemoveAt(owners, m)[i]
  BY <1>1, <1>2, <1>3, <1>4
<1>6. Owners(short) = RemoveAt(owners, m)
  BY <1>3, <1>4, <1>5, SeqEqual
<1> QED
  BY <1>6 DEF short, owners

\* The owners of a queue that has got another ticket.
LEMMA OwnersAppend ==
    ASSUME NEW queue \in Seq(Tickets), NEW t \in Tickets
    PROVE  Owners(Append(queue, t)) = Append(Owners(queue), t.owner)
<1> DEFINE owners == Owners(queue)
           T == Callers \cup {Nobody}
           o == t.owner
           long == Append(queue, t)
<1>1. o \in T
  BY DEF Tickets
<1>2. /\ owners \in Seq(T) /\ Len(owners) = Len(queue)
      /\ \A i \in 1 .. Len(queue) : owners[i] = queue[i].owner
  BY OwnersType
<1>3. /\ long \in Seq(Tickets) /\ Len(long) = Len(queue) + 1
      /\ long[Len(queue) + 1] = t
      /\ \A i \in 1 .. Len(queue) : long[i] = queue[i]
  BY AppendProperties
<1> HIDE DEF owners, T, long
<1>4. /\ Owners(long) \in Seq(T) /\ Len(Owners(long)) = Len(queue) + 1
      /\ \A i \in 1 .. Len(queue) + 1 : Owners(long)[i] = long[i].owner
  BY <1>3, OwnersType DEF T
<1> HIDE DEF o
<1>5. /\ Append(owners, o) \in Seq(T)
      /\ Len(Append(owners, o)) = Len(queue) + 1
      /\ \A i \in 1 .. Len(queue) : Append(owners, o)[i] = owners[i]
      /\ Append(owners, o)[Len(queue) + 1] = o
  BY <1>1, <1>2, AppendProperties
<1>6. Len(queue) \in Nat
  OBVIOUS
<1>7. \A i \in 1 .. Len(queue) + 1 : Owners(long)[i] = Append(owners, o)[i]
  BY <1>2, <1>3, <1>4, <1>5, <1>6 DEF o
<1>8. Owners(long) = Append(owners, o)
  BY <1>4, <1>5, <1>7, SeqEqual
<1> QED
  BY <1>8 DEF long, owners, o

\* Without a repeated reading a thread that leaves the queue takes its own ticket.
LEMMA OwnTicketTaken ==
    ASSUME ~CoarseClock,
           NEW queue \in Seq(Tickets), NEW S \in SUBSET Callers, QueueHolds(queue, S),
           S \subseteq InCall, StampsDistinct, NEW r \in S
    PROVE  \E m \in 1 .. Len(queue) :
               /\ queue[m].owner = r
               /\ Abandon(RemoveTicket(queue, Ticket(r)), r) = RemoveAt(queue, m)
<1>1. PICK m \in 1 .. Len(queue) :
          /\ Value(queue[m]) = Value(Ticket(r))
          /\ RemoveTicket(queue, Ticket(r)) = RemoveAt(queue, m)
  BY TicketFound
<1>2. DOMAIN queue = 1 .. Len(queue)
  BY LenProperties
<1>3. queue[m].owner \in S /\ queue[m] = Ticket(queue[m].owner)
  BY <1>2 DEF QueueHolds, OwnersMatch, NoOrphans
<1>4. stamp[queue[m].owner] = stamp[r]
  BY <1>1, <1>3 DEF Value, Ticket
<1>5. queue[m].owner = r
  BY <1>3, <1>4 DEF StampsDistinct
<1>6. Abandon(RemoveAt(queue, m), r) = RemoveAt(queue, m)
  BY <1>5, OwnTicketOut DEF QueueHolds
<1> QED
  BY <1>1, <1>5, <1>6

\* To take out what was appended last gives the sequence back.
LEMMA AppendedOut ==
    ASSUME NEW queue \in Seq(Tickets), NEW t \in Tickets
    PROVE  RemoveAt(Append(queue, t), Len(queue) + 1) = queue
<1> DEFINE long == Append(queue, t)
<1>1. /\ long \in Seq(Tickets) /\ Len(long) = Len(queue) + 1
      /\ \A i \in 1 .. Len(queue) : long[i] = queue[i]
  BY AppendProperties
<1>2. Len(queue) \in Nat
  OBVIOUS
<1> HIDE DEF long
<1>3. Len(queue) + 1 \in 1 .. Len(long)
  BY <1>1, <1>2
<1>4. /\ RemoveAt(long, Len(queue) + 1) \in Seq(Tickets)
      /\ Len(RemoveAt(long, Len(queue) + 1)) = Len(queue)
      /\ \A i \in 1 .. Len(queue) : RemoveAt(long, Len(queue) + 1)[i] = long[i]
  <2> DEFINE n == Len(queue) + 1
  <2>1. n = Len(long) /\ n \in 1 .. Len(long)
    BY <1>1, <1>3
  <2> HIDE DEF n
  <2>2. RemoveAt(long, n) \in Seq(Tickets) /\ Len(RemoveAt(long, n)) = Len(long) - 1
    BY <1>1, <2>1, RemoveAtType
  <2>3. \A i \in 1 .. Len(long) - 1 :
            RemoveAt(long, n)[i] = IF i < n THEN long[i] ELSE long[i + 1]
    BY <1>1, <2>1, RemoveAtElement
  <2> QED
    BY <1>1, <1>2, <2>1, <2>2, <2>3 DEF n
<1> QED
  BY <1>1, <1>4, SeqEqual DEF long

\* How the abstract component sees the state.
LEMMA FifoView ==
    ASSUME PoolInv, QueueInv, ~CoarseClock
    PROVE  /\ Fifo!Queued = Waiting
           /\ \A k \in Keys : Fifo!Holders(k) = Holders(k)
           /\ \A r \in InCall : Holding[r] = NoKey
<1>1. waiters \in Seq(Tickets) /\ DOMAIN waiters = 1 .. Len(waiters)
  BY LenProperties DEF PoolInv, TypeOK, Tickets
<1>2. \A i \in DOMAIN waiters : waiters[i].owner \in Waiting
  BY DEF QueueInv, QueueHolds, NoOrphans, OwnersMatch
<1>3. \A r \in Waiting : \E i \in DOMAIN waiters : waiters[i].owner = r
  <2> SUFFICES ASSUME NEW r \in Waiting
               PROVE  \E i \in DOMAIN waiters : waiters[i].owner = r
    OBVIOUS
  <2>1. Waiting \in SUBSET Callers /\ Waiting \subseteq InCall
    BY DEF Waiting, InCall
  <2> QED
    BY <1>1, <2>1, OwnTicketTaken DEF QueueInv
<1>4. Fifo!Queued = {waiters[i].owner : i \in DOMAIN waiters}
  BY DEF Fifo!Queued
<1>5. \A k \in Keys : Fifo!Holders(k) = Holders(k)
  BY NoKeyIsNone DEF Fifo!Holders, Holders
<1>6. \A r \in InCall : Holding[r] = NoKey
  BY DEF PoolInv, LeaseShape, InCall, Holding
<1> QED
  BY <1>2, <1>3, <1>4, <1>5, <1>6

\* A grant takes a unit of a key that has one left.
LEMMA GrantTakes ==
    ASSUME PoolInv, QueueInv, ~CoarseClock,
           NEW r \in Callers, NEW k \in Keys, Selectable(k, attempted[r]), Grant(r, k)
    PROVE  Fifo!Take(r)
<1>1. Cardinality(Fifo!Holders(k)) < MaxConcurrentPerKey
  BY FifoView DEF PoolInv, ActiveMatchesLeases, Selectable
<1>2. Holding' = [Holding EXCEPT ![r] = k]
  BY DEF PoolInv, TypeOK, Grant, Holding
<1> QED
  BY <1>1, <1>2 DEF Fifo!Take, Holding, Cardinality, Fifo!Cardinality, IsFiniteSet, Fifo!IsFiniteSet

\* A call that leaves the queue with an exception gives up.
LEMMA LeaveGivesUp ==
    ASSUME PoolInv, QueueInv, ~CoarseClock,
           NEW r \in Waiting, NEW outcome, Leave(r, waiters, outcome)
    PROVE  Fifo!GiveUp(r)
<1>1. waiters \in Seq(Tickets) /\ Waiting \in SUBSET Callers /\ Waiting \subseteq InCall
  BY DEF PoolInv, TypeOK, Tickets, Waiting, InCall
<1>2. PICK m \in 1 .. Len(waiters) :
          /\ waiters[m].owner = r
          /\ Abandon(RemoveTicket(waiters, Ticket(r)), r) = RemoveAt(waiters, m)
  BY <1>1, OwnTicketTaken DEF QueueInv
<1>3. Owners(waiters') = RemoveAt(Owners(waiters), m)
  BY <1>1, <1>2, OwnersWithout DEF Leave
<1>4. /\ DOMAIN Owners(waiters) = 1 .. Len(waiters)
      /\ Owners(waiters)[m] = r
      /\ Fifo!Queued = Waiting
  BY <1>1, <1>2, OwnersType, FifoView
<1>5. UNCHANGED Holding
  BY DEF Leave, Raise, leaseVars, Holding
<1> QED
  BY <1>2, <1>3, <1>4, <1>5 DEF Fifo!GiveUp, Owners, Holding, RemoveAt

\* A call that goes from the head of the queue with a key is admitted.
LEMMA GrantAdmits ==
    ASSUME PoolInv, QueueInv, ~CoarseClock, NEW r \in Callers, LoopGrant(r, waiters)
    PROVE  Fifo!Admit(r)
<1>1. PICK k \in Keys : Selects(k, attempted[r]) /\ Grant(r, k)
  BY DEF LoopGrant
<1>2. Fifo!Take(r)
  BY <1>1, GrantTakes DEF Selects
<1>3. waiters \in Seq(Tickets) /\ waiters # <<>> /\ waiters[1].owner = r
  BY DEF PoolInv, TypeOK, Tickets, LoopGrant, IsHead
<1>4. 1 \in 1 .. Len(waiters) /\ Tail(waiters) = RemoveAt(waiters, 1)
  BY <1>3, TailIsRemoveAt
<1>5. /\ Owners(waiters) \in Seq(Callers \cup {Nobody})
      /\ Owners(waiters)[1] = r
      /\ Owners(waiters) # <<>>
  <2>1. /\ Owners(waiters) \in Seq(Callers \cup {Nobody})
        /\ Len(Owners(waiters)) = Len(waiters)
        /\ Owners(waiters)[1] = waiters[1].owner
    BY <1>3, <1>4, OwnersType
  <2> QED
    BY <1>3, <1>4, <2>1
<1>6. /\ Tail(Owners(waiters)) = RemoveAt(Owners(waiters), 1)
      /\ Head(Owners(waiters)) = r
  BY <1>5, TailIsRemoveAt
<1>7. Owners(waiters') = Tail(Owners(waiters))
  BY <1>3, <1>4, <1>6, OwnersWithout DEF LoopGrant
<1> QED
  BY <1>2, <1>5, <1>6, <1>7 DEF Fifo!Admit, Owners

\* A call that has to queue waits at its end, or has left before anybody saw it.
LEMMA EnterQueueJoins ==
    ASSUME PoolInv, QueueInv, ~CoarseClock,
           NEW r \in Callers, pc[r] = "calling", EnterQueue(r)
    PROVE  Fifo!Join(r) \/ UNCHANGED <<waiters, Holding>>
<1> DEFINE t == Ticket(r)
           long == Append(waiters, t)
<1>1. waiters \in Seq(Tickets) /\ t \in Tickets /\ t.owner = r
  BY TicketType DEF PoolInv, CallsStamped, TypeOK, Tickets, Ticket
<1>2. long \in Seq(Tickets) /\ QueueHolds(long, Waiting \cup {r})
  BY EnterQueueHolds
<1>3. Owners(long) = Append(Owners(waiters), r)
  <2> HIDE DEF t
  <2> QED
    BY <1>1, OwnersAppend
<1>4. r \in InCall /\ r \notin Waiting /\ Waiting \cup {r} \in SUBSET Callers
      /\ Waiting \cup {r} \subseteq InCall
  BY DEF Waiting, InCall
<1>5. ~IsHead(r, long) \/ waiters = <<>>
  <2>1. CASE waiters # <<>>
    <3>1. 1 \in DOMAIN waiters /\ long[1] = waiters[1]
      BY <1>1, <2>1
    <3>2. waiters[1].owner \in Waiting
      BY <3>1 DEF QueueInv, QueueHolds, NoOrphans, OwnersMatch
    <3> QED
      BY <1>4, <3>1, <3>2 DEF IsHead
  <2> QED
    BY <2>1
<1>6. CASE LoopCancelled(r, long)
  BY <1>6 DEF LoopCancelled, EnterQueue, MustQueue
<1>7. CASE LoopGrant(r, long)
  <2>1. \E k \in Keys : Selectable(k, attempted[r])
    BY <1>7 DEF LoopGrant, Selects
  <2> QED
    BY <1>5, <1>7, <2>1 DEF LoopGrant, EnterQueue, MustQueue, NoneSelectable
<1>8. CASE LoopUnavailable(r, long)
  BY <1>5, <1>8 DEF LoopUnavailable, EnterQueue, MustQueue
<1>9. CASE LoopTimeout(r, long)
  <2>1. /\ waiters' = Abandon(RemoveTicket(long, t), r)
        /\ UNCHANGED <<held, released>>
    BY <1>9 DEF LoopTimeout, Leave, Raise, leaseVars
  <2>2. PICK m \in 1 .. Len(long) :
            long[m].owner = r /\ Abandon(RemoveTicket(long, t), r) = RemoveAt(long, m)
    BY <1>2, <1>4, OwnTicketTaken DEF QueueInv
  <2>3. m = Len(waiters) + 1
    <3>1. /\ Len(long) = Len(waiters) + 1 /\ Len(waiters) \in Nat
          /\ DOMAIN waiters = 1 .. Len(waiters)
          /\ \A i \in 1 .. Len(waiters) : long[i] = waiters[i]
      <4> HIDE DEF t
      <4> QED
        BY <1>1, AppendProperties, LenProperties
    <3>2. \A i \in DOMAIN waiters : waiters[i].owner \in Waiting
      BY DEF QueueInv, QueueHolds, NoOrphans, OwnersMatch
    <3>3. m \notin 1 .. Len(waiters)
      <4> HIDE DEF long
      <4> QED
        BY <1>4, <2>2, <3>1, <3>2
    <3> HIDE DEF long
    <3> QED
      BY <3>1, <3>3
  <2>4. RemoveAt(long, Len(waiters) + 1) = waiters
    <3> HIDE DEF t
    <3> QED
      BY <1>1, AppendedOut
  <2>5. waiters' = waiters
    <3> HIDE DEF long, t
    <3> QED
      BY <2>1, <2>2, <2>3, <2>4
  <2> QED
    BY <2>1, <2>5 DEF Holding
<1>10. CASE LoopSleep(r, long)
  <2>1. waiters' = long /\ UNCHANGED Holding
    BY <1>10 DEF LoopSleep, leaseVars, Holding
  <2>2. Owners(waiters') = Append(Owners(waiters), r)
    <3> HIDE DEF long
    <3> QED
      BY <1>3, <2>1
  <2>3. Len(Owners(waiters)) < MaxTotalQueued
    BY <1>1, OwnersType DEF EnterQueue
  <2>4. r \notin Fifo!Queued /\ Holding[r] = NoKey
    BY <1>4, FifoView
  <2>5. Fifo!Join(r)
    BY <2>1, <2>2, <2>3, <2>4 DEF Fifo!Join, Fifo!Idle, Owners, Holding
  <2> QED
    BY <2>5
<1>11. WaitLoop(r, long)
  BY DEF EnterQueue
<1> QED
  BY <1>6, <1>7, <1>8, <1>9, <1>10, <1>11 DEF WaitLoop

\* A lease is returned once.
LEMMA GiveBackReturns ==
    ASSUME PoolInv, NEW r \in Callers, pc[r] = "leased",
           waiters' = waiters,
           \/ held' = held /\ released' = [released EXCEPT ![r] = TRUE]
           \/ /\ held' = [held EXCEPT ![r] = NoKey]
              /\ released' = [released EXCEPT ![r] = FALSE]
    PROVE  Fifo!Return(r) \/ UNCHANGED <<waiters, Holding>>
<1>1. held[r] \in Keys
  BY DEF PoolInv, LeaseShape
<1>2. Holding' = [Holding EXCEPT ![r] = NoKey]
  BY DEF PoolInv, TypeOK, Holding
<1>3. CASE released[r]
  <2>1. Holding[r] = NoKey
    BY <1>3 DEF Holding
  <2>2. Holding' = Holding
    BY <1>2, <2>1 DEF Holding
  <2> QED
    BY <2>2
<1>4. CASE ~released[r]
  <2>1. Holding[r] \in Keys
    BY <1>1, <1>4 DEF Holding
  <2>2. Fifo!Return(r)
    BY <1>2, <2>1 DEF Fifo!Return, Holding
  <2> QED
    BY <2>2
<1> QED
  BY <1>3, <1>4

\* Every step is a step of the abstract component, or none that it sees.
LEMMA FifoStep ==
    ASSUME PoolInv, QueueInv, ~CoarseClock, [Next]_vars
    PROVE  [Fifo!Next]_(Fifo!vars)
<1>1. ASSUME UNCHANGED <<waiters, Holding>>
      PROVE  UNCHANGED Fifo!vars
  BY <1>1 DEF Fifo!vars, Holding
<1>2. ASSUME UNCHANGED <<waiters, held, released>>
      PROVE  UNCHANGED Fifo!vars
  BY <1>1, <1>2 DEF Holding
<1>3. ASSUME NEW r \in Callers,
             \/ \E tried \in Attempts : BeginAcquire(r, tried)
             \/ Catch(r) \/ Disconnect(r) \/ Reconnect(r)
      PROVE  UNCHANGED Fifo!vars
  BY <1>2, <1>3 DEF BeginAcquire, Catch, Disconnect, Reconnect, leaseVars
<1>4. ASSUME NEW r \in Callers, Enter(r)
      PROVE  [Fifo!Next]_(Fifo!vars)
  <2>1. pc[r] = "calling" /\ r \in InCall
    BY <1>4 DEF Enter, InCall
  <2>2. CASE EnterCancelled(r) \/ EnterUnavailable(r) \/ EnterFull(r)
    BY <1>2, <2>2 DEF EnterCancelled, EnterUnavailable, EnterFull, Raise, leaseVars
  <2>3. CASE EnterGrant(r)
    <3>1. PICK k \in Keys : Selects(k, attempted[r]) /\ Grant(r, k)
      BY <2>3 DEF EnterGrant
    <3>2. Fifo!Take(r)
      BY <3>1, GrantTakes DEF Selects
    <3>3. r \notin Fifo!Queued /\ Holding[r] = NoKey
      BY <2>1, FifoView DEF Waiting
    <3>4. Owners(waiters) = <<>> /\ UNCHANGED Owners(waiters)
      BY <2>3 DEF EnterGrant, Owners
    <3>5. Fifo!Pass(r)
      BY <3>2, <3>3, <3>4 DEF Fifo!Pass, Fifo!Idle, Owners, Holding
    <3> QED
      BY <3>5 DEF Fifo!Next
  <2>4. CASE EnterQueue(r)
    BY <1>1, <2>1, <2>4, EnterQueueJoins DEF Fifo!Next
  <2> QED
    BY <1>4, <2>2, <2>3, <2>4 DEF Enter
<1>5. ASSUME NEW r \in Callers, Resume(r)
      PROVE  [Fifo!Next]_(Fifo!vars)
  <2>1. r \in Waiting
    BY <1>5 DEF Resume, Waiting
  <2>2. ASSUME NEW outcome, Leave(r, waiters, outcome)
        PROVE  Fifo!Next
    BY <2>1, <2>2, LeaveGivesUp DEF Fifo!Next
  <2>3. CASE LoopGrant(r, waiters)
    BY <2>3, GrantAdmits DEF Fifo!Next
  <2>4. CASE LoopSleep(r, waiters)
    BY <1>2, <2>4 DEF LoopSleep, leaseVars
  <2> QED
    BY <1>5, <2>2, <2>3, <2>4 DEF Resume, WaitLoop, LoopCancelled, LoopUnavailable, LoopTimeout
<1>6. ASSUME NEW r \in Callers, NEW status, NEW retryAfter,
             Release(r, status, retryAfter) \/ Finish(r)
      PROVE  [Fifo!Next]_(Fifo!vars)
  <2>1. /\ pc[r] = "leased" /\ waiters' = waiters
        /\ \/ held' = held /\ released' = [released EXCEPT ![r] = TRUE]
           \/ /\ held' = [held EXCEPT ![r] = NoKey]
              /\ released' = [released EXCEPT ![r] = FALSE]
    BY <1>6 DEF Release, Finish
  <2> QED
    BY <1>1, <2>1, GiveBackReturns DEF Fifo!Next
<1>7. CASE Tick \/ UNCHANGED vars
  BY <1>2, <1>7 DEF Tick, leaseVars, vars
<1> QED
  BY <1>3, <1>4, <1>5, <1>6, <1>7 DEF Next

\* With a clock that never returns the same reading twice the pool is a bounded
\* FIFO admission component: keys go to the head of the queue, or to a new call
\* only while nobody waits, and within the capacity of every key.
THEOREM FirstComeFirstServed ==
    ASSUME ~CoarseClock
    PROVE  Spec => ImplementsFifo
<1>1. Init => Fifo!Init
  BY DEF Init, Fifo!Init
<1>2. PoolInv /\ QueueInv /\ [Next]_vars => [Fifo!Next]_(Fifo!vars)
  BY FifoStep
<1> QED
  BY <1>1, <1>2, InductiveInvariant, QueueInLine, PTL DEF Spec, ImplementsFifo, Fifo!Spec
=============================================================================
