--------------------------- MODULE SchedulerProofs ---------------------------
(***************************************************************************)
(* Proofs about Scheduler, for every set of callers and of keys and every  *)
(* value of the limits and timeouts.                                       *)
(***************************************************************************)
EXTENDS Scheduler, QueueLemmas

-----------------------------------------------------------------------------
\* Tickets

Stamps == Callers \X Nat
Tickets == [owner : Callers \cup {Nobody}, model : Models, at : Stamps]

\* What deque.remove compares.
Value(t) == <<t.model, t.at>>
Values(queue) == [i \in DOMAIN queue |-> Value(queue[i])]

\* Below, T is the function that gives each thread of some set its ticket.
TicketValues(T) == [s \in DOMAIN T |-> Value(T[s])]
Without(T, r) == [s \in DOMAIN T \ {r} |-> T[s]]

\* Every thread has a ticket of its own; a clock that never repeats a reading
\* tells the tickets apart.
OwnTickets(T) ==
    /\ DOMAIN T \subseteq Callers
    /\ \A s \in DOMAIN T : T[s] \in Tickets /\ T[s].owner = s
    /\ ~CoarseClock => \A q, s \in DOMAIN T : T[q].at = T[s].at => q = s

OwnersMatch(queue, T) ==
    /\ \A i \in DOMAIN queue :
           queue[i].owner # Nobody =>
               queue[i].owner \in DOMAIN T /\ queue[i] = T[queue[i].owner]
    /\ \A i, j \in DOMAIN queue :
           queue[i].owner # Nobody /\ queue[i].owner = queue[j].owner => i = j

NoOrphans(queue) == \A i \in DOMAIN queue : queue[i].owner # Nobody

\* The deque holds, by value, exactly the tickets T; a ticket whose call still
\* goes on is the ticket of that call, and no call has two.  With a clock that
\* never repeats a reading every ticket's call goes on.
QueueHolds(queue, T) ==
    /\ queue \in Seq(Tickets)
    /\ Matching(Values(queue), TicketValues(T))
    /\ OwnersMatch(queue, T)
    /\ ~CoarseClock => NoOrphans(queue)

\* The values of a queue make a sequence as long as the queue.
LEMMA ValuesType ==
    ASSUME NEW queue \in Seq(Tickets)
    PROVE  /\ Values(queue) \in Seq(Models \X Stamps)
           /\ Len(Values(queue)) = Len(queue)
           /\ \A i \in 1 .. Len(queue) : Values(queue)[i] = Value(queue[i])
<1>1. Len(queue) \in Nat /\ DOMAIN queue = 1 .. Len(queue)
  BY LenProperties
<1>2. \A i \in 1 .. Len(queue) : Value(queue[i]) \in Models \X Stamps
  <2>1. \A i \in 1 .. Len(queue) : queue[i] \in Tickets
    BY ElementOfSeq
  <2>2. \A t \in Tickets : t.model \in Models /\ t.at \in Stamps
    BY DEF Tickets
  <2> HIDE DEF Tickets
  <2> QED
    BY <2>1, <2>2 DEF Value
<1> QED
  BY <1>1, <1>2 DEF Values

\* An empty lane holds nobody's ticket.
LEMMA EmptyHolds ==
    ASSUME NEW T, DOMAIN T = {}
    PROVE  QueueHolds(<<>>, T)
<1>1. Matching(Values(<<>>), TicketValues(T))
  BY MatchingEmpty DEF Values, TicketValues
<1> QED
  BY <1>1 DEF QueueHolds, OwnersMatch, NoOrphans

\* A lane has as many tickets as threads wait in it.
LEMMA LengthHeld ==
    ASSUME NEW queue, NEW T, QueueHolds(queue, T)
    PROVE  /\ IsFiniteSet(DOMAIN T)
           /\ Len(queue) = Cardinality(DOMAIN T)
           /\ queue = <<>> <=> DOMAIN T = {}
<1> DEFINE v == Values(queue)
           w == TicketValues(T)
           V == Models \X Stamps
<1>1. v \in Seq(V) /\ Len(v) = Len(queue) /\ Matching(v, w)
  BY ValuesType DEF QueueHolds
<1>2. DOMAIN w = DOMAIN T
  BY DEF TicketValues
<1>3. IsFiniteSet(DOMAIN T) /\ Len(queue) = Cardinality(DOMAIN T)
  <2> HIDE DEF v, w, V
  <2> QED
    BY <1>1, <1>2, MatchingCounts
<1>4. queue = <<>> <=> Len(queue) = 0
  BY EmptySeq DEF QueueHolds
<1> QED
  BY <1>3, <1>4, FS_EmptySet

\* Two tickets are == when their values are equal.
LEMMA SameValueValue ==
    ASSUME NEW t, NEW u
    PROVE  SameValue(t, u) <=> Value(t) = Value(u)
  BY DEF SameValue, Value

\* deque.remove takes out a ticket that is == to the one it is given.
LEMMA RemoveTicketAt ==
    ASSUME NEW S, NEW queue \in Seq(S), NEW t,
           NEW j \in 1 .. Len(queue), SameValue(queue[j], t)
    PROVE  \E m \in 1 .. Len(queue) :
               /\ SameValue(queue[m], t)
               /\ RemoveTicket(queue, t) = RemoveAt(queue, m)
<1> DEFINE I == {i \in 1 .. Len(queue) : SameValue(queue[i], t)}
<1>1. I \in SUBSET Nat /\ j \in I
  OBVIOUS
<1>2. RemoveTicket(queue, t) = RemoveAt(queue, Min(I))
  BY <1>1 DEF RemoveTicket, RemoveFirstMatch, SelectInSeq
<1>3. Min(I) \in I
  <2> HIDE DEF I
  <2> QED
    BY <1>1, MinNat
<1> QED
  BY <1>2, <1>3

\* A ticket whose owner has left is still a ticket.
LEMMA AbandonType ==
    ASSUME NEW q \in Seq(Tickets), NEW r \in Callers
    PROVE  /\ Abandon(q, r) \in Seq(Tickets)
           /\ Len(Abandon(q, r)) = Len(q)
<1>1. /\ Len(q) \in Nat
      /\ DOMAIN q = 1 .. Len(q)
      /\ \A i \in 1 .. Len(q) : q[i] \in Tickets
  BY LenProperties, ElementOfSeq
<1>2. \A t \in Tickets : [t EXCEPT !.owner = Nobody] \in Tickets
  BY DEF Tickets
<1> QED
  BY <1>1, <1>2 DEF Abandon

\* When any ticket with the value of r's has been taken out, the queue holds the
\* tickets of the other threads, whosever ticket it was.
LEMMA QueueWithout ==
    ASSUME NEW queue, NEW T, QueueHolds(queue, T), OwnTickets(T),
           NEW r \in DOMAIN T, NEW m \in 1 .. Len(queue), Value(queue[m]) = Value(T[r])
    PROVE  /\ QueueHolds(Abandon(RemoveAt(queue, m), r), Without(T, r))
           /\ Len(Abandon(RemoveAt(queue, m), r)) = Len(queue) - 1
<1> DEFINE short == RemoveAt(queue, m)
           rest == Abandon(short, r)
<1>0. queue \in Seq(Tickets) /\ r \in Callers
  BY DEF QueueHolds, OwnTickets
<1>1. DOMAIN queue = 1 .. Len(queue) /\ Len(queue) \in Nat
  BY <1>0, LenProperties
<1>2. /\ short \in Seq(Tickets)
      /\ Len(short) = Len(queue) - 1
      /\ DOMAIN short = 1 .. Len(queue) - 1
  BY <1>0, RemoveAtOrigin
<1>3. \A i \in DOMAIN short :
          /\ Origin(m, i) \in DOMAIN queue /\ Origin(m, i) # m
          /\ short[i] = queue[Origin(m, i)]
  <2>1. \A i \in 1 .. Len(queue) - 1 :
            /\ Origin(m, i) \in 1 .. Len(queue) /\ Origin(m, i) # m
            /\ short[i] = queue[Origin(m, i)]
    BY <1>0, RemoveAtOrigin
  <2> HIDE DEF short
  <2> QED
    BY <1>1, <1>2, <2>1
<1>4. \A i, j \in DOMAIN short : Origin(m, i) = Origin(m, j) => i = j
  <2>1. \A i, j \in 1 .. Len(queue) - 1 : Origin(m, i) = Origin(m, j) => i = j
    BY <1>0, RemoveAtOrigin
  <2> HIDE DEF short
  <2> QED
    BY <1>2, <2>1
<1> HIDE DEF short
<1>5. /\ DOMAIN rest = DOMAIN short
      /\ \A i \in DOMAIN short :
             /\ short[i].owner = r => rest[i].owner = Nobody
             /\ short[i].owner # r => rest[i] = short[i]
             /\ Value(rest[i]) = Value(short[i])
  <2>1. \A i \in DOMAIN short : short[i] \in Tickets
    BY <1>2, ElementOfSeq, LenProperties
  <2> QED
    BY <2>1 DEF Abandon, Value, Tickets
<1>6. rest \in Seq(Tickets) /\ Len(rest) = Len(short)
  BY <1>0, <1>2, AbandonType
<1> HIDE DEF rest
<1>7. Matching(Values(rest), TicketValues(Without(T, r)))
  <2> DEFINE v == Values(queue)
             w == TicketValues(T)
             u == TicketValues(Without(T, r))
             V == Models \X Stamps
  <2>1. /\ v \in Seq(V) /\ Len(v) = Len(queue)
        /\ v[m] = w[r]
        /\ Matching(v, w)
    BY <1>0, ValuesType DEF QueueHolds, TicketValues
  <2>2. /\ DOMAIN w = DOMAIN T /\ DOMAIN u = DOMAIN w \ {r}
        /\ \A s \in DOMAIN u : u[s] = w[s]
    BY DEF TicketValues, Without
  <2> HIDE DEF w, u, V
  <2>3. Matching(RemoveAt(v, m), u)
    <3> HIDE DEF v
    <3> QED
      BY <2>1, <2>2, MatchingRemove
  <2>4. RemoveAt(v, m) = Values(rest)
    <3>1. /\ RemoveAt(v, m) \in Seq(V)
          /\ Len(RemoveAt(v, m)) = Len(queue) - 1
      <4> HIDE DEF v
      <4> QED
        BY <2>1, RemoveAtOrigin
    <3>2. \A i \in 1 .. Len(queue) - 1 : RemoveAt(v, m)[i] = v[Origin(m, i)]
      <4> HIDE DEF v
      <4> QED
        BY <2>1, RemoveAtOrigin
    <3>3. /\ Values(rest) \in Seq(V)
          /\ Len(Values(rest)) = Len(queue) - 1
          /\ \A i \in 1 .. Len(queue) - 1 : Values(rest)[i] = Value(rest[i])
      BY <1>2, <1>6, ValuesType DEF V
    <3>4. \A i \in 1 .. Len(queue) - 1 : v[Origin(m, i)] = Value(rest[i])
      BY <1>1, <1>2, <1>3, <1>5 DEF Values
    <3> HIDE DEF v
    <3> QED
      BY <3>1, <3>2, <3>3, <3>4, SeqEqual
  <2> QED
    BY <2>3, <2>4 DEF u
<1>8. OwnersMatch(rest, Without(T, r))
  BY <1>3, <1>4, <1>5 DEF QueueHolds, OwnersMatch, Without
<1>9. ~CoarseClock => NoOrphans(rest)
  <2> SUFFICES ASSUME ~CoarseClock
               PROVE  NoOrphans(rest)
    OBVIOUS
  <2>1. queue[m].owner \in DOMAIN T /\ queue[m] = T[queue[m].owner]
    BY <1>1 DEF QueueHolds, OwnersMatch, NoOrphans
  <2>2. T[queue[m].owner].at = T[r].at
    BY <2>1 DEF Value
  <2>3. queue[m].owner = r
    BY <2>1, <2>2 DEF OwnTickets
  <2>4. \A i \in DOMAIN short : short[i].owner # r
    BY <1>0, <1>1, <1>3, <2>3, SchedulerAssumption DEF QueueHolds, OwnersMatch
  <2> QED
    BY <1>3, <1>5, <2>4 DEF QueueHolds, NoOrphans
<1>10. QueueHolds(rest, Without(T, r))
  BY <1>6, <1>7, <1>8, <1>9 DEF QueueHolds
<1> QED
  BY <1>2, <1>6, <1>10 DEF rest, short

\* Every thread of a queue that holds its ticket finds one to take away.
LEMMA TicketFound ==
    ASSUME NEW queue, NEW T, QueueHolds(queue, T), NEW r \in DOMAIN T
    PROVE  \E m \in 1 .. Len(queue) :
               /\ Value(queue[m]) = Value(T[r])
               /\ RemoveTicket(queue, T[r]) = RemoveAt(queue, m)
<1>1. PICK f : Assigns(f, Values(queue), TicketValues(T))
  BY DEF QueueHolds, Matching
<1>2. /\ queue \in Seq(Tickets)
      /\ DOMAIN Values(queue) = 1 .. Len(queue)
      /\ DOMAIN TicketValues(T) = DOMAIN T /\ TicketValues(T)[r] = Value(T[r])
  BY LenProperties DEF QueueHolds, Values, TicketValues
<1>3. PICK j \in 1 .. Len(queue) : f[j] = r
  BY <1>1, <1>2 DEF Assigns
<1>4. Value(queue[j]) = Value(T[r])
  BY <1>1, <1>2, <1>3 DEF Assigns, Values
<1>5. SameValue(queue[j], T[r])
  BY <1>4, SameValueValue
<1>6. \A m \in 1 .. Len(queue) :
          SameValue(queue[m], T[r]) <=> Value(queue[m]) = Value(T[r])
  BY SameValueValue
<1> QED
  BY <1>2, <1>5, <1>6, RemoveTicketAt

\* _remove_waiter: the queue holds the tickets of the others.
LEMMA QueueLeft ==
    ASSUME NEW queue, NEW T, QueueHolds(queue, T), OwnTickets(T), NEW r \in DOMAIN T
    PROVE  /\ QueueHolds(Abandon(RemoveTicket(queue, T[r]), r), Without(T, r))
           /\ Len(Abandon(RemoveTicket(queue, T[r]), r)) = Len(queue) - 1
<1>1. PICK m \in 1 .. Len(queue) :
          /\ Value(queue[m]) = Value(T[r])
          /\ RemoveTicket(queue, T[r]) = RemoveAt(queue, m)
  BY TicketFound
<1> QED
  BY <1>1, QueueWithout

\* When a thread's own ticket is taken out, no ticket of its own is left.
LEMMA OwnTicketOut ==
    ASSUME NEW queue, NEW T, QueueHolds(queue, T),
           NEW r \in Callers, NEW m \in 1 .. Len(queue), queue[m].owner = r
    PROVE  Abandon(RemoveAt(queue, m), r) = RemoveAt(queue, m)
<1> DEFINE short == RemoveAt(queue, m)
<1>1. queue \in Seq(Tickets) /\ r # Nobody
  BY SchedulerAssumption DEF QueueHolds
<1>2. DOMAIN queue = 1 .. Len(queue)
  BY <1>1, LenProperties
<1>3. /\ short \in Seq(Tickets)
      /\ DOMAIN short = 1 .. Len(queue) - 1
  BY <1>1, RemoveAtOrigin
<1>4. \A i \in 1 .. Len(queue) - 1 :
          /\ Origin(m, i) \in 1 .. Len(queue) /\ Origin(m, i) # m
          /\ short[i] = queue[Origin(m, i)]
  BY <1>1, RemoveAtOrigin
<1> HIDE DEF short
<1>5. \A i \in DOMAIN short : short[i].owner # r
  BY <1>1, <1>2, <1>3, <1>4 DEF QueueHolds, OwnersMatch
<1>6. short = [i \in DOMAIN short |-> short[i]]
  BY <1>3
<1> QED
  BY <1>5, <1>6 DEF Abandon, short

\* The thread at the head takes its own ticket, and no other, out with popleft.
LEMMA QueuePopped ==
    ASSUME NEW queue, NEW T, QueueHolds(queue, T), OwnTickets(T), NEW r \in DOMAIN T,
           queue # <<>>, queue[1].owner = r
    PROVE  /\ QueueHolds(Tail(queue), Without(T, r))
           /\ Len(Tail(queue)) = Len(queue) - 1
<1>1. queue \in Seq(Tickets) /\ r \in Callers /\ r # Nobody
  BY SchedulerAssumption DEF QueueHolds, OwnTickets
<1>2. 1 \in 1 .. Len(queue) /\ Tail(queue) = RemoveAt(queue, 1)
  BY <1>1, TailIsRemoveAt
<1>3. DOMAIN queue = 1 .. Len(queue)
  BY <1>1, LenProperties
<1>4. queue[1] = T[r]
  BY <1>1, <1>2, <1>3 DEF QueueHolds, OwnersMatch
<1>5. /\ QueueHolds(Abandon(RemoveAt(queue, 1), r), Without(T, r))
      /\ Len(Abandon(RemoveAt(queue, 1), r)) = Len(queue) - 1
  BY <1>2, <1>4, QueueWithout
<1>6. Abandon(RemoveAt(queue, 1), r) = RemoveAt(queue, 1)
  BY <1>1, <1>2, OwnTicketOut
<1> QED
  BY <1>2, <1>5, <1>6

\* A call that queues adds its ticket.
LEMMA QueueJoined ==
    ASSUME NEW queue, NEW T, NEW r \in Callers, r \in DOMAIN T,
           T[r] \in Tickets, T[r].owner = r, QueueHolds(queue, Without(T, r))
    PROVE  /\ QueueHolds(Append(queue, T[r]), T)
           /\ Len(Append(queue, T[r])) = Len(queue) + 1
<1> DEFINE t == T[r]
           long == Append(queue, t)
<1>0. queue \in Seq(Tickets) /\ r # Nobody /\ t \in Tickets /\ t.owner = r
  BY SchedulerAssumption DEF QueueHolds
<1>1. DOMAIN queue = 1 .. Len(queue) /\ Len(queue) \in Nat
  BY <1>0, LenProperties
<1>2. /\ long \in Seq(Tickets)
      /\ Len(long) = Len(queue) + 1
      /\ DOMAIN long = 1 .. Len(queue) + 1
      /\ long[Len(queue) + 1] = t
      /\ \A i \in 1 .. Len(queue) : long[i] = queue[i]
  <2> HIDE DEF t
  <2> QED
    BY <1>0, AppendProperties, LenProperties
<1> HIDE DEF long
<1>4. Matching(Values(long), TicketValues(T))
  <2> DEFINE v == Values(queue)
             w == TicketValues(Without(T, r))
             u == TicketValues(T)
             x == Value(t)
             V == Models \X Stamps
  <2>1. /\ v \in Seq(V) /\ Len(v) = Len(queue)
        /\ \A i \in 1 .. Len(queue) : v[i] = Value(queue[i])
        /\ Matching(v, w)
    BY <1>0, ValuesType DEF QueueHolds
  <2>2. /\ r \in DOMAIN u /\ DOMAIN w = DOMAIN u \ {r}
        /\ u[r] = x
        /\ \A s \in DOMAIN w : u[s] = w[s]
    BY DEF TicketValues, Without
  <2>3. x \in V
    BY <1>0 DEF Value, Tickets
  <2> HIDE DEF w, u, v, x, V
  <2>5. Matching(Append(v, x), u)
    BY <2>1, <2>2, <2>3, MatchingAppend
  <2>6. Append(v, x) = Values(long)
    <3>1. /\ Append(v, x) \in Seq(V)
          /\ Len(Append(v, x)) = Len(queue) + 1
          /\ \A i \in 1 .. Len(queue) : Append(v, x)[i] = v[i]
          /\ Append(v, x)[Len(queue) + 1] = x
      BY <2>1, <2>3, AppendProperties
    <3>2. /\ Values(long) \in Seq(V)
          /\ Len(Values(long)) = Len(queue) + 1
          /\ \A i \in 1 .. Len(queue) + 1 : Values(long)[i] = Value(long[i])
      BY <1>2, ValuesType DEF V
    <3>3. \A i \in 1 .. Len(queue) + 1 : Append(v, x)[i] = Values(long)[i]
      BY <1>1, <1>2, <2>1, <3>1, <3>2 DEF x
    <3> QED
      BY <3>1, <3>2, <3>3, SeqEqual
  <2> QED
    BY <2>5, <2>6 DEF u
<1>5. OwnersMatch(long, T)
  <2>1. /\ \A i \in DOMAIN queue :
               queue[i].owner # Nobody =>
                   /\ queue[i].owner \in DOMAIN T \ {r}
                   /\ queue[i] = T[queue[i].owner]
        /\ \A i, j \in DOMAIN queue :
               queue[i].owner # Nobody /\ queue[i].owner = queue[j].owner => i = j
    BY DEF QueueHolds, OwnersMatch, Without
  <2>2. /\ \A i \in DOMAIN queue : long[i] = queue[i]
        /\ \A i \in DOMAIN long : i \in DOMAIN queue \/ i = Len(queue) + 1
        /\ long[Len(queue) + 1].owner = r /\ long[Len(queue) + 1] = T[r]
    BY <1>0, <1>1, <1>2
  <2> HIDE DEF t
  <2>3. \A i \in DOMAIN long :
            long[i].owner # Nobody =>
                long[i].owner \in DOMAIN T /\ long[i] = T[long[i].owner]
    BY <2>1, <2>2
  <2>4. \A i, j \in DOMAIN long :
            long[i].owner # Nobody /\ long[i].owner = long[j].owner => i = j
    BY <2>1, <2>2
  <2> QED
    BY <2>3, <2>4 DEF OwnersMatch
<1>6. ~CoarseClock => NoOrphans(long)
  BY <1>0, <1>1, <1>2 DEF QueueHolds, NoOrphans
<1> QED
  BY <1>2, <1>4, <1>5, <1>6 DEF QueueHolds, long

-----------------------------------------------------------------------------
\* The inductive invariant

InCall == {r \in Callers : pc[r] \in {"calling", "waiting"}}

\* The tickets of the calls of the threads in S.
TicketsOf(S) == [s \in S |-> Ticket(s)]

TypeOK ==
    /\ lanes \in [Keys -> Lanes \cup {NoLane}]
    /\ active \in [Lanes -> Nat]
    /\ waiters \in [Lanes -> Seq(Tickets)]
    /\ queued \in Nat
    /\ pc \in [Callers -> {"idle", "calling", "waiting", "leased"} \cup Raised]
    /\ key \in [Callers -> Keys \cup {NoKey}]
    /\ lane \in [Callers -> Lanes \cup {NoLane}]
    /\ model \in [Callers -> Models \cup {""}]
    /\ stamp \in [Callers -> Stamps \cup {NoStamp}]
    /\ left \in [Callers -> Nat]
    /\ timer \in [Callers -> Nat]
    /\ notified \in SUBSET Callers
    /\ released \in [Callers -> BOOLEAN]
    /\ gone \in SUBSET Callers
    /\ reading \in Stamps \cup {NoStamp}

\* A thread has a key from the start of its call to the end of its lease,
\* whoever may still append a ticket has read the clock, and only a lease can
\* have been released.
CallShape ==
    \A r \in Callers :
        /\ key[r] \in Keys <=> pc[r] \in {"calling", "waiting", "leased"}
        /\ pc[r] \in {"calling", "waiting"} => stamp[r] \in Stamps /\ model[r] \in Models
        /\ pc[r] # "leased" => ~released[r]

\* A clock that never repeats a reading tells the calls apart.
StampsDistinct == ~CoarseClock => \A q, r \in InCall : stamp[q] = stamp[r] => q = r

\* The dictionary holds the lane of a key exactly while somebody uses the key;
\* it is the lane that all of them work on, and it is right about them.
LaneRight(f) ==
    /\ lanes[f] = NoLane <=> Holders(f) \cup WaitingFor(f) = {}
    /\ \A r \in WaitingFor(f) : lane[r] = lanes[f]
    /\ lanes[f] # NoLane =>
           /\ active[lanes[f]] = Cardinality(Holders(f))
           /\ QueueHolds(waiters[lanes[f]], TicketsOf(WaitingFor(f)))
           /\ Len(waiters[lanes[f]]) <= MaxQueuePerKey
    /\ Cardinality(Holders(f)) <= MaxConcurrentPerKey

\* No two keys share a lane object, and one that is not in the dictionary is as
\* good as new.
LanesRight ==
    /\ \A f, g \in Keys : lanes[f] = lanes[g] /\ lanes[f] # NoLane => f = g
    /\ \A f \in Keys : LaneRight(f)
    /\ \A l \in Lanes :
           (\A f \in Keys : lanes[f] # l) => active[l] = 0 /\ waiters[l] = <<>>

CountRight == queued = Cardinality(Waiting) /\ queued <= MaxTotalQueued

SchedInv == TypeOK /\ CallShape /\ StampsDistinct /\ LanesRight /\ CountRight

\* A thread may work on lane object l for key f: it is the key's lane, or is
\* about to be.
Works(f, l) ==
    /\ l \in Lanes
    /\ lanes[f] \in {NoLane, l}
    /\ \A g \in Keys \ {f} : lanes[g] # l
    /\ active[l] = Cardinality(Holders(f))
    /\ QueueHolds(waiters[l], TicketsOf(WaitingFor(f)))
    /\ Len(waiters[l]) <= MaxQueuePerKey

\* A step that only the thread r takes part in.
OnlyMoves(r) ==
    \A s \in Callers \ {r} :
        /\ pc'[s] = pc[s] /\ key'[s] = key[s] /\ lane'[s] = lane[s]
        /\ model'[s] = model[s] /\ stamp'[s] = stamp[s] /\ released'[s] = released[s]

\* No lane object is NoLane.
LEMMA NoLaneIsNone == NoLane \notin Lanes
<1>1. Cardinality(Keys) \in Nat /\ Cardinality(Callers) \in Nat
  BY SchedulerAssumption, FS_CardinalityType
<1> QED
  BY <1>1 DEF NoLane, Lanes

\* The numbers of threads are numbers.
LEMMA Finite ==
    ASSUME NEW S \in SUBSET Callers
    PROVE  IsFiniteSet(S) /\ Cardinality(S) \in Nat
  BY SchedulerAssumption, FS_Subset, FS_CardinalityType

\* The tickets of calls in progress belong to their threads.
LEMMA TicketsOwned ==
    ASSUME TypeOK, CallShape, StampsDistinct, NEW S, S \subseteq InCall
    PROVE  OwnTickets(TicketsOf(S)) /\ DOMAIN TicketsOf(S) = S
<1>1. /\ DOMAIN TicketsOf(S) = S /\ S \subseteq Callers
      /\ \A s \in S : TicketsOf(S)[s] = Ticket(s)
  BY DEF TicketsOf, InCall
<1>2. \A s \in S : Ticket(s) \in Tickets /\ Ticket(s).owner = s
  BY <1>1 DEF Ticket, Tickets, CallShape, InCall
<1>3. ~CoarseClock => \A q, s \in S : Ticket(q).at = Ticket(s).at => q = s
  BY DEF Ticket, StampsDistinct
<1> QED
  BY <1>1, <1>2, <1>3 DEF OwnTickets

\* The lane of a key that the dictionary holds can be worked on.
LEMMA LaneInUse ==
    ASSUME TypeOK, LanesRight, NEW f \in Keys, lanes[f] # NoLane
    PROVE  Works(f, lanes[f])
  BY DEF TypeOK, LanesRight, LaneRight, Works

\* setdefault gives a lane that can be worked on, be it new or not.
LEMMA LaneSeen ==
    ASSUME TypeOK, LanesRight, NEW f \in Keys, NEW l \in Lanes, LaneFor(f, l)
    PROVE  Works(f, l)
<1>1. CASE lanes[f] # NoLane
  BY <1>1, LaneInUse DEF LaneFor
<1>2. CASE lanes[f] = NoLane
  <2>1. Holders(f) = {} /\ WaitingFor(f) = {}
    BY <1>2 DEF LanesRight, LaneRight
  <2>2. \A g \in Keys : lanes[g] # l
    BY <1>2 DEF LaneFor, Unreferenced
  <2>3. active[l] = 0 /\ waiters[l] = <<>>
    BY <2>2 DEF LanesRight
  <2>4. Cardinality(Holders(f)) = 0
    BY <2>1, FS_EmptySet
  <2>5. QueueHolds(waiters[l], TicketsOf(WaitingFor(f)))
    BY <2>1, <2>3, EmptyHolds DEF TicketsOf
  <2>6. Len(waiters[l]) <= MaxQueuePerKey
    BY <2>3, SchedulerAssumption
  <2> QED
    BY <1>2, <2>2, <2>3, <2>4, <2>5, <2>6 DEF Works
<1> QED
  BY <1>1, <1>2

\* A step of one thread concerns the lane of its own key only.
LEMMA OthersKept ==
    ASSUME NEW r \in Callers, OnlyMoves(r), NEW f, key[r] \in {f, NoKey},
           key'[r] \in {f, NoKey}, NEW g \in Keys \ {f}
    PROVE  /\ Holders(g)' = Holders(g)
           /\ WaitingFor(g)' = WaitingFor(g)
           /\ TicketsOf(WaitingFor(g))' = TicketsOf(WaitingFor(g))
<1>1. g # NoKey /\ key[r] # g /\ key'[r] # g
  BY SchedulerAssumption
<1>2. Holders(g)' = Holders(g)
  BY <1>1 DEF Holders, OnlyMoves
<1>3. WaitingFor(g)' = WaitingFor(g) /\ r \notin WaitingFor(g)
  BY <1>1 DEF WaitingFor, Waiting, OnlyMoves
<1>4. \A s \in WaitingFor(g) : Ticket(s)' = Ticket(s)
  BY <1>3 DEF WaitingFor, Waiting, OnlyMoves, Ticket
<1>5. TicketsOf(WaitingFor(g))' = TicketsOf(WaitingFor(g))
  BY <1>3, <1>4 DEF TicketsOf
<1> QED
  BY <1>2, <1>3, <1>5

\* A thread changes the lane of its key and its own part in it, and drops the
\* lane from the dictionary exactly when nobody is left.
LEMMA LaneMoves ==
    ASSUME TypeOK, LanesRight, NEW r \in Callers, OnlyMoves(r),
           NEW f \in Keys, key[r] = f, key'[r] \in {f, NoKey},
           NEW l, Works(f, l),
           lanes' = [lanes EXCEPT ![f] =
                         IF Holders(f)' \cup WaitingFor(f)' = {} THEN NoLane ELSE l],
           \A k \in Lanes \ {l} : active'[k] = active[k] /\ waiters'[k] = waiters[k],
           active'[l] = Cardinality(Holders(f)'),
           Cardinality(Holders(f)') <= MaxConcurrentPerKey,
           QueueHolds(waiters'[l], TicketsOf(WaitingFor(f))'),
           Len(waiters'[l]) <= MaxQueuePerKey,
           r \in WaitingFor(f)' => lane'[r] = l
    PROVE  LanesRight'
<1> DEFINE H == Holders(f)'
           W == WaitingFor(f)'
<1>1. \A g \in Keys \ {f} :
          /\ Holders(g)' = Holders(g)
          /\ WaitingFor(g)' = WaitingFor(g)
          /\ TicketsOf(WaitingFor(g))' = TicketsOf(WaitingFor(g))
  BY OthersKept
<1>2. /\ l \in Lanes /\ l # NoLane /\ lanes[f] \in {NoLane, l}
      /\ \A g \in Keys \ {f} : lanes[g] # l /\ lanes'[g] = lanes[g]
      /\ lanes'[f] = IF H \cup W = {} THEN NoLane ELSE l
      /\ \A g \in Keys : lanes[g] \in Lanes \cup {NoLane}
  BY NoLaneIsNone DEF Works, TypeOK
<1>3. \A g, h \in Keys : lanes'[g] = lanes'[h] /\ lanes'[g] # NoLane => g = h
  BY <1>2 DEF LanesRight
<1>4. ASSUME NEW g \in Keys \ {f}
      PROVE  LaneRight(g)'
  <2>1. LaneRight(g) /\ lanes'[g] = lanes[g]
    BY <1>2 DEF LanesRight
  <2>2. lanes[g] # NoLane =>
            active'[lanes[g]] = active[lanes[g]] /\ waiters'[lanes[g]] = waiters[lanes[g]]
    BY <1>2
  <2>3. \A s \in WaitingFor(g) : lane'[s] = lane[s]
    <3>1. r \notin WaitingFor(g)
      BY DEF WaitingFor
    <3> QED
      BY <3>1 DEF OnlyMoves, WaitingFor, Waiting
  <2>4. lanes'[g] = NoLane <=> Holders(g)' \cup WaitingFor(g)' = {}
    BY <1>1, <2>1 DEF LaneRight
  <2>5. \A s \in WaitingFor(g)' : lane'[s] = lanes'[g]
    BY <1>1, <2>1, <2>3 DEF LaneRight
  <2>6. lanes'[g] # NoLane =>
            /\ active'[lanes'[g]] = Cardinality(Holders(g)')
            /\ QueueHolds(waiters'[lanes'[g]], TicketsOf(WaitingFor(g))')
            /\ Len(waiters'[lanes'[g]]) <= MaxQueuePerKey
    BY <1>1, <2>1, <2>2 DEF LaneRight
  <2>7. Cardinality(Holders(g)') <= MaxConcurrentPerKey
    BY <1>1, <2>1 DEF LaneRight
  <2> QED
    BY <2>4, <2>5, <2>6, <2>7 DEF LaneRight
<1>5. LaneRight(f)'
  <2>1. lanes'[f] = NoLane <=> H \cup W = {}
    BY <1>2
  <2>2. ASSUME NEW s \in W
        PROVE  lane'[s] = lanes'[f]
    <3>1. lanes'[f] = l
      BY <1>2
    <3>2. CASE s # r
      <4>1. s \in WaitingFor(f) /\ lane'[s] = lane[s]
        BY <3>2 DEF WaitingFor, Waiting, OnlyMoves
      <4>2. lanes[f] = l
        BY <1>2, <4>1 DEF LanesRight, LaneRight
      <4> QED
        BY <3>1, <4>1, <4>2 DEF LanesRight, LaneRight
    <3> QED
      BY <3>1, <3>2
  <2>3. lanes'[f] # NoLane => lanes'[f] = l
    BY <1>2
  <2>4. lanes'[f] # NoLane =>
            /\ active'[lanes'[f]] = Cardinality(Holders(f)')
            /\ QueueHolds(waiters'[lanes'[f]], TicketsOf(WaitingFor(f))')
            /\ Len(waiters'[lanes'[f]]) <= MaxQueuePerKey
    BY <2>3
  <2> QED
    BY <2>1, <2>2, <2>4 DEF LaneRight
<1>6. ASSUME NEW k \in Lanes, \A g \in Keys : lanes'[g] # k
      PROVE  active'[k] = 0 /\ waiters'[k] = <<>>
  <2>1. CASE k = l
    <3>1. H = {} /\ W = {}
      BY <1>2, <1>6, <2>1
    <3>2. Cardinality(H) = 0
      BY <3>1, FS_EmptySet
    <3>3. DOMAIN TicketsOf(WaitingFor(f))' = {}
      BY <3>1 DEF TicketsOf
    <3>4. waiters'[l] = <<>>
      BY <3>3, LengthHeld
    <3> QED
      BY <2>1, <3>2, <3>4
  <2>2. CASE k # l
    <3>1. \A g \in Keys : lanes[g] # k
      BY <1>2, <1>6, <2>2, NoLaneIsNone
    <3> QED
      BY <2>2, <3>1 DEF LanesRight
  <2> QED
    BY <2>1, <2>2
<1> QED
  BY <1>3, <1>4, <1>5, <1>6 DEF LanesRight

\* The types of what belongs to the threads.
CallTypes ==
    /\ pc \in [Callers -> {"idle", "calling", "waiting", "leased"} \cup Raised]
    /\ key \in [Callers -> Keys \cup {NoKey}]
    /\ lane \in [Callers -> Lanes \cup {NoLane}]
    /\ model \in [Callers -> Models \cup {""}]
    /\ stamp \in [Callers -> Stamps \cup {NoStamp}]
    /\ left \in [Callers -> Nat]
    /\ timer \in [Callers -> Nat]
    /\ released \in [Callers -> BOOLEAN]

\* The end of a call, with an exception or with a lease.
Ends(r, outcome) ==
    /\ EndCall(r, outcome)
    /\ \/ /\ outcome \in Raised
          /\ key' = [key EXCEPT ![r] = NoKey]
          /\ UNCHANGED released
       \/ /\ outcome = "leased"
          /\ UNCHANGED key
          /\ released' = [released EXCEPT ![r] = FALSE]

\* What the end of a call means for its thread and key.
LEMMA CallEnds ==
    ASSUME TypeOK, CallShape, StampsDistinct, NEW r \in Callers,
           NEW f \in Keys, key[r] = f, pc[r] \in {"calling", "waiting"},
           NEW outcome, Ends(r, outcome)
    PROVE  /\ CallTypes' /\ CallShape' /\ StampsDistinct' /\ OnlyMoves(r)
           /\ key'[r] \in {f, NoKey}
           /\ Waiting' = Waiting \ {r}
           /\ r \notin WaitingFor(f)'
           /\ WaitingFor(f)' = WaitingFor(f) \ {r}
           /\ TicketsOf(WaitingFor(f))' = Without(TicketsOf(WaitingFor(f) \cup {r}), r)
           /\ r \notin Holders(f)
           /\ Holders(f)' = IF outcome = "leased" THEN Holders(f) \cup {r} ELSE Holders(f)
<1> NoKey \notin Keys /\ "leased" \notin Raised /\ "calling" \notin Raised /\ "waiting" \notin Raised
  BY SchedulerAssumption DEF Raised
<1>1. /\ pc' = [pc EXCEPT ![r] = outcome]
      /\ lane' = [lane EXCEPT ![r] = NoLane]
      /\ model' = [model EXCEPT ![r] = ""]
      /\ stamp' = [stamp EXCEPT ![r] = NoStamp]
      /\ left' = [left EXCEPT ![r] = 0]
      /\ timer' = [timer EXCEPT ![r] = 0]
      /\ outcome \in Raised \cup {"leased"}
  BY DEF Ends, EndCall
<1>2. CallTypes'
  BY <1>1 DEF TypeOK, CallTypes, Ends
<1>3. OnlyMoves(r)
  BY <1>1 DEF TypeOK, OnlyMoves, Ends
<1>4. /\ pc'[r] = outcome
      /\ key'[r] = IF outcome = "leased" THEN f ELSE NoKey
      /\ outcome = "leased" => ~released'[r]
      /\ outcome # "leased" => released'[r] = released[r]
  BY <1>1 DEF TypeOK, Ends
<1>5. CallShape'
  <2> SUFFICES ASSUME NEW s \in Callers
               PROVE  /\ key'[s] \in Keys <=> pc'[s] \in {"calling", "waiting", "leased"}
                      /\ pc'[s] \in {"calling", "waiting"} =>
                             stamp'[s] \in Stamps /\ model'[s] \in Models
                      /\ pc'[s] # "leased" => ~released'[s]
    BY DEF CallShape
  <2>1. CASE s # r
    BY <1>3, <2>1 DEF CallShape, OnlyMoves
  <2>2. CASE s = r
    <3>1. ~released[r]
      BY DEF CallShape
    <3> QED
      BY <1>1, <1>4, <2>2, <3>1
  <2> QED
    BY <2>1, <2>2
<1>6. InCall' = InCall \ {r}
  BY <1>1, <1>3, <1>4 DEF InCall, OnlyMoves
<1>7. StampsDistinct'
  BY <1>3, <1>6 DEF StampsDistinct, OnlyMoves, InCall
<1>8. Waiting' = Waiting \ {r}
  BY <1>1, <1>3, <1>4 DEF Waiting, OnlyMoves
<1>9. WaitingFor(f)' = WaitingFor(f) \ {r}
  BY <1>3, <1>8 DEF WaitingFor, Waiting, OnlyMoves
<1>10. \A s \in WaitingFor(f) \ {r} : Ticket(s)' = Ticket(s)
  BY <1>3 DEF WaitingFor, Waiting, OnlyMoves, Ticket
<1>11. TicketsOf(WaitingFor(f))' = Without(TicketsOf(WaitingFor(f) \cup {r}), r)
  BY <1>9, <1>10 DEF TicketsOf, Without
<1>12. r \notin Holders(f)
  BY DEF Holders
<1>13. Holders(f)' = IF outcome = "leased" THEN Holders(f) \cup {r} ELSE Holders(f)
  BY <1>1, <1>3, <1>4, <1>12 DEF Holders, OnlyMoves
<1> QED
  BY <1>2, <1>3, <1>4, <1>5, <1>7, <1>8, <1>9, <1>11, <1>12, <1>13

\* One pass of acquire's loop by r, on lane l with this queue and total count.
InLoop(r, l, queue, total) ==
    /\ pc[r] \in {"calling", "waiting"}
    /\ l = lanes[key[r]] /\ l # NoLane
    /\ QueueHolds(queue, TicketsOf(WaitingFor(key[r]) \cup {r}))
    /\ Len(queue) <= MaxQueuePerKey
    /\ total = Cardinality(Waiting \cup {r}) /\ total <= MaxTotalQueued

\* What a pass of the loop can rely on.
LEMMA LoopFacts ==
    ASSUME SchedInv, NEW r \in Callers, NEW l, NEW queue, NEW total,
           InLoop(r, l, queue, total)
    PROVE  /\ key[r] \in Keys /\ lanes[key[r]] = l /\ l \in Lanes /\ Works(key[r], l)
           /\ queue \in Seq(Tickets) /\ Len(queue) \in Nat
           /\ OwnTickets(TicketsOf(WaitingFor(key[r]) \cup {r}))
           /\ DOMAIN TicketsOf(WaitingFor(key[r]) \cup {r}) = WaitingFor(key[r]) \cup {r}
           /\ TicketsOf(WaitingFor(key[r]) \cup {r})[r] = Ticket(r)
           /\ total - 1 = Cardinality(Waiting \ {r})
           /\ total - 1 \in Nat /\ total - 1 <= MaxTotalQueued
<1>1. key[r] \in Keys
  BY DEF SchedInv, CallShape, InLoop
<1>2. lanes[key[r]] = l /\ l # NoLane /\ l \in Lanes
  BY <1>1 DEF InLoop, SchedInv, TypeOK
<1>3. Works(key[r], l)
  BY <1>1, <1>2, LaneInUse DEF SchedInv
<1>4. queue \in Seq(Tickets) /\ Len(queue) \in Nat
  BY LenProperties DEF InLoop, QueueHolds
<1>5. WaitingFor(key[r]) \cup {r} \subseteq InCall
  BY DEF WaitingFor, Waiting, InCall, InLoop
<1>6. /\ OwnTickets(TicketsOf(WaitingFor(key[r]) \cup {r}))
      /\ DOMAIN TicketsOf(WaitingFor(key[r]) \cup {r}) = WaitingFor(key[r]) \cup {r}
  BY <1>5, TicketsOwned DEF SchedInv
<1>7. TicketsOf(WaitingFor(key[r]) \cup {r})[r] = Ticket(r)
  BY DEF TicketsOf
<1>8. total - 1 = Cardinality(Waiting \ {r}) /\ total - 1 \in Nat /\ total - 1 <= MaxTotalQueued
  <2> DEFINE S == Waiting \cup {r}
  <2>1. S \in SUBSET Callers /\ r \in S /\ S \ {r} = Waiting \ {r} /\ S \ {r} \in SUBSET Callers
    BY DEF Waiting
  <2>2. total = Cardinality(S) /\ total <= MaxTotalQueued /\ MaxTotalQueued \in Nat
    BY SchedulerAssumption DEF InLoop
  <2> HIDE DEF S
  <2>3. IsFiniteSet(S) /\ Cardinality(S) \in Nat /\ Cardinality(S \ {r}) \in Nat
    BY <2>1, Finite
  <2>4. Cardinality(S \ {r}) = Cardinality(S) - 1
    BY <2>1, <2>3, FS_RemoveElement
  <2> QED
    BY <2>1, <2>2, <2>3, <2>4
<1> QED
  BY <1>1, <1>2, <1>3, <1>4, <1>6, <1>7, <1>8

\* A call that leaves with an exception, and drops its lane if it was the last.
LEMMA LeaveKeeps ==
    ASSUME SchedInv, NEW r \in Callers, NEW l, NEW queue, NEW total,
           InLoop(r, l, queue, total), NEW outcome \in Raised,
           Leave(r, l, queue, total, outcome), UNCHANGED <<gone, reading>>
    PROVE  SchedInv'
<1>0. PICK f \in Keys : f = key[r]
  BY LoopFacts
<1>T. PICK T : T = TicketsOf(WaitingFor(f) \cup {r})
  OBVIOUS
<1> DEFINE rest == Abandon(RemoveTicket(queue, Ticket(r)), r)
<1>1. /\ f \in Keys /\ lanes[f] = l /\ l \in Lanes /\ Works(f, l)
      /\ queue \in Seq(Tickets) /\ Len(queue) \in Nat
      /\ OwnTickets(T) /\ DOMAIN T = WaitingFor(f) \cup {r} /\ T[r] = Ticket(r)
      /\ total - 1 = Cardinality(Waiting \ {r})
      /\ total - 1 \in Nat /\ total - 1 <= MaxTotalQueued
  BY <1>0, <1>T, LoopFacts
<1>2. /\ waiters' = [waiters EXCEPT ![l] = rest]
      /\ queued' = total - 1
      /\ lanes' = WithoutIdleLane(f, active[l], rest)
      /\ notified' = Waiting \ {r}
      /\ active' = active
      /\ Ends(r, outcome)
  BY <1>0 DEF Leave, NotifyAll, Raise, Ends
<1>3. /\ CallTypes' /\ CallShape' /\ StampsDistinct' /\ OnlyMoves(r)
      /\ key'[r] \in {f, NoKey}
      /\ Waiting' = Waiting \ {r} /\ r \notin WaitingFor(f)'
      /\ WaitingFor(f)' = WaitingFor(f) \ {r}
      /\ TicketsOf(WaitingFor(f))' = Without(T, r)
      /\ Holders(f)' = Holders(f)
  <2>1. pc[r] \in {"calling", "waiting"} /\ outcome # "leased"
    BY DEF InLoop, Raised
  <2>2. TypeOK /\ CallShape /\ StampsDistinct
    BY DEF SchedInv
  <2> QED
    BY <1>0, <1>T, <1>2, <2>1, <2>2, CallEnds
<1>4. /\ QueueHolds(rest, TicketsOf(WaitingFor(f))')
      /\ Len(rest) <= MaxQueuePerKey
  <2>1. QueueHolds(queue, T) /\ Len(queue) <= MaxQueuePerKey /\ MaxQueuePerKey \in Nat
    BY <1>0, <1>T, SchedulerAssumption DEF InLoop
  <2>2. /\ QueueHolds(Abandon(RemoveTicket(queue, T[r]), r), Without(T, r))
        /\ Len(Abandon(RemoveTicket(queue, T[r]), r)) = Len(queue) - 1
    BY <1>1, <2>1, QueueLeft
  <2> QED
    BY <1>1, <1>3, <2>1, <2>2
<1> HIDE DEF rest
<1>5. rest = <<>> <=> WaitingFor(f)' = {}
  <2>1. DOMAIN TicketsOf(WaitingFor(f))' = WaitingFor(f)'
    BY DEF TicketsOf
  <2> QED
    BY <1>4, <2>1, LengthHeld
<1>6. /\ Holders(f) \in SUBSET Callers
      /\ active[l] = Cardinality(Holders(f)) /\ Cardinality(Holders(f)) <= MaxConcurrentPerKey
      /\ lanes[f] = l
  BY <1>1 DEF Works, Holders, SchedInv, LanesRight, LaneRight
<1>7. active[l] = 0 <=> Holders(f) = {}
  BY <1>6, Finite, FS_EmptySet
<1>8. lanes' = [lanes EXCEPT ![f] =
                    IF Holders(f)' \cup WaitingFor(f)' = {} THEN NoLane ELSE l]
  <2>1. lanes = [lanes EXCEPT ![f] = l]
    BY <1>1 DEF SchedInv, TypeOK
  <2> QED
    BY <1>2, <1>3, <1>5, <1>7, <2>1 DEF WithoutIdleLane
<1>9. waiters'[l] = rest /\ \A k \in Lanes \ {l} : active'[k] = active[k] /\ waiters'[k] = waiters[k]
  BY <1>1, <1>2 DEF SchedInv, TypeOK
<1>10. LanesRight'
  <2>1. TypeOK /\ LanesRight
    BY DEF SchedInv
  <2>2. active'[l] = Cardinality(Holders(f)') /\ Cardinality(Holders(f)') <= MaxConcurrentPerKey
    BY <1>2, <1>3, <1>6
  <2> QED
    BY <1>0, <1>1, <1>3, <1>4, <1>8, <1>9, <2>1, <2>2, LaneMoves
<1>11. TypeOK'
  <2>1. rest \in Seq(Tickets)
    BY <1>4 DEF QueueHolds
  <2>2. waiters' \in [Lanes -> Seq(Tickets)]
    BY <1>2, <2>1 DEF SchedInv, TypeOK
  <2>3. lanes' \in [Keys -> Lanes \cup {NoLane}] /\ active' \in [Lanes -> Nat]
    BY <1>1, <1>2, <1>8 DEF SchedInv, TypeOK
  <2>4. notified' \in SUBSET Callers /\ queued' \in Nat
    BY <1>1, <1>2 DEF Waiting
  <2> QED
    BY <1>3, <2>2, <2>3, <2>4 DEF CallTypes, SchedInv, TypeOK
<1>12. CountRight'
  BY <1>1, <1>2, <1>3 DEF CountRight
<1> QED
  BY <1>3, <1>10, <1>11, <1>12 DEF SchedInv

\* A thread that gets a lease is one holder more.
LEMMA HolderAdded ==
    ASSUME NEW H \in SUBSET Callers, NEW r \in Callers \ H
    PROVE  Cardinality(H \cup {r}) = Cardinality(H) + 1
<1>1. IsFiniteSet(H)
  BY Finite
<1> QED
  BY <1>1, FS_AddElement

\* A call that is admitted from the head of its lane.
LEMMA GrantKeeps ==
    ASSUME SchedInv, NEW r \in Callers, NEW l, NEW queue, NEW total,
           InLoop(r, l, queue, total),
           LoopGrant(r, l, queue, total), UNCHANGED <<gone, reading>>
    PROVE  SchedInv'
<1>0. PICK f \in Keys : f = key[r]
  BY LoopFacts
<1>T. PICK T : T = TicketsOf(WaitingFor(f) \cup {r})
  OBVIOUS
<1>1. /\ f \in Keys /\ lanes[f] = l /\ l \in Lanes /\ Works(f, l)
      /\ queue \in Seq(Tickets) /\ Len(queue) \in Nat
      /\ OwnTickets(T) /\ DOMAIN T = WaitingFor(f) \cup {r} /\ T[r] = Ticket(r)
      /\ total - 1 = Cardinality(Waiting \ {r})
      /\ total - 1 \in Nat /\ total - 1 <= MaxTotalQueued
  BY <1>0, <1>T, LoopFacts
<1>2. /\ waiters' = [waiters EXCEPT ![l] = Tail(queue)]
      /\ queued' = total - 1
      /\ lanes' = lanes
      /\ notified' = Waiting \ {r}
      /\ active' = [active EXCEPT ![l] = @ + 1]
      /\ active[l] < MaxConcurrentPerKey
      /\ queue # <<>> /\ queue[1].owner = r
      /\ Ends(r, "leased")
  BY <1>0 DEF LoopGrant, MayAdmit, NotifyAll, Grant, Ends
<1>3. /\ CallTypes' /\ CallShape' /\ StampsDistinct' /\ OnlyMoves(r)
      /\ key'[r] \in {f, NoKey}
      /\ Waiting' = Waiting \ {r} /\ r \notin WaitingFor(f)'
      /\ TicketsOf(WaitingFor(f))' = Without(T, r)
      /\ r \notin Holders(f)
      /\ Holders(f)' = Holders(f) \cup {r}
  <2>1. pc[r] \in {"calling", "waiting"}
    BY DEF InLoop
  <2>2. TypeOK /\ CallShape /\ StampsDistinct
    BY DEF SchedInv
  <2> QED
    BY <1>0, <1>T, <1>2, <2>1, <2>2, CallEnds
<1>4. /\ QueueHolds(Tail(queue), TicketsOf(WaitingFor(f))')
      /\ Len(Tail(queue)) <= MaxQueuePerKey
  <2>1. QueueHolds(queue, T) /\ Len(queue) <= MaxQueuePerKey /\ MaxQueuePerKey \in Nat
    BY <1>0, <1>T, SchedulerAssumption DEF InLoop
  <2>2. QueueHolds(Tail(queue), Without(T, r)) /\ Len(Tail(queue)) = Len(queue) - 1
    BY <1>1, <1>2, <2>1, QueuePopped
  <2> QED
    BY <1>1, <1>3, <2>1, <2>2
<1>5. Holders(f)' # {}
  BY <1>3
<1>6. /\ active[l] \in Nat /\ MaxConcurrentPerKey \in Nat
      /\ active'[l] = active[l] + 1
      /\ Tail(queue) = waiters'[l]
      /\ \A k \in Lanes \ {l} : active'[k] = active[k] /\ waiters'[k] = waiters[k]
  BY <1>1, <1>2, SchedulerAssumption DEF SchedInv, TypeOK
<1>7. active'[l] = Cardinality(Holders(f)') /\ Cardinality(Holders(f)') <= MaxConcurrentPerKey
  <2>1. Holders(f) \in SUBSET Callers /\ active[l] = Cardinality(Holders(f))
    BY <1>1 DEF Works, Holders
  <2>2. Cardinality(Holders(f)') = Cardinality(Holders(f)) + 1
    BY <1>3, <2>1, HolderAdded
  <2> QED
    BY <1>2, <1>6, <2>1, <2>2
<1>8. lanes' = [lanes EXCEPT ![f] =
                    IF Holders(f)' \cup WaitingFor(f)' = {} THEN NoLane ELSE l]
  <2>1. lanes = [lanes EXCEPT ![f] = l]
    BY <1>1 DEF SchedInv, TypeOK
  <2> QED
    BY <1>2, <1>5, <2>1
<1>9. LanesRight'
  <2>1. TypeOK /\ LanesRight
    BY DEF SchedInv
  <2> QED
    BY <1>0, <1>1, <1>3, <1>4, <1>6, <1>7, <1>8, <2>1, LaneMoves
<1>10. TypeOK'
  <2>1. Tail(queue) \in Seq(Tickets)
    BY <1>4 DEF QueueHolds
  <2>2. waiters' \in [Lanes -> Seq(Tickets)]
    BY <1>2, <2>1 DEF SchedInv, TypeOK
  <2>3. lanes' \in [Keys -> Lanes \cup {NoLane}]
    BY <1>2 DEF SchedInv, TypeOK
  <2>4. active' \in [Lanes -> Nat]
    <3>1. active \in [Lanes -> Nat]
      BY DEF SchedInv, TypeOK
    <3>2. active[l] + 1 \in Nat
      BY <1>6
    <3> QED
      BY <1>2, <3>1, <3>2
  <2>5. notified' \in SUBSET Callers /\ queued' \in Nat
    BY <1>1, <1>2 DEF Waiting
  <2> QED
    BY <1>3, <2>2, <2>3, <2>4, <2>5 DEF CallTypes, SchedInv, TypeOK
<1>11. CountRight'
  BY <1>1, <1>2, <1>3 DEF CountRight
<1> QED
  BY <1>3, <1>9, <1>10, <1>11 DEF SchedInv

\* A call that goes to sleep in its lane.
LEMMA SleepKeeps ==
    ASSUME SchedInv, NEW r \in Callers, NEW l, NEW queue, NEW total,
           InLoop(r, l, queue, total),
           LoopSleep(r, l, queue, total), UNCHANGED <<gone, reading>>
    PROVE  SchedInv'
<1>0. PICK f \in Keys : f = key[r]
  BY LoopFacts
<1>1. /\ lanes[f] = l /\ l \in Lanes /\ Works(f, l)
      /\ queue \in Seq(Tickets) /\ Len(queue) \in Nat
  BY <1>0, LoopFacts
<1>2. /\ waiters' = [waiters EXCEPT ![l] = queue]
      /\ queued' = total
      /\ pc' = [pc EXCEPT ![r] = "waiting"]
      /\ lane' = [lane EXCEPT ![r] = l]
      /\ timer' = [timer EXCEPT ![r] = IF Cancellable THEN Min({left[r], Poll}) ELSE left[r]]
      /\ notified' = notified \ {r}
      /\ lanes' = lanes /\ active' = active /\ key' = key /\ model' = model
      /\ stamp' = stamp /\ left' = left /\ released' = released
      /\ gone' = gone /\ reading' = reading
  BY DEF LoopSleep
<1>3. pc[r] \in {"calling", "waiting"}
  BY DEF InLoop
<1>4. OnlyMoves(r) /\ pc'[r] = "waiting" /\ lane'[r] = l
  BY <1>2 DEF OnlyMoves, SchedInv, TypeOK
<1>5. Waiting' = Waiting \cup {r} /\ InCall' = InCall
  BY <1>3, <1>4 DEF Waiting, InCall, OnlyMoves
<1>6. WaitingFor(f)' = WaitingFor(f) \cup {r} /\ Holders(f)' = Holders(f)
  BY <1>0, <1>2, <1>3, <1>4, <1>5 DEF WaitingFor, Holders, OnlyMoves
<1>7. TicketsOf(WaitingFor(f))' = TicketsOf(WaitingFor(f) \cup {r})
  BY <1>2, <1>6 DEF TicketsOf, Ticket
<1>8. CallShape' /\ StampsDistinct'
  BY <1>2, <1>3, <1>4, <1>5 DEF SchedInv, CallShape, StampsDistinct, OnlyMoves
<1>9. QueueHolds(queue, TicketsOf(WaitingFor(f))') /\ Len(queue) <= MaxQueuePerKey
  BY <1>0, <1>7 DEF InLoop
<1>10. /\ waiters'[l] = queue
       /\ \A k \in Lanes \ {l} : active'[k] = active[k] /\ waiters'[k] = waiters[k]
  BY <1>1, <1>2 DEF SchedInv, TypeOK
<1>11. active'[l] = Cardinality(Holders(f)') /\ Cardinality(Holders(f)') <= MaxConcurrentPerKey
  BY <1>1, <1>2, <1>6 DEF Works, SchedInv, LanesRight, LaneRight
<1>12. lanes' = [lanes EXCEPT ![f] =
                     IF Holders(f)' \cup WaitingFor(f)' = {} THEN NoLane ELSE l]
  <2>1. lanes = [lanes EXCEPT ![f] = l]
    BY <1>1 DEF SchedInv, TypeOK
  <2> QED
    BY <1>2, <1>6, <2>1
<1>13. LanesRight'
  <2>1. TypeOK /\ LanesRight /\ key'[r] = f
    BY <1>0, <1>2 DEF SchedInv
  <2> QED
    BY <1>0, <1>1, <1>4, <1>9, <1>10, <1>11, <1>12, <2>1, LaneMoves
<1>14. timer' \in [Callers -> Nat]
  <2>1. Poll \in Nat /\ left[r] \in Nat
    BY SchedulerAssumption DEF SchedInv, TypeOK
  <2>2. Min({left[r], Poll}) \in Nat
    BY <2>1, MinPairNat
  <2> QED
    BY <1>2, <2>1, <2>2 DEF SchedInv, TypeOK
<1>15. queued' \in Nat /\ CountRight'
  <2>1. Waiting \cup {r} \in SUBSET Callers
    BY DEF Waiting
  <2>2. Cardinality(Waiting \cup {r}) \in Nat
    BY <2>1, Finite
  <2> QED
    BY <1>2, <1>5, <2>2 DEF CountRight, InLoop
<1>16. TypeOK'
  <2>1. waiters' \in [Lanes -> Seq(Tickets)]
    BY <1>1, <1>2 DEF SchedInv, TypeOK
  <2>2. pc' \in [Callers -> {"idle", "calling", "waiting", "leased"} \cup Raised]
    BY <1>2 DEF SchedInv, TypeOK
  <2>3. lane' \in [Callers -> Lanes \cup {NoLane}]
    BY <1>1, <1>2 DEF SchedInv, TypeOK
  <2> QED
    BY <1>2, <1>14, <1>15, <2>1, <2>2, <2>3 DEF SchedInv, TypeOK
<1> QED
  BY <1>8, <1>13, <1>15, <1>16 DEF SchedInv

\* Every way out of a pass of acquire's loop.
LEMMA WaitLoopKeeps ==
    ASSUME SchedInv, NEW r \in Callers, NEW l, NEW queue, NEW total,
           InLoop(r, l, queue, total),
           WaitLoop(r, l, queue, total), UNCHANGED <<gone, reading>>
    PROVE  SchedInv'
<1>1. CASE LoopCancelled(r, l, queue, total)
  BY <1>1, LeaveKeeps DEF LoopCancelled, Raised
<1>2. CASE LoopTimeout(r, l, queue, total)
  BY <1>2, LeaveKeeps DEF LoopTimeout, Raised
<1>3. CASE LoopGrant(r, l, queue, total)
  BY <1>3, GrantKeeps
<1>4. CASE LoopSleep(r, l, queue, total)
  BY <1>4, SleepKeeps
<1> QED
  BY <1>1, <1>2, <1>3, <1>4 DEF WaitLoop

\* A step that leaves the lanes, their holders and their waiters alone.
LEMMA QuietLanes ==
    ASSUME LanesRight, CountRight, UNCHANGED laneVars, Waiting' = Waiting,
           \A f \in Keys : Holders(f)' = Holders(f) /\ WaitingFor(f)' = WaitingFor(f),
           \A s \in Waiting :
               lane'[s] = lane[s] /\ model'[s] = model[s] /\ stamp'[s] = stamp[s]
    PROVE  LanesRight' /\ CountRight'
<1>1. lanes' = lanes /\ active' = active /\ waiters' = waiters /\ queued' = queued
  BY DEF laneVars
<1>2. CountRight'
  BY <1>1 DEF CountRight
<1>3. ASSUME NEW f \in Keys
      PROVE  LaneRight(f)'
  <2>1. LaneRight(f) /\ Holders(f)' = Holders(f) /\ WaitingFor(f)' = WaitingFor(f)
    BY DEF LanesRight
  <2>2. \A s \in WaitingFor(f) : Ticket(s)' = Ticket(s) /\ lane'[s] = lane[s]
    BY DEF WaitingFor, Ticket
  <2>3. TicketsOf(WaitingFor(f))' = TicketsOf(WaitingFor(f))
    BY <2>1, <2>2 DEF TicketsOf
  <2> QED
    BY <1>1, <2>1, <2>2, <2>3 DEF LaneRight
<1> QED
  BY <1>1, <1>2, <1>3 DEF LanesRight

\* A call that raises before it has queued.
LEMMA RaiseKeeps ==
    ASSUME SchedInv, NEW r \in Callers, pc[r] = "calling", NEW outcome \in Raised,
           Raise(r, outcome), UNCHANGED <<laneVars, notified, gone, reading>>
    PROVE  SchedInv'
<1>0. PICK f \in Keys : f = key[r]
  BY DEF SchedInv, CallShape
<1>1. Ends(r, outcome) /\ outcome # "leased"
  BY DEF Raise, Ends, Raised
<1>2. /\ CallTypes' /\ CallShape' /\ StampsDistinct' /\ OnlyMoves(r)
      /\ key'[r] \in {f, NoKey}
      /\ Waiting' = Waiting \ {r}
      /\ WaitingFor(f)' = WaitingFor(f) \ {r}
      /\ Holders(f)' = Holders(f)
  BY <1>0, <1>1, CallEnds DEF SchedInv
<1>3. r \notin Waiting
  BY DEF Waiting
<1>4. \A g \in Keys : Holders(g)' = Holders(g) /\ WaitingFor(g)' = WaitingFor(g)
  <2> SUFFICES ASSUME NEW g \in Keys, g # f
               PROVE  Holders(g)' = Holders(g) /\ WaitingFor(g)' = WaitingFor(g)
    BY <1>2, <1>3 DEF WaitingFor
  <2> QED
    BY <1>0, <1>2, OthersKept
<1>5. \A s \in Waiting : lane'[s] = lane[s] /\ model'[s] = model[s] /\ stamp'[s] = stamp[s]
  BY <1>2, <1>3 DEF OnlyMoves, Waiting
<1>6. LanesRight' /\ CountRight'
  BY <1>2, <1>3, <1>4, <1>5, QuietLanes DEF SchedInv
<1>7. TypeOK'
  BY <1>2 DEF CallTypes, SchedInv, TypeOK, laneVars
<1> QED
  BY <1>2, <1>6, <1>7 DEF SchedInv

\* A call that is admitted at once, to an old lane or a new one.
LEMMA EnterGrantKeeps ==
    ASSUME SchedInv, NEW r \in Callers, pc[r] = "calling",
           NEW l \in Lanes, LaneFor(key[r], l), EnterGrant(r, l), UNCHANGED <<gone, reading>>
    PROVE  SchedInv'
<1>0. PICK f \in Keys : f = key[r]
  BY DEF SchedInv, CallShape
<1>1. Works(f, l)
  BY <1>0, LaneSeen DEF SchedInv
<1>2. /\ lanes' = [lanes EXCEPT ![f] = l]
      /\ active' = [active EXCEPT ![l] = @ + 1]
      /\ active[l] < MaxConcurrentPerKey
      /\ waiters' = waiters /\ queued' = queued /\ notified' = notified
      /\ Ends(r, "leased")
  BY <1>0 DEF EnterGrant, Grant, Ends
<1>3. /\ CallTypes' /\ CallShape' /\ StampsDistinct' /\ OnlyMoves(r)
      /\ key'[r] \in {f, NoKey}
      /\ Waiting' = Waiting \ {r} /\ r \notin WaitingFor(f)'
      /\ WaitingFor(f)' = WaitingFor(f) \ {r}
      /\ TicketsOf(WaitingFor(f))' = Without(TicketsOf(WaitingFor(f) \cup {r}), r)
      /\ r \notin Holders(f)
      /\ Holders(f)' = Holders(f) \cup {r}
  BY <1>0, <1>2, CallEnds DEF SchedInv
<1>4. r \notin Waiting
  BY DEF Waiting
<1>5. TicketsOf(WaitingFor(f))' = TicketsOf(WaitingFor(f))
  BY <1>3, <1>4 DEF TicketsOf, Without, WaitingFor
<1>6. /\ active[l] \in Nat /\ MaxConcurrentPerKey \in Nat
      /\ active'[l] = active[l] + 1
      /\ \A k \in Lanes \ {l} : active'[k] = active[k] /\ waiters'[k] = waiters[k]
  BY <1>2, SchedulerAssumption DEF SchedInv, TypeOK
<1>7. active'[l] = Cardinality(Holders(f)') /\ Cardinality(Holders(f)') <= MaxConcurrentPerKey
  <2>1. Holders(f) \in SUBSET Callers /\ active[l] = Cardinality(Holders(f))
    BY <1>1 DEF Works, Holders
  <2>2. Cardinality(Holders(f)') = Cardinality(Holders(f)) + 1
    BY <1>3, <2>1, HolderAdded
  <2> QED
    BY <1>2, <1>6, <2>1, <2>2
<1>8. lanes' = [lanes EXCEPT ![f] =
                    IF Holders(f)' \cup WaitingFor(f)' = {} THEN NoLane ELSE l]
  BY <1>2, <1>3
<1>9. QueueHolds(waiters'[l], TicketsOf(WaitingFor(f))') /\ Len(waiters'[l]) <= MaxQueuePerKey
  BY <1>1, <1>2, <1>5 DEF Works
<1>10. LanesRight'
  <2>1. TypeOK /\ LanesRight
    BY DEF SchedInv
  <2> QED
    BY <1>0, <1>1, <1>3, <1>6, <1>7, <1>8, <1>9, <2>1, LaneMoves
<1>11. CountRight'
  BY <1>2, <1>3, <1>4 DEF SchedInv, CountRight
<1>12. TypeOK'
  <2>1. active' \in [Lanes -> Nat]
    <3>1. active \in [Lanes -> Nat]
      BY DEF SchedInv, TypeOK
    <3>2. active[l] + 1 \in Nat
      BY <1>6
    <3> QED
      BY <1>2, <3>1, <3>2
  <2>2. lanes' \in [Keys -> Lanes \cup {NoLane}]
    BY <1>2 DEF SchedInv, TypeOK
  <2> QED
    BY <1>2, <1>3, <2>1, <2>2 DEF CallTypes, SchedInv, TypeOK
<1> QED
  BY <1>3, <1>10, <1>11, <1>12 DEF SchedInv

\* A call that has to queue finds its lane in the dictionary: a new one would
\* have admitted it.
LEMMA EnterQueueLoops ==
    ASSUME SchedInv, NEW r \in Callers, pc[r] = "calling",
           NEW l \in Lanes, LaneFor(key[r], l), MustQueue(l), HasRoom(l)
    PROVE  InLoop(r, l, Append(waiters[l], Ticket(r)), queued + 1)
<1>0. PICK f \in Keys : f = key[r]
  BY DEF SchedInv, CallShape
<1>1. Works(f, l)
  BY <1>0, LaneSeen DEF SchedInv
<1>2. lanes[f] = l /\ l # NoLane
  <2> SUFFICES ASSUME lanes[f] = NoLane
               PROVE  FALSE
    BY <1>0, NoLaneIsNone DEF LaneFor
  <2>1. \A g \in Keys : lanes[g] # l
    BY <1>0 DEF LaneFor, Unreferenced
  <2>2. active[l] = 0 /\ waiters[l] = <<>>
    BY <2>1 DEF SchedInv, LanesRight
  <2> QED
    BY <2>2, SchedulerAssumption DEF MustQueue
<1>3. PICK T : T = TicketsOf(WaitingFor(f) \cup {r})
  OBVIOUS
<1>4. /\ QueueHolds(waiters[l], TicketsOf(WaitingFor(f)))
      /\ waiters[l] \in Seq(Tickets) /\ Len(waiters[l]) \in Nat
      /\ Len(waiters[l]) < MaxQueuePerKey /\ queued < MaxTotalQueued
      /\ MaxQueuePerKey \in Nat /\ MaxTotalQueued \in Nat
  BY <1>1, SchedulerAssumption, LenProperties DEF Works, HasRoom, SchedInv, TypeOK
<1>5. r \notin Waiting
  BY DEF Waiting
<1>6. TicketsOf(WaitingFor(f)) = Without(T, r)
  BY <1>3, <1>5 DEF TicketsOf, Without, WaitingFor
<1>7. r \in DOMAIN T /\ T[r] = Ticket(r) /\ T[r] \in Tickets /\ T[r].owner = r
  <2>1. WaitingFor(f) \cup {r} \subseteq InCall
    BY DEF WaitingFor, Waiting, InCall
  <2>2. OwnTickets(T) /\ DOMAIN T = WaitingFor(f) \cup {r}
    BY <1>3, <2>1, TicketsOwned DEF SchedInv
  <2> QED
    BY <1>3, <2>2 DEF OwnTickets, TicketsOf
<1>8. /\ QueueHolds(Append(waiters[l], T[r]), T)
      /\ Len(Append(waiters[l], T[r])) = Len(waiters[l]) + 1
  BY <1>4, <1>6, <1>7, QueueJoined
<1>9. queued + 1 = Cardinality(Waiting \cup {r}) /\ queued + 1 <= MaxTotalQueued
  <2>1. Waiting \in SUBSET Callers /\ r \in Callers \ Waiting /\ queued = Cardinality(Waiting)
    BY <1>5 DEF Waiting, SchedInv, CountRight
  <2>2. Cardinality(Waiting \cup {r}) = Cardinality(Waiting) + 1
    BY <2>1, HolderAdded
  <2>3. queued \in Nat
    BY DEF SchedInv, TypeOK
  <2> QED
    BY <1>4, <2>1, <2>2, <2>3
<1>10. Len(Append(waiters[l], Ticket(r))) <= MaxQueuePerKey
  BY <1>4, <1>7, <1>8
<1> QED
  BY <1>0, <1>2, <1>3, <1>7, <1>8, <1>9, <1>10 DEF InLoop

\* The critical section in which a call starts.
LEMMA EnterKeeps ==
    ASSUME SchedInv, NEW r \in Callers, Enter(r)
    PROVE  SchedInv'
<1>1. pc[r] = "calling" /\ UNCHANGED <<gone, reading>>
  BY DEF Enter
<1>2. CASE EnterCancelled(r)
  BY <1>1, <1>2, RaiseKeeps DEF EnterCancelled, Raised, laneVars
<1>3. ASSUME NEW l \in Lanes, LaneFor(key[r], l),
             EnterGrant(r, l) \/ EnterFull(r, l) \/ EnterQueue(r, l)
      PROVE  SchedInv'
  <2>1. CASE EnterGrant(r, l)
    BY <1>1, <1>3, <2>1, EnterGrantKeeps
  <2>2. CASE EnterFull(r, l)
    BY <1>1, <2>2, RaiseKeeps DEF EnterFull, Raised, laneVars
  <2>3. CASE EnterQueue(r, l)
    <3>1. InLoop(r, l, Append(waiters[l], Ticket(r)), queued + 1)
      BY <1>1, <1>3, <2>3, EnterQueueLoops DEF EnterQueue
    <3> QED
      BY <1>1, <2>3, <3>1, WaitLoopKeeps DEF EnterQueue
  <2> QED
    BY <1>3, <2>1, <2>2, <2>3
<1> QED
  BY <1>2, <1>3 DEF Enter

\* A thread that wakes up is in its loop, on the lane it has been working on.
LEMMA ResumeLoops ==
    ASSUME SchedInv, NEW r \in Callers, pc[r] = "waiting"
    PROVE  InLoop(r, lane[r], waiters[lane[r]], queued)
<1>0. PICK f \in Keys : f = key[r]
  BY DEF SchedInv, CallShape
<1>1. r \in WaitingFor(f) /\ r \in Waiting
  BY <1>0 DEF WaitingFor, Waiting
<1>2. lanes[f] # NoLane /\ lane[r] = lanes[f] /\ LaneRight(f)
  BY <1>1 DEF SchedInv, LanesRight, LaneRight
<1>3. WaitingFor(f) \cup {r} = WaitingFor(f) /\ Waiting \cup {r} = Waiting
  BY <1>1
<1> QED
  BY <1>0, <1>2, <1>3 DEF InLoop, LaneRight, SchedInv, CountRight

\* The critical section in which a call goes on.
LEMMA ResumeKeeps ==
    ASSUME SchedInv, NEW r \in Callers, Resume(r)
    PROVE  SchedInv'
  BY ResumeLoops, WaitLoopKeeps DEF Resume

\* A lease that is released for the first time, on the lane that its key has.
LEMMA GiveBackKeeps ==
    ASSUME SchedInv, NEW r \in Callers, Release(r), ~released[r]
    PROVE  SchedInv'
<1>0. PICK f \in Keys : f = key[r]
  BY DEF Release, SchedInv, CallShape
<1>L. PICK l : l = lanes[f]
  OBVIOUS
<1>1. r \in Holders(f)
  BY <1>0 DEF Release, Holders
<1>2. l # NoLane /\ l \in Lanes /\ Works(f, l)
  BY <1>L, <1>1, LaneInUse DEF SchedInv, LanesRight, LaneRight, TypeOK
<1>3. /\ active' = [active EXCEPT ![l] = @ - 1]
      /\ lanes' = WithoutIdleLane(f, active[l] - 1, waiters[l])
      /\ notified' = Waiting \ {r}
      /\ released' = [released EXCEPT ![r] = TRUE]
      /\ active[l] > 0 /\ pc[r] = "leased"
      /\ waiters' = waiters /\ queued' = queued /\ pc' = pc /\ key' = key
      /\ lane' = lane /\ model' = model /\ stamp' = stamp /\ left' = left /\ timer' = timer
      /\ gone' = gone /\ reading' = reading
  BY <1>0, <1>L DEF Release, GiveBack, Unreleased, NotifyAll, callVars
<1>4. OnlyMoves(r) /\ released'[r]
  BY <1>3 DEF OnlyMoves, SchedInv, TypeOK
<1>5. Waiting' = Waiting /\ WaitingFor(f)' = WaitingFor(f) /\ InCall' = InCall
  BY <1>3 DEF Waiting, WaitingFor, InCall
<1>6. TicketsOf(WaitingFor(f))' = TicketsOf(WaitingFor(f))
  BY <1>3, <1>5 DEF TicketsOf, Ticket
<1>7. Holders(f)' = Holders(f) \ {r}
  BY <1>3, <1>4 DEF Holders, OnlyMoves
<1>8. CallShape' /\ StampsDistinct'
  BY <1>3, <1>4, <1>5 DEF SchedInv, CallShape, StampsDistinct, OnlyMoves
<1>9. Cardinality(Holders(f)') = Cardinality(Holders(f)) - 1 /\ Cardinality(Holders(f)') \in Nat
  <2>1. Holders(f) \in SUBSET Callers /\ Holders(f)' \in SUBSET Callers
    BY <1>7 DEF Holders
  <2>2. IsFiniteSet(Holders(f)) /\ Cardinality(Holders(f)') \in Nat
    BY <2>1, Finite
  <2> QED
    BY <1>1, <1>7, <2>2, FS_RemoveElement
<1>10. /\ active[l] = Cardinality(Holders(f)) /\ active[l] \in Nat
       /\ active'[l] = active[l] - 1
       /\ active[l] <= MaxConcurrentPerKey /\ MaxConcurrentPerKey \in Nat
       /\ \A k \in Lanes \ {l} : active'[k] = active[k] /\ waiters'[k] = waiters[k]
  BY <1>2, <1>3, SchedulerAssumption DEF Works, SchedInv, TypeOK, LanesRight, LaneRight
<1>11. active'[l] = Cardinality(Holders(f)') /\ Cardinality(Holders(f)') <= MaxConcurrentPerKey
  BY <1>9, <1>10
<1>12. /\ QueueHolds(waiters'[l], TicketsOf(WaitingFor(f))')
       /\ Len(waiters'[l]) <= MaxQueuePerKey
  BY <1>2, <1>3, <1>6 DEF Works
<1>13. active[l] - 1 = 0 <=> Holders(f)' = {}
  <2>1. Holders(f)' \in SUBSET Callers
    BY <1>7 DEF Holders
  <2>2. IsFiniteSet(Holders(f)')
    BY <2>1, Finite
  <2> QED
    BY <1>10, <1>11, <2>2, FS_EmptySet
<1>14. waiters[l] = <<>> <=> WaitingFor(f)' = {}
  <2>1. DOMAIN TicketsOf(WaitingFor(f))' = WaitingFor(f)'
    BY DEF TicketsOf
  <2> QED
    BY <1>3, <1>12, <2>1, LengthHeld
<1>15. lanes' = [lanes EXCEPT ![f] =
                     IF Holders(f)' \cup WaitingFor(f)' = {} THEN NoLane ELSE l]
  <2>1. lanes = [lanes EXCEPT ![f] = l]
    BY <1>L DEF SchedInv, TypeOK
  <2> QED
    BY <1>3, <1>13, <1>14, <2>1 DEF WithoutIdleLane
<1>16. LanesRight'
  <2>1. TypeOK /\ LanesRight /\ r \notin WaitingFor(f)' /\ key'[r] = f
    BY <1>0, <1>3, <1>5 DEF SchedInv, WaitingFor, Waiting
  <2> QED
    BY <1>0, <1>2, <1>4, <1>10, <1>11, <1>12, <1>15, <2>1, LaneMoves
<1>17. CountRight'
  BY <1>3, <1>5 DEF SchedInv, CountRight
<1>18. TypeOK'
  <2>1. active' \in [Lanes -> Nat]
    <3>1. active \in [Lanes -> Nat]
      BY DEF SchedInv, TypeOK
    <3>2. active[l] - 1 \in Nat
      BY <1>3, <1>10
    <3> QED
      BY <1>3, <3>1, <3>2
  <2>2. lanes' \in [Keys -> Lanes \cup {NoLane}]
    BY <1>2, <1>15 DEF SchedInv, TypeOK
  <2>3. notified' \in SUBSET Callers /\ released' \in [Callers -> BOOLEAN]
    BY <1>3 DEF SchedInv, TypeOK, Waiting
  <2> QED
    BY <1>3, <2>1, <2>2, <2>3 DEF SchedInv, TypeOK
<1> QED
  BY <1>8, <1>16, <1>17, <1>18 DEF SchedInv

\* A thread that does nothing to the lanes, and neither waits nor holds a lease
\* that counts, before the step and after it.
LEMMA OutsideKeeps ==
    ASSUME SchedInv, NEW r \in Callers, OnlyMoves(r),
           UNCHANGED <<laneVars, lane>>,
           pc[r] # "waiting", pc'[r] # "waiting",
           pc[r] = "leased" => released[r], pc'[r] = "leased" => released'[r]
    PROVE  LanesRight' /\ CountRight'
<1>1. Waiting' = Waiting /\ r \notin Waiting
  BY DEF Waiting, OnlyMoves
<1>2. \A f \in Keys : Holders(f)' = Holders(f) /\ WaitingFor(f)' = WaitingFor(f)
  BY <1>1 DEF Holders, WaitingFor, Waiting, OnlyMoves
<1>3. \A s \in Waiting : lane'[s] = lane[s] /\ model'[s] = model[s] /\ stamp'[s] = stamp[s]
  BY <1>1 DEF Waiting, OnlyMoves
<1> QED
  BY <1>1, <1>2, <1>3, QuietLanes DEF SchedInv

\* A lease that is released again.
LEMMA ReleaseAgainKeeps ==
    ASSUME SchedInv, NEW r \in Callers, Release(r), released[r]
    PROVE  SchedInv'
<1>1. /\ UNCHANGED <<active, lanes, notified>> /\ released' = [released EXCEPT ![r] = TRUE]
      /\ UNCHANGED <<waiters, queued, pc, key, lane, model, stamp, left, timer, gone, reading>>
      /\ pc[r] = "leased"
  BY DEF Release, GiveBack, Unreleased, callVars
<1>2. released' = released
  BY <1>1 DEF SchedInv, TypeOK
<1>3. LanesRight' /\ CountRight'
  BY <1>1, <1>2, OutsideKeeps DEF OnlyMoves, laneVars
<1> QED
  BY <1>1, <1>2, <1>3 DEF SchedInv, TypeOK, CallShape, StampsDistinct, InCall

\* The holder forgets a lease that it has released.
LEMMA DropKeeps ==
    ASSUME SchedInv, NEW r \in Callers, Drop(r)
    PROVE  SchedInv'
<1>1. /\ pc[r] = "leased" /\ released[r]
      /\ pc' = [pc EXCEPT ![r] = "idle"]
      /\ key' = [key EXCEPT ![r] = NoKey]
      /\ released' = [released EXCEPT ![r] = FALSE]
      /\ UNCHANGED laneVars
      /\ UNCHANGED <<lanes, active, waiters, queued, lane, model, stamp, left, timer, notified,
                     gone, reading>>
  BY DEF Drop, callVars, laneVars
<1>2. OnlyMoves(r) /\ pc'[r] = "idle" /\ key'[r] = NoKey /\ ~released'[r]
  BY <1>1 DEF OnlyMoves, SchedInv, TypeOK
<1>3. LanesRight' /\ CountRight'
  BY <1>1, <1>2, OutsideKeeps
<1>4. CallShape' /\ InCall' = InCall
  BY <1>1, <1>2, SchedulerAssumption DEF SchedInv, CallShape, OnlyMoves, InCall
<1>5. StampsDistinct'
  BY <1>1, <1>4 DEF SchedInv, StampsDistinct
<1>6. TypeOK'
  BY <1>1 DEF SchedInv, TypeOK
<1> QED
  BY <1>3, <1>4, <1>5, <1>6 DEF SchedInv

\* The handler has dealt with an exception.
LEMMA CatchKeeps ==
    ASSUME SchedInv, NEW r \in Callers, Catch(r)
    PROVE  SchedInv'
<1>1. /\ pc[r] \in Raised
      /\ pc' = [pc EXCEPT ![r] = "idle"]
      /\ UNCHANGED laneVars
      /\ UNCHANGED <<lanes, active, waiters, queued, key, lane, model, stamp, left, timer,
                     notified, released, gone, reading>>
  BY DEF Catch, callVars, laneVars
<1>2. OnlyMoves(r) /\ pc'[r] = "idle"
  BY <1>1 DEF OnlyMoves, SchedInv, TypeOK
<1>3. LanesRight' /\ CountRight'
  BY <1>1, <1>2, OutsideKeeps DEF Raised
<1>4. CallShape' /\ InCall' = InCall
  BY <1>1, <1>2 DEF SchedInv, CallShape, OnlyMoves, InCall, Raised
<1>5. StampsDistinct'
  BY <1>1, <1>4 DEF SchedInv, StampsDistinct
<1>6. TypeOK'
  BY <1>1 DEF SchedInv, TypeOK
<1> QED
  BY <1>3, <1>4, <1>5, <1>6 DEF SchedInv

\* A new call has neither a ticket nor a lane; without a repeated reading its
\* stamp is new.
LEMMA BeginKeeps ==
    ASSUME SchedInv, NEW r \in Callers, NEW f \in Keys, NEW m \in Models, BeginAcquire(r, f, m)
    PROVE  SchedInv'
<1>1. PICK s \in Callers \X Names :
          /\ Reads(r, s)
          /\ stamp' = [stamp EXCEPT ![r] = s]
          /\ reading' = IF CoarseClock THEN s ELSE NoStamp
  BY DEF BeginAcquire
<1>2. s \in Stamps
  <2>1. Names \subseteq Nat
    BY SchedulerAssumption, FS_CardinalityType DEF Names
  <2> QED
    BY <2>1 DEF Stamps
<1>3. /\ pc[r] = "idle"
      /\ pc' = [pc EXCEPT ![r] = "calling"]
      /\ key' = [key EXCEPT ![r] = f]
      /\ model' = [model EXCEPT ![r] = m]
      /\ left' = [left EXCEPT ![r] = QueueWait]
      /\ UNCHANGED laneVars
      /\ UNCHANGED <<lanes, active, waiters, queued, lane, timer, notified, released, gone>>
  BY DEF BeginAcquire, laneVars
<1>4. /\ OnlyMoves(r) /\ pc'[r] = "calling" /\ key'[r] = f
      /\ model'[r] = m /\ stamp'[r] = s
  BY <1>1, <1>3 DEF OnlyMoves, SchedInv, TypeOK
<1>5. LanesRight' /\ CountRight'
  BY <1>3, <1>4, OutsideKeeps
<1>6. CallShape'
  BY <1>2, <1>3, <1>4 DEF SchedInv, CallShape, OnlyMoves
<1>7. StampsDistinct'
  <2> SUFFICES ASSUME ~CoarseClock
               PROVE  \A p, q \in InCall' : stamp'[p] = stamp'[q] => p = q
    BY DEF StampsDistinct
  <2>1. \A q \in Callers : stamp[q] # s
    BY <1>1 DEF Reads, NewReading, LiveStamps
  <2>2. InCall' = InCall \cup {r}
    BY <1>4 DEF InCall, OnlyMoves
  <2> QED
    BY <1>4, <2>1, <2>2 DEF SchedInv, StampsDistinct, InCall, OnlyMoves
<1>8. TypeOK'
  <2>1. /\ pc' \in [Callers -> {"idle", "calling", "waiting", "leased"} \cup Raised]
        /\ key' \in [Callers -> Keys \cup {NoKey}]
        /\ model' \in [Callers -> Models \cup {""}]
    BY <1>3 DEF SchedInv, TypeOK
  <2>2. stamp' \in [Callers -> Stamps \cup {NoStamp}] /\ reading' \in Stamps \cup {NoStamp}
    BY <1>1, <1>2 DEF SchedInv, TypeOK
  <2>3. left' \in [Callers -> Nat]
    BY <1>3, SchedulerAssumption DEF SchedInv, TypeOK
  <2> QED
    BY <1>3, <2>1, <2>2, <2>3 DEF SchedInv, TypeOK
<1> QED
  BY <1>5, <1>6, <1>7, <1>8 DEF SchedInv

\* Time, clients and stuttering leave lanes and calls alone.
LEMMA QuietKeeps ==
    ASSUME SchedInv,
           UNCHANGED <<lanes, active, waiters, queued, pc, key, lane, model, stamp, released>>,
           UNCHANGED notified,
           left' \in [Callers -> Nat], timer' \in [Callers -> Nat],
           gone' \in SUBSET Callers, reading' \in Stamps \cup {NoStamp}
    PROVE  SchedInv'
<1>1. /\ Waiting' = Waiting /\ InCall' = InCall
      /\ \A f \in Keys : Holders(f)' = Holders(f) /\ WaitingFor(f)' = WaitingFor(f)
  BY DEF Waiting, InCall, Holders, WaitingFor
<1>2. LanesRight' /\ CountRight'
  BY <1>1, QuietLanes DEF SchedInv, laneVars
<1>3. CallShape' /\ StampsDistinct'
  BY <1>1 DEF SchedInv, CallShape, StampsDistinct
<1>4. TypeOK'
  BY DEF SchedInv, TypeOK
<1> QED
  BY <1>2, <1>3, <1>4 DEF SchedInv

\* Every step of the scheduler, its callers and the clock keeps the invariant.
LEMMA SchedInvNext == SchedInv /\ [Next]_vars => SchedInv'
<1> SUFFICES ASSUME SchedInv, [Next]_vars
             PROVE  SchedInv'
  OBVIOUS
<1>1. CASE Tick
  <2>1. left' \in [Callers -> Nat] /\ timer' \in [Callers -> Nat]
    <3>1. left \in [Callers -> Nat] /\ timer \in [Callers -> Nat]
      BY DEF SchedInv, TypeOK
    <3>2. \A t \in Nat : Elapse(t) \in Nat
      BY DEF Elapse
    <3> QED
      BY <1>1, <3>1, <3>2 DEF Tick
  <2> QED
    BY <1>1, <2>1, QuietKeeps DEF Tick, laneVars, SchedInv, TypeOK
<1>2. ASSUME NEW r \in Callers, NEW f \in Keys, NEW m \in Models, BeginAcquire(r, f, m)
      PROVE  SchedInv'
  BY <1>2, BeginKeeps
<1>3. ASSUME NEW r \in Callers, Enter(r)
      PROVE  SchedInv'
  BY <1>3, EnterKeeps
<1>4. ASSUME NEW r \in Callers, Resume(r)
      PROVE  SchedInv'
  BY <1>4, ResumeKeeps
<1>5. ASSUME NEW r \in Callers, Release(r)
      PROVE  SchedInv'
  BY <1>5, GiveBackKeeps, ReleaseAgainKeeps
<1>6. ASSUME NEW r \in Callers, Drop(r)
      PROVE  SchedInv'
  BY <1>6, DropKeeps
<1>7. ASSUME NEW r \in Callers, Catch(r)
      PROVE  SchedInv'
  BY <1>7, CatchKeeps
<1>8. ASSUME NEW r \in Callers, Disconnect(r) \/ Reconnect(r)
      PROVE  SchedInv'
  <2>1. gone' \in SUBSET Callers
    BY <1>8 DEF Disconnect, Reconnect, SchedInv, TypeOK
  <2>2. UNCHANGED <<lanes, active, waiters, queued, pc, key, lane, model, stamp, released,
                    left, timer, notified, reading>>
    BY <1>8 DEF Disconnect, Reconnect, laneVars, callVars
  <2> QED
    BY <2>1, <2>2, QuietKeeps DEF SchedInv, TypeOK
<1>9. CASE UNCHANGED vars
  BY <1>9, QuietKeeps DEF vars, SchedInv, TypeOK
<1> QED
  BY <1>1, <1>2, <1>3, <1>4, <1>5, <1>6, <1>7, <1>8, <1>9 DEF Next

\* At first nobody calls and there are no lanes.
LEMMA SchedInvInit == Init => SchedInv
<1> SUFFICES ASSUME Init
             PROVE  SchedInv
  OBVIOUS
<1>1. TypeOK
  <2>1. waiters \in [Lanes -> Seq(Tickets)]
    <3>1. <<>> \in Seq(Tickets)
      OBVIOUS
    <3> HIDE DEF Tickets
    <3> QED
      BY <3>1 DEF Init
  <2> QED
    BY <2>1 DEF Init, TypeOK
<1>2. CallShape
  BY SchedulerAssumption DEF Init, CallShape
<1>3. InCall = {} /\ Waiting = {} /\ \A f \in Keys : Holders(f) = {} /\ WaitingFor(f) = {}
  BY DEF Init, InCall, Waiting, Holders, WaitingFor
<1>4. StampsDistinct
  BY <1>3 DEF StampsDistinct
<1>E. Cardinality({}) = 0 /\ 0 <= MaxTotalQueued
  <2>1. Cardinality({}) = 0
    BY FS_EmptySet
  <2>2. MaxTotalQueued \in Nat
    BY SchedulerAssumption
  <2> QED
    BY <2>1, <2>2
<1>5. LanesRight
  <2>1. Cardinality({}) = 0
    BY FS_EmptySet
  <2>2. 0 <= MaxConcurrentPerKey
    <3>1. MaxConcurrentPerKey \in Nat
      BY SchedulerAssumption
    <3> QED
      BY <3>1
  <2> QED
    BY <1>3, <2>1, <2>2 DEF Init, LanesRight, LaneRight
<1>6. CountRight
  BY <1>3, <1>E DEF Init, CountRight
<1> QED
  BY <1>1, <1>2, <1>4, <1>5, <1>6 DEF SchedInv

\* The dictionary, the lanes, the leases and the waiting calls always agree.
THEOREM SchedulerInvariant == Spec => []SchedInv
  BY SchedInvInit, SchedInvNext, PTL DEF Spec

\* The dictionary holds the lane of a key exactly while somebody uses the key,
\* and the lane counts the leases, which are never more than the limit: no lane
\* leaks, none is dropped under its users, and a lane that is dropped and made
\* again does not admit more than it should.
THEOREM LanesNeverLeak == Spec => []LanesInUse
<1>1. SchedInv => LanesInUse
  BY DEF SchedInv, LanesRight, LaneRight, LanesInUse
<1> QED
  BY <1>1, SchedulerInvariant, PTL

\* The global count and the queues of all lanes agree with the requests that
\* wait, within both bounds, however often two calls make equal tickets.
THEOREM QueuesCounted == Spec => []QueuedMatches
<1>1. SchedInv => QueuedMatches
  <2> SUFFICES ASSUME SchedInv, NEW f \in Keys, lanes[f] # NoLane
               PROVE  /\ Len(waiters[lanes[f]]) = Cardinality(WaitingFor(f))
                      /\ Len(waiters[lanes[f]]) <= MaxQueuePerKey
    BY DEF SchedInv, CountRight, QueuedMatches
  <2>1. /\ QueueHolds(waiters[lanes[f]], TicketsOf(WaitingFor(f)))
        /\ Len(waiters[lanes[f]]) <= MaxQueuePerKey
    BY DEF SchedInv, LanesRight, LaneRight
  <2>2. DOMAIN TicketsOf(WaitingFor(f)) = WaitingFor(f)
    BY DEF TicketsOf
  <2> QED
    BY <2>1, <2>2, LengthHeld
<1> QED
  BY <1>1, SchedulerInvariant, PTL

-----------------------------------------------------------------------------
\* Sleepers

\* Where every thread that goes on waiting has been notified there is nobody
\* to be forgotten.
LEMMA AllAwake ==
    ASSUME Waiting' \ notified' = {}
    PROVE  NoLostWakeup'
  BY DEF NoLostWakeup

\* Who waits works on the lane of its key, which is in the dictionary.
LEMMA SleepersLane ==
    ASSUME SchedInv, NEW s \in Waiting
    PROVE  /\ key[s] \in Keys /\ lane[s] = lanes[key[s]]
           /\ lane[s] \in Lanes
<1>1. s \in Callers /\ key[s] \in Keys
  BY DEF Waiting, SchedInv, CallShape
<1>2. s \in WaitingFor(key[s]) /\ LaneRight(key[s])
  BY <1>1 DEF WaitingFor, SchedInv, LanesRight
<1>3. lane[s] = lanes[key[s]] /\ lanes[key[s]] # NoLane
  BY <1>2 DEF LaneRight
<1>4. lanes[key[s]] \in Lanes \cup {NoLane}
  BY <1>1 DEF SchedInv, TypeOK
<1> QED
  BY <1>1, <1>3, <1>4

\* A step that wakes nobody, and neither frees a slot of a lane with sleepers
\* nor changes its queue.
LEMMA QuietWakes ==
    ASSUME SchedInv, NoLostWakeup, Waiting' = Waiting, notified' = notified,
           \A s \in Waiting : timer'[s] = timer[s] /\ left'[s] = left[s] /\ lane'[s] = lane[s],
           \A l \in Lanes : waiters[l] # <<>> =>
               waiters'[l] = waiters[l] /\ active'[l] = active[l],
           \A l \in Lanes : waiters[l] = <<>> => waiters'[l] = <<>>
    PROVE  NoLostWakeup'
<1> SUFFICES ASSUME NEW s \in Waiting, s \notin notified
             PROVE  /\ timer'[s] <= left'[s]
                    /\ timer'[s] > 0 => ~MayAdmit(s, lane[s], waiters[lane[s]])'
  BY DEF NoLostWakeup
<1>1. lane[s] \in Lanes /\ lane'[s] = lane[s]
  BY SleepersLane
<1>2. /\ timer[s] <= left[s]
      /\ timer[s] > 0 => ~MayAdmit(s, lane[s], waiters[lane[s]])
  BY DEF NoLostWakeup
<1> QED
  BY <1>1, <1>2 DEF MayAdmit

\* A thread that leaves its lane wakes everybody who waits.
LEMMA LeaveWakes ==
    ASSUME SchedInv, NEW r \in Callers, NEW l, NEW queue, NEW total,
           InLoop(r, l, queue, total), NEW outcome \in Raised,
           Leave(r, l, queue, total, outcome)
    PROVE  NoLostWakeup'
<1>1. Waiting' = Waiting \ {r}
  BY DEF SchedInv, TypeOK, Leave, Raise, EndCall, Waiting, Raised
<1> QED
  BY <1>1, AllAwake DEF Leave, NotifyAll

\* So does one that is admitted.
LEMMA GrantWakes ==
    ASSUME SchedInv, NEW r \in Callers, NEW l, NEW queue, NEW total,
           LoopGrant(r, l, queue, total)
    PROVE  NoLostWakeup'
<1>1. Waiting' = Waiting \ {r}
  BY DEF SchedInv, TypeOK, LoopGrant, Grant, EndCall, Waiting
<1> QED
  BY <1>1, AllAwake DEF LoopGrant, NotifyAll

\* A thread goes to sleep for no longer than it should, and changes nothing for
\* those asleep.
LEMMA SleepWakes ==
    ASSUME SchedInv, NoLostWakeup, NEW r \in Callers, NEW l \in Lanes, NEW queue, NEW total,
           queue = waiters[l] \/ queue = Append(waiters[l], Ticket(r)),
           LoopSleep(r, l, queue, total)
    PROVE  NoLostWakeup'
<1>1. /\ waiters' = [waiters EXCEPT ![l] = queue]
      /\ pc' = [pc EXCEPT ![r] = "waiting"]
      /\ lane' = [lane EXCEPT ![r] = l]
      /\ timer' = [timer EXCEPT ![r] = IF Cancellable THEN Min({left[r], Poll}) ELSE left[r]]
      /\ notified' = notified \ {r}
      /\ active' = active /\ left' = left
      /\ ~MayAdmit(r, l, queue)
  BY DEF LoopSleep
<1> SUFFICES ASSUME NEW s \in Waiting', s \notin notified'
             PROVE  /\ timer'[s] <= left'[s]
                    /\ timer'[s] > 0 => ~MayAdmit(s, lane[s], waiters[lane[s]])'
  BY DEF NoLostWakeup
<1>2. s \in Callers
  BY DEF Waiting
<1>3. CASE s = r
  <2>1. lane'[r] = l /\ waiters'[l] = queue
    BY <1>1 DEF SchedInv, TypeOK
  <2>2. timer'[r] = IF Cancellable THEN Min({left[r], Poll}) ELSE left[r]
    BY <1>1 DEF SchedInv, TypeOK
  <2>3. left[r] \in Nat /\ Poll \in Nat
    BY SchedulerAssumption DEF SchedInv, TypeOK
  <2>4. timer'[r] <= left[r]
    <3>1. left[r] \in Int /\ Poll \in Int /\ left[r] <= left[r]
      BY <2>3
    <3>2. Min({left[r], Poll}) <= left[r]
      BY <3>1, MinPair
    <3> QED
      BY <2>2, <3>1, <3>2
  <2> QED
    BY <1>1, <1>3, <2>1, <2>4 DEF MayAdmit
<1>4. CASE s # r
  <2>1. s \in Waiting \ notified
    BY <1>1, <1>2, <1>4 DEF SchedInv, TypeOK, Waiting
  <2>2. lane'[s] = lane[s] /\ timer'[s] = timer[s] /\ lane[s] \in Lanes
    BY <1>1, <1>2, <1>4, <2>1, SleepersLane DEF SchedInv, TypeOK
  <2>3. ~MayAdmit(s, lane[s], waiters'[lane[s]]) \/ timer[s] = 0
    <3>1. timer[s] \in Nat
      BY <1>2 DEF SchedInv, TypeOK
    <3>2. ~MayAdmit(s, lane[s], waiters[lane[s]]) \/ timer[s] = 0
      BY <2>1, <3>1 DEF NoLostWakeup
    <3>3. CASE lane[s] = l
      <4>1. waiters'[l] = queue /\ waiters[l] \in Seq(Tickets)
        BY <1>1 DEF SchedInv, TypeOK
      <4>2. CASE queue = waiters[l]
        BY <3>2, <3>3, <4>1, <4>2
      <4>3. CASE queue = Append(waiters[l], Ticket(r)) /\ waiters[l] = <<>>
        <5>1. queue[1] = Ticket(r)
          BY <4>3
        <5>2. queue[1].owner = r
          BY <5>1 DEF Ticket
        <5> QED
          BY <1>4, <3>3, <4>1, <5>2 DEF MayAdmit
      <4>4. CASE queue = Append(waiters[l], Ticket(r)) /\ waiters[l] # <<>>
        <5>1. queue[1] = waiters[l][1]
          BY <4>1, <4>4
        <5> QED
          BY <3>2, <3>3, <4>1, <4>4, <5>1 DEF MayAdmit
      <4> QED
        BY <4>2, <4>3, <4>4
    <3>4. CASE lane[s] # l
      BY <1>1, <2>2, <3>2, <3>4 DEF SchedInv, TypeOK
    <3> QED
      BY <3>3, <3>4
  <2>4. timer[s] <= left[s]
    BY <2>1 DEF NoLostWakeup
  <2> QED
    BY <1>1, <2>2, <2>3, <2>4 DEF MayAdmit
<1> QED
  BY <1>3, <1>4

\* Every way out of a pass of acquire's loop keeps the sleepers informed.
LEMMA WaitLoopWakes ==
    ASSUME SchedInv, NoLostWakeup, NEW r \in Callers, NEW l, NEW queue, NEW total,
           queue = waiters[l] \/ queue = Append(waiters[l], Ticket(r)),
           InLoop(r, l, queue, total), WaitLoop(r, l, queue, total)
    PROVE  NoLostWakeup'
<1>1. l \in Lanes
  BY LoopFacts
<1>2. CASE LoopCancelled(r, l, queue, total)
  BY <1>2, LeaveWakes DEF LoopCancelled, Raised
<1>3. CASE LoopTimeout(r, l, queue, total)
  BY <1>3, LeaveWakes DEF LoopTimeout, Raised
<1>4. CASE LoopGrant(r, l, queue, total)
  BY <1>4, GrantWakes
<1>5. CASE LoopSleep(r, l, queue, total)
  BY <1>1, <1>5, SleepWakes
<1> QED
  BY <1>2, <1>3, <1>4, <1>5 DEF WaitLoop

\* A call that does not wait, in a lane without a queue, concerns no sleeper.
LEMMA EnterWakes ==
    ASSUME SchedInv, NoLostWakeup, NEW r \in Callers, Enter(r)
    PROVE  NoLostWakeup'
<1>1. pc[r] = "calling" /\ r \notin Waiting
  BY DEF Enter, Waiting
<1>2. ASSUME NEW outcome \in Raised \cup {"leased"}, EndCall(r, outcome),
             UNCHANGED <<waiters, notified>>,
             \A l \in Lanes : waiters[l] # <<>> => active'[l] = active[l]
      PROVE  NoLostWakeup'
  <2>1. Waiting' = Waiting
    BY <1>1, <1>2 DEF SchedInv, TypeOK, EndCall, Waiting, Raised
  <2>2. \A s \in Waiting : timer'[s] = timer[s] /\ left'[s] = left[s] /\ lane'[s] = lane[s]
    BY <1>1, <1>2 DEF SchedInv, TypeOK, EndCall, Waiting
  <2> QED
    BY <1>2, <2>1, <2>2, QuietWakes
<1>3. CASE EnterCancelled(r)
  BY <1>2, <1>3 DEF EnterCancelled, Raise, Raised, laneVars
<1>4. ASSUME NEW l \in Lanes, LaneFor(key[r], l), EnterGrant(r, l)
      PROVE  NoLostWakeup'
  <2>1. \A k \in Lanes : waiters[k] # <<>> => active'[k] = active[k]
    BY <1>4 DEF EnterGrant, Grant, SchedInv, TypeOK
  <2> QED
    BY <1>2, <1>4, <2>1 DEF EnterGrant, Grant
<1>5. ASSUME NEW l \in Lanes, EnterFull(r, l)
      PROVE  NoLostWakeup'
  BY <1>2, <1>5 DEF EnterFull, Raise, Raised, laneVars
<1>6. ASSUME NEW l \in Lanes, LaneFor(key[r], l), EnterQueue(r, l)
      PROVE  NoLostWakeup'
  <2>1. InLoop(r, l, Append(waiters[l], Ticket(r)), queued + 1)
    BY <1>1, <1>6, EnterQueueLoops DEF EnterQueue
  <2> QED
    BY <1>6, <2>1, WaitLoopWakes DEF EnterQueue
<1> QED
  BY <1>3, <1>4, <1>5, <1>6 DEF Enter

\* Every step of the scheduler, its callers and the clock keeps the sleepers
\* informed.
LEMMA WakeNext == SchedInv /\ NoLostWakeup /\ [Next]_vars => NoLostWakeup'
<1> SUFFICES ASSUME SchedInv, NoLostWakeup, [Next]_vars
             PROVE  NoLostWakeup'
  OBVIOUS
<1>1. CASE Tick
  <2>1. /\ Waiting' = Waiting /\ UNCHANGED <<active, waiters, notified, lane>>
        /\ \A s \in Callers : timer'[s] = Elapse(timer[s]) /\ left'[s] = Elapse(left[s])
    BY <1>1 DEF Tick, laneVars, Waiting
  <2>2. \A s \in Callers : timer[s] \in Nat /\ left[s] \in Nat
    BY DEF SchedInv, TypeOK
  <2> QED
    BY <2>1, <2>2 DEF NoLostWakeup, MayAdmit, Waiting, Elapse
<1>2. ASSUME NEW r \in Callers, NEW f \in Keys, NEW m \in Models, BeginAcquire(r, f, m)
      PROVE  NoLostWakeup'
  <2>1. Waiting' = Waiting /\ r \notin Waiting
    BY <1>2 DEF SchedInv, TypeOK, BeginAcquire, Waiting
  <2>2. \A s \in Waiting : timer'[s] = timer[s] /\ left'[s] = left[s] /\ lane'[s] = lane[s]
    BY <1>2, <2>1 DEF SchedInv, TypeOK, BeginAcquire, Waiting
  <2> QED
    BY <1>2, <2>1, <2>2, QuietWakes DEF BeginAcquire, laneVars
<1>3. ASSUME NEW r \in Callers, Enter(r)
      PROVE  NoLostWakeup'
  BY <1>3, EnterWakes
<1>4. ASSUME NEW r \in Callers, Resume(r)
      PROVE  NoLostWakeup'
  BY <1>4, ResumeLoops, WaitLoopWakes DEF Resume
<1>5. ASSUME NEW r \in Callers, Release(r)
      PROVE  NoLostWakeup'
  <2>1. Waiting' = Waiting /\ r \notin Waiting
    BY <1>5 DEF Release, Waiting
  <2>2. CASE released[r]
    BY <1>5, <2>1, <2>2, QuietWakes DEF Release, GiveBack, Unreleased, callVars
  <2>3. CASE ~released[r]
    BY <1>5, <2>1, <2>3, AllAwake DEF Release, GiveBack, Unreleased, NotifyAll
  <2> QED
    BY <2>2, <2>3
<1>6. ASSUME NEW r \in Callers, Drop(r) \/ Catch(r) \/ Disconnect(r) \/ Reconnect(r)
      PROVE  NoLostWakeup'
  <2>1. Waiting' = Waiting
    BY <1>6 DEF SchedInv, TypeOK, Drop, Catch, Disconnect, Reconnect, Waiting, Raised
  <2>2. UNCHANGED <<active, waiters, notified, timer, left, lane>>
    BY <1>6 DEF Drop, Catch, Disconnect, Reconnect, laneVars, callVars
  <2> QED
    BY <2>1, <2>2, QuietWakes
<1>7. CASE UNCHANGED vars
  BY <1>7, QuietWakes DEF vars, Waiting
<1> QED
  BY <1>1, <1>2, <1>3, <1>4, <1>5, <1>6, <1>7 DEF Next

\* The head of a lane does not sleep, without a pending notification, while its
\* key has a free slot, and nobody sleeps past the deadline: no release or
\* departure goes unsignalled, in whatever lane and even if two clock readings
\* are equal.
THEOREM HeadNeverForgotten == Spec => []NoLostWakeup
<1>1. Init => NoLostWakeup
  BY DEF Init, NoLostWakeup, Waiting
<1> QED
  BY <1>1, WakeNext, SchedulerInvariant, PTL DEF Spec

-----------------------------------------------------------------------------
\* Order of admission

\* What the abstract component of a key sees of a deque and of the leases.
Owners(queue) == [i \in DOMAIN queue |-> queue[i].owner]
Holding(f) == [r \in Callers |-> IF r \in Holders(f) THEN f ELSE NoKey]

\* The owners of a queue make a sequence as long as the queue.
LEMMA OwnersType ==
    ASSUME NEW queue \in Seq(Tickets)
    PROVE  /\ Owners(queue) \in Seq(Callers \cup {Nobody})
           /\ Len(Owners(queue)) = Len(queue)
           /\ DOMAIN Owners(queue) = 1 .. Len(queue)
           /\ \A i \in 1 .. Len(queue) : Owners(queue)[i] = queue[i].owner
<1>1. Len(queue) \in Nat /\ DOMAIN queue = 1 .. Len(queue)
  BY LenProperties
<1>2. \A i \in 1 .. Len(queue) : queue[i].owner \in Callers \cup {Nobody}
  BY ElementOfSeq DEF Tickets
<1> QED
  BY <1>1, <1>2 DEF Owners

\* The owners of a queue that has lost a ticket.
LEMMA OwnersWithout ==
    ASSUME NEW queue \in Seq(Tickets), NEW m \in 1 .. Len(queue)
    PROVE  Owners(RemoveAt(queue, m)) = RemoveAt(Owners(queue), m)
<1> DEFINE short == RemoveAt(queue, m)
           owners == Owners(queue)
           T == Callers \cup {Nobody}
<1>1. /\ owners \in Seq(T) /\ Len(owners) = Len(queue)
      /\ \A i \in 1 .. Len(queue) : owners[i] = queue[i].owner
  BY OwnersType
<1>2. /\ short \in Seq(Tickets)
      /\ Len(short) = Len(queue) - 1
      /\ \A i \in 1 .. Len(queue) - 1 :
             /\ Origin(m, i) \in 1 .. Len(queue)
             /\ short[i] = queue[Origin(m, i)]
  BY RemoveAtOrigin
<1> HIDE DEF short, owners, T
<1>3. /\ RemoveAt(owners, m) \in Seq(T)
      /\ Len(RemoveAt(owners, m)) = Len(queue) - 1
      /\ \A i \in 1 .. Len(queue) - 1 : RemoveAt(owners, m)[i] = owners[Origin(m, i)]
  <2>1. m \in 1 .. Len(owners)
    BY <1>1
  <2>2. /\ RemoveAt(owners, m) \in Seq(T)
        /\ Len(RemoveAt(owners, m)) = Len(owners) - 1
        /\ \A i \in 1 .. Len(owners) - 1 : RemoveAt(owners, m)[i] = owners[Origin(m, i)]
    BY <1>1, <2>1, RemoveAtOrigin
  <2> QED
    BY <1>1, <2>2
<1>4. /\ Owners(short) \in Seq(T)
      /\ Len(Owners(short)) = Len(queue) - 1
      /\ \A i \in 1 .. Len(queue) - 1 : Owners(short)[i] = short[i].owner
  BY <1>2, OwnersType DEF T
<1>5. \A i \in 1 .. Len(queue) - 1 : Owners(short)[i] = RemoveAt(owners, m)[i]
  BY <1>1, <1>2, <1>3, <1>4
<1>6. Owners(short) = RemoveAt(owners, m)
  BY <1>3, <1>4, <1>5, SeqEqual
<1> QED
  BY <1>6 DEF short, owners

\* The owners of a queue that has got another ticket.
LEMMA OwnersAppend ==
    ASSUME NEW queue \in Seq(Tickets), NEW t \in Tickets
    PROVE  Owners(Append(queue, t)) = Append(Owners(queue), t.owner)
<1> DEFINE owners == Owners(queue)
           T == Callers \cup {Nobody}
           o == t.owner
           long == Append(queue, t)
<1>1. o \in T
  BY DEF Tickets
<1>2. /\ owners \in Seq(T) /\ Len(owners) = Len(queue)
      /\ \A i \in 1 .. Len(queue) : owners[i] = queue[i].owner
  BY OwnersType
<1>3. /\ long \in Seq(Tickets) /\ Len(long) = Len(queue) + 1
      /\ long[Len(queue) + 1] = t
      /\ \A i \in 1 .. Len(queue) : long[i] = queue[i]
  BY AppendProperties
<1> HIDE DEF owners, T, long
<1>4. /\ Owners(long) \in Seq(T) /\ Len(Owners(long)) = Len(queue) + 1
      /\ \A i \in 1 .. Len(queue) + 1 : Owners(long)[i] = long[i].owner
  BY <1>3, OwnersType DEF T
<1> HIDE DEF o
<1>5. /\ Append(owners, o) \in Seq(T)
      /\ Len(Append(owners, o)) = Len(queue) + 1
      /\ \A i \in 1 .. Len(queue) : Append(owners, o)[i] = owners[i]
      /\ Append(owners, o)[Len(queue) + 1] = o
  BY <1>1, <1>2, AppendProperties
<1>6. Len(queue) \in Nat
  OBVIOUS
<1>7. \A i \in 1 .. Len(queue) + 1 : Owners(long)[i] = Append(owners, o)[i]
  BY <1>2, <1>3, <1>4, <1>5, <1>6 DEF o
<1>8. Owners(long) = Append(owners, o)
  BY <1>4, <1>5, <1>7, SeqEqual
<1> QED
  BY <1>8 DEF long, owners, o

\* Without a repeated reading a thread that leaves the queue takes its own ticket.
LEMMA OwnTicketTaken ==
    ASSUME ~CoarseClock, NEW queue, NEW T, QueueHolds(queue, T), OwnTickets(T),
           NEW r \in DOMAIN T
    PROVE  \E m \in 1 .. Len(queue) :
               /\ queue[m].owner = r
               /\ Abandon(RemoveTicket(queue, T[r]), r) = RemoveAt(queue, m)
<1>1. PICK m \in 1 .. Len(queue) :
          /\ Value(queue[m]) = Value(T[r])
          /\ RemoveTicket(queue, T[r]) = RemoveAt(queue, m)
  BY TicketFound
<1>2. DOMAIN queue = 1 .. Len(queue) /\ r \in Callers
  BY LenProperties DEF QueueHolds, OwnTickets
<1>3. queue[m].owner \in DOMAIN T /\ queue[m] = T[queue[m].owner]
  BY <1>2 DEF QueueHolds, OwnersMatch, NoOrphans
<1>4. T[queue[m].owner].at = T[r].at
  BY <1>1, <1>3 DEF Value
<1>5. queue[m].owner = r
  BY <1>3, <1>4 DEF OwnTickets
<1>6. Abandon(RemoveAt(queue, m), r) = RemoveAt(queue, m)
  BY <1>2, <1>5, OwnTicketOut
<1> QED
  BY <1>1, <1>5, <1>6

\* To take out what was appended last gives the sequence back.
LEMMA AppendedOut ==
    ASSUME NEW queue \in Seq(Tickets), NEW t \in Tickets
    PROVE  RemoveAt(Append(queue, t), Len(queue) + 1) = queue
<1> DEFINE long == Append(queue, t)
<1>1. /\ long \in Seq(Tickets) /\ Len(long) = Len(queue) + 1
      /\ \A i \in 1 .. Len(queue) : long[i] = queue[i]
  BY AppendProperties
<1>2. Len(queue) \in Nat
  OBVIOUS
<1> HIDE DEF long
<1>3. Len(queue) + 1 \in 1 .. Len(long)
  BY <1>1, <1>2
<1>4. /\ RemoveAt(long, Len(queue) + 1) \in Seq(Tickets)
      /\ Len(RemoveAt(long, Len(queue) + 1)) = Len(queue)
      /\ \A i \in 1 .. Len(queue) : RemoveAt(long, Len(queue) + 1)[i] = long[i]
  <2> DEFINE n == Len(queue) + 1
  <2>1. n = Len(long) /\ n \in 1 .. Len(long)
    BY <1>1, <1>3
  <2> HIDE DEF n
  <2>2. RemoveAt(long, n) \in Seq(Tickets) /\ Len(RemoveAt(long, n)) = Len(long) - 1
    BY <1>1, <2>1, RemoveAtType
  <2>3. \A i \in 1 .. Len(long) - 1 :
            RemoveAt(long, n)[i] = IF i < n THEN long[i] ELSE long[i + 1]
    BY <1>1, <2>1, RemoveAtElement
  <2> QED
    BY <1>1, <1>2, <2>1, <2>2, <2>3 DEF n
<1> QED
  BY <1>1, <1>4, SeqEqual DEF long

\* The queue of a key is the queue of any lane that its calls may work on.
LEMMA QueueOfLane ==
    ASSUME SchedInv, NEW f \in Keys
    PROVE  /\ QueueHolds(LaneQueue(f), TicketsOf(WaitingFor(f)))
           /\ \A l : Works(f, l) => LaneQueue(f) = waiters[l]
<1>1. DOMAIN TicketsOf(WaitingFor(f)) = WaitingFor(f)
  BY DEF TicketsOf
<1>2. CASE lanes[f] # NoLane
  BY <1>2 DEF SchedInv, LanesRight, LaneRight, LaneQueue, Works
<1>3. CASE lanes[f] = NoLane
  <2>1. LaneQueue(f) = <<>> /\ WaitingFor(f) = {}
    BY <1>3 DEF SchedInv, LanesRight, LaneRight, LaneQueue
  <2>2. QueueHolds(LaneQueue(f), TicketsOf(WaitingFor(f)))
    BY <1>1, <2>1, EmptyHolds
  <2>3. ASSUME NEW l, Works(f, l)
        PROVE  waiters[l] = <<>>
    BY <1>1, <2>1, <2>3, LengthHeld DEF Works
  <2> QED
    BY <2>1, <2>2, <2>3
<1> QED
  BY <1>2, <1>3

\* How the abstract component of a key sees the state.
LEMMA FifoView ==
    ASSUME SchedInv, ~CoarseClock, NEW f \in Keys
    PROVE  /\ Fifo(f)!Queued = WaitingFor(f)
           /\ Fifo(f)!Holders(f) = Holders(f)
           /\ \A r \in InCall : Holding(f)[r] = NoKey
           /\ LaneQueue(f) \in Seq(Tickets)
<1> DEFINE queue == LaneQueue(f)
           T == TicketsOf(WaitingFor(f))
<1>1. QueueHolds(queue, T) /\ DOMAIN T = WaitingFor(f) /\ OwnTickets(T)
  <2>1. WaitingFor(f) \subseteq InCall
    BY DEF WaitingFor, Waiting, InCall
  <2> QED
    BY <2>1, QueueOfLane, TicketsOwned DEF SchedInv
<1>2. queue \in Seq(Tickets) /\ DOMAIN queue = 1 .. Len(queue)
  BY <1>1, LenProperties DEF QueueHolds
<1>3. \A i \in DOMAIN queue : queue[i].owner \in WaitingFor(f)
  BY <1>1 DEF QueueHolds, NoOrphans, OwnersMatch
<1>4. \A r \in WaitingFor(f) : \E i \in DOMAIN queue : queue[i].owner = r
  <2> HIDE DEF queue, T
  <2> QED
    BY <1>1, <1>2, OwnTicketTaken
<1>5. Fifo(f)!Queued = {queue[i].owner : i \in DOMAIN queue}
  BY DEF Fifo!Queued
<1>6. Fifo(f)!Holders(f) = Holders(f)
  BY SchedulerAssumption DEF Fifo!Holders, Holders
<1>7. \A r \in InCall : Holding(f)[r] = NoKey
  BY DEF InCall, Holders, Holding
<1> QED
  BY <1>2, <1>3, <1>4, <1>5, <1>6, <1>7

\* A step that concerns another key, on its lane.
LEMMA FifoOther ==
    ASSUME SchedInv, NEW r \in Callers, OnlyMoves(r),
           NEW g \in Keys, key[r] = g, key'[r] \in {g, NoKey}, NEW l, Works(g, l),
           NEW f \in Keys, f # g, lanes'[f] = lanes[f],
           \A k \in Lanes \ {l} : waiters'[k] = waiters[k]
    PROVE  UNCHANGED Fifo(f)!vars
<1>1. Holders(f)' = Holders(f)
  BY OthersKept
<1>2. lanes[f] # l /\ lanes[f] \in Lanes \cup {NoLane}
  BY DEF Works, SchedInv, TypeOK
<1>3. LaneQueue(f)' = LaneQueue(f)
  BY <1>2 DEF LaneQueue
<1> QED
  BY <1>1, <1>3 DEF Fifo!vars

\* A step that keeps a key's queue and its holders.
LEMMA FifoSame ==
    ASSUME NEW f \in Keys, Owners(LaneQueue(f))' = Owners(LaneQueue(f)),
           Holders(f)' = Holders(f)
    PROVE  UNCHANGED Fifo(f)!vars
  BY DEF Fifo!vars, Owners

\* A grant takes a slot of a key that has one left.
LEMMA GrantTakes ==
    ASSUME SchedInv, ~CoarseClock, NEW f \in Keys, NEW r \in Callers,
           Cardinality(Holders(f)) < MaxConcurrentPerKey,
           Holders(f)' = Holders(f) \cup {r}
    PROVE  Fifo(f)!Take(r)
<1>1. Cardinality(Fifo(f)!Holders(f)) < MaxConcurrentPerKey
  BY FifoView
<1>2. Holding(f)' = [Holding(f) EXCEPT ![r] = f]
  BY DEF Holding
<1> QED
  BY <1>1, <1>2 DEF Fifo!Take, Holding, Cardinality, Fifo!Cardinality, IsFiniteSet,
                    Fifo!IsFiniteSet

\* A call that leaves its lane with an exception gives up.
LEMMA LeaveGivesUp ==
    ASSUME SchedInv, ~CoarseClock, NEW r \in Waiting, NEW outcome \in Raised,
           Leave(r, lane[r], waiters[lane[r]], queued, outcome), NEW h \in Keys
    PROVE  [Fifo(h)!Next]_(Fifo(h)!vars)
<1>0. PICK f \in Keys, l \in Lanes : f = key[r] /\ l = lane[r] /\ l = lanes[f]
  BY SleepersLane
<1>T. PICK T : T = TicketsOf(WaitingFor(f))
  OBVIOUS
<1> DEFINE queue == waiters[l]
           rest == Abandon(RemoveTicket(queue, Ticket(r)), r)
<1>1. /\ r \in Callers /\ pc[r] = "waiting" /\ InLoop(r, l, queue, queued)
      /\ r \in WaitingFor(f)
  BY <1>0, ResumeLoops DEF Waiting, WaitingFor
<1>2. /\ Works(f, l) /\ queue \in Seq(Tickets)
      /\ QueueHolds(queue, T) /\ OwnTickets(T) /\ DOMAIN T = WaitingFor(f) /\ T[r] = Ticket(r)
  <2>1. WaitingFor(f) \cup {r} = WaitingFor(f)
    BY <1>1
  <2> QED
    BY <1>0, <1>T, <1>1, <2>1, LoopFacts DEF InLoop
<1>3. /\ waiters' = [waiters EXCEPT ![l] = rest]
      /\ lanes' = WithoutIdleLane(f, active[l], rest)
      /\ Ends(r, outcome) /\ outcome # "leased"
  BY <1>0 DEF Leave, Raise, Ends, Raised
<1>4. OnlyMoves(r) /\ key'[r] \in {f, NoKey} /\ Holders(f)' = Holders(f)
  BY <1>0, <1>1, <1>3, CallEnds DEF SchedInv
<1> HIDE DEF rest
<1>5. \A g \in Keys \ {f} : lanes'[g] = lanes[g]
  BY <1>3 DEF WithoutIdleLane, SchedInv, TypeOK
<1>6. /\ waiters'[l] = rest
      /\ \A k \in Lanes \ {l} : waiters'[k] = waiters[k]
  BY <1>3 DEF SchedInv, TypeOK
<1>7. CASE h # f
  BY <1>0, <1>1, <1>2, <1>4, <1>5, <1>6, <1>7, FifoOther
<1>8. CASE h = f
  <2>1. LaneQueue(f) = queue
    BY <1>2, QueueOfLane
  <2>2. LaneQueue(f)' = rest
    <3>1. lanes'[f] = (IF active[l] = 0 /\ rest = <<>> THEN NoLane ELSE l) /\ l # NoLane
      BY <1>0, <1>3, NoLaneIsNone DEF WithoutIdleLane, SchedInv, TypeOK
    <3> QED
      BY <1>6, <3>1 DEF LaneQueue
  <2>3. PICK m \in 1 .. Len(queue) : queue[m].owner = r /\ rest = RemoveAt(queue, m)
    <3> HIDE DEF queue
    <3> QED
      BY <1>1, <1>2, OwnTicketTaken DEF rest
  <2>4. /\ Owners(LaneQueue(f)') = RemoveAt(Owners(LaneQueue(f)), m)
        /\ DOMAIN Owners(LaneQueue(f)) = 1 .. Len(queue)
        /\ Owners(LaneQueue(f))[m] = r
    <3> HIDE DEF queue
    <3> QED
      BY <1>2, <2>1, <2>2, <2>3, OwnersWithout, OwnersType
  <2>5. Fifo(f)!GiveUp(r)
    BY <1>4, <2>3, <2>4 DEF Fifo!GiveUp, Owners, RemoveAt
  <2> QED
    BY <1>1, <1>8, <2>5 DEF Fifo!Next
<1> QED
  BY <1>7, <1>8

\* A call that goes from the head of its lane with a lease is admitted.
LEMMA GrantAdmits ==
    ASSUME SchedInv, ~CoarseClock, NEW r \in Waiting,
           LoopGrant(r, lane[r], waiters[lane[r]], queued), NEW h \in Keys
    PROVE  [Fifo(h)!Next]_(Fifo(h)!vars)
<1>0. PICK f \in Keys, l \in Lanes : f = key[r] /\ l = lane[r] /\ l = lanes[f]
  BY SleepersLane
<1> DEFINE queue == waiters[l]
<1>1. r \in Callers /\ pc[r] = "waiting" /\ l # NoLane
  BY <1>0, NoLaneIsNone DEF Waiting
<1>2. Works(f, l) /\ queue \in Seq(Tickets)
  BY <1>0, <1>1, LaneInUse DEF SchedInv, TypeOK
<1>3. /\ waiters' = [waiters EXCEPT ![l] = Tail(queue)]
      /\ lanes' = lanes
      /\ queue # <<>> /\ queue[1].owner = r /\ active[l] < MaxConcurrentPerKey
      /\ Ends(r, "leased")
  BY <1>0 DEF LoopGrant, MayAdmit, Grant, Ends
<1>4. /\ OnlyMoves(r) /\ key'[r] \in {f, NoKey}
      /\ Holders(f)' = Holders(f) \cup {r}
  BY <1>0, <1>1, <1>3, CallEnds DEF SchedInv
<1>6. /\ waiters'[l] = Tail(queue)
      /\ \A k \in Lanes \ {l} : waiters'[k] = waiters[k]
  BY <1>3 DEF SchedInv, TypeOK
<1>7. CASE h # f
  BY <1>0, <1>1, <1>2, <1>3, <1>4, <1>6, <1>7, FifoOther
<1>8. CASE h = f
  <2>1. LaneQueue(f) = queue
    BY <1>2, QueueOfLane
  <2>2. LaneQueue(f)' = Tail(queue)
    BY <1>0, <1>1, <1>3, <1>6 DEF LaneQueue
  <2> HIDE DEF queue
  <2>3. 1 \in 1 .. Len(queue) /\ Tail(queue) = RemoveAt(queue, 1)
    BY <1>2, <1>3, TailIsRemoveAt
  <2>4. /\ Owners(queue) \in Seq(Callers \cup {Nobody})
        /\ Len(Owners(queue)) = Len(queue)
        /\ Owners(queue)[1] = r
    BY <1>2, <1>3, <2>3, OwnersType
  <2>5. Owners(queue) # <<>>
    BY <2>3, <2>4
  <2>6. Tail(Owners(queue)) = RemoveAt(Owners(queue), 1) /\ Head(Owners(queue)) = r
    BY <2>4, <2>5, TailIsRemoveAt
  <2>7. Owners(LaneQueue(f)') = Tail(Owners(LaneQueue(f)))
    BY <1>2, <2>1, <2>2, <2>3, <2>6, OwnersWithout
  <2>8. Fifo(f)!Take(r)
    BY <1>1, <1>2, <1>3, <1>4, GrantTakes DEF Works
  <2>9. Fifo(f)!Admit(r)
    BY <2>1, <2>5, <2>6, <2>7, <2>8 DEF Fifo!Admit, Owners
  <2> QED
    BY <1>1, <1>8, <2>9 DEF Fifo!Next
<1> QED
  BY <1>7, <1>8

\* A call that is admitted at once passes an empty queue.
LEMMA EnterGrantPasses ==
    ASSUME SchedInv, ~CoarseClock, NEW r \in Callers, pc[r] = "calling",
           NEW l \in Lanes, LaneFor(key[r], l), EnterGrant(r, l), NEW h \in Keys
    PROVE  [Fifo(h)!Next]_(Fifo(h)!vars)
<1>0. PICK f \in Keys : f = key[r]
  BY DEF SchedInv, CallShape
<1>2. Works(f, l)
  BY <1>0, LaneSeen DEF SchedInv
<1>3. /\ lanes' = [lanes EXCEPT ![f] = l]
      /\ waiters' = waiters /\ waiters[l] = <<>> /\ active[l] < MaxConcurrentPerKey
      /\ Ends(r, "leased")
  BY <1>0 DEF EnterGrant, Grant, Ends
<1>4. /\ OnlyMoves(r) /\ key'[r] \in {f, NoKey}
      /\ Holders(f)' = Holders(f) \cup {r}
  BY <1>0, <1>3, CallEnds DEF SchedInv
<1>5. lanes'[f] = l /\ \A g \in Keys \ {f} : lanes'[g] = lanes[g]
  BY <1>3 DEF SchedInv, TypeOK
<1>7. CASE h # f
  BY <1>0, <1>2, <1>3, <1>4, <1>5, <1>7, FifoOther
<1>8. CASE h = f
  <2>1. LaneQueue(f) = <<>> /\ LaneQueue(f)' = <<>>
    BY <1>2, <1>3, <1>5, QueueOfLane DEF LaneQueue
  <2>2. Owners(LaneQueue(f)) = <<>> /\ Owners(LaneQueue(f)') = <<>>
    BY <2>1 DEF Owners
  <2>3. Fifo(f)!Take(r)
    BY <1>2, <1>3, <1>4, GrantTakes DEF Works
  <2>4. r \notin Fifo(f)!Queued /\ Holding(f)[r] = NoKey
    BY FifoView DEF InCall, WaitingFor, Waiting
  <2>5. Fifo(f)!Pass(r)
    BY <2>2, <2>3, <2>4 DEF Fifo!Pass, Fifo!Idle, Owners, Holding
  <2> QED
    BY <1>8, <2>5 DEF Fifo!Next
<1> QED
  BY <1>7, <1>8

\* A lease is returned once.
LEMMA ReleaseReturns ==
    ASSUME SchedInv, ~CoarseClock, NEW r \in Callers, Release(r), ~released[r], NEW h \in Keys
    PROVE  [Fifo(h)!Next]_(Fifo(h)!vars)
<1>0. PICK f \in Keys : f = key[r]
  BY DEF Release, SchedInv, CallShape
<1>L. PICK l : l = lanes[f]
  OBVIOUS
<1>1. r \in Holders(f)
  BY <1>0 DEF Release, Holders
<1>2. l # NoLane /\ l \in Lanes /\ Works(f, l)
  BY <1>L, <1>1, LaneInUse DEF SchedInv, LanesRight, LaneRight, TypeOK
<1>3. /\ lanes' = WithoutIdleLane(f, active[l] - 1, waiters[l])
      /\ released' = [released EXCEPT ![r] = TRUE]
      /\ waiters' = waiters /\ pc' = pc /\ key' = key /\ lane' = lane
      /\ model' = model /\ stamp' = stamp
  BY <1>0, <1>L DEF Release, GiveBack, Unreleased, callVars
<1>4. OnlyMoves(r) /\ released'[r]
  BY <1>3 DEF OnlyMoves, SchedInv, TypeOK
<1>5. Holders(f)' = Holders(f) \ {r}
  BY <1>3, <1>4 DEF Holders, OnlyMoves
<1>6. \A g \in Keys \ {f} : lanes'[g] = lanes[g]
  BY <1>3 DEF WithoutIdleLane, SchedInv, TypeOK
<1>7. CASE h # f
  BY <1>0, <1>2, <1>3, <1>4, <1>6, <1>7, FifoOther
<1>8. CASE h = f
  <2>1. LaneQueue(f) = waiters[l]
    BY <1>2, QueueOfLane
  <2>2. LaneQueue(f)' = waiters[l]
    <3>1. lanes'[f] = IF active[l] - 1 = 0 /\ waiters[l] = <<>> THEN NoLane ELSE l
      BY <1>L, <1>3 DEF WithoutIdleLane, SchedInv, TypeOK
    <3> QED
      BY <1>2, <1>3, <3>1 DEF LaneQueue
  <2>3. Holding(f)[r] = f /\ Holding(f)' = [Holding(f) EXCEPT ![r] = NoKey]
    BY <1>1, <1>5 DEF Holding
  <2>4. Fifo(f)!Return(r)
    BY <2>1, <2>2, <2>3 DEF Fifo!Return, Holding
  <2> QED
    BY <1>8, <2>4 DEF Fifo!Next
<1> QED
  BY <1>7, <1>8

\* A call that has to queue waits at its end, or has left before anybody saw it.
LEMMA EnterQueueJoins ==
    ASSUME SchedInv, ~CoarseClock, NEW r \in Callers, pc[r] = "calling", ~Probe(r),
           NEW l \in Lanes, LaneFor(key[r], l), EnterQueue(r, l), NEW h \in Keys
    PROVE  [Fifo(h)!Next]_(Fifo(h)!vars)
<1>0. PICK f \in Keys : f = key[r]
  BY DEF SchedInv, CallShape
<1>T. PICK T : T = TicketsOf(WaitingFor(f) \cup {r})
  OBVIOUS
<1> DEFINE queue == waiters[l]
           t == Ticket(r)
           long == Append(queue, t)
           rest == Abandon(RemoveTicket(long, t), r)
<1>1. InLoop(r, l, long, queued + 1)
  BY EnterQueueLoops DEF EnterQueue
<1>2. /\ Works(f, l) /\ lanes[f] = l /\ queue \in Seq(Tickets) /\ long \in Seq(Tickets)
      /\ QueueHolds(long, T) /\ OwnTickets(T) /\ DOMAIN T = WaitingFor(f) \cup {r}
      /\ T[r] = t /\ t \in Tickets /\ t.owner = r
  <2>1. queue \in Seq(Tickets)
    BY DEF SchedInv, TypeOK
  <2>2. T[r] = Ticket(r) /\ OwnTickets(T) /\ DOMAIN T = WaitingFor(f) \cup {r}
        /\ Works(f, l) /\ lanes[f] = l /\ long \in Seq(Tickets)
    BY <1>0, <1>T, <1>1, LoopFacts
  <2>3. QueueHolds(long, T)
    BY <1>0, <1>T, <1>1 DEF InLoop
  <2>4. T[r] \in Tickets /\ T[r].owner = r
    BY <2>2 DEF OwnTickets
  <2> QED
    BY <2>1, <2>2, <2>3, <2>4
<1>3. LaneQueue(f) = queue /\ l # NoLane
  BY <1>2, QueueOfLane, NoLaneIsNone
<1>4. r \in InCall /\ r \notin WaitingFor(f)
  BY DEF InCall, WaitingFor, Waiting
<1>5. \A i \in DOMAIN queue : queue[i].owner \in WaitingFor(f)
  BY <1>3, QueueOfLane DEF QueueHolds, OwnersMatch, NoOrphans, TicketsOf
<1>6. /\ Len(long) = Len(queue) + 1 /\ Len(queue) \in Nat
      /\ DOMAIN queue = 1 .. Len(queue)
      /\ \A i \in 1 .. Len(queue) : long[i] = queue[i]
  <2> HIDE DEF t
  <2> QED
    BY <1>2, AppendProperties, LenProperties
<1>7. ~LoopCancelled(r, l, long, queued + 1)
  BY DEF LoopCancelled
<1>8. ~LoopGrant(r, l, long, queued + 1)
  <2> SUFFICES ASSUME LoopGrant(r, l, long, queued + 1)
               PROVE  FALSE
    OBVIOUS
  <2>1. long[1].owner = r /\ active[l] < MaxConcurrentPerKey
    BY DEF LoopGrant, MayAdmit
  <2>2. active[l] \in Nat /\ MaxConcurrentPerKey \in Nat
    BY SchedulerAssumption DEF SchedInv, TypeOK
  <2>3. queue # <<>>
    BY <2>1, <2>2 DEF EnterQueue, MustQueue
  <2>4. 1 \in DOMAIN queue /\ long[1] = queue[1]
    <3> HIDE DEF queue, t
    <3> QED
      BY <1>2, <2>3
  <2> HIDE DEF queue, long
  <2> QED
    BY <1>4, <1>5, <2>1, <2>4
<1>9. CASE LoopTimeout(r, l, long, queued + 1)
  <2>1. /\ waiters' = [waiters EXCEPT ![l] = rest]
        /\ lanes' = WithoutIdleLane(f, active[l], rest)
        /\ Ends(r, "timeout")
    BY <1>0, <1>9 DEF LoopTimeout, Leave, Raise, Ends, Raised
  <2>2. OnlyMoves(r) /\ key'[r] \in {f, NoKey} /\ Holders(f)' = Holders(f)
    <3>1. TypeOK /\ CallShape /\ StampsDistinct /\ "timeout" # "leased"
      BY DEF SchedInv
    <3> HIDE DEF rest
    <3> QED
      BY <1>0, <2>1, <3>1, CallEnds
  <2>3. rest = queue
    <3>1. PICK m \in 1 .. Len(long) : long[m].owner = r /\ rest = RemoveAt(long, m)
      <4> HIDE DEF long, t
      <4> QED
        BY <1>2, OwnTicketTaken DEF rest
    <3>2. m \notin 1 .. Len(queue)
      <4> HIDE DEF long, queue
      <4> QED
        BY <1>4, <1>5, <1>6, <3>1
    <3>3. m = Len(queue) + 1
      <4> HIDE DEF long, queue
      <4> QED
        BY <1>6, <3>1, <3>2
    <3>4. RemoveAt(long, Len(queue) + 1) = queue
      <4> HIDE DEF t, queue
      <4> QED
        BY <1>2, AppendedOut
    <3> HIDE DEF rest, long, queue
    <3> QED
      BY <3>1, <3>3, <3>4
  <2>4. waiters' = waiters
    BY <2>1, <2>3 DEF SchedInv, TypeOK
  <2>5. \A g \in Keys \ {f} : lanes'[g] = lanes[g]
    <3> HIDE DEF rest
    <3> QED
      BY <2>1 DEF WithoutIdleLane, SchedInv, TypeOK
  <2>6. CASE h # f
    BY <1>0, <1>2, <2>2, <2>4, <2>5, <2>6, FifoOther
  <2>7. CASE h = f
    <3>1. lanes'[f] = IF active[l] = 0 /\ queue = <<>> THEN NoLane ELSE l
      <4> HIDE DEF rest, queue
      <4> QED
        BY <1>2, <2>1, <2>3 DEF WithoutIdleLane, SchedInv, TypeOK
    <3>2. LaneQueue(f)' = LaneQueue(f)
      BY <1>3, <2>4, <3>1 DEF LaneQueue
    <3> QED
      BY <2>2, <2>7, <3>2, FifoSame DEF Owners
  <2> QED
    BY <2>6, <2>7
<1>10. CASE LoopSleep(r, l, long, queued + 1)
  <2>1. /\ waiters' = [waiters EXCEPT ![l] = long]
        /\ pc' = [pc EXCEPT ![r] = "waiting"]
        /\ lane' = [lane EXCEPT ![r] = l]
        /\ lanes' = lanes /\ key' = key /\ model' = model /\ stamp' = stamp
        /\ released' = released
    BY <1>10 DEF LoopSleep
  <2>2. OnlyMoves(r) /\ pc'[r] = "waiting" /\ key'[r] = f
    BY <1>0, <2>1 DEF OnlyMoves, SchedInv, TypeOK
  <2> HIDE DEF long
  <2>3. waiters'[l] = long /\ \A k \in Lanes \ {l} : waiters'[k] = waiters[k]
    BY <2>1 DEF SchedInv, TypeOK
  <2>4. CASE h # f
    BY <1>0, <1>2, <2>1, <2>2, <2>3, <2>4, FifoOther
  <2>5. CASE h = f
    <3>1. Holders(f)' = Holders(f)
      BY <2>1, <2>2 DEF Holders, OnlyMoves
    <3>2. LaneQueue(f)' = long
      BY <1>2, <1>3, <2>1, <2>3 DEF LaneQueue
    <3>3. Owners(long) = Append(Owners(queue), r)
      <4> HIDE DEF queue, t
      <4> QED
        BY <1>2, OwnersAppend DEF long
    <3>4. Len(Owners(queue)) < MaxQueuePerKey
      BY <1>2, OwnersType DEF EnterQueue, HasRoom
    <3>5. r \notin Fifo(f)!Queued /\ Holding(f)[r] = NoKey
      BY <1>4, FifoView
    <3>6. Fifo(f)!Join(r)
      BY <1>3, <3>1, <3>2, <3>3, <3>4, <3>5 DEF Fifo!Join, Fifo!Idle, Owners, Holding
    <3> QED
      BY <2>5, <3>6 DEF Fifo!Next
  <2> QED
    BY <2>4, <2>5
<1> QED
  BY <1>7, <1>8, <1>9, <1>10 DEF EnterQueue, WaitLoop

\* A step that leaves the lanes and the leases of all keys alone.
LEMMA QuietFifo ==
    ASSUME UNCHANGED <<lanes, waiters>>, NEW h \in Keys, Holders(h)' = Holders(h)
    PROVE  [Fifo(h)!Next]_(Fifo(h)!vars)
<1>1. LaneQueue(h)' = LaneQueue(h)
  BY DEF LaneQueue
<1> QED
  BY <1>1, FifoSame DEF Owners

\* Every step is a step of the abstract component of a key, or none it sees.
LEMMA FifoStep ==
    ASSUME SchedInv, ~CoarseClock, [Next]_vars, NEW h \in Keys
    PROVE  [Fifo(h)!Next]_(Fifo(h)!vars)
<1>1. CASE Tick \/ UNCHANGED vars
  BY <1>1, QuietFifo DEF Tick, laneVars, vars, Holders
<1>2. ASSUME NEW r \in Callers, Disconnect(r) \/ Reconnect(r)
      PROVE  [Fifo(h)!Next]_(Fifo(h)!vars)
  BY <1>2, QuietFifo DEF Disconnect, Reconnect, laneVars, Holders
<1>3. ASSUME NEW r \in Callers,
             \/ \E f \in Keys, m \in Models : BeginAcquire(r, f, m)
             \/ Drop(r) \/ Catch(r)
      PROVE  [Fifo(h)!Next]_(Fifo(h)!vars)
  <2>1. Holders(h)' = Holders(h)
    BY <1>3 DEF BeginAcquire, Drop, Catch, Raised, Holders, SchedInv, TypeOK
  <2> QED
    BY <1>3, <2>1, QuietFifo DEF BeginAcquire, Drop, Catch, laneVars
<1>4. ASSUME NEW r \in Callers, Enter(r)
      PROVE  [Fifo(h)!Next]_(Fifo(h)!vars)
  <2>1. pc[r] = "calling"
    BY <1>4 DEF Enter
  <2>2. ASSUME NEW outcome \in Raised, Raise(r, outcome), UNCHANGED laneVars
        PROVE  [Fifo(h)!Next]_(Fifo(h)!vars)
    <3>1. Holders(h)' = Holders(h)
      BY <2>1, <2>2 DEF Raise, EndCall, Raised, Holders, SchedInv, TypeOK
    <3> QED
      BY <2>2, <3>1, QuietFifo DEF laneVars
  <2>3. CASE EnterCancelled(r)
    BY <2>2, <2>3 DEF EnterCancelled, Raised
  <2>4. ASSUME NEW l \in Lanes, LaneFor(key[r], l), ~Probe(r),
               EnterGrant(r, l) \/ EnterFull(r, l) \/ EnterQueue(r, l)
        PROVE  [Fifo(h)!Next]_(Fifo(h)!vars)
    BY <2>1, <2>2, <2>4, EnterGrantPasses, EnterQueueJoins DEF EnterFull, Raised
  <2> QED
    BY <1>4, <2>3, <2>4 DEF Enter
<1>5. ASSUME NEW r \in Callers, Resume(r)
      PROVE  [Fifo(h)!Next]_(Fifo(h)!vars)
  <2>1. r \in Waiting /\ WaitLoop(r, lane[r], waiters[lane[r]], queued)
    BY <1>5 DEF Resume, Waiting
  <2>2. ASSUME NEW outcome \in Raised, Leave(r, lane[r], waiters[lane[r]], queued, outcome)
        PROVE  [Fifo(h)!Next]_(Fifo(h)!vars)
    BY <2>1, <2>2, LeaveGivesUp
  <2>3. CASE LoopGrant(r, lane[r], waiters[lane[r]], queued)
    BY <2>1, <2>3, GrantAdmits
  <2>4. CASE LoopSleep(r, lane[r], waiters[lane[r]], queued)
    <3>1. Holders(h)' = Holders(h)
      BY <2>1, <2>4 DEF LoopSleep, Holders, Waiting, SchedInv, TypeOK
    <3>2. lanes' = lanes /\ waiters' = waiters
      BY <2>4 DEF LoopSleep, SchedInv, TypeOK
    <3> QED
      BY <3>1, <3>2, QuietFifo
  <2> QED
    BY <2>1, <2>2, <2>3, <2>4 DEF WaitLoop, LoopCancelled, LoopTimeout, Raised
<1>6. ASSUME NEW r \in Callers, Release(r)
      PROVE  [Fifo(h)!Next]_(Fifo(h)!vars)
  <2>1. CASE released[r]
    <3>1. UNCHANGED <<lanes, waiters>> /\ Holders(h)' = Holders(h)
      BY <1>6, <2>1 DEF Release, GiveBack, Unreleased, Holders, SchedInv, TypeOK
    <3> QED
      BY <3>1, QuietFifo
  <2> QED
    BY <1>6, <2>1, ReleaseReturns
<1> QED
  BY <1>1, <1>2, <1>3, <1>4, <1>5, <1>6 DEF Next

\* With a clock that never returns the same reading twice every key has a
\* bounded FIFO admission component of its own: a lease goes to the head of the
\* key's queue, or to a new call only while nobody waits for the key, whatever
\* happens to other keys and however often the lane is dropped and made again.
THEOREM FirstComeFirstServed ==
    ASSUME ~CoarseClock
    PROVE  Spec => ImplementsFifo
<1>1. Init => \A f \in Keys : Fifo(f)!Init
  <2> SUFFICES ASSUME Init, NEW f \in Keys
               PROVE  Fifo(f)!Init
    OBVIOUS
  <2>1. LaneQueue(f) = <<>> /\ Holders(f) = {}
    BY DEF Init, LaneQueue, Holders
  <2>2. Owners(LaneQueue(f)) = <<>>
    BY <2>1 DEF Owners
  <2> QED
    BY <2>1, <2>2 DEF Fifo!Init, Owners
<1>2. SchedInv /\ [Next]_vars => \A f \in Keys : [Fifo(f)!Next]_(Fifo(f)!vars)
  BY FifoStep
<1> QED
  BY <1>1, <1>2, SchedulerInvariant, PTL DEF Spec, ImplementsFifo
=============================================================================
