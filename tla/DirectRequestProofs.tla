------------------------- MODULE DirectRequestProofs -------------------------
(***************************************************************************)
(* Proofs about DirectRequest: the handler of Env and Client mode and the  *)
(* scheduler it runs on, for every set of callers and of keys and every    *)
(* value of the limits and timeouts.                                       *)
(***************************************************************************)
EXTENDS DirectRequest, SchedulerProofs

-----------------------------------------------------------------------------
\* The inductive invariant

Words == Raised \cup {"failed", "relayed"}

Outside == {"none", "acquire", "over"}
Attempting == {"open", "upstream", "relay", "relaying"}

HandlerTypeOK ==
    /\ at \in [Callers -> Outside \cup Attempting \cup {"acquiring", "release", "drop"}]
    /\ answers \in [Callers -> {<<>>} \cup {<<w>> : w \in Words}]

\* Outside of acquire and an attempt the thread holds nothing; during an attempt
\* it holds a lease that counts, and `drop' follows the only release.
PlaceRight(r) ==
    /\ at[r] \in Outside => pc[r] = "idle"
    /\ at[r] = "acquiring" =>
           /\ pc[r] \in {"calling", "waiting", "leased"} \cup Raised
           /\ pc[r] = "leased" => ~released[r]
           /\ pc[r] = "cancelled" => r \in gone
    /\ at[r] \in Attempting \cup {"release"} => pc[r] = "leased" /\ ~released[r]
    /\ at[r] = "drop" => pc[r] = "leased" /\ released[r]

\* Nothing has been sent before the relay or the error begins, and the lease is
\* not given back before, unless the client is gone.
AnswerRight(r) ==
    /\ at[r] \in {"acquire", "acquiring", "open", "upstream", "relay"} => answers[r] = <<>>
    /\ at[r] = "relaying" => answers[r] # <<>>
    /\ at[r] \in {"release", "drop", "over"} => answers[r] # <<>> \/ r \in gone

HandlerInv == HandlerTypeOK /\ \A r \in Callers : PlaceRight(r) /\ AnswerRight(r)

RequestInv == SchedInv /\ HandlerInv

-----------------------------------------------------------------------------
\* What the handler's steps do to the scheduler

\* acquire works for one thread at a time, and comes to a wait, to a lease that
\* counts or to an exception; "cancelled" is only raised for a client that is gone.
LEMMA AcquireMoves ==
    ASSUME SchedInv, NEW r \in Callers, Enter(r) \/ Resume(r)
    PROVE  /\ \A s \in Callers \ {r} : pc'[s] = pc[s] /\ released'[s] = released[s]
           /\ pc'[r] \in {"waiting", "leased"} \cup Raised
           /\ pc'[r] = "leased" => ~released'[r]
           /\ pc'[r] = "cancelled" => r \in gone
           /\ gone' = gone
<1>1. pc \in [Callers -> {"idle", "calling", "waiting", "leased"} \cup Raised]
      /\ released \in [Callers -> BOOLEAN]
  BY DEF SchedInv, TypeOK
<1>2. gone' = gone
  BY DEF Enter, Resume
<1>3. ASSUME NEW outcome \in Raised, Raise(r, outcome), outcome = "cancelled" => Probe(r)
      PROVE  /\ \A s \in Callers \ {r} : pc'[s] = pc[s] /\ released'[s] = released[s]
             /\ pc'[r] \in {"waiting", "leased"} \cup Raised
             /\ pc'[r] = "leased" => ~released'[r]
             /\ pc'[r] = "cancelled" => r \in gone
  BY <1>1, <1>3 DEF Raise, EndCall, Raised, Probe
<1>4. ASSUME NEW l, Grant(r, l)
      PROVE  /\ \A s \in Callers \ {r} : pc'[s] = pc[s] /\ released'[s] = released[s]
             /\ pc'[r] = "leased" /\ ~released'[r]
  BY <1>1, <1>4 DEF Grant, EndCall
<1>5. ASSUME NEW l, NEW queue, NEW total, WaitLoop(r, l, queue, total)
      PROVE  /\ \A s \in Callers \ {r} : pc'[s] = pc[s] /\ released'[s] = released[s]
             /\ pc'[r] \in {"waiting", "leased"} \cup Raised
             /\ pc'[r] = "leased" => ~released'[r]
             /\ pc'[r] = "cancelled" => r \in gone
  <2>1. CASE LoopCancelled(r, l, queue, total)
    BY <1>3, <2>1 DEF LoopCancelled, Leave, Raised
  <2>2. CASE LoopTimeout(r, l, queue, total)
    BY <1>3, <2>2 DEF LoopTimeout, Leave, Raised
  <2>3. CASE LoopGrant(r, l, queue, total)
    BY <1>4, <2>3 DEF LoopGrant
  <2>4. CASE LoopSleep(r, l, queue, total)
    BY <1>1, <2>4 DEF LoopSleep
  <2> QED
    BY <1>5, <2>1, <2>2, <2>3, <2>4 DEF WaitLoop
<1>6. CASE Enter(r)
  <2>1. CASE EnterCancelled(r)
    BY <1>2, <1>3, <2>1 DEF EnterCancelled, Raised
  <2>2. ASSUME NEW l \in Lanes, EnterGrant(r, l) \/ EnterFull(r, l) \/ EnterQueue(r, l)
        PROVE  /\ \A s \in Callers \ {r} : pc'[s] = pc[s] /\ released'[s] = released[s]
               /\ pc'[r] \in {"waiting", "leased"} \cup Raised
               /\ pc'[r] = "leased" => ~released'[r]
               /\ pc'[r] = "cancelled" => r \in gone
    BY <1>3, <1>4, <1>5, <2>2 DEF EnterGrant, EnterFull, EnterQueue, Raised
  <2> QED
    BY <1>2, <1>6, <2>1, <2>2 DEF Enter
<1>7. CASE Resume(r)
  BY <1>2, <1>5, <1>7 DEF Resume
<1> QED
  BY <1>6, <1>7

\* Whatever the handler does, the scheduler's state stays in order.
LEMMA SchedulerKept == SchedInv /\ [RequestNext]_requestVars => SchedInv'
<1> SUFFICES ASSUME SchedInv, [RequestNext]_requestVars
             PROVE  SchedInv'
  OBVIOUS
<1>1. ASSUME NEW r \in Callers, Arrive(r)
      PROVE  SchedInv'
  <2>1. UNCHANGED <<lanes, active, waiters, queued, pc, key, lane, model, stamp, released,
                    left, timer, notified, reading>>
    BY <1>1 DEF Arrive, laneVars, callVars
  <2>2. gone' \in SUBSET Callers
    BY <1>1 DEF Arrive, SchedInv, TypeOK
  <2> QED
    BY <2>1, <2>2, QuietKeeps DEF SchedInv, TypeOK
<1>2. [Next]_vars => SchedInv'
  BY SchedInvNext
<1>3. ASSUME NEW r \in Callers,
             ThreadStep(r) \/ UpstreamStep(r) \/ RelayEnds(r) \/ ClientLeaves(r)
      PROVE  [Next]_vars
  BY <1>3 DEF ThreadStep, UpstreamStep, CallAcquire, InAcquire, Unserved, Admitted, Open,
              RelayStarts, RelayEnds, ReleaseSlot, DropLease, AttemptAnswers, Fails,
              ClientLeaves, Next
<1>4. CASE TimePasses
  BY <1>2, <1>4 DEF TimePasses, Next
<1>5. CASE UNCHANGED requestVars
  BY <1>2, <1>5 DEF requestVars
<1> QED
  BY <1>1, <1>2, <1>3, <1>4, <1>5 DEF RequestNext

\* At first no thread has a request.
LEMMA HandlerInit == RequestInit => HandlerInv
<1> SUFFICES ASSUME RequestInit
             PROVE  HandlerInv
  OBVIOUS
<1>1. at = [r \in Callers |-> "none"] /\ answers = [r \in Callers |-> <<>>]
  BY DEF RequestInit
<1>2. at \in [Callers -> Outside \cup Attempting \cup {"acquiring", "release", "drop"}]
  BY <1>1 DEF Outside
<1>3. answers \in [Callers -> {<<>>} \cup {<<x>> : x \in Words}]
  BY <1>1
<1>4. ASSUME NEW r \in Callers
      PROVE  PlaceRight(r) /\ AnswerRight(r)
  <2>1. at[r] = "none" /\ answers[r] = <<>> /\ pc[r] = "idle"
    BY <1>1 DEF RequestInit, Init
  <2> QED
    BY <2>1 DEF PlaceRight, AnswerRight, Outside, Attempting
<1> QED
  BY <1>2, <1>3, <1>4 DEF HandlerInv, HandlerTypeOK

\* A step of the handler of r, which only r's place, call and answers and whether
\* its client is gone depend on.
LEMMA OneMoves ==
    ASSUME HandlerInv, NEW r \in Callers,
           \A s \in Callers \ {r} :
               /\ pc'[s] = pc[s] /\ released'[s] = released[s] /\ at'[s] = at[s]
               /\ answers'[s] = answers[s] /\ (s \in gone <=> s \in gone'),
           HandlerTypeOK', PlaceRight(r)', AnswerRight(r)'
    PROVE  HandlerInv'
<1>1. ASSUME NEW s \in Callers, s # r
      PROVE  PlaceRight(s)' /\ AnswerRight(s)'
  BY <1>1 DEF HandlerInv, PlaceRight, AnswerRight
<1> QED
  BY <1>1 DEF HandlerInv

\* The first answer to a request is its only one.
LEMMA AnswerType ==
    ASSUME HandlerInv, NEW r \in Callers, answers[r] = <<>>, NEW w \in Words, Answer(r, w)
    PROVE  /\ answers' \in [Callers -> {<<>>} \cup {<<x>> : x \in Words}]
           /\ answers'[r] # <<>>
           /\ \A s \in Callers \ {r} : answers'[s] = answers[s]
<1>1. answers \in [Callers -> {<<>>} \cup {<<x>> : x \in Words}]
  BY DEF HandlerInv, HandlerTypeOK
<1>2. Append(answers[r], w) = <<w>> /\ <<w>> # <<>>
  OBVIOUS
<1>3. answers' = [answers EXCEPT ![r] = <<w>>]
  BY <1>2 DEF Answer
<1> QED
  BY <1>1, <1>2, <1>3

\* A thread goes to another place of the handler.
LEMMA GotoType ==
    ASSUME HandlerInv, NEW r \in Callers,
           NEW place \in Outside \cup Attempting \cup {"acquiring", "release", "drop"},
           Goto(r, place)
    PROVE  /\ at' \in [Callers -> Outside \cup Attempting \cup {"acquiring", "release", "drop"}]
           /\ at'[r] = place
           /\ \A s \in Callers \ {r} : at'[s] = at[s]
  BY DEF HandlerInv, HandlerTypeOK, Goto

\* A request arrives.
LEMMA ArriveKeeps ==
    ASSUME RequestInv, NEW r \in Callers, Arrive(r)
    PROVE  HandlerInv'
<1>1. /\ at[r] \in {"none", "over"} /\ pc' = pc /\ released' = released
      /\ gone' = gone \ {r} /\ answers' = [answers EXCEPT ![r] = <<>>]
  BY DEF Arrive
<1>2. /\ at' \in [Callers -> Outside \cup Attempting \cup {"acquiring", "release", "drop"}]
      /\ at'[r] = "acquire" /\ \A s \in Callers \ {r} : at'[s] = at[s]
  BY GotoType DEF RequestInv, Arrive, Outside
<1>3. /\ answers' \in [Callers -> {<<>>} \cup {<<w>> : w \in Words}]
      /\ answers'[r] = <<>> /\ \A s \in Callers \ {r} : answers'[s] = answers[s]
  BY <1>1 DEF RequestInv, HandlerInv, HandlerTypeOK
<1>4. PlaceRight(r)' /\ AnswerRight(r)'
  BY <1>1, <1>2, <1>3 DEF RequestInv, HandlerInv, PlaceRight, AnswerRight, Outside, Attempting
<1> QED
  BY <1>1, <1>2, <1>3, <1>4, OneMoves DEF RequestInv, HandlerTypeOK

\* The handler calls acquire.
LEMMA CallAcquireKeeps ==
    ASSUME RequestInv, NEW r \in Callers, CallAcquire(r)
    PROVE  HandlerInv'
<1>1. /\ at[r] = "acquire" /\ answers' = answers /\ gone' = gone /\ released' = released
      /\ pc' = [pc EXCEPT ![r] = "calling"]
  BY DEF CallAcquire, BeginAcquire
<1>2. /\ at' \in [Callers -> Outside \cup Attempting \cup {"acquiring", "release", "drop"}]
      /\ at'[r] = "acquiring" /\ \A s \in Callers \ {r} : at'[s] = at[s]
  BY GotoType DEF RequestInv, CallAcquire
<1>3. pc'[r] = "calling" /\ \A s \in Callers \ {r} : pc'[s] = pc[s]
  BY <1>1 DEF RequestInv, SchedInv, TypeOK
<1>4. PlaceRight(r)' /\ AnswerRight(r)'
  BY <1>1, <1>2, <1>3 DEF RequestInv, HandlerInv, PlaceRight, AnswerRight, Outside, Attempting
<1> QED
  BY <1>1, <1>2, <1>3, <1>4, OneMoves DEF RequestInv, HandlerInv, HandlerTypeOK

\* acquire goes on.
LEMMA InAcquireKeeps ==
    ASSUME RequestInv, NEW r \in Callers, InAcquire(r)
    PROVE  HandlerInv'
<1>1. /\ at[r] = "acquiring" /\ at' = at /\ answers' = answers
      /\ \A s \in Callers \ {r} : pc'[s] = pc[s] /\ released'[s] = released[s]
      /\ pc'[r] \in {"waiting", "leased"} \cup Raised
      /\ pc'[r] = "leased" => ~released'[r]
      /\ pc'[r] = "cancelled" => r \in gone
      /\ gone' = gone
  BY AcquireMoves DEF RequestInv, InAcquire
<1>2. PlaceRight(r)' /\ AnswerRight(r)'
  BY <1>1 DEF RequestInv, HandlerInv, PlaceRight, AnswerRight, Outside, Attempting
<1> QED
  BY <1>1, <1>2, OneMoves DEF RequestInv, HandlerInv, HandlerTypeOK

\* The handler answers what acquire raised.
LEMMA UnservedKeeps ==
    ASSUME RequestInv, NEW r \in Callers, Unserved(r)
    PROVE  HandlerInv'
<1>1. /\ at[r] = "acquiring" /\ pc[r] \in Raised /\ released' = released /\ gone' = gone
      /\ pc' = [pc EXCEPT ![r] = "idle"]
      /\ answers[r] = <<>>
  BY DEF Unserved, Catch, RequestInv, HandlerInv, AnswerRight
<1>2. /\ at' \in [Callers -> Outside \cup Attempting \cup {"acquiring", "release", "drop"}]
      /\ at'[r] = "over" /\ \A s \in Callers \ {r} : at'[s] = at[s]
  BY GotoType DEF RequestInv, Unserved, Outside
<1>3. pc'[r] = "idle" /\ \A s \in Callers \ {r} : pc'[s] = pc[s]
  BY <1>1 DEF RequestInv, SchedInv, TypeOK
<1>4. /\ answers' \in [Callers -> {<<>>} \cup {<<w>> : w \in Words}]
      /\ answers'[r] # <<>> \/ r \in gone
      /\ \A s \in Callers \ {r} : answers'[s] = answers[s]
  <2>1. CASE pc[r] = "cancelled"
    BY <1>1, <2>1 DEF Unserved, RequestInv, HandlerInv, HandlerTypeOK, PlaceRight
  <2>2. CASE pc[r] # "cancelled"
    BY <1>1, <2>2, AnswerType DEF Unserved, RequestInv, Words
  <2> QED
    BY <2>1, <2>2
<1>5. PlaceRight(r)' /\ AnswerRight(r)'
  BY <1>1, <1>2, <1>3, <1>4 DEF PlaceRight, AnswerRight, Outside, Attempting
<1> QED
  BY <1>1, <1>2, <1>3, <1>4, <1>5, OneMoves DEF RequestInv, HandlerTypeOK

\* The handler goes on with a lease, without an answer yet.
LEMMA GoesOnKeeps ==
    ASSUME RequestInv, NEW r \in Callers,
           Admitted(r) \/ Open(r) \/ AttemptAnswers(r) \/ RelayEnds(r)
    PROVE  HandlerInv'
<1>1. UNCHANGED <<pc, released, gone, answers>>
  BY DEF Admitted, Open, AttemptAnswers, RelayEnds, vars
<1>2. PICK place \in Attempting \cup {"release"} :
          /\ Goto(r, place)
          /\ \/ at[r] = "acquiring" /\ pc[r] = "leased" /\ place = "release" /\ r \in gone
             \/ at[r] = "acquiring" /\ pc[r] = "leased" /\ place = "open"
             \/ at[r] = "open" /\ place = "upstream"
             \/ at[r] = "upstream" /\ place = "relay"
             \/ at[r] = "relaying" /\ place = "release"
  BY DEF Admitted, Open, AttemptAnswers, RelayEnds, Attempting, Probe
<1>3. /\ at' \in [Callers -> Outside \cup Attempting \cup {"acquiring", "release", "drop"}]
      /\ at'[r] = place /\ \A s \in Callers \ {r} : at'[s] = at[s]
  BY <1>2, GotoType DEF RequestInv
<1>4. PlaceRight(r) /\ AnswerRight(r)
  BY DEF RequestInv, HandlerInv
<1>5. PlaceRight(r)' /\ AnswerRight(r)'
  BY <1>1, <1>2, <1>3, <1>4 DEF PlaceRight, AnswerRight, Outside, Attempting
<1> QED
  BY <1>1, <1>3, <1>5, OneMoves DEF RequestInv, HandlerInv, HandlerTypeOK

\* The client's response begins: with an error or with what NVIDIA answered.
LEMMA AnswersKeeps ==
    ASSUME RequestInv, NEW r \in Callers, Fails(r) \/ RelayStarts(r)
    PROVE  HandlerInv'
<1>1. /\ UNCHANGED <<pc, released, gone>>
      /\ at[r] \in {"upstream", "relay"}
  BY DEF Fails, RelayStarts, vars
<1>2. PICK place \in {"relaying", "release"}, w \in Words : Goto(r, place) /\ Answer(r, w)
  BY DEF Fails, RelayStarts, Words
<1>3. PlaceRight(r) /\ AnswerRight(r)
  BY DEF RequestInv, HandlerInv
<1>4. /\ at' \in [Callers -> Outside \cup Attempting \cup {"acquiring", "release", "drop"}]
      /\ at'[r] = place /\ \A s \in Callers \ {r} : at'[s] = at[s]
  BY <1>2, GotoType DEF RequestInv, Attempting
<1>5. /\ answers' \in [Callers -> {<<>>} \cup {<<x>> : x \in Words}]
      /\ answers'[r] # <<>>
      /\ \A s \in Callers \ {r} : answers'[s] = answers[s]
  BY <1>1, <1>2, <1>3, AnswerType DEF RequestInv, AnswerRight
<1>6. PlaceRight(r)' /\ AnswerRight(r)'
  BY <1>1, <1>2, <1>3, <1>4, <1>5 DEF PlaceRight, AnswerRight, Outside, Attempting
<1> QED
  BY <1>1, <1>4, <1>5, <1>6, OneMoves DEF RequestInv, HandlerTypeOK

\* The `finally' releases the lease.
LEMMA ReleaseSlotKeeps ==
    ASSUME RequestInv, NEW r \in Callers, ReleaseSlot(r)
    PROVE  HandlerInv'
<1>1. /\ at[r] = "release" /\ UNCHANGED <<pc, gone, answers>>
      /\ released' = [released EXCEPT ![r] = TRUE]
  BY DEF ReleaseSlot, Release
<1>2. /\ at' \in [Callers -> Outside \cup Attempting \cup {"acquiring", "release", "drop"}]
      /\ at'[r] = "drop" /\ \A s \in Callers \ {r} : at'[s] = at[s]
  BY GotoType DEF RequestInv, ReleaseSlot
<1>3. released'[r] /\ \A s \in Callers \ {r} : released'[s] = released[s]
  BY <1>1 DEF RequestInv, SchedInv, TypeOK
<1>4. PlaceRight(r)' /\ AnswerRight(r)'
  BY <1>1, <1>2, <1>3 DEF RequestInv, HandlerInv, PlaceRight, AnswerRight, Outside, Attempting
<1> QED
  BY <1>1, <1>2, <1>3, <1>4, OneMoves DEF RequestInv, HandlerInv, HandlerTypeOK

\* The handler returns.
LEMMA DropLeaseKeeps ==
    ASSUME RequestInv, NEW r \in Callers, DropLease(r)
    PROVE  HandlerInv'
<1>1. /\ at[r] = "drop" /\ UNCHANGED <<gone, answers>>
      /\ pc' = [pc EXCEPT ![r] = "idle"]
      /\ released' = [released EXCEPT ![r] = FALSE]
  BY DEF DropLease, Drop
<1>2. /\ at' \in [Callers -> Outside \cup Attempting \cup {"acquiring", "release", "drop"}]
      /\ at'[r] = "over" /\ \A s \in Callers \ {r} : at'[s] = at[s]
  BY GotoType DEF RequestInv, DropLease, Outside
<1>3. /\ pc'[r] = "idle"
      /\ \A s \in Callers \ {r} : pc'[s] = pc[s] /\ released'[s] = released[s]
  BY <1>1 DEF RequestInv, SchedInv, TypeOK
<1>4. PlaceRight(r)' /\ AnswerRight(r)'
  BY <1>1, <1>2, <1>3 DEF RequestInv, HandlerInv, PlaceRight, AnswerRight, Outside, Attempting
<1> QED
  BY <1>1, <1>2, <1>3, <1>4, OneMoves DEF RequestInv, HandlerInv, HandlerTypeOK

\* A client that goes away stays away for the rest of its request.
LEMMA ClientLeavesKeeps ==
    ASSUME RequestInv, NEW r \in Callers, ClientLeaves(r)
    PROVE  HandlerInv'
<1>1. UNCHANGED <<pc, released, at, answers>> /\ gone' = gone \cup {r}
  BY DEF ClientLeaves, Disconnect
<1>2. PlaceRight(r)' /\ AnswerRight(r)'
  BY <1>1 DEF RequestInv, HandlerInv, PlaceRight, AnswerRight
<1> QED
  BY <1>1, <1>2, OneMoves DEF RequestInv, HandlerInv, HandlerTypeOK

\* Every step of the handlers, their clients and the clock keeps the invariant.
LEMMA RequestInvNext == RequestInv /\ [RequestNext]_requestVars => RequestInv'
<1> SUFFICES ASSUME RequestInv, [RequestNext]_requestVars
             PROVE  RequestInv'
  OBVIOUS
<1>1. SchedInv'
  BY SchedulerKept DEF RequestInv
<1>2. CASE TimePasses \/ UNCHANGED requestVars
  <2>1. UNCHANGED <<pc, released, gone, at, answers>>
    BY <1>2 DEF TimePasses, Tick, requestVars, vars
  <2> QED
    BY <1>1, <2>1 DEF RequestInv, HandlerInv, HandlerTypeOK, PlaceRight, AnswerRight
<1>3. ASSUME NEW r \in Callers,
             Arrive(r) \/ ThreadStep(r) \/ UpstreamStep(r) \/ RelayEnds(r) \/ ClientLeaves(r)
      PROVE  HandlerInv'
  BY <1>3, ArriveKeeps, CallAcquireKeeps, InAcquireKeeps, UnservedKeeps, GoesOnKeeps,
     AnswersKeeps, ReleaseSlotKeeps, DropLeaseKeeps, ClientLeavesKeeps
     DEF ThreadStep, UpstreamStep
<1> QED
  BY <1>1, <1>2, <1>3 DEF RequestNext, RequestInv

\* The scheduler and the handlers always agree.
THEOREM RequestInvariant == RequestSpec => []RequestInv
<1>1. RequestInit => RequestInv
  BY SchedInvInit, HandlerInit DEF RequestInit, RequestInv
<1> QED
  BY <1>1, RequestInvNext, PTL DEF RequestSpec

-----------------------------------------------------------------------------
\* What follows

\* NVIDIA never sees more than max_concurrent_per_key requests of one key at a
\* time, from the opening of an attempt to the end of its relay: a thread makes
\* an attempt only under a lease that counts.
THEOREM KeysNotOverloaded == RequestSpec => []KeyNeverOverloaded
<1>1. RequestInv => KeyNeverOverloaded
  <2> SUFFICES ASSUME RequestInv, NEW f \in Keys
               PROVE  Cardinality({r \in Callers : key[r] = f
                                      /\ at[r] \in {"open", "upstream", "relay", "relaying"}})
                        <= MaxConcurrentPerKey
    BY DEF KeyNeverOverloaded
  <2> DEFINE S == {r \in Callers : key[r] = f
                       /\ at[r] \in {"open", "upstream", "relay", "relaying"}}
  <2>1. S \subseteq Holders(f)
    BY DEF RequestInv, HandlerInv, PlaceRight, Attempting, Holders
  <2>2. Holders(f) \in SUBSET Callers /\ Cardinality(Holders(f)) <= MaxConcurrentPerKey
    BY DEF Holders, RequestInv, SchedInv, LanesRight, LaneRight
  <2> HIDE DEF S
  <2>3. IsFiniteSet(Holders(f)) /\ Cardinality(Holders(f)) \in Nat
    BY <2>2, Finite
  <2>4. Cardinality(S) \in Nat /\ Cardinality(S) <= Cardinality(Holders(f))
    BY <2>1, <2>3, FS_Subset, FS_CardinalityType
  <2>5. MaxConcurrentPerKey \in Nat
    BY SchedulerAssumption
  <2>6. Cardinality(S) <= MaxConcurrentPerKey
    BY <2>2, <2>3, <2>4, <2>5
  <2> QED
    BY <2>6 DEF S
<1> QED
  BY <1>1, RequestInvariant, PTL

\* A request that is over was answered once, unless its client went away, and has
\* left neither a lease nor a ticket in any lane, the dropped ones included.
THEOREM EndsCleanly == RequestSpec => []CleanEnd
<1>1. RequestInv => CleanEnd
  <2> SUFFICES ASSUME RequestInv, NEW r \in Callers
               PROVE  /\ Len(answers[r]) <= 1
                      /\ at[r] \in {"none", "over"} =>
                             /\ at[r] = "over" => answers[r] # <<>> \/ r \in gone
                             /\ pc[r] = "idle"
                             /\ \A l \in Lanes :
                                    \A i \in DOMAIN waiters[l] : waiters[l][i].owner # r
    BY DEF CleanEnd
  <2>1. Len(answers[r]) <= 1
    <3>1. answers[r] \in {<<>>} \cup {<<w>> : w \in Words}
      BY DEF RequestInv, HandlerInv, HandlerTypeOK
    <3>2. CASE answers[r] = <<>>
      BY <3>2
    <3>3. ASSUME NEW w, answers[r] = <<w>>
          PROVE  Len(answers[r]) <= 1
      BY <3>3
    <3> QED
      BY <3>1, <3>2, <3>3
  <2>2. at[r] = "over" => answers[r] # <<>> \/ r \in gone
    BY DEF RequestInv, HandlerInv, AnswerRight
  <2>3. at[r] \in {"none", "over"} => pc[r] = "idle"
    BY DEF RequestInv, HandlerInv, PlaceRight, Outside
  <2>4. ASSUME pc[r] = "idle", NEW l \in Lanes, NEW i \in DOMAIN waiters[l],
               waiters[l][i].owner = r
        PROVE  FALSE
    <3>1. PICK f \in Keys : lanes[f] = l
      BY <2>4 DEF RequestInv, SchedInv, LanesRight
    <3>2. QueueHolds(waiters[l], TicketsOf(WaitingFor(f))) /\ r # Nobody
      BY <3>1, NoLaneIsNone, SchedulerAssumption
         DEF RequestInv, SchedInv, LanesRight, LaneRight
    <3>3. r \in WaitingFor(f)
      BY <2>4, <3>2 DEF QueueHolds, OwnersMatch, TicketsOf
    <3> QED
      BY <2>4, <3>3 DEF WaitingFor, Waiting
  <2> QED
    BY <2>1, <2>2, <2>3, <2>4
<1> QED
  BY <1>1, RequestInvariant, PTL
=============================================================================
