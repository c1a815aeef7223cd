-------------------------- MODULE PoolRequestProofs --------------------------
(***************************************************************************)
(* Proofs about PoolRequest: the handler uses the pool as the pool allows, *)
(* and what it promises its clients holds for every number of requests and *)
(* keys, every limit and both modes.                                       *)
(***************************************************************************)
EXTENDS PoolRequest, KeyPoolProofs

-----------------------------------------------------------------------------
\* The inductive invariant

\* Places without a key, places with one, and those on the way out of the try
\* block.
Outside == {"none", "slot", "top", "round", "backoff", "acquire", "recheck", "leaving", "over"}
WayOut == {"release", "drop", "finally"}
Inside == {"open", "upstream", "decide", "relay", "relaying"} \cup WayOut

\* How a client may be answered.
Words == Raised \cup {"failed", "relayed"}

HandlerTypeOK ==
    /\ at \in [Callers -> Outside \cup {"acquiring"} \cup Inside]
    /\ tried \in [Callers -> SUBSET Keys]
    /\ fives \in [Callers -> Nat]
    /\ status \in [Callers -> Statuses]
    /\ after \in [Callers -> RetryAfters]
    /\ exit \in [Callers -> {"continue", "return"}]
    /\ answers \in [Callers -> {<<>>} \cup {<<w>> : w \in Words}]
    /\ slots \in Int
    /\ faults \in [Callers -> Nat]

\* The handler's place and the state of its call or lease go together.
PlaceRight(r) ==
    /\ at[r] \in Outside => pc[r] = "idle"
    /\ at[r] = "acquiring" => pc[r] \in {"calling", "waiting", "leased"} \cup Raised
    /\ at[r] \in Inside => pc[r] = "leased"

\* acquire excludes the keys tried in this round, and raises for a reason.
CallRight(r) ==
    at[r] = "acquiring" =>
        /\ pc[r] \in {"calling", "waiting"} => attempted[r] = tried[r]
        /\ pc[r] = "cancelled" => r \in gone
        /\ pc[r] = "unavailable" => NoFutureCandidate(tried[r])

\* Only on the way out of the try block can the loop be about to continue.
ExitRight(r) == at[r] \notin WayOut => exit[r] = "return"

\* A response that has begun ends the request, and a request that is about to
\* end has been answered or has lost its client.
AnswerRight(r) ==
    /\ answers[r] # <<>> =>
           at[r] \in {"relaying", "leaving", "over"} \cup WayOut /\ exit[r] = "return"
    /\ at[r] = "relaying" => answers[r] # <<>>
    /\ at[r] \in {"leaving", "over"} \cup WayOut /\ exit[r] = "return" =>
           answers[r] # <<>> \/ r \in gone
    /\ RetryLoop /\ answers[r] = <<"unavailable">> => quarantined = Keys

\* Standard mode has counted every fault but the last, and the last one too
\* when another attempt follows.
FaultRight(r) ==
    ~RetryLoop =>
        /\ fives[r] <= Max5xxFailovers
        /\ faults[r] <= fives[r] + 1
        /\ \/ at[r] \in (Outside \ {"leaving"}) \cup {"acquiring", "open", "upstream"}
           \/ at[r] \in {"decide", "relay"} /\ ~IsServerError(status[r])
           \/ at[r] \in WayOut /\ exit[r] = "continue"
           => faults[r] <= fives[r]

ThreadRight(r) ==
    PlaceRight(r) /\ CallRight(r) /\ ExitRight(r) /\ AnswerRight(r) /\ FaultRight(r)

HandlerInv == HandlerTypeOK /\ (\A r \in Callers : ThreadRight(r)) /\ SlotsMatch

RequestInv == PoolInv /\ QueueInv /\ HandlerInv

-----------------------------------------------------------------------------
\* The pool under the handler

\* An idle thread's connection may be replaced by another.
LEMMA ArriveUsesPool ==
    ASSUME HandlerInv, NEW r \in Callers, Arrive(r)
    PROVE  [Next]_vars
<1>1. pc[r] = "idle"
  BY DEF Arrive, HandlerInv, ThreadRight, PlaceRight, Outside
<1>2. CASE r \in gone
  <2>1. Reconnect(r)
    BY <1>1, <1>2 DEF Arrive, Reconnect
  <2> QED
    BY <2>1 DEF Next
<1>3. CASE r \notin gone
  <2>1. UNCHANGED vars
    BY <1>3 DEF Arrive, vars, keyVars, callVars, leaseVars
  <2> QED
    BY <2>1
<1> QED
  BY <1>2, <1>3

\* Every step of a handler is a step of the pool, or leaves the pool alone.
LEMMA HandlerUsesPool ==
    ASSUME HandlerInv, [RequestNext]_requestVars
    PROVE  [Next]_vars
<1>1. CASE TimePasses
  BY <1>1 DEF TimePasses, Next
<1>2. ASSUME NEW r \in Callers, Arrive(r)
      PROVE  [Next]_vars
  BY <1>2, ArriveUsesPool
<1>3. ASSUME NEW r \in Callers, CallAcquire(r)
      PROVE  Next
  <2>1. tried[r] \in Attempts
    BY RequestAssumption DEF HandlerInv, HandlerTypeOK
  <2> QED
    BY <1>3, <2>1 DEF CallAcquire, Next
<1>4. ASSUME NEW r \in Callers, InAcquire(r) \/ Unserved(r) \/ Finally(r) \/ ClientLeaves(r)
      PROVE  Next
  BY <1>4 DEF InAcquire, Unserved, Finally, ClientLeaves, Next
<1>5. ASSUME NEW r \in Callers, ReleaseWithResult(r) \/ ReleaseWithoutResult(r)
      PROVE  Next
  <2>1. status[r] \in Statuses /\ after[r] \in RetryAfters
    BY DEF HandlerInv, HandlerTypeOK
  <2> QED
    BY <1>5, <2>1, RequestAssumption DEF ReleaseWithResult, ReleaseWithoutResult, Next
<1>6. ASSUME NEW r \in Callers,
             \/ TakeSlot(r) \/ LeaveHandler(r) \/ CheckRound(r) \/ CheckNextRound(r)
             \/ BackoffCancelled(r) \/ StartRound(r) \/ Recheck(r) \/ Admitted(r)
             \/ Open(r) \/ Decide(r) \/ UpstreamStep(r) \/ RelayEnds(r)
      PROVE  UNCHANGED vars
  BY <1>6 DEF TakeSlot, LeaveHandler, CheckRound, CheckNextRound, BackoffCancelled,
              StartRound, Recheck, Admitted, Open, Decide, RelayEnds, UpstreamStep,
              AttemptFails, AttemptAnswers, RelayStarts, RelayFails
<1>7. CASE UNCHANGED requestVars
  BY <1>7 DEF requestVars
<1> QED
  BY <1>1, <1>2, <1>3, <1>4, <1>5, <1>6, <1>7 DEF RequestNext, ThreadStep

-----------------------------------------------------------------------------
\* What a step leaves alone

\* The call of s and its client's connection are not r's to change.
PoolElsewhere(r) ==
    \A s \in Callers \ {r} :
        pc'[s] = pc[s] /\ attempted'[s] = attempted[s] /\ (s \in gone => s \in gone')

HandlerElsewhere(r) ==
    \A s \in Callers \ {r} :
        /\ at'[s] = at[s] /\ tried'[s] = tried[s] /\ fives'[s] = fives[s]
        /\ status'[s] = status[s] /\ exit'[s] = exit[s]
        /\ answers'[s] = answers[s] /\ faults'[s] = faults[s]

\* A quarantine is for ever.
QuarantineKept == quarantined \subseteq quarantined' /\ quarantined' \subseteq Keys

\* Another thread's step does not disturb what holds of a thread.
LEMMA OthersRight ==
    ASSUME \A s \in Callers : ThreadRight(s),
           NEW r \in Callers, PoolElsewhere(r), HandlerElsewhere(r), QuarantineKept
    PROVE  \A s \in Callers \ {r} : ThreadRight(s)'
<1> SUFFICES ASSUME NEW s \in Callers \ {r}
             PROVE  ThreadRight(s)'
  OBVIOUS
<1>1. ThreadRight(s)
  OBVIOUS
<1>2. /\ at'[s] = at[s] /\ tried'[s] = tried[s] /\ fives'[s] = fives[s]
      /\ status'[s] = status[s] /\ exit'[s] = exit[s]
      /\ answers'[s] = answers[s] /\ faults'[s] = faults[s]
      /\ pc'[s] = pc[s] /\ attempted'[s] = attempted[s] /\ (s \in gone => s \in gone')
  BY DEF PoolElsewhere, HandlerElsewhere
<1>3. PlaceRight(s)' /\ ExitRight(s)' /\ FaultRight(s)'
  BY <1>1, <1>2 DEF ThreadRight, PlaceRight, ExitRight, FaultRight
<1>4. CallRight(s)'
  BY <1>1, <1>2 DEF ThreadRight, CallRight, QuarantineKept, NoFutureCandidate
<1>5. AnswerRight(s)'
  BY <1>1, <1>2 DEF ThreadRight, AnswerRight, QuarantineKept
<1> QED
  BY <1>3, <1>4, <1>5 DEF ThreadRight

\* A request that neither enters nor leaves the loop holds its permit, or none.
LEMMA SlotsKept ==
    ASSUME SlotsMatch, NEW r \in Callers, HandlerElsewhere(r),
           at[r] \in {"none", "slot", "over"} <=> at'[r] \in {"none", "slot", "over"},
           slots' = slots
    PROVE  SlotsMatch'
<1>1. {s \in Callers : at'[s] \notin {"none", "slot", "over"}}
        = {s \in Callers : at[s] \notin {"none", "slot", "over"}}
  BY DEF HandlerElsewhere
<1> QED
  BY <1>1 DEF SlotsMatch

\* What has to be shown of a step of r.
LEMMA ThreadStepKeeps ==
    ASSUME HandlerInv, NEW r \in Callers, HandlerTypeOK',
           PoolElsewhere(r), HandlerElsewhere(r), QuarantineKept,
           ThreadRight(r)', SlotsMatch'
    PROVE  HandlerInv'
  BY OthersRight DEF HandlerInv

\* A step that leaves the pool alone.
LEMMA PoolUntouched ==
    ASSUME PoolInv, UNCHANGED vars
    PROVE  /\ QuarantineKept
           /\ \A r \in Callers : PoolElsewhere(r)
           /\ UNCHANGED <<pc, attempted, gone, quarantined>>
  BY DEF vars, QuarantineKept, PoolElsewhere, PoolInv, TypeOK

\* The first and only word to a client.
LEMMA AnswerOnce ==
    ASSUME HandlerTypeOK, NEW r \in Callers, answers[r] = <<>>,
           NEW w \in Words, Answer(r, w)
    PROVE  /\ answers' \in [Callers -> {<<>>} \cup {<<v>> : v \in Words}]
           /\ answers'[r] = <<w>>
           /\ answers'[r] # <<>>
           /\ \A s \in Callers \ {r} : answers'[s] = answers[s]
<1>1. Append(<<>>, w) = <<w>>
  OBVIOUS
<1>2. answers' = [answers EXCEPT ![r] = <<w>>]
  BY <1>1 DEF Answer
<1> QED
  BY <1>2 DEF HandlerTypeOK

LEMMA HeldKey ==
    ASSUME RequestInv, NEW r \in Callers, pc[r] = "leased"
    PROVE  held[r] \in Keys
  BY DEF RequestInv, PoolInv, LeaseShape

\* The two counters of standard mode.
LEMMA FaultCounted ==
    ASSUME HandlerTypeOK, NEW r \in Callers, Fault(r)
    PROVE  /\ faults' \in [Callers -> Nat]
           /\ ~RetryLoop => faults'[r] = faults[r] + 1
           /\ \A s \in Callers \ {r} : faults'[s] = faults[s]
  BY DEF HandlerTypeOK, Fault

LEMMA FailoverCounted ==
    ASSUME HandlerTypeOK, NEW r \in Callers, CountFault(r)
    PROVE  /\ fives' \in [Callers -> Nat]
           /\ fives'[r] = fives[r] + IF RetryLoop THEN 0 ELSE 1
           /\ \A s \in Callers \ {r} : fives'[s] = fives[s]
  BY DEF HandlerTypeOK, CountFault

LEMMA WordsDiffer ==
    /\ \A w : <<w>> # <<>>
    /\ <<"relayed">> # <<"unavailable">> /\ <<"failed">> # <<"unavailable">>
<1>1. \A v, w : <<v>> = <<w>> => v = w
  OBVIOUS
<1> QED
  BY <1>1

\* No status is in two of the ranges the handler tells apart.
LEMMA StatusesApart ==
    ASSUME NEW s \in Statuses
    PROVE  /\ IsServerError(s) => s \notin QuarantineStatuses \cup CooldownStatuses
           /\ IsSuccess(s) => ~IsServerError(s)
<1>1. s \in Nat
  BY PoolAssumption
<1> QED
  BY <1>1 DEF IsServerError, IsSuccess, QuarantineStatuses, CooldownStatuses

\* With nothing excluded there is no candidate when every key is quarantined.
LEMMA AllQuarantined ==
    ASSUME RequestInv, ~HasUntriedCandidate({})
    PROVE  quarantined = Keys
<1>1. quarantined \subseteq Keys
  BY DEF RequestInv, PoolInv, TypeOK
<1> QED
  BY <1>1 DEF HasUntriedCandidate, NoFutureCandidate

\* The top of the loop.
LEMMA CheckRoundKeeps ==
    ASSUME RequestInv, NEW r \in Callers, CheckRound(r)
    PROVE  HandlerInv'
<1>1. HandlerTypeOK /\ ThreadRight(r) /\ SlotsMatch
  BY DEF RequestInv, HandlerInv
<1>2. /\ QuarantineKept /\ PoolElsewhere(r)
      /\ UNCHANGED <<pc, attempted, gone, quarantined>>
  BY PoolUntouched DEF RequestInv, CheckRound
<1>3. HandlerTypeOK'
  BY <1>1, RequestAssumption
     DEF HandlerTypeOK, CheckRound, Goto, roundVars, resultVars, Outside, WayOut, Inside
<1>4. HandlerElsewhere(r)
  BY <1>1 DEF HandlerTypeOK, HandlerElsewhere, CheckRound, Goto, roundVars, resultVars
<1>5. /\ at[r] = "top" /\ at'[r] \in {"round", "acquire"}
      /\ UNCHANGED <<tried, fives, status, exit, answers, slots, faults>>
  BY <1>1 DEF HandlerTypeOK, CheckRound, Goto, roundVars, resultVars
<1>6. ThreadRight(r)'
  BY <1>1, <1>2, <1>5
     DEF ThreadRight, PlaceRight, CallRight, ExitRight, AnswerRight, FaultRight, Outside,
         WayOut, Inside
<1>7. SlotsMatch'
  BY <1>1, <1>4, <1>5, SlotsKept
<1> QED
  BY <1>2, <1>3, <1>4, <1>6, <1>7, ThreadStepKeeps DEF RequestInv

\* The round is over.
LEMMA CheckNextRoundKeeps ==
    ASSUME RequestInv, NEW r \in Callers, CheckNextRound(r)
    PROVE  HandlerInv'
<1>1. HandlerTypeOK /\ ThreadRight(r) /\ SlotsMatch
  BY DEF RequestInv, HandlerInv
<1>2. /\ QuarantineKept /\ PoolElsewhere(r)
      /\ UNCHANGED <<pc, attempted, gone, quarantined>>
  BY PoolUntouched DEF RequestInv, CheckNextRound
<1>3. HandlerTypeOK'
  BY <1>1, RequestAssumption
     DEF HandlerTypeOK, CheckNextRound, Goto, roundVars, resultVars, Outside, WayOut, Inside
<1>4. HandlerElsewhere(r)
  BY <1>1 DEF HandlerTypeOK, HandlerElsewhere, CheckNextRound, Goto, roundVars, resultVars
<1>5. /\ at[r] = "round" /\ at'[r] \in {"backoff", "acquire"}
      /\ UNCHANGED <<tried, fives, status, exit, answers, slots, faults>>
  BY <1>1 DEF HandlerTypeOK, CheckNextRound, Goto, roundVars, resultVars
<1>6. ThreadRight(r)'
  BY <1>1, <1>2, <1>5
     DEF ThreadRight, PlaceRight, CallRight, ExitRight, AnswerRight, FaultRight, Outside,
         WayOut, Inside
<1>7. SlotsMatch'
  BY <1>1, <1>4, <1>5, SlotsKept
<1> QED
  BY <1>2, <1>3, <1>4, <1>6, <1>7, ThreadStepKeeps DEF RequestInv

\* The client is found gone between two rounds.
LEMMA BackoffCancelledKeeps ==
    ASSUME RequestInv, NEW r \in Callers, BackoffCancelled(r)
    PROVE  HandlerInv'
<1>1. HandlerTypeOK /\ ThreadRight(r) /\ SlotsMatch
  BY DEF RequestInv, HandlerInv
<1>2. /\ QuarantineKept /\ PoolElsewhere(r)
      /\ UNCHANGED <<pc, attempted, gone, quarantined>>
  BY PoolUntouched DEF RequestInv, BackoffCancelled, Return, Probe
<1>3. HandlerTypeOK'
  BY <1>1, RequestAssumption
     DEF HandlerTypeOK, BackoffCancelled, Return, Probe, Goto, roundVars, resultVars,
         Outside, WayOut, Inside
<1>4. HandlerElsewhere(r)
  BY <1>1
     DEF HandlerTypeOK, HandlerElsewhere, BackoffCancelled, Return, Probe, Goto, roundVars,
         resultVars
<1>5. /\ at[r] = "backoff" /\ at'[r] = "leaving" /\ r \in gone
      /\ UNCHANGED <<tried, fives, status, exit, answers, slots, faults>>
  BY <1>1 DEF HandlerTypeOK, BackoffCancelled, Return, Probe, Goto, roundVars, resultVars
<1>6. ThreadRight(r)'
  BY <1>1, <1>2, <1>5
     DEF ThreadRight, PlaceRight, CallRight, ExitRight, AnswerRight, FaultRight, Outside,
         WayOut, Inside
<1>7. SlotsMatch'
  BY <1>1, <1>4, <1>5, SlotsKept
<1> QED
  BY <1>2, <1>3, <1>4, <1>6, <1>7, ThreadStepKeeps DEF RequestInv

\* The next round starts with every key.
LEMMA StartRoundKeeps ==
    ASSUME RequestInv, NEW r \in Callers, StartRound(r)
    PROVE  HandlerInv'
<1>1. HandlerTypeOK /\ ThreadRight(r) /\ SlotsMatch
  BY DEF RequestInv, HandlerInv
<1>2. /\ QuarantineKept /\ PoolElsewhere(r)
      /\ UNCHANGED <<pc, attempted, gone, quarantined>>
  BY PoolUntouched DEF RequestInv, StartRound
<1>3. HandlerTypeOK'
  BY <1>1, RequestAssumption
     DEF HandlerTypeOK, StartRound, Goto, roundVars, resultVars, Outside, WayOut, Inside
<1>4. HandlerElsewhere(r)
  BY <1>1 DEF HandlerTypeOK, HandlerElsewhere, StartRound, Goto, roundVars, resultVars
<1>5. /\ at[r] = "backoff" /\ at'[r] = "acquire"
      /\ UNCHANGED <<fives, status, exit, answers, slots, faults>>
  BY <1>1 DEF HandlerTypeOK, StartRound, Goto, roundVars, resultVars
<1>6. ThreadRight(r)'
  BY <1>1, <1>2, <1>5
     DEF ThreadRight, PlaceRight, CallRight, ExitRight, AnswerRight, FaultRight, Outside,
         WayOut, Inside
<1>7. SlotsMatch'
  BY <1>1, <1>4, <1>5, SlotsKept
<1> QED
  BY <1>2, <1>3, <1>4, <1>6, <1>7, ThreadStepKeeps DEF RequestInv

\* A call that got a key.
LEMMA AdmittedKeeps ==
    ASSUME RequestInv, NEW r \in Callers, Admitted(r)
    PROVE  HandlerInv'
<1>1. HandlerTypeOK /\ ThreadRight(r) /\ SlotsMatch
  BY DEF RequestInv, HandlerInv
<1>2. /\ QuarantineKept /\ PoolElsewhere(r)
      /\ UNCHANGED <<pc, attempted, gone, quarantined>>
  BY PoolUntouched DEF RequestInv, Admitted, Leaving, Probe
<1>3. HandlerTypeOK'
  BY <1>1, RequestAssumption, HeldKey
     DEF HandlerTypeOK, Admitted, Leaving, Probe, Goto, roundVars, resultVars, Outside,
         WayOut, Inside
<1>4. HandlerElsewhere(r)
  BY <1>1 DEF HandlerTypeOK, HandlerElsewhere, Admitted, Leaving, Probe, Goto, roundVars, resultVars
<1>5. /\ at[r] = "acquiring" /\ pc[r] = "leased"
      /\ \/ at'[r] = "finally" /\ exit'[r] = "return" /\ r \in gone
         \/ at'[r] = "open" /\ exit'[r] = exit[r]
      /\ UNCHANGED <<fives, status, answers, slots, faults>>
  BY <1>1 DEF HandlerTypeOK, Admitted, Leaving, Probe, Goto, roundVars, resultVars
<1>6. ThreadRight(r)'
  BY <1>1, <1>2, <1>5
     DEF ThreadRight, PlaceRight, CallRight, ExitRight, AnswerRight, FaultRight, Outside,
         WayOut, Inside
<1>7. SlotsMatch'
  BY <1>1, <1>4, <1>5, SlotsKept
<1> QED
  BY <1>2, <1>3, <1>4, <1>6, <1>7, ThreadStepKeeps DEF RequestInv

\* An attempt starts.
LEMMA OpenKeeps ==
    ASSUME RequestInv, NEW r \in Callers, Open(r)
    PROVE  HandlerInv'
<1>1. HandlerTypeOK /\ ThreadRight(r) /\ SlotsMatch
  BY DEF RequestInv, HandlerInv
<1>2. /\ QuarantineKept /\ PoolElsewhere(r)
      /\ UNCHANGED <<pc, attempted, gone, quarantined>>
  BY PoolUntouched DEF RequestInv, Open
<1>3. HandlerTypeOK'
  BY <1>1, RequestAssumption
     DEF HandlerTypeOK, Open, Goto, roundVars, resultVars, Outside, WayOut, Inside
<1>4. HandlerElsewhere(r)
  BY <1>1 DEF HandlerTypeOK, HandlerElsewhere, Open, Goto, roundVars, resultVars
<1>5. /\ at[r] = "open" /\ at'[r] = "upstream"
      /\ UNCHANGED <<tried, fives, exit, answers, slots, faults>>
  BY <1>1 DEF HandlerTypeOK, Open, Goto, roundVars, resultVars
<1>6. ThreadRight(r)'
  BY <1>1, <1>2, <1>5
     DEF ThreadRight, PlaceRight, CallRight, ExitRight, AnswerRight, FaultRight, Outside,
         WayOut, Inside
<1>7. SlotsMatch'
  BY <1>1, <1>4, <1>5, SlotsKept
<1> QED
  BY <1>2, <1>3, <1>4, <1>6, <1>7, ThreadStepKeeps DEF RequestInv

\* A relay ends.
LEMMA RelayEndsKeeps ==
    ASSUME RequestInv, NEW r \in Callers, RelayEnds(r)
    PROVE  HandlerInv'
<1>1. HandlerTypeOK /\ ThreadRight(r) /\ SlotsMatch
  BY DEF RequestInv, HandlerInv
<1>2. /\ QuarantineKept /\ PoolElsewhere(r)
      /\ UNCHANGED <<pc, attempted, gone, quarantined>>
  BY PoolUntouched DEF RequestInv, RelayEnds, Leaving
<1>3. HandlerTypeOK'
  BY <1>1, RequestAssumption
     DEF HandlerTypeOK, RelayEnds, Leaving, Goto, roundVars, resultVars, Outside, WayOut,
         Inside
<1>4. HandlerElsewhere(r)
  BY <1>1 DEF HandlerTypeOK, HandlerElsewhere, RelayEnds, Leaving, Goto, roundVars, resultVars
<1>5. /\ at[r] = "relaying" /\ at'[r] = "release" /\ exit'[r] = "return"
      /\ UNCHANGED <<tried, fives, status, answers, slots, faults>>
  BY <1>1 DEF HandlerTypeOK, RelayEnds, Leaving, Goto, roundVars, resultVars
<1>6. ThreadRight(r)'
  BY <1>1, <1>2, <1>5
     DEF ThreadRight, PlaceRight, CallRight, ExitRight, AnswerRight, FaultRight, Outside,
         WayOut, Inside
<1>7. SlotsMatch'
  BY <1>1, <1>4, <1>5, SlotsKept
<1> QED
  BY <1>2, <1>3, <1>4, <1>6, <1>7, ThreadStepKeeps DEF RequestInv

\* An answer is looked at.
LEMMA DecideKeeps ==
    ASSUME RequestInv, NEW r \in Callers, Decide(r)
    PROVE  HandlerInv'
<1>1. HandlerTypeOK /\ ThreadRight(r) /\ SlotsMatch
  BY DEF RequestInv, HandlerInv
<1>2. /\ QuarantineKept /\ PoolElsewhere(r)
      /\ UNCHANGED <<pc, attempted, gone, quarantined>>
  BY PoolUntouched DEF RequestInv, Decide, Leaving
<1>3. /\ fives' \in [Callers -> Nat]
      /\ \A s \in Callers \ {r} : fives'[s] = fives[s]
      /\ fives'[r] = fives[r]
              + IF FailsOver(r, status[r]) /\ IsServerError(status[r]) /\ ~RetryLoop THEN 1 ELSE 0
  BY <1>1, FaultCounted, FailoverCounted DEF HandlerTypeOK, Decide, Leaving
<1>4. HandlerTypeOK'
  BY <1>1, <1>3, RequestAssumption DEF HandlerTypeOK, Decide, Leaving, Goto, roundVars,
      resultVars, Outside, WayOut, Inside
<1>5. HandlerElsewhere(r)
  BY <1>1, <1>3 DEF HandlerTypeOK, HandlerElsewhere, Decide, Leaving, Goto, roundVars,
      resultVars
<1>6. FailsOver(r, status[r]) /\ IsServerError(status[r]) /\ ~RetryLoop =>
          fives[r] < Max5xxFailovers
  BY <1>1, StatusesApart DEF HandlerTypeOK, FailsOver, ShouldFailover
<1>7. /\ fives[r] \in Nat /\ faults[r] \in Nat /\ Max5xxFailovers \in Nat
      /\ at[r] = "decide"
      /\ \/ /\ at'[r] = "release" /\ exit'[r] = "continue"
            /\ IsServerError(status[r]) /\ ~RetryLoop =>
                   fives'[r] = fives[r] + 1 /\ fives[r] < Max5xxFailovers
            /\ ~IsServerError(status[r]) => fives'[r] = fives[r]
         \/ at'[r] = "relay" /\ exit'[r] = exit[r] /\ fives'[r] = fives[r]
      /\ UNCHANGED <<tried, status, answers, slots, faults>>
  BY <1>1, <1>3, <1>6, RequestAssumption DEF HandlerTypeOK, Decide, Leaving, Goto, roundVars,
      resultVars
<1>8. PlaceRight(r)' /\ CallRight(r)' /\ ExitRight(r)'
  BY <1>1, <1>2, <1>7 DEF ThreadRight, PlaceRight, CallRight, ExitRight, Outside, WayOut,
      Inside
<1>9. AnswerRight(r)'
  BY <1>1, <1>2, <1>7, WordsDiffer DEF ThreadRight, AnswerRight, ExitRight, Outside, WayOut,
      Inside
<1>10. FaultRight(r)'
  BY <1>1, <1>7 DEF ThreadRight, FaultRight, Outside, WayOut, Inside
<1>11. at[r] \notin {"none", "slot", "over"} /\ at'[r] \notin {"none", "slot", "over"}
  BY <1>7
<1>12. SlotsMatch'
  BY <1>1, <1>5, <1>7, <1>11, SlotsKept
<1> QED
  BY <1>2, <1>4, <1>5, <1>8, <1>9, <1>10, <1>12, ThreadStepKeeps DEF RequestInv, ThreadRight

\* NVIDIA answers.
LEMMA AttemptAnswersKeeps ==
    ASSUME RequestInv, NEW r \in Callers, NEW s \in Answers, NEW retryAfter \in RetryAfters,
           AttemptAnswers(r, s, retryAfter)
    PROVE  HandlerInv'
<1>1. HandlerTypeOK /\ ThreadRight(r) /\ SlotsMatch
  BY DEF RequestInv, HandlerInv
<1>2. /\ QuarantineKept /\ PoolElsewhere(r)
      /\ UNCHANGED <<pc, attempted, gone, quarantined>>
  BY PoolUntouched DEF RequestInv, AttemptAnswers, Leaving, Probe
<1>3. /\ faults' \in [Callers -> Nat]
      /\ \A q \in Callers \ {r} : faults'[q] = faults[q]
      /\ ~RetryLoop => faults'[r] = faults[r] + IF IsServerError(s) THEN 1 ELSE 0
  BY <1>1, FaultCounted, FailoverCounted DEF HandlerTypeOK, AttemptAnswers, Leaving, Probe
<1>4. HandlerTypeOK'
  BY <1>1, <1>3, RequestAssumption DEF HandlerTypeOK, AttemptAnswers, Leaving, Probe, Goto,
      roundVars, resultVars, Outside, WayOut, Inside
<1>5. HandlerElsewhere(r)
  BY <1>1, <1>3 DEF HandlerTypeOK, HandlerElsewhere, AttemptAnswers, Leaving, Probe, Goto,
      roundVars, resultVars
<1>6. /\ fives[r] \in Nat /\ faults[r] \in Nat /\ Max5xxFailovers \in Nat
      /\ at[r] = "upstream"
      /\ status'[r] = s
      /\ ~RetryLoop => faults'[r] = faults[r] + IF IsServerError(s) THEN 1 ELSE 0
      /\ \/ at'[r] = "release" /\ exit'[r] = "return" /\ r \in gone
         \/ at'[r] = "decide" /\ exit'[r] = exit[r]
      /\ UNCHANGED <<tried, fives, answers, slots>>
  BY <1>1, <1>3, RequestAssumption DEF HandlerTypeOK, AttemptAnswers, Leaving, Probe, Goto,
      roundVars, resultVars
<1>7. PlaceRight(r)' /\ CallRight(r)' /\ ExitRight(r)'
  BY <1>1, <1>2, <1>6 DEF ThreadRight, PlaceRight, CallRight, ExitRight, Outside, WayOut,
      Inside
<1>8. AnswerRight(r)'
  BY <1>1, <1>2, <1>6, WordsDiffer DEF ThreadRight, AnswerRight, ExitRight, Outside, WayOut,
      Inside
<1>9. FaultRight(r)'
  BY <1>1, <1>6 DEF ThreadRight, FaultRight, Outside, WayOut, Inside
<1>10. at[r] \notin {"none", "slot", "over"} /\ at'[r] \notin {"none", "slot", "over"}
  BY <1>6
<1>11. SlotsMatch'
  BY <1>1, <1>5, <1>6, <1>10, SlotsKept
<1> QED
  BY <1>2, <1>4, <1>5, <1>7, <1>8, <1>9, <1>11, ThreadStepKeeps DEF RequestInv, ThreadRight

\* The client's response begins.
LEMMA RelayStartsKeeps ==
    ASSUME RequestInv, NEW r \in Callers, RelayStarts(r)
    PROVE  HandlerInv'
<1>1. HandlerTypeOK /\ ThreadRight(r) /\ SlotsMatch
  BY DEF RequestInv, HandlerInv
<1>2. /\ QuarantineKept /\ PoolElsewhere(r)
      /\ UNCHANGED <<pc, attempted, gone, quarantined>>
  BY PoolUntouched DEF RequestInv, RelayStarts
<1>3. answers[r] = <<>>
  BY <1>1 DEF ThreadRight, AnswerRight, WayOut, RelayStarts
<1>4. /\ answers' \in [Callers -> {<<>>} \cup {<<v>> : v \in Words}]
      /\ \A s \in Callers \ {r} : answers'[s] = answers[s]
      /\ answers'[r] = <<"relayed">>
  BY <1>1, <1>3, AnswerOnce DEF HandlerTypeOK, RelayStarts, Words, Raised
<1>5. HandlerTypeOK'
  BY <1>1, <1>3, <1>4, RequestAssumption DEF HandlerTypeOK, RelayStarts, Goto, roundVars,
      resultVars, Outside, WayOut, Inside
<1>6. HandlerElsewhere(r)
  BY <1>1, <1>3, <1>4 DEF HandlerTypeOK, HandlerElsewhere, RelayStarts, Goto, roundVars,
      resultVars
<1>7. /\ fives[r] \in Nat /\ faults[r] \in Nat /\ Max5xxFailovers \in Nat
      /\ at[r] = "relay" /\ at'[r] = "relaying"
      /\ answers'[r] = <<"relayed">>
      /\ UNCHANGED <<tried, fives, status, exit, slots, faults>>
  BY <1>1, <1>3, <1>4, RequestAssumption DEF HandlerTypeOK, RelayStarts, Goto, roundVars,
      resultVars
<1>8. PlaceRight(r)' /\ CallRight(r)' /\ ExitRight(r)'
  BY <1>1, <1>2, <1>7 DEF ThreadRight, PlaceRight, CallRight, ExitRight, Outside, WayOut,
      Inside
<1>9. AnswerRight(r)'
  BY <1>1, <1>2, <1>7, WordsDiffer DEF ThreadRight, AnswerRight, ExitRight, Outside, WayOut,
      Inside
<1>10. FaultRight(r)'
  BY <1>1, <1>7 DEF ThreadRight, FaultRight, Outside, WayOut, Inside
<1>11. at[r] \notin {"none", "slot", "over"} /\ at'[r] \notin {"none", "slot", "over"}
  BY <1>7
<1>12. SlotsMatch'
  BY <1>1, <1>6, <1>7, <1>11, SlotsKept
<1> QED
  BY <1>2, <1>5, <1>6, <1>8, <1>9, <1>10, <1>12, ThreadStepKeeps DEF RequestInv, ThreadRight

\* NVIDIA does not answer.
LEMMA AttemptFailsKeeps ==
    ASSUME RequestInv, NEW r \in Callers, NEW kind, AttemptFails(r, kind)
    PROVE  HandlerInv'
<1>1. HandlerTypeOK /\ ThreadRight(r) /\ SlotsMatch
  BY DEF RequestInv, HandlerInv
<1>2. /\ QuarantineKept /\ PoolElsewhere(r)
      /\ UNCHANGED <<pc, attempted, gone, quarantined>>
  BY PoolUntouched DEF RequestInv, AttemptFails, Leaving
<1>3. answers[r] = <<>>
  BY <1>1 DEF ThreadRight, AnswerRight, WayOut, AttemptFails, Leaving
<1>4. /\ answers' \in [Callers -> {<<>>} \cup {<<v>> : v \in Words}]
      /\ \A s \in Callers \ {r} : answers'[s] = answers[s]
      /\ answers'[r] = IF ~SharedFailure(kind) /\ MayFailOverFault(r) THEN <<>> ELSE <<"failed">>
  BY <1>1, <1>3, AnswerOnce DEF HandlerTypeOK, AttemptFails, Leaving, Words, Raised
<1>5. /\ faults' \in [Callers -> Nat]
      /\ \A s \in Callers \ {r} : faults'[s] = faults[s]
      /\ ~RetryLoop => faults'[r] = faults[r] + 1
      /\ fives' \in [Callers -> Nat]
      /\ \A s \in Callers \ {r} : fives'[s] = fives[s]
      /\ fives'[r] = fives[r]
              + IF ~SharedFailure(kind) /\ MayFailOverFault(r) /\ ~RetryLoop THEN 1 ELSE 0
  BY <1>1, FaultCounted, FailoverCounted DEF HandlerTypeOK, AttemptFails, Leaving
<1>6. HandlerTypeOK'
  BY <1>1, <1>3, <1>4, <1>5, RequestAssumption DEF HandlerTypeOK, AttemptFails, Leaving, Goto,
      roundVars, resultVars, Outside, WayOut, Inside
<1>7. HandlerElsewhere(r)
  BY <1>1, <1>3, <1>4, <1>5 DEF HandlerTypeOK, HandlerElsewhere, AttemptFails, Leaving, Goto,
      roundVars, resultVars
<1>8. MayFailOverFault(r) /\ ~RetryLoop => fives[r] < Max5xxFailovers
  BY <1>1, StatusesApart DEF HandlerTypeOK, MayFailOverFault
<1>9. /\ fives[r] \in Nat /\ faults[r] \in Nat /\ Max5xxFailovers \in Nat
      /\ at[r] = "upstream" /\ (~RetryLoop => faults'[r] = faults[r] + 1)
      /\ \/ /\ at'[r] = "release" /\ exit'[r] = "continue" /\ answers'[r] = <<>>
            /\ ~RetryLoop => fives'[r] = fives[r] + 1 /\ fives[r] < Max5xxFailovers
         \/ at'[r] = "finally" /\ exit'[r] = "return" /\ answers'[r] = <<"failed">>
           /\ fives'[r] = fives[r]
      /\ UNCHANGED <<tried, status, slots>>
  BY <1>1, <1>3, <1>4, <1>5, <1>8, RequestAssumption DEF HandlerTypeOK, AttemptFails, Leaving,
      Goto, roundVars, resultVars
<1>10. PlaceRight(r)' /\ CallRight(r)' /\ ExitRight(r)'
  BY <1>1, <1>2, <1>9 DEF ThreadRight, PlaceRight, CallRight, ExitRight, Outside, WayOut,
      Inside
<1>11. AnswerRight(r)'
  BY <1>1, <1>2, <1>9, WordsDiffer DEF ThreadRight, AnswerRight, ExitRight, Outside, WayOut,
      Inside
<1>12. FaultRight(r)'
  BY <1>1, <1>9 DEF ThreadRight, FaultRight, Outside, WayOut, Inside
<1>13. at[r] \notin {"none", "slot", "over"} /\ at'[r] \notin {"none", "slot", "over"}
  BY <1>9
<1>14. SlotsMatch'
  BY <1>1, <1>7, <1>9, <1>13, SlotsKept
<1> QED
  BY <1>2, <1>6, <1>7, <1>10, <1>11, <1>12, <1>14, ThreadStepKeeps DEF RequestInv, ThreadRight

\* The answer's body cannot be read.
LEMMA RelayFailsKeeps ==
    ASSUME RequestInv, NEW r \in Callers, NEW kind, RelayFails(r, kind)
    PROVE  HandlerInv'
<1>1. HandlerTypeOK /\ ThreadRight(r) /\ SlotsMatch
  BY DEF RequestInv, HandlerInv
<1>2. /\ QuarantineKept /\ PoolElsewhere(r)
      /\ UNCHANGED <<pc, attempted, gone, quarantined>>
  BY PoolUntouched DEF RequestInv, RelayFails, Leaving
<1>3. answers[r] = <<>>
  BY <1>1 DEF ThreadRight, AnswerRight, WayOut, RelayFails, Leaving
<1>4. /\ answers' \in [Callers -> {<<>>} \cup {<<v>> : v \in Words}]
      /\ \A s \in Callers \ {r} : answers'[s] = answers[s]
      /\ answers'[r] =
            IF /\ IsSuccess(status[r]) /\ ~(RetryLoop /\ kind = "tls")
               /\ MayFailOverFault(r)
            THEN <<>> ELSE <<"failed">>
  BY <1>1, <1>3, AnswerOnce DEF HandlerTypeOK, RelayFails, Leaving, Words, Raised
<1>5. /\ faults' \in [Callers -> Nat]
      /\ \A s \in Callers \ {r} : faults'[s] = faults[s]
      /\ ~RetryLoop => faults'[r] = faults[r] + IF IsServerError(status[r]) THEN 0 ELSE 1
      /\ fives' \in [Callers -> Nat]
      /\ \A s \in Callers \ {r} : fives'[s] = fives[s]
      /\ fives'[r] = fives[r] +
             IF /\ IsSuccess(status[r]) /\ ~(RetryLoop /\ kind = "tls")
                /\ MayFailOverFault(r) /\ ~RetryLoop
             THEN 1 ELSE 0
  BY <1>1, FaultCounted, FailoverCounted DEF HandlerTypeOK, RelayFails, Leaving
<1>6. HandlerTypeOK'
  BY <1>1, <1>3, <1>4, <1>5, RequestAssumption DEF HandlerTypeOK, RelayFails, Leaving, Goto,
      roundVars, resultVars, Outside, WayOut, Inside
<1>7. HandlerElsewhere(r)
  BY <1>1, <1>3, <1>4, <1>5 DEF HandlerTypeOK, HandlerElsewhere, RelayFails, Leaving, Goto,
      roundVars, resultVars
<1>8. /\ MayFailOverFault(r) /\ ~RetryLoop => fives[r] < Max5xxFailovers
      /\ IsSuccess(status[r]) => ~IsServerError(status[r])
  BY <1>1, StatusesApart DEF HandlerTypeOK, MayFailOverFault
<1>9. /\ fives[r] \in Nat /\ faults[r] \in Nat /\ Max5xxFailovers \in Nat
      /\ at[r] = "relay"
      /\ ~RetryLoop => faults'[r] = faults[r] + IF IsServerError(status[r]) THEN 0 ELSE 1
      /\ \/ /\ at'[r] = "drop" /\ exit'[r] = "continue" /\ answers'[r] = <<>>
            /\ ~RetryLoop => fives'[r] = fives[r] + 1 /\ fives[r] < Max5xxFailovers
            /\ ~IsServerError(status[r])
         \/ at'[r] = "drop" /\ exit'[r] = "return" /\ answers'[r] = <<"failed">>
           /\ fives'[r] = fives[r]
      /\ UNCHANGED <<tried, status, slots>>
  BY <1>1, <1>3, <1>4, <1>5, <1>8, RequestAssumption DEF HandlerTypeOK, RelayFails, Leaving,
      Goto, roundVars, resultVars
<1>10. PlaceRight(r)' /\ CallRight(r)' /\ ExitRight(r)'
  BY <1>1, <1>2, <1>9 DEF ThreadRight, PlaceRight, CallRight, ExitRight, Outside, WayOut,
      Inside
<1>11. AnswerRight(r)'
  BY <1>1, <1>2, <1>9, WordsDiffer DEF ThreadRight, AnswerRight, ExitRight, Outside, WayOut,
      Inside
<1>12. FaultRight(r)'
  BY <1>1, <1>9 DEF ThreadRight, FaultRight, Outside, WayOut, Inside
<1>13. at[r] \notin {"none", "slot", "over"} /\ at'[r] \notin {"none", "slot", "over"}
  BY <1>9
<1>14. SlotsMatch'
  BY <1>1, <1>7, <1>9, <1>13, SlotsKept
<1> QED
  BY <1>2, <1>6, <1>7, <1>10, <1>11, <1>12, <1>14, ThreadStepKeeps DEF RequestInv, ThreadRight

\* The keys are looked at again.
LEMMA RecheckKeeps ==
    ASSUME RequestInv, NEW r \in Callers, Recheck(r)
    PROVE  HandlerInv'
<1>1. HandlerTypeOK /\ ThreadRight(r) /\ SlotsMatch
  BY DEF RequestInv, HandlerInv
<1>2. /\ QuarantineKept /\ PoolElsewhere(r)
      /\ UNCHANGED <<pc, attempted, gone, quarantined>>
  BY PoolUntouched DEF RequestInv, Recheck, Return
<1>3. answers[r] = <<>>
  BY <1>1 DEF ThreadRight, AnswerRight, WayOut, Recheck, Return
<1>4. /\ answers' \in [Callers -> {<<>>} \cup {<<v>> : v \in Words}]
      /\ \A s \in Callers \ {r} : answers'[s] = answers[s]
      /\ answers'[r] = IF HasUntriedCandidate({}) THEN <<>> ELSE <<"unavailable">>
  BY <1>1, <1>3, AnswerOnce DEF HandlerTypeOK, Recheck, Return, Words, Raised
<1>5. HandlerTypeOK'
  BY <1>1, <1>3, <1>4, RequestAssumption DEF HandlerTypeOK, Recheck, Return, Goto, roundVars,
      resultVars, Outside, WayOut, Inside
<1>6. HandlerElsewhere(r)
  BY <1>1, <1>3, <1>4 DEF HandlerTypeOK, HandlerElsewhere, Recheck, Return, Goto, roundVars,
      resultVars
<1>7. /\ fives[r] \in Nat /\ faults[r] \in Nat /\ Max5xxFailovers \in Nat
      /\ at[r] = "recheck"
      /\ \/ at'[r] = "top" /\ answers'[r] = <<>>
         \/ at'[r] = "leaving" /\ answers'[r] = <<"unavailable">> /\ quarantined = Keys
      /\ UNCHANGED <<tried, fives, status, exit, slots, faults>>
  BY <1>1, <1>3, <1>4, AllQuarantined, RequestAssumption DEF HandlerTypeOK, Recheck, Return,
      Goto, roundVars, resultVars
<1>8. PlaceRight(r)' /\ CallRight(r)' /\ ExitRight(r)'
  BY <1>1, <1>2, <1>7 DEF ThreadRight, PlaceRight, CallRight, ExitRight, Outside, WayOut,
      Inside
<1>9. AnswerRight(r)'
  BY <1>1, <1>2, <1>7, WordsDiffer DEF ThreadRight, AnswerRight, ExitRight, Outside, WayOut,
      Inside
<1>10. FaultRight(r)'
  BY <1>1, <1>7 DEF ThreadRight, FaultRight, Outside, WayOut, Inside
<1>11. at[r] \notin {"none", "slot", "over"} /\ at'[r] \notin {"none", "slot", "over"}
  BY <1>7
<1>12. SlotsMatch'
  BY <1>1, <1>6, <1>7, <1>11, SlotsKept
<1> QED
  BY <1>2, <1>5, <1>6, <1>8, <1>9, <1>10, <1>12, ThreadStepKeeps DEF RequestInv, ThreadRight

-----------------------------------------------------------------------------
\* Into the loop and out of it

\* A permit taken is a request more in the loop.
LEMMA SlotTaken ==
    ASSUME SlotsMatch, HandlerTypeOK, NEW r \in Callers, HandlerElsewhere(r),
           at[r] \in {"none", "slot", "over"}, at'[r] \notin {"none", "slot", "over"},
           RetryLoop => slots' = slots - 1
    PROVE  SlotsMatch'
<1> DEFINE In == {s \in Callers : at[s] \notin {"none", "slot", "over"}}
<1>1. {s \in Callers : at'[s] \notin {"none", "slot", "over"}} = In \cup {r}
  BY DEF HandlerElsewhere
<1>2. /\ IsFiniteSet(In) /\ Cardinality(In) \in Nat
      /\ r \notin In
      /\ Cardinality(In \cup {r}) = Cardinality(In) + 1
  BY PoolAssumption, FS_Subset, FS_CardinalityType, FS_AddElement
<1>3. RetryLoop => slots + Cardinality(In) = RetrySlots
  BY DEF SlotsMatch
<1>4. slots \in Int
  BY DEF HandlerTypeOK
<1> HIDE DEF In
<1> QED
  BY <1>1, <1>2, <1>3, <1>4 DEF SlotsMatch

\* A permit given back is a request less.
LEMMA SlotGivenBack ==
    ASSUME SlotsMatch, HandlerTypeOK, NEW r \in Callers, HandlerElsewhere(r),
           at[r] \notin {"none", "slot", "over"}, at'[r] \in {"none", "slot", "over"},
           RetryLoop => slots' = slots + 1
    PROVE  SlotsMatch'
<1> DEFINE In == {s \in Callers : at[s] \notin {"none", "slot", "over"}}
<1>1. {s \in Callers : at'[s] \notin {"none", "slot", "over"}} = In \ {r}
  BY DEF HandlerElsewhere
<1>2. /\ IsFiniteSet(In) /\ Cardinality(In) \in Nat
      /\ Cardinality(In \ {r}) = Cardinality(In) - 1
  <2>1. IsFiniteSet(In) /\ r \in In
    BY PoolAssumption, FS_Subset
  <2> HIDE DEF In
  <2> QED
    BY <2>1, FS_CardinalityType, FS_RemoveElement
<1>3. RetryLoop => slots + Cardinality(In) = RetrySlots
  BY DEF SlotsMatch
<1>4. slots \in Int
  BY DEF HandlerTypeOK
<1> HIDE DEF In
<1> QED
  BY <1>1, <1>2, <1>3, <1>4 DEF SlotsMatch

\* loop_slots.acquire: a permit, or a refusal.
LEMMA TakeSlotKeeps ==
    ASSUME RequestInv, NEW r \in Callers, TakeSlot(r)
    PROVE  HandlerInv'
<1>1. HandlerTypeOK /\ ThreadRight(r) /\ SlotsMatch
  BY DEF RequestInv, HandlerInv
<1>2. /\ QuarantineKept /\ PoolElsewhere(r)
      /\ UNCHANGED <<pc, attempted, gone, quarantined>>
  BY PoolUntouched DEF RequestInv, TakeSlot
<1>3. answers[r] = <<>>
  BY <1>1 DEF ThreadRight, AnswerRight, WayOut, TakeSlot
<1>4. /\ answers' \in [Callers -> {<<>>} \cup {<<v>> : v \in Words}]
      /\ \A s \in Callers \ {r} : answers'[s] = answers[s]
      /\ answers'[r] = IF slots > 0 THEN <<>> ELSE <<"full">>
  BY <1>1, <1>3, AnswerOnce DEF HandlerTypeOK, TakeSlot, Words, Raised
<1>5. HandlerTypeOK'
  <2>1. slots' \in Int
    BY <1>1 DEF HandlerTypeOK, TakeSlot
  <2>2. at' \in [Callers -> Outside \cup {"acquiring"} \cup Inside]
    BY <1>1 DEF HandlerTypeOK, TakeSlot, Goto, Outside
  <2> QED
    BY <1>1, <1>4, <2>1, <2>2 DEF HandlerTypeOK, TakeSlot, roundVars, resultVars
<1>6. HandlerElsewhere(r)
  BY <1>1, <1>4 DEF HandlerTypeOK, HandlerElsewhere, TakeSlot, Goto, roundVars, resultVars
<1>7. /\ at[r] = "slot"
      /\ \/ at'[r] = "top" /\ answers'[r] = <<>> /\ slots' = slots - 1
         \/ at'[r] = "over" /\ answers'[r] = <<"full">> /\ slots' = slots
      /\ UNCHANGED <<tried, fives, status, exit, faults>>
  BY <1>1, <1>4 DEF HandlerTypeOK, TakeSlot, Goto, roundVars, resultVars
<1>8. PlaceRight(r)' /\ CallRight(r)' /\ ExitRight(r)' /\ FaultRight(r)'
  BY <1>1, <1>2, <1>7 DEF ThreadRight, PlaceRight, CallRight, ExitRight, FaultRight, Outside,
                          WayOut, Inside
<1>9. AnswerRight(r)'
  BY <1>1, <1>2, <1>7, WordsDiffer DEF ThreadRight, AnswerRight, ExitRight, WayOut
<1>10. SlotsMatch'
  BY <1>1, <1>6, <1>7, SlotTaken, SlotsKept
<1> QED
  BY <1>2, <1>5, <1>6, <1>8, <1>9, <1>10, ThreadStepKeeps DEF RequestInv, ThreadRight

\* The request is over, and gives the permit back if it has one.
LEMMA LeaveHandlerKeeps ==
    ASSUME RequestInv, NEW r \in Callers, LeaveHandler(r)
    PROVE  HandlerInv'
<1>1. HandlerTypeOK /\ ThreadRight(r) /\ SlotsMatch
  BY DEF RequestInv, HandlerInv
<1>2. /\ QuarantineKept /\ PoolElsewhere(r)
      /\ UNCHANGED <<pc, attempted, gone, quarantined>>
  BY PoolUntouched DEF RequestInv, LeaveHandler
<1>3. HandlerTypeOK'
  BY <1>1, RequestAssumption DEF HandlerTypeOK, LeaveHandler, Goto, Outside
<1>4. HandlerElsewhere(r)
  BY <1>1 DEF HandlerTypeOK, HandlerElsewhere, LeaveHandler, Goto
<1>5. /\ at[r] = "leaving" /\ at'[r] = "over" /\ fives'[r] = 0 /\ faults'[r] = 0
      /\ slots' = IF RetryLoop THEN slots + 1 ELSE slots
      /\ Max5xxFailovers \in Nat
      /\ UNCHANGED <<exit, answers>>
  BY <1>1, RequestAssumption DEF HandlerTypeOK, LeaveHandler, Goto
<1>6. ThreadRight(r)'
  BY <1>1, <1>2, <1>5 DEF ThreadRight, PlaceRight, CallRight, ExitRight, AnswerRight, FaultRight,
                          Outside, WayOut, Inside
<1>7. SlotsMatch'
  BY <1>1, <1>4, <1>5, SlotGivenBack
<1> QED
  BY <1>2, <1>3, <1>4, <1>6, <1>7, ThreadStepKeeps DEF RequestInv

\* A request arrives.
LEMMA ArriveKeeps ==
    ASSUME RequestInv, NEW r \in Callers, Arrive(r)
    PROVE  HandlerInv'
<1>1. HandlerTypeOK /\ ThreadRight(r) /\ SlotsMatch
  BY DEF RequestInv, HandlerInv
<1>2. QuarantineKept /\ PoolElsewhere(r) /\ UNCHANGED <<pc, attempted, quarantined>>
  BY DEF RequestInv, PoolInv, TypeOK, QuarantineKept, PoolElsewhere, Arrive, keyVars, callVars
<1>3. HandlerTypeOK'
  BY <1>1 DEF HandlerTypeOK, Arrive, Goto, roundVars, resultVars, Outside
<1>4. HandlerElsewhere(r)
  BY <1>1 DEF HandlerTypeOK, HandlerElsewhere, Arrive, Goto, roundVars, resultVars
<1>5. /\ at[r] \in {"none", "over"} /\ answers'[r] = <<>>
      /\ at'[r] = IF RetryLoop THEN "slot" ELSE "acquire"
      /\ UNCHANGED <<tried, fives, status, exit, slots, faults>>
  BY <1>1 DEF HandlerTypeOK, Arrive, Goto, roundVars, resultVars
<1>6. ThreadRight(r)'
  BY <1>1, <1>2, <1>5, WordsDiffer DEF ThreadRight, PlaceRight, CallRight, ExitRight, AnswerRight,
                                       FaultRight, Outside, WayOut, Inside
<1>7. SlotsMatch'
  <2>1. CASE RetryLoop
    BY <1>1, <1>4, <1>5, <2>1, SlotsKept
  <2>2. CASE ~RetryLoop
    BY <2>2 DEF SlotsMatch
  <2> QED
    BY <2>1, <2>2
<1> QED
  BY <1>2, <1>3, <1>4, <1>6, <1>7, ThreadStepKeeps DEF RequestInv

-----------------------------------------------------------------------------
\* The calls into the pool

\* A step of the pool lifts no quarantine.
LEMMA QuarantineLasts ==
    ASSUME RequestInv, [Next]_vars
    PROVE  QuarantineKept
<1>1. quarantined \subseteq quarantined'
  BY HealthNext DEF RequestInv, Worsens
<1>2. TypeOK'
  BY PoolInvNext DEF RequestInv, PoolInv
<1> QED
  BY <1>1, <1>2 DEF QuarantineKept, TypeOK

\* A call that ends is r's own.
LEMMA EndCallElsewhere ==
    ASSUME TypeOK, NEW r \in Callers, NEW outcome, EndCall(r, outcome), UNCHANGED gone
    PROVE  PoolElsewhere(r) /\ pc'[r] = outcome
  BY DEF TypeOK, EndCall, PoolElsewhere

\* What acquire does to the thread that calls it.
AcquireEffect(r) ==
    /\ PoolElsewhere(r)
    /\ pc'[r] \in {"waiting", "leased"} \cup Raised
    /\ pc'[r] = "waiting" => attempted'[r] = attempted[r]
    /\ pc'[r] = "cancelled" => r \in gone
    /\ pc'[r] = "unavailable" => NoFutureCandidate(attempted[r])
    /\ pc'[r] = "leased" => held'[r] \notin attempted[r]

LEMMA RaiseEffect ==
    ASSUME TypeOK, NEW r \in Callers, NEW outcome \in Raised, Raise(r, outcome), UNCHANGED gone,
           outcome = "cancelled" => Probe(r),
           outcome = "unavailable" => NoFutureCandidate(attempted[r])
    PROVE  AcquireEffect(r)
<1>1. PoolElsewhere(r) /\ pc'[r] = outcome
  BY EndCallElsewhere DEF Raise
<1> QED
  BY <1>1 DEF AcquireEffect, Probe, Raised

LEMMA GrantEffect ==
    ASSUME TypeOK, NEW r \in Callers, NEW k \in Keys, Selects(k, attempted[r]), Grant(r, k),
           UNCHANGED gone
    PROVE  AcquireEffect(r)
<1>1. PoolElsewhere(r) /\ pc'[r] = "leased"
  BY EndCallElsewhere DEF Grant
<1>2. held'[r] = k
  BY DEF Grant, TypeOK
<1>3. k \notin attempted[r]
  BY DEF Selects, Selectable
<1> QED
  BY <1>1, <1>2, <1>3 DEF AcquireEffect, Raised

LEMMA WaitLoopEffect ==
    ASSUME TypeOK, NEW r \in Callers, NEW queue, WaitLoop(r, queue), UNCHANGED gone
    PROVE  AcquireEffect(r)
<1>1. CASE LoopCancelled(r, queue)
  BY <1>1, RaiseEffect DEF LoopCancelled, Leave, Raised
<1>2. CASE LoopGrant(r, queue)
  BY <1>2, GrantEffect DEF LoopGrant
<1>3. CASE LoopUnavailable(r, queue)
  BY <1>3, RaiseEffect DEF LoopUnavailable, Leave, Raised
<1>4. CASE LoopTimeout(r, queue)
  BY <1>4, RaiseEffect DEF LoopTimeout, Leave, Raised
<1>5. CASE LoopSleep(r, queue)
  BY <1>5 DEF LoopSleep, TypeOK, AcquireEffect, PoolElsewhere, Raised
<1> QED
  BY <1>1, <1>2, <1>3, <1>4, <1>5 DEF WaitLoop

LEMMA AcquireWorks ==
    ASSUME TypeOK, NEW r \in Callers, Enter(r) \/ Resume(r)
    PROVE  AcquireEffect(r) /\ UNCHANGED gone
<1>1. UNCHANGED gone
  BY DEF Enter, Resume
<1>2. CASE Resume(r)
  BY <1>1, <1>2, WaitLoopEffect DEF Resume
<1>3. CASE Enter(r) /\ EnterCancelled(r)
  BY <1>1, <1>3, RaiseEffect DEF EnterCancelled, Raised
<1>4. CASE Enter(r) /\ EnterGrant(r)
  BY <1>1, <1>4, GrantEffect DEF EnterGrant
<1>5. CASE Enter(r) /\ EnterUnavailable(r)
  BY <1>1, <1>5, RaiseEffect DEF EnterUnavailable, Raised
<1>6. CASE Enter(r) /\ EnterFull(r)
  BY <1>1, <1>6, RaiseEffect DEF EnterFull, Raised
<1>7. CASE Enter(r) /\ EnterQueue(r)
  BY <1>1, <1>7, WaitLoopEffect DEF EnterQueue
<1> QED
  BY <1>1, <1>2, <1>3, <1>4, <1>5, <1>6, <1>7 DEF Enter

\* acquire is called with the keys tried in this round.
LEMMA CallAcquireKeeps ==
    ASSUME RequestInv, NEW r \in Callers, CallAcquire(r), [Next]_vars
    PROVE  HandlerInv'
<1>1. HandlerTypeOK /\ ThreadRight(r) /\ SlotsMatch /\ TypeOK
  BY DEF RequestInv, HandlerInv, PoolInv
<1>2. /\ PoolElsewhere(r) /\ UNCHANGED <<gone, quarantined>>
      /\ pc'[r] = "calling" /\ attempted'[r] = tried[r]
  BY <1>1 DEF CallAcquire, BeginAcquire, TypeOK, PoolElsewhere, keyVars
<1>3. QuarantineKept
  BY QuarantineLasts
<1>4. HandlerTypeOK'
  BY <1>1 DEF HandlerTypeOK, CallAcquire, Goto, roundVars, resultVars
<1>5. HandlerElsewhere(r)
  BY <1>1 DEF HandlerTypeOK, HandlerElsewhere, CallAcquire, Goto, roundVars, resultVars
<1>6. /\ at[r] = "acquire" /\ at'[r] = "acquiring"
      /\ UNCHANGED <<tried, fives, status, exit, answers, slots, faults>>
  BY <1>1 DEF HandlerTypeOK, CallAcquire, Goto, roundVars, resultVars
<1>7. ThreadRight(r)'
  BY <1>1, <1>2, <1>6 DEF ThreadRight, PlaceRight, CallRight, ExitRight, AnswerRight, FaultRight,
                          Outside, WayOut, Inside
<1>8. SlotsMatch'
  BY <1>1, <1>5, <1>6, SlotsKept
<1> QED
  BY <1>2, <1>3, <1>4, <1>5, <1>7, <1>8, ThreadStepKeeps DEF RequestInv

\* The handler waits for acquire.
LEMMA InAcquireKeeps ==
    ASSUME RequestInv, NEW r \in Callers, InAcquire(r), [Next]_vars
    PROVE  HandlerInv'
<1>1. HandlerTypeOK /\ ThreadRight(r) /\ SlotsMatch /\ TypeOK
  BY DEF RequestInv, HandlerInv, PoolInv
<1>2. AcquireEffect(r) /\ UNCHANGED gone
  BY <1>1, AcquireWorks DEF InAcquire
<1>3. QuarantineKept
  BY QuarantineLasts
<1>4. at[r] = "acquiring" /\ pc[r] \in {"calling", "waiting"}
  BY DEF InAcquire, Enter, Resume
<1>5. attempted[r] = tried[r]
  BY <1>1, <1>4 DEF ThreadRight, CallRight
<1>6. /\ HandlerTypeOK' /\ HandlerElsewhere(r)
      /\ UNCHANGED <<at, tried, fives, status, exit, answers, slots, faults>>
  BY <1>1 DEF HandlerTypeOK, HandlerElsewhere, InAcquire, handlerVars
<1>7. PlaceRight(r)' /\ ExitRight(r)' /\ FaultRight(r)'
  BY <1>1, <1>2, <1>4, <1>6 DEF ThreadRight, PlaceRight, ExitRight, FaultRight, AcquireEffect,
                                Outside, WayOut, Inside
<1>8. CallRight(r)'
  BY <1>2, <1>3, <1>4, <1>5, <1>6 DEF CallRight, AcquireEffect, NoFutureCandidate, QuarantineKept,
                                      Raised
<1>9. AnswerRight(r)'
  BY <1>1, <1>4, <1>6 DEF ThreadRight, AnswerRight, WayOut
<1>10. SlotsMatch'
  BY <1>1, <1>6, SlotsKept
<1> QED
  BY <1>2, <1>3, <1>6, <1>7, <1>8, <1>9, <1>10, ThreadStepKeeps
     DEF RequestInv, ThreadRight, AcquireEffect

\* acquire raised.
LEMMA UnservedKeeps ==
    ASSUME RequestInv, NEW r \in Callers, Unserved(r), [Next]_vars
    PROVE  HandlerInv'
<1>1. HandlerTypeOK /\ ThreadRight(r) /\ SlotsMatch /\ TypeOK
  BY DEF RequestInv, HandlerInv, PoolInv
<1>2. PoolElsewhere(r) /\ UNCHANGED <<gone, quarantined>> /\ pc'[r] = "idle"
  BY <1>1 DEF Unserved, Catch, TypeOK, PoolElsewhere, keyVars, callVars
<1>3. QuarantineKept
  BY QuarantineLasts
<1>4. at[r] = "acquiring" /\ pc[r] \in Raised /\ answers[r] = <<>>
  BY <1>1 DEF ThreadRight, AnswerRight, WayOut, Unserved
<1>5. /\ answers' \in [Callers -> {<<>>} \cup {<<v>> : v \in Words}]
      /\ \A s \in Callers \ {r} : answers'[s] = answers[s]
      /\ \/ at'[r] = "recheck" /\ answers'[r] = <<>>
         \/ at'[r] = "leaving" /\ answers'[r] = <<>> /\ pc[r] = "cancelled"
         \/ /\ at'[r] = "leaving" /\ answers'[r] = <<pc[r]>>
            /\ pc[r] = "unavailable" /\ RetryLoop => tried[r] = {}
  <2>1. CASE pc[r] = "unavailable" /\ RetryLoop /\ tried[r] # {}
    BY <1>1, <1>4, <2>1 DEF Unserved, HandlerTypeOK, Goto
  <2>2. CASE ~(pc[r] = "unavailable" /\ RetryLoop /\ tried[r] # {}) /\ pc[r] = "cancelled"
    BY <1>1, <1>4, <2>2 DEF Unserved, HandlerTypeOK, Goto, Return
  <2>3. CASE ~(pc[r] = "unavailable" /\ RetryLoop /\ tried[r] # {}) /\ pc[r] # "cancelled"
    <3>1. Answer(r, pc[r]) /\ Return(r)
      BY <2>3 DEF Unserved
    <3>2. at'[r] = "leaving"
      BY <1>1, <3>1 DEF HandlerTypeOK, Return, Goto
    <3>3. pc[r] \in Words
      BY <1>4 DEF Words
    <3> QED
      BY <1>1, <1>4, <2>3, <3>1, <3>2, <3>3, AnswerOnce
  <2> QED
    BY <2>1, <2>2, <2>3
<1>6. /\ HandlerTypeOK' /\ HandlerElsewhere(r)
      /\ UNCHANGED <<tried, fives, status, exit, slots, faults>>
  BY <1>1, <1>5 DEF HandlerTypeOK, HandlerElsewhere, Unserved, Goto, Return, roundVars,
                    resultVars, Outside
<1>7. PlaceRight(r)' /\ CallRight(r)' /\ ExitRight(r)' /\ FaultRight(r)'
  BY <1>1, <1>2, <1>4, <1>5, <1>6 DEF ThreadRight, PlaceRight, CallRight, ExitRight, FaultRight,
                                      Outside, WayOut, Inside
<1>8. pc[r] = "unavailable" /\ tried[r] = {} => quarantined = Keys
  BY <1>1, <1>4, AllQuarantined DEF ThreadRight, CallRight, HasUntriedCandidate
<1>9. AnswerRight(r)'
  <2>1. \A w : <<w>> # <<>> /\ (<<w>> = <<"unavailable">> => w = "unavailable")
    OBVIOUS
  <2> QED
    BY <1>1, <1>2, <1>4, <1>5, <1>6, <1>8, <2>1
       DEF ThreadRight, AnswerRight, ExitRight, CallRight, WayOut
<1>10. SlotsMatch'
  <2>1. at[r] \notin {"none", "slot", "over"} /\ at'[r] \notin {"none", "slot", "over"}
    BY <1>4, <1>5
  <2> QED
    BY <1>1, <1>6, <2>1, SlotsKept
<1> QED
  BY <1>2, <1>3, <1>6, <1>7, <1>9, <1>10, ThreadStepKeeps DEF RequestInv, ThreadRight

\* An explicit release, with the result or without.
LEMMA ReleaseKeeps ==
    ASSUME RequestInv, NEW r \in Callers, ReleaseWithResult(r) \/ ReleaseWithoutResult(r),
           [Next]_vars
    PROVE  HandlerInv'
<1>1. HandlerTypeOK /\ ThreadRight(r) /\ SlotsMatch /\ TypeOK
  BY DEF RequestInv, HandlerInv, PoolInv
<1>2. PoolElsewhere(r) /\ UNCHANGED <<pc, gone, attempted>>
  BY DEF ReleaseWithResult, ReleaseWithoutResult, Release, PoolElsewhere, callVars
<1>3. QuarantineKept
  BY QuarantineLasts
<1>4. /\ HandlerTypeOK' /\ HandlerElsewhere(r)
      /\ at[r] \in {"release", "drop"} /\ at'[r] = "finally"
      /\ UNCHANGED <<tried, fives, status, exit, answers, slots, faults>>
  BY <1>1 DEF HandlerTypeOK, HandlerElsewhere, ReleaseWithResult, ReleaseWithoutResult, Goto,
              roundVars, resultVars, Inside, WayOut
<1>5. PlaceRight(r)' /\ CallRight(r)' /\ ExitRight(r)' /\ FaultRight(r)'
  BY <1>1, <1>2, <1>4 DEF ThreadRight, PlaceRight, CallRight, ExitRight, FaultRight,
                          Outside, WayOut, Inside
<1>6. AnswerRight(r)'
  BY <1>1, <1>2, <1>3, <1>4 DEF ThreadRight, AnswerRight, QuarantineKept, WayOut
<1>7. SlotsMatch'
  BY <1>1, <1>4, SlotsKept
<1> QED
  BY <1>2, <1>3, <1>4, <1>5, <1>6, <1>7, ThreadStepKeeps DEF RequestInv, ThreadRight

\* The `finally' block: the lease is dropped and the loop goes on or ends.
LEMMA FinallyKeeps ==
    ASSUME RequestInv, NEW r \in Callers, Finally(r), [Next]_vars
    PROVE  HandlerInv'
<1>1. HandlerTypeOK /\ ThreadRight(r) /\ SlotsMatch /\ TypeOK
  BY DEF RequestInv, HandlerInv, PoolInv
<1>2. PoolElsewhere(r) /\ UNCHANGED gone /\ pc'[r] = "idle"
  BY <1>1 DEF Finally, Finish, TypeOK, PoolElsewhere, callVars
<1>3. QuarantineKept
  BY QuarantineLasts
<1>4. /\ HandlerTypeOK' /\ HandlerElsewhere(r)
      /\ at[r] = "finally" /\ exit'[r] = "return"
      /\ at'[r] = IF exit[r] = "continue" THEN IF RetryLoop THEN "top" ELSE "acquire"
                                          ELSE "leaving"
      /\ UNCHANGED <<tried, fives, status, answers, slots, faults>>
  BY <1>1 DEF HandlerTypeOK, HandlerElsewhere, Finally, Goto, Loop, Return, roundVars,
              resultVars, Outside
<1>5. PlaceRight(r)' /\ CallRight(r)' /\ ExitRight(r)' /\ FaultRight(r)'
  BY <1>1, <1>2, <1>4 DEF ThreadRight, PlaceRight, CallRight, ExitRight, FaultRight,
                          Outside, WayOut, Inside
<1>6. AnswerRight(r)'
  <2>1. exit[r] \in {"continue", "return"}
    BY <1>1 DEF HandlerTypeOK
  <2> QED
    BY <1>1, <1>2, <1>3, <1>4, <2>1 DEF ThreadRight, AnswerRight, QuarantineKept, WayOut
<1>7. SlotsMatch'
  <2>1. at[r] \notin {"none", "slot", "over"} /\ at'[r] \notin {"none", "slot", "over"}
    BY <1>4
  <2> QED
    BY <1>1, <1>4, <2>1, SlotsKept
<1> QED
  BY <1>2, <1>3, <1>4, <1>5, <1>6, <1>7, ThreadStepKeeps DEF RequestInv, ThreadRight

\* A client leaves.
LEMMA ClientLeavesKeeps ==
    ASSUME RequestInv, NEW r \in Callers, ClientLeaves(r)
    PROVE  HandlerInv'
<1>1. HandlerTypeOK /\ ThreadRight(r) /\ SlotsMatch /\ TypeOK
  BY DEF RequestInv, HandlerInv, PoolInv
<1>2. /\ PoolElsewhere(r) /\ QuarantineKept /\ r \in gone'
      /\ UNCHANGED <<pc, attempted, quarantined>>
  BY <1>1 DEF ClientLeaves, Disconnect, TypeOK, PoolElsewhere, QuarantineKept, keyVars, callVars
<1>3. /\ HandlerTypeOK' /\ HandlerElsewhere(r)
      /\ UNCHANGED <<at, tried, fives, status, exit, answers, slots, faults>>
  BY <1>1 DEF HandlerTypeOK, HandlerElsewhere, ClientLeaves, handlerVars
<1>4. ThreadRight(r)'
  BY <1>1, <1>2, <1>3 DEF ThreadRight, PlaceRight, CallRight, ExitRight, AnswerRight, FaultRight,
                          NoFutureCandidate
<1>5. SlotsMatch'
  BY <1>1, <1>3, SlotsKept
<1> QED
  BY <1>2, <1>3, <1>4, <1>5, ThreadStepKeeps DEF RequestInv

\* The passing of time and a stutter change nothing of this.
LEMMA HandlerSame ==
    ASSUME HandlerInv, UNCHANGED <<pc, attempted, gone, quarantined>>,
           UNCHANGED <<at, tried, fives, status, after, exit, answers, slots, faults>>
    PROVE  HandlerInv'
<1>1. HandlerTypeOK' /\ SlotsMatch'
  BY DEF HandlerInv, HandlerTypeOK, SlotsMatch
<1>2. ASSUME NEW r \in Callers
      PROVE  ThreadRight(r)'
  <2>1. ThreadRight(r)
    BY DEF HandlerInv
  <2> QED
    BY <2>1 DEF ThreadRight, PlaceRight, CallRight, ExitRight, AnswerRight, FaultRight,
                NoFutureCandidate
<1> QED
  BY <1>1, <1>2 DEF HandlerInv

-----------------------------------------------------------------------------
\* The invariant of the handler over its pool

LEMMA HandlerInvInit == RequestInit => HandlerInv
<1> SUFFICES ASSUME RequestInit
             PROVE  HandlerInv
  OBVIOUS
<1>1. HandlerTypeOK
  <2>1. RetrySlots \in Int
    BY PoolAssumption DEF RetrySlots
  <2> QED
    BY <2>1, RequestAssumption DEF RequestInit, HandlerTypeOK, Outside
<1>2. ASSUME NEW r \in Callers
      PROVE  ThreadRight(r)
  <2>1. /\ at[r] = "none" /\ pc[r] = "idle" /\ exit[r] = "return" /\ answers[r] = <<>>
        /\ fives[r] = 0 /\ faults[r] = 0 /\ Max5xxFailovers \in Nat
    BY RequestAssumption DEF RequestInit, Init
  <2> QED
    BY <2>1, WordsDiffer DEF ThreadRight, PlaceRight, CallRight, ExitRight, AnswerRight, FaultRight,
                             Outside, WayOut, Inside
<1>3. SlotsMatch
  <2>1. {r \in Callers : at[r] \notin {"none", "slot", "over"}} = {}
    BY DEF RequestInit
  <2>2. RetrySlots \in Int
    BY PoolAssumption DEF RetrySlots
  <2>3. slots = RetrySlots
    BY DEF RequestInit
  <2> QED
    BY <2>1, <2>2, <2>3, FS_EmptySet DEF SlotsMatch
<1> QED
  BY <1>1, <1>2, <1>3 DEF HandlerInv

LEMMA HandlerInvNext == RequestInv /\ [RequestNext]_requestVars => HandlerInv'
<1> SUFFICES ASSUME RequestInv, [RequestNext]_requestVars
             PROVE  HandlerInv'
  OBVIOUS
<1>1. HandlerInv /\ [Next]_vars
  BY HandlerUsesPool DEF RequestInv
<1>2. CASE TimePasses
  BY <1>1, <1>2, HandlerSame DEF TimePasses, Tick, resultVars
<1>3. ASSUME NEW r \in Callers, Arrive(r) \/ ClientLeaves(r)
      PROVE  HandlerInv'
  BY <1>3, ArriveKeeps, ClientLeavesKeeps
<1>4. ASSUME NEW r \in Callers, ThreadStep(r)
      PROVE  HandlerInv'
  BY <1>1, <1>4, TakeSlotKeeps, LeaveHandlerKeeps, CheckRoundKeeps, CheckNextRoundKeeps,
     BackoffCancelledKeeps, StartRoundKeeps, CallAcquireKeeps, InAcquireKeeps, UnservedKeeps,
     RecheckKeeps, AdmittedKeeps, OpenKeeps, DecideKeeps, ReleaseKeeps, FinallyKeeps
     DEF ThreadStep
<1>5. ASSUME NEW r \in Callers, UpstreamStep(r)
      PROVE  HandlerInv'
  BY <1>5, AttemptFailsKeeps, AttemptAnswersKeeps, RelayStartsKeeps, RelayFailsKeeps
     DEF UpstreamStep
<1>6. ASSUME NEW r \in Callers, RelayEnds(r)
      PROVE  HandlerInv'
  BY <1>6, RelayEndsKeeps
<1>7. CASE UNCHANGED requestVars
  BY <1>1, <1>7, HandlerSame DEF requestVars, vars, handlerVars
<1> QED
  BY <1>2, <1>3, <1>4, <1>5, <1>6, <1>7 DEF RequestNext

LEMMA RequestInvNext == RequestInv /\ [RequestNext]_requestVars => RequestInv'
<1> SUFFICES ASSUME RequestInv, [RequestNext]_requestVars
             PROVE  RequestInv'
  OBVIOUS
<1>1. [Next]_vars
  BY HandlerUsesPool DEF RequestInv
<1> QED
  BY <1>1, HandlerInvNext, PoolInvNext, QueueInvNext DEF RequestInv

LEMMA RequestInvariant == RequestSpec => []RequestInv
<1>1. RequestInit => RequestInv
  BY HandlerInvInit, PoolInvInit, QueueInvInit DEF RequestInit, RequestInv
<1> QED
  BY <1>1, RequestInvNext, PTL DEF RequestSpec

-----------------------------------------------------------------------------
\* What the handler promises

\* The handler keeps to the pool's protocol (it acquires only when it holds
\* nothing, releases only what it holds, and drops a lease once): whatever has
\* been proved of the pool on its own is true of it under the handler.
THEOREM HandlerUsesThePool == RequestSpec => UsesThePool
<1>1. RequestInv /\ [RequestNext]_requestVars => [Next]_vars
  BY HandlerUsesPool DEF RequestInv
<1>2. RequestInit => Init
  BY DEF RequestInit
<1> QED
  BY <1>1, <1>2, RequestInvariant, PTL DEF RequestSpec, Spec, UsesThePool

\* What the pool promises to arbitrary callers it keeps under the handler, with a
\* coarse clock too: leases are counted exactly, results only worsen a key's
\* health, there is a ticket for every waiting request and none of them sleeps
\* while it could go on or beyond its time.
THEOREM PoolUnderHandler ==
    RequestSpec => /\ []ActiveMatchesLeases /\ KeyHealthOnlyWorsens /\ []TicketsBalance
                   /\ []NoLostWakeup /\ []NoOversleep
  BY HandlerUsesThePool, LeasesCounted, HealthOnlyWorsens, TicketsInBalance,
     HeadNeverForgotten, SleepsEndInTime, PTL DEF UsesThePool

\* No client gets two status lines, no request that has begun to answer is
\* tried again, and none ends unanswered unless its client is gone, over every
\* path through the failover loop.
THEOREM AnsweredOnce == RequestSpec => []OneResponse
<1>1. RequestInv => OneResponse
  <2> SUFFICES ASSUME RequestInv, NEW r \in Callers
               PROVE  /\ Len(answers[r]) <= 1
                      /\ answers[r] # <<>> =>
                             /\ at[r] \in {"relaying", "release", "drop", "finally",
                                          "leaving", "over"}
                             /\ exit[r] = "return"
                      /\ at[r] = "over" => answers[r] # <<>> \/ r \in gone
    BY DEF OneResponse
  <2>1. HandlerTypeOK /\ AnswerRight(r) /\ ExitRight(r)
    BY DEF RequestInv, HandlerInv, ThreadRight
  <2>2. Len(answers[r]) <= 1
    <3>1. answers[r] \in {<<>>} \cup {<<w>> : w \in Words}
      BY <2>1 DEF HandlerTypeOK
    <3>2. Len(<<>>) = 0 /\ \A w : Len(<<w>>) = 1
      OBVIOUS
    <3>3. CASE answers[r] = <<>>
      BY <3>2, <3>3
    <3>4. ASSUME NEW w \in Words, answers[r] = <<w>>
          PROVE  Len(answers[r]) <= 1
      BY <3>2, <3>4
    <3> QED
      BY <3>1, <3>3, <3>4
  <2> QED
    BY <2>1, <2>2 DEF AnswerRight, ExitRight, WayOut
<1> QED
  BY <1>1, RequestInvariant, PTL

\* Every way out of a pass of the loop leaves the thread with no lease and no
\* ticket.
THEOREM NothingCarriedOver == RequestSpec => []NothingHeldBetweenAttempts
<1>1. RequestInv => NothingHeldBetweenAttempts
  <2> SUFFICES ASSUME RequestInv, NEW r \in Callers, at[r] \in Outside
               PROVE  /\ pc[r] = "idle" /\ held[r] = NoKey
                      /\ \A i \in DOMAIN waiters : waiters[i].owner # r
    BY DEF NothingHeldBetweenAttempts, Outside
  <2>1. pc[r] = "idle"
    BY DEF RequestInv, HandlerInv, ThreadRight, PlaceRight
  <2>2. held[r] = NoKey
    BY <2>1 DEF RequestInv, PoolInv, LeaseShape
  <2>3. r \notin Waiting /\ r # Nobody
    BY <2>1, PoolAssumption DEF Waiting
  <2>4. \A i \in DOMAIN waiters : waiters[i].owner # r
    BY <2>3 DEF RequestInv, QueueInv, QueueHolds, OwnersMatch
  <2> QED
    BY <2>1, <2>2, <2>4
<1> QED
  BY <1>1, RequestInvariant, PTL

\* Standard mode never makes more faulty attempts than max_5xx_failovers and one.
THEOREM FaultsStayBounded == RequestSpec => []FaultsBounded
<1>1. RequestInv => FaultsBounded
  <2> SUFFICES ASSUME RequestInv, ~RetryLoop, NEW r \in Callers
               PROVE  faults[r] <= Max5xxFailovers + 1
    BY DEF FaultsBounded
  <2>1. fives[r] \in Nat /\ faults[r] \in Nat /\ Max5xxFailovers \in Nat
    BY RequestAssumption DEF RequestInv, HandlerInv, HandlerTypeOK
  <2>2. fives[r] <= Max5xxFailovers /\ faults[r] <= fives[r] + 1
    BY DEF RequestInv, HandlerInv, ThreadRight, FaultRight
  <2> QED
    BY <2>1, <2>2
<1> QED
  BY <1>1, RequestInvariant, PTL

\* pool_retry_slots loses no permit and gains none, on any way out of the loop.
THEOREM SlotsNeverLeak == RequestSpec => []SlotsMatch
<1>1. RequestInv => SlotsMatch
  BY DEF RequestInv, HandlerInv
<1> QED
  BY <1>1, RequestInvariant, PTL

\* The loop tells a client that no key is left only when all are quarantined,
\* although it looks at the keys in three critical sections.
THEOREM GivesUpRightly == RequestSpec => []LoopGivesUpRightly
<1>1. RequestInv => LoopGivesUpRightly
  BY DEF RequestInv, HandlerInv, ThreadRight, AnswerRight, ExitRight, WayOut,
         LoopGivesUpRightly
<1> QED
  BY <1>1, RequestInvariant, PTL

\* Where a step of one thread leaves the others.
LEMMA OthersStay ==
    ASSUME RequestInv, [RequestNext]_requestVars, NEW s \in Callers, pc'[s] # pc[s]
    PROVE  InAcquire(s) \/ pc'[s] \in {"calling", "idle"}
<1>1. TypeOK /\ HandlerTypeOK
  BY DEF RequestInv, PoolInv, HandlerInv
<1>2. ASSUME UNCHANGED pc
      PROVE  FALSE
  BY <1>2
<1>3. CASE TimePasses \/ UNCHANGED requestVars
  BY <1>2, <1>3 DEF TimePasses, Tick, requestVars, vars
<1>4. ASSUME NEW r \in Callers, Arrive(r) \/ ClientLeaves(r)
      PROVE  FALSE
  BY <1>2, <1>4 DEF Arrive, ClientLeaves, Disconnect
<1>5. ASSUME NEW r \in Callers,
             \/ TakeSlot(r) \/ LeaveHandler(r) \/ CheckRound(r) \/ CheckNextRound(r)
             \/ BackoffCancelled(r) \/ StartRound(r) \/ Recheck(r) \/ Admitted(r)
             \/ Open(r) \/ Decide(r) \/ UpstreamStep(r) \/ RelayEnds(r)
      PROVE  FALSE
  <2>1. UNCHANGED vars
    BY <1>5 DEF TakeSlot, LeaveHandler, CheckRound, CheckNextRound, BackoffCancelled,
                StartRound, Recheck, Admitted, Open, Decide, RelayEnds, UpstreamStep,
                AttemptFails, AttemptAnswers, RelayStarts, RelayFails
  <2> QED
    BY <1>2, <2>1 DEF vars
<1>6. ASSUME NEW r \in Callers, ReleaseWithResult(r) \/ ReleaseWithoutResult(r)
      PROVE  FALSE
  BY <1>2, <1>6 DEF ReleaseWithResult, ReleaseWithoutResult, Release
<1>7. ASSUME NEW r \in Callers, CallAcquire(r) \/ Unserved(r) \/ Finally(r)
      PROVE  pc'[s] \in {"calling", "idle"}
  <2>1. PICK p \in {"calling", "idle"} : pc' = [pc EXCEPT ![r] = p]
    BY <1>7 DEF CallAcquire, BeginAcquire, Unserved, Catch, Finally, Finish
  <2> QED
    BY <1>1, <2>1 DEF TypeOK
<1>8. ASSUME NEW r \in Callers, InAcquire(r)
      PROVE  r = s
  <2>1. PoolElsewhere(r)
    BY <1>1, <1>8, AcquireWorks DEF InAcquire, AcquireEffect
  <2> QED
    BY <2>1 DEF PoolElsewhere
<1> QED
  BY <1>3, <1>4, <1>5, <1>6, <1>7, <1>8 DEF RequestNext, ThreadStep

\* Neither two failovers of a request nor two attempts in a round of the loop
\* use the same key, although acquire forgets the keys it was told to avoid
\* and runs long after they were collected.
THEOREM KeysUsedOnce == RequestSpec => NoKeyTwice
<1> DEFINE Fresh == \A r \in Callers :
                        pc[r] # "leased" /\ pc'[r] = "leased" => held'[r] \notin tried[r]
<1>1. RequestInv /\ [RequestNext]_requestVars => [Fresh]_requestVars
  <2> SUFFICES ASSUME RequestInv, [RequestNext]_requestVars,
                      NEW r \in Callers, pc[r] # "leased", pc'[r] = "leased"
               PROVE  held'[r] \notin tried[r]
    OBVIOUS
  <2>1. InAcquire(r)
    BY OthersStay
  <2>2. TypeOK /\ CallRight(r)
    BY DEF RequestInv, PoolInv, HandlerInv, ThreadRight
  <2>3. AcquireEffect(r)
    BY <2>1, <2>2, AcquireWorks DEF InAcquire
  <2>4. attempted[r] = tried[r]
    BY <2>1, <2>2 DEF InAcquire, Enter, Resume, CallRight
  <2> QED
    BY <2>3, <2>4 DEF AcquireEffect
<1> QED
  BY <1>1, RequestInvariant, PTL DEF RequestSpec, NoKeyTwice
=============================================================================
