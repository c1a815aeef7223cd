----------------------------- MODULE PoolRequest -----------------------------
(***************************************************************************)
(* One chat completion request in Pool mode (nvidia_nim_proxy/server.py,   *)
(* _forward_from_pool and _run_pool_request), run by every request thread  *)
(* against the shared NvidiaKeyPool.                                       *)
(*                                                                         *)
(* Each step of a thread ends at its next critical section of the pool, at *)
(* a point where it waits for NVIDIA, or where the client may be found     *)
(* gone.  Between two steps every other thread, the clock and the clients  *)
(* may act.  The upstream service is external: an attempt is answered with *)
(* any status of Answers, or fails with any kind of transport error.       *)
(***************************************************************************)
EXTENDS KeyPool

CONSTANTS
    Max5xxFailovers,  \* max_5xx_failovers
    FirstBackoff,     \* backoff_seconds of the first retry round
    MaxBackoff,       \* POOL_RETRY_MAX_BACKOFF_SECONDS
    Answers,          \* statuses NVIDIA may answer an attempt with
    BodyMayBreak      \* an answer's body may fail before any of it is relayed

\* ProxyConfig sets the pool up for the retry loop or for standard mode.
RetryLoop == WaitForever

\* Every attempt carries the client's probe.
ASSUME RequestAssumption ==
    /\ Cancellable
    /\ HonorRetry5xx = RetryLoop
    /\ Max5xxFailovers \in Nat
    /\ FirstBackoff \in Nat \ {0}
    /\ MaxBackoff \in Nat /\ FirstBackoff <= MaxBackoff
    /\ Answers \subseteq Statuses /\ NoStatus \notin Answers
    /\ NoStatus \in Statuses /\ NoRetryAfter \in RetryAfters
    /\ Attempts = SUBSET Keys
    /\ BodyMayBreak \in BOOLEAN

\* pool_retry_slots
RetrySlots == MaxTotalQueued + NKeys * MaxConcurrentPerKey

VARIABLES
    at,       \* where the thread is in the handler
    tried,    \* attempted: keys this request has tried in this round
    fives,    \* five_xx_failovers
    backoff,  \* backoff_seconds
    rest,     \* what is left of the wait between two rounds
    status,   \* status of the last answer from NVIDIA
    after,    \* its Retry-After header
    exit,     \* how the try block is left: "continue" or "return"
    answers,  \* responses begun towards the client
    slots,    \* permits left in pool_retry_slots
    faults    \* history: attempts that ended in a 5xx or a broken transport

roundVars == <<tried, fives, backoff, rest>>
resultVars == <<status, after>>
handlerVars == <<at, tried, fives, backoff, rest, status, after, exit, answers,
                 slots, faults>>
requestVars == <<vars, handlerVars>>

RequestInit ==
    /\ Init
    /\ at = [r \in Callers |-> "none"]
    /\ tried = [r \in Callers |-> {}]
    /\ fives = [r \in Callers |-> 0]
    /\ backoff = [r \in Callers |-> FirstBackoff]
    /\ rest = [r \in Callers |-> 0]
    /\ status = [r \in Callers |-> NoStatus]
    /\ after = [r \in Callers |-> NoRetryAfter]
    /\ exit = [r \in Callers |-> "return"]
    /\ answers = [r \in Callers |-> <<>>]
    /\ slots = RetrySlots
    /\ faults = [r \in Callers |-> 0]

Goto(r, place) == at' = [at EXCEPT ![r] = place]

\* _begin_client_response and all that it leads to.
Answer(r, what) == answers' = [answers EXCEPT ![r] = Append(@, what)]

\* has_untried_candidate, a critical section of its own.
HasUntriedCandidate(keys) == ~NoFutureCandidate(keys)

\* The top of the while loop; in standard mode nothing is looked at there.
Loop(r) == Goto(r, IF RetryLoop THEN "top" ELSE "acquire")

\* A return of _run_pool_request.
Return(r) == Goto(r, "leaving")

-----------------------------------------------------------------------------
\* Before the first attempt

\* An authorized request arrives, on a connection that is open.
Arrive(r) ==
    /\ at[r] \in {"none", "over"}
    /\ gone' = gone \ {r}
    /\ Goto(r, IF RetryLoop THEN "slot" ELSE "acquire")
    /\ answers' = [answers EXCEPT ![r] = <<>>]
    /\ UNCHANGED <<keyVars, waiters, pc, callVars, notified, leaseVars, reading,
                   roundVars, resultVars, exit, slots, faults>>

\* loop_slots.acquire(blocking=False)
TakeSlot(r) ==
    /\ at[r] = "slot"
    /\ IF slots > 0
         THEN slots' = slots - 1 /\ Goto(r, "top") /\ UNCHANGED answers
         ELSE Answer(r, "full") /\ Goto(r, "over") /\ UNCHANGED slots
    /\ UNCHANGED <<vars, roundVars, resultVars, exit, faults>>

\* loop_slots.release(), if the request took one.  The handler's locals end
\* with it.
LeaveHandler(r) ==
    /\ at[r] = "leaving"
    /\ slots' = IF RetryLoop THEN slots + 1 ELSE slots
    /\ Goto(r, "over")
    /\ tried' = [tried EXCEPT ![r] = {}]
    /\ fives' = [fives EXCEPT ![r] = 0]
    /\ backoff' = [backoff EXCEPT ![r] = FirstBackoff]
    /\ status' = [status EXCEPT ![r] = NoStatus]
    /\ after' = [after EXCEPT ![r] = NoRetryAfter]
    /\ faults' = [faults EXCEPT ![r] = 0]
    /\ UNCHANGED <<vars, rest, exit, answers>>

\* Is the round over?  Two critical sections, one after the other.
RoundOver(r) ==
    /\ RetryLoop
    /\ tried[r] # {}
    /\ ~HasUntriedCandidate(tried[r])

CheckRound(r) ==
    /\ at[r] = "top"
    /\ Goto(r, IF RoundOver(r) THEN "round" ELSE "acquire")
    /\ UNCHANGED <<vars, roundVars, resultVars, exit, answers, slots, faults>>

CheckNextRound(r) ==
    /\ at[r] = "round"
    /\ IF HasUntriedCandidate({})
         THEN Goto(r, "backoff") /\ rest' = [rest EXCEPT ![r] = backoff[r]]
         ELSE Goto(r, "acquire") /\ UNCHANGED rest
    /\ UNCHANGED <<vars, tried, fives, backoff, resultVars, exit, answers, slots,
                   faults>>

\* Seeded fault: this way out does not give the slot back.
BackoffCancelledKeepsSlot(r) ==
    /\ at[r] = "backoff"
    /\ Probe(r)
    /\ rest' = [rest EXCEPT ![r] = 0]
    /\ Goto(r, "over")
    /\ UNCHANGED <<vars, tried, fives, backoff, resultVars, exit, answers, slots,
                   faults>>

\* _wait_for_pool_retry_round finds the client gone.
BackoffCancelled(r) ==
    /\ at[r] = "backoff"
    /\ Probe(r)
    /\ rest' = [rest EXCEPT ![r] = 0]
    /\ Return(r)
    /\ UNCHANGED <<vars, tried, fives, backoff, resultVars, exit, answers, slots,
                   faults>>

NextBackoff(b) == Min({b * 2, MaxBackoff})

\* Seeded fault: the keys tried in the last round are not forgotten.
StartRoundExhausted(r) ==
    /\ at[r] = "backoff"
    /\ ~Probe(r)
    /\ rest[r] = 0
    /\ backoff' = [backoff EXCEPT ![r] = NextBackoff(@)]
    /\ Goto(r, "acquire")
    /\ UNCHANGED <<vars, tried, fives, rest, resultVars, exit, answers, slots, faults>>

\* It returns True after the wait; the next round starts with every key.
StartRound(r) ==
    /\ at[r] = "backoff"
    /\ ~Probe(r)
    /\ rest[r] = 0
    /\ tried' = [tried EXCEPT ![r] = {}]
    /\ backoff' = [backoff EXCEPT ![r] = NextBackoff(@)]
    /\ Goto(r, "acquire")
    /\ UNCHANGED <<vars, fives, rest, resultVars, exit, answers, slots, faults>>

-----------------------------------------------------------------------------
\* Acquiring a key

\* Seeded fault: the keys tried before are not excluded.
CallAcquireAnyKey(r) ==
    /\ at[r] = "acquire"
    /\ BeginAcquire(r, {})
    /\ Goto(r, "acquiring")
    /\ UNCHANGED <<roundVars, resultVars, exit, answers, slots, faults>>

CallAcquire(r) ==
    /\ at[r] = "acquire"
    /\ BeginAcquire(r, tried[r])
    /\ Goto(r, "acquiring")
    /\ UNCHANGED <<roundVars, resultVars, exit, answers, slots, faults>>

InAcquire(r) ==
    /\ at[r] = "acquiring"
    /\ Enter(r) \/ Resume(r)
    /\ UNCHANGED handlerVars

\* Seeded fault: the loop gives up without looking at the keys again.
UnservedNoRecheck(r) ==
    /\ at[r] = "acquiring"
    /\ pc[r] \in Raised
    /\ Catch(r)
    /\ Return(r)
    /\ IF pc[r] = "cancelled" THEN UNCHANGED answers ELSE Answer(r, pc[r])
    /\ UNCHANGED <<roundVars, resultVars, exit, slots, faults>>

\* acquire raised: the client is gone, or gets an error.
Unserved(r) ==
    /\ at[r] = "acquiring"
    /\ pc[r] \in Raised
    /\ Catch(r)
    /\ IF pc[r] = "unavailable" /\ RetryLoop /\ tried[r] # {}
         THEN Goto(r, "recheck") /\ UNCHANGED answers
         ELSE /\ Return(r)
              /\ IF pc[r] = "cancelled" THEN UNCHANGED answers ELSE Answer(r, pc[r])
    /\ UNCHANGED <<roundVars, resultVars, exit, slots, faults>>

\* Another request may have quarantined the last untried key.
Recheck(r) ==
    /\ at[r] = "recheck"
    /\ IF HasUntriedCandidate({})
         THEN Goto(r, "top") /\ UNCHANGED answers
         ELSE Return(r) /\ Answer(r, "unavailable")
    /\ UNCHANGED <<vars, roundVars, resultVars, exit, slots, faults>>

\* How the try block is left: with an explicit release or to the `finally'.
Leaving(r, place, how) ==
    /\ Goto(r, place)
    /\ exit' = [exit EXCEPT ![r] = how]

\* Seeded fault: the key is not added to the keys tried.
AdmittedUnrecorded(r) ==
    /\ at[r] = "acquiring"
    /\ pc[r] = "leased"
    /\ IF Probe(r)
         THEN Leaving(r, "finally", "return")
         ELSE Goto(r, "open") /\ UNCHANGED exit
    /\ UNCHANGED <<vars, roundVars, resultVars, answers, slots, faults>>

\* acquire returned a lease; the client is probed before the attempt.
Admitted(r) ==
    /\ at[r] = "acquiring"
    /\ pc[r] = "leased"
    /\ tried' = [tried EXCEPT ![r] = @ \cup {held[r]}]
    /\ IF Probe(r)
         THEN Leaving(r, "finally", "return")
         ELSE Goto(r, "open") /\ UNCHANGED exit
    /\ UNCHANGED <<vars, fives, backoff, rest, resultVars, answers, slots, faults>>

-----------------------------------------------------------------------------
\* The upstream attempt

Open(r) ==
    /\ at[r] = "open"
    /\ Goto(r, "upstream")
    /\ status' = [status EXCEPT ![r] = NoStatus]
    /\ after' = [after EXCEPT ![r] = NoRetryAfter]
    /\ UNCHANGED <<vars, roundVars, exit, answers, slots, faults>>

\* In standard mode every failover after a fault is counted and bounded.
MayFailOverFault(r) ==
    \/ RetryLoop
    \/ /\ fives[r] < Max5xxFailovers
       /\ HasUntriedCandidate(tried[r])

CountFault(r) ==
    fives' = [fives EXCEPT ![r] = @ + IF RetryLoop THEN 0 ELSE 1]

Fault(r) == faults' = [faults EXCEPT ![r] = IF RetryLoop THEN 0 ELSE @ + 1]

\* DNS failures, and in the loop TLS failures, are shared by every key.
SharedFailure(kind) == kind = "dns" \/ (RetryLoop /\ kind = "tls")

\* No answer: _open_upstream_attempt raises.
AttemptFails(r, kind) ==
    /\ at[r] = "upstream"
    /\ Fault(r)
    /\ IF ~SharedFailure(kind) /\ MayFailOverFault(r)
         THEN CountFault(r) /\ Leaving(r, "release", "continue") /\ UNCHANGED answers
         ELSE Answer(r, "failed") /\ Leaving(r, "finally", "return") /\ UNCHANGED fives
    /\ UNCHANGED <<vars, tried, backoff, rest, resultVars, slots>>

IsServerError(s) == s \in 500 .. 599

\* An answer; the client is probed before anything is made of it.
AttemptAnswers(r, s, retryAfter) ==
    /\ at[r] = "upstream"
    /\ status' = [status EXCEPT ![r] = s]
    /\ after' = [after EXCEPT ![r] = retryAfter]
    /\ IF IsServerError(s) THEN Fault(r) ELSE UNCHANGED faults
    /\ IF Probe(r)
         THEN Leaving(r, "release", "return")
         ELSE Goto(r, "decide") /\ UNCHANGED exit
    /\ UNCHANGED <<vars, roundVars, answers, slots>>

\* Seeded fault: server errors fail over like rate limits.
ShouldFailoverAlways(r, s) ==
    s \in QuarantineStatuses \cup CooldownStatuses \/ IsServerError(s)

\* NvidiaKeyPool.should_failover
ShouldFailover(r, s) ==
    \/ s \in QuarantineStatuses \cup CooldownStatuses
    \/ IsServerError(s) /\ fives[r] < Max5xxFailovers

FailsOver(r, s) ==
    IF RetryLoop
      THEN \/ s \in PoolRetryableStatuses
           \/ s \in QuarantineStatuses /\ HasUntriedCandidate({held[r]})
      ELSE ShouldFailover(r, s) /\ HasUntriedCandidate(tried[r])

Decide(r) ==
    /\ at[r] = "decide"
    /\ IF FailsOver(r, status[r])
         THEN /\ Leaving(r, "release", "continue")
              /\ IF IsServerError(status[r]) THEN CountFault(r) ELSE UNCHANGED fives
         ELSE Goto(r, "relay") /\ UNCHANGED <<exit, fives>>
    /\ UNCHANGED <<vars, tried, backoff, rest, resultVars, answers, slots, faults>>

\* _relay_upstream_response begins the client's response.
RelayStarts(r) ==
    /\ at[r] = "relay"
    /\ Answer(r, "relayed")
    /\ Goto(r, "relaying")
    /\ UNCHANGED <<vars, roundVars, resultVars, exit, slots, faults>>

\* Seeded fault: a stream that broke off is tried on another key.
RelayEndsRetried(r) ==
    /\ at[r] = "relaying"
    /\ Leaving(r, "release", "continue")
    /\ UNCHANGED <<vars, roundVars, resultVars, answers, slots, faults>>

\* The response has been relayed, or broke off on either side: there is no
\* second status to send, and no second attempt.
RelayEnds(r) ==
    /\ at[r] = "relaying"
    /\ Leaving(r, "release", "return")
    /\ UNCHANGED <<vars, roundVars, resultVars, answers, slots, faults>>

IsSuccess(s) == s \in 200 .. 299

\* The body cannot be read and nothing has been sent yet.  The lease is
\* released without the answer's status.
RelayFails(r, kind) ==
    /\ BodyMayBreak
    /\ at[r] = "relay"
    /\ IF /\ IsSuccess(status[r])
          /\ ~(RetryLoop /\ kind = "tls")
          /\ MayFailOverFault(r)
         THEN CountFault(r) /\ Leaving(r, "drop", "continue") /\ UNCHANGED answers
         ELSE Answer(r, "failed") /\ Leaving(r, "drop", "return") /\ UNCHANGED fives
    /\ IF IsServerError(status[r]) THEN UNCHANGED faults ELSE Fault(r)
    /\ UNCHANGED <<vars, tried, backoff, rest, resultVars, slots>>

-----------------------------------------------------------------------------
\* Leaving the try block

\* lease.release(status=..., retry_after=...)
ReleaseWithResult(r) ==
    /\ at[r] = "release"
    /\ Release(r, status[r], after[r])
    /\ Goto(r, "finally")
    /\ UNCHANGED <<roundVars, resultVars, exit, answers, slots, faults>>

\* lease.release()
ReleaseWithoutResult(r) ==
    /\ at[r] = "drop"
    /\ Release(r, NoStatus, NoRetryAfter)
    /\ Goto(r, "finally")
    /\ UNCHANGED <<roundVars, resultVars, exit, answers, slots, faults>>

\* Seeded fault: `continue' passes the `finally' by.
FinallySkipped(r) ==
    /\ at[r] = "finally"
    /\ IF exit[r] = "continue"
         THEN Loop(r) /\ UNCHANGED vars
         ELSE Return(r) /\ Finish(r)
    /\ exit' = [exit EXCEPT ![r] = "return"]
    /\ UNCHANGED <<roundVars, resultVars, answers, slots, faults>>

\* Seeded fault: the lease is dropped without release_if_active.
FinallyDrops(r) ==
    /\ at[r] = "finally"
    /\ held' = [held EXCEPT ![r] = NoKey]
    /\ released' = [released EXCEPT ![r] = FALSE]
    /\ pc' = [pc EXCEPT ![r] = "idle"]
    /\ UNCHANGED <<keyVars, waiters, callVars, notified, gone, reading>>
    /\ IF exit[r] = "continue" THEN Loop(r) ELSE Return(r)
    /\ exit' = [exit EXCEPT ![r] = "return"]
    /\ UNCHANGED <<roundVars, resultVars, answers, slots, faults>>

\* release_if_active, then on with the loop or out of it.
Finally(r) ==
    /\ at[r] = "finally"
    /\ Finish(r)
    /\ IF exit[r] = "continue" THEN Loop(r) ELSE Return(r)
    /\ exit' = [exit EXCEPT ![r] = "return"]
    /\ UNCHANGED <<roundVars, resultVars, answers, slots, faults>>

-----------------------------------------------------------------------------
\* The environment

ClientLeaves(r) ==
    /\ at[r] \notin {"none", "over"}
    /\ Disconnect(r)
    /\ UNCHANGED handlerVars

TimePasses ==
    /\ Tick
    /\ rest' = [r \in Callers |-> Elapse(rest[r])]
    /\ UNCHANGED <<at, tried, fives, backoff, resultVars, exit, answers, slots,
                   faults>>

\* What a request thread does by itself: none of it waits for another machine.
ThreadStep(r) ==
    \/ TakeSlot(r) \/ LeaveHandler(r)
    \/ CheckRound(r) \/ CheckNextRound(r) \/ BackoffCancelled(r) \/ StartRound(r)
    \/ CallAcquire(r) \/ InAcquire(r) \/ Unserved(r) \/ Recheck(r) \/ Admitted(r)
    \/ Open(r) \/ Decide(r)
    \/ ReleaseWithResult(r) \/ ReleaseWithoutResult(r) \/ Finally(r)

\* What it waits for NVIDIA to do.  The upstream timeout bounds every single
\* read, not the attempt: an answer that trickles in may never be complete.
UpstreamStep(r) ==
    \/ \E kind \in {"dns", "tls", "other"} : AttemptFails(r, kind)
    \/ \E s \in Answers, retryAfter \in RetryAfters : AttemptAnswers(r, s, retryAfter)
    \/ RelayStarts(r)
    \/ \E kind \in {"tls", "other"} : RelayFails(r, kind)

RequestNext ==
    \/ TimePasses
    \/ \E r \in Callers :
           \/ Arrive(r)
           \/ ThreadStep(r)
           \/ UpstreamStep(r)
           \/ RelayEnds(r)
           \/ ClientLeaves(r)

RequestSpec == RequestInit /\ [][RequestNext]_requestVars

\* Threads run and time passes.  Nothing is assumed of NVIDIA or of a client.
RequestFairness ==
    /\ WF_requestVars(TimePasses)
    /\ \A r \in Callers : WF_requestVars(ThreadStep(r))

FairRequestSpec == RequestSpec /\ RequestFairness

-----------------------------------------------------------------------------
\* Properties

Busy(r) == at[r] \notin {"none", "over"}

\* The handler uses the pool as the pool's specification allows, so
\* everything that holds of the pool holds of it here.
UsesThePool == Spec

\* A client never gets a second status line, a request whose response has
\* begun is never tried on another key, and a request that is over was
\* answered, unless its client went away.
OneResponse ==
    \A r \in Callers :
        /\ Len(answers[r]) <= 1
        /\ answers[r] # <<>> => at[r] \in {"relaying", "release", "drop", "finally",
                                           "leaving", "over"}
                               /\ exit[r] = "return"
        /\ at[r] = "over" => answers[r] # <<>> \/ r \in gone

\* Whichever way a pass of the loop is left, the key goes with it: outside
\* the try block a request holds neither a lease nor a queue ticket.
NothingHeldBetweenAttempts ==
    \A r \in Callers :
        at[r] \in {"none", "slot", "top", "round", "backoff", "acquire", "recheck",
                  "leaving", "over"} =>
            /\ pc[r] = "idle" /\ held[r] = NoKey
            /\ \A i \in DOMAIN waiters : waiters[i].owner # r

\* No request of standard mode is sent to the same key twice, and none of the
\* loop twice within a round.
NoKeyTwice ==
    [][\A r \in Callers :
          pc[r] # "leased" /\ pc'[r] = "leased" => held'[r] \notin tried[r]]_requestVars

\* Standard mode: at most max_5xx_failovers attempts that end in a 5xx or in
\* a transport error are followed by another one.
FaultsBounded ==
    ~RetryLoop => \A r \in Callers : faults[r] <= Max5xxFailovers + 1

\* The permits taken are the requests in the loop: none is lost on any way
\* out, none returned twice, and the requests that queue, hold a key or wait
\* between two rounds are never more than the pool has room for.
SlotsMatch ==
    RetryLoop =>
        slots + Cardinality({r \in Callers : at[r] \notin {"none", "slot", "over"}})
            = RetrySlots

\* The loop never ends a request without a word to a client that is there, and
\* gives up for want of a key only when every key is quarantined, whatever
\* other requests do to the keys between its checks.
LoopGivesUpRightly ==
    RetryLoop =>
        \A r \in Callers :
            /\ at[r] = "over" => answers[r] # <<>> \/ r \in gone
            /\ answers[r] = <<"unavailable">> => quarantined = Keys

\* The peers of r do their part: NVIDIA brings the attempts of r and the bodies
\* of their answers to an end, and the client of r reads what it is sent, or
\* goes.  The code guarantees neither (wfile.write has no timeout), so it is the
\* premise of what follows and not part of the fairness.
PeersMove(r) == WF_requestVars(UpstreamStep(r)) /\ WF_requestVars(RelayEnds(r))

\* A standard request whose own peers do their part ends, although the relays of
\* other requests may hang and keep their keys for ever.
RequestEnds == \A r \in Callers : PeersMove(r) => (Busy(r) ~> ~Busy(r))

\* The same of a request of the retry loop when its client is seen to have gone,
\* wherever the request is, although NVIDIA may refuse every attempt.
DepartedLeave ==
    \A r \in Callers : PeersMove(r) => (Busy(r) /\ r \in gone \ Unread ~> ~Busy(r))

\* NVIDIA answers r with a success again and again, if r asks again and again,
\* and not every time with a body that breaks off.
NvidiaRelents(r) ==
    /\ SF_requestVars(\E s \in Answers, retryAfter \in RetryAfters :
                          IsSuccess(s) /\ AttemptAnswers(r, s, retryAfter))
    /\ SF_requestVars(RelayStarts(r))

\* The loop does not give NVIDIA up: no wait in it has a deadline, but when the
\* peers of all requests do their part, a request that NVIDIA would serve in the
\* end is served.  It neither waits for ever for a key nor goes round without
\* an attempt.
LoopSucceeds ==
    (\A s \in Callers : PeersMove(s)) =>
        \A r \in Callers : NvidiaRelents(r) => (Busy(r) ~> ~Busy(r))

\* When standard failover is exhausted the client sees NVIDIA's last answer
\* and not an error of the proxy's.
LastAnswerReturned ==
    ~RetryLoop =>
        \A r \in Callers : answers[r] = <<"unavailable">> => status[r] = NoStatus

\* A key that was refused authorization is in quarantine when its lease has
\* been released.
RefusedKeyQuarantined ==
    \A r \in Callers :
        at[r] = "finally" /\ released[r] /\ status[r] \in QuarantineStatuses =>
            held[r] \in quarantined
=============================================================================
