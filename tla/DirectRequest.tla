---------------------------- MODULE DirectRequest ----------------------------
(***************************************************************************)
(* One chat completion request in Env or Client mode                       *)
(* (nvidia_nim_proxy/server.py, _forward_direct and                        *)
(* _perform_direct_attempt), run by every request thread against the       *)
(* shared RequestScheduler: one key, one attempt, no failover.             *)
(***************************************************************************)
EXTENDS Scheduler

VARIABLES
    at,      \* where the thread is in the handler
    answers  \* responses begun towards the client

requestVars == <<vars, at, answers>>

\* The handler passes its probe to acquire.
ASSUME DirectAssumption == Cancellable

RequestInit ==
    /\ Init
    /\ at = [r \in Callers |-> "none"]
    /\ answers = [r \in Callers |-> <<>>]

Goto(r, place) == at' = [at EXCEPT ![r] = place]

Answer(r, what) == answers' = [answers EXCEPT ![r] = Append(@, what)]

\* A request with a key arrives, on a connection that is open.
Arrive(r) ==
    /\ at[r] \in {"none", "over"}
    /\ gone' = gone \ {r}
    /\ answers' = [answers EXCEPT ![r] = <<>>]
    /\ Goto(r, "acquire")
    /\ UNCHANGED <<laneVars, pc, key, callVars, notified, released, reading>>

CallAcquire(r) ==
    /\ at[r] = "acquire"
    /\ \E f \in Keys, m \in Models : BeginAcquire(r, f, m)
    /\ Goto(r, "acquiring")
    /\ UNCHANGED answers

InAcquire(r) ==
    /\ at[r] = "acquiring"
    /\ Enter(r) \/ Resume(r)
    /\ UNCHANGED <<at, answers>>

\* Seeded fault: a timeout is not answered.
UnservedSilentTimeout(r) ==
    /\ at[r] = "acquiring"
    /\ Catch(r)
    /\ Goto(r, "over")
    /\ IF pc[r] \in {"cancelled", "timeout"} THEN UNCHANGED answers ELSE Answer(r, pc[r])

\* acquire raised: the client is gone, or gets an error.
Unserved(r) ==
    /\ at[r] = "acquiring"
    /\ Catch(r)
    /\ Goto(r, "over")
    /\ IF pc[r] = "cancelled" THEN UNCHANGED answers ELSE Answer(r, pc[r])

\* acquire returned a lease; the client is probed before the attempt.
Admitted(r) ==
    /\ at[r] = "acquiring"
    /\ pc[r] = "leased"
    /\ Goto(r, IF Probe(r) THEN "release" ELSE "open")
    /\ UNCHANGED <<vars, answers>>

Open(r) ==
    /\ at[r] = "open"
    /\ Goto(r, "upstream")
    /\ UNCHANGED <<vars, answers>>

\* NVIDIA answers; whatever the status, the answer is relayed.
AttemptAnswers(r) ==
    /\ at[r] = "upstream"
    /\ Goto(r, "relay")
    /\ UNCHANGED <<vars, answers>>

\* _handle_relay_transport_error: nothing has been sent yet, so the client
\* gets an error of the proxy's.
Fails(r) ==
    /\ at[r] \in {"upstream", "relay"}
    /\ Answer(r, "failed")
    /\ Goto(r, "release")
    /\ UNCHANGED vars

\* _relay_upstream_response begins the client's response.
RelayStarts(r) ==
    /\ at[r] = "relay"
    /\ Answer(r, "relayed")
    /\ Goto(r, "relaying")
    /\ UNCHANGED vars

\* Relayed to the end, or broken off on either side.
RelayEnds(r) ==
    /\ at[r] = "relaying"
    /\ Goto(r, "release")
    /\ UNCHANGED <<vars, answers>>

\* lease.release() of the `finally'
ReleaseSlot(r) ==
    /\ at[r] = "release"
    /\ Release(r)
    /\ Goto(r, "drop")
    /\ UNCHANGED answers

DropLease(r) ==
    /\ at[r] = "drop"
    /\ Drop(r)
    /\ Goto(r, "over")
    /\ UNCHANGED answers

ClientLeaves(r) ==
    /\ at[r] \notin {"none", "over"}
    /\ Disconnect(r)
    /\ UNCHANGED <<at, answers>>

TimePasses ==
    /\ Tick
    /\ UNCHANGED <<at, answers>>

\* What a request thread does by itself: none of it waits for another machine.
ThreadStep(r) ==
    \/ CallAcquire(r) \/ InAcquire(r) \/ Unserved(r) \/ Admitted(r)
    \/ Open(r) \/ ReleaseSlot(r) \/ DropLease(r)

\* What it waits for NVIDIA to do.  The upstream timeout bounds every single
\* read, not the attempt.
UpstreamStep(r) == AttemptAnswers(r) \/ Fails(r) \/ RelayStarts(r)

RequestNext ==
    \/ TimePasses
    \/ \E r \in Callers :
           Arrive(r) \/ ThreadStep(r) \/ UpstreamStep(r) \/ RelayEnds(r) \/ ClientLeaves(r)

RequestSpec == RequestInit /\ [][RequestNext]_requestVars

\* Threads run and time passes.  Nothing is assumed of NVIDIA or of a client.
RequestFairness ==
    /\ WF_requestVars(TimePasses)
    /\ \A r \in Callers : WF_requestVars(ThreadStep(r))

FairRequestSpec == RequestSpec /\ RequestFairness

-----------------------------------------------------------------------------
\* Properties

\* NVIDIA never sees more than max_concurrent_per_key requests of one key at a
\* time, from the opening of an attempt to the end of its relay.
KeyNeverOverloaded ==
    \A f \in Keys :
        Cardinality({r \in Callers : key[r] = f
                        /\ at[r] \in {"open", "upstream", "relay", "relaying"}})
            <= MaxConcurrentPerKey

\* A request that is over was answered once, unless its client went away, and
\* has left neither a lease nor a ticket behind.
CleanEnd ==
    \A r \in Callers :
        /\ Len(answers[r]) <= 1
        /\ at[r] \in {"none", "over"} =>
               /\ at[r] = "over" => answers[r] # <<>> \/ r \in gone
               /\ pc[r] = "idle"
               /\ \A l \in Lanes : \A i \in DOMAIN waiters[l] : waiters[l][i].owner # r

\* NVIDIA brings the attempt of r and the body of its answer to an end, and the
\* client of r reads what it is sent, or goes.  The code guarantees neither
\* (wfile.write has no timeout), so it is the premise of RequestEnds.
PeersMove(r) == WF_requestVars(UpstreamStep(r)) /\ WF_requestVars(RelayEnds(r))

\* A request whose own peers do their part ends, although the relays of other
\* requests may hang and keep their leases for ever.
RequestEnds ==
    \A r \in Callers :
        PeersMove(r) => (at[r] \notin {"none", "over"} ~> at[r] \in {"none", "over"})
=============================================================================
