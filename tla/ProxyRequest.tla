----------------------------- MODULE ProxyRequest -----------------------------
(***************************************************************************)
(* The proxy from its start to the last byte of a client's request:        *)
(* main, the front end, a scheduler or a pool of which only the outcome is *)
(* shown here (PoolRequest and DirectRequest have the rest), and the relay.*)
(***************************************************************************)
EXTENDS FrontEnd, Relay

proxyVars == <<startupVars, frontVars, relayVars>>

ProxyInit == Down /\ NoRequest /\ Idle

ProcessStep ==
    /\ Build \/ Listen \/ StartWorker
    /\ UNCHANGED <<frontVars, relayVars>>

\* The threads of requests are daemons and end with the process.
ProcessEnds ==
    /\ Exit
    /\ step' = "none"
    /\ responses' = <<>> /\ gone' = FALSE
    /\ Forget
    /\ LeaveRelay

FrontEndStep ==
    /\ Receive \/ FrontStep \/ ClientLeaves
    /\ UNCHANGED <<startupVars, relayVars>>

-----------------------------------------------------------------------------
\* Between the front end and the relay

\* Queue full, no key, or the wait has timed out.
Unserved ==
    /\ step = "queue"
    /\ Answer("error") /\ Forget
    /\ UNCHANGED <<startupVars, relayVars>>

\* The client is found gone before an attempt, or in Pool mode after it.
Cancelled ==
    /\ gone
    /\ step \in IF config.mode = "pool" THEN {"queue", "upstream"} ELSE {"queue"}
    /\ step' = "over" /\ Forget
    /\ UNCHANGED <<startupVars, relayVars, clientVars>>

Attempt ==
    /\ step = "queue"
    /\ key' \in IF config.mode = "pool" THEN config.keys ELSE {key}
    /\ step' = "upstream"
    /\ UNCHANGED <<startupVars, relayVars, token, clientVars, bodyVars, streams>>

\* No answer, and no other key to try.
AttemptFails ==
    /\ step = "upstream"
    /\ Answer("error") /\ Forget
    /\ UNCHANGED <<startupVars, relayVars>>

\* NVIDIA answers, and the answer is to be relayed.
AttemptAnswers ==
    /\ step = "upstream"
    /\ \E ok \in BOOLEAN :
           CallRelay(ok, config.diagnostic, streams)
    /\ step' = "relay"
    /\ UNCHANGED <<startupVars, token, clientVars, bodyVars, streams, key>>

Relays ==
    /\ step = "relay"
    /\ RelayStep
    /\ UNCHANGED <<startupVars, step, token, bodyVars, streams, key>>

\* The pool tries another key: instead of relaying the answer, or when it
\* could not be read and nothing has been sent.
FailOver ==
    /\ config.mode = "pool"
    /\ \/ step = "upstream"
       \/ /\ step = "relay"
          /\ doing = "raised" /\ success /\ ~Started
    /\ step' = "queue"
    /\ key' = NoKey
    /\ LeaveRelay
    /\ UNCHANGED <<startupVars, token, clientVars, bodyVars, streams>>

RelayReturns ==
    /\ step = "relay" /\ doing = "done"
    /\ step' = "over" /\ Forget
    /\ LeaveRelay
    /\ UNCHANGED <<startupVars, clientVars>>

\* Seeded fault: the client gets an error in any case.
RelayRaisesAnswered ==
    /\ step = "relay" /\ doing = "raised"
    /\ Answer("error") /\ Forget
    /\ LeaveRelay
    /\ UNCHANGED startupVars

\* _handle_relay_transport_error
RelayRaises ==
    /\ step = "relay" /\ doing = "raised"
    /\ IF Started THEN step' = "over" /\ UNCHANGED clientVars ELSE Answer("error")
    /\ Forget
    /\ LeaveRelay
    /\ UNCHANGED startupVars

ProxyNext ==
    \/ ProcessStep \/ ProcessEnds \/ FrontEndStep
    \/ Unserved \/ Cancelled \/ Attempt \/ AttemptFails \/ AttemptAnswers
    \/ Relays \/ FailOver \/ RelayReturns \/ RelayRaises

ProxySpec == ProxyInit /\ [][ProxyNext]_proxyVars

-----------------------------------------------------------------------------
\* Properties

\* The start-up has let no process serve, and no worker run, that must not: see
\* PortFirst of Startup and RightKey of FrontEnd.
ServedRight == PortFirst /\ RightKey

Phase ==
    IF step \in {"none", "over"} THEN step
    ELSE IF Started THEN "begun" ELSE "open"

Contract == INSTANCE RequestContract WITH phase <- Phase

\* Whatever NVIDIA and the client do, a request is answered with one status
\* line, unless the client has gone or the process ends, and is never tried
\* again once its response has begun.
ImplementsContract == Contract!Spec
=============================================================================
