--------------------------- MODULE RequestContract ----------------------------
(***************************************************************************)
(* What an HTTP request to the proxy promises its client: one status line, *)
(* and silence only towards a client that has gone or when the process     *)
(* ends.                                                                   *)
(***************************************************************************)
EXTENDS Sequences

VARIABLES
    phase,      \* of the request: none, open, begun or over
    responses,  \* the responses begun
    gone        \* the client has closed its connection

vars == <<phase, responses, gone>>

NoRequest ==
    /\ phase = "none"
    /\ responses = <<>>
    /\ gone = FALSE

Receive ==
    /\ phase \in {"none", "over"}
    /\ phase' = "open"
    /\ responses' = <<>>
    /\ gone' = FALSE

\* A short response is begun and ended in one step.
BeginResponse ==
    /\ phase = "open"
    /\ Len(responses') = 1
    /\ phase' \in {"begun", "over"}
    /\ gone' = gone

EndResponse ==
    /\ phase = "begun"
    /\ phase' = "over"
    /\ UNCHANGED <<responses, gone>>

GiveUp ==
    /\ phase = "open"
    /\ gone
    /\ phase' = "over"
    /\ UNCHANGED <<responses, gone>>

ClientLeaves ==
    /\ gone' = TRUE
    /\ UNCHANGED <<phase, responses>>

ProcessEnds == NoRequest'

Next ==
    \/ Receive \/ BeginResponse \/ EndResponse \/ GiveUp
    \/ ClientLeaves \/ ProcessEnds

Spec == NoRequest /\ [][Next]_vars
=============================================================================
