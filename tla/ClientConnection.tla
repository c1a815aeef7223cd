--------------------------- MODULE ClientConnection ---------------------------
(***************************************************************************)
(* What a request thread does to its client, and the client to it          *)
(* (nvidia_nim_proxy/server.py).                                           *)
(***************************************************************************)
EXTENDS Sequences

VARIABLES
    responses,  \* responses begun towards the client
    gone        \* the client has closed its connection

clientVars == <<responses, gone>>

NoClient == responses = <<>> /\ gone = FALSE

\* Status line and headers of a response, and the flag that tells that there
\* is one (_begin_client_response); that the client has gone is swallowed.
Respond(what) == responses' = Append(responses, what) /\ UNCHANGED gone

\* _client_response_has_started
Started == responses # <<>>
=============================================================================
