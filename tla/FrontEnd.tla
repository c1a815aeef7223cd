------------------------------- MODULE FrontEnd -------------------------------
(***************************************************************************)
(* NIMProxyHandler.do_GET and do_POST (nvidia_nim_proxy/server.py): one    *)
(* HTTP request of a client, up to the point where a chat completion is    *)
(* handed to the scheduler or to the pool.                                 *)
(*                                                                         *)
(* Of a request body, two views are taken: how its objects and arrays are  *)
(* nested, which validate_json_depth looks at (a sequence that gives the   *)
(* container that each container is in, 0 for the body itself), and the    *)
(* fields that the sanitizer looks at.                                     *)
(***************************************************************************)
EXTENDS Startup, Sanitizer, ClientConnection

CONSTANTS
    Nestings,      \* how a body may be nested
    MaxJsonDepth,  \* MAX_JSON_DEPTH
    Bodies         \* the fields that a body may have

ASSUME FrontEndAssumption ==
    /\ MaxJsonDepth \in Nat \ {0}
    /\ Nestings \subseteq Seq(Nat)
    /\ \A nesting \in Nestings :
           /\ nesting # <<>> /\ nesting[1] = 0
           /\ \A i \in 2 .. Len(nesting) : nesting[i] \in 1 .. i - 1

VARIABLES
    step,       \* where the handler is
    token,      \* the bearer token of the request
    nesting,    \* of the body
    frames,     \* iterators over the containers that are open
    body,       \* the fields of the body
    profile,    \* that of its model
    sent,       \* the body that is sent to NVIDIA
    streams,    \* it asks for a stream
    key         \* the key that it is sent with

bodyVars == <<nesting, frames, body, profile, sent>>
frontVars == <<step, token, clientVars, bodyVars, streams, key>>

NoBody == Body([f \in {} |-> Missing], NoSource, NoSource, NoSource)

NoBodyYet ==
    /\ nesting = <<>>
    /\ frames = <<>>
    /\ body = NoBody
    /\ profile = NoProfile
    /\ sent = NoBody

NoRequest ==
    /\ step = "none"
    /\ token = NoKey
    /\ NoClient
    /\ NoBodyYet
    /\ streams = FALSE
    /\ key = NoKey

\* A response of the proxy's own ends the request.
Answer(what) == Respond(what) /\ step' = "over"

\* The locals of the handler end with it.
ForgetBody ==
    /\ nesting' = <<>>
    /\ frames' = <<>>
    /\ body' = NoBody
    /\ profile' = NoProfile
    /\ sent' = NoBody

Forget ==
    /\ ForgetBody
    /\ token' = NoKey
    /\ streams' = FALSE
    /\ key' = NoKey

-----------------------------------------------------------------------------
\* A request comes in, on a connection of its own.
Receive ==
    /\ server = "serving"
    /\ step \in {"none", "over"}
    /\ step' \in {"health", "models", "chat", "other"}
    /\ token' \in Keys \cup {NoKey}
    /\ responses' = <<>> /\ gone' = FALSE
    /\ ForgetBody
    /\ UNCHANGED <<streams, key>>

\* authorize_pool_client, and the client's own key in Client mode.
Authorized ==
    CASE config.mode = "pool" -> token # NoKey /\ token = config.clientKey
      [] config.mode = "client" -> token # NoKey
      [] OTHER -> TRUE

\* do_GET, and a path that the proxy does not have
AnswerHealth == step = "health" /\ Answer("ok") /\ Forget

AnswerOther == step = "other" /\ Answer("error") /\ Forget

\* The worker may have published a list by now or not.
AnswerModels ==
    /\ step = "models"
    /\ \E published \in BOOLEAN :
           /\ published => worker = "running"
           /\ Answer(IF Authorized /\ published THEN "ok" ELSE "error")
    /\ Forget

-----------------------------------------------------------------------------
\* _read_json_body

\* The containers in a container.
Inside(parents, i) == {j \in DOMAIN parents : parents[j] = i}

\* No Content-Length, one that is no number or out of bounds, or a body that
\* is no JSON object.
BodyUnreadable == step = "chat" /\ Answer("error") /\ Forget

ReadBody ==
    /\ step = "chat"
    /\ nesting' \in Nestings
    /\ frames' = <<Inside(nesting', 1)>>
    /\ step' = "depth"
    /\ UNCHANGED <<token, clientVars, body, profile, sent, streams, key>>

\* The connection breaks in the middle of the body.
BodyBreaks ==
    /\ step = "chat"
    /\ gone
    /\ step' = "over"
    /\ UNCHANGED <<token, clientVars, bodyVars, streams, key>>

\* The next container that the innermost open one has.
NextInside == Min(Last(frames))

MayDescend == Len(frames) < MaxJsonDepth

\* validate_json_depth: into the next container, or out of one.
Descend ==
    /\ step = "depth"
    /\ frames # <<>> /\ Last(frames) # {}
    /\ MayDescend
    /\ frames' = Append([frames EXCEPT ![Len(frames)] = @ \ {NextInside}],
                        Inside(nesting, NextInside))
    /\ UNCHANGED <<step, token, clientVars, nesting, body, profile, sent, streams, key>>

Ascend ==
    /\ step = "depth"
    /\ frames # <<>> /\ Last(frames) = {}
    /\ frames' = Front(frames)
    /\ UNCHANGED <<step, token, clientVars, nesting, body, profile, sent, streams, key>>

TooDeep ==
    /\ step = "depth"
    /\ frames # <<>> /\ Last(frames) # {}
    /\ ~MayDescend
    /\ Answer("too deep")
    /\ UNCHANGED <<token, bodyVars, streams, key>>

-----------------------------------------------------------------------------
\* sanitize_chat_completion_body
Sanitize ==
    /\ step = "depth"
    /\ frames = <<>>
    /\ body' \in Bodies
    /\ profile' \in Profiles
    /\ sent' = Sanitized(body', profile')
    /\ step' = "forward"
    /\ UNCHANGED <<token, clientVars, nesting, frames, streams, key>>

\* _forward_to_nim: the pool's own client, a key of the client's, or the one
\* of the environment.  The key of a pool request is chosen later on.  Bodies with
\* the field stream stand for those in which it is true.
Forward ==
    /\ step = "forward"
    /\ Authorized /\ config.keys # {Blank}
    /\ key' = CASE config.mode = "env" -> CHOOSE k \in config.keys : TRUE
                [] config.mode = "client" -> token
                [] OTHER -> NoKey
    /\ step' = "queue"
    /\ streams' = ("stream" \in DOMAIN sent.plain)
    /\ ForgetBody
    /\ UNCHANGED <<token, clientVars>>

NotForwarded ==
    /\ step = "forward"
    /\ ~Authorized \/ config.keys = {Blank}
    /\ Answer("error") /\ Forget

ClientLeaves ==
    /\ step \notin {"none", "over"}
    /\ gone' = TRUE
    /\ UNCHANGED <<step, token, responses, bodyVars, streams, key>>

FrontStep ==
    \/ AnswerHealth \/ AnswerOther \/ AnswerModels
    \/ BodyUnreadable \/ ReadBody \/ BodyBreaks
    \/ Descend \/ Ascend \/ TooDeep
    \/ Sanitize \/ Forward \/ NotForwarded

-----------------------------------------------------------------------------
\* Properties

\* How deep each container is nested, and the body as a whole.
Depths(parents) ==
    LET depth[i \in DOMAIN parents] == IF i = 1 THEN 1 ELSE 1 + depth[parents[i]]
    IN depth
Depth(parents) == Max({Depths(parents)[i] : i \in DOMAIN parents})

\* A body is refused for its nesting if and only if it is nested too deeply,
\* and what is forwarded has been sanitized as it should be.
BodyRight ==
    /\ responses = <<"too deep">> => Depth(nesting) > MaxJsonDepth
    /\ step = "forward" => Depth(nesting) <= MaxJsonDepth
    /\ step = "forward" => SanitizedRight(body, profile, sent)

\* NVIDIA gets a key of NVIDIA's: the one of the environment from a server
\* that only this machine can reach, the client's own, or for the pool's
\* client one of the pool's, and never the key that the proxy itself is used
\* with.
RightKey ==
    step \in {"upstream", "relay"} =>
        /\ key \notin {NoKey, Blank}
        /\ config.mode = "env" => config.loopback /\ key \in config.keys
        /\ config.mode = "client" => key = token
        /\ config.mode = "pool" =>
               key \in config.keys /\ token = config.clientKey /\ key # token
=============================================================================
