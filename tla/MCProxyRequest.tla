---------------------------- MODULE MCProxyRequest ----------------------------
(***************************************************************************)
(* Constants for model checking ProxyRequest: start-ups of every kind, the *)
(* nestings of up to four containers, bodies that ask for an effort in     *)
(* every place, and streams of up to three events.                         *)
(***************************************************************************)
EXTENDS ProxyRequest

CONSTANTS k1, k2, own

MCKeys == {k1, own}

MCSettings ==
    [mode : {"env", "client", "pool"}, loop : BOOLEAN,
     envKey : {NoKey, Blank, k1}, clientKey : {NoKey, Blank, k1, own},
     poolKeys : {<<>>, <<k1, Blank>>, <<k1, k1>>, <<k1, k2>>},
     loopback : BOOLEAN, allowRemote : BOOLEAN,
     discovery : {"off", "on", "too often"}, upstream : {"public", "other", "invalid"},
     sync : {"off", "json", "not json"}, diagnostic : BOOLEAN]

MCNestings ==
    {<<0>>, <<0, 1>>} \cup {<<0, 1, i>> : i \in 1 .. 2}
        \cup {<<0, 1, i, j>> : i \in 1 .. 2, j \in 1 .. 3}

MCSafeFields == {"max_tokens", "top_p", "stream"}

MCProfiles ==
    {NoProfile,
     Profile("body", {"low", "high"}, "high", {"top_p"}),
     Profile("body", {"low", "high"}, Missing, {}),
     Profile("chat_template", {"none", "high"}, "high", {}),
     Profile("provider_default", {}, "high", {})}

Plain(fields) == [f \in fields |-> "value of " \o f]

MCBodies ==
    LET sources == {NoSource, Source("low", "false", "high"), Source("bad", "false", "high"),
                    Source(Missing, "false", "high"), Source(Missing, "true", "low")}
    IN {Body(Plain(fields), o, e, E) :
            fields \in {{"stream", "top_p"}, {"max_completion_tokens", "vendor"},
                        {"max_tokens", "max_completion_tokens", "stream"}},
            o \in sources, e \in sources, E \in {NoSource, Source("high", Missing, Missing)}}

MCEvents ==
    {[choice |-> 0, part |-> p, size |-> 1] : p \in {"head", "tail"}}
        \cup {[choice |-> 1, part |-> "tail", size |-> 1],
              [choice |-> 1, part |-> "whole", size |-> 2],
              [choice |-> 0, part |-> "text", size |-> 3]}
=============================================================================
