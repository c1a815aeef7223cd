------------------------------ MODULE Sanitizer -------------------------------
(***************************************************************************)
(* sanitize_chat_completion_body (nvidia_nim_proxy/sanitizer.py) with the  *)
(* reasoning profiles (model_profiles.py), for a provider that is NVIDIA:  *)
(* what becomes of the fields of a request body.                           *)
(*                                                                         *)
(* A body has plain fields, which are copied or not, and places where it   *)
(* may ask for a reasoning effort: itself and two SDK wrappers, each with  *)
(* a field of its own and one in a chat template.                          *)
(***************************************************************************)
EXTENDS Integers, FiniteSets

CONSTANTS
    SafeFields,  \* NVIDIA_NIM_SAFE_CHAT_FIELDS
    Profiles     \* NVIDIA_REASONING_PROFILES, and NoProfile for other models

\* What a field is that is absent.
Missing == "missing"

\* Where the effort is sent, the efforts that are allowed, the one that is
\* sent by default, and the safe fields that are not sent.
Profile(location, efforts, default, excluded) ==
    [location |-> location, efforts |-> efforts, default |-> default,
     excluded |-> excluded]

NoProfile == Profile("nowhere", {}, Missing, {})

ASSUME SanitizerAssumption ==
    /\ "max_tokens" \in SafeFields /\ "max_completion_tokens" \notin SafeFields
    /\ \A profile \in Profiles :
           /\ profile.default \in profile.efforts \cup {Missing}
                  \/ profile.location = "provider_default"
           /\ "max_tokens" \notin profile.excluded
           /\ Missing \notin profile.efforts
           /\ profile.location = "chat_template" => {"none", profile.default} \subseteq profile.efforts

\* An object that may ask for an effort: its reasoning_effort, and thinking
\* and reasoning_effort of its chat_template_kwargs, each Missing if absent or
\* in something that is no object.  An object's other fields are left out.
Source(effort, thinking, templateEffort) ==
    [effort |-> effort, thinking |-> thinking, templateEffort |-> templateEffort]

NoSource == Source(Missing, Missing, Missing)

Body(plain, own, extra_body, extraBody) ==
    [plain |-> plain, own |-> own, extra_body |-> extra_body, extraBody |-> extraBody]

-----------------------------------------------------------------------------
\* _requested_effort

\* thinking = false asks for no effort, of a model that has a template.
Asks(source, profile) ==
    IF source.effort # Missing THEN source.effort
    ELSE IF profile.location = "chat_template" /\ source.thinking = "false" THEN "none"
    ELSE source.templateEffort

\* Seeded fault: the wrappers are heard before the body itself.
RequestedWrapperFirst(body, profile) ==
    LET asked == <<Asks(body.extra_body, profile), Asks(body.extraBody, profile),
                   Asks(body.own, profile)>>
    IN IF \A i \in 1 .. 3 : asked[i] = Missing THEN Missing
       ELSE asked[CHOOSE i \in 1 .. 3 :
                      asked[i] # Missing /\ \A j \in 1 .. i - 1 : asked[j] = Missing]

\* The first source that asks is the one that is heard.
Requested(body, profile) ==
    LET asked == <<Asks(body.own, profile), Asks(body.extra_body, profile),
                   Asks(body.extraBody, profile)>>
    IN IF \A i \in 1 .. 3 : asked[i] = Missing THEN Missing
       ELSE asked[CHOOSE i \in 1 .. 3 :
                      asked[i] # Missing /\ \A j \in 1 .. i - 1 : asked[j] = Missing]

\* A choice that the model does not allow counts like none.
Effort(body, profile) ==
    IF Requested(body, profile) \in profile.efforts
      THEN Requested(body, profile) ELSE profile.default

-----------------------------------------------------------------------------
\* sanitize_chat_completion_body

KeptFields(plain, profile) == (DOMAIN plain \cap SafeFields) \ profile.excluded

\* max_completion_tokens is sent as max_tokens.
Renamed(plain) ==
    "max_tokens" \notin DOMAIN plain /\ "max_completion_tokens" \in DOMAIN plain

CleanedPlain(plain, profile) ==
    [f \in KeptFields(plain, profile)
               \cup (IF Renamed(plain) THEN {"max_tokens"} ELSE {}) |->
        IF f \in DOMAIN plain THEN plain[f] ELSE plain["max_completion_tokens"]]

\* _apply_reasoning_profile
CleanedOwn(body, profile) ==
    LET effort == Effort(body, profile)
    IN CASE profile.location = "body" -> Source(effort, Missing, Missing)
         [] profile.location = "chat_template" ->
                IF effort = "none" THEN Source(Missing, "false", Missing)
                ELSE Source(Missing, "true", effort)
         [] OTHER -> NoSource

Sanitized(body, profile) ==
    Body(CleanedPlain(body.plain, profile), CleanedOwn(body, profile), NoSource, NoSource)

-----------------------------------------------------------------------------
\* Properties

\* The effort that is sent for a model that takes one.
SentEffort(sent, profile) ==
    IF profile.location = "body" THEN sent.own.effort
    ELSE IF sent.own.thinking = "false" THEN "none" ELSE sent.own.templateEffort

\* A source that says nothing of an effort, in any of its places.
Silent(source, profile) ==
    /\ source.effort = Missing /\ source.templateEffort = Missing
    /\ ~(profile.location = "chat_template" /\ source.thinking = "false")

\* What is sent is what NVIDIA takes: nothing of it is changed by sanitizing
\* it again.  No safe field is lost, and the client's budget is kept under
\* either name.  An allowed effort that the client asks for is sent unless the
\* client says something else of it in a place that goes before: the body's own
\* field, the body's template, extra_body, extraBody.
SanitizedRight(body, profile, sent) ==
    /\ Sanitized(sent, profile) = sent
    /\ DOMAIN sent.plain \subseteq SafeFields \ profile.excluded
    /\ \A f \in KeptFields(body.plain, profile) : sent.plain[f] = body.plain[f]
    /\ Renamed(body.plain) => sent.plain["max_tokens"] = body.plain["max_completion_tokens"]
    /\ profile.location \in {"body", "chat_template"} =>
           /\ SentEffort(sent, profile) \in profile.efforts \cup {profile.default}
           /\ body.own.effort \in profile.efforts => SentEffort(sent, profile) = body.own.effort
           /\ /\ body.own.effort = Missing
              /\ profile.location = "chat_template" /\ body.own.thinking = "false"
              => SentEffort(sent, profile) = "none"
           /\ Silent(body.own, profile) /\ body.extra_body.effort \in profile.efforts
              => SentEffort(sent, profile) = body.extra_body.effort
           /\ /\ Silent(body.own, profile) /\ Silent(body.extra_body, profile)
              /\ body.extraBody.effort \in profile.efforts
              => SentEffort(sent, profile) = body.extraBody.effort
=============================================================================
