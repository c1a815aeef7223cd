------------------------------ MODULE ProxyProofs ------------------------------
(***************************************************************************)
(* Proofs about ProxyRequest: a request from the start of the process to   *)
(* its last byte, for all settings and keys, every body and limit of its   *)
(* nesting, every reasoning profile, every stream and all limits of the    *)
(* scan.                                                                   *)
(***************************************************************************)
EXTENDS ProxyRequest, FiniteSetTheorems, WellFoundedInduction, TLAPS

-----------------------------------------------------------------------------
\* The inductive invariant

\* A process that is up has settings that were accepted.
ConfigRight ==
    /\ config.mode \in {"env", "client", "pool"}
    /\ config.mode = "env" => config.loopback /\ \E k : config.keys = {k} /\ k # NoKey
    /\ config.mode = "pool" => config.keys \cap {NoKey, Blank, config.clientKey} = {}

StartInv ==
    /\ server \in {"down", "built", "bound", "serving"}
    /\ server # "down" => ConfigRight
    /\ worker = "running" => server = "serving"

\* What the client and the configuration have decided about a request that is
\* on its way to NVIDIA.
KeyInv ==
    /\ token \in Keys \cup {NoKey}
    /\ step \in {"queue", "upstream", "relay"} =>
           /\ config.mode = "env" => key \in config.keys \ {Blank}
           /\ config.mode = "client" => key = token /\ token # NoKey
           /\ config.mode = "pool" => token = config.clientKey
    /\ step \in {"upstream", "relay"} /\ config.mode = "pool" => key \in config.keys

Places == {"none", "health", "models", "other", "chat", "depth", "forward", "queue",
           "upstream", "relay", "over"}

AnswerInv ==
    /\ step \in Places
    /\ step \notin {"none", "over"} => server = "serving"
    /\ step \notin {"relay", "over"} => responses = <<>>
    /\ step = "relay" => responses \in {<<>>, <<"relayed">>, <<"diagnostic">>}
    /\ step = "relay" <=> doing # "idle"

\* The walk over the body: frames[k] holds containers of depth k + 1, whatever has
\* been visited is not too deep, and what is in it has been visited or will be.
WalkInv ==
    step = "depth" =>
        /\ nesting \in Nestings
        /\ frames \in Seq(SUBSET DOMAIN nesting)
        /\ Len(frames) <= MaxJsonDepth
        /\ \A k \in 1 .. Len(frames) : \A j \in frames[k] : Depths(nesting)[j] = k + 1
        /\ \E visited \in SUBSET DOMAIN nesting :
               /\ 1 \in visited
               /\ \A i \in visited : Depths(nesting)[i] <= MaxJsonDepth
               /\ \A i \in DOMAIN nesting \ {1} :
                      nesting[i] \in visited =>
                          i \in visited \/ \E k \in 1 .. Len(frames) : i \in frames[k]

\* What the walk and the sanitizer have come to.
BodyInv ==
    /\ responses = <<"too deep">> => step = "over" /\ Depth(nesting) > MaxJsonDepth
    /\ step = "forward" =>
           /\ Depth(nesting) <= MaxJsonDepth
           /\ profile \in Profiles /\ sent = Sanitized(body, profile)

Bytes(n) == [i \in 1 .. n |-> i]

\* The first n bytes, all of them sent or all of them held.
SentOrHeld(n) ==
    \/ written = Bytes(n) /\ buffered = <<>>
    \/ written = <<>> /\ buffered = Bytes(n)

\* How many events the first b bytes of a stream hold in full, which these are, and
\* which of them are to be scanned: the operators of Relay with the stream, and the
\* bytes that have arrived, as arguments.
Whole(evs, b) == {n \in 0 .. Len(evs) : SizeOf(SubSeq(evs, 1, n)) <= b}
Count(evs, b) == Max(Whole(evs, b))
First(evs, b) == SubSeq(evs, 1, Count(evs, b))
Scanned(evs, b) ==
    LET first == First(evs, Min({b, MaxScanBytes}))
    IN  SubSeq(first, 1, Min({MaxScanEvents, Len(first)}))

Streams == BoundedSeq(Events, MaxEvents)

\* The bytes are where they should be, and no response is begun too early.
BytesInv ==
    /\ arrived \in Nat
    /\ events \in Streams
    /\ doing \in {"idle", "whole", "scan", "begin", "begin and end", "stream", "diagnose",
                  "raised", "done"}
    /\ doing \in {"idle", "whole"} => arrived = 0 /\ written = <<>> /\ buffered = <<>>
    /\ doing \in {"scan", "begin", "begin and end", "diagnose"} =>
           buffered = Bytes(arrived) /\ written = <<>>
    /\ doing = "raised" => \E n \in Nat : SentOrHeld(n)
    /\ doing \in {"whole", "scan", "begin", "begin and end", "diagnose"} => responses = <<>>
    /\ doing = "stream" =>
           responses = <<"relayed">> /\ written = Bytes(arrived) /\ buffered = <<>>
    /\ doing = "done" =>
           /\ buffered = <<>>
           /\ \/ responses = <<"relayed">> /\ written = Bytes(arrived)
              \/ responses = <<"diagnostic">> /\ written = <<>>

\* The scan of a stream has seen all that it may see, and no markup.
ScanOver(evs, a) ==
    \E b \in Nat :
        /\ b <= a /\ b <= MaxScanBytes
        /\ ~Leak(First(evs, b))
        /\ b = MaxScanBytes \/ Count(evs, b) >= MaxScanEvents

\* What the scan has found out.
MarkupInv ==
    /\ doing = "scan" =>
           /\ Inspects /\ arrived <= MaxScanBytes
           /\ arrived = 0 \/ ~Leak(First(events, arrived))
    /\ doing \in {"begin", "stream"} /\ Inspects => ScanOver(events, arrived)
    /\ doing = "begin and end" /\ Inspects =>
           arrived = 0 \/ ~Leak(Scanned(events, arrived))
    /\ doing = "diagnose" => Inspects /\ Leak(First(events, arrived))
    /\ doing = "done" /\ responses = <<"diagnostic">> =>
           Inspects /\ Leak(First(events, arrived))
    /\ doing \in {"done", "raised"} /\ Inspects /\ Leak(Scanned(events, arrived)) =>
           written = <<>>

RelayInv == BytesInv /\ MarkupInv

ProxyInv == StartInv /\ KeyInv /\ AnswerInv /\ RelayInv /\ WalkInv /\ BodyInv

-----------------------------------------------------------------------------
\* Numbers

LessThan == {pair \in Nat \X Nat : pair[1] < pair[2]}

\* The order of the natural numbers is well founded.
LEMMA LessThanWellFounded == IsWellFoundedOn(LessThan, Nat)
  BY NatLessThanWellFounded, Zenon DEF LessThan, OpToRel

\* A set of natural numbers has a least one.  Everything below that is shown for one
\* number after the other is shown for the least one for which it would not hold.
LEMMA LeastNumber ==
    ASSUME NEW T, T \subseteq Nat, T # {}
    PROVE  \E n \in T : \A m \in T : n <= m
<1>1. PICK n \in T : \A m \in T : ~(<<m, n>> \in LessThan)
  BY WFMin, LessThanWellFounded
<1>2. ASSUME NEW m \in T
      PROVE  n <= m
  <2>1. ~(<<m, n>> \in LessThan)
    BY <1>1
  <2>2. m \in Nat /\ n \in Nat
    OBVIOUS
  <2>3. ~(m < n)
    BY <2>1, <2>2 DEF LessThan
  <2> QED
    BY <2>2, <2>3
<1> QED
  BY <1>2

\* A bounded set of natural numbers has a greatest one, and Max is that.
LEMMA GreatestNumber ==
    ASSUME NEW T, T \subseteq Nat, T # {}, NEW b \in Nat, \A n \in T : n <= b
    PROVE  Max(T) \in T /\ \A n \in T : n <= Max(T)
<1> DEFINE U == {n \in Nat : b - n \in T}
<1>1. PICK t \in T : TRUE
  OBVIOUS
<1>2. b - t \in U
  <2>1. t \in Nat /\ t <= b /\ b - (b - t) = t
    BY <1>1
  <2> QED
    BY <2>1
<1> HIDE DEF U
<1>3. PICK u \in U : \A m \in U : u <= m
  <2>1. U \subseteq Nat
    BY DEF U
  <2> QED
    BY <1>2, <2>1, LeastNumber
<1>4. b - u \in T /\ u \in Nat
  BY DEF U
<1>5. ASSUME NEW n \in T
      PROVE  n <= b - u
  <2>1. n \in Nat /\ n <= b /\ b - (b - n) = n
    OBVIOUS
  <2>2. b - n \in U
    BY <2>1 DEF U
  <2> QED
    BY <1>3, <1>4, <2>1, <2>2
<1>6. \A n \in T : n \in Int /\ (b - u) >= n
  BY <1>4, <1>5
<1>7. \E x \in T : \A y \in T : x >= y
  BY <1>4, <1>6
<1>8. Max(T) \in T /\ \A y \in T : Max(T) >= y
  BY <1>7 DEF Max
<1> QED
  BY <1>8

\* Min takes the least element of a set that has one.
LEMMA MinOfSome ==
    ASSUME NEW T, T \subseteq Nat, T # {}
    PROVE  Min(T) \in T /\ \A n \in T : Min(T) <= n
<1>1. \E x \in T : \A y \in T : x <= y
  BY LeastNumber
<1> QED
  BY <1>1 DEF Min

LEMMA MinOfTwo ==
    ASSUME NEW a \in Int, NEW b \in Int
    PROVE  Min({a, b}) = IF a <= b THEN a ELSE b
  BY SMT DEF Min

-----------------------------------------------------------------------------
\* The start-up

\* What a process keeps of settings that it accepts is in order.
LEMMA KeptRight ==
    ASSUME NEW s \in Settings, ~Rejected(s), config' = Kept(s)
    PROVE  ConfigRight'
<1>1. s.mode \in {"env", "client", "pool"} /\ s.loopback \in BOOLEAN
  BY StartupAssumption
<1>2. ~KeysRejected(s) /\ ~BindRejected(s)
  BY DEF Rejected
<1>3. CASE s.mode = "env"
  <2>1. config'.mode = "env" /\ config'.keys = {s.envKey} /\ config'.loopback = s.loopback
    BY <1>3 DEF Kept
  <2>2. s.envKey # NoKey /\ s.loopback
    BY <1>1, <1>2, <1>3 DEF KeysRejected, BindRejected
  <2> QED
    BY <2>1, <2>2 DEF ConfigRight
<1>4. CASE s.mode = "client"
  BY <1>4 DEF Kept, ConfigRight
<1>5. CASE s.mode = "pool"
  <2>1. config'.mode = "pool" /\ config'.keys = ToSet(s.poolKeys)
        /\ config'.clientKey = s.clientKey
    BY <1>5 DEF Kept
  <2>2. ToSet(s.poolKeys) \cap {NoKey, Blank} = {} /\ s.clientKey \notin ToSet(s.poolKeys)
    BY <1>2, <1>5 DEF KeysRejected, PoolKeysRejected
  <2> QED
    BY <2>1, <2>2 DEF ConfigRight
<1> QED
  BY <1>1, <1>3, <1>4, <1>5

\* Whatever else a step does, it starts, ends or leaves alone the process.
LEMMA StartupSteps ==
    ASSUME [ProxyNext]_proxyVars
    PROVE  Build \/ Listen \/ StartWorker \/ Exit \/ UNCHANGED startupVars
  BY DEF ProxyNext, proxyVars, ProcessStep, ProcessEnds, FrontEndStep, Unserved, Cancelled,
         Attempt, AttemptFails, AttemptAnswers, Relays, FailOver, RelayReturns, RelayRaises

\* So a process that is up has accepted settings.
LEMMA StartInvNext == StartInv /\ [ProxyNext]_proxyVars => StartInv'
<1> SUFFICES ASSUME StartInv, [ProxyNext]_proxyVars
             PROVE  StartInv'
  OBVIOUS
<1>1. CASE Build
  BY <1>1, KeptRight DEF Build, StartInv
<1>2. CASE Listen \/ StartWorker \/ UNCHANGED startupVars
  BY <1>2 DEF Listen, StartWorker, startupVars, StartInv, ConfigRight
<1>3. CASE Exit
  BY <1>3 DEF Exit, StartInv
<1> QED
  BY <1>1, <1>2, <1>3, StartupSteps

-----------------------------------------------------------------------------
\* Places, keys and answers

\* The steps of the process itself find no request.
LEMMA ProcessAnswers ==
    ASSUME StartInv, KeyInv, AnswerInv, ProcessStep \/ ProcessEnds
    PROVE  KeyInv' /\ AnswerInv'
<1>1. CASE ProcessStep
  <2>1. server # "serving" /\ UNCHANGED <<step, token, key, responses, doing>>
    BY <1>1 DEF ProcessStep, Build, Listen, StartWorker, frontVars, clientVars, relayVars
  <2>2. step \in {"none", "over"}
    BY <2>1 DEF AnswerInv
  <2> QED
    BY <2>1, <2>2 DEF KeyInv, AnswerInv
<1>2. CASE ProcessEnds
  BY <1>2 DEF ProcessEnds, Forget, LeaveRelay, KeyInv, AnswerInv, Places
<1> QED
  BY <1>1, <1>2

\* The steps of the front end.
LEMMA FrontEndAnswers ==
    ASSUME StartInv, KeyInv, AnswerInv, FrontEndStep
    PROVE  KeyInv' /\ AnswerInv'
<1>1. UNCHANGED <<server, config, doing>>
  BY DEF FrontEndStep, startupVars, relayVars
<1>2. CASE Receive
  BY <1>1, <1>2 DEF Receive, KeyInv, AnswerInv, Places
<1>3. CASE AnswerHealth \/ AnswerOther \/ AnswerModels \/ BodyUnreadable \/ NotForwarded
  <2>1. step \notin {"relay", "over"} /\ step' = "over" /\ token' = NoKey
    BY <1>3 DEF AnswerHealth, AnswerOther, AnswerModels, BodyUnreadable, NotForwarded,
       Answer, Forget
  <2> QED
    BY <1>1, <2>1 DEF KeyInv, AnswerInv, Places
<1>4. CASE ReadBody \/ BodyBreaks \/ Descend \/ Ascend \/ Sanitize \/ ClientLeaves
  BY <1>1, <1>4 DEF ReadBody, BodyBreaks, Descend, Ascend, Sanitize, ClientLeaves, clientVars,
     KeyInv, AnswerInv, Places
<1>5. CASE TooDeep
  BY <1>1, <1>5 DEF TooDeep, Answer, KeyInv, AnswerInv, Places
<1>6. CASE Forward
  <2>1. step = "forward" /\ step' = "queue" /\ UNCHANGED <<token, responses>>
        /\ server = "serving"
    BY <1>6 DEF Forward, clientVars, AnswerInv
  <2>2. config.mode = "env" => key' \in config.keys \ {Blank}
    BY <1>6, <2>1 DEF Forward, StartInv, ConfigRight
  <2>3. config.mode = "client" => key' = token /\ token # NoKey
    BY <1>6 DEF Forward, Authorized
  <2>4. config.mode = "pool" => token = config.clientKey
    BY <1>6 DEF Forward, Authorized
  <2> QED
    BY <1>1, <2>1, <2>2, <2>3, <2>4 DEF KeyInv, AnswerInv, Places
<1> QED
  BY <1>2, <1>3, <1>4, <1>5, <1>6 DEF FrontEndStep, FrontStep

\* The steps from the queue to the relay.
LEMMA AttemptAnswersRight ==
    ASSUME StartInv, KeyInv, AnswerInv,
           Unserved \/ Cancelled \/ Attempt \/ AttemptFails \/ AttemptAnswers
    PROVE  KeyInv' /\ AnswerInv'
<1>1. UNCHANGED <<server, config>>
  BY DEF Unserved, Cancelled, Attempt, AttemptFails, AttemptAnswers, startupVars
<1>2. CASE Unserved \/ Cancelled \/ AttemptFails
  BY <1>1, <1>2 DEF Unserved, Cancelled, AttemptFails, Answer, Forget, relayVars,
     KeyInv, AnswerInv, Places
<1>3. CASE Attempt
  BY <1>1, <1>3 DEF Attempt, relayVars, clientVars, KeyInv, AnswerInv, Places
<1>4. CASE AttemptAnswers
  BY <1>1, <1>4 DEF AttemptAnswers, CallRelay, clientVars, KeyInv, AnswerInv, Places
<1> QED
  BY <1>2, <1>3, <1>4

-----------------------------------------------------------------------------
\* Sizes of streams

\* The element of a set that a fold takes next, and what is folded: the sizes of
\* the events with these numbers.
Chosen(s) == CHOOSE x \in s : TRUE
Folded(evs, g, s) == IF s = {} THEN 0 ELSE evs[Chosen(s)].size + g[s \ {Chosen(s)}]
FoldOf(evs, n, g) == [s \in SUBSET (1 .. n) |-> Folded(evs, g, s)]

\* The fold exists, step by step from the empty set to that of all events.
LEMMA FoldExists ==
    ASSUME NEW n \in Nat, NEW evs, \A i \in 1 .. n : evs[i].size \in Nat
    PROVE  \E g : g = FoldOf(evs, n, g)
<1> DEFINE Level(k) == {s \in SUBSET (1 .. n) : Cardinality(s) <= k}
           Works(g, k) == /\ g \in [Level(k) -> Nat]
                          /\ \A s \in Level(k) : g[s] = Folded(evs, g, s)
           Bad == {k \in Nat : ~ \E g : Works(g, k)}
<1>1. ASSUME NEW s \in SUBSET (1 .. n)
      PROVE  IsFiniteSet(s) /\ Cardinality(s) \in Nat /\ Cardinality(s) <= n
  <2>1. IsFiniteSet(1 .. n) /\ Cardinality(1 .. n) = n
    BY FS_Interval
  <2>2. s \subseteq 1 .. n
    OBVIOUS
  <2> QED
    BY <2>1, <2>2, FS_Subset, FS_CardinalityType
<1>2. ASSUME NEW s \in SUBSET (1 .. n), s # {}
      PROVE  /\ Chosen(s) \in s /\ s \ {Chosen(s)} \in SUBSET (1 .. n)
             /\ Cardinality(s \ {Chosen(s)}) = Cardinality(s) - 1
  <2>1. Chosen(s) \in s
    BY <1>2 DEF Chosen
  <2> QED
    BY <1>1, <2>1, FS_RemoveElement
<1>3. ASSUME NEW k \in Bad, \A m \in Bad : k <= m
      PROVE  FALSE
  <2>1. CASE k = 0
    <3> DEFINE g == [s \in Level(0) |-> 0]
    <3>1. \A s \in Level(0) : s = {}
      BY <1>1, FS_EmptySet
    <3>2. Works(g, 0)
      BY <3>1 DEF Folded
    <3> QED
      BY <2>1, <3>2
  <2>2. CASE k # 0
    <3>1. k - 1 \in Nat /\ k - 1 \notin Bad
      <4>1. k \in Nat
        OBVIOUS
      <4>2. k - 1 \in Nat /\ ~(k <= k - 1)
        BY <2>2, <4>1
      <4> HIDE DEF Bad
      <4> QED
        BY <1>3, <4>2
    <3>2. PICK g : Works(g, k - 1)
      BY <3>1
    <3> DEFINE h == [s \in Level(k) |-> Folded(evs, g, s)]
    <3>3. ASSUME NEW s \in Level(k), s # {}
          PROVE  s \ {Chosen(s)} \in Level(k - 1) /\ evs[Chosen(s)].size \in Nat
      <4>1. s \in SUBSET (1 .. n) /\ Cardinality(s) <= k
        OBVIOUS
      <4>2. /\ Chosen(s) \in s /\ s \ {Chosen(s)} \in SUBSET (1 .. n)
            /\ Cardinality(s \ {Chosen(s)}) = Cardinality(s) - 1 /\ Cardinality(s) \in Nat
        BY <1>1, <1>2, <3>3, <4>1
      <4>3. Cardinality(s \ {Chosen(s)}) <= k - 1 /\ evs[Chosen(s)].size \in Nat
        BY <4>1, <4>2
      <4> QED
        BY <4>2, <4>3
    <3>4. \A s \in Level(k) : h[s] \in Nat
      BY <3>2, <3>3 DEF Folded
    <3>5. \A s \in Level(k - 1) : s \in Level(k) /\ h[s] = g[s]
      BY <1>1, <3>2
    <3>6. \A s \in Level(k) : h[s] = Folded(evs, h, s)
      BY <3>3, <3>5 DEF Folded
    <3>7. Works(h, k)
      BY <3>4, <3>6
    <3> QED
      BY <3>7
  <2> QED
    BY <2>1, <2>2
<1>4. Bad = {}
  <2>1. Bad \subseteq Nat
    OBVIOUS
  <2> HIDE DEF Bad
  <2> QED
    BY <1>3, <2>1, LeastNumber
<1>5. PICK g : Works(g, n)
  BY <1>4
<1>6. Level(n) = SUBSET (1 .. n)
  BY <1>1
<1> HIDE DEF Level
<1>7. g \in [SUBSET (1 .. n) -> Nat] /\ \A s \in SUBSET (1 .. n) : g[s] = Folded(evs, g, s)
  BY <1>5, <1>6
<1>8. g = FoldOf(evs, n, g)
  BY <1>7 DEF FoldOf
<1> QED
  BY <1>8

\* So the size of a stream is a natural number, and that of none is zero.
LEMMA SizeType ==
    ASSUME NEW n \in Nat, NEW evs \in [1 .. n -> Events]
    PROVE  SizeOf(evs) \in Nat /\ (n = 0 => SizeOf(evs) = 0)
<1> DEFINE fold == CHOOSE g : g = FoldOf(evs, n, g)
           Bad == {k \in Nat :
                      \E s \in SUBSET (1 .. n) : Cardinality(s) = k /\ fold[s] \notin Nat}
<1>1. \A i \in 1 .. n : evs[i].size \in Nat
  BY RelayAssumption
<1>2. fold = FoldOf(evs, n, fold)
  BY <1>1, FoldExists
<1>3. SizeOf(evs) = fold[1 .. n]
  BY DEF SizeOf, FoldSeq, FoldFunction, FoldFunctionOnSet, MapThenFoldSet, FoldOf,
     Folded, Chosen
<1> HIDE DEF fold
<1>4. \A s \in SUBSET (1 .. n) : fold[s] = Folded(evs, fold, s)
  BY <1>2 DEF FoldOf
<1>5. ASSUME NEW s \in SUBSET (1 .. n)
      PROVE  IsFiniteSet(s) /\ Cardinality(s) \in Nat
  <2>1. IsFiniteSet(1 .. n) /\ s \subseteq 1 .. n
    BY FS_Interval
  <2> QED
    BY <2>1, FS_Subset, FS_CardinalityType
<1>6. ASSUME NEW k \in Bad, \A m \in Bad : k <= m
      PROVE  FALSE
  <2>1. PICK s \in SUBSET (1 .. n) : Cardinality(s) = k /\ fold[s] \notin Nat
    OBVIOUS
  <2>2. s # {} /\ fold[s] = evs[Chosen(s)].size + fold[s \ {Chosen(s)}]
    BY <1>4, <2>1 DEF Folded
  <2>3. Chosen(s) \in s
    BY <2>2 DEF Chosen
  <2> DEFINE rest == s \ {Chosen(s)}
  <2>4. rest \in SUBSET (1 .. n) /\ Chosen(s) \in 1 .. n
    BY <2>3
  <2>5. Cardinality(rest) = k - 1 /\ k \in Nat /\ Cardinality(rest) \in Nat
    BY <1>5, <2>1, <2>3, <2>4, FS_RemoveElement
  <2>6. k - 1 \in Nat /\ ~(k <= k - 1)
    BY <2>5
  <2> HIDE DEF rest
  <2>7. fold[rest] \in Nat
    BY <1>6, <2>4, <2>5, <2>6
  <2>8. evs[Chosen(s)].size \in Nat /\ fold[s] = evs[Chosen(s)].size + fold[rest]
    BY <1>1, <2>2, <2>4 DEF rest
  <2> QED
    BY <2>1, <2>7, <2>8
<1>7. Bad = {}
  <2>1. Bad \subseteq Nat
    OBVIOUS
  <2> HIDE DEF Bad
  <2> QED
    BY <1>6, <2>1, LeastNumber
<1>8. fold[1 .. n] \in Nat
  BY <1>5, <1>7
<1>9. n = 0 => fold[1 .. n] = 0
  <2>1. n = 0 => 1 .. n = {}
    OBVIOUS
  <2>2. 1 .. n \in SUBSET (1 .. n)
    OBVIOUS
  <2> QED
    BY <1>4, <2>1, <2>2 DEF Folded
<1> QED
  BY <1>3, <1>8, <1>9

LEMMA FirstIsCompleted ==
    /\ \A b : Completed(b) = First(events, b)
    /\ ScannedEvents = Scanned(events, arrived)
<1>1. \A b : Completed(b) = First(events, b)
  BY DEF Completed, First, Count, Whole
<1> QED
  BY <1>1 DEF ScannedEvents, Scanned

\* A stream is a sequence, and so are its first events.
LEMMA StreamType ==
    ASSUME NEW evs \in Streams
    PROVE  /\ Len(evs) \in Nat /\ evs \in [1 .. Len(evs) -> Events]
           /\ \A n \in 0 .. Len(evs) :
                  /\ SubSeq(evs, 1, n) \in [1 .. n -> Events]
                  /\ Len(SubSeq(evs, 1, n)) = n
                  /\ \A i \in 1 .. n : SubSeq(evs, 1, n)[i] = evs[i]
                  /\ SizeOf(SubSeq(evs, 1, n)) \in Nat
           /\ SizeOf(evs) \in Nat /\ SubSeq(evs, 1, Len(evs)) = evs
<1>1. PICK m \in 0 .. MaxEvents : evs \in [1 .. m -> Events]
  BY DEF Streams, BoundedSeq, SeqOf
<1>2. m \in Nat /\ evs \in Seq(Events) /\ Len(evs) = m
  BY <1>1, RelayAssumption
<1>3. ASSUME NEW n \in 0 .. m
      PROVE  /\ SubSeq(evs, 1, n) \in [1 .. n -> Events]
             /\ Len(SubSeq(evs, 1, n)) = n
             /\ \A i \in 1 .. n : SubSeq(evs, 1, n)[i] = evs[i]
  <2>1. SubSeq(evs, 1, n) = [i \in 1 .. n |-> evs[i]]
    BY <1>2
  <2>2. \A i \in 1 .. n : evs[i] \in Events
    BY <1>1, <1>2
  <2>3. Len(SubSeq(evs, 1, n)) = n
    BY <1>2
  <2> QED
    BY <2>1, <2>2, <2>3
<1>4. \A n \in 0 .. m : SizeOf(SubSeq(evs, 1, n)) \in Nat
  <2> TAKE n \in 0 .. m
  <2>1. n \in Nat
    BY <1>2
  <2> QED
    BY <1>3, <2>1, SizeType
<1>5. SizeOf(evs) \in Nat
  BY <1>1, <1>2, SizeType
<1>6. SubSeq(evs, 1, m) = evs
  BY <1>1, <1>2
<1> QED
  BY <1>1, <1>2, <1>3, <1>4, <1>5, <1>6

\* They are as many as have arrived in full.
LEMMA CountRight ==
    ASSUME NEW evs \in Streams, NEW b \in Nat
    PROVE  /\ Count(evs, b) \in 0 .. Len(evs) /\ Count(evs, b) \in Whole(evs, b)
           /\ \A n \in Whole(evs, b) : n <= Count(evs, b)
           /\ Len(First(evs, b)) = Count(evs, b)
           /\ \A i \in 1 .. Count(evs, b) : First(evs, b)[i] = evs[i]
<1>1. 0 \in Whole(evs, b)
  <2>1. SubSeq(evs, 1, 0) \in [1 .. 0 -> Events] /\ Len(evs) \in Nat
    BY StreamType
  <2>2. SizeOf(SubSeq(evs, 1, 0)) = 0
    BY <2>1, SizeType
  <2> QED
    BY <2>1, <2>2 DEF Whole
<1>2. Whole(evs, b) \subseteq Nat /\ Len(evs) \in Nat /\ \A n \in Whole(evs, b) : n <= Len(evs)
  BY StreamType DEF Whole
<1>3. Count(evs, b) \in Whole(evs, b) /\ \A n \in Whole(evs, b) : n <= Count(evs, b)
  BY <1>1, <1>2, GreatestNumber DEF Count
<1>4. Count(evs, b) \in 0 .. Len(evs)
  BY <1>3 DEF Whole
<1> QED
  BY <1>3, <1>4, StreamType DEF First

\* More bytes hold no fewer events, and all bytes hold all of them.
LEMMA CountGrows ==
    ASSUME NEW evs \in Streams, NEW b \in Nat, NEW c \in Nat, b <= c
    PROVE  Count(evs, b) <= Count(evs, c)
<1>1. Count(evs, b) \in Whole(evs, b)
  BY CountRight
<1>2. Count(evs, b) \in Whole(evs, c)
  BY <1>1, StreamType DEF Whole
<1> QED
  BY <1>2, CountRight

LEMMA AllCounted ==
    ASSUME NEW evs \in Streams
    PROVE  First(evs, SizeOf(evs)) = evs
<1> DEFINE size == SizeOf(evs)
<1>1. size = SizeOf(SubSeq(evs, 1, Len(evs))) /\ size \in Nat /\ Len(evs) \in Nat
  BY StreamType
<1> HIDE DEF size
<1>2. Len(evs) \in Whole(evs, size)
  BY <1>1 DEF Whole
<1>3. Count(evs, size) = Len(evs)
  BY <1>1, <1>2, CountRight
<1>4. First(evs, size) = evs
  BY <1>1, <1>3, StreamType DEF First
<1> QED
  BY <1>4 DEF size

-----------------------------------------------------------------------------
\* Markup

\* Markup in the first events of a stream is markup in the stream.
LEMMA LeakGrows ==
    ASSUME NEW s, NEW t, Len(s) \in Nat, Len(t) \in Nat, Len(s) <= Len(t),
           \A i \in 1 .. Len(s) : s[i] = t[i], Leak(s)
    PROVE  Leak(t)
<1>1. CASE \E i \in 1 .. Len(s) : s[i].part = "whole"
  <2>1. PICK i \in 1 .. Len(s) : s[i].part = "whole"
    BY <1>1
  <2>2. i \in 1 .. Len(t) /\ t[i].part = "whole"
    BY <2>1
  <2> QED
    BY <2>2 DEF Leak
<1>2. CASE ~\E i \in 1 .. Len(s) : s[i].part = "whole"
  <2>1. PICK i, j \in 1 .. Len(s) :
            /\ i < j
            /\ s[i].choice = s[j].choice
            /\ s[i].part = "head" /\ s[j].part = "tail"
            /\ \A k \in i + 1 .. j - 1 : s[k].choice # s[i].choice
    BY <1>2 DEF Leak
  <2>2. i \in 1 .. Len(t) /\ j \in 1 .. Len(t) /\ s[i] = t[i] /\ s[j] = t[j]
    OBVIOUS
  <2>3. \A k \in i + 1 .. j - 1 : k \in 1 .. Len(s) /\ s[k] = t[k]
    OBVIOUS
  <2>4. /\ i < j /\ t[i].choice = t[j].choice
        /\ t[i].part = "head" /\ t[j].part = "tail"
        /\ \A k \in i + 1 .. j - 1 : t[k].choice # t[i].choice
    BY <2>1, <2>2, <2>3
  <2>5. \E g, h \in 1 .. Len(t) :
            /\ g < h /\ t[g].choice = t[h].choice
            /\ t[g].part = "head" /\ t[h].part = "tail"
            /\ \A k \in g + 1 .. h - 1 : t[k].choice # t[g].choice
    BY <2>2, <2>4
  <2> QED
    BY <2>5, Zenon DEF Leak
<1> QED
  BY <1>1, <1>2

\* How many bytes and events are to be scanned.
ScanBytes(b) == Min({b, MaxScanBytes})
ScanEvents(evs, b) == Min({MaxScanEvents, Count(evs, ScanBytes(b))})

\* The events that are to be scanned are the first of the stream.
LEMMA ScannedRight ==
    ASSUME NEW evs \in Streams, NEW b \in Nat
    PROVE  /\ ScanBytes(b) = IF b <= MaxScanBytes THEN b ELSE MaxScanBytes
           /\ ScanBytes(b) \in Nat
           /\ ScanEvents(evs, b) \in Nat
           /\ ScanEvents(evs, b) <= Count(evs, ScanBytes(b))
           /\ ScanEvents(evs, b) <= MaxScanEvents
           /\ Len(Scanned(evs, b)) = ScanEvents(evs, b)
           /\ \A i \in 1 .. ScanEvents(evs, b) : Scanned(evs, b)[i] = evs[i]
<1>1. MaxScanBytes \in Nat /\ MaxScanEvents \in Nat
  BY RelayAssumption
<1>2. PICK c : c = ScanBytes(b)
  OBVIOUS
<1>3. c \in Nat /\ c = IF b <= MaxScanBytes THEN b ELSE MaxScanBytes
  BY <1>1, <1>2, MinOfTwo DEF ScanBytes
<1>4. PICK m : m = Count(evs, c)
  OBVIOUS
<1>5. /\ m \in Nat /\ m <= Len(evs) /\ Len(First(evs, c)) = m
      /\ \A i \in 1 .. m : First(evs, c)[i] = evs[i]
  <2>1. Count(evs, c) \in 0 .. Len(evs) /\ Len(evs) \in Nat
    BY <1>3, CountRight, StreamType
  <2>2. m \in Nat /\ m <= Len(evs)
    BY <1>4, <2>1
  <2>3. Len(First(evs, c)) = m /\ \A i \in 1 .. m : First(evs, c)[i] = evs[i]
    BY <1>3, <1>4, CountRight
  <2> QED
    BY <2>2, <2>3
<1>6. PICK n : n = ScanEvents(evs, b)
  OBVIOUS
<1>7. n \in Nat /\ n <= m /\ n <= MaxScanEvents
  <2>1. n = Min({MaxScanEvents, m})
    BY <1>2, <1>4, <1>6 DEF ScanEvents
  <2> QED
    BY <1>1, <1>5, <2>1, MinOfTwo
<1>8. PICK first : first = First(evs, c)
  OBVIOUS
<1>9. first \in [1 .. m -> Events]
  BY <1>4, <1>5, <1>8, StreamType DEF First
<1>10. Scanned(evs, b) = SubSeq(first, 1, n)
  BY <1>2, <1>4, <1>5, <1>6, <1>8 DEF Scanned, ScanBytes, ScanEvents
<1>11. first \in Seq(Events) /\ Len(first) = m
  BY <1>5, <1>8, <1>9
<1>12. Len(Scanned(evs, b)) = n /\ \A i \in 1 .. n : Scanned(evs, b)[i] = first[i]
  BY <1>5, <1>7, <1>10, <1>11
<1>13. \A i \in 1 .. n : Scanned(evs, b)[i] = evs[i]
  BY <1>5, <1>7, <1>8, <1>12
<1> QED
  BY <1>2, <1>3, <1>4, <1>6, <1>7, <1>12, <1>13

\* A scan that has seen as much as it may, or as much as has arrived, and no markup,
\* has missed none that it was to see.
LEMMA ScanMissesNothing ==
    ASSUME NEW evs \in Streams, NEW a \in Nat, NEW b \in Nat, b <= a, b <= MaxScanBytes,
           ~Leak(First(evs, b)),
           b = a \/ b = MaxScanBytes \/ Count(evs, b) >= MaxScanEvents
    PROVE  ~Leak(Scanned(evs, a))
<1>1. MaxScanBytes \in Nat /\ MaxScanEvents \in Nat
  BY RelayAssumption
<1>2. PICK c : c = ScanBytes(a)
  OBVIOUS
<1>3. c = IF a <= MaxScanBytes THEN a ELSE MaxScanBytes
  BY <1>2, ScannedRight
<1>4. PICK n : n = ScanEvents(evs, a)
  OBVIOUS
<1>5. /\ n \in Nat /\ n <= Count(evs, c) /\ n <= MaxScanEvents
      /\ Len(Scanned(evs, a)) = n
      /\ \A i \in 1 .. n : Scanned(evs, a)[i] = evs[i]
  BY <1>2, <1>4, ScannedRight
<1>6. /\ Count(evs, b) \in Nat /\ Len(First(evs, b)) = Count(evs, b)
      /\ \A i \in 1 .. Count(evs, b) : First(evs, b)[i] = evs[i]
  <2>1. Count(evs, b) \in Nat
    BY CountRight, StreamType
  <2>2. /\ Len(First(evs, b)) = Count(evs, b)
        /\ \A i \in 1 .. Count(evs, b) : First(evs, b)[i] = evs[i]
    BY CountRight
  <2> QED
    BY <2>1, <2>2
<1>7. b <= c /\ c \in Nat
  BY <1>1, <1>3
<1>8. b = c \/ Count(evs, b) >= MaxScanEvents
  BY <1>1, <1>3
<1>9. n <= Count(evs, b)
  BY <1>1, <1>5, <1>6, <1>8
<1>10. \A i \in 1 .. Len(Scanned(evs, a)) : Scanned(evs, a)[i] = First(evs, b)[i]
  BY <1>5, <1>6, <1>9
<1> QED
  BY <1>5, <1>6, <1>9, <1>10, LeakGrows

\* Markup that the scan is to see is in the stream, and in what has arrived of it.
LEMMA ScannedLeaks ==
    ASSUME NEW evs \in Streams, NEW a \in Nat, Leak(Scanned(evs, a))
    PROVE  Leak(evs) /\ Leak(First(evs, a))
<1>1. PICK c : c = ScanBytes(a)
  OBVIOUS
<1>2. PICK n : n = ScanEvents(evs, a)
  OBVIOUS
<1>3. /\ c \in Nat /\ c <= a /\ n \in Nat /\ n <= Count(evs, c)
      /\ Len(Scanned(evs, a)) = n
      /\ \A i \in 1 .. n : Scanned(evs, a)[i] = evs[i]
  <2>1. c = IF a <= MaxScanBytes THEN a ELSE MaxScanBytes
    BY <1>1, ScannedRight
  <2>2. c \in Nat
    BY <1>1, ScannedRight
  <2>3. c <= a
    BY <2>1, RelayAssumption
  <2> QED
    BY <1>1, <1>2, <2>2, <2>3, ScannedRight
<1>4. Count(evs, c) <= Len(evs) /\ Len(evs) \in Nat /\ Count(evs, c) \in Nat
  BY <1>3, CountRight, StreamType
<1>5. Leak(evs)
  BY <1>3, <1>4, LeakGrows
<1>6. /\ Count(evs, a) \in Nat /\ Len(First(evs, a)) = Count(evs, a)
      /\ \A i \in 1 .. Count(evs, a) : First(evs, a)[i] = evs[i]
  BY CountRight, StreamType
<1>7. n <= Count(evs, a)
  BY <1>3, <1>4, <1>6, CountGrows
<1>8. Leak(First(evs, a))
  <2>1. \A i \in 1 .. n : Scanned(evs, a)[i] = First(evs, a)[i]
    BY <1>3, <1>6, <1>7
  <2> QED
    BY <1>3, <1>6, <1>7, <2>1, LeakGrows
<1> QED
  BY <1>5, <1>8

-----------------------------------------------------------------------------
\* The relay

\* The bytes of a stream in their order, in two pieces, and the first of them.
LEMMA BytesGrow ==
    ASSUME NEW a \in Nat, NEW n \in Nat
    PROVE  /\ Bytes(a) \o [i \in 1 .. n |-> a + i] = Bytes(a + n)
           /\ Bytes(a) \in Seq(Nat) /\ Len(Bytes(a)) = a /\ Bytes(0) = <<>>
           /\ \A i \in 1 .. a : Bytes(a)[i] = i
<1>1. Bytes(a) \in Seq(Nat) /\ Len(Bytes(a)) = a /\ \A i \in 1 .. a : Bytes(a)[i] = i
  BY DEF Bytes
<1>2. Bytes(0) = <<>>
  BY DEF Bytes
<1>3. Bytes(a) \o [i \in 1 .. n |-> a + i] = Bytes(a + n)
  BY DEF Bytes
<1> QED
  BY <1>1, <1>2, <1>3

LEMMA BytesFirst ==
    ASSUME NEW a \in Nat, NEW n \in 0 .. a
    PROVE  SubSeq(Bytes(a), 1, n) = Bytes(n)
  BY DEF Bytes

\* What is read next, with what has arrived.
LEMMA ChunkRight ==
    ASSUME BytesInv, NEW most \in Int, NEW n \in ChunkSizes(most)
    PROVE  n \in Nat /\ n <= most /\ Bytes(arrived) \o Chunk(n) = Bytes(arrived + n)
<1>1. Size \in Int /\ ChunkSize \in Int /\ arrived \in Nat
  <2>1. events \in Streams /\ arrived \in Nat
    BY DEF BytesInv
  <2>2. SizeOf(events) \in Nat
    BY <2>1, StreamType
  <2> QED
    BY <2>1, <2>2, RelayAssumption DEF Size
<1>2. n \in Nat /\ n <= most
  <2>1. Min({most, ChunkSize, Size - arrived}) \in Int
        /\ Min({most, ChunkSize, Size - arrived}) <= most
    BY <1>1 DEF Min
  <2> QED
    BY <2>1 DEF ChunkSizes
<1> QED
  BY <1>1, <1>2, BytesGrow DEF Chunk

\* The call of the relay, and its end.
LEMMA CallKeeps ==
    ASSUME RelayInv, responses = <<>>, NEW ok, NEW diagnostic, NEW isStream,
           CallRelay(ok, diagnostic, isStream), UNCHANGED responses
    PROVE  RelayInv'
<1>1. arrived = 0 /\ written = <<>> /\ buffered = <<>>
      /\ UNCHANGED <<arrived, written, buffered>>
  BY DEF RelayInv, BytesInv, CallRelay
<1>2. events' \in Streams /\ doing' \in {"whole", "scan", "begin"}
  BY DEF CallRelay, Streams
<1>3. Bytes(0) = <<>>
  BY BytesGrow
<1>4. BytesInv'
  BY <1>1, <1>2, <1>3 DEF BytesInv
<1>5. (doing' = "scan" => Inspects') /\ (doing' = "begin" => ~Inspects')
  BY DEF CallRelay
<1>6. MarkupInv'
  BY <1>1, <1>2, <1>5, RelayAssumption DEF MarkupInv
<1> QED
  BY <1>4, <1>6 DEF RelayInv

LEMMA LeaveKeeps ==
    ASSUME LeaveRelay
    PROVE  RelayInv'
<1>1. events' \in Streams
  BY RelayAssumption DEF LeaveRelay, Streams, BoundedSeq, SeqOf
<1> QED
  BY <1>1 DEF LeaveRelay, RelayInv, BytesInv, MarkupInv

\* Every step of the relay puts the bytes where they should be.
LEMMA RelayBytes ==
    ASSUME BytesInv, RelayStep
    PROVE  BytesInv'
<1>1. events' \in Streams /\ arrived \in Nat
  BY DEF BytesInv, RelayStep, answerVars, ReadWhole, ScanChunk, ScanEnds, ReadFails,
         Begin, BeginBreaks, StreamChunk, StreamEnds, StreamBreaks, SendDiagnostic
<1>2. CASE ReadWhole
  <2>1. arrived' = Size /\ Size \in Nat /\ written' = <<>> /\ responses' = <<>>
    <3>1. events \in Streams
      BY DEF BytesInv
    <3>2. SizeOf(events) \in Nat
      BY <3>1, StreamType
    <3> QED
      BY <1>2, <3>2 DEF ReadWhole, BytesInv, clientVars, Size
  <2>2. buffered' = Bytes(Size)
    <3>1. arrived = 0 /\ buffered' = Chunk(Size)
      BY <1>2 DEF ReadWhole, BytesInv
    <3>2. \A i \in 1 .. Size : 0 + i = i
      BY <2>1
    <3> QED
      BY <3>1, <3>2 DEF Chunk, Bytes
  <2>3. doing' \in {"diagnose", "begin and end"}
    BY <1>2 DEF ReadWhole
  <2> QED
    BY <1>1, <2>1, <2>2, <2>3 DEF BytesInv
<1>3. CASE ScanChunk
  <2>1. PICK n \in ChunkSizes(MaxScanBytes - Len(buffered)) :
            buffered' = buffered \o Chunk(n) /\ arrived' = arrived + n
    BY <1>3 DEF ScanChunk
  <2>2. buffered = Bytes(arrived) /\ written' = <<>> /\ responses' = <<>>
    BY <1>3 DEF ScanChunk, BytesInv, clientVars
  <2>3. MaxScanBytes - Len(buffered) \in Int
    BY <1>1, <2>2, BytesGrow, RelayAssumption
  <2>4. n \in Nat /\ buffered' = Bytes(arrived')
    BY <2>1, <2>2, <2>3, ChunkRight
  <2>5. doing' \in {"diagnose", "begin", "scan"}
    BY <1>3 DEF ScanChunk, AfterChunk
  <2>6. arrived' \in Nat
    BY <1>1, <2>1, <2>4
  <2> QED
    BY <1>1, <2>2, <2>4, <2>5, <2>6 DEF BytesInv
<1>4. CASE ScanEnds
  BY <1>1, <1>4 DEF ScanEnds, BytesInv, clientVars, answerVars
<1>5. CASE ReadFails
  <2>1. written' = <<>> /\ buffered' = Bytes(arrived')
    BY <1>5, BytesGrow DEF ReadFails, BytesInv
  <2> QED
    BY <1>1, <1>5, <2>1 DEF ReadFails, BytesInv, SentOrHeld
<1>6. CASE Begin
  <2>1. responses' = <<"relayed">> /\ written' = Bytes(arrived') /\ buffered' = <<>>
        /\ arrived' = arrived
    <3>1. responses = <<>> /\ buffered = Bytes(arrived)
      BY <1>6 DEF Begin, BytesInv
    <3>2. responses' = Append(<<>>, "relayed") /\ written' = Bytes(arrived)
          /\ buffered' = <<>> /\ arrived' = arrived
      BY <1>6, <3>1 DEF Begin, Respond
    <3> QED
      BY <3>2
  <2>2. doing' \in {"stream", "done"}
    BY <1>6 DEF Begin
  <2> QED
    BY <1>1, <2>1, <2>2 DEF BytesInv
<1>7. CASE BeginBreaks
  <2>1. PICK n \in 0 .. Len(buffered) : written' = SubSeq(buffered, 1, n)
    BY <1>7 DEF BeginBreaks
  <2>2. buffered = Bytes(arrived)
    BY <1>7 DEF BeginBreaks, BytesInv
  <2>3. n \in 0 .. arrived
    BY <1>1, <2>1, <2>2, BytesGrow
  <2>4. n \in Nat /\ written' = Bytes(n)
    BY <1>1, <2>1, <2>2, <2>3, BytesFirst
  <2>5. buffered' = <<>> /\ arrived' = arrived /\ doing' = "raised"
    BY <1>7 DEF BeginBreaks
  <2> QED
    BY <1>1, <2>4, <2>5 DEF BytesInv, SentOrHeld
<1>8. CASE StreamChunk
  <2>1. PICK n \in ChunkSizes(ChunkSize) :
            written' = written \o Chunk(n) /\ arrived' = arrived + n
    BY <1>8 DEF StreamChunk
  <2>2. n \in Nat /\ Bytes(arrived) \o Chunk(n) = Bytes(arrived + n)
    BY ChunkRight, RelayAssumption
  <2>3. arrived' \in Nat /\ written' = Bytes(arrived')
    <3>1. written = Bytes(arrived)
      BY <1>8 DEF StreamChunk, BytesInv
    <3> QED
      BY <1>1, <2>1, <2>2, <3>1
  <2>4. doing' = "stream" /\ responses' = <<"relayed">> /\ buffered' = <<>>
    BY <1>8 DEF StreamChunk, BytesInv, clientVars
  <2> QED
    BY <1>1, <2>3, <2>4 DEF BytesInv
<1>9. CASE StreamEnds
  BY <1>1, <1>9 DEF StreamEnds, BytesInv, clientVars
<1>10. CASE StreamBreaks
  BY <1>1, <1>10 DEF StreamBreaks, BytesInv, SentOrHeld
<1>11. CASE SendDiagnostic
  <2>1. responses' = <<"diagnostic">> /\ written' = <<>> /\ buffered' = <<>>
        /\ arrived' = arrived /\ doing' = "done"
    BY <1>11 DEF SendDiagnostic, Respond, BytesInv
  <2> QED
    BY <1>1, <2>1 DEF BytesInv
<1> QED
  BY <1>2, <1>3, <1>4, <1>5, <1>6, <1>7, <1>8, <1>9, <1>10, <1>11 DEF RelayStep

\* Once the scan is over, there is no markup in what it was to see.
LEMMA ScanOverClean ==
    ASSUME NEW evs \in Streams, NEW a \in Nat, ScanOver(evs, a)
    PROVE  ~Leak(Scanned(evs, a))
<1>1. PICK b \in Nat :
          /\ b <= a /\ b <= MaxScanBytes
          /\ ~Leak(First(evs, b))
          /\ b = MaxScanBytes \/ Count(evs, b) >= MaxScanEvents
  BY DEF ScanOver
<1> QED
  BY <1>1, ScanMissesNothing

\* Every step of the relay that looks at the content does so rightly.
LEMMA RelayMarkup ==
    ASSUME BytesInv, BytesInv', MarkupInv, RelayStep
    PROVE  MarkupInv'
<1>1. events \in Streams /\ arrived \in Nat /\ arrived' \in Nat
  BY DEF BytesInv
<1>2. UNCHANGED <<events, success, looks>> /\ (Inspects' <=> Inspects)
  <2>1. UNCHANGED answerVars
    BY DEF RelayStep, ReadWhole, ScanChunk, ScanEnds, ReadFails, Begin, BeginBreaks,
           StreamChunk, StreamEnds, StreamBreaks, SendDiagnostic
  <2> QED
    BY <2>1 DEF answerVars, Inspects
<1>3. CASE ReadWhole
  <2>1. arrived' = SizeOf(events) /\ First(events, SizeOf(events)) = events
    BY <1>1, <1>3, AllCounted DEF ReadWhole, Size
  <2>2. doing' = IF Inspects /\ Leak(events) THEN "diagnose" ELSE "begin and end"
    BY <1>3 DEF ReadWhole
  <2>3. Leak(Scanned(events, arrived')) => Leak(events)
    BY <1>1, ScannedLeaks
  <2> QED
    BY <1>2, <2>1, <2>2, <2>3 DEF MarkupInv
<1>4. CASE ScanChunk
  <2>1. PICK n \in ChunkSizes(MaxScanBytes - Len(buffered)) :
            buffered' = buffered \o Chunk(n) /\ arrived' = arrived + n
    BY <1>4 DEF ScanChunk
  <2>2. Len(buffered) = arrived /\ MaxScanBytes \in Nat
    BY <1>1, <1>4, BytesGrow, RelayAssumption DEF ScanChunk, BytesInv
  <2>3. n \in Nat /\ arrived' <= MaxScanBytes
    <3>1. MaxScanBytes - Len(buffered) \in Int
      BY <1>1, <2>2
    <3>2. n \in Nat /\ n <= MaxScanBytes - Len(buffered)
      BY <3>1, ChunkRight
    <3> QED
      BY <1>1, <2>1, <2>2, <3>2
  <2>4. doing' = AfterChunk(Len(buffered'))
    BY <1>4 DEF ScanChunk
  <2>5. Len(buffered') = arrived'
    <3>1. doing' \in {"diagnose", "begin", "scan"}
      BY <2>4 DEF AfterChunk
    <3>2. buffered' = Bytes(arrived')
      BY <3>1 DEF BytesInv
    <3> QED
      BY <1>1, <3>2, BytesGrow
  <2>6. Completed(arrived') = First(events, arrived')
        /\ Len(First(events, arrived')) = Count(events, arrived')
    BY <1>1, FirstIsCompleted, CountRight
  <2>7. doing' =
            IF Leak(First(events, arrived')) THEN "diagnose"
            ELSE IF Count(events, arrived') >= MaxScanEvents \/ arrived' >= MaxScanBytes
                   THEN "begin" ELSE "scan"
    BY <2>4, <2>5, <2>6 DEF AfterChunk
  <2>8. Inspects
    BY <1>4 DEF ScanChunk, MarkupInv
  <2>9. doing' = "begin" => ScanOver(events, arrived')
    <3>1. SUFFICES ASSUME doing' = "begin"
                   PROVE  ScanOver(events, arrived')
      OBVIOUS
    <3>2. ~Leak(First(events, arrived'))
          /\ (arrived' = MaxScanBytes \/ Count(events, arrived') >= MaxScanEvents)
      BY <1>1, <2>2, <2>3, <2>7, <3>1
    <3> QED
      BY <1>1, <2>3, <3>2 DEF ScanOver
  <2>10. /\ doing' \in {"diagnose", "begin", "scan"}
         /\ doing' = "scan" => ~Leak(First(events, arrived'))
         /\ doing' = "diagnose" => Leak(First(events, arrived'))
    BY <2>7
  <2> QED
    BY <1>2, <2>3, <2>8, <2>9, <2>10 DEF MarkupInv
<1>5. CASE ScanEnds
  <2>1. doing = "scan" /\ doing' = "begin and end" /\ arrived' = arrived
    BY <1>5 DEF ScanEnds
  <2>2. arrived = 0 \/ ~Leak(First(events, arrived))
    BY <2>1 DEF MarkupInv
  <2>3. arrived = 0 \/ ~Leak(Scanned(events, arrived))
    BY <1>1, <2>2, ScannedLeaks
  <2> QED
    BY <1>2, <2>1, <2>3 DEF MarkupInv
<1>6. CASE ReadFails
  <2>1. doing' = "raised" /\ written' = <<>>
    BY <1>6 DEF ReadFails, BytesInv
  <2> QED
    BY <2>1 DEF MarkupInv
<1>7. CASE Begin
  <2>1. arrived' = arrived /\ written' = Bytes(arrived) /\ responses' # <<"diagnostic">>
    <3>1. responses = <<>> /\ buffered = Bytes(arrived)
      BY <1>7 DEF Begin, BytesInv
    <3>2. responses' = Append(<<>>, "relayed") /\ written' = Bytes(arrived)
          /\ arrived' = arrived
      BY <1>7, <3>1 DEF Begin, Respond
    <3> QED
      BY <3>2
  <2>2. CASE doing = "begin"
    <3>1. doing' = "stream" /\ (Inspects => ScanOver(events, arrived))
      BY <1>7, <2>2 DEF Begin, MarkupInv
    <3> QED
      BY <1>2, <2>1, <3>1 DEF MarkupInv
  <2>3. CASE doing = "begin and end"
    <3>1. doing' = "done" /\ (Inspects => arrived = 0 \/ ~Leak(Scanned(events, arrived)))
      BY <1>7, <2>3 DEF Begin, MarkupInv
    <3>2. Bytes(0) = <<>>
      BY BytesGrow
    <3> QED
      BY <1>2, <2>1, <3>1, <3>2 DEF MarkupInv
  <2> QED
    BY <1>7, <2>2, <2>3 DEF Begin
<1>8. CASE BeginBreaks
  <2>1. PICK n \in 0 .. Len(buffered) : written' = SubSeq(buffered, 1, n)
    BY <1>8 DEF BeginBreaks
  <2>2. buffered = Bytes(arrived) /\ arrived' = arrived /\ doing' = "raised"
        /\ doing \in {"begin", "begin and end"}
    BY <1>8 DEF BeginBreaks, BytesInv
  <2>3. arrived = 0 => written' = <<>>
    <3>1. Len(buffered) = arrived
      BY <1>1, <2>2, BytesGrow
    <3>2. arrived = 0 => n = 0
      BY <2>1, <3>1
    <3>3. Bytes(0) = <<>> /\ SubSeq(Bytes(0), 1, 0) = Bytes(0)
      BY BytesGrow, BytesFirst
    <3> QED
      BY <2>1, <2>2, <3>2, <3>3
  <2>4. Inspects => arrived = 0 \/ ~Leak(Scanned(events, arrived))
    BY <1>1, <2>2, ScanOverClean DEF MarkupInv
  <2> QED
    BY <1>2, <2>2, <2>3, <2>4 DEF MarkupInv
<1>9. CASE StreamChunk
  <2>1. PICK n \in ChunkSizes(ChunkSize) : arrived' = arrived + n
    BY <1>9 DEF StreamChunk
  <2>2. n \in Nat
    BY ChunkRight, RelayAssumption
  <2>3. arrived <= arrived' /\ doing = "stream" /\ doing' = "stream"
    BY <1>1, <1>9, <2>1, <2>2 DEF StreamChunk
  <2>4. ScanOver(events, arrived) => ScanOver(events, arrived')
    BY <1>1, <2>3 DEF ScanOver
  <2> QED
    BY <1>2, <2>3, <2>4 DEF MarkupInv
<1>10. CASE StreamEnds \/ StreamBreaks
  <2>1. doing = "stream" /\ doing' \in {"done", "raised"} /\ arrived' = arrived
    BY <1>10 DEF StreamEnds, StreamBreaks
  <2>2. responses' = <<"relayed">>
    BY <1>10, <2>1 DEF StreamEnds, StreamBreaks, BytesInv, clientVars
  <2>3. Inspects => ~Leak(Scanned(events, arrived))
    BY <1>1, <2>1, ScanOverClean DEF MarkupInv
  <2> QED
    BY <1>2, <2>1, <2>2, <2>3 DEF MarkupInv
<1>11. CASE SendDiagnostic
  <2>1. doing = "diagnose" /\ doing' = "done" /\ arrived' = arrived /\ written' = <<>>
    BY <1>11 DEF SendDiagnostic, BytesInv
  <2> QED
    BY <1>2, <2>1 DEF MarkupInv
<1> QED
  BY <1>3, <1>4, <1>5, <1>6, <1>7, <1>8, <1>9, <1>10, <1>11 DEF RelayStep

\* What does not touch the relay leaves it in order.
LEMMA RelayAlone ==
    ASSUME RelayInv, UNCHANGED relayVars, doing = "idle" \/ UNCHANGED responses
    PROVE  RelayInv'
<1>1. UNCHANGED <<events, success, looks, arrived, buffered, written, doing>>
  BY DEF relayVars, answerVars
<1>2. BytesInv'
  BY <1>1 DEF RelayInv, BytesInv, SentOrHeld
<1>3. Inspects' <=> Inspects
  BY <1>1 DEF Inspects
<1>4. MarkupInv'
  BY <1>1, <1>3 DEF RelayInv, MarkupInv
<1> QED
  BY <1>2, <1>4 DEF RelayInv

LEMMA RelayInvNext == AnswerInv /\ RelayInv /\ [ProxyNext]_proxyVars => RelayInv'
<1> SUFFICES ASSUME AnswerInv, RelayInv, [ProxyNext]_proxyVars
             PROVE  RelayInv'
  OBVIOUS
<1>1. CASE ProcessStep \/ UNCHANGED proxyVars
  BY <1>1, RelayAlone DEF ProcessStep, proxyVars, frontVars, clientVars
<1>2. CASE ProcessEnds \/ FailOver \/ RelayReturns \/ RelayRaises
  BY <1>2, LeaveKeeps DEF ProcessEnds, FailOver, RelayReturns, RelayRaises
<1>3. CASE FrontEndStep
  <2>1. UNCHANGED relayVars
    BY <1>3 DEF FrontEndStep
  <2>2. step # "relay" \/ UNCHANGED responses
    BY <1>3 DEF FrontEndStep, FrontStep, Receive, AnswerHealth, AnswerOther, AnswerModels,
       BodyUnreadable, ReadBody, BodyBreaks, Descend, Ascend, TooDeep, Sanitize, Forward,
       NotForwarded, ClientLeaves
  <2> QED
    BY <2>1, <2>2, RelayAlone DEF AnswerInv
<1>4. CASE Unserved \/ Cancelled \/ Attempt \/ AttemptFails
  <2>1. UNCHANGED relayVars /\ step # "relay"
    BY <1>4 DEF Unserved, Cancelled, Attempt, AttemptFails
  <2> QED
    BY <2>1, RelayAlone DEF AnswerInv
<1>5. CASE AttemptAnswers
  <2>1. responses = <<>> /\ UNCHANGED responses
    BY <1>5 DEF AttemptAnswers, AnswerInv, clientVars
  <2>2. PICK ok \in BOOLEAN : CallRelay(ok, config.diagnostic, streams)
    BY <1>5 DEF AttemptAnswers
  <2> QED
    BY <2>1, <2>2, CallKeeps
<1>6. CASE Relays
  BY <1>6, RelayBytes, RelayMarkup DEF Relays, RelayInv
<1> QED
  BY <1>1, <1>2, <1>3, <1>4, <1>5, <1>6 DEF ProxyNext

\* The relay's own steps, and what becomes of its result.
LEMMA RelayAnswers ==
    ASSUME StartInv, KeyInv, AnswerInv, RelayInv,
           Relays \/ FailOver \/ RelayReturns \/ RelayRaises
    PROVE  KeyInv' /\ AnswerInv'
<1>1. UNCHANGED <<server, config>>
  BY DEF Relays, FailOver, RelayReturns, RelayRaises, startupVars
<1>2. CASE Relays
  <2>1. step = "relay" /\ UNCHANGED <<step, token, key>>
    BY <1>2 DEF Relays
  <2>2. RelayStep
    BY <1>2 DEF Relays
  <2>3. doing' # "idle"
    BY <2>2 DEF RelayStep, ReadWhole, ScanChunk, AfterChunk, ScanEnds, ReadFails, Begin,
       BeginBreaks, StreamChunk, StreamEnds, StreamBreaks, SendDiagnostic
  <2>4. responses' \in {<<>>, <<"relayed">>, <<"diagnostic">>}
    <3>1. CASE Begin \/ BeginBreaks
      <4>1. responses = <<>> /\ responses' = Append(responses, "relayed")
        BY <3>1 DEF Begin, BeginBreaks, Respond, RelayInv, BytesInv
      <4> QED
        BY <4>1
    <3>2. CASE SendDiagnostic
      <4>1. responses = <<>> /\ responses' = Append(responses, "diagnostic")
        BY <3>2 DEF SendDiagnostic, Respond, RelayInv, BytesInv
      <4> QED
        BY <4>1
    <3>3. CASE ReadWhole \/ ScanChunk \/ ScanEnds \/ ReadFails \/ StreamChunk \/ StreamEnds
               \/ StreamBreaks
      BY <2>1, <3>3 DEF ReadWhole, ScanChunk, ScanEnds, ReadFails, StreamChunk, StreamEnds,
         StreamBreaks, clientVars, AnswerInv
    <3> QED
      BY <2>2, <3>1, <3>2, <3>3 DEF RelayStep
  <2> QED
    BY <1>1, <2>1, <2>3, <2>4 DEF KeyInv, AnswerInv
<1>3. CASE FailOver
  <2>1. step' = "queue" /\ config.mode = "pool" /\ doing' = "idle" /\ UNCHANGED token
        /\ step \in {"upstream", "relay"}
    BY <1>3 DEF FailOver, LeaveRelay
  <2>2. responses' = <<>>
    BY <1>3 DEF FailOver, Started, clientVars, AnswerInv
  <2> QED
    BY <1>1, <2>1, <2>2 DEF KeyInv, AnswerInv, Places
<1>4. CASE RelayReturns \/ RelayRaises
  <2>1. step' = "over" /\ token' = NoKey /\ doing' = "idle"
    BY <1>4 DEF RelayReturns, RelayRaises, Answer, Forget, LeaveRelay
  <2> QED
    BY <1>1, <2>1 DEF KeyInv, AnswerInv, Places
<1> QED
  BY <1>2, <1>3, <1>4

LEMMA AnswerInvNext ==
    StartInv /\ KeyInv /\ AnswerInv /\ RelayInv /\ [ProxyNext]_proxyVars
        => KeyInv' /\ AnswerInv'
<1> SUFFICES ASSUME StartInv, KeyInv, AnswerInv, RelayInv, [ProxyNext]_proxyVars
             PROVE  KeyInv' /\ AnswerInv'
  OBVIOUS
<1>1. CASE UNCHANGED proxyVars
  BY <1>1 DEF proxyVars, startupVars, frontVars, clientVars, relayVars, KeyInv, AnswerInv
<1> QED
  BY <1>1, ProcessAnswers, FrontEndAnswers, AttemptAnswersRight, RelayAnswers DEF ProxyNext

-----------------------------------------------------------------------------
\* The contract of a request

\* Wherever a request is, the steps of the process, of the front end and of the
\* attempts do what the contract allows.
LEMMA FrontContract ==
    ASSUME AnswerInv,
           ProcessStep \/ ProcessEnds \/ FrontEndStep \/ Unserved \/ Cancelled \/ Attempt
               \/ AttemptFails \/ AttemptAnswers
    PROVE  [Contract!Next]_(Contract!vars)
<1> USE DEF Contract!vars
<1>1. CASE ProcessStep
  BY <1>1 DEF ProcessStep, frontVars, clientVars, Phase, Started
<1>2. CASE ProcessEnds
  BY <1>2 DEF ProcessEnds, Phase, Contract!ProcessEnds, Contract!NoRequest, Contract!Next
<1>3. CASE Receive
  BY <1>3 DEF Receive, Phase, Started, Contract!Receive, Contract!Next
<1>4. ASSUME NEW what, Answer(what), step \notin {"none", "relay", "over"}
      PROVE  [Contract!Next]_(Contract!vars)
  <2>1. responses = <<>> /\ responses' = Append(<<>>, what) /\ UNCHANGED gone
        /\ step' = "over"
    BY <1>4 DEF Answer, Respond, AnswerInv
  <2>2. Len(responses') = 1
    BY <2>1
  <2> QED
    BY <1>4, <2>1, <2>2 DEF Phase, Started, Contract!BeginResponse, Contract!Next
<1>5. CASE AnswerHealth \/ AnswerOther \/ AnswerModels \/ BodyUnreadable \/ TooDeep
           \/ NotForwarded \/ Unserved \/ AttemptFails
  BY <1>4, <1>5 DEF AnswerHealth, AnswerOther, AnswerModels, BodyUnreadable, TooDeep,
     NotForwarded, Unserved, AttemptFails
<1>6. CASE ReadBody \/ Descend \/ Ascend \/ Sanitize \/ Forward \/ Attempt \/ AttemptAnswers
  BY <1>6 DEF ReadBody, Descend, Ascend, Sanitize, Forward, Attempt, AttemptAnswers,
     clientVars, AnswerInv, Phase, Started
<1>7. CASE BodyBreaks \/ Cancelled
  BY <1>7 DEF BodyBreaks, Cancelled, clientVars, AnswerInv, Phase, Started,
     Contract!GiveUp, Contract!Next
<1>8. CASE ClientLeaves
  BY <1>8 DEF ClientLeaves, Phase, Started, Contract!ClientLeaves, Contract!Next
<1> QED
  BY <1>1, <1>2, <1>3, <1>5, <1>6, <1>7, <1>8 DEF FrontEndStep, FrontStep

\* So do the steps of the relay, and what comes after it.
LEMMA RelayContract ==
    ASSUME AnswerInv, RelayInv, Relays \/ FailOver \/ RelayReturns \/ RelayRaises
    PROVE  [Contract!Next]_(Contract!vars)
<1> USE DEF Contract!vars
<1>1. ASSUME NEW what, Respond(what), responses = <<>>, step = "relay",
             step' = "relay" \/ step' = "over"
      PROVE  [Contract!Next]_(Contract!vars)
  <2>1. responses' = <<what>> /\ UNCHANGED gone
    BY <1>1 DEF Respond
  <2>2. Len(responses') = 1 /\ responses' # <<>>
    BY <2>1
  <2> QED
    BY <1>1, <2>1, <2>2 DEF Phase, Started, Contract!BeginResponse, Contract!Next
<1>2. CASE Relays
  <2>1. step = "relay" /\ step' = "relay" /\ RelayStep
    BY <1>2 DEF Relays
  <2>2. CASE Begin \/ BeginBreaks \/ SendDiagnostic
    <3>1. responses = <<>>
      BY <2>2 DEF Begin, BeginBreaks, SendDiagnostic, RelayInv, BytesInv
    <3> QED
      BY <1>1, <2>1, <2>2, <3>1 DEF Begin, BeginBreaks, SendDiagnostic
  <2>3. CASE ReadWhole \/ ScanChunk \/ ScanEnds \/ ReadFails \/ StreamChunk \/ StreamEnds
             \/ StreamBreaks
    BY <2>1, <2>3 DEF ReadWhole, ScanChunk, ScanEnds, ReadFails, StreamChunk, StreamEnds,
       StreamBreaks, clientVars, Phase, Started
  <2> QED
    BY <2>1, <2>2, <2>3 DEF RelayStep
<1>3. CASE FailOver
  BY <1>3 DEF FailOver, clientVars, AnswerInv, Phase, Started
<1>4. CASE RelayReturns
  <2>1. responses # <<>>
    BY <1>4 DEF RelayReturns, RelayInv, BytesInv
  <2> QED
    BY <1>4, <2>1 DEF RelayReturns, clientVars, Phase, Started, Contract!EndResponse,
       Contract!Next
<1>5. CASE RelayRaises
  <2>1. CASE Started
    BY <1>5, <2>1 DEF RelayRaises, clientVars, Phase, Started, Contract!EndResponse,
       Contract!Next
  <2>2. CASE ~Started
    BY <1>1, <1>5, <2>2 DEF RelayRaises, Answer, Started
  <2> QED
    BY <2>1, <2>2
<1> QED
  BY <1>2, <1>3, <1>4, <1>5

\* Every step of the proxy is one of the contract, or nothing to it.
LEMMA ContractNext ==
    AnswerInv /\ RelayInv /\ [ProxyNext]_proxyVars => [Contract!Next]_(Contract!vars)
<1> SUFFICES ASSUME AnswerInv, RelayInv, [ProxyNext]_proxyVars
             PROVE  [Contract!Next]_(Contract!vars)
  OBVIOUS
<1>1. CASE UNCHANGED proxyVars
  BY <1>1 DEF proxyVars, frontVars, clientVars, Phase, Started, Contract!vars
<1> QED
  BY <1>1, FrontContract, RelayContract DEF ProxyNext

-----------------------------------------------------------------------------
\* The nesting of a body

\* What the depth of a container is, given the depths of those before it.
DepthFrom(parents, g, i) == IF i = 1 THEN 1 ELSE 1 + g[parents[i]]

LEMMA NestingType ==
    ASSUME NEW parents \in Nestings
    PROVE  /\ Len(parents) \in Nat \ {0} /\ DOMAIN parents = 1 .. Len(parents)
           /\ 1 \in DOMAIN parents /\ parents[1] = 0
           /\ \A i \in DOMAIN parents \ {1} : parents[i] \in 1 .. i - 1
<1>1. parents \in Seq(Nat) /\ parents # <<>> /\ parents[1] = 0
      /\ \A i \in 2 .. Len(parents) : parents[i] \in 1 .. i - 1
  BY FrontEndAssumption
<1> QED
  BY <1>1

\* Depths exist, one container after the other.
LEMMA DepthsExist ==
    ASSUME NEW parents \in Nestings
    PROVE  \E g : g = [i \in DOMAIN parents |-> DepthFrom(parents, g, i)]
<1> DEFINE Works(g, k) == /\ g \in [1 .. k -> Nat]
                          /\ \A i \in 1 .. k : g[i] = DepthFrom(parents, g, i)
           Bad == {k \in 0 .. Len(parents) : ~ \E g : Works(g, k)}
<1>1. Len(parents) \in Nat
  BY NestingType
<1>2. ASSUME NEW k \in Bad, \A m \in Bad : k <= m
      PROVE  FALSE
  <2>1. CASE k = 0
    <3>1. Works([i \in 1 .. 0 |-> 0], 0)
      OBVIOUS
    <3> QED
      BY <2>1, <3>1
  <2>2. CASE k # 0
    <3>1. k - 1 \in 0 .. Len(parents) /\ ~(k <= k - 1)
      BY <1>1, <2>2
    <3>2. k - 1 \notin Bad
      <4> HIDE DEF Bad
      <4> QED
        BY <1>2, <3>1
    <3>3. PICK g : Works(g, k - 1)
      BY <3>1, <3>2
    <3> DEFINE h == [i \in 1 .. k |-> DepthFrom(parents, g, i)]
    <3>4. ASSUME NEW i \in 1 .. k, i # 1
          PROVE  parents[i] \in 1 .. k - 1
      <4>1. parents[i] \in 1 .. i - 1
        BY <1>1, <3>4, NestingType
      <4> QED
        BY <1>1, <4>1
    <3>5. \A i \in 1 .. k : h[i] \in Nat
      BY <3>3, <3>4 DEF DepthFrom
    <3>6. \A i \in 1 .. k - 1 : i \in 1 .. k /\ h[i] = g[i]
      BY <1>1, <3>3
    <3>7. \A i \in 1 .. k : h[i] = DepthFrom(parents, h, i)
      BY <3>4, <3>6 DEF DepthFrom
    <3>8. Works(h, k)
      BY <3>5, <3>7
    <3> QED
      BY <3>8
  <2> QED
    BY <2>1, <2>2
<1>3. Bad = {}
  <2>1. Bad \subseteq Nat
    OBVIOUS
  <2> HIDE DEF Bad
  <2> QED
    BY <1>2, <2>1, LeastNumber
<1>4. PICK g : Works(g, Len(parents))
  BY <1>1, <1>3
<1>5. DOMAIN parents = 1 .. Len(parents)
  BY NestingType
<1>6. g = [i \in DOMAIN parents |-> DepthFrom(parents, g, i)]
  BY <1>4, <1>5
<1> QED
  BY <1>6

\* The depth of a container is one more than that of the one it is in, and it is no
\* more than the number of containers up to it.
LEMMA DepthsRight ==
    ASSUME NEW parents \in Nestings
    PROVE  \A i \in DOMAIN parents :
               /\ Depths(parents)[i] = DepthFrom(parents, Depths(parents), i)
               /\ Depths(parents)[i] \in 1 .. i
<1> DEFINE d == CHOOSE g : g = [i \in DOMAIN parents |-> DepthFrom(parents, g, i)]
           Bad == {i \in DOMAIN parents : d[i] \notin 1 .. i}
<1>1. Depths(parents) = d
  BY DEF Depths, DepthFrom
<1>2. d = [i \in DOMAIN parents |-> DepthFrom(parents, d, i)]
  BY DepthsExist
<1> HIDE DEF d
<1>3. \A i \in DOMAIN parents : d[i] = DepthFrom(parents, d, i)
  BY <1>2
<1>4. ASSUME NEW i \in Bad, \A j \in Bad : i <= j
      PROVE  FALSE
  <2>1. i \in DOMAIN parents /\ i \in Nat
    BY NestingType
  <2>2. i # 1
    BY <1>3, <2>1 DEF DepthFrom
  <2>3. parents[i] \in 1 .. i - 1 /\ parents[i] \in DOMAIN parents
    BY <2>1, <2>2, NestingType
  <2>4. ~(i <= parents[i])
    BY <2>1, <2>3
  <2>5. d[parents[i]] \in 1 .. parents[i]
    <3>1. parents[i] \notin Bad
      <4> HIDE DEF Bad
      <4> QED
        BY <1>4, <2>4
    <3> QED
      BY <2>3, <3>1
  <2>6. d[i] = 1 + d[parents[i]]
    BY <1>3, <2>1, <2>2 DEF DepthFrom
  <2>7. d[i] \in 1 .. i
    BY <2>1, <2>3, <2>5, <2>6
  <2> QED
    BY <2>7
<1>5. Bad = {}
  <2>1. Bad \subseteq Nat
    BY NestingType
  <2> HIDE DEF Bad
  <2> QED
    BY <1>4, <2>1, LeastNumber
<1> QED
  BY <1>1, <1>3, <1>5

\* The depth of a body is that of the deepest container.
LEMMA DepthRight ==
    ASSUME NEW parents \in Nestings
    PROVE  /\ Depth(parents) \in Nat
           /\ \E i \in DOMAIN parents : Depth(parents) = Depths(parents)[i]
           /\ \A i \in DOMAIN parents : Depths(parents)[i] <= Depth(parents)
<1> DEFINE T == {Depths(parents)[i] : i \in DOMAIN parents}
<1>1. T # {} /\ Len(parents) \in Nat
  BY NestingType
<1>2. \A i \in DOMAIN parents :
          Depths(parents)[i] \in Nat /\ Depths(parents)[i] <= Len(parents)
  BY DepthsRight, NestingType
<1>3. T \subseteq Nat /\ \A n \in T : n <= Len(parents)
  BY <1>2
<1>4. Depth(parents) = Max(T)
  BY DEF Depth
<1>5. \A i \in DOMAIN parents : Depths(parents)[i] \in T
  OBVIOUS
<1>6. \A n \in T : \E i \in DOMAIN parents : n = Depths(parents)[i]
  OBVIOUS
<1> HIDE DEF T
<1>7. Max(T) \in T /\ \A n \in T : n <= Max(T)
  BY <1>1, <1>3, GreatestNumber
<1> QED
  BY <1>3, <1>4, <1>5, <1>6, <1>7

\* The containers in a container are one deeper.
LEMMA InsideDeeper ==
    ASSUME NEW parents \in Nestings, NEW i \in DOMAIN parents, NEW j \in Inside(parents, i)
    PROVE  j \in DOMAIN parents /\ j # 1 /\ Depths(parents)[j] = 1 + Depths(parents)[i]
<1>1. j \in DOMAIN parents /\ parents[j] = i
  BY DEF Inside
<1>2. j # 1
  BY <1>1, NestingType
<1> QED
  BY <1>1, <1>2, DepthsRight DEF DepthFrom

\* A set with the body, and with what is in any container of it, has all containers.
LEMMA AllVisited ==
    ASSUME NEW parents \in Nestings, NEW visited, 1 \in visited,
           \A i \in DOMAIN parents \ {1} : parents[i] \in visited => i \in visited
    PROVE  DOMAIN parents \subseteq visited
<1> DEFINE Bad == DOMAIN parents \ visited
<1>1. ASSUME NEW i \in Bad, \A j \in Bad : i <= j
      PROVE  FALSE
  <2>1. i \in DOMAIN parents \ {1} /\ i \in Nat /\ parents[i] \notin visited
    BY NestingType
  <2>2. parents[i] \in 1 .. i - 1 /\ parents[i] \in DOMAIN parents
    BY <2>1, NestingType
  <2>3. ~(i <= parents[i])
    BY <2>1, <2>2
  <2> QED
    BY <1>1, <2>1, <2>2, <2>3
<1>2. Bad \subseteq Nat
  BY NestingType
<1> HIDE DEF Bad
<1>3. Bad = {}
  BY <1>1, <1>2, LeastNumber
<1> QED
  BY <1>3 DEF Bad

\* The walk begins with the body itself, which is not too deep.
LEMMA WalkBegins ==
    ASSUME ReadBody
    PROVE  WalkInv'
<1>1. nesting' \in Nestings /\ frames' = <<Inside(nesting', 1)>>
  BY DEF ReadBody
<1>2. PICK parents \in Nestings : nesting' = parents
  BY <1>1
<1>3. 1 \in DOMAIN parents /\ Depths(parents)[1] = 1
  BY NestingType, DepthsRight DEF DepthFrom
<1>4. Inside(parents, 1) \in SUBSET DOMAIN parents
  BY DEF Inside
<1>5. /\ frames' \in Seq(SUBSET DOMAIN parents)
      /\ Len(frames') = 1 /\ frames'[1] = Inside(parents, 1)
  BY <1>1, <1>2, <1>4
<1>6. Len(frames') <= MaxJsonDepth
  BY <1>5, FrontEndAssumption
<1>7. \A k \in 1 .. Len(frames') : \A j \in frames'[k] : Depths(parents)[j] = k + 1
  BY <1>3, <1>5, InsideDeeper
<1>8. /\ {1} \in SUBSET DOMAIN parents /\ 1 \in {1}
      /\ \A i \in {1} : Depths(parents)[i] <= MaxJsonDepth
      /\ \A i \in DOMAIN parents \ {1} :
             parents[i] \in {1} => i \in {1} \/ \E k \in 1 .. Len(frames') : i \in frames'[k]
  BY <1>3, <1>5, FrontEndAssumption DEF Inside
<1>9. \E visited \in SUBSET DOMAIN parents :
          /\ 1 \in visited
          /\ \A i \in visited : Depths(parents)[i] <= MaxJsonDepth
          /\ \A i \in DOMAIN parents \ {1} :
                 parents[i] \in visited =>
                     i \in visited \/ \E k \in 1 .. Len(frames') : i \in frames'[k]
  BY <1>8
<1> QED
  BY <1>2, <1>5, <1>6, <1>7, <1>9 DEF WalkInv

\* The next container of the innermost open one.
LEMMA NextRight ==
    ASSUME WalkInv, step = "depth", frames # <<>>, Last(frames) # {}
    PROVE  /\ Len(frames) \in Nat \ {0} /\ NextInside \in frames[Len(frames)]
           /\ NextInside \in DOMAIN nesting
           /\ Depths(nesting)[NextInside] = Len(frames) + 1
<1>1. frames \in Seq(SUBSET DOMAIN nesting) /\ nesting \in Nestings
      /\ \A k \in 1 .. Len(frames) : \A j \in frames[k] : Depths(nesting)[j] = k + 1
  BY DEF WalkInv
<1>2. Len(frames) \in Nat \ {0} /\ Last(frames) = frames[Len(frames)]
      /\ Last(frames) \subseteq DOMAIN nesting
  BY <1>1 DEF Last
<1>3. Last(frames) \subseteq Nat
  BY <1>1, <1>2, NestingType
<1>4. NextInside \in Last(frames)
  BY <1>3, MinOfSome DEF NextInside
<1> QED
  BY <1>1, <1>2, <1>4

\* Into a container: it counts as visited, and what is in it is still to come.
LEMMA WalkDescends ==
    ASSUME WalkInv, Descend
    PROVE  WalkInv'
<1>1. step = "depth" /\ frames # <<>> /\ Last(frames) # {} /\ Len(frames) < MaxJsonDepth
      /\ nesting' = nesting
  BY DEF Descend, MayDescend
<1>2. PICK parents \in Nestings : nesting = parents
  BY <1>1 DEF WalkInv
<1>3. PICK n : n = Len(frames)
  OBVIOUS
<1>4. PICK next : next = NextInside
  OBVIOUS
<1>5. /\ n \in Nat \ {0} /\ next \in frames[n] /\ next \in DOMAIN parents
      /\ Depths(parents)[next] = n + 1
  BY <1>1, <1>2, <1>3, <1>4, NextRight
<1>6. n < MaxJsonDepth /\ MaxJsonDepth \in Nat
  BY <1>1, <1>3, FrontEndAssumption
<1>7. frames \in Seq(SUBSET DOMAIN parents)
      /\ \A k \in 1 .. n : \A j \in frames[k] : Depths(parents)[j] = k + 1
  BY <1>1, <1>2, <1>3 DEF WalkInv
<1>8. PICK inside : inside = Inside(parents, next)
  OBVIOUS
<1>9. inside \in SUBSET DOMAIN parents /\ \A j \in inside : Depths(parents)[j] = n + 2
  <2>1. inside \in SUBSET DOMAIN parents
    BY <1>8 DEF Inside
  <2>2. ASSUME NEW j \in inside
        PROVE  Depths(parents)[j] = n + 2
    <3>1. Depths(parents)[j] = 1 + (n + 1)
      BY <1>5, <1>8, InsideDeeper
    <3> QED
      BY <1>5, <3>1
  <2> QED
    BY <2>1, <2>2
<1>10. frames' = Append([frames EXCEPT ![n] = @ \ {next}], inside)
  BY <1>2, <1>3, <1>4, <1>8 DEF Descend
<1>11. /\ frames' \in Seq(SUBSET DOMAIN parents) /\ Len(frames') = n + 1
       /\ frames'[n + 1] = inside /\ frames'[n] = frames[n] \ {next}
       /\ \A k \in 1 .. n - 1 : frames'[k] = frames[k]
  <2>1. PICK cut : cut = [frames EXCEPT ![n] = @ \ {next}]
    OBVIOUS
  <2>2. frames[n] \in SUBSET DOMAIN parents
    BY <1>3, <1>5, <1>7
  <2>3. cut \in Seq(SUBSET DOMAIN parents) /\ Len(cut) = n /\ cut[n] = frames[n] \ {next}
        /\ \A k \in 1 .. n - 1 : cut[k] = frames[k]
    BY <1>3, <1>5, <1>7, <2>1, <2>2
  <2> QED
    BY <1>5, <1>9, <1>10, <2>1, <2>3
<1>12. Len(frames') <= MaxJsonDepth
  BY <1>5, <1>6, <1>11
<1>13. \A k \in 1 .. Len(frames') : \A j \in frames'[k] : Depths(parents)[j] = k + 1
  <2> SUFFICES ASSUME NEW k \in 1 .. n + 1, NEW j \in frames'[k]
               PROVE  Depths(parents)[j] = k + 1
    BY <1>11
  <2>1. CASE k = n + 1
    BY <1>5, <1>9, <1>11, <2>1
  <2>2. CASE k # n + 1
    <3>1. k \in 1 .. n /\ j \in frames[k]
      BY <1>5, <1>11, <2>2
    <3> QED
      BY <1>7, <3>1
  <2> QED
    BY <2>1, <2>2
<1>14. PICK visited \in SUBSET DOMAIN parents :
           /\ 1 \in visited
           /\ \A i \in visited : Depths(parents)[i] <= MaxJsonDepth
           /\ \A i \in DOMAIN parents \ {1} :
                  parents[i] \in visited => i \in visited \/ \E k \in 1 .. n : i \in frames[k]
  BY <1>1, <1>2, <1>3 DEF WalkInv
<1>15. PICK more : more = visited \cup {next}
  OBVIOUS
<1>16. more \in SUBSET DOMAIN parents /\ 1 \in more
       /\ \A i \in more : Depths(parents)[i] <= MaxJsonDepth
  BY <1>5, <1>6, <1>14, <1>15
<1>17. ASSUME NEW i \in DOMAIN parents \ {1}, parents[i] \in more, i \notin more
       PROVE  \E k \in 1 .. Len(frames') : i \in frames'[k]
  <2>1. CASE parents[i] = next
    BY <1>5, <1>8, <1>11, <2>1 DEF Inside
  <2>2. CASE parents[i] # next
    <3>1. PICK k \in 1 .. n : i \in frames[k]
      BY <1>14, <1>15, <1>17, <2>2
    <3>2. i \in frames'[k]
      BY <1>5, <1>11, <1>15, <1>17, <3>1
    <3> QED
      BY <1>5, <1>11, <3>2
  <2> QED
    BY <2>1, <2>2
<1>18. \E v \in SUBSET DOMAIN parents :
          /\ 1 \in v
          /\ \A i \in v : Depths(parents)[i] <= MaxJsonDepth
          /\ \A i \in DOMAIN parents \ {1} :
                 parents[i] \in v => i \in v \/ \E k \in 1 .. Len(frames') : i \in frames'[k]
  BY <1>16, <1>17
<1> QED
  BY <1>1, <1>2, <1>11, <1>12, <1>13, <1>18 DEF WalkInv

\* Out of a container that has no more in it.
LEMMA WalkAscends ==
    ASSUME WalkInv, Ascend
    PROVE  WalkInv'
<1>1. step = "depth" /\ frames # <<>> /\ Last(frames) = {} /\ frames' = Front(frames)
      /\ nesting' = nesting
  BY DEF Ascend
<1>2. PICK parents \in Nestings : nesting = parents
  BY <1>1 DEF WalkInv
<1>3. PICK n : n = Len(frames)
  OBVIOUS
<1>4. frames \in Seq(SUBSET DOMAIN parents) /\ n <= MaxJsonDepth
      /\ \A k \in 1 .. n : \A j \in frames[k] : Depths(parents)[j] = k + 1
  BY <1>1, <1>2, <1>3 DEF WalkInv
<1>5. n \in Nat \ {0} /\ frames[n] = {}
  BY <1>1, <1>3, <1>4 DEF Last
<1>6. frames' \in Seq(SUBSET DOMAIN parents) /\ Len(frames') = n - 1
      /\ \A k \in 1 .. n - 1 : frames'[k] = frames[k]
  BY <1>1, <1>3, <1>4, <1>5 DEF Front
<1>7. Len(frames') <= MaxJsonDepth
  BY <1>4, <1>5, <1>6, FrontEndAssumption
<1>8. \A k \in 1 .. Len(frames') : \A j \in frames'[k] : Depths(parents)[j] = k + 1
  BY <1>4, <1>5, <1>6
<1>9. \A i : (\E k \in 1 .. n : i \in frames[k]) =>
                 \E k \in 1 .. Len(frames') : i \in frames'[k]
  BY <1>5, <1>6
<1>10. \E v \in SUBSET DOMAIN parents :
          /\ 1 \in v
          /\ \A i \in v : Depths(parents)[i] <= MaxJsonDepth
          /\ \A i \in DOMAIN parents \ {1} :
                 parents[i] \in v => i \in v \/ \E k \in 1 .. n : i \in frames[k]
  BY <1>1, <1>2, <1>3 DEF WalkInv
<1>11. \E v \in SUBSET DOMAIN parents :
          /\ 1 \in v
          /\ \A i \in v : Depths(parents)[i] <= MaxJsonDepth
          /\ \A i \in DOMAIN parents \ {1} :
                 parents[i] \in v => i \in v \/ \E k \in 1 .. Len(frames') : i \in frames'[k]
  BY <1>9, <1>10
<1> QED
  BY <1>1, <1>2, <1>6, <1>7, <1>8, <1>11 DEF WalkInv

\* A walk that has come to its end has found nothing that is too deep.
LEMMA WalkEnds ==
    ASSUME WalkInv, step = "depth", frames = <<>>
    PROVE  Depth(nesting) <= MaxJsonDepth
<1>1. PICK parents \in Nestings : nesting = parents
  BY DEF WalkInv
<1>2. Len(frames) = 0
  OBVIOUS
<1>3. PICK visited \in SUBSET DOMAIN parents :
          /\ 1 \in visited
          /\ \A i \in visited : Depths(parents)[i] <= MaxJsonDepth
          /\ \A i \in DOMAIN parents \ {1} :
                 parents[i] \in visited =>
                     i \in visited \/ \E k \in 1 .. Len(frames) : i \in frames[k]
  BY <1>1 DEF WalkInv
<1>4. \A i \in DOMAIN parents \ {1} : parents[i] \in visited => i \in visited
  BY <1>2, <1>3
<1>5. DOMAIN parents \subseteq visited
  BY <1>3, <1>4, AllVisited
<1>6. \A i \in DOMAIN parents : Depths(parents)[i] <= MaxJsonDepth
  BY <1>3, <1>5
<1> QED
  BY <1>1, <1>6, DepthRight

\* A walk that is not allowed to go on has found something that is.
LEMMA WalkTooDeep ==
    ASSUME WalkInv, TooDeep
    PROVE  Depth(nesting) > MaxJsonDepth
<1>1. step = "depth" /\ frames # <<>> /\ Last(frames) # {} /\ ~(Len(frames) < MaxJsonDepth)
  BY DEF TooDeep, MayDescend
<1>2. PICK parents \in Nestings : nesting = parents
  BY <1>1 DEF WalkInv
<1>3. PICK next : next = NextInside
  OBVIOUS
<1>4. Len(frames) \in Nat /\ next \in DOMAIN parents /\ Depths(parents)[next] = Len(frames) + 1
  BY <1>1, <1>2, <1>3, NextRight
<1>5. Depths(parents)[next] <= Depth(parents) /\ Depth(parents) \in Nat
  BY <1>4, DepthRight
<1> QED
  BY <1>1, <1>2, <1>4, <1>5, FrontEndAssumption

LEMMA WalkInvNext ==
    StartInv /\ AnswerInv /\ WalkInv /\ [ProxyNext]_proxyVars => WalkInv'
<1> SUFFICES ASSUME StartInv, AnswerInv, WalkInv, [ProxyNext]_proxyVars
             PROVE  WalkInv'
  OBVIOUS
<1>1. CASE ReadBody \/ Descend \/ Ascend
  BY <1>1, WalkBegins, WalkDescends, WalkAscends
<1>2. CASE ProcessStep \/ ClientLeaves \/ UNCHANGED proxyVars
  <2>1. UNCHANGED <<step, nesting, frames>>
    BY <1>2 DEF ProcessStep, ClientLeaves, proxyVars, frontVars, bodyVars
  <2> QED
    BY <2>1 DEF WalkInv
<1>3. CASE Relays
  BY <1>3 DEF Relays, WalkInv
<1>4. CASE \/ ProcessEnds \/ Receive \/ AnswerHealth \/ AnswerOther \/ AnswerModels
           \/ BodyUnreadable \/ BodyBreaks \/ TooDeep \/ Sanitize \/ Forward \/ NotForwarded
           \/ Unserved \/ Cancelled \/ Attempt \/ AttemptFails \/ AttemptAnswers
           \/ FailOver \/ RelayReturns \/ RelayRaises
  <2>1. step' # "depth"
    BY <1>4 DEF ProcessEnds, Receive, AnswerHealth, AnswerOther, AnswerModels,
       BodyUnreadable, BodyBreaks, TooDeep, Sanitize, Forward, NotForwarded, Answer,
       Unserved, Cancelled, Attempt, AttemptFails, AttemptAnswers,
       FailOver, RelayReturns, RelayRaises
  <2> QED
    BY <2>1 DEF WalkInv
<1> QED
  BY <1>1, <1>2, <1>3, <1>4 DEF ProxyNext, FrontEndStep, FrontStep

\* No other response is the one to a body that is nested too deeply.
LEMMA OtherWords ==
    /\ <<>> # <<"too deep">>
    /\ \A what : what # "too deep" => <<what>> # <<"too deep">>
<1>1. ASSUME NEW what, <<what>> = <<"too deep">>
      PROVE  what = "too deep"
  <2>1. <<what>>[1] = <<"too deep">>[1]
    BY <1>1
  <2> QED
    BY <2>1
<1>2. <<>> # <<"too deep">>
  OBVIOUS
<1> QED
  BY <1>1, <1>2

LEMMA BodyInvNext ==
    AnswerInv /\ AnswerInv' /\ WalkInv /\ BodyInv /\ [ProxyNext]_proxyVars => BodyInv'
<1> SUFFICES ASSUME AnswerInv, AnswerInv', WalkInv, BodyInv, [ProxyNext]_proxyVars
             PROVE  BodyInv'
  OBVIOUS
<1>1. CASE ProcessStep \/ UNCHANGED proxyVars
  <2>1. UNCHANGED <<step, nesting, responses, body, profile, sent>>
    BY <1>1 DEF ProcessStep, proxyVars, frontVars, bodyVars, clientVars
  <2> QED
    BY <2>1 DEF BodyInv
<1>2. CASE ClientLeaves
  <2>1. UNCHANGED <<step, nesting, responses, body, profile, sent>>
    BY <1>2 DEF ClientLeaves, bodyVars
  <2> QED
    BY <2>1 DEF BodyInv
<1>3. CASE TooDeep
  <2>1. step' = "over" /\ nesting' = nesting
    BY <1>3 DEF TooDeep, Answer, bodyVars
  <2> QED
    BY <1>3, <2>1, WalkTooDeep DEF BodyInv
<1>4. CASE Sanitize
  <2>1. responses' = <<>> /\ nesting' = nesting
    BY <1>4 DEF Sanitize, AnswerInv, clientVars
  <2>2. Depth(nesting) <= MaxJsonDepth
    BY <1>4, WalkEnds DEF Sanitize
  <2>3. profile' \in Profiles /\ sent' = Sanitized(body', profile')
    BY <1>4 DEF Sanitize
  <2> QED
    BY <2>1, <2>2, <2>3 DEF BodyInv
<1>5. CASE \/ ProcessEnds \/ Receive \/ ReadBody \/ Descend \/ Ascend \/ Forward
           \/ Attempt \/ AttemptAnswers \/ FailOver
  <2>1. step' \notin {"over", "forward"}
    BY <1>5 DEF ProcessEnds, Receive, ReadBody, Descend, Ascend, Forward, Attempt,
       AttemptAnswers, FailOver
  <2>2. responses' # <<"too deep">>
    BY <2>1, OtherWords DEF AnswerInv
  <2> QED
    BY <2>1, <2>2 DEF BodyInv
<1>6. CASE Relays
  <2>1. step' = "relay"
    BY <1>6 DEF Relays
  <2>2. responses' # <<"too deep">>
    BY <2>1, OtherWords DEF AnswerInv
  <2> QED
    BY <2>1, <2>2 DEF BodyInv
<1>7. CASE \/ AnswerHealth \/ AnswerOther \/ AnswerModels \/ BodyUnreadable \/ NotForwarded
           \/ Unserved \/ AttemptFails \/ (RelayRaises /\ ~Started)
  <2>1. \E what \in {"ok", "error"} : Answer(what)
    BY <1>7 DEF AnswerHealth, AnswerOther, AnswerModels, BodyUnreadable, NotForwarded,
       Unserved, AttemptFails, RelayRaises
  <2>2. responses = <<>>
    BY <1>7 DEF AnswerHealth, AnswerOther, AnswerModels, BodyUnreadable, NotForwarded,
       Unserved, AttemptFails, RelayRaises, Started, AnswerInv
  <2>3. step' = "over" /\ responses' \in {<<"ok">>, <<"error">>}
    BY <2>1, <2>2 DEF Answer, Respond
  <2>4. responses' # <<"too deep">>
    BY <2>3, OtherWords
  <2> QED
    BY <2>3, <2>4 DEF BodyInv
<1>8. CASE BodyBreaks \/ Cancelled \/ RelayReturns \/ (RelayRaises /\ Started)
  <2>1. step \notin {"none", "over"} /\ step' = "over" /\ UNCHANGED responses
    BY <1>8 DEF BodyBreaks, Cancelled, RelayReturns, RelayRaises, clientVars
  <2> QED
    BY <2>1 DEF BodyInv
<1> QED
  BY <1>1, <1>2, <1>3, <1>4, <1>5, <1>6, <1>7, <1>8 DEF ProxyNext, FrontEndStep, FrontStep

-----------------------------------------------------------------------------
\* The sanitizer

\* The effort that is sent is one that the profile has, and the one that the client
\* asks for where the API has it if that is allowed.
LEMMA EffortRight ==
    ASSUME NEW b, NEW p \in Profiles
    PROVE  /\ Effort(b, p) \in p.efforts \cup {p.default}
           /\ b.own.effort \in p.efforts => Effort(b, p) = b.own.effort
<1>1. Missing \notin p.efforts
  BY SanitizerAssumption
<1>2. b.own.effort \in p.efforts => Requested(b, p) = b.own.effort
  <2> SUFFICES ASSUME b.own.effort \in p.efforts
               PROVE  Requested(b, p) = b.own.effort
    OBVIOUS
  <2>1. Asks(b.own, p) = b.own.effort /\ b.own.effort # Missing
    BY <1>1 DEF Asks
  <2> DEFINE asked == <<Asks(b.own, p), Asks(b.extra_body, p), Asks(b.extraBody, p)>>
             heard == CHOOSE i \in 1 .. 3 :
                          asked[i] # Missing /\ \A j \in 1 .. i - 1 : asked[j] = Missing
  <2>2. asked[1] = b.own.effort
    BY <2>1
  <2>3. Requested(b, p) =
            IF \A i \in 1 .. 3 : asked[i] = Missing THEN Missing ELSE asked[heard]
    BY DEF Requested
  <2> HIDE DEF asked
  <2>4. asked[1] # Missing /\ \A j \in 1 .. 1 - 1 : asked[j] = Missing
    BY <2>1, <2>2
  <2>5. heard \in 1 .. 3 /\ \A j \in 1 .. heard - 1 : asked[j] = Missing
    BY <2>4
  <2> HIDE DEF heard
  <2>6. heard = 1
    BY <2>4, <2>5
  <2> QED
    BY <2>2, <2>3, <2>4, <2>6
<1> QED
  BY <1>2 DEF Effort

\* When only a body itself asks for an effort, that is what is requested.
LEMMA RequestedAlone ==
    ASSUME NEW b, NEW p, b.extra_body = NoSource, b.extraBody = NoSource
    PROVE  Requested(b, p) = Asks(b.own, p)
<1>1. Asks(NoSource, p) = Missing
  BY DEF Asks, NoSource, Source, Missing
<1> DEFINE asked == <<Asks(b.own, p), Missing, Missing>>
           heard == CHOOSE i \in 1 .. 3 :
                        asked[i] # Missing /\ \A j \in 1 .. i - 1 : asked[j] = Missing
<1>2. asked[1] = Asks(b.own, p) /\ asked[2] = Missing /\ asked[3] = Missing
  OBVIOUS
<1>3. Requested(b, p) = IF \A i \in 1 .. 3 : asked[i] = Missing THEN Missing ELSE asked[heard]
  BY <1>1 DEF Requested
<1> HIDE DEF asked
<1>4. CASE asked[1] = Missing
  <2>1. \A i \in 1 .. 3 : asked[i] = Missing
    BY <1>2, <1>4
  <2> QED
    BY <1>2, <1>3, <1>4, <2>1
<1>5. CASE asked[1] # Missing
  <2>1. asked[1] # Missing /\ \A j \in 1 .. 1 - 1 : asked[j] = Missing
    BY <1>5
  <2>2. heard \in 1 .. 3 /\ asked[heard] # Missing
    BY <2>1
  <2> HIDE DEF heard
  <2>3. heard = 1
    BY <1>2, <2>2
  <2> QED
    BY <1>2, <1>3, <1>5, <2>3
<1> QED
  BY <1>4, <1>5

\* The first source that asks is the one that is heard.
LEMMA FirstAskerHeard ==
    ASSUME NEW b, NEW p
    PROVE  /\ Asks(b.own, p) # Missing => Requested(b, p) = Asks(b.own, p)
           /\ Asks(b.own, p) = Missing /\ Asks(b.extra_body, p) # Missing
              => Requested(b, p) = Asks(b.extra_body, p)
           /\ Asks(b.own, p) = Missing /\ Asks(b.extra_body, p) = Missing
              /\ Asks(b.extraBody, p) # Missing
              => Requested(b, p) = Asks(b.extraBody, p)
<1> DEFINE asked == <<Asks(b.own, p), Asks(b.extra_body, p), Asks(b.extraBody, p)>>
           heard == CHOOSE i \in 1 .. 3 :
                        asked[i] # Missing /\ \A j \in 1 .. i - 1 : asked[j] = Missing
<1>1. Requested(b, p) = IF \A i \in 1 .. 3 : asked[i] = Missing THEN Missing ELSE asked[heard]
  BY DEF Requested
<1>2. /\ asked[1] = Asks(b.own, p) /\ asked[2] = Asks(b.extra_body, p)
      /\ asked[3] = Asks(b.extraBody, p)
  OBVIOUS
<1> HIDE DEF asked
<1>3. ASSUME NEW n \in 1 .. 3,
             asked[n] # Missing /\ \A j \in 1 .. n - 1 : asked[j] = Missing
      PROVE  Requested(b, p) = asked[n]
  <2>1. heard \in 1 .. 3 /\ asked[heard] # Missing
        /\ \A j \in 1 .. heard - 1 : asked[j] = Missing
    BY <1>3
  <2> HIDE DEF heard
  <2>2. ~(heard < n) /\ ~(n < heard)
    BY <1>3, <2>1
  <2>3. heard = n
    BY <2>1, <2>2
  <2> QED
    BY <1>1, <1>3, <2>3
<1>4. asked[1] # Missing => Requested(b, p) = asked[1]
  BY <1>3
<1>5. asked[1] = Missing /\ asked[2] # Missing => Requested(b, p) = asked[2]
  BY <1>3
<1>6. asked[1] = Missing /\ asked[2] = Missing /\ asked[3] # Missing
      => Requested(b, p) = asked[3]
  BY <1>3
<1> QED
  BY <1>2, <1>4, <1>5, <1>6

\* What is sent asks for the same effort again.
LEMMA OwnSettled ==
    ASSUME NEW b, NEW p \in Profiles
    PROVE  CleanedOwn(Sanitized(b, p), p) = CleanedOwn(b, p)
<1>1. PICK s : s = Sanitized(b, p)
  OBVIOUS
<1>2. s.own = CleanedOwn(b, p) /\ s.extra_body = NoSource /\ s.extraBody = NoSource
  BY <1>1 DEF Sanitized, Body
<1>3. Requested(s, p) = Asks(s.own, p)
  BY <1>2, RequestedAlone
<1>4. PICK e : e = Effort(b, p)
  OBVIOUS
<1>5. e \in p.efforts \cup {p.default}
  BY <1>4, EffortRight
<1>6. CASE p.location = "body"
  <2>1. CleanedOwn(b, p) = Source(e, Missing, Missing)
    BY <1>4, <1>6 DEF CleanedOwn
  <2>2. Asks(s.own, p) = e
    BY <1>2, <1>6, <2>1 DEF Asks, Source
  <2>3. Effort(s, p) = e
    BY <1>3, <1>5, <2>2 DEF Effort
  <2> QED
    BY <1>1, <1>6, <2>1, <2>3 DEF CleanedOwn
<1>7. CASE p.location = "chat_template"
  <2>1. "none" \in p.efforts /\ e \in p.efforts /\ Missing \notin p.efforts
    BY <1>5, <1>7, SanitizerAssumption
  <2>2. CleanedOwn(b, p) = IF e = "none" THEN Source(Missing, "false", Missing)
                           ELSE Source(Missing, "true", e)
    BY <1>4, <1>7 DEF CleanedOwn
  <2>3. Asks(s.own, p) = e
    BY <1>2, <1>7, <2>2 DEF Asks, Source
  <2>4. Effort(s, p) = e
    BY <1>3, <2>1, <2>3 DEF Effort
  <2> QED
    BY <1>1, <1>7, <2>2, <2>4 DEF CleanedOwn
<1>8. CASE p.location \notin {"body", "chat_template"}
  BY <1>8 DEF CleanedOwn
<1> QED
  BY <1>6, <1>7, <1>8

\* The plain fields that are sent are safe, and they are sent again.
LEMMA PlainSettled ==
    ASSUME NEW plain, NEW p \in Profiles
    PROVE  /\ DOMAIN CleanedPlain(plain, p) \subseteq SafeFields \ p.excluded
           /\ CleanedPlain(CleanedPlain(plain, p), p) = CleanedPlain(plain, p)
<1>1. PICK c : c = CleanedPlain(plain, p)
  OBVIOUS
<1>2. c = [f \in DOMAIN c |-> c[f]]
  BY <1>1 DEF CleanedPlain
<1>3. DOMAIN c = KeptFields(plain, p) \cup (IF Renamed(plain) THEN {"max_tokens"} ELSE {})
  BY <1>1 DEF CleanedPlain
<1>4. DOMAIN c \subseteq SafeFields \ p.excluded
  BY <1>3, SanitizerAssumption DEF KeptFields
<1>5. KeptFields(c, p) = DOMAIN c /\ ~Renamed(c)
  BY <1>4, SanitizerAssumption DEF KeptFields, Renamed
<1>6. CleanedPlain(c, p) = [f \in DOMAIN c |-> c[f]]
  BY <1>5 DEF CleanedPlain
<1> QED
  BY <1>1, <1>2, <1>4, <1>6

\* Whatever a body has, what is sent of it is right.
LEMMA SanitizedIsRight ==
    ASSUME NEW b, NEW p \in Profiles
    PROVE  SanitizedRight(b, p, Sanitized(b, p))
<1>1. PICK s : s = Sanitized(b, p)
  OBVIOUS
<1>2. s.plain = CleanedPlain(b.plain, p) /\ s.own = CleanedOwn(b, p)
  BY <1>1 DEF Sanitized, Body
<1>3. Sanitized(s, p) = s
  <2>1. CleanedPlain(s.plain, p) = s.plain
    BY <1>2, PlainSettled
  <2>2. CleanedOwn(s, p) = s.own
    BY <1>1, <1>2, OwnSettled
  <2>3. s = Body(s.plain, s.own, NoSource, NoSource)
    BY <1>1, <1>2 DEF Sanitized
  <2> QED
    BY <2>1, <2>2, <2>3 DEF Sanitized
<1>4. DOMAIN s.plain \subseteq SafeFields \ p.excluded
  BY <1>2, PlainSettled
<1>5. \A f \in KeptFields(b.plain, p) : s.plain[f] = b.plain[f]
  BY <1>2 DEF CleanedPlain, KeptFields
<1>6. Renamed(b.plain) => s.plain["max_tokens"] = b.plain["max_completion_tokens"]
  BY <1>2 DEF CleanedPlain, Renamed
<1>7. PICK e : e = Effort(b, p)
  OBVIOUS
<1>8. e \in p.efforts \cup {p.default} /\ (b.own.effort \in p.efforts => e = b.own.effort)
  BY <1>7, EffortRight
<1>9. p.location \in {"body", "chat_template"} => SentEffort(s, p) = e
  BY <1>2, <1>7 DEF CleanedOwn, SentEffort, Source
<1>10. ASSUME p.location = "chat_template", b.own.effort = Missing, b.own.thinking = "false"
       PROVE  e = "none"
  <2>1. Asks(b.own, p) = "none" /\ Missing # "none"
    BY <1>10 DEF Asks, Missing
  <2>2. Requested(b, p) = "none"
    BY <2>1, FirstAskerHeard
  <2> QED
    BY <1>7, <1>10, <2>2, SanitizerAssumption DEF Effort
<1>11. ASSUME Silent(b.own, p), b.extra_body.effort \in p.efforts
       PROVE  e = b.extra_body.effort
  <2>1. Missing \notin p.efforts
    BY SanitizerAssumption
  <2>2. Asks(b.own, p) = Missing /\ Asks(b.extra_body, p) = b.extra_body.effort
    BY <1>11, <2>1 DEF Silent, Asks
  <2>3. Requested(b, p) = b.extra_body.effort
    BY <1>11, <2>1, <2>2, FirstAskerHeard
  <2> QED
    BY <1>7, <1>11, <2>3 DEF Effort
<1>12. ASSUME Silent(b.own, p), Silent(b.extra_body, p), b.extraBody.effort \in p.efforts
       PROVE  e = b.extraBody.effort
  <2>1. Missing \notin p.efforts
    BY SanitizerAssumption
  <2>2. /\ Asks(b.own, p) = Missing /\ Asks(b.extra_body, p) = Missing
        /\ Asks(b.extraBody, p) = b.extraBody.effort
    BY <1>12, <2>1 DEF Silent, Asks
  <2>3. Requested(b, p) = b.extraBody.effort
    BY <1>12, <2>1, <2>2, FirstAskerHeard
  <2> QED
    BY <1>7, <1>12, <2>3 DEF Effort
<1> QED
  BY <1>1, <1>3, <1>4, <1>5, <1>6, <1>8, <1>9, <1>10, <1>11, <1>12 DEF SanitizedRight

-----------------------------------------------------------------------------
\* The theorems

LEMMA ProxyInvInit == ProxyInit => ProxyInv
<1> SUFFICES ASSUME ProxyInit
             PROVE  ProxyInv
  OBVIOUS
<1> USE DEF ProxyInit, Down, NoRequest, NoClient, Idle
<1>1. StartInv /\ KeyInv /\ AnswerInv /\ WalkInv
  BY DEF StartInv, KeyInv, AnswerInv, WalkInv, Places
<1>2. BytesInv /\ MarkupInv
  <2>1. events \in Streams
    BY RelayAssumption DEF Streams, BoundedSeq, SeqOf
  <2> QED
    BY <2>1 DEF BytesInv, MarkupInv
<1>3. BodyInv
  BY OtherWords DEF BodyInv
<1> QED
  BY <1>1, <1>2, <1>3 DEF ProxyInv, RelayInv

LEMMA ProxyInvNext == ProxyInv /\ [ProxyNext]_proxyVars => ProxyInv'
  BY StartInvNext, AnswerInvNext, RelayInvNext, WalkInvNext, BodyInvNext DEF ProxyInv

\* The invariant on which the other theorems rest: the settings of a process that is
\* up, the keys and responses of a request, the walk over its body, and the bytes
\* and the markup of the answer that is relayed.
THEOREM ProxyInvariant == ProxySpec => []ProxyInv
  BY ProxyInvInit, ProxyInvNext, PTL DEF ProxySpec

\* A process that does not get its port has no catalog worker, and NVIDIA gets a key
\* that is meant for it: main, build_server and _forward_to_nim.
THEOREM RightlyServed == ProxySpec => []ServedRight
<1>1. ProxyInv => ServedRight
  <2> SUFFICES ASSUME ProxyInv
               PROVE  ServedRight
    OBVIOUS
  <2>1. PortFirst
    BY DEF ProxyInv, StartInv, PortFirst
  <2>2. RightKey
    <3> SUFFICES ASSUME step \in {"upstream", "relay"}
                 PROVE  /\ key \notin {NoKey, Blank}
                        /\ config.mode = "env" => config.loopback /\ key \in config.keys
                        /\ config.mode = "client" => key = token
                        /\ config.mode = "pool" =>
                               /\ key \in config.keys /\ token = config.clientKey
                               /\ key # token
      BY DEF RightKey
    <3>1. ConfigRight
      BY DEF ProxyInv, AnswerInv, StartInv
    <3>2. CASE config.mode = "env"
      BY <3>1, <3>2 DEF ProxyInv, KeyInv, ConfigRight
    <3>3. CASE config.mode = "client"
      BY <3>3, StartupAssumption DEF ProxyInv, KeyInv
    <3>4. CASE config.mode = "pool"
      BY <3>1, <3>4 DEF ProxyInv, KeyInv, ConfigRight
    <3> QED
      BY <3>1, <3>2, <3>3, <3>4 DEF ConfigRight
  <2> QED
    BY <2>1, <2>2 DEF ServedRight
<1> QED
  BY <1>1, ProxyInvariant, PTL

\* However NVIDIA's bytes are cut into chunks, and wherever either side breaks off,
\* the client gets them each once and in their order: _relay_upstream_response.
THEOREM RelaysFaithfully == ProxySpec => []RelayFaithful
<1>1. ProxyInv => RelayFaithful
  <2> SUFFICES ASSUME ProxyInv
               PROVE  RelayFaithful
    OBVIOUS
  <2>1. BytesInv
    BY DEF ProxyInv, RelayInv
  <2>2. \E n \in Nat : SentOrHeld(n)
    <3>1. Bytes(0) = <<>> /\ 0 \in Nat
      BY BytesGrow
    <3>2. arrived \in Nat
      BY <2>1 DEF BytesInv
    <3>3. CASE doing = "raised"
      BY <2>1, <3>3 DEF BytesInv
    <3>4. CASE doing \in {"idle", "whole", "scan", "begin", "begin and end", "diagnose"}
      <4>1. written = <<>> /\ (buffered = <<>> \/ buffered = Bytes(arrived))
        BY <2>1, <3>4 DEF BytesInv
      <4> QED
        BY <3>1, <3>2, <4>1 DEF SentOrHeld
    <3>5. CASE doing \in {"stream", "done"}
      <4>1. buffered = <<>> /\ (written = <<>> \/ written = Bytes(arrived))
        BY <2>1, <3>5 DEF BytesInv
      <4> QED
        BY <3>1, <3>2, <4>1 DEF SentOrHeld
    <3> QED
      BY <2>1, <3>3, <3>4, <3>5 DEF BytesInv
  <2>3. PICK n \in Nat : written \o buffered = Bytes(n)
    <3>1. \A n \in Nat : Bytes(n) \o <<>> = Bytes(n) /\ <<>> \o Bytes(n) = Bytes(n)
      BY BytesGrow
    <3> QED
      BY <2>2, <3>1 DEF SentOrHeld
  <2>4. \A i \in DOMAIN (written \o buffered) : (written \o buffered)[i] = i
    BY <2>3 DEF Bytes
  <2>5. doing \in {"stream", "done"} /\ responses = <<"relayed">> => Len(written) = arrived
    <3>1. SUFFICES ASSUME doing \in {"stream", "done"}, responses = <<"relayed">>
                   PROVE  Len(written) = arrived
      OBVIOUS
    <3>2. responses # <<"diagnostic">>
      <4>1. responses[1] = "relayed"
        BY <3>1
      <4> QED
        BY <4>1
    <3>3. written = Bytes(arrived) /\ arrived \in Nat
      BY <2>1, <3>1, <3>2 DEF BytesInv
    <3> QED
      BY <3>3, BytesGrow
  <2> QED
    BY <2>4, <2>5 DEF RelayFaithful
<1> QED
  BY <1>1, ProxyInvariant, PTL

\* However the network cuts a stream, markup in its first events is withheld, and a
\* diagnostic is sent for nothing else: read_stream_prefix_for_tool_call_detection.
THEOREM MarkupWithheld == ProxySpec => []LeakWithheld
<1>1. ProxyInv => LeakWithheld
  <2> SUFFICES ASSUME ProxyInv
               PROVE  LeakWithheld
    OBVIOUS
  <2>1. BytesInv /\ MarkupInv
    BY DEF ProxyInv, RelayInv
  <2>2. ScannedEvents = Scanned(events, arrived) /\ Completed(arrived) = First(events, arrived)
    BY FirstIsCompleted
  <2>3. Inspects /\ Leak(Scanned(events, arrived)) => written = <<>>
    <3>1. SUFFICES ASSUME Inspects, Leak(Scanned(events, arrived))
                   PROVE  written = <<>>
      OBVIOUS
    <3>2. CASE doing = "stream"
      <4>1. ScanOver(events, arrived) /\ events \in Streams /\ arrived \in Nat
        BY <2>1, <3>1, <3>2 DEF MarkupInv, BytesInv
      <4> QED
        BY <3>1, <4>1, ScanOverClean
    <3>3. CASE doing \in {"done", "raised"}
      BY <2>1, <3>1, <3>3 DEF MarkupInv
    <3>4. CASE doing \notin {"stream", "done", "raised"}
      BY <2>1, <3>4 DEF BytesInv
    <3> QED
      BY <3>2, <3>3, <3>4
  <2>4. doing = "done" /\ responses = <<"diagnostic">> =>
            Inspects /\ Leak(First(events, arrived))
    BY <2>1 DEF MarkupInv
  <2> QED
    BY <2>2, <2>3, <2>4 DEF LeakWithheld
<1> QED
  BY <1>1, ProxyInvariant, PTL

\* A body is refused for its nesting if and only if it is nested too deeply, and what
\* is forwarded is what NVIDIA takes: validate_json_depth and
\* sanitize_chat_completion_body.
THEOREM BodiesRight == ProxySpec => []BodyRight
<1>1. ProxyInv => BodyRight
  BY SanitizedIsRight DEF ProxyInv, BodyInv, BodyRight
<1> QED
  BY <1>1, ProxyInvariant, PTL

\* A request is answered with one status line, unless the client has gone or the
\* process ends, and nothing is tried again once its response has begun: the proxy
\* implements RequestContract.
THEOREM KeepsContract == ProxySpec => ImplementsContract
<1>1. ProxyInit => Contract!NoRequest
  BY DEF ProxyInit, NoRequest, NoClient, Contract!NoRequest, Phase
<1>2. ProxyInv /\ [ProxyNext]_proxyVars => [Contract!Next]_(Contract!vars)
  BY ContractNext DEF ProxyInv
<1> QED
  BY <1>1, <1>2, ProxyInvariant, PTL DEF ProxySpec, ImplementsContract, Contract!Spec
=============================================================================
