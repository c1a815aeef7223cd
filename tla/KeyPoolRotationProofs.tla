------------------------ MODULE KeyPoolRotationProofs ------------------------
(***************************************************************************)
(* The proof that KeyPool's round robin is fair, for every number of keys  *)
(* and callers and every mixture of the keys they exclude.                 *)
(***************************************************************************)
EXTENDS KeyPoolRotation, KeyPoolProofs

\* A key that has been passed over so many times is at most so far ahead of the
\* cursor that it will be reached in time: every grant that passes it over brings
\* the cursor nearer to it.
RotationInv ==
    \A k \in Keys :
        /\ passedOver[k] \in Nat
        /\ \E d \in 1 .. NKeys : k = After(d) /\ passedOver[k] + d <= NKeys

\* The remainder, in the range in which it is used.
LEMMA AfterIs ==
    ASSUME NEW c \in Keys \cup {NoKey}, NEW d \in 1 .. NKeys
    PROVE  (c + d) % NKeys = IF c + d < NKeys THEN c + d ELSE c + d - NKeys
<1>1. NKeys \in Nat \ {0}
  BY PoolAssumption
<1>2. c \in -1 .. NKeys - 1
  BY <1>1 DEF Keys, NoKey
<1> QED
  BY <1>1, <1>2

\* Every key is somewhere ahead of the cursor.
LEMMA KeyAhead ==
    ASSUME NEW c \in Keys \cup {NoKey}, NEW k \in Keys
    PROVE  \E d \in 1 .. NKeys : k = (c + d) % NKeys
<1>1. NKeys \in Nat \ {0} /\ c \in -1 .. NKeys - 1 /\ k \in 0 .. NKeys - 1
  BY PoolAssumption DEF Keys, NoKey
<1> DEFINE d == IF k > c THEN k - c ELSE k - c + NKeys
<1>2. d \in 1 .. NKeys /\ k = IF c + d < NKeys THEN c + d ELSE c + d - NKeys
  BY <1>1
<1> HIDE DEF d
<1>3. k = (c + d) % NKeys
  BY <1>2, AfterIs
<1> QED
  BY <1>2, <1>3

\* A thread that gets a key gets the one that is selected, and the cursor moves there.
LEMMA GrantMoves ==
    ASSUME TypeOK, Next, NEW r \in Callers, NEW k \in Keys, Grants(r, k)
    PROVE  Selects(k, attempted[r]) /\ cursor' = k
<1>1. pc \in [Callers -> {"idle", "calling", "waiting", "leased"} \cup Raised]
      /\ held \in [Callers -> Keys \cup {NoKey}] /\ pc[r] # "leased" /\ pc'[r] = "leased"
      /\ held'[r] = k
  BY DEF TypeOK, Grants
<1>2. ASSUME NEW j \in Keys, Selects(j, attempted[r]), Grant(r, j)
      PROVE  Selects(k, attempted[r]) /\ cursor' = k
  <2>1. held' = [held EXCEPT ![r] = j] /\ cursor' = j
    BY <1>2 DEF Grant
  <2>2. j = k
    BY <1>1, <2>1
  <2> QED
    BY <1>2, <2>1, <2>2
<1>3. ASSUME NEW outcome \in Raised, EndCall(r, outcome)
      PROVE  FALSE
  BY <1>1, <1>3 DEF EndCall, Raised
<1>4. ASSUME NEW queue, WaitLoop(r, queue)
      PROVE  Selects(k, attempted[r]) /\ cursor' = k
  <2>1. CASE LoopGrant(r, queue)
    BY <1>2, <2>1 DEF LoopGrant
  <2>2. CASE LoopCancelled(r, queue) \/ LoopUnavailable(r, queue) \/ LoopTimeout(r, queue)
    BY <1>3, <2>2 DEF LoopCancelled, LoopUnavailable, LoopTimeout, Leave, Raise, Raised
  <2>3. CASE LoopSleep(r, queue)
    BY <1>1, <2>3 DEF LoopSleep
  <2> QED
    BY <1>4, <2>1, <2>2, <2>3 DEF WaitLoop
<1>5. CASE Enter(r)
  <2>1. CASE EnterGrant(r)
    BY <1>2, <2>1 DEF EnterGrant
  <2>2. CASE EnterCancelled(r) \/ EnterUnavailable(r) \/ EnterFull(r)
    BY <1>3, <2>2 DEF EnterCancelled, EnterUnavailable, EnterFull, Raise, Raised
  <2>3. CASE EnterQueue(r)
    BY <1>4, <2>3 DEF EnterQueue
  <2> QED
    BY <1>5, <2>1, <2>2, <2>3 DEF Enter
<1>6. CASE Resume(r)
  BY <1>4, <1>6 DEF Resume
<1>7. ASSUME NEW s \in Callers, s # r, Enter(s) \/ Resume(s)
      PROVE  FALSE
  BY <1>1, <1>7 DEF Enter, Resume, WaitLoop, LoopCancelled, LoopGrant, LoopUnavailable,
     LoopTimeout, LoopSleep, Leave, EnterCancelled, EnterGrant, EnterUnavailable, EnterFull,
     EnterQueue, Raise, Grant, EndCall
<1>8. ASSUME NEW s \in Callers,
             \/ \E tried \in Attempts : BeginAcquire(s, tried)
             \/ \E status \in Statuses, retryAfter \in RetryAfters :
                    Release(s, status, retryAfter)
             \/ Finish(s) \/ Catch(s) \/ Disconnect(s) \/ Reconnect(s)
      PROVE  FALSE
  BY <1>1, <1>8 DEF BeginAcquire, Release, Finish, Catch, Disconnect, Reconnect
<1>9. CASE Tick
  BY <1>1, <1>9 DEF Tick
<1> QED
  BY <1>5, <1>6, <1>7, <1>8, <1>9 DEF Next

\* The cursor moves only with a grant.
LEMMA CursorMoves ==
    ASSUME TypeOK, [Next]_vars, cursor' # cursor
    PROVE  \E r \in Callers, k \in Keys : Grants(r, k)
<1>1. pc \in [Callers -> {"idle", "calling", "waiting", "leased"} \cup Raised]
      /\ held \in [Callers -> Keys \cup {NoKey}]
  BY DEF TypeOK
<1>2. ASSUME NEW r \in Callers, NEW k \in Keys, Grant(r, k), pc[r] # "leased"
      PROVE  Grants(r, k)
  BY <1>1, <1>2 DEF Grant, EndCall, Grants
<1>3. ASSUME NEW r \in Callers, NEW queue, WaitLoop(r, queue)
      PROVE  \E k \in Keys : Grant(r, k)
  BY <1>3 DEF WaitLoop, LoopCancelled, LoopGrant, LoopUnavailable, LoopTimeout, LoopSleep,
     Leave, Raise, keyVars
<1>4. ASSUME NEW r \in Callers, Enter(r) \/ Resume(r)
      PROVE  \E k \in Keys : Grants(r, k)
  <2>1. pc[r] # "leased"
    BY <1>4 DEF Enter, Resume
  <2>2. CASE EnterQueue(r) \/ Resume(r)
    BY <1>2, <1>3, <2>1, <2>2 DEF EnterQueue, Resume
  <2>3. CASE EnterGrant(r)
    BY <1>2, <2>1, <2>3 DEF EnterGrant
  <2>4. CASE EnterCancelled(r) \/ EnterUnavailable(r) \/ EnterFull(r)
    BY <2>4 DEF EnterCancelled, EnterUnavailable, EnterFull, Raise, keyVars
  <2> QED
    BY <1>4, <2>2, <2>3, <2>4 DEF Enter
<1>5. ASSUME NEW r \in Callers,
             \/ \E tried \in Attempts : BeginAcquire(r, tried)
             \/ \E status \in Statuses, retryAfter \in RetryAfters :
                    Release(r, status, retryAfter)
             \/ Finish(r) \/ Catch(r) \/ Disconnect(r) \/ Reconnect(r)
      PROVE  FALSE
  BY <1>5 DEF BeginAcquire, Release, Finish, Catch, Disconnect, Reconnect, keyVars
<1>6. CASE Tick \/ UNCHANGED vars
  BY <1>6 DEF Tick, vars
<1> QED
  BY <1>4, <1>5, <1>6 DEF Next

\* A grant brings the cursor nearer to every key that it passes over.
LEMMA GrantNearer ==
    ASSUME TypeOK, RotationInv, NEW r \in Callers, NEW j \in Keys,
           Selects(j, attempted[r]), cursor' = j,
           passedOver' = [k \in Keys |-> Counted(r, j, k)]
    PROVE  RotationInv'
<1>1. cursor \in Keys \cup {NoKey}
  BY DEF TypeOK
<1>2. NKeys \in Nat \ {0} /\ cursor \in -1 .. NKeys - 1
  BY <1>1, PoolAssumption DEF Keys, NoKey
<1>3. \A d \in 1 .. NKeys :
          After(d)' = IF j + d < NKeys THEN j + d ELSE j + d - NKeys
  BY AfterIs DEF After
<1>4. PICK o \in 1 .. NKeys :
          j = After(o) /\ \A n \in 1 .. o - 1 : ~Selectable(After(n), attempted[r])
  BY DEF Selects
<1>5. SUFFICES ASSUME NEW k \in Keys
               PROVE  /\ passedOver'[k] \in Nat
                      /\ \E d \in 1 .. NKeys : k = After(d)' /\ passedOver'[k] + d <= NKeys
  BY DEF RotationInv
<1>6. PICK d \in 1 .. NKeys : k = After(d) /\ passedOver[k] + d <= NKeys
  BY DEF RotationInv
<1>7. passedOver[k] \in Nat /\ passedOver'[k] = Counted(r, j, k)
  BY DEF RotationInv
<1>8. CASE k # j /\ Selectable(k, attempted[r])
  <2>1. o < d
    <3>1. ~(d \in 1 .. o - 1) /\ d # o
      BY <1>4, <1>6, <1>8
    <3> QED
      BY <3>1
  <2>2. d - o \in 1 .. NKeys
    BY <2>1, <1>2
  <2>3. j = (IF cursor + o < NKeys THEN cursor + o ELSE cursor + o - NKeys)
        /\ k = (IF cursor + d < NKeys THEN cursor + d ELSE cursor + d - NKeys)
    BY <1>1, <1>4, <1>6, AfterIs DEF After
  <2>4. k = IF j + (d - o) < NKeys THEN j + (d - o) ELSE j + (d - o) - NKeys
    BY <1>2, <2>1, <2>3
  <2>5. k = After(d - o)'
    BY <1>3, <2>2, <2>4
  <2>6. passedOver'[k] = passedOver[k] + 1
    BY <1>7, <1>8 DEF Counted
  <2>7. passedOver'[k] + (d - o) <= NKeys
    BY <1>2, <1>6, <1>7, <2>1, <2>6
  <2> QED
    BY <1>7, <2>2, <2>5, <2>6, <2>7
<1>9. CASE ~(k # j /\ Selectable(k, attempted[r]))
  <2>1. passedOver'[k] = 0
    BY <1>7, <1>9 DEF Counted
  <2>2. PICK e \in 1 .. NKeys : k = After(e)'
    BY KeyAhead DEF After
  <2> QED
    BY <1>2, <2>1, <2>2
<1> QED
  BY <1>8, <1>9

LEMMA RotationInvNext ==
    TypeOK /\ RotationInv /\ [RotationNext]_rotationVars => RotationInv'
<1> SUFFICES ASSUME TypeOK, RotationInv, [RotationNext]_rotationVars
             PROVE  RotationInv'
  OBVIOUS
<1>1. ASSUME UNCHANGED <<cursor, passedOver>>
      PROVE  RotationInv'
  BY <1>1 DEF RotationInv, After
<1>2. ASSUME NEW r \in Callers, NEW k \in Keys, Next, Grants(r, k),
             passedOver' = [j \in Keys |-> Counted(r, k, j)]
      PROVE  RotationInv'
  <2>1. Selects(k, attempted[r]) /\ cursor' = k
    BY <1>2, GrantMoves
  <2> QED
    BY <1>2, <2>1, GrantNearer
<1>3. ASSUME Next, \A r \in Callers, k \in Keys : ~Grants(r, k), UNCHANGED passedOver
      PROVE  RotationInv'
  <2>1. cursor' = cursor
    BY <1>3, CursorMoves
  <2> QED
    BY <1>1, <1>3, <2>1
<1>4. CASE UNCHANGED rotationVars
  BY <1>1, <1>4 DEF rotationVars, vars
<1> QED
  BY <1>2, <1>3, <1>4 DEF RotationNext

\* A key that could have served every one of the last NKeys grants served one of
\* them, whatever keys the requests exclude: _select_available starves no key.
THEOREM KeysTakeTurns == RotationSpec => []EveryKeyTakesItsTurn
<1>1. RotationInit => RotationInv
  <2> SUFFICES ASSUME RotationInit
               PROVE  RotationInv
    OBVIOUS
  <2>1. cursor \in Keys \cup {NoKey} /\ passedOver = [k \in Keys |-> 0]
    BY DEF RotationInit, Init
  <2>2. \A k \in Keys : \E d \in 1 .. NKeys : k = After(d)
    BY <2>1, KeyAhead DEF After
  <2>3. NKeys \in Nat
    BY PoolAssumption
  <2>4. \A d \in 1 .. NKeys : 0 + d <= NKeys
    BY <2>3
  <2> QED
    BY <2>1, <2>2, <2>4 DEF RotationInv
<1>2. RotationInv => EveryKeyTakesItsTurn
  <2> SUFFICES ASSUME RotationInv, NEW k \in Keys
               PROVE  passedOver[k] < NKeys
    BY DEF EveryKeyTakesItsTurn
  <2>1. PICK d \in 1 .. NKeys : passedOver[k] + d <= NKeys
    BY DEF RotationInv
  <2>2. passedOver[k] \in Nat /\ NKeys \in Nat
    BY PoolAssumption DEF RotationInv
  <2> QED
    BY <2>1, <2>2
<1>3. RotationInit => Init
  BY DEF RotationInit
<1>4. [RotationNext]_rotationVars => [Next]_vars
  BY DEF RotationNext, rotationVars
<1> QED
  BY <1>1, <1>2, <1>3, <1>4, RotationInvNext, TypeCorrect, PTL DEF RotationSpec, Spec
=============================================================================
