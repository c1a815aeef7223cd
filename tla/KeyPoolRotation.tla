--------------------------- MODULE KeyPoolRotation ---------------------------
(***************************************************************************)
(* The fairness of KeyPool's round robin over keys, with a history         *)
(* variable.                                                               *)
(***************************************************************************)
EXTENDS KeyPool

VARIABLE passedOver  \* grants in a row that could have taken k and took another

rotationVars == <<vars, passedOver>>

\* In a step r is granted key k.
Grants(r, k) == pc[r] # "leased" /\ pc'[r] = "leased" /\ held'[r] = k

RotationInit == Init /\ passedOver = [k \in Keys |-> 0]

Counted(r, k, j) ==
    IF j # k /\ Selectable(j, attempted[r]) THEN passedOver[j] + 1 ELSE 0

RotationNext ==
    /\ Next
    /\ \/ \E r \in Callers, k \in Keys :
              /\ Grants(r, k)
              /\ passedOver' = [j \in Keys |-> Counted(r, k, j)]
       \/ /\ \A r \in Callers, k \in Keys : ~Grants(r, k)
          /\ UNCHANGED passedOver

RotationSpec == RotationInit /\ [][RotationNext]_rotationVars

\* A key that could have served every one of the last NKeys grants served one
\* of them: requests that exclude different keys do not starve a healthy key.
EveryKeyTakesItsTurn == \A k \in Keys : passedOver[k] < NKeys
=============================================================================
