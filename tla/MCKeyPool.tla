------------------------------ MODULE MCKeyPool ------------------------------
(***************************************************************************)
(* Constants for model checking KeyPool.                                   *)
(***************************************************************************)
EXTENDS KeyPool

CONSTANTS r1, r2, r3

\* Request threads are interchangeable.
MCSymmetry == Permutations(Callers)

\* Nothing tried yet, one key tried, every key tried.
MCAttempts == {{}, {0}, Keys}

\* Nothing tried yet, one key tried.
MCTwoAttempts == {{}, {0}}

\* First calls only.
MCFirstAttempts == {{}}

\* No header, an unparsable one, a date in the past (or a negative number),
\* and a delay that the cap of a cooldown cuts.
MCRetryAfters ==
    {NoRetryAfter,
     [kind |-> "garbled", seconds |-> 0],
     [kind |-> "seconds", seconds |-> -1],
     [kind |-> "seconds", seconds |-> 3]}

\* No header, and a date in the past.
MCTwoRetryAfters == {NoRetryAfter, [kind |-> "seconds", seconds |-> -1]}

MCNoRetryAfters == {NoRetryAfter}
=============================================================================
