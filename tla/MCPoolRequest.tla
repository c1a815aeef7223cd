---------------------------- MODULE MCPoolRequest ----------------------------
(***************************************************************************)
(* Constants for model checking PoolRequest.                               *)
(***************************************************************************)
EXTENDS PoolRequest

CONSTANTS r1, r2

MCSymmetry == Permutations(Callers)

MCAttempts == SUBSET Keys

MCNoRetryAfters == {NoRetryAfter}
=============================================================================
