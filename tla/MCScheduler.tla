----------------------------- MODULE MCScheduler -----------------------------
(***************************************************************************)
(* Constants for model checking Scheduler.                                 *)
(***************************************************************************)
EXTENDS Scheduler

CONSTANTS r1, r2, r3, r4, f1, f2

\* Threads are interchangeable, and so are keys.
MCSymmetry == Permutations(Callers) \cup Permutations(Keys)
=============================================================================
