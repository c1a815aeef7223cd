--------------------------- MODULE MCDirectRequest ---------------------------
(***************************************************************************)
(* Constants for model checking DirectRequest.                             *)
(***************************************************************************)
EXTENDS DirectRequest

CONSTANTS r1, r2, r3, f1
=============================================================================
