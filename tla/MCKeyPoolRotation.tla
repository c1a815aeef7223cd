-------------------------- MODULE MCKeyPoolRotation --------------------------
(***************************************************************************)
(* Constants for model checking KeyPoolRotation: those of KeyPool.         *)
(***************************************************************************)
EXTENDS KeyPoolRotation, MCKeyPool
=============================================================================
