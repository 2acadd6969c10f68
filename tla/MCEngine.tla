------------------------------ MODULE MCEngine ------------------------------
(* The simulator's run on a chip of two blocks: Engine.tla.       *)
EXTENDS Verdicts
=============================================================================
