------------------------------- MODULE MCConfig -------------------------------
(* Three requests at a time on one configuration, with failing statements.   *)
EXTENDS NvWear

Symmetry == Permutations(Worker)
===============================================================================
