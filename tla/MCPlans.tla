------------------------------- MODULE MCPlans -------------------------------
(* Two requests at a time on one plan of a frozen configuration, with        *)
(* failing statements.                                                       *)
EXTENDS NvWear

MCBatch == {<<Checkpoint>>, <<PowerLoss, Erase(1)>>}

Symmetry == Permutations(Worker)
=============================================================================
