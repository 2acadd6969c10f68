------------------------------ MODULE MCProgress ------------------------------
(* Two requests at a time from a service without a configuration.            *)
EXTENDS Progress

MCBatch == {<<Checkpoint>>}
===============================================================================
