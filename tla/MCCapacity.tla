----------------------------- MODULE MCCapacity -----------------------------
(* Configurations whose products overflow an int of five bits.               *)
EXTENDS Capacity

MCExtent   == {0, 1, 2, 3, 5, 7, 11, 14, 15}
MCPageSize == {0, 1, 6, 15}
MCFloor    == {-1, 0, 1, 2, 6}
=============================================================================
