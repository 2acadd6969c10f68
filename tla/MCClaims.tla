------------------------------- MODULE MCClaims -------------------------------
(* The smallest services that break a documented claim: Claims.tla.          *)
EXTENDS Claims

EraseBatch    == {<<Erase(1)>>}
WriteBatch    == {<<Write(0, 1)>>}
MarkBatch     == {<<Checkpoint>>}
PowerBatch    == {<<PowerLoss>>, <<Checkpoint>>}
===============================================================================
