------------------------------- MODULE MCSerial -------------------------------
(* One request at a time, from a service without a configuration.            *)
EXTENDS Serial

MCBatch == {<< >>, <<Checkpoint, PowerLoss>>, <<PowerLoss, Write(0, 0)>>, <<Erase(1)>>}

CrashBatch == {<<Checkpoint>>, <<Erase(1)>>}
===============================================================================
