---------------------------- MODULE ConfigService ----------------------------
(***************************************************************************)
(* The handlers of src/internal/service/config_service.go that change      *)
(* state: Create with its block initialisation, MarkBad, Reserve, Freeze.  *)
(* InitMapping empties a table that nothing fills and is left out.         *)
(***************************************************************************)
EXTENDS Store

\* Create stores the draft first; the block rows follow in a transaction of
\* their own, and not at all if ReserveSet refuses the configuration.
ConfigCreate(w) ==
  /\ At(w, "idle") /\ cfgStatus = "absent"
  /\ cfgStatus' = "draft"
  /\ IF Reservable THEN Become(w, [pc |-> "config_blocks"]) ELSE UNCHANGED req
  /\ UNCHANGED <<blocks, plans, planOps, checkpoints, wear, certs, createMu>>

\* initBlocks.
InitialRows == [b \in Block |-> IF b \in ReserveSet THEN Row("reserved", TRUE)
                                                   ELSE Row("available", FALSE)]

ConfigBlocks(w) ==
  /\ At(w, "config_blocks")
  /\ blocks' = InitialRows
  /\ Done(w)
  /\ UNCHANGED <<cfgStatus, plans, planOps, checkpoints, wear, certs, createMu>>
-----------------------------------------------------------------------------
\* Fault: a frozen configuration takes bad blocks.
MarkBadGetFrozen(w, b) ==
  /\ At(w, "idle") /\ cfgStatus # "absent"
  /\ Become(w, [pc |-> "mark_read", block |-> b])
  /\ UNCHANGED <<tables, createMu>>

\* MarkBad and Reserve read the configuration, then the block, then write.
MarkBadGet(w, b) ==
  /\ At(w, "idle") /\ cfgStatus \notin {"absent", "frozen"}
  /\ Become(w, [pc |-> "mark_read", block |-> b])
  /\ UNCHANGED <<tables, createMu>>

MarkBadRead(w) ==
  /\ At(w, "mark_read")
  /\ IF blocks[req[w].block].status \in {"absent", "bad"} THEN Done(w)
     ELSE Advance(w, "mark_write")
  /\ UNCHANGED <<tables, createMu>>

MarkBadWrite(w) ==
  /\ At(w, "mark_write")
  /\ blocks' = [blocks EXCEPT ![req[w].block].status = "bad"]
  /\ Done(w)
  /\ UNCHANGED <<cfgStatus, plans, planOps, checkpoints, wear, certs, createMu>>

ReserveGet(w, b, reserved) ==
  /\ At(w, "idle") /\ cfgStatus \notin {"absent", "frozen"}
  /\ Become(w, [pc |-> "reserve_read", block |-> b, reserved |-> reserved])
  /\ UNCHANGED <<tables, createMu>>

\* Fault: a bad block may be reserved or released.
ReserveReadBad(w) ==
  /\ At(w, "reserve_read")
  /\ IF blocks[req[w].block].status = "absent" THEN Done(w) ELSE Advance(w, "reserve_write")
  /\ UNCHANGED <<tables, createMu>>

ReserveRead(w) ==
  /\ At(w, "reserve_read")
  /\ IF blocks[req[w].block].status \in {"absent", "bad"} THEN Done(w)
     ELSE Advance(w, "reserve_write")
  /\ UNCHANGED <<tables, createMu>>

\* Fault: releasing a block leaves its status.
ReserveWriteFlag(w) ==
  LET r == req[w] IN
  /\ At(w, "reserve_write")
  /\ blocks' = [blocks EXCEPT ![r.block] =
                  [@ EXCEPT !.reserved = r.reserved,
                            !.status = IF r.reserved THEN "reserved" ELSE @]]
  /\ Done(w)
  /\ UNCHANGED <<cfgStatus, plans, planOps, checkpoints, wear, certs, createMu>>

\* MarkReserved sets flag and status together, whatever the status has become.
ReserveWrite(w) ==
  LET r == req[w] IN
  /\ At(w, "reserve_write")
  /\ blocks' = [blocks EXCEPT ![r.block] =
                  [@ EXCEPT !.reserved = r.reserved,
                            !.status = IF r.reserved THEN "reserved" ELSE "available"]]
  /\ Done(w)
  /\ UNCHANGED <<cfgStatus, plans, planOps, checkpoints, wear, certs, createMu>>
-----------------------------------------------------------------------------
\* Freeze takes a draft through "simulatable" in two updates; a frozen
\* configuration may be frozen again.
FreezeGet(w) ==
  /\ At(w, "idle") /\ cfgStatus # "absent"
  /\ Become(w, [pc |-> IF cfgStatus = "draft" THEN "freeze_promote" ELSE "freeze_write"])
  /\ UNCHANGED <<tables, createMu>>

FreezePromote(w) ==
  /\ At(w, "freeze_promote")
  /\ cfgStatus' = "simulatable"
  /\ Advance(w, "freeze_write")
  /\ UNCHANGED <<blocks, plans, planOps, checkpoints, wear, certs, createMu>>

FreezeWrite(w) ==
  /\ At(w, "freeze_write")
  /\ cfgStatus' = "frozen"
  /\ Done(w)
  /\ UNCHANGED <<blocks, plans, planOps, checkpoints, wear, certs, createMu>>
-----------------------------------------------------------------------------
ConfigCall(w) ==
  \/ ConfigCreate(w)
  \/ \E b \in Block : MarkBadGet(w, b)
  \/ \E b \in Block, reserved \in BOOLEAN : ReserveGet(w, b, reserved)
  \/ FreezeGet(w)

ConfigStep(w) ==
  ConfigBlocks(w) \/ MarkBadRead(w) \/ MarkBadWrite(w) \/ ReserveRead(w) \/ ReserveWrite(w)
    \/ FreezePromote(w) \/ FreezeWrite(w)
=============================================================================
