------------------------------- MODULE NvWear -------------------------------
(***************************************************************************)
(* The service: requests to the plan, certificate, configuration and       *)
(* statistics services over the tables of one storage configuration.       *)
(***************************************************************************)
EXTENDS PlanService, CertService, ConfigService, ReportService

\* A statement fails, or the process stops, in the middle of a request: what it
\* has written stays, the rest is not written, a held mutex is released.  A
\* crash of the process is this for every request in progress.
Abort(w) ==
  /\ Faults /\ ~At(w, "idle")
  /\ Done(w)
  /\ createMu' = IF createMu = w THEN Free ELSE createMu
  /\ UNCHANGED tables

Call(w) == PlanCall(w) \/ CertCall(w) \/ ConfigCall(w) \/ ReportCall(w)
Step(w) == PlanStep(w) \/ CertStep(w) \/ ConfigStep(w) \/ ReportStep(w)

Next == \E w \in Worker : Call(w) \/ CreateLock(w) \/ Step(w) \/ Abort(w)

\* A service without a configuration.
Init ==
  /\ InitStore
  /\ cfgStatus = "absent"
  /\ blocks = [b \in Block |-> NoRow]

\* A service whose configuration is frozen with the blocks it was created with.
InitFrozen ==
  /\ InitStore
  /\ cfgStatus = "frozen"
  /\ blocks = InitialRows

Spec       == Init /\ [][Next]_vars
SpecFrozen == InitFrozen /\ [][Next]_vars
-----------------------------------------------------------------------------
PlanStatus == {"editing", "publishable", "budget_exceeded", "recovery_incomplete", "published"}
Hash       == [ops : Seq(Operation), numbered : BOOLEAN]

\* Types of the tables; a request's record is described by its pc.
TypeOK ==
  /\ cfgStatus \in {"absent", "draft", "simulatable", "frozen"}
  /\ blocks \in [Block -> BlockRow]
  /\ plans \in Seq([status : PlanStatus, hash : Hash, opCount : Nat, cursor : Nat, step : Nat])
  /\ Len(plans) <= MaxPlans
  /\ DOMAIN planOps = Plan
  /\ \A p \in Plan : planOps[p] \in [DOMAIN planOps[p] -> Operation] /\ DOMAIN planOps[p] \subseteq 1 .. MaxOps
  /\ checkpoints \in [Plan -> SUBSET (1 .. MaxOps)]
  /\ DOMAIN wear = Plan
  /\ certs \in Seq([plan : Plan, hash : Hash, status : {"published", "revoked"},
                    reason : Reason \cup {"none"}])
  /\ Len(certs) <= MaxCerts
  /\ createMu \in Worker \cup {Free}
  /\ DOMAIN req = Worker
-----------------------------------------------------------------------------
\* The sequence numbers of a plan's operations have no gap, whichever appends
\* and creations interleave, collide on a key or stop half way: AppendOps counts
\* the rows and numbers on from there (plan_service.go:90-99).
OpsContiguous == \A p \in Plan : DOMAIN planOps[p] = 1 .. Count(p)

\* Every step a row refers to is in the plan's log: the cursor of a checkpoint,
\* checked against a log read earlier (plan_service.go:245-264), the simulation
\* cursor and the violation step of a verdict written after the log was read.
ReferencesInLog ==
  /\ \A p \in Plan : checkpoints[p] \subseteq 1 .. Count(p)
  /\ \A p \in DOMAIN plans : plans[p].cursor <= Count(p) /\ plans[p].step <= Count(p)

\* A plan rejected for recovery names a power loss that no checkpoint precedes,
\* and goes on doing so while other requests append to it (validator.go:36-44).
RejectionStands ==
  \A p \in DOMAIN plans : plans[p].status = "recovery_incomplete" =>
    LET s == plans[p].step IN
    /\ planOps[p][s] = PowerLoss
    /\ \A i \in 1 .. s - 1 : planOps[p][i] # Checkpoint

\* Whatever configuration requests interleave or stop half way, the block table
\* is empty or complete, and each row is one of the four a simulation may start
\* from: the flag and the status that say "reserved" never contradict each other
\* (config_service.go:115-159, block_store.go UpdateStatus and MarkReserved).
BlockRowsAgree == blocks \in StoredRows

\* Once the configuration is frozen and no request is left that passed its check
\* before, configuration and blocks stay as they are for good, whatever arrives
\* later: only such a straggler can change a frozen configuration
\* (config_service.go:120, 145, 167).
Straggling == {"config_blocks", "mark_read", "mark_write", "reserve_read", "reserve_write",
               "freeze_promote"}
Settled    == cfgStatus = "frozen" /\ \A w \in Worker : req[w].pc \notin Straggling
FreezeSettles == [][Settled => Settled' /\ UNCHANGED <<cfgStatus, blocks>>]_vars

\* A plan that passed and that no append or simulation still holds from before is
\* settled: later requests change neither its operations nor its wear curve, and
\* of its row nothing but the status, once, from publishable to published.  So a
\* plan whose Issue stopped before its last update is certified again only for
\* the same operations (plan_service.go:87, 139; cert_service.go:29-50).
Holding == {"append_count", "append_op", "append_list", "append_status", "append_hash",
            "create_op", "sim_blocks", "sim_ops", "sim_run", "sim_wear", "sim_verdict"}
Final(p) ==
  /\ Exists(p) /\ plans[p].status \in {"publishable", "published"}
  /\ \A w \in Worker : req[w].pc \in Holding => req[w].plan # p
PassedSettles ==
  [][\A p \in Plan : Final(p) =>
       /\ Final(p)'
       /\ plans'[p] \in {plans[p], [plans[p] EXCEPT !.status = "published"]}
       /\ planOps'[p] = planOps[p] /\ wear'[p] = wear[p]]_vars

\* The abstract promise.  Rows numbered without a gap are the log itself.
Ledger ==
  INSTANCE PlanLedger WITH
    rows      <- blocks,
    log       <- planOps,
    marks     <- checkpoints,
    verdict   <- [p \in Plan |->
                    IF Exists(p) THEN [status |-> plans[p].status, cursor |-> plans[p].cursor,
                                       step |-> plans[p].step]
                    ELSE [status |-> "editing", cursor |-> 0, step |-> 0]],
    certified <- {certs[c].plan : c \in DOMAIN certs}

\* The service over a frozen configuration implements the ledger.
KeepsLedger == Ledger!LedgerSpec

\* A stored wear curve is that of one run, over a prefix of the plan's log from
\* the start or from recorded checkpoints, and never pieced together, whichever
\* simulations overlap or stop between curve and verdict; a plan that passed has
\* one (plan_service.go:216-235, wear_store.go ReplaceAll).
CurveOfRun ==
  \A p \in Plan :
    \/ /\ wear[p] = NoWear
       /\ ~(Exists(p) /\ plans[p].status \in {"publishable", "published"})
    \/ \E n \in 0 .. Len(planOps[p]), cursors \in SUBSET checkpoints[p] :
         wear[p] \in Outcome(SubSeq(planOps[p], 1, n), cursors, blocks).saved
=============================================================================
