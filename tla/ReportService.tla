---------------------------- MODULE ReportService ----------------------------
(***************************************************************************)
(* The requests that combine several reads into one answer and change      *)
(* nothing: StatsService.Collect of src/internal/service/stats_service.go  *)
(* and PlanService.Recover of src/internal/service/plan_service.go.  The   *)
(* reads are statements of their own, so other requests come in between.   *)
(***************************************************************************)
EXTENDS Store

CONSTANT Reports       \* the reports clients ask for: "stats", "recover"

ASSUME ReportAssumption == Reports \subseteq {"stats", "recover"}

Having(statuses, wanted) == Cardinality({p \in DOMAIN statuses : statuses[p] \in wanted})

\* Erases of a wear curve, or of a block table.
EraseSum(entries) == SumFunctionOnSet([b \in DOMAIN entries |-> entries[b].erase], DOMAIN entries)

\* Collect lists the plans of the configuration and counts them by status.
CollectPlans(w) ==
  /\ "stats" \in Reports /\ At(w, "idle") /\ cfgStatus # "absent"
  /\ Become(w, [pc |-> IF plans = << >> THEN "stats_certs" ELSE "stats_wear",
                statuses |-> [p \in DOMAIN plans |-> plans[p].status], done |-> 0, erases |-> 0])
  /\ UNCHANGED <<tables, createMu>>

\* Then it reads one plan's wear curve after the other.  A read that fails counts
\* nothing and the answer does not tell.
CollectWear(w) ==
  LET r == req[w]  p == r.done + 1 IN
  /\ At(w, "stats_wear")
  /\ \E sum \in {EraseSum(wear[p])} \cup (IF Faults THEN {0} ELSE {}) :
       Become(w, [pc |-> IF p = Len(r.statuses) THEN "stats_certs" ELSE "stats_wear",
                  statuses |-> r.statuses, done |-> p, erases |-> r.erases + sum])
  /\ UNCHANGED <<tables, createMu>>

CollectCerts(w) ==
  LET r == req[w] IN
  /\ At(w, "stats_certs")
  /\ Become(w, [pc |-> "stats_blocks", statuses |-> r.statuses, erases |-> r.erases,
                issued |-> Len(certs),
                revoked |-> Cardinality({c \in DOMAIN certs : certs[c].status = "revoked"})])
  /\ UNCHANGED <<tables, createMu>>

\* Fault: published plans are not counted as publishable.
CollectBlocksUnpublished(w) ==
  LET r == req[w] IN
  /\ At(w, "stats_blocks")
  /\ Become(w, [pc |-> "stats_answer", stats |->
       [plans       |-> Len(r.statuses),
        publishable |-> Having(r.statuses, {"publishable"}),
        exceeded    |-> Having(r.statuses, {"budget_exceeded"}),
        broken      |-> Having(r.statuses, {"recovery_incomplete"}),
        issued      |-> r.issued, revoked |-> r.revoked,
        bad         |-> Cardinality({b \in Block : blocks[b].status = "bad"}),
        erases      |-> r.erases + EraseSum(blocks)]])
  /\ UNCHANGED <<tables, createMu>>

\* The blocks come last: how many are bad, and their own erase counts are added.
CollectBlocks(w) ==
  LET r == req[w] IN
  /\ At(w, "stats_blocks")
  /\ Become(w, [pc |-> "stats_answer", stats |->
       [plans       |-> Len(r.statuses),
        publishable |-> Having(r.statuses, {"publishable", "published"}),
        exceeded    |-> Having(r.statuses, {"budget_exceeded"}),
        broken      |-> Having(r.statuses, {"recovery_incomplete"}),
        issued      |-> r.issued, revoked |-> r.revoked,
        bad         |-> Cardinality({b \in Block : blocks[b].status = "bad"}),
        erases      |-> r.erases + EraseSum(blocks)]])
  /\ UNCHANGED <<tables, createMu>>

\* Recover reads the log, whatever the plan's status and whether or not there is
\* such a plan.
RecoverOps(w, p) ==
  /\ "recover" \in Reports /\ At(w, "idle")
  /\ Become(w, IF Recoverable(List(p))
               THEN [pc |-> "recover_latest", plan |-> p, log |-> List(p)]
               ELSE [pc |-> "recover_answer", plan |-> p, log |-> List(p),
                     report |-> [recoverable |-> FALSE, steps |-> 0, replayed |-> 0, from |-> 0]])
  /\ UNCHANGED <<tables, createMu>>

\* The checkpoint it names is the row with the highest cursor, if there is one
\* and the read does not fail, which the answer does not tell.  The steps are
\* counted from the last checkpoint operation.
RecoverLatest(w) ==
  LET r == req[w]  last == LastCheckpoint(r.log) IN
  /\ At(w, "recover_latest")
  /\ \E from \in {ResumeAt(checkpoints[r.plan])} \cup (IF Faults THEN {0} ELSE {}) :
       Become(w, [pc |-> "recover_answer", plan |-> r.plan, log |-> r.log,
                  report |-> [recoverable |-> TRUE, steps |-> Len(r.log) - last,
                              replayed |-> Replay(r.log, last), from |-> from]])
  /\ UNCHANGED <<tables, createMu>>

Answer(w) ==
  /\ req[w].pc \in {"stats_answer", "recover_answer"}
  /\ Done(w)
  /\ UNCHANGED <<tables, createMu>>
-----------------------------------------------------------------------------
ReportCall(w) == CollectPlans(w) \/ \E p \in Plan : RecoverOps(w, p)
ReportStep(w) ==
  CollectWear(w) \/ CollectCerts(w) \/ CollectBlocks(w) \/ RecoverLatest(w) \/ Answer(w)
==============================================================================
