----------------------------- MODULE PlanService -----------------------------
(***************************************************************************)
(* The handlers of src/internal/service/plan_service.go that change state: *)
(* Create, AppendOps, Simulate and Checkpoint.  A handler's first action   *)
(* is its first read; a request that read refuses leaves nothing behind    *)
(* and is not shown.                                                       *)
(***************************************************************************)
EXTENDS Store

\* Create.  The client may number the operations it sends or leave that out.
CreateCall(w, ops, numbered) ==
  /\ At(w, "idle")
  /\ Become(w, [pc |-> "create_lock", ops |-> ops, numbered |-> numbered])
  /\ UNCHANGED <<tables, createMu>>

\* Fault: creations do not wait for each other.
CreateLockShared(w) ==
  /\ At(w, "create_lock")
  /\ createMu' = w
  /\ Advance(w, "create_config")
  /\ UNCHANGED tables

CreateLock(w) ==
  /\ At(w, "create_lock") /\ createMu = Free
  /\ createMu' = w
  /\ Advance(w, "create_config")
  /\ UNCHANGED tables

\* The deferred unlock of every way out of Create.
CreateReturn(w) == Done(w) /\ createMu' = Free

\* Fault: a creation that is refused keeps the mutex.
CreateConfigLocked(w) ==
  /\ At(w, "create_config")
  /\ IF cfgStatus \in {"simulatable", "frozen"} /\ req[w].ops # << >>
     THEN Advance(w, "create_find")
     ELSE Done(w)
  /\ UNCHANGED <<tables, createMu>>

CreateConfig(w) ==
  /\ At(w, "create_config")
  /\ IF cfgStatus \in {"simulatable", "frozen"} /\ req[w].ops # << >>
     THEN Advance(w, "create_find") /\ UNCHANGED createMu
     ELSE CreateReturn(w)
  /\ UNCHANGED tables

\* A plan with this hash is returned as it is.  A lookup that fails for another
\* reason is taken for "no such plan".
CreateFind(w) ==
  /\ At(w, "create_find")
  /\ \/ /\ HashTaken(HashOps(req[w].ops, req[w].numbered))
        /\ CreateReturn(w)
     \/ /\ Faults \/ ~HashTaken(HashOps(req[w].ops, req[w].numbered))
        /\ Advance(w, "create_row") /\ UNCHANGED createMu
  /\ UNCHANGED tables

CreateRow(w) ==
  LET hash == HashOps(req[w].ops, req[w].numbered) IN
  /\ At(w, "create_row")
  /\ IF HashTaken(hash) \/ Len(plans) = MaxPlans
     THEN CreateReturn(w) /\ UNCHANGED plans
     ELSE /\ plans' = Append(plans, [status |-> "editing", hash |-> hash,
                                     opCount |-> Len(req[w].ops), cursor |-> 0, step |-> 0])
          /\ Become(w, [pc |-> "create_op", plan |-> Len(plans) + 1, ops |-> req[w].ops, done |-> 0])
          /\ UNCHANGED createMu
  /\ UNCHANGED <<cfgStatus, blocks, planOps, checkpoints, wear, certs>>

\* The operations go in one by one, the last insert or a key conflict ends it.
CreateOp(w) ==
  LET r == req[w]  s == r.done + 1 IN
  /\ At(w, "create_op")
  /\ IF s \in DOMAIN planOps[r.plan]
     THEN UNCHANGED planOps /\ CreateReturn(w)
     ELSE /\ InsertOp(r.plan, s, r.ops[s])
          /\ IF s = Len(r.ops) THEN CreateReturn(w)
             ELSE Become(w, [r EXCEPT !.done = s]) /\ UNCHANGED createMu
  /\ UNCHANGED <<cfgStatus, blocks, plans, checkpoints, wear, certs>>
-----------------------------------------------------------------------------
\* AppendOps.  Only the first read looks at the status; an empty batch is served
\* like any other.
AppendGet(w, p, ops) ==
  /\ At(w, "idle") /\ Exists(p) /\ plans[p].status = "editing"
  /\ Become(w, [pc |-> "append_count", plan |-> p, ops |-> ops])
  /\ UNCHANGED <<tables, createMu>>

\* Fault: numbering goes on from the plan row's op_count.
AppendCountCached(w) ==
  LET r == req[w]  start == plans[r.plan].opCount IN
  /\ At(w, "append_count")
  /\ IF start + Len(r.ops) > MaxOps THEN Done(w)
     ELSE Become(w, [pc |-> IF r.ops = << >> THEN "append_list" ELSE "append_op",
                     plan |-> r.plan, ops |-> r.ops, start |-> start, done |-> 0])
  /\ UNCHANGED <<tables, createMu>>

AppendCount(w) ==
  LET r == req[w]  start == Count(r.plan) IN
  /\ At(w, "append_count")
  /\ IF start + Len(r.ops) > MaxOps THEN Done(w)
     ELSE Become(w, [pc |-> IF r.ops = << >> THEN "append_list" ELSE "append_op",
                     plan |-> r.plan, ops |-> r.ops, start |-> start, done |-> 0])
  /\ UNCHANGED <<tables, createMu>>

\* Fault: a row that has the number already is overwritten.
AppendOpReplacing(w) ==
  LET r == req[w]  i == r.done + 1 IN
  /\ At(w, "append_op")
  /\ InsertOp(r.plan, r.start + i, r.ops[i])
  /\ IF i = Len(r.ops) THEN Advance(w, "append_list") ELSE Become(w, [r EXCEPT !.done = i])
  /\ UNCHANGED <<cfgStatus, blocks, plans, checkpoints, wear, certs, createMu>>

AppendOp(w) ==
  LET r == req[w]  i == r.done + 1  s == r.start + i IN
  /\ At(w, "append_op")
  /\ IF s \in DOMAIN planOps[r.plan]
     THEN UNCHANGED planOps /\ Done(w)
     ELSE /\ InsertOp(r.plan, s, r.ops[i])
          /\ IF i = Len(r.ops) THEN Advance(w, "append_list")
             ELSE Become(w, [r EXCEPT !.done = i])
  /\ UNCHANGED <<cfgStatus, blocks, plans, checkpoints, wear, certs, createMu>>

AppendList(w) ==
  /\ At(w, "append_list")
  /\ Become(w, [pc |-> "append_status", plan |-> req[w].plan, all |-> List(req[w].plan)])
  /\ UNCHANGED <<tables, createMu>>

\* The status is written whatever it has become in the meantime.
AppendStatus(w) ==
  /\ At(w, "append_status")
  /\ SetStatus(req[w].plan, "editing")
  /\ Advance(w, "append_hash")
  /\ UNCHANGED <<cfgStatus, blocks, planOps, checkpoints, wear, certs, createMu>>

AppendHash(w) ==
  LET r == req[w]  hash == HashOps(r.all, TRUE) IN
  /\ At(w, "append_hash")
  /\ IF \E q \in DOMAIN plans \ {r.plan} : plans[q].hash = hash
     THEN UNCHANGED plans
     ELSE plans' = [plans EXCEPT ![r.plan].hash = hash, ![r.plan].opCount = Len(r.all)]
  /\ Done(w)
  /\ UNCHANGED <<cfgStatus, blocks, planOps, checkpoints, wear, certs, createMu>>
-----------------------------------------------------------------------------
\* Faults: a published plan is simulated again; only op_count operations are read.
SimulateGetPublished(w, p) ==
  /\ At(w, "idle") /\ Exists(p) /\ plans[p].status # "publishable"
  /\ Become(w, [pc |-> "sim_blocks", plan |-> p])
  /\ UNCHANGED <<tables, createMu>>

SimulateOpsCounted(w) ==
  LET r == req[w] IN
  /\ At(w, "sim_ops")
  /\ Become(w, [pc |-> "sim_run", plan |-> r.plan, rows |-> r.rows,
                ops |-> SubSeq(List(r.plan), 1, plans[r.plan].opCount)])
  /\ UNCHANGED <<tables, createMu>>

\* Simulate.  A plan that is publishable or published is returned as it is.
SimulateGet(w, p) ==
  /\ At(w, "idle") /\ Exists(p) /\ plans[p].status \notin {"publishable", "published"}
  /\ Become(w, [pc |-> "sim_blocks", plan |-> p])
  /\ UNCHANGED <<tables, createMu>>

SimulateBlocks(w) ==
  /\ At(w, "sim_blocks")
  /\ Become(w, [pc |-> "sim_ops", plan |-> req[w].plan, rows |-> blocks])
  /\ UNCHANGED <<tables, createMu>>

SimulateOps(w) ==
  /\ At(w, "sim_ops")
  /\ Become(w, [pc |-> "sim_run", plan |-> req[w].plan, rows |-> req[w].rows,
                ops |-> List(req[w].plan)])
  /\ UNCHANGED <<tables, createMu>>

\* The checkpoints are read last and the run follows in memory.
SimulateRun(w) ==
  LET r == req[w]  end == Outcome(r.ops, checkpoints[r.plan], r.rows) IN
  /\ At(w, "sim_run")
  /\ IF end.status = "error" THEN Done(w)
     ELSE Become(w, [pc |-> IF end.saved = {} THEN "sim_verdict" ELSE "sim_wear",
                     plan |-> r.plan, end |-> end])
  /\ UNCHANGED <<tables, createMu>>

\* Fault: the curve is replaced row by row, without a transaction around it.
SimulateWearTorn(w) ==
  /\ At(w, "sim_wear")
  /\ \E curve \in req[w].end.saved :
       \/ /\ wear' = [wear EXCEPT ![req[w].plan] = curve]
          /\ Advance(w, "sim_verdict")
       \/ \E n \in Block :
            /\ Faults
            /\ wear' = [wear EXCEPT ![req[w].plan] = [b \in {c \in DOMAIN curve : c < n} |-> curve[b]]]
            /\ Done(w)
  /\ UNCHANGED <<cfgStatus, blocks, plans, planOps, checkpoints, certs, createMu>>

\* ReplaceAll, one transaction.
SimulateWear(w) ==
  /\ At(w, "sim_wear")
  /\ \E curve \in req[w].end.saved : wear' = [wear EXCEPT ![req[w].plan] = curve]
  /\ Advance(w, "sim_verdict")
  /\ UNCHANGED <<cfgStatus, blocks, plans, planOps, checkpoints, certs, createMu>>

\* UpdateSimState overwrites whatever the row has become since it was read.
SimulateVerdict(w) ==
  LET end == req[w].end IN
  /\ At(w, "sim_verdict")
  /\ plans' = [plans EXCEPT ![req[w].plan] =
                 [@ EXCEPT !.status = end.status, !.cursor = end.cursor, !.step = end.step]]
  /\ Done(w)
  /\ UNCHANGED <<cfgStatus, blocks, planOps, checkpoints, wear, certs, createMu>>
-----------------------------------------------------------------------------
\* Faults: the bounds of the cursor are off by one, below or above.
CheckpointReadZero(w, p, cursor) ==
  /\ At(w, "idle") /\ Exists(p)
  /\ cursor \in 0 .. Count(p) /\ Cardinality(checkpoints[p]) < MaxMarks
  /\ Become(w, [pc |-> "cp_insert", plan |-> p, cursor |-> cursor])
  /\ UNCHANGED <<tables, createMu>>

CheckpointReadPast(w, p, cursor) ==
  /\ At(w, "idle") /\ Exists(p)
  /\ cursor \in 1 .. Count(p) + 1 /\ Cardinality(checkpoints[p]) < MaxMarks
  /\ Become(w, [pc |-> "cp_insert", plan |-> p, cursor |-> cursor])
  /\ UNCHANGED <<tables, createMu>>

\* Checkpoint.  The cursor must lie in the log, nothing asks whether the plan
\* was simulated that far.
CheckpointRead(w, p, cursor) ==
  /\ At(w, "idle") /\ Exists(p)
  /\ cursor \in 1 .. Count(p) /\ Cardinality(checkpoints[p]) < MaxMarks
  /\ Become(w, [pc |-> "cp_insert", plan |-> p, cursor |-> cursor])
  /\ UNCHANGED <<tables, createMu>>

CheckpointInsert(w) ==
  LET r == req[w] IN
  /\ At(w, "cp_insert")
  /\ checkpoints' = [checkpoints EXCEPT ![r.plan] = @ \cup {r.cursor}]
  /\ Done(w)
  /\ UNCHANGED <<cfgStatus, blocks, plans, planOps, wear, certs, createMu>>
-----------------------------------------------------------------------------
PlanCall(w) ==
  \/ \E ops \in Batch, numbered \in Numbering : CreateCall(w, ops, numbered)
  \/ \E p \in Plan, ops \in Batch : AppendGet(w, p, ops)
  \/ \E p \in Plan : SimulateGet(w, p)
  \/ \E p \in Plan, cursor \in 0 .. MaxOps + 1 : CheckpointRead(w, p, cursor)

PlanStep(w) ==
  \/ CreateConfig(w) \/ CreateFind(w) \/ CreateRow(w) \/ CreateOp(w)
  \/ AppendCount(w) \/ AppendOp(w) \/ AppendList(w) \/ AppendStatus(w) \/ AppendHash(w)
  \/ SimulateBlocks(w) \/ SimulateOps(w) \/ SimulateRun(w)
  \/ SimulateWear(w) \/ SimulateVerdict(w)
  \/ CheckpointInsert(w)
=============================================================================
