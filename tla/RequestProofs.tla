---------------------------- MODULE RequestProofs ----------------------------
(***************************************************************************)
(* What one step of a request does to the requests in progress, for any    *)
(* number of workers of any kind of request, any of which may fail half    *)
(* way: it moves its own record and nobody else's.  With that, proofs      *)
(* about the operation logs and about the configuration and its blocks.    *)
(***************************************************************************)
EXTENDS NvWear, FiniteSetTheorems, TLAPS

\* The requests are records with a program counter, one for each worker.
Record(r) == r = [f \in DOMAIN r |-> r[f]] /\ "pc" \in DOMAIN r
Requests  == req = [w \in Worker |-> req[w]] /\ \A w \in Worker : Record(req[w])

\* The step is w's: the other requests stay where they are.
Only(w) == \A v \in Worker \ {w} : req'[v] = req[v]

\* The three ways a handler moves on.
LEMMA BecomeOwn ==
  ASSUME Requests, NEW w \in Worker, NEW r, Record(r), Become(w, r)
  PROVE  Requests' /\ Only(w) /\ req'[w] = r
  BY DEF Requests, Become, Only

\* Done ends the request.
LEMMA DoneOwn ==
  ASSUME Requests, NEW w \in Worker, Done(w)
  PROVE  Requests' /\ Only(w) /\ req'[w] = Idle /\ req'[w].pc = "idle"
PROOF
<1>1. Record(Idle)
  BY DEF Idle, Record
<1>2. QED BY <1>1, BecomeOwn DEF Done, Idle

\* Advance keeps what the request has read.
LEMMA AdvanceOwn ==
  ASSUME Requests, NEW w \in Worker, NEW pc, Advance(w, pc)
  PROVE  /\ Requests' /\ Only(w) /\ req'[w].pc = pc
         /\ DOMAIN req'[w] = DOMAIN req[w]
         /\ \A f \in DOMAIN req[w] \ {"pc"} : req'[w][f] = req[w][f]
PROOF
<1> DEFINE r == [req[w] EXCEPT !.pc = pc]
<1>1. /\ Record(r) /\ r.pc = pc /\ DOMAIN r = DOMAIN req[w]
      /\ \A f \in DOMAIN req[w] \ {"pc"} : r[f] = req[w][f]
  BY DEF Requests, Record
<1>2. Become(w, r)
  BY DEF Advance
<1> HIDE DEF r
<1>3. QED BY <1>1, <1>2, BecomeOwn

\* At first every worker is idle.
LEMMA RequestsInit == InitStore => Requests
  BY DEF InitStore, Requests, Record, Idle

\* The step moves w's request within pcs.
Moves(w, pcs) == Requests' /\ Only(w) /\ req'[w].pc \in pcs

\* The services' steps by the kind of request, and where each kind can be.
Creating(w) ==
  \/ \E ops \in Batch, numbered \in Numbering : CreateCall(w, ops, numbered)
  \/ CreateLock(w) \/ CreateConfig(w) \/ CreateFind(w) \/ CreateRow(w) \/ CreateOp(w)
Appending(w) ==
  \/ \E p \in Plan, ops \in Batch : AppendGet(w, p, ops)
  \/ AppendCount(w) \/ AppendOp(w) \/ AppendList(w) \/ AppendStatus(w) \/ AppendHash(w)
Simulating(w) ==
  \/ \E p \in Plan : SimulateGet(w, p)
  \/ SimulateBlocks(w) \/ SimulateOps(w) \/ SimulateRun(w) \/ SimulateWear(w)
  \/ SimulateVerdict(w)
Checkpointing(w) ==
  \/ \E p \in Plan, cursor \in 0 .. MaxOps + 1 : CheckpointRead(w, p, cursor)
  \/ CheckpointInsert(w)
Certifying(w)  == CertCall(w) \/ CertStep(w)
Configuring(w) == ConfigCall(w) \/ ConfigStep(w)
Reporting(w)   == ReportCall(w) \/ ReportStep(w)

CreatePc     == {"create_lock", "create_config", "create_find", "create_row", "create_op"}
AppendPc     == {"append_count", "append_op", "append_list", "append_status", "append_hash"}
SimulatePc   == {"sim_blocks", "sim_ops", "sim_run", "sim_wear", "sim_verdict"}
CheckpointPc == {"cp_insert"}
CertPc       == {"issue_config", "issue_insert", "issue_publish", "revoke_write"}
ConfigPc     == {"config_blocks", "mark_read", "mark_write", "reserve_read", "reserve_write",
                 "freeze_promote", "freeze_write"}
ReportPc     == {"stats_wear", "stats_certs", "stats_blocks", "stats_answer", "recover_latest",
                 "recover_answer"}
-----------------------------------------------------------------------------
\* Create writes plans and operations.
LEMMA CreateMoves ==
  ASSUME Requests, NEW w \in Worker, Creating(w)
  PROVE  /\ Moves(w, CreatePc \cup {"idle"})
         /\ UNCHANGED <<cfgStatus, blocks, checkpoints, wear, certs>>
PROOF
<1>1. ASSUME NEW ops, NEW numbered, CreateCall(w, ops, numbered)
      PROVE  Moves(w, CreatePc) /\ UNCHANGED tables
  BY <1>1, BecomeOwn DEF CreateCall, Moves, Record, CreatePc
<1>2. CASE CreateLock(w) \/ CreateConfig(w) \/ CreateFind(w)
  BY <1>2, AdvanceOwn, DoneOwn
     DEF CreateLock, CreateConfig, CreateFind, CreateReturn, Moves, CreatePc, tables
<1>3. CASE CreateRow(w)
  BY <1>3, BecomeOwn, DoneOwn DEF CreateRow, CreateReturn, Moves, Record, CreatePc
<1>4. CASE CreateOp(w)
  BY <1>4, BecomeOwn, DoneOwn DEF CreateOp, CreateReturn, Moves, Requests, Record, At, CreatePc
<1>5. QED BY <1>1, <1>2, <1>3, <1>4 DEF Creating, Moves, tables

\* So does AppendOps.
LEMMA AppendMoves ==
  ASSUME Requests, NEW w \in Worker, Appending(w)
  PROVE  /\ Moves(w, AppendPc \cup {"idle"})
         /\ UNCHANGED <<cfgStatus, blocks, checkpoints, wear, certs, createMu>>
PROOF
<1>1. ASSUME NEW p, NEW ops, AppendGet(w, p, ops)
      PROVE  Moves(w, AppendPc) /\ UNCHANGED <<tables, createMu>>
  BY <1>1, BecomeOwn DEF AppendGet, Moves, Record, AppendPc
<1>2. CASE AppendCount(w)
  BY <1>2, BecomeOwn, DoneOwn DEF AppendCount, Moves, Record, AppendPc, tables
<1>3. CASE AppendOp(w)
  BY <1>3, BecomeOwn, AdvanceOwn, DoneOwn DEF AppendOp, Moves, Requests, Record, At, AppendPc
<1>4. CASE AppendList(w)
  BY <1>4, BecomeOwn DEF AppendList, Moves, Record, AppendPc, tables
<1>5. CASE AppendStatus(w) \/ AppendHash(w)
  BY <1>5, AdvanceOwn, DoneOwn DEF AppendStatus, AppendHash, Moves, AppendPc
<1>6. QED BY <1>1, <1>2, <1>3, <1>4, <1>5 DEF Appending, Moves, tables

\* Simulate writes wear curves and verdicts.
LEMMA SimulateMoves ==
  ASSUME Requests, NEW w \in Worker, Simulating(w)
  PROVE  /\ Moves(w, SimulatePc \cup {"idle"})
         /\ UNCHANGED <<cfgStatus, blocks, planOps, checkpoints, certs, createMu>>
PROOF
<1>1. ASSUME NEW p, SimulateGet(w, p) PROVE Moves(w, SimulatePc) /\ UNCHANGED <<tables, createMu>>
  BY <1>1, BecomeOwn DEF SimulateGet, Moves, Record, SimulatePc
<1>2. CASE SimulateBlocks(w)
  BY <1>2, BecomeOwn DEF SimulateBlocks, Moves, Record, SimulatePc, tables
<1>3. CASE SimulateOps(w)
  BY <1>3, BecomeOwn DEF SimulateOps, Moves, Record, SimulatePc, tables
<1>4. CASE SimulateRun(w)
  BY <1>4, BecomeOwn, DoneOwn DEF SimulateRun, Moves, Record, SimulatePc, tables
<1>5. CASE SimulateWear(w) \/ SimulateVerdict(w)
  BY <1>5, AdvanceOwn, DoneOwn DEF SimulateWear, SimulateVerdict, Moves, SimulatePc
<1>6. QED BY <1>1, <1>2, <1>3, <1>4, <1>5 DEF Simulating, Moves, tables

\* Checkpoint writes checkpoints.
LEMMA CheckpointMoves ==
  ASSUME Requests, NEW w \in Worker, Checkpointing(w)
  PROVE  /\ Moves(w, CheckpointPc \cup {"idle"})
         /\ UNCHANGED <<cfgStatus, blocks, plans, planOps, wear, certs, createMu>>
PROOF
<1>1. ASSUME NEW p, NEW cursor, CheckpointRead(w, p, cursor)
      PROVE  Moves(w, CheckpointPc) /\ UNCHANGED <<tables, createMu>>
  BY <1>1, BecomeOwn DEF CheckpointRead, Moves, Record, CheckpointPc
<1>2. CASE CheckpointInsert(w)
  BY <1>2, DoneOwn DEF CheckpointInsert, Moves
<1>3. QED BY <1>1, <1>2 DEF Checkpointing, Moves, tables

\* Issue and Revoke write certificates and a plan's status.
LEMMA CertMoves ==
  ASSUME Requests, NEW w \in Worker, Certifying(w)
  PROVE  /\ Moves(w, CertPc \cup {"idle"})
         /\ UNCHANGED <<cfgStatus, blocks, planOps, checkpoints, wear, createMu>>
PROOF
<1>1. ASSUME NEW p, IssueGet(w, p) PROVE Moves(w, CertPc) /\ UNCHANGED <<tables, createMu>>
  BY <1>1, BecomeOwn DEF IssueGet, Moves, Record, CertPc
<1>2. ASSUME NEW c, NEW reason, RevokeGet(w, c, reason)
      PROVE  Moves(w, CertPc) /\ UNCHANGED <<tables, createMu>>
  BY <1>2, BecomeOwn DEF RevokeGet, Moves, Record, CertPc
<1>3. CASE IssueConfig(w)
  BY <1>3, AdvanceOwn, DoneOwn DEF IssueConfig, Moves, CertPc, tables
<1>4. CASE IssueInsert(w)
  BY <1>4, BecomeOwn, DoneOwn DEF IssueInsert, Moves, Record, CertPc
<1>5. CASE IssuePublish(w) \/ RevokeWrite(w)
  BY <1>5, DoneOwn DEF IssuePublish, RevokeWrite, Moves
<1>6. QED BY <1>1, <1>2, <1>3, <1>4, <1>5 DEF Certifying, CertCall, CertStep, Moves, tables

\* Configuration requests write configuration and blocks; one that is over at
\* once leaves no request behind.
LEMMA ConfigMoves ==
  ASSUME Requests, NEW w \in Worker, Configuring(w)
  PROVE  /\ Moves(w, ConfigPc \cup {"idle"})
         /\ UNCHANGED <<plans, planOps, checkpoints, wear, certs, createMu>>
PROOF
<1>1. CASE ConfigCreate(w)
  BY <1>1, BecomeOwn DEF ConfigCreate, At, Requests, Only, Moves, Record, ConfigPc
<1>2. ASSUME NEW b, MarkBadGet(w, b) PROVE Moves(w, ConfigPc) /\ UNCHANGED <<tables, createMu>>
  BY <1>2, BecomeOwn DEF MarkBadGet, Moves, Record, ConfigPc
<1>3. ASSUME NEW b, NEW reserved, ReserveGet(w, b, reserved)
      PROVE  Moves(w, ConfigPc) /\ UNCHANGED <<tables, createMu>>
  BY <1>3, BecomeOwn DEF ReserveGet, Moves, Record, ConfigPc
<1>4. CASE FreezeGet(w)
  BY <1>4, BecomeOwn DEF FreezeGet, Moves, Record, ConfigPc, tables
<1>5. CASE ConfigStep(w)
  BY <1>5, AdvanceOwn, DoneOwn
     DEF ConfigStep, ConfigBlocks, MarkBadRead, MarkBadWrite, ReserveRead, ReserveWrite,
         FreezePromote, FreezeWrite, Moves, ConfigPc, tables
<1>6. QED BY <1>1, <1>2, <1>3, <1>4, <1>5 DEF Configuring, ConfigCall, Moves, tables

\* A report does not touch the tables at all.
LEMMA ReportMoves ==
  ASSUME Requests, NEW w \in Worker, Reporting(w)
  PROVE  Moves(w, ReportPc \cup {"idle"}) /\ UNCHANGED <<tables, createMu>>
PROOF
<1>1. CASE CollectPlans(w)
  BY <1>1, BecomeOwn DEF CollectPlans, Moves, Record, ReportPc
<1>2. ASSUME NEW p, RecoverOps(w, p) PROVE Moves(w, ReportPc) /\ UNCHANGED <<tables, createMu>>
  BY <1>2, BecomeOwn DEF RecoverOps, Moves, Record, ReportPc
<1>3. CASE CollectWear(w)
  BY <1>3, BecomeOwn DEF CollectWear, Moves, Record, ReportPc
<1>4. CASE CollectCerts(w)
  BY <1>4, BecomeOwn DEF CollectCerts, Moves, Record, ReportPc
<1>5. CASE CollectBlocks(w)
  BY <1>5, BecomeOwn DEF CollectBlocks, Moves, Record, ReportPc
<1>6. CASE RecoverLatest(w)
  BY <1>6, BecomeOwn DEF RecoverLatest, Moves, Record, ReportPc
<1>7. CASE Answer(w)
  BY <1>7, DoneOwn DEF Answer, Moves
<1>8. QED BY <1>1, <1>2, <1>3, <1>4, <1>5, <1>6, <1>7 DEF Reporting, ReportCall, ReportStep, Moves

\* A request that stops half way.
LEMMA AbortMoves ==
  ASSUME Requests, NEW w \in Worker, Abort(w)
  PROVE  Moves(w, {"idle"}) /\ UNCHANGED tables
  BY DoneOwn DEF Abort, Moves

\* Every step of the service is one of these.
LEMMA StepCases ==
  ASSUME Next
  PROVE  \E w \in Worker :
           \/ Creating(w) \/ Appending(w) \/ Simulating(w) \/ Checkpointing(w)
           \/ Certifying(w) \/ Configuring(w) \/ Reporting(w) \/ Abort(w)
  BY DEF Next, Call, Step, PlanCall, PlanStep, Creating, Appending, Simulating, Checkpointing,
         Certifying, Configuring, Reporting
------------------------------------------------------------------------------
\* What a request that is numbering operations knows: the numbers it has used
\* or counted are in the log.
LogPc == {"create_op", "append_count", "append_op"}
Used(p, n) == n \in Nat /\ (p \in Plan => 1 .. n \subseteq DOMAIN planOps[p])
LogOwn(w) ==
  /\ req[w].pc \in LogPc => "plan" \in DOMAIN req[w]
  /\ req[w].pc = "append_count" => req[w].plan \in Plan
  /\ req[w].pc = "create_op" => "done" \in DOMAIN req[w] /\ Used(req[w].plan, req[w].done)
  /\ req[w].pc = "append_op" =>
       /\ {"start", "done"} \subseteq DOMAIN req[w]
       /\ req[w].start \in Nat /\ req[w].done \in Nat
       /\ Used(req[w].plan, req[w].start + req[w].done)

Logs   == planOps = [p \in Plan |-> planOps[p]]
Gapless(p) == \E n \in Nat : DOMAIN planOps[p] = 1 .. n
LogInv ==
  /\ Requests
  /\ Logs
  /\ \A p \in Plan : Gapless(p)
  /\ \A w \in Worker : LogOwn(w)

\* Of a log without gaps Count is the last number.
LEMMA CountIsLast ==
  ASSUME NEW p, NEW n \in Nat, DOMAIN planOps[p] = 1 .. n
  PROVE  Count(p) = n
  BY FS_Interval DEF Count

\* A number that follows used ones and is free follows the last one.
LEMMA FreeIsNext ==
  ASSUME NEW p \in Plan, Gapless(p), NEW n, Used(p, n), n + 1 \notin DOMAIN planOps[p]
  PROVE  DOMAIN planOps[p] = 1 .. n
PROOF
<1>1. PICK m \in Nat : DOMAIN planOps[p] = 1 .. m
  BY DEF Gapless
<1>2. n <= m
  BY <1>1 DEF Used
<1>3. m < n + 1
  BY <1>1 DEF Used
<1>4. QED BY <1>1, <1>2, <1>3 DEF Used

\* Inserting it leaves no gap.
LEMMA InsertNext ==
  ASSUME Logs, \A p \in Plan : Gapless(p), NEW q, NEW n, NEW op,
         Used(q, n), q \in Plan => n + 1 \notin DOMAIN planOps[q], InsertOp(q, n + 1, op)
  PROVE  /\ Logs' /\ \A p \in Plan : Gapless(p)'
         /\ \A p \in Plan : DOMAIN planOps[p] \subseteq DOMAIN planOps'[p]
         /\ Used(q, n + 1)'
PROOF
<1>1. CASE q \notin Plan
  <2>1. planOps' = planOps
    BY <1>1 DEF InsertOp, Logs
  <2>2. QED BY <1>1, <2>1 DEF Logs, Gapless, Used
<1>2. CASE q \in Plan
  <2>1. DOMAIN planOps[q] = 1 .. n
    BY <1>2, FreeIsNext
  <2>2. /\ Logs' /\ \A p \in Plan \ {q} : planOps'[p] = planOps[p]
        /\ DOMAIN planOps'[q] = 1 .. n \cup {n + 1}
    BY <1>2, <2>1 DEF InsertOp, Logs
  <2>3. DOMAIN planOps'[q] = 1 .. n + 1 /\ n + 1 \in Nat
    BY <2>2 DEF Used
  <2>4. QED BY <1>2, <2>1, <2>2, <2>3 DEF Gapless, Used
<1>3. QED BY <1>1, <1>2

\* A step that leaves the logs alone and begins no numbering keeps the invariant.
OffLog(w) == Requests' /\ Only(w) /\ req'[w].pc \notin LogPc /\ UNCHANGED planOps

\* The others know what they knew.
LEMMA OffKeeps ==
  ASSUME LogInv, NEW w \in Worker, OffLog(w)
  PROVE  LogInv'
  BY DEF LogInv, OffLog, Only, Logs, Gapless, LogOwn, Used, LogPc

\* Requests that do not touch the logs.
LEMMA OffCases ==
  ASSUME Requests, NEW w \in Worker,
         \/ Simulating(w) \/ Checkpointing(w) \/ Certifying(w) \/ Configuring(w)
         \/ Reporting(w) \/ Abort(w)
  PROVE  OffLog(w)
  BY SimulateMoves, CheckpointMoves, CertMoves, ConfigMoves, ReportMoves, AbortMoves
     DEF OffLog, Moves, LogPc, ConfigPc, SimulatePc, CheckpointPc, CertPc, ReportPc, tables

\* A step that inserts the next number, for whatever request it goes on with.
LEMMA InsertKeeps ==
  ASSUME LogInv, NEW w \in Worker, Requests', Only(w), LogOwn(w)',
         Logs', \A p \in Plan : Gapless(p)',
         \A p \in Plan : DOMAIN planOps[p] \subseteq DOMAIN planOps'[p]
  PROVE  LogInv'
  BY DEF LogInv, Only, LogOwn, Used

\* A request that counts one more done keeps the rest of its record.
LEMMA CountedOn ==
  ASSUME Requests, NEW w \in Worker, "done" \in DOMAIN req[w], NEW d,
         Become(w, [req[w] EXCEPT !.done = d])
  PROVE  /\ Requests' /\ Only(w) /\ req'[w].done = d /\ DOMAIN req'[w] = DOMAIN req[w]
         /\ \A f \in DOMAIN req[w] \ {"done"} : req'[w][f] = req[w][f]
         /\ req'[w].pc = req[w].pc
PROOF
<1> DEFINE r == [req[w] EXCEPT !.done = d]
<1>1. /\ Record(r) /\ r.done = d /\ DOMAIN r = DOMAIN req[w] /\ r.pc = req[w].pc
      /\ \A f \in DOMAIN req[w] \ {"done"} : r[f] = req[w][f]
  BY DEF Requests, Record
<1>2. Become(w, r)
  OBVIOUS
<1> HIDE DEF r
<1>3. QED BY <1>1, <1>2, BecomeOwn

\* Create numbers from one.
LEMMA CreateKeeps ==
  ASSUME LogInv, NEW w \in Worker, Creating(w)
  PROVE  LogInv'
PROOF
<1>1. ASSUME NEW ops, NEW numbered, CreateCall(w, ops, numbered) PROVE OffLog(w)
  BY <1>1, BecomeOwn DEF CreateCall, LogInv, OffLog, Record, LogPc, tables
<1>2. ASSUME CreateLock(w) \/ CreateConfig(w) \/ CreateFind(w) PROVE OffLog(w)
  BY <1>2, AdvanceOwn, DoneOwn
     DEF CreateLock, CreateConfig, CreateFind, CreateReturn, LogInv, OffLog, LogPc, tables
<1>3. CASE CreateRow(w)
  <2>1. OffLog(w) \/ \E plan, ops :
          /\ Requests' /\ Only(w) /\ UNCHANGED planOps
          /\ req'[w] = [pc |-> "create_op", plan |-> plan, ops |-> ops, done |-> 0]
    BY <1>3, BecomeOwn, DoneOwn DEF CreateRow, CreateReturn, LogInv, OffLog, Record, LogPc
  <2>2. ASSUME NEW plan, NEW ops, Requests', Only(w), UNCHANGED planOps,
               req'[w] = [pc |-> "create_op", plan |-> plan, ops |-> ops, done |-> 0]
        PROVE  LogInv'
    <3>1. LogOwn(w)'
      BY <2>2 DEF LogOwn, Used, LogPc
    <3>2. QED BY <2>2, <3>1, InsertKeeps DEF LogInv, Logs, Gapless
  <2>3. QED BY <2>1, <2>2, OffKeeps
<1>4. CASE CreateOp(w)
  <2>1. PICK p, d, r : r = req[w] /\ p = r.plan /\ d = r.done
    OBVIOUS
  <2>2. {"plan", "done"} \subseteq DOMAIN r /\ r.pc = "create_op" /\ Used(p, d)
    BY <1>4, <2>1 DEF CreateOp, At, LogInv, LogOwn, LogPc
  <2>3. CASE d + 1 \in DOMAIN planOps[p]
    <3>1. OffLog(w)
      BY <1>4, <2>1, <2>3, DoneOwn DEF CreateOp, CreateReturn, LogInv, OffLog, LogPc
    <3>2. QED BY <3>1, OffKeeps
  <2>4. CASE d + 1 \notin DOMAIN planOps[p]
    <3>1. InsertOp(p, d + 1, r.ops[d + 1])
      BY <1>4, <2>1, <2>4 DEF CreateOp
    <3>2. /\ Logs' /\ (\A q \in Plan : Gapless(q)') /\ Used(p, d + 1)'
          /\ \A q \in Plan : DOMAIN planOps[q] \subseteq DOMAIN planOps'[q]
      BY <2>2, <2>4, <3>1, InsertNext DEF LogInv
    <3>3. Done(w) \/ Become(w, [r EXCEPT !.done = d + 1])
      BY <1>4, <2>1, <2>4 DEF CreateOp, CreateReturn
    <3>4. CASE Done(w)
      BY <3>2, <3>4, DoneOwn, InsertKeeps DEF LogInv, LogOwn, LogPc
    <3>5. CASE Become(w, [r EXCEPT !.done = d + 1])
      <4>1. /\ Requests' /\ Only(w) /\ req'[w].pc = "create_op" /\ DOMAIN req'[w] = DOMAIN r
            /\ req'[w].plan = p /\ req'[w].done = d + 1
        BY <2>1, <2>2, <3>5, CountedOn DEF LogInv
      <4>2. LogOwn(w)'
        BY <2>2, <3>2, <4>1 DEF LogOwn, LogPc
      <4>3. QED BY <3>2, <4>1, <4>2, InsertKeeps
    <3>6. QED BY <3>3, <3>4, <3>5
  <2>5. QED BY <2>3, <2>4
<1>5. QED BY <1>1, <1>2, <1>3, <1>4, OffKeeps DEF Creating

\* AppendOps numbers on from the rows it has counted.
LEMMA AppendKeeps ==
  ASSUME LogInv, NEW w \in Worker, Appending(w)
  PROVE  LogInv'
PROOF
<1>1. ASSUME NEW p \in Plan, NEW ops, AppendGet(w, p, ops) PROVE LogInv'
  <2>1. /\ Requests' /\ Only(w) /\ UNCHANGED planOps
        /\ req'[w] = [pc |-> "append_count", plan |-> p, ops |-> ops]
    BY <1>1, BecomeOwn DEF AppendGet, LogInv, Record, tables
  <2>2. LogOwn(w)'
    BY <2>1 DEF LogOwn, LogPc
  <2>3. QED BY <2>1, <2>2, InsertKeeps DEF LogInv, Logs, Gapless
<1>2. CASE AppendCount(w)
  <2> DEFINE r == req[w]
  <2>1. r.plan \in Plan
    BY <1>2 DEF AppendCount, At, LogInv, LogOwn
  <2>2. PICK n \in Nat : DOMAIN planOps[r.plan] = 1 .. n
    BY <2>1 DEF LogInv, Gapless
  <2>3. Count(r.plan) = n
    BY <2>1, <2>2, CountIsLast
  <2>4. \/ OffLog(w)
        \/ /\ Requests' /\ Only(w) /\ UNCHANGED planOps
           /\ req'[w] = [pc |-> "append_op", plan |-> r.plan, ops |-> r.ops,
                         start |-> n, done |-> 0]
    BY <1>2, <2>3, BecomeOwn, DoneOwn DEF AppendCount, LogInv, OffLog, Record, LogPc, tables
  <2>5. ASSUME Requests', Only(w), UNCHANGED planOps,
               req'[w] = [pc |-> "append_op", plan |-> r.plan, ops |-> r.ops,
                          start |-> n, done |-> 0]
        PROVE  LogInv'
    <3>1. LogOwn(w)'
      BY <2>2, <2>5 DEF LogOwn, Used, LogPc
    <3>2. QED BY <2>5, <3>1, InsertKeeps DEF LogInv, Logs, Gapless
  <2>6. QED BY <2>4, <2>5, OffKeeps
<1>3. CASE AppendOp(w)
  <2>1. PICK p, n, d, r : r = req[w] /\ p = r.plan /\ d = r.done /\ n = r.start + d
    OBVIOUS
  <2>2. /\ {"plan", "start", "done"} \subseteq DOMAIN r /\ r.start \in Nat /\ d \in Nat
        /\ r.pc = "append_op" /\ Used(p, n) /\ r.start + (d + 1) = n + 1
    BY <1>3, <2>1 DEF AppendOp, At, LogInv, LogOwn, LogPc
  <2>3. CASE n + 1 \in DOMAIN planOps[p]
    <3>1. OffLog(w)
      BY <1>3, <2>1, <2>2, <2>3, DoneOwn DEF AppendOp, LogInv, OffLog, LogPc
    <3>2. QED BY <3>1, OffKeeps
  <2>4. CASE n + 1 \notin DOMAIN planOps[p]
    <3>1. InsertOp(p, n + 1, r.ops[d + 1])
      BY <1>3, <2>1, <2>2, <2>4 DEF AppendOp
    <3>2. /\ Logs' /\ (\A q \in Plan : Gapless(q)') /\ Used(p, n + 1)'
          /\ \A q \in Plan : DOMAIN planOps[q] \subseteq DOMAIN planOps'[q]
      BY <2>2, <2>4, <3>1, InsertNext DEF LogInv
    <3>3. Advance(w, "append_list") \/ Become(w, [r EXCEPT !.done = d + 1])
      BY <1>3, <2>1, <2>2, <2>4 DEF AppendOp
    <3>4. CASE Advance(w, "append_list")
      BY <3>2, <3>4, AdvanceOwn, InsertKeeps DEF LogInv, LogOwn, LogPc
    <3>5. CASE Become(w, [r EXCEPT !.done = d + 1])
      <4>1. /\ Requests' /\ Only(w) /\ req'[w].pc = "append_op" /\ DOMAIN req'[w] = DOMAIN r
            /\ req'[w].plan = p /\ req'[w].start = r.start /\ req'[w].done = d + 1
        BY <2>1, <2>2, <3>5, CountedOn DEF LogInv
      <4>2. LogOwn(w)'
        BY <2>2, <3>2, <4>1 DEF LogOwn, LogPc
      <4>3. QED BY <3>2, <4>1, <4>2, InsertKeeps
    <3>6. QED BY <3>3, <3>4, <3>5
  <2>5. QED BY <2>3, <2>4
<1>4. ASSUME AppendList(w) PROVE OffLog(w)
  BY <1>4, BecomeOwn DEF AppendList, LogInv, OffLog, Record, LogPc, tables
<1>5. ASSUME AppendStatus(w) PROVE OffLog(w)
  BY <1>5, AdvanceOwn DEF AppendStatus, LogInv, OffLog, LogPc
<1>6. ASSUME AppendHash(w) PROVE OffLog(w)
  BY <1>6, DoneOwn DEF AppendHash, LogInv, OffLog, LogPc
<1>7. QED BY <1>1, <1>2, <1>3, <1>4, <1>5, <1>6, OffKeeps DEF Appending

\* Logs are empty at first.
LEMMA LogInit == InitStore => LogInv
  BY RequestsInit DEF InitStore, LogInv, Logs, Gapless, LogOwn, LogPc, Idle

\* Every step keeps the invariant.
LEMMA LogStep == LogInv /\ [Next]_vars => LogInv'
PROOF
<1> SUFFICES ASSUME LogInv, [Next]_vars PROVE LogInv'
  OBVIOUS
<1>1. CASE Next
  BY <1>1, StepCases, CreateKeeps, AppendKeeps, OffCases, OffKeeps DEF LogInv
<1>2. CASE UNCHANGED vars
  BY <1>2 DEF vars, LogInv, Requests, Logs, Gapless, LogOwn, Used
<1>3. QED BY <1>1, <1>2

\* A log's sequence numbers have no gap, whichever appends and creations
\* interleave, collide or stop half way, before and after the freeze.
THEOREM LogsContiguous == (Spec => []OpsContiguous) /\ (SpecFrozen => []OpsContiguous)
PROOF
<1>1. LogInv => OpsContiguous
  BY CountIsLast DEF LogInv, Gapless, OpsContiguous
<1>2. (Init => LogInv) /\ (InitFrozen => LogInv)
  BY LogInit DEF Init, InitFrozen
<1>3. QED BY <1>1, <1>2, LogStep, PTL DEF Spec, SpecFrozen
------------------------------------------------------------------------------
HasRows  == blocks \in [Block -> FactoryRow]
NoRowYet == blocks = [b \in Block |-> NoRow]

\* A request about to write a row has read one, so there are rows.
Writing == {"mark_write", "reserve_write"}
Naming  == {"mark_read", "reserve_read"} \cup Writing
ConfigOwn(w) ==
  /\ req[w].pc \in Naming => "block" \in DOMAIN req[w] /\ req[w].block \in Block
  /\ req[w].pc \in {"reserve_read", "reserve_write"} =>
       "reserved" \in DOMAIN req[w] /\ req[w].reserved \in BOOLEAN
  /\ req[w].pc \in Writing => HasRows

ConfigInv ==
  /\ Requests
  /\ NoRowYet \/ HasRows
  /\ \A w \in Worker : ConfigOwn(w)

\* The rows a simulation may start from are closed under UpdateStatus to bad
\* and MarkReserved (block_store.go), and the initial ones are among them.
LEMMA FactoryRows ==
  /\ NoRow.status = "absent"
  /\ \A row \in FactoryRow : row.status # "absent"
  /\ \A b \in Block : InitialRows[b] \in FactoryRow
  /\ \A row \in FactoryRow : [row EXCEPT !.status = "bad"] \in FactoryRow
  /\ \A row \in FactoryRow, reserved \in BOOLEAN :
       [row EXCEPT !.reserved = reserved,
                   !.status = IF reserved THEN "reserved" ELSE "available"] \in FactoryRow
PROOF
<1>1. NoRow.status = "absent"
  BY DEF NoRow, Row
<1>2. \A row \in FactoryRow : row.status # "absent"
  BY DEF FactoryRow, BlockStatus
<1>3. Row("available", FALSE) \in FactoryRow /\ Row("reserved", TRUE) \in FactoryRow
  BY DEF FactoryRow, BlockStatus, Row
<1>4. ASSUME NEW row \in FactoryRow PROVE [row EXCEPT !.status = "bad"] \in FactoryRow
  BY DEF FactoryRow, BlockStatus
<1>5. ASSUME NEW row \in FactoryRow, NEW reserved \in BOOLEAN
      PROVE  [row EXCEPT !.reserved = reserved,
                         !.status = IF reserved THEN "reserved" ELSE "available"] \in FactoryRow
  BY DEF FactoryRow, BlockStatus
<1>6. QED BY <1>1, <1>2, <1>3, <1>4, <1>5 DEF InitialRows

\* The service starts without rows and without requests.
LEMMA ConfigInit == Init => ConfigInv
  BY RequestsInit DEF Init, ConfigInv, NoRowYet, InitStore, Idle, ConfigOwn, Naming, Writing

\* A step of another request leaves configuration and blocks alone and begins
\* no configuration request.
Aside(w) == Requests' /\ Only(w) /\ req'[w].pc \notin ConfigPc /\ UNCHANGED <<cfgStatus, blocks>>

\* Every request but the configuration's steps aside.
LEMMA AsideCases ==
  ASSUME Requests, NEW w \in Worker,
         \/ Creating(w) \/ Appending(w) \/ Simulating(w) \/ Checkpointing(w)
         \/ Certifying(w) \/ Reporting(w) \/ Abort(w)
  PROVE  Aside(w)
  BY CreateMoves, AppendMoves, SimulateMoves, CheckpointMoves, CertMoves, ReportMoves, AbortMoves
     DEF Aside, Moves, ConfigPc, CreatePc, AppendPc, SimulatePc, CheckpointPc, CertPc, ReportPc,
         tables

\* It keeps the invariant.
LEMMA AsideKeeps ==
  ASSUME ConfigInv, NEW w \in Worker, Aside(w)
  PROVE  ConfigInv'
  BY DEF ConfigInv, ConfigOwn, Aside, Only, HasRows, NoRowYet, Naming, Writing, ConfigPc

\* The calls that create, mark, reserve and freeze keep the invariant.
LEMMA ConfigCallKeeps ==
  ASSUME ConfigInv, NEW w \in Worker, ConfigCall(w)
  PROVE  ConfigInv'
PROOF
<1>1. CASE ConfigCreate(w)
  BY <1>1, BecomeOwn DEF ConfigCreate, ConfigInv, ConfigOwn, Record, Requests, Only, HasRows, NoRowYet,
     Naming, Writing
<1>2. ASSUME NEW b \in Block, MarkBadGet(w, b) PROVE ConfigInv'
  BY <1>2, BecomeOwn DEF MarkBadGet, ConfigInv, ConfigOwn, Record, Only, HasRows, NoRowYet,
     Naming, Writing, tables
<1>3. ASSUME NEW b \in Block, NEW reserved \in BOOLEAN, ReserveGet(w, b, reserved) PROVE ConfigInv'
  BY <1>3, BecomeOwn DEF ReserveGet, ConfigInv, ConfigOwn, Record, Only, HasRows, NoRowYet,
     Naming, Writing, tables
<1>4. CASE FreezeGet(w)
  BY <1>4, BecomeOwn DEF FreezeGet, ConfigInv, ConfigOwn, Record, Only, HasRows, NoRowYet,
     Naming, Writing, tables
<1>5. QED BY <1>1, <1>2, <1>3, <1>4 DEF ConfigCall

\* So does what those requests go on to do: a write finds the rows it read.
LEMMA ConfigStepKeeps ==
  ASSUME ConfigInv, NEW w \in Worker, ConfigStep(w)
  PROVE  ConfigInv'
PROOF
<1>1. CASE ConfigBlocks(w)
  <2>1. HasRows'
    BY <1>1, FactoryRows DEF ConfigBlocks, InitialRows, HasRows
  <2>2. QED BY <1>1, <2>1, DoneOwn DEF ConfigBlocks, ConfigInv, ConfigOwn, Only, Naming, Writing
<1>2. CASE MarkBadRead(w)
  <2>1. HasRows \/ blocks[req[w].block].status = "absent"
    BY <1>2 DEF MarkBadRead, At, ConfigInv, ConfigOwn, NoRowYet, NoRow, Row, Naming, Writing
  <2>2. QED BY <1>2, <2>1, AdvanceOwn, DoneOwn DEF MarkBadRead, At, ConfigInv, ConfigOwn, Only,
            HasRows, NoRowYet, Naming, Writing, tables
<1>3. CASE MarkBadWrite(w)
  <2>1. HasRows /\ req[w].block \in Block
    BY <1>3 DEF MarkBadWrite, At, ConfigInv, ConfigOwn, Naming, Writing
  <2>2. HasRows'
    BY <1>3, <2>1, FactoryRows DEF MarkBadWrite, HasRows
  <2>3. QED BY <1>3, <2>2, DoneOwn DEF MarkBadWrite, ConfigInv, ConfigOwn, Only, Naming, Writing
<1>4. CASE ReserveRead(w)
  <2>1. HasRows \/ blocks[req[w].block].status = "absent"
    BY <1>4 DEF ReserveRead, At, ConfigInv, ConfigOwn, NoRowYet, NoRow, Row, Naming, Writing
  <2>2. QED BY <1>4, <2>1, AdvanceOwn, DoneOwn DEF ReserveRead, At, ConfigInv, ConfigOwn, Only,
            HasRows, NoRowYet, Naming, Writing, tables
<1>5. CASE ReserveWrite(w)
  <2>1. HasRows /\ req[w].block \in Block /\ req[w].reserved \in BOOLEAN
    BY <1>5 DEF ReserveWrite, At, ConfigInv, ConfigOwn, Naming, Writing
  <2>2. HasRows'
    BY <1>5, <2>1, FactoryRows DEF ReserveWrite, HasRows
  <2>3. QED BY <1>5, <2>2, DoneOwn DEF ReserveWrite, ConfigInv, ConfigOwn, Only, Naming, Writing
<1>6. CASE FreezePromote(w)
  BY <1>6, AdvanceOwn DEF FreezePromote, ConfigInv, ConfigOwn, Only, HasRows, NoRowYet, Naming, Writing
<1>7. CASE FreezeWrite(w)
  BY <1>7, DoneOwn DEF FreezeWrite, ConfigInv, ConfigOwn, Only, HasRows, NoRowYet, Naming, Writing
<1>8. QED BY <1>1, <1>2, <1>3, <1>4, <1>5, <1>6, <1>7 DEF ConfigStep

\* Every step keeps the invariant.
LEMMA ConfigNext == ConfigInv /\ [Next]_vars => ConfigInv'
PROOF
<1> SUFFICES ASSUME ConfigInv, [Next]_vars PROVE ConfigInv'
  OBVIOUS
<1>1. CASE Next
  BY <1>1, StepCases, AsideCases, AsideKeeps, ConfigCallKeeps, ConfigStepKeeps
     DEF ConfigInv, Configuring
<1>2. CASE UNCHANGED vars
  BY <1>2 DEF vars, ConfigInv, Requests, ConfigOwn, HasRows, NoRowYet
<1>3. QED BY <1>1, <1>2

\* It holds throughout.
LEMMA ConfigInvariant == Spec => []ConfigInv
  BY ConfigInit, ConfigNext, PTL DEF Spec

\* The block table is empty or complete and every row is one of the four a
\* simulation may start from, whatever configuration requests overlap.
THEOREM BlocksAgree == Spec => []BlockRowsAgree
PROOF
<1>1. ConfigInv => BlockRowsAgree
  BY DEF ConfigInv, BlockRowsAgree, StoredRows, HasRows, NoRowYet
<1>2. QED BY <1>1, ConfigInvariant, PTL

\* Without a straggler no step touches a frozen configuration or lets one in.
LEMMA SettledStays ==
  ASSUME ConfigInv, [Next]_vars, Settled
  PROVE  Settled' /\ UNCHANGED <<cfgStatus, blocks>>
PROOF
<1>1. ASSUME NEW w \in Worker, Aside(w) PROVE Settled' /\ UNCHANGED <<cfgStatus, blocks>>
  BY <1>1 DEF Aside, Only, Settled, Straggling, ConfigPc
<1>2. ASSUME NEW w \in Worker, ConfigCall(w) PROVE Settled' /\ UNCHANGED <<cfgStatus, blocks>>
  BY <1>2, BecomeOwn DEF ConfigCall, ConfigCreate, MarkBadGet, ReserveGet, FreezeGet, ConfigInv,
     Settled, Straggling, Only, Record, tables
<1>3. ASSUME NEW w \in Worker, ConfigStep(w) PROVE Settled' /\ UNCHANGED <<cfgStatus, blocks>>
  BY <1>3, DoneOwn DEF ConfigStep, ConfigBlocks, MarkBadRead, MarkBadWrite, ReserveRead,
     ReserveWrite, FreezePromote, FreezeWrite, At, ConfigInv, Settled, Straggling, Only, tables
<1>4. CASE Next
  BY <1>4, StepCases, AsideCases, <1>1, <1>2, <1>3 DEF ConfigInv, Configuring
<1>5. CASE UNCHANGED vars
  BY <1>5 DEF vars, Settled
<1>6. QED BY <1>4, <1>5

\* Once frozen and without a straggler, configuration and blocks stay as they
\* are for good.
THEOREM FreezeIsFinal == Spec => FreezeSettles
PROOF
<1>1. ConfigInv /\ [Next]_vars => (Settled => Settled' /\ UNCHANGED <<cfgStatus, blocks>>)
  BY SettledStays
<1>2. QED BY <1>1, ConfigInvariant, PTL DEF Spec, FreezeSettles
==============================================================================
