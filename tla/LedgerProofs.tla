----------------------------- MODULE LedgerProofs -----------------------------
(***************************************************************************)
(* Proof that the service over a frozen configuration keeps the promises   *)
(* of PlanLedger, for any number of overlapping requests, any of which may *)
(* fail half way.                                                          *)
(***************************************************************************)
EXTENDS RequestProofs, SequenceTheorems

\* What OpStore.List returns of a log without gaps is the log.
LEMMA ListIsLog ==
  ASSUME NEW p, NEW n \in Nat, planOps[p] \in [1 .. n -> Operation]
  PROVE  List(p) = planOps[p]
PROOF
<1>1. Count(p) = n
  BY CountIsLast
<1>2. ASSUME NEW s \in 1 .. n
      PROVE  Cardinality({t \in 1 .. n : t <= s}) = s
  <2>1. {t \in 1 .. n : t <= s} = 1 .. s
    OBVIOUS
  <2>2. 1 \in Int /\ s \in Int /\ ~(1 > s) /\ s - 1 + 1 = s
    OBVIOUS
  <2>3. QED BY <2>1, <2>2, FS_Interval
<1>3. ASSUME NEW i \in 1 .. n
      PROVE  (CHOOSE s \in 1 .. n : Cardinality({t \in 1 .. n : t <= s}) = i) = i
  BY <1>2
<1>4. QED BY <1>1, <1>3 DEF List

\* A longer log has the same prefixes.
LEMMA SamePrefix ==
  ASSUME NEW log \in Seq(Operation), NEW op \in Operation, NEW n \in 0 .. Len(log)
  PROVE  SubSeq(Append(log, op), 1, n) = SubSeq(log, 1, n)
  OBVIOUS

\* A log is its own longest prefix.
LEMMA WholePrefix ==
  ASSUME NEW log \in Seq(Operation)
  PROVE  SubSeq(log, 1, Len(log)) = log
  OBVIOUS

\* The row a statement inserts after a log's last is the log's next element.
LEMMA Inserted ==
  ASSUME NEW log \in Seq(Operation), NEW op \in Operation, NEW n \in Nat, n = Len(log)
  PROVE  [t \in DOMAIN log \cup {n + 1} |-> IF t = n + 1 THEN op ELSE log[t]] = Append(log, op)
PROOF
<1> DEFINE longer == [t \in DOMAIN log \cup {n + 1} |-> IF t = n + 1 THEN op ELSE log[t]]
           all    == Append(log, op)
<1>1. all \in Seq(Operation) /\ Len(all) = n + 1
  OBVIOUS
<1>2. DOMAIN log = 1 .. n /\ DOMAIN all = 1 .. n + 1
  BY <1>1
<1>3. \A t \in 1 .. n + 1 : all[t] = IF t = n + 1 THEN op ELSE log[t]
  OBVIOUS
<1>4. all \in [1 .. n + 1 -> Operation]
  BY <1>1, LenProperties
<1>5. 1 .. n \cup {n + 1} = 1 .. n + 1
  OBVIOUS
<1>6. longer = [t \in 1 .. n + 1 |-> IF t = n + 1 THEN op ELSE log[t]]
  BY <1>2, <1>5
<1> HIDE DEF all, longer
<1>7. longer = all
  BY <1>3, <1>4, <1>6
<1>8. QED BY <1>7 DEF longer, all
-----------------------------------------------------------------------------
\* The tables over a frozen configuration.
PlanRow(r) ==
  /\ r = [f \in DOMAIN r |-> r[f]]
  /\ {"status", "hash", "opCount", "cursor", "step"} \subseteq DOMAIN r
CertRow(r) == r = [f \in DOMAIN r |-> r[f]] /\ {"plan", "status", "reason"} \subseteq DOMAIN r
Table(t, max) == /\ Len(t) \in 0 .. max
                 /\ t = [i \in 1 .. Len(t) |-> t[i]]

Recorded ==
  /\ \A p \in Plan : planOps[p] \in Seq(Operation)
  /\ checkpoints = [p \in Plan |-> checkpoints[p]]
  /\ \A p \in Plan : checkpoints[p] \subseteq 1 .. Len(planOps[p])
  /\ Table(plans, MaxPlans) /\ \A p \in DOMAIN plans : PlanRow(plans[p])
  /\ Table(certs, MaxCerts) /\ \A c \in DOMAIN certs : CertRow(certs[c])
  /\ cfgStatus = "frozen"

\* The rows of a table are numbered from one.
LEMMA TableRows ==
  ASSUME NEW t, NEW max \in Nat, Table(t, max)
  PROVE  DOMAIN t = 1 .. Len(t) /\ DOMAIN t \subseteq 1 .. max
PROOF
<1>1. DOMAIN [i \in 1 .. Len(t) |-> t[i]] = 1 .. Len(t)
  OBVIOUS
<1>2. DOMAIN t = 1 .. Len(t)
  BY <1>1 DEF Table
<1>3. QED BY <1>2 DEF Table

\* An insert adds one row and leaves the others.
LEMMA TableAppend ==
  ASSUME NEW t, NEW max \in Nat, Table(t, max), Len(t) # max, NEW e
  PROVE  /\ Table(Append(t, e), max) /\ Len(t) + 1 \in 1 .. max
         /\ DOMAIN t = 1 .. Len(t)
         /\ DOMAIN Append(t, e) = 1 .. Len(t) + 1
         /\ \A i \in DOMAIN t : Append(t, e)[i] = t[i]
         /\ Append(t, e)[Len(t) + 1] = e
PROOF
<1> DEFINE S == {t[i] : i \in DOMAIN t} \cup {e}
<1>1. t \in Seq(S)
  BY SeqDef DEF Table
<1>2. e \in S /\ Len(t) \in Nat /\ Len(t) + 1 \in 1 .. max
  BY DEF Table
<1> DEFINE longer == Append(t, e)
<1>3. /\ longer \in Seq(S) /\ Len(longer) = Len(t) + 1
      /\ \A i \in 1 .. Len(t) : longer[i] = t[i]
      /\ longer[Len(t) + 1] = e
  BY <1>1, <1>2
<1> HIDE DEF longer
<1>4. longer = [i \in 1 .. Len(longer) |-> longer[i]]
  BY <1>3, LenProperties
<1>5. DOMAIN t = 1 .. Len(t) /\ DOMAIN longer = 1 .. Len(t) + 1
  BY <1>1, <1>3, LenProperties
<1>6. QED BY <1>2, <1>3, <1>4, <1>5 DEF Table, longer

\* The verdicts a plan's log and checkpoints allow, and the plans certified.
CanEnd(p)  == {Outcome(SubSeq(planOps[p], 1, n), cursors, blocks) :
                 n \in 0 .. Len(planOps[p]), cursors \in SUBSET checkpoints[p]}
CanPass(p) == \E end \in CanEnd(p) : end.status = "publishable"
Certified  == {certs[c].plan : c \in DOMAIN certs}

\* What a request has read stays true while the others go on.
Sent(r) ==
  {"ops", "done"} \subseteq DOMAIN r /\ r.ops \in Seq(Operation) /\ r.done \in 0 .. Len(r.ops) - 1
LedgerOwn(w) ==
  LET r == req[w] IN
  /\ r.pc \notin Straggling
  /\ r.pc \in {"create_lock", "create_config", "create_find", "create_row", "append_count"} =>
       "ops" \in DOMAIN r /\ r.ops \in Seq(Operation)
  /\ r.pc \in {"create_find", "create_row"} => r.ops # << >>
  /\ r.pc \in {"create_op", "append_op"} => Sent(r)
  /\ r.pc \in SimulatePc \cup CheckpointPc \cup {"issue_config", "issue_insert", "issue_publish"} =>
       "plan" \in DOMAIN r /\ r.plan \in Plan
  /\ r.pc \in {"sim_ops", "sim_run"} => "rows" \in DOMAIN r /\ r.rows = blocks
  /\ r.pc = "sim_run" =>
       "ops" \in DOMAIN r /\ \E n \in 0 .. Len(planOps[r.plan]) : r.ops = SubSeq(planOps[r.plan], 1, n)
  /\ r.pc \in {"sim_wear", "sim_verdict"} =>
       "end" \in DOMAIN r /\ r.end \in CanEnd(r.plan) /\ r.end.status # "error"
  /\ r.pc = "cp_insert" => "cursor" \in DOMAIN r /\ r.cursor \in 1 .. Len(planOps[r.plan])
  /\ r.pc \in {"issue_config", "issue_insert"} => CanPass(r.plan)
  /\ r.pc = "issue_publish" => r.plan \in Certified

PassedCanPass == \A p \in DOMAIN plans : plans[p].status = "publishable" => CanPass(p)

LedgerInv == LogInv /\ Recorded /\ PassedCanPass /\ \A w \in Worker : LedgerOwn(w)

\* The step only adds to logs, checkpoints and certificates.
Grown ==
  /\ UNCHANGED blocks
  /\ Certified \subseteq Certified'
  /\ \A p \in Plan :
       /\ Len(planOps[p]) <= Len(planOps'[p])
       /\ \A n \in 0 .. Len(planOps[p]) : SubSeq(planOps'[p], 1, n) = SubSeq(planOps[p], 1, n)
       /\ checkpoints[p] \subseteq checkpoints'[p]

\* What each step is shown to do.
LedgerAllows == [Ledger!LedgerNext]_(Ledger!lvars)
Kept(w) == Recorded' /\ Grown /\ PassedCanPass' /\ LedgerOwn(w)' /\ LedgerAllows

\* What a plan could be judged it still can when the logs have grown.
LEMMA GrownEnds ==
  ASSUME Recorded, Recorded', Grown, NEW p \in Plan
  PROVE  CanEnd(p) \subseteq CanEnd(p)' /\ (CanPass(p) => CanPass(p)')
PROOF
<1>1. ASSUME NEW end \in CanEnd(p) PROVE end \in CanEnd(p)'
  <2>1. PICK n \in 0 .. Len(planOps[p]), cursors \in SUBSET checkpoints[p] :
          end = Outcome(SubSeq(planOps[p], 1, n), cursors, blocks)
    BY <1>1 DEF CanEnd
  <2>2. Len(planOps[p]) \in Nat /\ Len(planOps'[p]) \in Nat
    BY DEF Recorded
  <2>3. n \in 0 .. Len(planOps'[p]) /\ cursors \in SUBSET checkpoints'[p]
    BY <2>1, <2>2 DEF Grown
  <2>4. end = Outcome(SubSeq(planOps'[p], 1, n), cursors, blocks')
    BY <2>1 DEF Grown
  <2>5. QED BY <2>3, <2>4 DEF CanEnd
<1>2. QED BY <1>1 DEF CanPass

\* The requests that do not move keep what they know.
LEMMA OthersKept ==
  ASSUME LedgerInv, NEW w \in Worker, Only(w), Kept(w)
  PROVE  \A v \in Worker : LedgerOwn(v)'
PROOF
<1>1. ASSUME NEW v \in Worker \ {w} PROVE LedgerOwn(v)'
  <2>1. PICK r, p : r = req[v] /\ r = req'[v] /\ p = r.plan
    BY DEF Only
  <2>2. p \in Plan => /\ Len(planOps[p]) \in Nat /\ Len(planOps'[p]) \in Nat
                      /\ CanEnd(p) \subseteq CanEnd(p)' /\ (CanPass(p) => CanPass(p)')
    BY GrownEnds DEF Kept, Recorded, LedgerInv
  <2>3. LedgerOwn(v)
    BY DEF LedgerInv
  <2>4. QED BY <2>1, <2>2, <2>3 DEF LedgerOwn, Kept, Grown, Straggling, SimulatePc, CheckpointPc
<1>2. QED BY <1>1 DEF Kept

\* A step that writes none of these tables.
Still == UNCHANGED <<cfgStatus, blocks, plans, planOps, checkpoints, certs>>

\* A step that writes nothing shows as a stutter of the ledger.
LEMMA StillKept ==
  ASSUME LedgerInv, NEW w \in Worker, Still, LedgerOwn(w)'
  PROVE  Kept(w)
PROOF
<1>1. UNCHANGED Ledger!lvars
  BY DEF Still, Ledger!lvars, Exists
<1>2. Grown
  BY DEF Still, Grown, LedgerInv, Recorded, Certified
<1>3. QED BY <1>1, <1>2
  DEF Still, Kept, LedgerAllows, LedgerInv, Recorded, PassedCanPass, CanPass, CanEnd, Table, PlanRow, CertRow
-----------------------------------------------------------------------------
\* Steps that only read.  A report, the end of a request, and what is left of the
\* configuration requests once the configuration is frozen.
LEMMA RestKept ==
  ASSUME LedgerInv, NEW w \in Worker, Reporting(w) \/ Abort(w) \/ Configuring(w)
  PROVE  Kept(w) /\ Only(w)
PROOF
<1>1. CASE Reporting(w)
  BY <1>1, ReportMoves, StillKept
     DEF Moves, ReportPc, Still, tables, LedgerInv, LogInv, LedgerOwn, Straggling, SimulatePc, CheckpointPc
<1>2. CASE Abort(w)
  BY <1>2, AbortMoves, StillKept
     DEF Moves, Still, tables, LedgerInv, LogInv, LedgerOwn, Straggling, SimulatePc, CheckpointPc
<1>3. CASE Configuring(w)
  <2>1. cfgStatus = "frozen" /\ req[w].pc \notin Straggling /\ Requests
    BY DEF LedgerInv, LogInv, Recorded, LedgerOwn
  <2>2. FreezeGet(w) \/ FreezeWrite(w)
    BY <1>3, <2>1 DEF Configuring, ConfigCall, ConfigStep, ConfigCreate, ConfigBlocks, MarkBadGet,
       MarkBadRead, MarkBadWrite, ReserveGet, ReserveRead, ReserveWrite, FreezePromote, At, Straggling
  <2>3. Requests' /\ Only(w) /\ req'[w].pc \in {"freeze_write", "idle"} /\ Still
    <3>1. CASE FreezeGet(w)
      BY <2>1, <3>1, BecomeOwn DEF FreezeGet, Record, Still, tables
    <3>2. CASE FreezeWrite(w)
      BY <2>1, <3>2, DoneOwn DEF FreezeWrite, Still
    <3>3. QED BY <2>2, <3>1, <3>2
  <2>4. LedgerOwn(w)'
    BY <2>3 DEF LedgerOwn, Straggling, SimulatePc, CheckpointPc
  <2>5. QED BY <2>3, <2>4, StillKept
<1>4. QED BY <1>1, <1>2, <1>3

\* The batches are sequences of operations.
LEMMA BatchOps ==
  ASSUME NEW ops \in Batch
  PROVE  ops \in Seq(Operation)
  BY StoreAssumption

\* Plan, Append and Certificate requests until they write.
LEMMA CreateReads ==
  ASSUME LedgerInv, NEW w \in Worker, Creating(w), ~CreateRow(w), ~CreateOp(w)
  PROVE  Kept(w) /\ Only(w)
PROOF
<1> USE DEF LedgerInv, LogInv
<1>1. ASSUME NEW ops \in Batch, NEW numbered, CreateCall(w, ops, numbered)
      PROVE  Only(w) /\ Still /\ LedgerOwn(w)'
  <2>1. /\ Only(w) /\ Still
        /\ req'[w] = [pc |-> "create_lock", ops |-> ops, numbered |-> numbered]
    BY <1>1, BecomeOwn DEF CreateCall, Record, Still, tables
  <2>2. QED BY <2>1, BatchOps DEF LedgerOwn, Straggling, SimulatePc, CheckpointPc
<1>2. ASSUME CreateLock(w) \/ CreateConfig(w) \/ CreateFind(w)
      PROVE  Only(w) /\ Still /\ LedgerOwn(w)'
  <2>1. PICK r : r = req[w]
    OBVIOUS
  <2>2. /\ "ops" \in DOMAIN r /\ r.ops \in Seq(Operation)
        /\ CreateFind(w) => r.ops # << >>
    BY <1>2, <2>1 DEF CreateLock, CreateConfig, CreateFind, At, LedgerOwn
  <2>3. /\ Only(w) /\ Still
        /\ \/ req'[w].pc = "idle"
           \/ /\ req'[w].ops = r.ops /\ DOMAIN req'[w] = DOMAIN r
              /\ \/ req'[w].pc = "create_config"
                 \/ req'[w].pc \in {"create_find", "create_row"} /\ r.ops # << >>
    BY <1>2, <2>1, <2>2, AdvanceOwn, DoneOwn
       DEF CreateLock, CreateConfig, CreateFind, CreateReturn, Still, tables
  <2>4. QED BY <2>2, <2>3 DEF LedgerOwn, Straggling, SimulatePc, CheckpointPc
<1>3. QED BY <1>1, <1>2, StillKept DEF Creating

\* AppendOps between its writes.
LEMMA AppendReads ==
  ASSUME LedgerInv, NEW w \in Worker, Appending(w),
         ~AppendOp(w), ~AppendStatus(w), ~AppendHash(w)
  PROVE  Kept(w) /\ Only(w)
PROOF
<1> USE DEF LedgerInv, LogInv
<1>1. ASSUME NEW p, NEW ops \in Batch, AppendGet(w, p, ops)
      PROVE  Only(w) /\ Still /\ LedgerOwn(w)'
  <2>1. Only(w) /\ Still /\ req'[w] = [pc |-> "append_count", plan |-> p, ops |-> ops]
    BY <1>1, BecomeOwn DEF AppendGet, Record, Still, tables
  <2>2. QED BY <2>1, BatchOps DEF LedgerOwn, Straggling, SimulatePc, CheckpointPc
<1>2. ASSUME AppendCount(w) PROVE Only(w) /\ Still /\ LedgerOwn(w)'
  <2>1. PICK r, start : r = req[w] /\ start = Count(r.plan)
    OBVIOUS
  <2>2. r.ops \in Seq(Operation)
    BY <1>2, <2>1 DEF AppendCount, At, LedgerOwn
  <2>3. /\ Only(w) /\ Still
        /\ \/ req'[w].pc \in {"idle", "append_list"}
           \/ /\ r.ops # << >>
              /\ req'[w] = [pc |-> "append_op", plan |-> r.plan, ops |-> r.ops,
                            start |-> start, done |-> 0]
    BY <1>2, <2>1, BecomeOwn, DoneOwn DEF AppendCount, Record, Still, tables
  <2>4. r.ops # << >> => 0 \in 0 .. Len(r.ops) - 1
    BY <2>2, EmptySeq
  <2>5. QED BY <2>2, <2>3, <2>4 DEF LedgerOwn, Sent, Straggling, SimulatePc, CheckpointPc
<1>3. ASSUME AppendList(w) PROVE Only(w) /\ Still /\ LedgerOwn(w)'
  <2>1. Only(w) /\ Still /\ req'[w].pc = "append_status"
    BY <1>3, BecomeOwn DEF AppendList, Record, Still, tables
  <2>2. QED BY <2>1 DEF LedgerOwn, Straggling, SimulatePc, CheckpointPc
<1>4. QED BY <1>1, <1>2, <1>3, StillKept DEF Appending

\* A simulation reads the frozen blocks, a prefix of the log and checkpoints,
\* and what it computes from them is a verdict the ledger allows.
LEMMA SimulateReads ==
  ASSUME LedgerInv, NEW w \in Worker, Simulating(w), ~SimulateVerdict(w)
  PROVE  Kept(w) /\ Only(w)
PROOF
<1> USE DEF LedgerInv, LogInv
<1> DEFINE Goal == Only(w) /\ Still /\ LedgerOwn(w)'
<1>1. PICK r, p : r = req[w] /\ p = r.plan
  OBVIOUS
<1>2. ASSUME NEW q \in Plan, SimulateGet(w, q) PROVE Goal
  <2>1. Only(w) /\ Still /\ req'[w] = [pc |-> "sim_blocks", plan |-> q]
    BY <1>2, BecomeOwn DEF SimulateGet, Record, Still, tables
  <2>2. QED BY <2>1 DEF LedgerOwn, Straggling, SimulatePc, CheckpointPc
<1>3. ASSUME SimulateBlocks(w) PROVE Goal
  <2>1. p \in Plan
    BY <1>1, <1>3 DEF SimulateBlocks, At, LedgerOwn, SimulatePc
  <2>2. Only(w) /\ Still /\ req'[w] = [pc |-> "sim_ops", plan |-> p, rows |-> blocks]
    BY <1>1, <1>3, BecomeOwn DEF SimulateBlocks, Record, Still, tables
  <2>3. QED BY <2>1, <2>2 DEF LedgerOwn, Still, Straggling, SimulatePc, CheckpointPc
<1>4. ASSUME SimulateOps(w) PROVE Goal
  <2>1. p \in Plan /\ r.rows = blocks
    BY <1>1, <1>4 DEF SimulateOps, At, LedgerOwn, SimulatePc
  <2>2. PICK log, n : log = planOps[p] /\ n = Len(log)
    OBVIOUS
  <2>3. log \in Seq(Operation) /\ n \in Nat /\ log \in [1 .. n -> Operation]
    BY <2>1, <2>2, LenProperties DEF Recorded
  <2>4. List(p) = log /\ SubSeq(log, 1, n) = log
    BY <2>2, <2>3, ListIsLog, WholePrefix
  <2>5. Only(w) /\ Still /\ req'[w] = [pc |-> "sim_run", plan |-> p, rows |-> blocks, ops |-> log]
    BY <1>1, <1>4, <2>1, <2>4, BecomeOwn DEF SimulateOps, Record, Still, tables
  <2>6. n \in 0 .. Len(planOps'[p]) /\ log = SubSeq(planOps'[p], 1, n) /\ blocks' = blocks
    BY <2>2, <2>3, <2>4, <2>5 DEF Still
  <2>7. QED BY <2>1, <2>5, <2>6 DEF LedgerOwn, Straggling, SimulatePc, CheckpointPc
<1>5. ASSUME SimulateRun(w) PROVE Goal
  <2>1. PICK end : end = Outcome(r.ops, checkpoints[p], r.rows)
    OBVIOUS
  <2>2. p \in Plan /\ end \in CanEnd(p)
    <3>1. /\ p \in Plan /\ r.rows = blocks
          /\ \E n \in 0 .. Len(planOps[p]) : r.ops = SubSeq(planOps[p], 1, n)
      BY <1>1, <1>5 DEF SimulateRun, At, LedgerOwn, SimulatePc
    <3>2. PICK n \in 0 .. Len(planOps[p]) : r.ops = SubSeq(planOps[p], 1, n)
      BY <3>1
    <3>3. checkpoints[p] \in SUBSET checkpoints[p]
      OBVIOUS
    <3>4. end = Outcome(SubSeq(planOps[p], 1, n), checkpoints[p], blocks)
      BY <2>1, <3>1, <3>2
    <3>5. QED BY <3>1, <3>3, <3>4 DEF CanEnd
  <2>3. /\ Only(w) /\ Still
        /\ \/ req'[w].pc = "idle"
           \/ /\ end.status # "error"
              /\ \E pc \in {"sim_wear", "sim_verdict"} :
                   req'[w] = [pc |-> pc, plan |-> p, end |-> end]
    BY <1>1, <1>5, <2>1, BecomeOwn, DoneOwn DEF SimulateRun, Record, Still, tables
  <2>4. end \in CanEnd(p)'
    BY <2>2, <2>3 DEF Still, CanEnd
  <2>5. QED BY <2>2, <2>3, <2>4 DEF LedgerOwn, Straggling, SimulatePc, CheckpointPc
<1>6. ASSUME SimulateWear(w) PROVE Goal
  <2>1. p \in Plan /\ "plan" \in DOMAIN r /\ "end" \in DOMAIN r /\ r.end \in CanEnd(p) /\ r.end.status # "error"
    BY <1>1, <1>6 DEF SimulateWear, At, LedgerOwn, SimulatePc
  <2>2. /\ Only(w) /\ Still /\ req'[w].pc = "sim_verdict" /\ DOMAIN req'[w] = DOMAIN r
        /\ req'[w].plan = p /\ req'[w].end = r.end
    BY <1>1, <1>6, <2>1, AdvanceOwn DEF SimulateWear, Still
  <2>3. PICK end : end = r.end /\ end \in CanEnd(p)'
    BY <2>1, <2>2 DEF Still, CanEnd
  <2>4. QED BY <2>1, <2>2, <2>3 DEF LedgerOwn, Straggling, SimulatePc, CheckpointPc
<1>7. QED BY <1>2, <1>3, <1>4, <1>5, <1>6, StillKept DEF Simulating

\* Checkpoint, Issue and Revoke before they write.
LEMMA OtherReads ==
  ASSUME LedgerInv, NEW w \in Worker, Checkpointing(w) \/ Certifying(w),
         ~CheckpointInsert(w), ~IssueInsert(w), ~IssuePublish(w), ~RevokeWrite(w)
  PROVE  Kept(w) /\ Only(w)
PROOF
<1> USE DEF LedgerInv, LogInv
<1> DEFINE Goal == Only(w) /\ Still /\ LedgerOwn(w)'
<1>1. ASSUME NEW p \in Plan, NEW cursor, CheckpointRead(w, p, cursor) PROVE Goal
  <2>1. PICK n \in Nat : n = Len(planOps[p]) /\ DOMAIN planOps[p] = 1 .. n
    BY LenProperties DEF Recorded
  <2>2. cursor \in 1 .. n
    BY <1>1, <2>1, CountIsLast DEF CheckpointRead
  <2>3. Only(w) /\ Still /\ req'[w] = [pc |-> "cp_insert", plan |-> p, cursor |-> cursor]
    BY <1>1, BecomeOwn DEF CheckpointRead, Record, Still, tables
  <2>4. QED BY <2>1, <2>2, <2>3 DEF LedgerOwn, Still, Straggling, SimulatePc, CheckpointPc
<1>2. ASSUME NEW p \in Plan, IssueGet(w, p) PROVE Goal
  <2>1. CanPass(p)
    BY <1>2 DEF IssueGet, PassedCanPass, Exists
  <2>2. /\ Only(w) /\ Still
        /\ req'[w] = [pc |-> "issue_config", plan |-> p, hash |-> plans[p].hash]
    BY <1>2, BecomeOwn DEF IssueGet, Record, Still, tables
  <2>3. CanPass(p)'
    BY <2>1, <2>2 DEF Still, CanPass, CanEnd
  <2>4. QED BY <2>2, <2>3 DEF LedgerOwn, Straggling, SimulatePc, CheckpointPc
<1>3. ASSUME NEW c, NEW reason, RevokeGet(w, c, reason) PROVE Goal
  <2>1. Only(w) /\ Still /\ req'[w].pc = "revoke_write"
    BY <1>3, BecomeOwn DEF RevokeGet, Record, Still, tables
  <2>2. QED BY <2>1 DEF LedgerOwn, Straggling, SimulatePc, CheckpointPc
<1>4. ASSUME IssueConfig(w) PROVE Goal
  <2>1. PICK r, p : r = req[w] /\ p = r.plan
    OBVIOUS
  <2>2. p \in Plan /\ CanPass(p) /\ "plan" \in DOMAIN r
    BY <1>4, <2>1 DEF IssueConfig, At, LedgerOwn
  <2>3. /\ Only(w) /\ Still
        /\ \/ req'[w].pc = "idle"
           \/ req'[w].pc = "issue_insert" /\ req'[w].plan = p /\ DOMAIN req'[w] = DOMAIN r
    BY <1>4, <2>1, <2>2, AdvanceOwn, DoneOwn DEF IssueConfig, Still, tables
  <2>4. CanPass(p)'
    BY <2>2, <2>3 DEF Still, CanPass, CanEnd
  <2>5. QED BY <2>2, <2>3, <2>4 DEF LedgerOwn, Straggling, SimulatePc, CheckpointPc
<1>5. QED BY <1>1, <1>2, <1>3, <1>4, StillKept
      DEF Checkpointing, Certifying, CertCall, CertStep
-----------------------------------------------------------------------------
\* Steps that write.  An insertion grows the log at its end.
LEMMA InsertGrows ==
  ASSUME LedgerInv, NEW p \in Plan, NEW n, NEW op \in Operation,
         Used(p, n), n + 1 \notin DOMAIN planOps[p], InsertOp(p, n + 1, op),
         UNCHANGED <<cfgStatus, blocks, plans, checkpoints, certs>>
  PROVE  Recorded' /\ Grown /\ LedgerAllows
PROOF
<1>1. PICK log : log = planOps[p] /\ log \in Seq(Operation)
  BY DEF LedgerInv, Recorded
<1>2. n \in Nat /\ n = Len(log)
  <2>1. DOMAIN log = 1 .. n /\ n \in Nat
    BY <1>1, FreeIsNext DEF LedgerInv, LogInv, Used
  <2>2. DOMAIN log = 1 .. Len(log) /\ Len(log) \in Nat
    BY <1>1, LenProperties
  <2>3. QED BY <2>1, <2>2
<1>3. planOps' = [planOps EXCEPT ![p] = Append(log, op)]
  BY <1>1, <1>2, Inserted DEF InsertOp
<1>4. /\ Append(log, op) \in Seq(Operation) /\ Len(Append(log, op)) = n + 1
      /\ \A m \in 0 .. n : SubSeq(Append(log, op), 1, m) = SubSeq(log, 1, m)
  BY <1>1, <1>2, SamePrefix
<1>5. /\ planOps'[p] = Append(log, op)
      /\ \A q \in Plan \ {p} : planOps'[q] = planOps[q]
  BY <1>3 DEF LedgerInv, LogInv, Logs
<1>6. \A q \in Plan : Len(planOps[q]) \in Nat
  BY DEF LedgerInv, Recorded
<1>7. Grown
  BY <1>1, <1>2, <1>4, <1>5, <1>6 DEF Grown, Certified
<1>8. Recorded'
  <2>1. \A q \in Plan : planOps'[q] \in Seq(Operation)
    BY <1>4, <1>5 DEF LedgerInv, Recorded
  <2>2. \A q \in Plan : checkpoints'[q] \subseteq 1 .. Len(planOps'[q])
    <3>1. \A q \in Plan : Len(planOps[q]) <= Len(planOps'[q]) /\ Len(planOps'[q]) \in Nat
      BY <1>1, <1>2, <1>4, <1>5, <1>6
    <3>2. QED BY <1>6, <3>1 DEF LedgerInv, Recorded
  <2>3. QED BY <2>1, <2>2 DEF LedgerInv, Recorded, Table, PlanRow, CertRow
<1>9. Ledger!Grow(p)
  BY <1>1, <1>3 DEF Ledger!Grow, Exists
<1>10. QED BY <1>7, <1>8, <1>9 DEF LedgerAllows, Ledger!LedgerNext

\* An insertion into no known plan changes nothing.
LEMMA InsertNothing ==
  ASSUME LedgerInv, NEW p, p \notin Plan, NEW n, NEW op, InsertOp(p, n, op)
  PROVE  UNCHANGED planOps
  BY DEF InsertOp, LedgerInv, LogInv, Logs

\* A step that leaves the plan rows alone keeps every verdict.
LEMMA GrowKept ==
  ASSUME LedgerInv, NEW w \in Worker, Recorded', Grown, LedgerAllows, UNCHANGED plans, LedgerOwn(w)'
  PROVE  Kept(w)
PROOF
<1>1. PassedCanPass'
  <2>1. \A p \in DOMAIN plans : p \in Plan
    BY TableRows, StoreAssumption DEF LedgerInv, Recorded, Plan
  <2>2. QED BY <2>1, GrownEnds DEF LedgerInv, PassedCanPass
<1>2. QED BY <1>1 DEF Kept

\* The operation a request inserts is one it was sent.
LEMMA SentOp ==
  ASSUME NEW r, Sent(r)
  PROVE  r.ops[r.done + 1] \in Operation
  BY ElementOfSeq, LenProperties DEF Sent

\* An operation of a new plan goes to the end of the plan's log.
LEMMA CreateOpKept ==
  ASSUME LedgerInv, NEW w \in Worker, CreateOp(w)
  PROVE  Kept(w) /\ Only(w)
PROOF
<1> USE DEF LedgerInv, LogInv
<1>1. PICK p, d, r : r = req[w] /\ p = r.plan /\ d = r.done
  OBVIOUS
<1>2. /\ "done" \in DOMAIN r /\ r.pc = "create_op" /\ Used(p, d) /\ Sent(r)
      /\ r.ops[d + 1] \in Operation
  BY <1>1, SentOp DEF CreateOp, At, LogOwn, LedgerOwn
<1>3. UNCHANGED <<cfgStatus, blocks, plans, checkpoints, wear, certs>>
  BY DEF CreateOp
<1>4. CASE d + 1 \in DOMAIN planOps[p]
  <2>1. Only(w) /\ Still /\ req'[w].pc = "idle"
    BY <1>1, <1>3, <1>4, DoneOwn DEF CreateOp, CreateReturn, Still
  <2>2. QED BY <2>1, StillKept DEF LedgerOwn, Straggling, SimulatePc, CheckpointPc
<1>5. CASE d + 1 \notin DOMAIN planOps[p]
  <2>1. InsertOp(p, d + 1, r.ops[d + 1])
    BY <1>1, <1>5 DEF CreateOp
  <2>2. \/ d + 1 = Len(r.ops) /\ Done(w)
        \/ d + 1 # Len(r.ops) /\ Become(w, [r EXCEPT !.done = d + 1])
    BY <1>1, <1>5 DEF CreateOp, CreateReturn
  <2>3. /\ Only(w)
        /\ \/ req'[w].pc = "idle"
           \/ /\ d + 1 # Len(r.ops) /\ req'[w].pc = "create_op" /\ DOMAIN req'[w] = DOMAIN r
              /\ req'[w].ops = r.ops /\ req'[w].done = d + 1
    <3>1. CASE Done(w)
      BY <3>1, DoneOwn
    <3>2. CASE d + 1 # Len(r.ops) /\ Become(w, [r EXCEPT !.done = d + 1])
      BY <1>1, <1>2, <3>2, CountedOn DEF Sent
    <3>3. QED BY <2>2, <3>1, <3>2
  <2>4. LedgerOwn(w)'
    <3>1. d + 1 # Len(r.ops) => d + 1 \in 0 .. Len(r.ops) - 1
      BY <1>1, <1>2, LenProperties DEF Sent
    <3>2. QED BY <1>2, <2>3, <3>1 DEF LedgerOwn, Sent, Straggling, SimulatePc, CheckpointPc
  <2>5. CASE p \in Plan
    BY <1>2, <1>3, <1>5, <2>1, <2>3, <2>4, <2>5, InsertGrows, GrowKept
  <2>6. CASE p \notin Plan
    BY <1>3, <2>1, <2>3, <2>4, <2>6, InsertNothing, StillKept DEF Still
  <2>7. QED BY <2>5, <2>6
<1>6. QED BY <1>4, <1>5

\* So does an appended one.
LEMMA AppendOpKept ==
  ASSUME LedgerInv, NEW w \in Worker, AppendOp(w)
  PROVE  Kept(w) /\ Only(w)
PROOF
<1> USE DEF LedgerInv, LogInv
<1>1. PICK p, d, n, r : r = req[w] /\ p = r.plan /\ d = r.done /\ n = r.start + d
  OBVIOUS
<1>2. /\ "done" \in DOMAIN r /\ r.pc = "append_op" /\ Used(p, n) /\ Sent(r)
      /\ r.ops[d + 1] \in Operation /\ r.start + (d + 1) = n + 1
  BY <1>1, SentOp DEF AppendOp, At, LogOwn, LedgerOwn
<1>3. UNCHANGED <<cfgStatus, blocks, plans, checkpoints, wear, certs>>
  BY DEF AppendOp
<1>4. CASE n + 1 \in DOMAIN planOps[p]
  <2>1. Only(w) /\ Still /\ req'[w].pc = "idle"
    BY <1>1, <1>2, <1>3, <1>4, DoneOwn DEF AppendOp, Still
  <2>2. QED BY <2>1, StillKept DEF LedgerOwn, Straggling, SimulatePc, CheckpointPc
<1>5. CASE n + 1 \notin DOMAIN planOps[p]
  <2>1. InsertOp(p, n + 1, r.ops[d + 1])
    BY <1>1, <1>2, <1>5 DEF AppendOp
  <2>2. \/ d + 1 = Len(r.ops) /\ Advance(w, "append_list")
        \/ d + 1 # Len(r.ops) /\ Become(w, [r EXCEPT !.done = d + 1])
    BY <1>1, <1>2, <1>5 DEF AppendOp
  <2>3. /\ Only(w)
        /\ \/ req'[w].pc = "append_list"
           \/ /\ d + 1 # Len(r.ops) /\ req'[w].pc = "append_op" /\ DOMAIN req'[w] = DOMAIN r
              /\ req'[w].ops = r.ops /\ req'[w].done = d + 1
    <3>1. CASE Advance(w, "append_list")
      BY <3>1, AdvanceOwn
    <3>2. CASE d + 1 # Len(r.ops) /\ Become(w, [r EXCEPT !.done = d + 1])
      BY <1>1, <1>2, <3>2, CountedOn DEF Sent
    <3>3. QED BY <2>2, <3>1, <3>2
  <2>4. LedgerOwn(w)'
    <3>1. d + 1 # Len(r.ops) => d + 1 \in 0 .. Len(r.ops) - 1
      BY <1>1, <1>2, LenProperties DEF Sent
    <3>2. QED BY <1>2, <2>3, <3>1 DEF LedgerOwn, Sent, Straggling, SimulatePc, CheckpointPc
  <2>5. CASE p \in Plan
    BY <1>2, <1>3, <1>5, <2>1, <2>3, <2>4, <2>5, InsertGrows, GrowKept
  <2>6. CASE p \notin Plan
    BY <1>3, <2>1, <2>3, <2>4, <2>6, InsertNothing, StillKept DEF Still
  <2>7. QED BY <2>5, <2>6
<1>6. QED BY <1>4, <1>5

\* A row of a table is replaced.
LEMMA TableExcept ==
  ASSUME NEW t, NEW max \in Nat, Table(t, max), NEW i, NEW e
  PROVE  LET u == [t EXCEPT ![i] = e] IN
         /\ Table(u, max) /\ DOMAIN u = DOMAIN t
         /\ \A j \in DOMAIN t : u[j] = IF j = i THEN e ELSE t[j]
         /\ i \notin DOMAIN t => u = t
PROOF
<1> DEFINE S == {t[j] : j \in DOMAIN t} \cup {e}
           u == [t EXCEPT ![i] = e]
<1>1. DOMAIN t = 1 .. Len(t) /\ Len(t) \in Nat /\ t \in Seq(S) /\ e \in S
  BY TableRows, SeqDef DEF Table
<1>2. CASE i \in DOMAIN t
  <2>1. u \in Seq(S) /\ Len(u) = Len(t)
    BY <1>1, <1>2, ExceptSeq
  <2>2. /\ DOMAIN u = DOMAIN t
        /\ \A j \in DOMAIN t : u[j] = IF j = i THEN e ELSE t[j]
    OBVIOUS
  <2> HIDE DEF u
  <2>3. u = [j \in 1 .. Len(u) |-> u[j]]
    BY <2>1, LenProperties
  <2>4. QED BY <1>2, <2>1, <2>2, <2>3 DEF Table, u
<1>3. CASE i \notin DOMAIN t
  <2>1. u = t
    BY <1>1, <1>3
  <2>2. QED BY <1>3, <2>1
<1>4. QED BY <1>2, <1>3

\* What a write to the plan table has to show.
LEMMA PlanWriteKept ==
  ASSUME LedgerInv, NEW w \in Worker, LedgerOwn(w)', LedgerAllows,
         UNCHANGED <<cfgStatus, blocks, planOps, checkpoints, certs>>,
         Table(plans', MaxPlans),
         \A p \in DOMAIN plans' :
           PlanRow(plans'[p]) /\ (plans'[p].status = "publishable" => CanPass(p))
  PROVE  Kept(w)
PROOF
<1>1. Grown
  BY DEF Grown, LedgerInv, Recorded, Certified
<1>2. Recorded'
  BY DEF LedgerInv, Recorded, Table, PlanRow, CertRow
<1>3. PassedCanPass'
  BY DEF PassedCanPass, CanPass, CanEnd
<1>4. QED BY <1>1, <1>2, <1>3 DEF Kept

\* A write to one plan row keeps the rest.
LEMMA RowWriteKept ==
  ASSUME LedgerInv, NEW w \in Worker, LedgerOwn(w)', LedgerAllows, NEW p, NEW row,
         UNCHANGED <<cfgStatus, blocks, planOps, checkpoints, certs>>,
         plans' = [plans EXCEPT ![p] = row],
         p \in DOMAIN plans => PlanRow(row) /\ (row.status = "publishable" => CanPass(p))
  PROVE  Kept(w)
PROOF
<1>1. /\ Table(plans', MaxPlans) /\ DOMAIN plans' = DOMAIN plans
      /\ \A q \in DOMAIN plans : plans'[q] = IF q = p THEN row ELSE plans[q]
  BY TableExcept, StoreAssumption DEF LedgerInv, Recorded
<1>2. QED BY <1>1, PlanWriteKept DEF LedgerInv, Recorded, PassedCanPass

\* The verdicts as the ledger sees them, and what such a write does to them.
Verdicts ==
  [p \in Plan |->
     IF Exists(p) THEN [status |-> plans[p].status, cursor |-> plans[p].cursor, step |-> plans[p].step]
     ELSE [status |-> "editing", cursor |-> 0, step |-> 0]]

\* It changes the verdict of that plan only.
LEMMA RowVerdicts ==
  ASSUME LedgerInv, NEW p, NEW row, plans' = [plans EXCEPT ![p] = row],
         UNCHANGED <<blocks, planOps, checkpoints, certs>>
  PROVE  /\ DOMAIN plans' = DOMAIN plans /\ DOMAIN plans \subseteq Plan
         /\ \A q \in DOMAIN plans : plans'[q] = IF q = p THEN row ELSE plans[q]
         /\ p \notin DOMAIN plans => UNCHANGED Ledger!lvars
PROOF
<1>1. DOMAIN plans \subseteq Plan
  BY TableRows, StoreAssumption DEF LedgerInv, Recorded, Plan
<1>2. /\ DOMAIN plans' = DOMAIN plans /\ (p \notin DOMAIN plans => plans' = plans)
      /\ \A q \in DOMAIN plans : plans'[q] = IF q = p THEN row ELSE plans[q]
  BY TableExcept, StoreAssumption DEF LedgerInv, Recorded
<1>3. QED BY <1>1, <1>2 DEF Ledger!lvars, Exists

\* AppendOps reopens the plan.
LEMMA AppendStatusKept ==
  ASSUME LedgerInv, NEW w \in Worker, AppendStatus(w)
  PROVE  Kept(w) /\ Only(w)
PROOF
<1> USE DEF LedgerInv, LogInv
<1>1. PICK p, row : p = req[w].plan /\ row = [plans[p] EXCEPT !.status = "editing"]
  OBVIOUS
<1>2. /\ plans' = [plans EXCEPT ![p] = row]
      /\ UNCHANGED <<cfgStatus, blocks, planOps, checkpoints, certs>>
  BY <1>1 DEF AppendStatus, SetStatus
<1>3. Only(w) /\ req'[w].pc = "append_hash"
  BY AdvanceOwn DEF AppendStatus
<1>4. LedgerOwn(w)'
  BY <1>3 DEF LedgerOwn, Straggling, SimulatePc, CheckpointPc
<1>5. p \in DOMAIN plans => /\ PlanRow(row) /\ row.status = "editing"
                           /\ row.cursor = plans[p].cursor /\ row.step = plans[p].step
  BY <1>1 DEF Recorded, PlanRow
<1>6. LedgerAllows
  <2>1. CASE p \in DOMAIN plans
    <3>1. p \in Plan /\ Ledger!Reopen(p)
      BY <1>2, <1>5, <2>1, RowVerdicts DEF Ledger!Reopen, Exists
    <3>2. QED BY <3>1 DEF LedgerAllows, Ledger!LedgerNext
  <2>2. CASE p \notin DOMAIN plans
    BY <1>2, <2>2, RowVerdicts DEF LedgerAllows
  <2>3. QED BY <2>1, <2>2
<1>7. QED BY <1>2, <1>3, <1>4, <1>5, <1>6, RowWriteKept

\* The hash is none of the ledger's business.
LEMMA AppendHashKept ==
  ASSUME LedgerInv, NEW w \in Worker, AppendHash(w)
  PROVE  Kept(w) /\ Only(w)
PROOF
<1> USE DEF LedgerInv, LogInv
<1>1. Only(w) /\ req'[w].pc = "idle" /\ UNCHANGED <<cfgStatus, blocks, planOps, checkpoints, certs>>
  BY DoneOwn DEF AppendHash
<1>2. LedgerOwn(w)'
  BY <1>1 DEF LedgerOwn, Straggling, SimulatePc, CheckpointPc
<1>3. CASE UNCHANGED plans
  BY <1>1, <1>2, <1>3, StillKept DEF Still
<1>4. CASE plans' # plans
  <2>1. PICK p, hash, count, half, row :
          /\ p = req[w].plan /\ hash = HashOps(req[w].all, TRUE) /\ count = Len(req[w].all)
          /\ half = [plans[p] EXCEPT !.hash = hash] /\ row = [half EXCEPT !.opCount = count]
    OBVIOUS
  <2>2. plans' = [plans EXCEPT ![p].hash = hash, ![p].opCount = count]
    BY <1>4, <2>1 DEF AppendHash
  <2>3. plans' = [plans EXCEPT ![p] = row]
    BY <2>1, <2>2
  <2>4. p \in DOMAIN plans =>
          PlanRow(row) /\ \A f \in {"status", "cursor", "step"} : row[f] = plans[p][f]
    BY <2>1 DEF Recorded, PlanRow
  <2>5. UNCHANGED Ledger!lvars
    BY <1>1, <2>3, <2>4, RowVerdicts DEF Ledger!lvars, Exists
  <2>6. p \in DOMAIN plans => (row.status = "publishable" => CanPass(p))
    BY <2>4 DEF PassedCanPass
  <2>7. QED BY <1>1, <1>2, <2>3, <2>4, <2>5, <2>6, RowWriteKept DEF LedgerAllows
<1>5. QED BY <1>1, <1>3, <1>4

\* The verdict written is one the ledger allows by now.
LEMMA SimulateVerdictKept ==
  ASSUME LedgerInv, NEW w \in Worker, SimulateVerdict(w)
  PROVE  Kept(w) /\ Only(w)
PROOF
<1> USE DEF LedgerInv, LogInv
<1>1. PICK p, end, row :
        /\ p = req[w].plan /\ end = req[w].end
        /\ row = [plans[p] EXCEPT !.status = end.status, !.cursor = end.cursor, !.step = end.step]
  OBVIOUS
<1>2. /\ plans' = [plans EXCEPT ![p] = row]
      /\ UNCHANGED <<cfgStatus, blocks, planOps, checkpoints, certs>>
  BY <1>1 DEF SimulateVerdict
<1>3. Only(w) /\ req'[w].pc = "idle"
  BY DoneOwn DEF SimulateVerdict
<1>4. LedgerOwn(w)'
  BY <1>3 DEF LedgerOwn, Straggling, SimulatePc, CheckpointPc
<1>5. p \in Plan /\ end \in CanEnd(p) /\ end.status # "error"
  BY <1>1 DEF SimulateVerdict, At, LedgerOwn, SimulatePc
<1>6. p \in DOMAIN plans => /\ PlanRow(row) /\ row.status = end.status
                           /\ row.cursor = end.cursor /\ row.step = end.step
  BY <1>1 DEF Recorded, PlanRow
<1>7. LedgerAllows
  <2>1. CASE p \in DOMAIN plans
    <3>1. end \in Ledger!Reachable(p)
      BY <1>5 DEF Ledger!Reachable, CanEnd
    <3>2. /\ Verdicts' = [Verdicts EXCEPT ![p] = Ledger!Judgement(end)]
          /\ UNCHANGED <<blocks, planOps, checkpoints, certs>>
      BY <1>2, <1>5, <1>6, <2>1, RowVerdicts DEF Verdicts, Ledger!Judgement, Exists
    <3>3. CASE Verdicts'[p] = Verdicts[p]
      <4>1. Verdicts' = Verdicts
        BY <3>2, <3>3 DEF Verdicts
      <4>2. QED BY <3>2, <4>1 DEF LedgerAllows, Ledger!lvars, Verdicts
    <3>4. CASE Verdicts[p] # Verdicts'[p]
      <4>1. \/ Ledger!Judge(p)
            \/ ~ /\ Verdicts[p] # Verdicts'[p]
                 /\ \E e \in Ledger!Reachable(p) :
                      /\ e.status # "error"
                      /\ Verdicts' = [Verdicts EXCEPT ![p] = Ledger!Judgement(e)]
                 /\ UNCHANGED <<blocks, planOps, checkpoints, Certified>>
        BY DEF Ledger!Judge, Verdicts, Certified
      <4>2. Certified' = Certified
        BY <3>2 DEF Certified
      <4>3. Ledger!Judge(p)
        BY <1>5, <3>1, <3>2, <3>4, <4>1, <4>2
      <4>4. QED BY <1>5, <4>3 DEF LedgerAllows, Ledger!LedgerNext
    <3>5. QED BY <3>3, <3>4
  <2>2. CASE p \notin DOMAIN plans
    BY <1>2, <2>2, RowVerdicts DEF LedgerAllows
  <2>3. QED BY <2>1, <2>2
<1>8. row.status = "publishable" /\ p \in DOMAIN plans => CanPass(p)
  BY <1>5, <1>6 DEF CanPass
<1>9. QED BY <1>2, <1>3, <1>4, <1>6, <1>7, <1>8, RowWriteKept

\* Only a certified plan is published.
LEMMA IssuePublishKept ==
  ASSUME LedgerInv, NEW w \in Worker, IssuePublish(w)
  PROVE  Kept(w) /\ Only(w)
PROOF
<1> USE DEF LedgerInv, LogInv
<1>1. PICK p, row : p = req[w].plan /\ row = [plans[p] EXCEPT !.status = "published"]
  OBVIOUS
<1>2. /\ plans' = [plans EXCEPT ![p] = row]
      /\ UNCHANGED <<cfgStatus, blocks, planOps, checkpoints, certs>>
  BY <1>1 DEF IssuePublish, SetStatus
<1>3. Only(w) /\ req'[w].pc = "idle"
  BY DoneOwn DEF IssuePublish
<1>4. LedgerOwn(w)'
  BY <1>3 DEF LedgerOwn, Straggling, SimulatePc, CheckpointPc
<1>5. p \in Plan /\ p \in Certified
  BY <1>1 DEF IssuePublish, At, LedgerOwn
<1>6. p \in DOMAIN plans => /\ PlanRow(row) /\ row.status = "published"
                           /\ row.cursor = plans[p].cursor /\ row.step = plans[p].step
  BY <1>1 DEF Recorded, PlanRow
<1>7. LedgerAllows
  <2>1. CASE p \in DOMAIN plans
    <3>1. p \in {certs[c].plan : c \in DOMAIN certs}
      BY <1>5 DEF Certified
    <3>2. /\ Verdicts' = [Verdicts EXCEPT ![p].status = "published"]
          /\ UNCHANGED <<blocks, planOps, checkpoints, certs>>
      BY <1>2, <1>5, <1>6, <2>1, RowVerdicts DEF Verdicts, Exists
    <3>3. Ledger!Publish(p)
      BY <3>1, <3>2 DEF Ledger!Publish, Verdicts
    <3>4. QED BY <1>5, <3>3 DEF LedgerAllows, Ledger!LedgerNext
  <2>2. CASE p \notin DOMAIN plans
    BY <1>2, <2>2, RowVerdicts DEF LedgerAllows
  <2>3. QED BY <2>1, <2>2
<1>8. QED BY <1>2, <1>3, <1>4, <1>6, <1>7, RowWriteKept

\* A new plan is open, as the ledger has it from the start.
LEMMA CreateRowKept ==
  ASSUME LedgerInv, NEW w \in Worker, CreateRow(w)
  PROVE  Kept(w) /\ Only(w)
PROOF
<1> USE DEF LedgerInv, LogInv
<1>1. PICK r, hash : r = req[w] /\ hash = HashOps(r.ops, r.numbered)
  OBVIOUS
<1>2. r.ops \in Seq(Operation) /\ r.ops # << >> /\ 0 \in 0 .. Len(r.ops) - 1
  BY <1>1, EmptySeq DEF CreateRow, At, LedgerOwn
<1>3. UNCHANGED <<cfgStatus, blocks, planOps, checkpoints, certs>>
  BY DEF CreateRow
<1>4. CASE HashTaken(hash) \/ Len(plans) = MaxPlans
  <2>1. Only(w) /\ Still /\ req'[w].pc = "idle"
    BY <1>1, <1>3, <1>4, DoneOwn DEF CreateRow, CreateReturn, Still
  <2>2. QED BY <2>1, StillKept DEF LedgerOwn, Straggling, SimulatePc, CheckpointPc
<1>5. CASE ~(HashTaken(hash) \/ Len(plans) = MaxPlans)
  <2>1. PICK k, row : /\ k = Len(plans)
                      /\ row = [status |-> "editing", hash |-> hash, opCount |-> Len(r.ops),
                                cursor |-> 0, step |-> 0]
    OBVIOUS
  <2>2. /\ plans' = Append(plans, row)
        /\ Become(w, [pc |-> "create_op", plan |-> k + 1, ops |-> r.ops, done |-> 0])
    BY <1>1, <1>5, <2>1 DEF CreateRow
  <2>3. /\ Only(w)
        /\ req'[w] = [pc |-> "create_op", plan |-> k + 1, ops |-> r.ops, done |-> 0]
    BY <2>2, BecomeOwn DEF Record
  <2>4. LedgerOwn(w)'
    BY <1>2, <2>3 DEF LedgerOwn, Sent, Straggling, SimulatePc, CheckpointPc
  <2>5. /\ Table(plans', MaxPlans) /\ k + 1 \in Plan
        /\ DOMAIN plans = 1 .. k /\ DOMAIN plans' = 1 .. k + 1 /\ k \in Nat
        /\ (\A p \in DOMAIN plans : plans'[p] = plans[p]) /\ plans'[k + 1] = row
    BY <1>5, <2>1, <2>2, TableAppend, StoreAssumption DEF Recorded, Table, Plan
  <2>6. \A p \in DOMAIN plans' : p \in DOMAIN plans \/ p = k + 1
    BY <2>5
  <2>7. UNCHANGED Ledger!lvars
    <3>1. UNCHANGED Verdicts
      BY <2>1, <2>5, <2>6 DEF Verdicts, Exists
    <3>2. QED BY <1>3, <3>1 DEF Ledger!lvars, Verdicts
  <2>8. \A p \in DOMAIN plans' :
          PlanRow(plans'[p]) /\ (plans'[p].status = "publishable" => CanPass(p))
    <3>1. PlanRow(row) /\ row.status # "publishable"
      BY <2>1 DEF PlanRow
    <3>2. QED BY <2>5, <2>6, <3>1 DEF Recorded, PassedCanPass
  <2>9. QED BY <1>3, <2>3, <2>4, <2>5, <2>7, <2>8, PlanWriteKept DEF LedgerAllows
<1>6. QED BY <1>4, <1>5

\* A checkpoint lies in the log.
LEMMA CheckpointInsertKept ==
  ASSUME LedgerInv, NEW w \in Worker, CheckpointInsert(w)
  PROVE  Kept(w) /\ Only(w)
PROOF
<1> USE DEF LedgerInv, LogInv
<1>1. PICK p, c : p = req[w].plan /\ c = req[w].cursor
  OBVIOUS
<1>2. p \in Plan /\ c \in 1 .. Len(planOps[p])
  BY <1>1 DEF CheckpointInsert, At, LedgerOwn, CheckpointPc
<1>3. /\ checkpoints' = [checkpoints EXCEPT ![p] = @ \cup {c}]
      /\ UNCHANGED <<cfgStatus, blocks, plans, planOps, certs>>
  BY <1>1 DEF CheckpointInsert
<1>4. Only(w) /\ req'[w].pc = "idle"
  BY DoneOwn DEF CheckpointInsert
<1>5. LedgerOwn(w)'
  BY <1>4 DEF LedgerOwn, Straggling, SimulatePc, CheckpointPc
<1>6. Grown /\ Recorded'
  <2>1. /\ checkpoints' = [q \in Plan |-> checkpoints'[q]]
        /\ \A q \in Plan : /\ checkpoints[q] \subseteq checkpoints'[q]
                           /\ checkpoints'[q] \subseteq 1 .. Len(planOps[q])
    BY <1>2, <1>3 DEF Recorded
  <2>2. Grown
    BY <1>3, <2>1 DEF Grown, Recorded, Certified
  <2>3. QED BY <1>3, <2>1, <2>2 DEF Recorded, Table, PlanRow, CertRow
<1>7. Ledger!Mark(p)
  BY <1>2, <1>3 DEF Ledger!Mark, Exists
<1>8. QED BY <1>2, <1>3, <1>4, <1>5, <1>6, <1>7, GrowKept DEF LedgerAllows, Ledger!LedgerNext

\* A certificate is issued for a plan that passed.
LEMMA IssueInsertKept ==
  ASSUME LedgerInv, NEW w \in Worker, IssueInsert(w)
  PROVE  Kept(w) /\ Only(w)
PROOF
<1> USE DEF LedgerInv, LogInv
<1>1. PICK p, cert : /\ p = req[w].plan
                     /\ cert = [plan |-> p, hash |-> req[w].hash, status |-> "published",
                                reason |-> "none"]
  OBVIOUS
<1>2. p \in Plan /\ CanPass(p)
  BY <1>1 DEF IssueInsert, At, LedgerOwn
<1>3. UNCHANGED <<cfgStatus, blocks, plans, planOps, checkpoints>>
  BY DEF IssueInsert
<1>4. CASE Len(certs) = MaxCerts
  <2>1. Only(w) /\ Still /\ req'[w].pc = "idle"
    BY <1>3, <1>4, DoneOwn DEF IssueInsert, Still
  <2>2. QED BY <2>1, StillKept DEF LedgerOwn, Straggling, SimulatePc, CheckpointPc
<1>5. CASE Len(certs) # MaxCerts
  <2>1. /\ certs' = Append(certs, cert)
        /\ Become(w, [pc |-> "issue_publish", plan |-> p])
    BY <1>1, <1>5 DEF IssueInsert
  <2>2. Only(w) /\ req'[w] = [pc |-> "issue_publish", plan |-> p]
    BY <2>1, BecomeOwn DEF Record
  <2>3. PICK m \in Nat : /\ DOMAIN certs = 1 .. m /\ DOMAIN certs' = 1 .. m + 1
                         /\ \A c \in DOMAIN certs : certs'[c] = certs[c]
                         /\ certs'[m + 1] = cert /\ Table(certs', MaxCerts)
    BY <1>5, <2>1, TableAppend, StoreAssumption DEF Recorded, Table
  <2>4. cert.plan = p /\ CertRow(cert)
    BY <1>1 DEF CertRow
  <2>5. \A c \in DOMAIN certs' : c \in DOMAIN certs \/ c = m + 1
    BY <2>3
  <2>6. Certified' = Certified \cup {p}
    BY <2>3, <2>4, <2>5 DEF Certified
  <2>7. Grown /\ Recorded'
    <3>1. \A c \in DOMAIN certs' : CertRow(certs'[c])
      BY <2>3, <2>4, <2>5 DEF Recorded
    <3>2. Grown
      BY <1>3, <2>6 DEF Grown, Recorded
    <3>3. QED BY <1>3, <2>3, <3>1, <3>2 DEF Recorded, Table, PlanRow
  <2>8. LedgerOwn(w)'
    BY <1>2, <2>2, <2>6 DEF LedgerOwn, Straggling, SimulatePc, CheckpointPc
  <2>9. LedgerAllows
    <3>1. Ledger!Passed(p)
      BY <1>2 DEF Ledger!Passed, Ledger!Reachable, CanPass, CanEnd
    <3>2. CASE Certified' = Certified
      BY <1>3, <3>2 DEF LedgerAllows, Ledger!lvars, Certified, Exists
    <3>3. CASE Certified' # Certified
      <4>1. Ledger!Certify(p)
        BY <1>3, <2>6, <3>1, <3>3 DEF Ledger!Certify, Certified, Exists
      <4>2. QED BY <1>2, <4>1 DEF LedgerAllows, Ledger!LedgerNext
    <3>4. QED BY <3>2, <3>3
  <2>10. QED BY <1>3, <2>2, <2>7, <2>8, <2>9, GrowKept
<1>6. QED BY <1>4, <1>5

\* A revoked certificate still certifies.
LEMMA RevokeWriteKept ==
  ASSUME LedgerInv, NEW w \in Worker, RevokeWrite(w)
  PROVE  Kept(w) /\ Only(w)
PROOF
<1> USE DEF LedgerInv, LogInv
<1>1. PICK c, cert : /\ c = req[w].cert
                     /\ cert = [certs[c] EXCEPT !.status = "revoked", !.reason = req[w].reason]
  OBVIOUS
<1>2. /\ certs' = [certs EXCEPT ![c] = cert]
      /\ UNCHANGED <<cfgStatus, blocks, plans, planOps, checkpoints>>
  BY <1>1 DEF RevokeWrite
<1>3. Only(w) /\ req'[w].pc = "idle"
  BY DoneOwn DEF RevokeWrite
<1>4. LedgerOwn(w)'
  BY <1>3 DEF LedgerOwn, Straggling, SimulatePc, CheckpointPc
<1>5. c \in DOMAIN certs => CertRow(cert) /\ cert.plan = certs[c].plan
  BY <1>1 DEF Recorded, CertRow
<1>6. /\ Table(certs', MaxCerts) /\ DOMAIN certs' = DOMAIN certs
      /\ \A d \in DOMAIN certs : certs'[d] = IF d = c THEN cert ELSE certs[d]
  BY <1>2, TableExcept, StoreAssumption DEF Recorded
<1>7. \A d \in DOMAIN certs : certs'[d].plan = certs[d].plan /\ CertRow(certs'[d])
  BY <1>5, <1>6 DEF Recorded
<1>8. Certified' = Certified
  BY <1>6, <1>7 DEF Certified
<1>9. Grown
  BY <1>2, <1>8 DEF Grown, Recorded
<1>10. Recorded'
  BY <1>2, <1>6, <1>7 DEF Recorded, Table, PlanRow
<1>11. LedgerAllows
  BY <1>2, <1>8 DEF LedgerAllows, Ledger!lvars, Certified, Exists
<1>12. QED BY <1>2, <1>3, <1>4, <1>9, <1>10, <1>11, GrowKept
-----------------------------------------------------------------------------
\* Every request's every step.
LEMMA StepKept ==
  ASSUME LedgerInv, NEW w \in Worker,
         \/ Creating(w) \/ Appending(w) \/ Simulating(w) \/ Checkpointing(w)
         \/ Certifying(w) \/ Configuring(w) \/ Reporting(w) \/ Abort(w)
  PROVE  Kept(w) /\ Only(w)
  BY RestKept, CreateReads, CreateRowKept, CreateOpKept, AppendReads, AppendOpKept,
     AppendStatusKept, AppendHashKept, SimulateReads, SimulateVerdictKept, OtherReads,
     CheckpointInsertKept, IssueInsertKept, IssuePublishKept, RevokeWriteKept

\* Every step keeps the invariant and is a step of the ledger or a stutter.
LEMMA LedgerStep ==
  LedgerInv /\ [Next]_vars => LedgerInv' /\ LedgerAllows
PROOF
<1> SUFFICES ASSUME LedgerInv, [Next]_vars PROVE LedgerInv' /\ LedgerAllows
  OBVIOUS
<1>1. CASE Next
  <2>1. PICK w \in Worker :
          \/ Creating(w) \/ Appending(w) \/ Simulating(w) \/ Checkpointing(w)
          \/ Certifying(w) \/ Configuring(w) \/ Reporting(w) \/ Abort(w)
    BY <1>1, StepCases
  <2>2. Kept(w) /\ Only(w)
    BY <2>1, StepKept
  <2>3. LogInv'
    BY <1>1, LogStep DEF LedgerInv
  <2>4. QED BY <2>2, <2>3, OthersKept DEF LedgerInv, Kept
<1>2. CASE UNCHANGED vars
  <2>1. UNCHANGED Ledger!lvars
    BY <1>2 DEF vars, Ledger!lvars, Exists
  <2>2. LogInv'
    BY <1>2, LogStep DEF LedgerInv
  <2>3. Recorded' /\ PassedCanPass'
    BY <1>2 DEF vars, LedgerInv, Recorded, PassedCanPass, CanPass, CanEnd, Table, PlanRow, CertRow
  <2>4. \A w \in Worker : LedgerOwn(w)'
    <3>1. \A p : CanEnd(p)' = CanEnd(p) /\ (CanPass(p)' <=> CanPass(p))
      BY <1>2 DEF vars, CanPass, CanEnd
    <3>2. Certified' = Certified
      BY <1>2 DEF vars, Certified
    <3>3. QED BY <1>2, <3>1, <3>2 DEF vars, LedgerInv, LedgerOwn
  <2>5. QED BY <2>1, <2>2, <2>3, <2>4 DEF LedgerInv, LedgerAllows
<1>3. QED BY <1>1, <1>2

\* A service with a frozen configuration and no plan starts the ledger.
LEMMA LedgerStart == InitFrozen => LedgerInv /\ Ledger!LedgerInit
PROOF
<1> SUFFICES ASSUME InitFrozen PROVE LedgerInv /\ Ledger!LedgerInit
  OBVIOUS
<1>1. LogInv
  BY LogInit DEF InitFrozen
<1>2. plans = << >> /\ certs = << >> /\ DOMAIN plans = {} /\ DOMAIN certs = {}
      /\ Len(plans) = 0 /\ Len(certs) = 0
  BY DEF InitFrozen, InitStore
<1>3. Recorded
  BY <1>2, StoreAssumption, EmptySeq DEF InitFrozen, InitStore, Recorded, Table
<1>4. PassedCanPass /\ \A w \in Worker : LedgerOwn(w)
  BY <1>2 DEF InitFrozen, InitStore, PassedCanPass, LedgerOwn, Idle, Straggling, SimulatePc, CheckpointPc
<1>5. Ledger!LedgerInit
  BY <1>2 DEF InitFrozen, InitStore, Ledger!LedgerInit, Ledger!Open, Exists
<1>6. QED BY <1>1, <1>3, <1>4, <1>5 DEF LedgerInv

\* The service over a frozen configuration implements the ledger: logs only
\* grow, every verdict is one a prefix of the log and recorded checkpoints lead
\* to, and only a plan that passed is certified, whatever interleaves or fails.
THEOREM LedgerKept == SpecFrozen => KeepsLedger
PROOF
<1>1. InitFrozen => LedgerInv /\ Ledger!LedgerInit
  BY LedgerStart
<1>2. LedgerInv /\ [Next]_vars => LedgerInv' /\ [Ledger!LedgerNext]_(Ledger!lvars)
  BY LedgerStep DEF LedgerAllows
<1>3. QED BY <1>1, <1>2, PTL DEF SpecFrozen, KeepsLedger, Ledger!LedgerSpec
===============================================================================
