----------------------------- MODULE SerialProofs -----------------------------
(***************************************************************************)
(* Proofs about the service that serves one request after another: a       *)
(* single worker w and, where it says so, no failing statement, for any    *)
(* number of plans, operations, certificates and blocks.                   *)
(***************************************************************************)
EXTENDS Serial, PlanProofs

\* The checks a request has passed still hold when it writes.
CheckedOwn(w) ==
  LET r == req[w] IN
  /\ r.pc \in Holding =>
       /\ r.plan \in DOMAIN plans
       /\ plans[r.plan].status \notin {"publishable", "published"}
  /\ r.pc \in {"issue_config", "issue_insert"} =>
       /\ {"plan", "hash"} \subseteq DOMAIN r /\ r.plan \in DOMAIN plans
       /\ plans[r.plan].status = "publishable" /\ plans[r.plan].hash = r.hash
  /\ r.pc = "issue_publish" =>
       r.plan \in DOMAIN plans /\ plans[r.plan].status \in {"publishable", "published"}
  /\ r.pc = "revoke_write" => r.cert \in DOMAIN certs /\ certs[r.cert].status = "published"

CertShape(r) ==
  /\ r = [f \in DOMAIN r |-> r[f]] /\ {"plan", "hash", "status", "reason"} \subseteq DOMAIN r
  /\ r.status \in {"published", "revoked"}
CertTable == Table(certs, MaxCerts) /\ \A c \in DOMAIN certs : CertShape(certs[c])

\* A certified plan is published, or about to be.
Backed(w, c) ==
  LET p == certs[c].plan IN
  /\ p \in DOMAIN plans /\ plans[p].hash = certs[c].hash
  /\ plans[p].status = "published" \/ (At(w, "issue_publish") /\ req[w].plan = p)

\* The rows, and what the request has checked of them.
CheckInv(w)  == RowsInv /\ CertTable /\ CheckedOwn(w)
SerialInv(w) ==
  /\ CheckInv(w)
  /\ \A c \in DOMAIN certs : Backed(w, c)
  /\ OneCertPerPlan

\* The only worker's step spares every published plan.
LEMMA AloneSpares ==
  ASSUME NEW w, Worker = {w}, SerialInv(w), Next
  PROVE  /\ RowsInv'
         /\ \A p \in DOMAIN plans : plans[p].status = "published" =>
              /\ p \in DOMAIN plans'
              /\ plans'[p] = plans[p] /\ planOps'[p] = planOps[p] /\ wear'[p] = wear[p]
PROOF
<1>1. RowsInv' /\ Sparing(w)
  BY RowsStep DEF SerialInv, CheckInv
<1>2. \A p \in DOMAIN plans : p \in Plan
  BY TableRows, StoreAssumption DEF SerialInv, CheckInv, RowsInv, PlanTable, Plan
<1>3. ASSUME NEW p \in DOMAIN plans, plans[p].status = "published"
      PROVE  /\ p \in DOMAIN plans'
             /\ plans'[p] = plans[p] /\ planOps'[p] = planOps[p] /\ wear'[p] = wear[p]
  <2>1. Passed(p) /\ Clear(w, p)
    BY <1>3 DEF SerialInv, CheckInv, CheckedOwn, Passed, Clear
  <2>2. SameRow(p) /\ planOps'[p] = planOps[p] /\ wear'[p] = wear[p]
    BY <1>1, <1>2, <2>1 DEF Sparing, Spares
  <2>3. [plans[p] EXCEPT !.status = "published"] = plans[p]
    BY <1>3 DEF SerialInv, CheckInv, RowsInv, PlanTable, PlanRow
  <2>4. QED BY <2>2, <2>3 DEF SameRow
<1>4. QED BY <1>1, <1>3

\* A step that writes no certificate and is not the second half of Issue.
LEMMA CertsStay ==
  ASSUME NEW w, Worker = {w}, SerialInv(w), Next,
         UNCHANGED certs, ~At(w, "issue_publish"), CheckedOwn(w)'
  PROVE  SerialInv(w)'
PROOF
<1>1. CertTable' /\ OneCertPerPlan'
  BY DEF SerialInv, CheckInv, CertTable, Table, CertShape, OneCertPerPlan
<1>2. \A c \in DOMAIN certs' : Backed(w, c)'
  BY AloneSpares DEF SerialInv, CheckInv, Backed
<1>3. QED BY <1>1, <1>2, AloneSpares DEF SerialInv, CheckInv
-----------------------------------------------------------------------------
\* What the handlers below need of the invariant.
LEMMA CheckFacts ==
  ASSUME NEW w, Worker = {w}, CheckInv(w)
  PROVE  /\ w \in Worker /\ Requests /\ PlanTable
         /\ req[w].pc \in Holding => "plan" \in DOMAIN req[w]
         /\ CheckedOwn(w)
  BY DEF CheckInv, RowsInv, HoldOwn

\* The same of the whole invariant.
LEMMA SerialFacts ==
  ASSUME NEW w, Worker = {w}, SerialInv(w)
  PROVE  /\ w \in Worker /\ Requests /\ PlanTable
         /\ req[w].pc \in Holding => "plan" \in DOMAIN req[w]
         /\ CheckedOwn(w)
  BY CheckFacts DEF SerialInv

\* A request that neither holds a plan nor deals with a certificate has nothing
\* to keep in mind.
LEMMA NothingChecked ==
  ASSUME NEW w, req'[w].pc \notin Holding \cup CertPc
  PROVE  CheckedOwn(w)'
  BY DEF CheckedOwn, CertPc

\* One that holds a plan has seen that the plan is still open.
LEMMA HeldChecked ==
  ASSUME NEW w, NEW p, req'[w].pc \in Holding, req'[w].plan = p,
         p \in DOMAIN plans', plans'[p].status \notin {"publishable", "published"}
  PROVE  CheckedOwn(w)'
PROOF
<1>1. req'[w].pc \notin CertPc
  BY DEF Holding, CertPc
<1>2. QED BY <1>1 DEF CheckedOwn, CertPc

\* It goes on holding the plan, or ends.
LEMMA StillChecked ==
  ASSUME NEW w, CheckedOwn(w), req[w].pc \in Holding, UNCHANGED plans,
         \/ req'[w].pc = "idle"
         \/ req'[w].pc \in Holding /\ req'[w].plan = req[w].plan
  PROVE  CheckedOwn(w)'
PROOF
<1>1. /\ req[w].plan \in DOMAIN plans
      /\ plans[req[w].plan].status \notin {"publishable", "published"}
  BY DEF CheckedOwn
<1>2. CASE req'[w].pc = "idle"
  BY <1>2, NothingChecked DEF Holding, CertPc
<1>3. CASE req'[w].pc \in Holding /\ req'[w].plan = req[w].plan
  BY <1>1, <1>3, HeldChecked
<1>4. QED BY <1>2, <1>3

\* Create holds the plan it has just inserted.
LEMMA CreateChecked ==
  ASSUME NEW w, Worker = {w}, CheckInv(w), Creating(w)
  PROVE  CheckedOwn(w)' /\ UNCHANGED certs /\ ~At(w, "issue_publish")
PROOF
<1>0. /\ w \in Worker /\ Requests /\ PlanTable /\ CheckedOwn(w)
      /\ req[w].pc \in Holding => "plan" \in DOMAIN req[w]
  BY CheckFacts
<1>1. UNCHANGED certs /\ ~At(w, "issue_publish")
  BY <1>0, CreateMoves
     DEF Creating, CreateCall, CreateLock, CreateConfig, CreateFind, CreateRow, CreateOp, At
<1> SUFFICES CheckedOwn(w)'
  BY <1>1
<1>2. ASSUME NEW ops, NEW numbered, CreateCall(w, ops, numbered) PROVE CheckedOwn(w)'
  BY <1>0, <1>2, BecomeOwn DEF CreateCall, Record, CheckedOwn, Holding
<1>3. CASE CreateLock(w) \/ CreateConfig(w) \/ CreateFind(w)
  BY <1>0, <1>3, AdvanceOwn, DoneOwn
     DEF CreateLock, CreateConfig, CreateFind, CreateReturn, CheckedOwn, Holding
<1>4. CASE CreateRow(w)
  <2>1. PICK k, ops, row :
          /\ k = Len(plans) + 1 /\ ops = req[w].ops
          /\ row = [status |-> "editing", hash |-> HashOps(req[w].ops, req[w].numbered),
                    opCount |-> Len(req[w].ops), cursor |-> 0, step |-> 0]
    OBVIOUS
  <2>2. \/ req'[w].pc = "idle"
        \/ /\ req'[w] = [pc |-> "create_op", plan |-> k, ops |-> ops, done |-> 0]
           /\ plans' = Append(plans, row) /\ Len(plans) # MaxPlans
    BY <1>0, <1>4, <2>1, BecomeOwn, DoneOwn DEF CreateRow, CreateReturn, Record
  <2>3. CASE req'[w].pc = "idle"
    BY <1>0, <2>3 DEF CheckedOwn, Holding
  <2>4. CASE /\ req'[w] = [pc |-> "create_op", plan |-> k, ops |-> ops, done |-> 0]
             /\ plans' = Append(plans, row) /\ Len(plans) # MaxPlans
    <3>1. k \in DOMAIN plans' /\ plans'[k] = row
      BY <1>0, <2>1, <2>4, TableAppend, StoreAssumption DEF PlanTable, Table
    <3>2. QED BY <1>0, <2>1, <2>4, <3>1 DEF CheckedOwn, Holding
  <2>5. QED BY <1>0, <2>2, <2>3, <2>4
<1>5. CASE CreateOp(w)
  <2>1. req[w].pc = "create_op" /\ "plan" \in DOMAIN req[w]
    BY <1>0, <1>5 DEF CreateOp, At, Holding
  <2>2. /\ UNCHANGED plans
        /\ req'[w].pc = "idle" \/ (req'[w].pc = "create_op" /\ req'[w].plan = req[w].plan)
    BY <1>0, <1>5, <2>1, BecomeOwn, DoneOwn DEF CreateOp, CreateReturn, Requests, Record
  <2>3. QED BY <1>0, <2>1, <2>2 DEF CheckedOwn, Holding
<1>6. QED BY <1>0, <1>1, <1>2, <1>3, <1>4, <1>5 DEF Creating

\* AppendOps takes a plan that is edited and leaves it so.
LEMMA AppendChecked ==
  ASSUME NEW w, Worker = {w}, CheckInv(w), Appending(w)
  PROVE  CheckedOwn(w)' /\ UNCHANGED certs /\ ~At(w, "issue_publish")
PROOF
<1>0. /\ w \in Worker /\ Requests /\ PlanTable /\ CheckedOwn(w)
      /\ req[w].pc \in Holding => "plan" \in DOMAIN req[w]
  BY CheckFacts
<1>1. UNCHANGED certs /\ ~At(w, "issue_publish")
  BY <1>0, AppendMoves DEF Appending, AppendGet, AppendCount, AppendOp, AppendList, AppendStatus,
     AppendHash, At
<1> SUFFICES CheckedOwn(w)'
  BY <1>1
<1>2. PICK r, q : r = req[w] /\ q = r.plan
  OBVIOUS
<1>3. ASSUME NEW p, NEW ops, AppendGet(w, p, ops) PROVE CheckedOwn(w)'
  BY <1>0, <1>3, BecomeOwn DEF AppendGet, Record, CheckedOwn, Holding, Exists, tables
<1>4. CASE AppendCount(w) \/ AppendOp(w) \/ AppendList(w)
  <2>1. r.pc \in Holding /\ "plan" \in DOMAIN r
    BY <1>0, <1>2, <1>4 DEF AppendCount, AppendOp, AppendList, At, Holding
  <2>2. /\ UNCHANGED plans
        /\ req'[w].pc = "idle" \/ (req'[w].pc \in AppendPc /\ req'[w].plan = q)
    <3>1. CASE AppendCount(w)
      BY <1>0, <1>2, <3>1, BecomeOwn, DoneOwn DEF AppendCount, Record, AppendPc, tables
    <3>2. CASE AppendOp(w)
      BY <1>0, <1>2, <2>1, <3>2, AdvanceOwn, BecomeOwn, DoneOwn
         DEF AppendOp, At, Requests, Record, AppendPc
    <3>3. CASE AppendList(w)
      BY <1>0, <1>2, <3>3, BecomeOwn DEF AppendList, Record, AppendPc, tables
    <3>4. QED BY <1>0, <1>4, <3>1, <3>2, <3>3
  <2>3. QED BY <1>0, <1>2, <2>1, <2>2, StillChecked DEF Holding, AppendPc
<1>5. CASE AppendStatus(w)
  <2>1. PICK row : row = [plans[q] EXCEPT !.status = "editing"]
    OBVIOUS
  <2>2. r.pc \in Holding /\ "plan" \in DOMAIN r
    BY <1>0, <1>2, <1>5 DEF AppendStatus, At, Holding
  <2>3. q \in DOMAIN plans /\ row.status = "editing"
    BY <1>0, <1>2, <2>1, <2>2 DEF CheckedOwn, PlanTable, PlanRow
  <2>4. plans' = [plans EXCEPT ![q] = row] /\ req'[w].pc = "append_hash" /\ req'[w].plan = q
    BY <1>0, <1>2, <1>5, <2>1, <2>2, AdvanceOwn DEF AppendStatus, SetStatus
  <2>5. q \in DOMAIN plans' /\ plans'[q] = row
    BY <1>0, <2>3, <2>4
  <2>6. QED BY <1>0, <2>3, <2>4, <2>5, HeldChecked DEF Holding
<1>6. CASE AppendHash(w)
  BY <1>0, <1>6, DoneOwn, NothingChecked DEF AppendHash, Holding, CertPc
<1>7. QED BY <1>0, <1>1, <1>3, <1>4, <1>5, <1>6 DEF Appending

\* Simulate takes one that is not publishable; the verdict is its last step.
LEMMA SimulateChecked ==
  ASSUME NEW w, Worker = {w}, CheckInv(w), Simulating(w)
  PROVE  CheckedOwn(w)' /\ UNCHANGED certs /\ ~At(w, "issue_publish")
PROOF
<1>0. /\ w \in Worker /\ Requests /\ PlanTable /\ CheckedOwn(w)
      /\ req[w].pc \in Holding => "plan" \in DOMAIN req[w]
  BY CheckFacts
<1>1. UNCHANGED certs /\ ~At(w, "issue_publish")
  BY <1>0, SimulateMoves DEF Simulating, SimulateGet, SimulateBlocks, SimulateOps, SimulateRun,
     SimulateWear, SimulateVerdict, At
<1> SUFFICES CheckedOwn(w)'
  BY <1>1
<1>2. PICK r, q : r = req[w] /\ q = r.plan
  OBVIOUS
<1>3. ASSUME NEW p, SimulateGet(w, p) PROVE CheckedOwn(w)'
  BY <1>0, <1>3, BecomeOwn DEF SimulateGet, Record, CheckedOwn, Holding, Exists, tables
<1>4. CASE SimulateBlocks(w) \/ SimulateOps(w) \/ SimulateRun(w) \/ SimulateWear(w)
  <2>1. r.pc \in Holding /\ "plan" \in DOMAIN r
    BY <1>0, <1>2, <1>4 DEF SimulateBlocks, SimulateOps, SimulateRun, SimulateWear, At, Holding
  <2>2. /\ UNCHANGED plans
        /\ req'[w].pc = "idle" \/ (req'[w].pc \in SimulatePc /\ req'[w].plan = q)
    <3>1. CASE SimulateBlocks(w)
      BY <1>0, <1>2, <3>1, BecomeOwn DEF SimulateBlocks, Record, SimulatePc, tables
    <3>2. CASE SimulateOps(w)
      BY <1>0, <1>2, <3>2, BecomeOwn DEF SimulateOps, Record, SimulatePc, tables
    <3>3. CASE SimulateRun(w)
      BY <1>0, <1>2, <3>3, BecomeOwn, DoneOwn DEF SimulateRun, Record, SimulatePc, tables
    <3>4. CASE SimulateWear(w)
      BY <1>0, <1>2, <2>1, <3>4, AdvanceOwn DEF SimulateWear, SimulatePc
    <3>5. QED BY <1>0, <1>4, <3>1, <3>2, <3>3, <3>4
  <2>3. QED BY <1>0, <1>2, <2>1, <2>2, StillChecked DEF Holding, SimulatePc
<1>5. CASE SimulateVerdict(w)
  BY <1>0, <1>5, DoneOwn, NothingChecked DEF SimulateVerdict, Holding, CertPc
<1>6. QED BY <1>0, <1>1, <1>3, <1>4, <1>5 DEF Simulating

\* The other requests that write no certificate.
LEMMA OtherChecked ==
  ASSUME NEW w, Worker = {w}, CheckInv(w), Checkpointing(w) \/ Configuring(w) \/ Reporting(w)
  PROVE  CheckedOwn(w)' /\ UNCHANGED certs /\ ~At(w, "issue_publish")
PROOF
<1>0. /\ w \in Worker /\ Requests /\ PlanTable /\ CheckedOwn(w)
      /\ req[w].pc \in Holding => "plan" \in DOMAIN req[w]
  BY CheckFacts
<1>1. CheckedOwn(w)' /\ UNCHANGED certs
  BY <1>0, CheckpointMoves, ConfigMoves, ReportMoves, NothingChecked
     DEF CheckInv, RowsInv, Moves, Holding, CertPc, CheckpointPc, ConfigPc, ReportPc, tables
<1>2. ~At(w, "issue_publish")
  BY <1>0 DEF Checkpointing, CheckpointRead, CheckpointInsert, Configuring, ConfigCall, ConfigStep,
     ConfigCreate, ConfigBlocks, MarkBadGet, MarkBadRead, MarkBadWrite, ReserveGet, ReserveRead,
     ReserveWrite, FreezeGet, FreezePromote, FreezeWrite, Reporting, ReportCall, ReportStep,
     CollectPlans, CollectWear, CollectCerts, CollectBlocks, RecoverOps, RecoverLatest, Answer, At
<1>3. QED BY <1>0, <1>1, <1>2
-----------------------------------------------------------------------------
\* The first half of Issue, up to the insert.
LEMMA IssueReads ==
  ASSUME NEW w, Worker = {w}, CheckInv(w),
         (\E p \in Plan : IssueGet(w, p)) \/ IssueConfig(w)
  PROVE  CheckedOwn(w)' /\ UNCHANGED certs /\ ~At(w, "issue_publish")
PROOF
<1>0. /\ w \in Worker /\ Requests /\ PlanTable /\ CheckedOwn(w)
      /\ req[w].pc \in Holding => "plan" \in DOMAIN req[w]
  BY CheckFacts
<1>1. PICK r : r = req[w]
  OBVIOUS
<1>2. ASSUME NEW p, IssueGet(w, p)
      PROVE  CheckedOwn(w)' /\ UNCHANGED certs /\ ~At(w, "issue_publish")
  <2>1. PICK hash : hash = plans[p].hash
    OBVIOUS
  <2>2. /\ UNCHANGED tables /\ p \in DOMAIN plans /\ plans[p].status = "publishable"
        /\ req'[w] = [pc |-> "issue_config", plan |-> p, hash |-> hash]
        /\ ~At(w, "issue_publish")
    BY <1>0, <1>2, <2>1, BecomeOwn DEF IssueGet, Exists, Record, At
  <2>3. QED BY <1>0, <2>1, <2>2 DEF CheckedOwn, Holding, tables
<1>3. CASE IssueConfig(w)
  <2>1. /\ r.pc = "issue_config" /\ {"plan", "hash"} \subseteq DOMAIN r
        /\ r.plan \in DOMAIN plans /\ plans[r.plan].status = "publishable"
        /\ plans[r.plan].hash = r.hash
    BY <1>0, <1>1, <1>3 DEF IssueConfig, At, CheckedOwn
  <2>2. /\ UNCHANGED tables /\ ~At(w, "issue_publish")
        /\ \/ req'[w].pc = "idle"
           \/ /\ req'[w].pc = "issue_insert" /\ DOMAIN req'[w] = DOMAIN r
              /\ req'[w].plan = r.plan /\ req'[w].hash = r.hash
    BY <1>0, <1>1, <1>3, <2>1, AdvanceOwn, DoneOwn DEF IssueConfig, At
  <2>3. CASE req'[w].pc = "idle"
    BY <1>0, <2>2, <2>3, NothingChecked DEF Holding, CertPc, tables
  <2>4. CASE req'[w].pc # "idle"
    BY <1>0, <2>1, <2>2, <2>4 DEF CheckedOwn, Holding, tables
  <2>5. QED BY <1>0, <2>2, <2>3, <2>4 DEF tables
<1>4. QED BY <1>0, <1>2, <1>3

\* Revoke finds the certificate published.
LEMMA RevokeReads ==
  ASSUME NEW w, Worker = {w}, CheckInv(w), NEW c, NEW reason, RevokeGet(w, c, reason)
  PROVE  CheckedOwn(w)' /\ UNCHANGED certs /\ ~At(w, "issue_publish")
PROOF
<1>1. /\ UNCHANGED tables /\ ~At(w, "issue_publish")
      /\ req'[w] = [pc |-> "revoke_write", cert |-> c, reason |-> reason]
  BY BecomeOwn DEF CheckInv, RowsInv, RevokeGet, Record, At
<1>2. c \in DOMAIN certs /\ certs[c].status = "published"
  BY DEF RevokeGet, CheckInv, CertTable, CertShape
<1>3. QED BY <1>1, <1>2 DEF CheckedOwn, Holding, tables

\* The certificate is the plan's first: all others are of published plans.
LEMMA InsertSerial ==
  ASSUME NEW w, Worker = {w}, SerialInv(w), Next, IssueInsert(w)
  PROVE  SerialInv(w)'
PROOF
<1>1. PICK r, p, cert : /\ r = req[w] /\ p = r.plan
                        /\ cert = [plan |-> p, hash |-> r.hash, status |-> "published",
                                   reason |-> "none"]
  OBVIOUS
<1>2. /\ r.pc = "issue_insert" /\ p \in DOMAIN plans
      /\ plans[p].status = "publishable" /\ plans[p].hash = r.hash
  BY <1>1 DEF IssueInsert, At, SerialInv, CheckInv, CheckedOwn
<1>3. UNCHANGED plans /\ ~At(w, "issue_publish")
  BY <1>1, <1>2 DEF IssueInsert, At
<1>4. CASE Len(certs) = MaxCerts
  <2>1. UNCHANGED certs /\ req'[w].pc = "idle"
    BY <1>4, DoneOwn DEF IssueInsert, SerialInv, CheckInv, RowsInv
  <2>2. CheckedOwn(w)'
    BY <2>1, NothingChecked DEF Holding, CertPc
  <2>3. QED BY <1>3, <2>1, <2>2, CertsStay
<1>5. CASE Len(certs) # MaxCerts
  <2>1. certs' = Append(certs, cert) /\ Become(w, [pc |-> "issue_publish", plan |-> p])
    BY <1>1, <1>5 DEF IssueInsert
  <2>2. req'[w] = [pc |-> "issue_publish", plan |-> p]
    BY <2>1, BecomeOwn DEF SerialInv, CheckInv, RowsInv, Record
  <2>3. CheckedOwn(w)'
    BY <1>2, <1>3, <2>2 DEF CheckedOwn, Holding
  <2>4. PICK m \in Nat : /\ DOMAIN certs = 1 .. m /\ DOMAIN certs' = 1 .. m + 1
                         /\ \A c \in DOMAIN certs : certs'[c] = certs[c]
                         /\ certs'[m + 1] = cert /\ Table(certs', MaxCerts)
    BY <1>5, <2>1, TableAppend, StoreAssumption DEF SerialInv, CheckInv, CertTable, Table
  <2>5. \A c \in DOMAIN certs' : c \in DOMAIN certs \/ c = m + 1
    BY <2>4
  <2>6. CertShape(cert) /\ cert.plan = p /\ cert.hash = r.hash
    BY <1>1 DEF CertShape
  <2>7. CertTable'
    BY <2>4, <2>5, <2>6 DEF SerialInv, CheckInv, CertTable
  <2>8. \A c \in DOMAIN certs :
          certs[c].plan \in DOMAIN plans /\ plans[certs[c].plan].status = "published"
    BY <1>3 DEF SerialInv, CheckInv, Backed
  <2>9. \A c \in DOMAIN certs' : Backed(w, c)'
    BY <1>2, <1>3, <2>2, <2>4, <2>5, <2>6, <2>8 DEF SerialInv, CheckInv, Backed, At
  <2>10. \A c \in DOMAIN certs : certs[c].plan # p
    BY <1>2, <2>8
  <2>11. OneCertPerPlan'
    BY <2>4, <2>5, <2>6, <2>10 DEF SerialInv, CheckInv, OneCertPerPlan
  <2>12. QED BY <2>3, <2>7, <2>9, <2>11, AloneSpares DEF SerialInv, CheckInv
<1>6. QED BY <1>4, <1>5

\* Publishing the plan completes what the insert began.
LEMMA PublishSerial ==
  ASSUME NEW w, Worker = {w}, SerialInv(w), Next, IssuePublish(w)
  PROVE  SerialInv(w)'
PROOF
<1>1. PICK q, row : q = req[w].plan /\ row = [plans[q] EXCEPT !.status = "published"]
  OBVIOUS
<1>2. q \in DOMAIN plans /\ PlanRow(plans[q])
  BY <1>1 DEF IssuePublish, At, SerialInv, CheckInv, CheckedOwn, RowsInv, PlanTable
<1>3. row.status = "published" /\ row.hash = plans[q].hash
  BY <1>1, <1>2 DEF PlanRow
<1>4. plans' = [plans EXCEPT ![q] = row] /\ UNCHANGED certs
  BY <1>1 DEF IssuePublish, SetStatus
<1>5. /\ DOMAIN plans' = DOMAIN plans
      /\ \A p \in DOMAIN plans : plans'[p] = IF p = q THEN row ELSE plans[p]
  BY <1>4, TableExcept, StoreAssumption DEF SerialInv, CheckInv, RowsInv, PlanTable
<1>6. CheckedOwn(w)'
  BY DoneOwn, NothingChecked DEF IssuePublish, SerialInv, CheckInv, RowsInv, Holding, CertPc
<1>7. \A c \in DOMAIN certs' : Backed(w, c)'
  BY <1>1, <1>3, <1>4, <1>5 DEF SerialInv, CheckInv, Backed
<1>8. CertTable' /\ OneCertPerPlan'
  BY <1>4 DEF SerialInv, CheckInv, CertTable, Table, CertShape, OneCertPerPlan
<1>9. QED BY <1>6, <1>7, <1>8, AloneSpares DEF SerialInv, CheckInv

\* Revoking touches status and reason of a published certificate.
LEMMA RevokeSerial ==
  ASSUME NEW w, Worker = {w}, SerialInv(w), Next, RevokeWrite(w)
  PROVE  /\ SerialInv(w)'
         /\ DOMAIN certs' = DOMAIN certs
         /\ \A c \in DOMAIN certs :
              \/ certs'[c] = certs[c]
              \/ /\ certs[c].status = "published" /\ certs'[c].status = "revoked"
                 /\ certs'[c].plan = certs[c].plan /\ certs'[c].hash = certs[c].hash
PROOF
<1>1. PICK c, cert : /\ c = req[w].cert
                     /\ cert = [certs[c] EXCEPT !.status = "revoked", !.reason = req[w].reason]
  OBVIOUS
<1>2. c \in DOMAIN certs /\ certs[c].status = "published" /\ CertShape(certs[c])
  BY <1>1 DEF RevokeWrite, At, SerialInv, CheckInv, CheckedOwn, CertTable
<1>3. /\ CertShape(cert) /\ cert.plan = certs[c].plan /\ cert.hash = certs[c].hash
      /\ cert.status = "revoked"
  BY <1>1, <1>2 DEF CertShape
<1>4. certs' = [certs EXCEPT ![c] = cert] /\ UNCHANGED plans /\ ~At(w, "issue_publish")
  BY <1>1 DEF RevokeWrite, At
<1>5. /\ Table(certs', MaxCerts) /\ DOMAIN certs' = DOMAIN certs
      /\ \A d \in DOMAIN certs : certs'[d] = IF d = c THEN cert ELSE certs[d]
  BY <1>4, TableExcept, StoreAssumption DEF SerialInv, CheckInv, CertTable
<1>6. CheckedOwn(w)'
  BY DoneOwn, NothingChecked DEF RevokeWrite, SerialInv, CheckInv, RowsInv, Holding, CertPc
<1>7. CertTable'
  BY <1>3, <1>5 DEF SerialInv, CheckInv, CertTable
<1>8. \A d \in DOMAIN certs : certs'[d].plan = certs[d].plan /\ certs'[d].hash = certs[d].hash
  BY <1>3, <1>5
<1>9. OneCertPerPlan' /\ \A d \in DOMAIN certs' : Backed(w, d)'
  BY <1>4, <1>5, <1>8 DEF SerialInv, CheckInv, OneCertPerPlan, Backed
<1>10. SerialInv(w)'
  BY <1>6, <1>7, <1>9, AloneSpares DEF SerialInv, CheckInv
<1>11. QED BY <1>2, <1>3, <1>5, <1>10
-----------------------------------------------------------------------------
\* What a step does to the certificates.
Revocable ==
  \A c \in DOMAIN certs :
    \/ certs'[c] = certs[c]
    \/ /\ certs[c].status = "published" /\ certs'[c].status = "revoked"
       /\ certs'[c].plan = certs[c].plan /\ certs'[c].hash = certs[c].hash

\* The invariant of a service with one worker.
LEMMA SerialStep ==
  ASSUME NEW w, Worker = {w}, ~Faults, SerialInv(w), Next
  PROVE  SerialInv(w)' /\ Revocable
PROOF
<1>1. \/ Creating(w) \/ Appending(w) \/ Simulating(w) \/ Checkpointing(w)
      \/ Certifying(w) \/ Configuring(w) \/ Reporting(w)
  BY StepCases DEF Abort
<1>2. ASSUME CheckedOwn(w)', UNCHANGED certs, ~At(w, "issue_publish")
      PROVE  SerialInv(w)' /\ Revocable
  BY <1>2, CertsStay DEF Revocable
<1>3. CASE Certifying(w)
  <2>1. CASE IssueInsert(w)
    <3>1. \A c \in DOMAIN certs : certs'[c] = certs[c]
      BY <2>1, TableAppend, StoreAssumption DEF IssueInsert, SerialInv, CheckInv, CertTable
    <3>2. QED BY <2>1, <3>1, InsertSerial DEF Revocable
  <2>2. CASE IssuePublish(w)
    BY <2>2, PublishSerial DEF IssuePublish, Revocable
  <2>3. CASE RevokeWrite(w)
    BY <2>3, RevokeSerial DEF Revocable
  <2>4. QED BY <1>2, <1>3, <2>1, <2>2, <2>3, IssueReads, RevokeReads
        DEF SerialInv, Certifying, CertCall, CertStep
<1>4. CheckInv(w)
  BY DEF SerialInv
<1>5. QED BY <1>1, <1>2, <1>3, <1>4, CreateChecked, AppendChecked, SimulateChecked, OtherChecked

\* It holds of a service without plans and certificates.
LEMMA SerialInit ==
  ASSUME NEW w, Worker = {w}, InitStore
  PROVE  SerialInv(w)
PROOF
<1>1. certs = << >> /\ DOMAIN certs = {} /\ Len(certs) = 0 /\ req[w].pc = "idle"
  BY DEF InitStore, Idle
<1>2. CertTable /\ CheckedOwn(w) /\ OneCertPerPlan
  BY <1>1, StoreAssumption DEF CertTable, Table, CheckedOwn, Holding, OneCertPerPlan
<1>3. QED BY <1>1, <1>2, RowsStart DEF SerialInv, CheckInv

\* The invariant, the promise to published plans and the one to certificates.
LEMMA SerialHolds ==
  ASSUME NEW w, Worker = {w}, ~Faults
  PROVE  Spec => []SerialInv(w) /\ PublishedIsFinal /\ CertsRevokedOnce
PROOF
<1>1. Init => SerialInv(w)
  BY SerialInit DEF Init
<1> DEFINE Fixed == \A p \in DOMAIN plans : plans[p].status = "published" =>
              plans'[p] = plans[p] /\ planOps'[p] = planOps[p] /\ wear'[p] = wear[p]
<1>2. SerialInv(w) /\ [Next]_vars => SerialInv(w)' /\ Fixed /\ Revocable
  <2> SUFFICES ASSUME SerialInv(w), [Next]_vars PROVE SerialInv(w)' /\ Fixed /\ Revocable
    OBVIOUS
  <2>1. CASE UNCHANGED vars
    BY <2>1 DEF vars, SerialInv, CheckInv, RowsInv, Requests, PlanTable, Table, PlanRow, Logs, HoldOwn,
       CertTable, CertShape, CheckedOwn, Backed, At, OneCertPerPlan, Revocable
  <2>2. CASE Next
    BY <2>2, SerialStep, AloneSpares
  <2>3. QED BY <2>1, <2>2
<1>3. QED BY <1>1, <1>2, PTL DEF Spec, PublishedIsFinal, CertsRevokedOnce, Revocable

\* Served one after another, requests certify a plan at most once.
THEOREM CertifiedOnce ==
  ASSUME NEW w, Worker = {w}, ~Faults
  PROVE  Spec => []OneCertPerPlan
PROOF
<1>1. SerialInv(w) => OneCertPerPlan
  BY DEF SerialInv, CheckInv
<1>2. QED BY <1>1, SerialHolds, PTL

\* Between requests a certificate's plan is published and still has the hash
\* the certificate carries.
THEOREM CertsMatch ==
  ASSUME NEW w, Worker = {w}, ~Faults
  PROVE  Spec => []CertMatchesPlan
PROOF
<1>1. SerialInv(w) => CertMatchesPlan
  BY DEF SerialInv, CheckInv, CertMatchesPlan, Quiet, Backed, At
<1>2. QED BY <1>1, SerialHolds, PTL

\* No request of a service that serves one at a time touches a published plan.
THEOREM PublishedStays ==
  ASSUME NEW w, Worker = {w}, ~Faults
  PROVE  Spec => PublishedIsFinal
  BY SerialHolds, PTL

\* A certificate changes once, from published to revoked.
THEOREM RevokedOnce ==
  ASSUME NEW w, Worker = {w}, ~Faults
  PROVE  Spec => CertsRevokedOnce
  BY SerialHolds, PTL
-----------------------------------------------------------------------------
\* Requests that stop half way leave certificates without their plan published,
\* but nothing undoes what a certificate says: no step takes back that a plan
\* passed or changes the hash it passed with.
LEMMA PassedStays ==
  ASSUME NEW w, Worker = {w}, CheckInv(w), Next
  PROVE  \A p \in DOMAIN plans : plans[p].status \in {"publishable", "published"} =>
           /\ p \in DOMAIN plans' /\ plans'[p].status \in {"publishable", "published"}
           /\ plans'[p].hash = plans[p].hash
PROOF
<1>0. w \in Worker /\ RowsInv /\ PlanTable /\ CheckedOwn(w)
  BY CheckFacts DEF CheckInv
<1>1. \/ Creating(w) \/ Appending(w) \/ Simulating(w) \/ Checkpointing(w)
      \/ Certifying(w) \/ Configuring(w) \/ Reporting(w) \/ Abort(w)
  BY StepCases
<1>2. PICK q : q = req[w].plan
  OBVIOUS
<1>3. CASE CreateRow(w)
  BY <1>0, <1>3, CreatedRow
<1>4. CASE AppendStatus(w) \/ AppendHash(w) \/ SimulateVerdict(w)
  <2>1. req[w].pc \in Holding
    BY <1>4 DEF AppendStatus, AppendHash, SimulateVerdict, At, Holding
  <2>2. q \in DOMAIN plans /\ plans[q].status \notin {"publishable", "published"}
    BY <1>0, <1>2, <2>1 DEF CheckedOwn
  <2>3. UNCHANGED plans \/ \E row : plans' = [plans EXCEPT ![q] = row]
    BY <1>2, <1>4 DEF AppendStatus, AppendHash, SetStatus, SimulateVerdict
  <2>4. \A p \in DOMAIN plans \ {q} : p \in DOMAIN plans' /\ plans'[p] = plans[p]
    BY <1>0, <2>3, OtherRows
  <2>5. QED BY <2>2, <2>4
<1>5. CASE IssuePublish(w)
  <2>1. PICK row : row = [plans[q] EXCEPT !.status = "published"]
    OBVIOUS
  <2>2. plans' = [plans EXCEPT ![q] = row]
    BY <1>2, <1>5, <2>1 DEF IssuePublish, SetStatus
  <2>3. /\ DOMAIN plans' = DOMAIN plans
        /\ \A p \in DOMAIN plans : plans'[p] = IF p = q THEN row ELSE plans[p]
    BY <1>0, <2>2, TableExcept, StoreAssumption DEF PlanTable
  <2>4. q \in DOMAIN plans => row.status = "published" /\ row.hash = plans[q].hash
    BY <1>0, <2>1 DEF PlanTable, PlanRow
  <2>5. QED BY <2>3, <2>4
<1>6. UNCHANGED plans \/ CreateRow(w) \/ AppendStatus(w) \/ AppendHash(w) \/ SimulateVerdict(w)
      \/ IssuePublish(w)
  <2>1. CASE Creating(w)
    BY <2>1 DEF Creating, CreateCall, CreateLock, CreateConfig, CreateFind, CreateOp, tables
  <2>2. CASE Appending(w)
    BY <2>2 DEF Appending, AppendGet, AppendCount, AppendOp, AppendList, tables
  <2>3. CASE Simulating(w)
    BY <2>3 DEF Simulating, SimulateGet, SimulateBlocks, SimulateOps, SimulateRun, SimulateWear,
       tables
  <2>4. CASE Certifying(w)
    BY <2>4 DEF Certifying, CertCall, CertStep, IssueGet, IssueConfig, IssueInsert, RevokeGet,
       RevokeWrite, tables
  <2>5. CASE Checkpointing(w) \/ Configuring(w) \/ Reporting(w) \/ Abort(w)
    BY <1>0, <2>5, CheckpointMoves, ConfigMoves, ReportMoves, AbortMoves DEF RowsInv, tables
  <2>6. QED BY <1>1, <2>1, <2>2, <2>3, <2>4, <2>5
<1>7. QED BY <1>3, <1>4, <1>5, <1>6

\* What stands for a certificate.
Stands(p, hash) ==
  /\ p \in DOMAIN plans /\ plans[p].status \in {"publishable", "published"}
  /\ plans[p].hash = hash
StandInv(w) == CheckInv(w) /\ \A c \in DOMAIN certs : Stands(certs[c].plan, certs[c].hash)

\* A step keeps what the certificates name; a new one names the plan just read.
LEMMA StandStep ==
  ASSUME NEW w, Worker = {w}, StandInv(w), Next
  PROVE  StandInv(w)'
PROOF
<1>0. w \in Worker /\ Requests /\ CheckInv(w) /\ CheckedOwn(w) /\ CertTable
  BY CheckFacts DEF CheckInv, StandInv
<1>1. \/ Creating(w) \/ Appending(w) \/ Simulating(w) \/ Checkpointing(w)
      \/ Certifying(w) \/ Configuring(w) \/ Reporting(w) \/ Abort(w)
  BY StepCases
<1>2. RowsInv'
  BY <1>0, RowsStep DEF CheckInv
<1>3. ASSUME NEW c \in DOMAIN certs
      PROVE  \E p, hash : p = certs[c].plan /\ hash = certs[c].hash /\ Stands(p, hash)'
  BY <1>0, PassedStays DEF StandInv, Stands
<1>4. ASSUME CheckedOwn(w)', UNCHANGED certs
      PROVE  StandInv(w)'
  <2>1. CertTable'
    BY <1>0, <1>4 DEF CertTable, Table, CertShape
  <2>2. QED BY <1>2, <1>3, <1>4, <2>1 DEF CheckInv, StandInv
<1>5. CASE Abort(w) \/ IssuePublish(w)
  <2>1. req'[w].pc = "idle" /\ UNCHANGED certs
    BY <1>0, <1>5, DoneOwn DEF Abort, IssuePublish, tables
  <2>2. QED BY <1>4, <2>1, NothingChecked DEF Holding, CertPc
<1>6. CASE IssueInsert(w)
  <2>1. PICK r, p, cert : /\ r = req[w] /\ p = r.plan
                          /\ cert = [plan |-> p, hash |-> r.hash, status |-> "published",
                                     reason |-> "none"]
    OBVIOUS
  <2>2. /\ p \in DOMAIN plans /\ plans[p].status = "publishable" /\ plans[p].hash = r.hash
        /\ UNCHANGED plans
    BY <1>0, <1>6, <2>1 DEF IssueInsert, At, CheckedOwn
  <2>3. CASE Len(certs) = MaxCerts
    <3>1. req'[w].pc = "idle" /\ UNCHANGED certs
      BY <1>0, <1>6, <2>3, DoneOwn DEF IssueInsert
    <3>2. QED BY <1>4, <3>1, NothingChecked DEF Holding, CertPc
  <2>4. CASE Len(certs) # MaxCerts
    <3>1. certs' = Append(certs, cert) /\ Become(w, [pc |-> "issue_publish", plan |-> p])
      BY <1>6, <2>1, <2>4 DEF IssueInsert
    <3>2. req'[w] = [pc |-> "issue_publish", plan |-> p]
      BY <1>0, <3>1, BecomeOwn DEF Record
    <3>3. CheckedOwn(w)'
      BY <2>2, <3>2 DEF CheckedOwn, Holding
    <3>4. PICK m \in Nat : /\ DOMAIN certs = 1 .. m /\ DOMAIN certs' = 1 .. m + 1
                           /\ \A c \in DOMAIN certs : certs'[c] = certs[c]
                           /\ certs'[m + 1] = cert /\ Table(certs', MaxCerts)
      BY <1>0, <2>4, <3>1, TableAppend, StoreAssumption DEF CertTable, Table
    <3>5. \A c \in DOMAIN certs' : c \in DOMAIN certs \/ c = m + 1
      BY <3>4
    <3>6. CertShape(cert) /\ Stands(cert.plan, cert.hash)'
      BY <2>1, <2>2 DEF CertShape, Stands
    <3>7. CertTable'
      BY <1>0, <3>4, <3>5, <3>6 DEF CertTable
    <3>8. \A c \in DOMAIN certs' : Stands(certs[c].plan, certs[c].hash)'
      BY <1>3, <3>4, <3>5, <3>6
    <3>9. QED BY <1>2, <3>3, <3>7, <3>8 DEF CheckInv, StandInv
  <2>5. QED BY <2>3, <2>4
<1>7. CASE RevokeWrite(w)
  <2>1. PICK c, cert : /\ c = req[w].cert
                       /\ cert = [certs[c] EXCEPT !.status = "revoked", !.reason = req[w].reason]
    OBVIOUS
  <2>2. c \in DOMAIN certs /\ CertShape(certs[c])
    BY <1>0, <1>7, <2>1 DEF RevokeWrite, At, CheckedOwn, CertTable
  <2>3. CertShape(cert) /\ cert.plan = certs[c].plan /\ cert.hash = certs[c].hash
    BY <2>1, <2>2 DEF CertShape
  <2>4. certs' = [certs EXCEPT ![c] = cert] /\ req'[w].pc = "idle"
    BY <1>0, <1>7, <2>1, DoneOwn DEF RevokeWrite
  <2>5. /\ Table(certs', MaxCerts) /\ DOMAIN certs' = DOMAIN certs
        /\ \A d \in DOMAIN certs : certs'[d] = IF d = c THEN cert ELSE certs[d]
    BY <1>0, <2>4, TableExcept, StoreAssumption DEF CertTable
  <2>6. CertTable' /\ \A d \in DOMAIN certs : /\ certs'[d].plan = certs[d].plan
                                               /\ certs'[d].hash = certs[d].hash
    BY <1>0, <2>3, <2>5 DEF CertTable
  <2>7. CheckedOwn(w)'
    BY <2>4, NothingChecked DEF Holding, CertPc
  <2>8. \A d \in DOMAIN certs' : Stands(certs[d].plan, certs[d].hash)'
    BY <1>3, <2>5, <2>6
  <2>9. QED BY <1>2, <2>6, <2>7, <2>8 DEF CheckInv, StandInv
<1>8. CASE Certifying(w)
  BY <1>0, <1>4, <1>5, <1>6, <1>7, <1>8, IssueReads, RevokeReads
     DEF Certifying, CertCall, CertStep
<1>9. QED BY <1>0, <1>1, <1>4, <1>5, <1>8, CreateChecked, AppendChecked, SimulateChecked,
      OtherChecked

\* A certificate's plan passed and keeps the hash it carries, also when statements
\* fail and requests stop half way.
THEOREM CertificatesStand ==
  ASSUME NEW w, Worker = {w}
  PROVE  /\ Spec => []CertsStand
         /\ SpecFrozen => []CertsStand
PROOF
<1>1. InitStore => StandInv(w)
  BY SerialInit DEF SerialInv, StandInv, InitStore
<1>2. StandInv(w) /\ [Next]_vars => StandInv(w)'
  <2> SUFFICES ASSUME StandInv(w), [Next]_vars PROVE StandInv(w)'
    OBVIOUS
  <2>1. CASE UNCHANGED vars
    BY <2>1 DEF vars, CheckInv, RowsInv, Requests, PlanTable, Table, PlanRow, Logs, HoldOwn,
       CertTable, CertShape, CheckedOwn, StandInv, Stands
  <2>2. CASE Next
    BY <2>2, StandStep
  <2>3. QED BY <2>1, <2>2
<1>3. StandInv(w) => CertsStand
  BY DEF CertsStand, StandInv, Stands, Exists
<1>4. QED BY <1>1, <1>2, <1>3, PTL DEF Spec, SpecFrozen, Init, InitFrozen
-----------------------------------------------------------------------------
\* The configuration a request has checked is still there, and not frozen, when
\* it writes; so are the block it has read and the empty table it fills.
FreshOwn(w) ==
  /\ cfgStatus = "absent" => NoRowYet
  /\ req[w].pc \in ConfigPc => cfgStatus # "absent"
  /\ req[w].pc \in Straggling => cfgStatus # "frozen"
  /\ req[w].pc = "config_blocks" => NoRowYet
  /\ req[w].pc = "reserve_write" => blocks[req[w].block].status # "bad"

\* A row that is bad stays bad.
BadKept == \A b \in Block : blocks[b].status = "bad" => blocks'[b].status = "bad"

\* A configuration request begins by checking.
LEMMA CallFresh ==
  ASSUME NEW w, Worker = {w}, ConfigInv, FreshOwn(w), ConfigCall(w)
  PROVE  FreshOwn(w)' /\ BadKept
PROOF
<1>1. w \in Worker /\ Requests /\ FreshOwn(w)
  BY DEF ConfigInv
<1>2. CASE ConfigCreate(w)
  BY <1>1, <1>2, BecomeOwn
     DEF ConfigCreate, At, Record, FreshOwn, BadKept, NoRowYet, ConfigPc, Straggling
<1>3. ASSUME NEW b, MarkBadGet(w, b) PROVE FreshOwn(w)' /\ BadKept
  BY <1>1, <1>3, BecomeOwn
     DEF MarkBadGet, Record, FreshOwn, BadKept, NoRowYet, ConfigPc, Straggling, tables
<1>4. ASSUME NEW b, NEW reserved, ReserveGet(w, b, reserved) PROVE FreshOwn(w)' /\ BadKept
  BY <1>1, <1>4, BecomeOwn
     DEF ReserveGet, Record, FreshOwn, BadKept, NoRowYet, ConfigPc, Straggling, tables
<1>5. CASE FreezeGet(w)
  BY <1>1, <1>5, BecomeOwn
     DEF FreezeGet, Record, FreshOwn, BadKept, NoRowYet, ConfigPc, Straggling, tables
<1>6. QED BY <1>2, <1>3, <1>4, <1>5 DEF ConfigCall

\* Nobody else moves before it writes.
LEMMA StepFresh ==
  ASSUME NEW w, Worker = {w}, ConfigInv, FreshOwn(w), ConfigStep(w)
  PROVE  FreshOwn(w)' /\ BadKept
PROOF
<1>1. w \in Worker /\ Requests /\ FreshOwn(w) /\ ConfigOwn(w)
  BY DEF ConfigInv
<1>2. CASE ConfigBlocks(w)
  <2>1. NoRowYet /\ UNCHANGED cfgStatus /\ cfgStatus # "absent" /\ req'[w].pc = "idle"
    BY <1>1, <1>2, DoneOwn DEF ConfigBlocks, At, FreshOwn, ConfigPc
  <2>2. \A b \in Block : blocks[b].status = "absent"
    BY <2>1, FactoryRows DEF NoRowYet
  <2>3. QED BY <2>1, <2>2 DEF FreshOwn, BadKept, ConfigPc, Straggling
<1>3. CASE MarkBadRead(w) \/ ReserveRead(w)
  <2>1. /\ UNCHANGED <<cfgStatus, blocks>>
        /\ cfgStatus \notin {"absent", "frozen"}
        /\ \/ req'[w].pc \in {"idle", "mark_write"}
           \/ /\ req'[w].pc = "reserve_write" /\ req'[w].block = req[w].block
              /\ blocks[req[w].block].status # "bad"
    BY <1>1, <1>3, AdvanceOwn, DoneOwn
       DEF MarkBadRead, ReserveRead, At, FreshOwn, ConfigOwn, Naming, ConfigPc, Straggling, tables
  <2>2. QED BY <2>1 DEF FreshOwn, BadKept, ConfigPc, Straggling
<1>4. CASE MarkBadWrite(w) \/ ReserveWrite(w)
  <2>1. PICK b, row : /\ b = req[w].block
                      /\ blocks' = [blocks EXCEPT ![b] = row]
                      /\ blocks[b].status # "bad" \/ row = [blocks[b] EXCEPT !.status = "bad"]
    <3>1. PICK b, bad, free :
            /\ b = req[w].block /\ bad = [blocks[b] EXCEPT !.status = "bad"]
            /\ free = [blocks[b] EXCEPT !.reserved = req[w].reserved,
                        !.status = IF req[w].reserved THEN "reserved" ELSE "available"]
      OBVIOUS
    <3>2. CASE MarkBadWrite(w)
      BY <3>1, <3>2 DEF MarkBadWrite
    <3>3. CASE ReserveWrite(w)
      BY <1>1, <3>1, <3>3 DEF ReserveWrite, At, FreshOwn
    <3>4. QED BY <1>4, <3>2, <3>3
  <2>2. HasRows /\ b \in Block /\ cfgStatus # "absent"
    BY <1>1, <1>4, <2>1
       DEF MarkBadWrite, ReserveWrite, At, ConfigOwn, FreshOwn, Naming, Writing, ConfigPc
  <2>3. BadKept
    <3>1. \A c \in Block \ {b} : blocks'[c] = blocks[c]
      BY <2>1, <2>2 DEF HasRows
    <3>2. blocks'[b] = row /\ (blocks[b].status = "bad" => row.status = "bad")
      BY <2>1, <2>2 DEF HasRows, FactoryRow
    <3>3. QED BY <3>1, <3>2 DEF BadKept
  <2>4. req'[w].pc = "idle" /\ UNCHANGED cfgStatus
    BY <1>1, <1>4, DoneOwn DEF MarkBadWrite, ReserveWrite
  <2>5. QED BY <2>2, <2>3, <2>4 DEF FreshOwn, ConfigPc, Straggling
<1>5. CASE FreezePromote(w) \/ FreezeWrite(w)
  <2>1. /\ UNCHANGED blocks /\ cfgStatus' \in {"simulatable", "frozen"}
        /\ req'[w].pc \in {"idle", "freeze_write"}
    BY <1>1, <1>5, AdvanceOwn, DoneOwn DEF FreezePromote, FreezeWrite
  <2>2. QED BY <2>1 DEF FreshOwn, BadKept, ConfigPc, Straggling
<1>6. QED BY <1>2, <1>3, <1>4, <1>5 DEF ConfigStep

\* Both promises of the configuration service, when it serves one at a time.
LEMMA FreshHolds ==
  ASSUME NEW w, Worker = {w}
  PROVE  Spec => FrozenIsFixed /\ BadStays
PROOF
<1>1. Init => FreshOwn(w)
  BY DEF Init, InitStore, Idle, FreshOwn, NoRowYet, ConfigPc, Straggling
<1>2. ConfigInv /\ FreshOwn(w) /\ [Next]_vars =>
        /\ FreshOwn(w)' /\ BadKept
        /\ cfgStatus = "frozen" => UNCHANGED <<cfgStatus, blocks>>
  <2> SUFFICES ASSUME ConfigInv, FreshOwn(w), [Next]_vars
               PROVE  /\ FreshOwn(w)' /\ BadKept
                      /\ cfgStatus = "frozen" => UNCHANGED <<cfgStatus, blocks>>
    OBVIOUS
  <2>1. cfgStatus = "frozen" => UNCHANGED <<cfgStatus, blocks>>
    BY SettledStays DEF FreshOwn, Settled
  <2>2. CASE Next
    <3>1. Aside(w) \/ ConfigCall(w) \/ ConfigStep(w)
      BY <2>2, StepCases, AsideCases DEF ConfigInv, Configuring
    <3>2. CASE Aside(w)
      BY <3>2 DEF Aside, FreshOwn, BadKept, NoRowYet, ConfigPc, Straggling
    <3>3. QED BY <2>1, <3>1, <3>2, CallFresh, StepFresh
  <2>3. CASE UNCHANGED vars
    BY <2>1, <2>3 DEF vars, FreshOwn, BadKept, NoRowYet
  <2>4. QED BY <2>2, <2>3
<1>3. QED BY <1>1, <1>2, ConfigInvariant, PTL DEF Spec, FrozenIsFixed, BadStays, BadKept

\* Nothing changes a frozen configuration or its blocks.
THEOREM FrozenStays ==
  ASSUME NEW w, Worker = {w}
  PROVE  Spec => FrozenIsFixed
  BY FreshHolds, PTL

\* A bad block never comes back into use, even if a request fails half way.
THEOREM BadBlocksStay ==
  ASSUME NEW w, Worker = {w}
  PROVE  Spec => BadStays
  BY FreshHolds, PTL
-----------------------------------------------------------------------------
\* What verdicts and recovery answers say of the log they were reached over.  A
\* plan's verdict is that of a run over its complete log from some checkpoint.
Covered(p) ==
  \E start \in {{}} \cup {{c} : c \in checkpoints[p]} :
    LET end == Outcome(planOps[p], start, blocks) IN
    /\ plans[p].cursor = end.cursor /\ plans[p].step = end.step
    /\ IF plans[p].status = "published" THEN end.status = "publishable"
       ELSE end.status = plans[p].status
    /\ \A curve \in end.saved : wear[p] = curve

\* What Recover is about to answer.
Told(r) ==
  /\ r.plan \in Plan /\ r.log = planOps[r.plan]
  /\ r.report.recoverable = Recoverable(r.log)
  /\ r.report.replayed <= r.report.steps /\ r.report.from <= Len(r.log)

\* What the request knows of the plan it is at work on.
Adding == AppendPc \cup {"create_op"}
CoverOwn(w) ==
  LET r == req[w] IN
  /\ r.pc \in Adding => r.plan \in DOMAIN plans /\ plans[r.plan].status = "editing"
  /\ r.pc = "sim_run" => r.ops = planOps[r.plan]
  /\ r.pc \in {"sim_wear", "sim_verdict"} =>
       r.end = Outcome(planOps[r.plan], checkpoints[r.plan], blocks)
  /\ r.pc = "sim_verdict" => \A curve \in r.end.saved : wear[r.plan] = curve
  /\ r.pc = "issue_publish" => plans[r.plan].status = "publishable"
  /\ r.pc = "recover_latest" =>
       r.plan \in Plan /\ r.log = planOps[r.plan] /\ Recoverable(r.log)
  /\ r.pc = "recover_answer" => Told(r)

\* Between the wear curve and the verdict of a simulation the plan's old verdict
\* does not count.
Judging(w, p) == At(w, "sim_verdict") /\ req[w].plan = p
CoverInv(w) ==
  /\ CoverOwn(w)
  /\ \A p \in DOMAIN plans : plans[p].status # "editing" => Judging(w, p) \/ Covered(p)

\* Before the configuration is frozen there are no plans: Create asks for a status
\* that only a request to freeze leaves behind, and that one goes on to freeze.
EarlyPc == {"idle", "create_lock", "create_config"} \cup ConfigPc \cup (ReportPc \ {"recover_latest"})
Early(w) ==
  /\ cfgStatus # "frozen"
  /\ plans = << >> /\ certs = << >>
  /\ planOps = [p \in Plan |-> << >>]
  /\ checkpoints = [p \in Plan |-> {}]
  /\ wear = [p \in Plan |-> NoWear]
  /\ req[w].pc \in EarlyPc
  /\ cfgStatus = "simulatable" => At(w, "freeze_write")
  /\ At(w, "recover_answer") => Told(req[w])

\* The invariant: first no plans, then covered ones.
VerdictInv(w) == SerialInv(w) /\ LogInv /\ (Early(w) \/ (LedgerInv /\ CoverInv(w)))

\* Where to resume and what recovery objects to is all an outcome takes from the
\* cursors.
LEMMA OutcomeSame ==
  ASSUME NEW log, NEW a, NEW b, NEW rows,
         ResumeAt(a) = ResumeAt(b), Validate(log, a) = Validate(log, b)
  PROVE  Outcome(log, a, rows) = Outcome(log, b, rows)
PROOF
<1>1. PICK start, late :
        /\ start = ResumeAt(a) /\ start = ResumeAt(b)
        /\ late = Validate(log, a) /\ late = Validate(log, b)
  OBVIOUS
<1> DEFINE run   == Run(log, start, rows)
           check == Check(run.eng.blocks)
           End(status, step, saved) ==
             [status |-> status, cursor |-> run.done, step |-> step, saved |-> saved]
           end == IF start > Len(log) \/ run.stop = "error" THEN End("error", 0, {})
                  ELSE IF run.stop # "ok" THEN End("budget_exceeded", start + run.done + 1, {})
                  ELSE IF late # {} THEN End("recovery_incomplete", Max(late), {})
                  ELSE IF check # "ok" THEN End("budget_exceeded", run.done, {Wear(run.eng.blocks)})
                  ELSE End("publishable", 0, {Wear(run.eng.blocks)})
<1>2. Outcome(log, a, rows) = end
  BY <1>1 DEF Outcome
<1>3. Outcome(log, b, rows) = end
  BY <1>1 DEF Outcome
<1>4. QED BY <1>2, <1>3

\* An outcome has one wear curve at most.
LEMMA OneCurve ==
  ASSUME NEW log, NEW cursors, NEW rows,
         NEW a \in Outcome(log, cursors, rows).saved, NEW b \in Outcome(log, cursors, rows).saved
  PROVE  a = b
PROOF
<1>1. PICK curve : curve = Wear(Run(log, ResumeAt(cursors), rows).eng.blocks)
  OBVIOUS
<1>2. Outcome(log, cursors, rows).saved \in {{}, {curve}}
  BY <1>1 DEF Outcome
<1>3. QED BY <1>2

\* Of all the checkpoints a run is started with only the last one counts.
LEMMA LastCounts ==
  ASSUME NEW S, NEW log \in Seq(S), NEW cursors, cursors \subseteq 1 .. Len(log), NEW rows
  PROVE  \E start \in {{}} \cup {{c} : c \in cursors} :
           Outcome(log, cursors, rows) = Outcome(log, start, rows)
PROOF
<1>1. Len(log) \in Nat
  BY LenProperties
<1>2. PICK n, c : n = Len(log) /\ c = ResumeAt(cursors)
  OBVIOUS
<1>3. c \in 0 .. n /\ c \in {0} \cup cursors
  BY <1>1, <1>2, ResumesThere
<1>4. CASE cursors = {}
  BY <1>4
<1>5. CASE cursors # {}
  <2>1. PICK d \in cursors : d \in 1 .. n /\ d <= c
    BY <1>1, <1>2, <1>5, ResumesThere
  <2>2. c \in cursors /\ c \in 1 .. n
    BY <1>1, <1>2, <1>3, <2>1
  <2>3. ResumeAt({c}) = c
    <3>1. {c} \subseteq 1 .. c
      BY <2>2
    <3>2. ResumeAt({c}) \in 0 .. c /\ \A e \in {c} : e <= ResumeAt({c})
      BY <1>1, <1>2, <2>2, <3>1, ResumesThere
    <3>3. QED BY <1>1, <1>2, <2>2, <3>2
  <2>4. ASSUME NEW s, s \subseteq 1 .. n PROVE {e \in s : e > n} = {}
    <3>1. \A e \in s : ~(e > n)
      BY <1>1, <1>2, <2>4
    <3>2. QED BY <3>1
  <2>5. Validate(log, cursors) = First(Unguarded(log))
    BY <1>2, <2>4, ValidateIs
  <2>6. {c} \subseteq 1 .. n
    BY <2>2
  <2>7. Validate(log, {c}) = First(Unguarded(log))
    BY <1>2, <2>4, <2>6, ValidateIs
  <2>8. Outcome(log, cursors, rows) = Outcome(log, {c}, rows)
    BY <1>2, <2>3, <2>5, <2>7, OutcomeSame
  <2>9. QED BY <2>2, <2>8
<1>6. QED BY <1>4, <1>5

\* A plan's verdict still covers its log after a step that leaves log and curve
\* alone, and status, cursor and step but for publishing it.
SameVerdict(p) ==
  /\ p \in DOMAIN plans /\ plans[p].status # "editing"
  /\ planOps'[p] = planOps[p] /\ wear'[p] = wear[p] /\ checkpoints[p] \subseteq checkpoints'[p]
  /\ plans'[p].cursor = plans[p].cursor /\ plans'[p].step = plans[p].step
  /\ \/ plans'[p].status = plans[p].status
     \/ plans[p].status = "publishable" /\ plans'[p].status = "published"

\* The run is the same, and so is where it started.
LEMMA CoveredStays ==
  ASSUME NEW p, Covered(p), SameVerdict(p), UNCHANGED blocks
  PROVE  Covered(p)'
PROOF
<1>0. PICK start \in {{}} \cup {{c} : c \in checkpoints[p]} :
        LET end == Outcome(planOps[p], start, blocks) IN
        /\ plans[p].cursor = end.cursor /\ plans[p].step = end.step
        /\ IF plans[p].status = "published" THEN end.status = "publishable"
           ELSE end.status = plans[p].status
        /\ \A curve \in end.saved : wear[p] = curve
  BY DEF Covered
<1>1. PICK end :
        /\ end = Outcome(planOps[p], start, blocks)
        /\ plans[p].cursor = end.cursor /\ plans[p].step = end.step
        /\ IF plans[p].status = "published" THEN end.status = "publishable"
           ELSE end.status = plans[p].status
        /\ \A curve \in end.saved : wear[p] = curve
  BY <1>0
<1>2. start \in {{}} \cup {{c} : c \in checkpoints'[p]}
  BY DEF SameVerdict
<1>3. /\ end = Outcome(planOps'[p], start, blocks')
      /\ plans'[p].cursor = end.cursor /\ plans'[p].step = end.step
      /\ IF plans'[p].status = "published" THEN end.status = "publishable"
         ELSE end.status = plans'[p].status
      /\ \A curve \in end.saved : wear'[p] = curve
  BY <1>1 DEF SameVerdict
<1>4. QED BY <1>2, <1>3 DEF Covered

\* What a step has to show that does not judge a plan.
LEMMA CoverStays ==
  ASSUME NEW w, CoverInv(w), CoverOwn(w)', UNCHANGED blocks, ~At(w, "sim_verdict"),
         \A p \in DOMAIN plans' : plans'[p].status # "editing" => SameVerdict(p)
  PROVE  CoverInv(w)'
PROOF
<1>1. \A p \in DOMAIN plans' : plans'[p].status # "editing" => Covered(p)'
  BY CoveredStays DEF CoverInv, Judging, SameVerdict
<1>2. QED BY <1>1 DEF CoverInv

\* A step that writes none of these tables.
LEMMA CoverSame ==
  ASSUME NEW w, CoverInv(w), CoverOwn(w)', ~At(w, "sim_verdict"),
         UNCHANGED <<blocks, plans, planOps, wear>>,
         \A p \in DOMAIN plans : checkpoints[p] \subseteq checkpoints'[p]
  PROVE  CoverInv(w)'
  BY CoverStays DEF SameVerdict
-----------------------------------------------------------------------------
\* What the handlers below need of the invariants.
LEMMA CoverFacts ==
  ASSUME NEW w, Worker = {w}, SerialInv(w), LedgerInv
  PROVE  /\ w \in Worker /\ Requests /\ PlanTable /\ CheckedOwn(w) /\ LedgerOwn(w)
         /\ DOMAIN plans \subseteq Plan
         /\ planOps = [p \in Plan |-> planOps[p]]
         /\ wear = [p \in Plan |-> wear[p]]
         /\ req[w].pc \in Holding => "plan" \in DOMAIN req[w]
         /\ \A p \in Plan : /\ planOps[p] \in Seq(Operation) /\ List(p) = planOps[p]
                            /\ checkpoints[p] \subseteq 1 .. Len(planOps[p])
PROOF
<1>1. DOMAIN plans \subseteq Plan
  BY TableRows, StoreAssumption DEF LedgerInv, Recorded, Plan
<1>2. ASSUME NEW p \in Plan PROVE List(p) = planOps[p]
  <2>1. PICK log, n : log = planOps[p] /\ n = Len(log)
    OBVIOUS
  <2>2. n \in Nat /\ log \in [1 .. n -> Operation]
    BY <2>1, LenProperties DEF LedgerInv, Recorded
  <2>3. QED BY <2>1, <2>2, ListIsLog
<1>3. QED BY <1>1, <1>2, SerialFacts DEF SerialInv, CheckInv, RowsInv, Logs, LedgerInv, Recorded

\* Where a request knows something of a plan's log or verdict.
Knowing == Adding \cup {"sim_run", "sim_wear", "sim_verdict", "issue_publish", "recover_latest",
                        "recover_answer"}

\* Elsewhere it need not.
LEMMA NothingKnown ==
  ASSUME NEW w, req'[w].pc \notin Knowing
  PROVE  CoverOwn(w)'
  BY DEF CoverOwn, Knowing

\* Create adds an open plan and its operations.
LEMMA CreateCovers ==
  ASSUME NEW w, Worker = {w}, SerialInv(w), LedgerInv, CoverInv(w), Creating(w)
  PROVE  CoverInv(w)'
PROOF
<1>0. /\ w \in Worker /\ Requests /\ PlanTable /\ DOMAIN plans \subseteq Plan
      /\ planOps = [p \in Plan |-> planOps[p]]
      /\ req[w].pc \in Holding => "plan" \in DOMAIN req[w]
      /\ UNCHANGED <<blocks, checkpoints, wear>>
  BY CoverFacts, CreateMoves
<1>1. ~At(w, "sim_verdict")
  BY DEF Creating, CreateCall, CreateLock, CreateConfig, CreateFind, CreateRow, CreateOp, At
<1>2. ASSUME \/ \E ops, numbered : CreateCall(w, ops, numbered)
             \/ CreateLock(w) \/ CreateConfig(w) \/ CreateFind(w)
      PROVE  CoverInv(w)'
  <2>1. UNCHANGED tables /\ req'[w].pc \in (CreatePc \ {"create_op"}) \cup {"idle"}
    <3>1. ASSUME NEW ops, NEW numbered, CreateCall(w, ops, numbered)
          PROVE  UNCHANGED tables /\ req'[w].pc = "create_lock"
      BY <1>0, <3>1, BecomeOwn DEF CreateCall, Record
    <3>2. CASE CreateLock(w) \/ CreateConfig(w) \/ CreateFind(w)
      BY <1>0, <3>2, AdvanceOwn, DoneOwn
         DEF CreateLock, CreateConfig, CreateFind, CreateReturn, CreatePc
    <3>3. QED BY <1>2, <3>1, <3>2 DEF CreatePc
  <2>2. CoverOwn(w)'
    BY <2>1, NothingKnown DEF CreatePc, Knowing, Adding, AppendPc
  <2>3. QED BY <1>1, <2>1, <2>2, CoverSame DEF tables
<1>3. CASE CreateRow(w)
  <2>1. PICK k, ops, row :
          /\ k = Len(plans) + 1 /\ ops = req[w].ops
          /\ row = [status |-> "editing", hash |-> HashOps(req[w].ops, req[w].numbered),
                    opCount |-> Len(req[w].ops), cursor |-> 0, step |-> 0]
    OBVIOUS
  <2>2. UNCHANGED planOps
    BY <1>3 DEF CreateRow
  <2>3. \/ req'[w].pc = "idle" /\ UNCHANGED plans
        \/ /\ req'[w] = [pc |-> "create_op", plan |-> k, ops |-> ops, done |-> 0]
           /\ plans' = Append(plans, row) /\ Len(plans) # MaxPlans
    BY <1>0, <1>3, <2>1, BecomeOwn, DoneOwn DEF CreateRow, CreateReturn, Record
  <2>4. CASE req'[w].pc = "idle" /\ UNCHANGED plans
    <3>1. CoverOwn(w)'
      BY <2>4, NothingKnown DEF Knowing, Adding, AppendPc
    <3>2. QED BY <1>0, <1>1, <2>2, <2>4, <3>1, CoverSame
  <2>5. CASE /\ req'[w] = [pc |-> "create_op", plan |-> k, ops |-> ops, done |-> 0]
             /\ plans' = Append(plans, row) /\ Len(plans) # MaxPlans
    <3>1. /\ k \in DOMAIN plans' /\ plans'[k] = row /\ row.status = "editing"
          /\ \A p \in DOMAIN plans' : p = k \/ (p \in DOMAIN plans /\ plans'[p] = plans[p])
      <4>1. /\ DOMAIN plans = 1 .. Len(plans) /\ DOMAIN plans' = 1 .. Len(plans) + 1
            /\ \A p \in DOMAIN plans : plans'[p] = plans[p]
            /\ plans'[Len(plans) + 1] = row /\ Len(plans) \in Nat
        BY <1>0, <2>5, TableAppend, StoreAssumption DEF PlanTable, Table
      <4>2. QED BY <2>1, <4>1
    <3>2. CoverOwn(w)'
      BY <2>5, <3>1 DEF CoverOwn, Adding, AppendPc
    <3>3. \A p \in DOMAIN plans' : plans'[p].status # "editing" => SameVerdict(p)
      BY <1>0, <2>2, <3>1 DEF SameVerdict
    <3>4. QED BY <1>0, <1>1, <3>2, <3>3, CoverStays
  <2>6. QED BY <2>3, <2>4, <2>5
<1>4. CASE CreateOp(w)
  <2>1. PICK r, q : r = req[w] /\ q = r.plan
    OBVIOUS
  <2>2. /\ r.pc = "create_op" /\ "plan" \in DOMAIN r
        /\ q \in DOMAIN plans /\ plans[q].status = "editing"
    BY <1>0, <1>4, <2>1 DEF CreateOp, At, Holding, CoverInv, CoverOwn, Adding
  <2>3. /\ UNCHANGED plans
        /\ req'[w].pc = "idle" \/ (req'[w].pc = "create_op" /\ req'[w].plan = q)
    BY <1>0, <1>4, <2>1, <2>2, BecomeOwn, DoneOwn DEF CreateOp, CreateReturn, Requests, Record
  <2>4. \A p \in Plan \ {q} : planOps'[p] = planOps[p]
    BY <1>0, <1>4, <2>1 DEF CreateOp, InsertOp
  <2>5. CoverOwn(w)'
    BY <2>2, <2>3 DEF CoverOwn, Adding, AppendPc
  <2>6. \A p \in DOMAIN plans' : plans'[p].status # "editing" => SameVerdict(p)
    BY <1>0, <2>2, <2>3, <2>4 DEF SameVerdict
  <2>7. QED BY <1>0, <1>1, <2>5, <2>6, CoverStays
<1>5. QED BY <1>2, <1>3, <1>4 DEF Creating

\* AppendOps touches the log and the row of an open plan.
LEMMA AppendCovers ==
  ASSUME NEW w, Worker = {w}, SerialInv(w), LedgerInv, CoverInv(w), Appending(w)
  PROVE  CoverInv(w)'
PROOF
<1>0. /\ w \in Worker /\ Requests /\ PlanTable /\ DOMAIN plans \subseteq Plan
      /\ planOps = [p \in Plan |-> planOps[p]]
      /\ req[w].pc \in Holding => "plan" \in DOMAIN req[w]
      /\ UNCHANGED <<blocks, checkpoints, wear>>
  BY CoverFacts, AppendMoves
<1>1. ~At(w, "sim_verdict")
  BY DEF Appending, AppendGet, AppendCount, AppendOp, AppendList, AppendStatus, AppendHash, At
<1>2. PICK r, q : r = req[w] /\ q = r.plan
  OBVIOUS
<1>3. ASSUME NEW p, NEW ops, AppendGet(w, p, ops) PROVE CoverInv(w)'
  <2>1. /\ UNCHANGED tables /\ p \in DOMAIN plans /\ plans[p].status = "editing"
        /\ req'[w] = [pc |-> "append_count", plan |-> p, ops |-> ops]
    BY <1>0, <1>3, BecomeOwn DEF AppendGet, Exists, Record
  <2>2. CoverOwn(w)'
    BY <2>1 DEF CoverOwn, Adding, AppendPc, tables
  <2>3. QED BY <1>1, <2>1, <2>2, CoverSame DEF tables
<1>4. ASSUME AppendCount(w) \/ AppendOp(w) \/ AppendList(w) \/ AppendStatus(w) \/ AppendHash(w)
      PROVE  CoverInv(w)'
  <2>1. /\ r.pc \in AppendPc /\ "plan" \in DOMAIN r
        /\ q \in DOMAIN plans /\ plans[q].status = "editing"
    BY <1>0, <1>2, <1>4 DEF AppendCount, AppendOp, AppendList, AppendStatus, AppendHash, At,
       AppendPc, Holding, CoverInv, CoverOwn, Adding
  <2>2. \A p \in Plan \ {q} : planOps'[p] = planOps[p]
    BY <1>0, <1>2, <1>4 DEF AppendCount, AppendOp, AppendList, AppendStatus, AppendHash, InsertOp,
       tables
  <2>3. req'[w].pc = "idle" \/ (req'[w].pc \in AppendPc /\ req'[w].plan = q)
    <3>1. CASE AppendCount(w)
      BY <1>0, <1>2, <3>1, BecomeOwn, DoneOwn DEF AppendCount, Record, AppendPc
    <3>2. CASE AppendOp(w)
      BY <1>0, <1>2, <2>1, <3>2, AdvanceOwn, BecomeOwn, DoneOwn
         DEF AppendOp, At, Requests, Record, AppendPc
    <3>3. CASE AppendList(w)
      BY <1>0, <1>2, <3>3, BecomeOwn DEF AppendList, Record, AppendPc
    <3>4. CASE AppendStatus(w)
      BY <1>0, <1>2, <2>1, <3>4, AdvanceOwn DEF AppendStatus, AppendPc
    <3>5. CASE AppendHash(w)
      BY <1>0, <3>5, DoneOwn DEF AppendHash
    <3>6. QED BY <1>4, <3>1, <3>2, <3>3, <3>4, <3>5
  <2>4. UNCHANGED plans \/ \E row : plans' = [plans EXCEPT ![q] = row] /\ row.status = "editing"
    <3>1. CASE AppendStatus(w)
      <4>1. PICK row : row = [plans[q] EXCEPT !.status = "editing"]
        OBVIOUS
      <4>2. row.status = "editing"
        BY <1>0, <2>1, <4>1 DEF PlanTable, PlanRow
      <4>3. plans' = [plans EXCEPT ![q] = row]
        BY <1>2, <3>1, <4>1 DEF AppendStatus, SetStatus
      <4>4. QED BY <4>2, <4>3
    <3>2. CASE AppendHash(w)
      <4>1. PICK hash, count, half, row :
              /\ hash = HashOps(r.all, TRUE) /\ count = Len(r.all)
              /\ half = [plans[q] EXCEPT !.hash = hash] /\ row = [half EXCEPT !.opCount = count]
        OBVIOUS
      <4>2. row.status = "editing"
        BY <1>0, <2>1, <4>1 DEF PlanTable, PlanRow
      <4>3. \/ UNCHANGED plans
            \/ plans' = [plans EXCEPT ![q].hash = hash, ![q].opCount = count]
        BY <1>2, <3>2, <4>1 DEF AppendHash
      <4>4. UNCHANGED plans \/ plans' = [plans EXCEPT ![q] = row]
        BY <4>1, <4>3
      <4>5. QED BY <4>2, <4>4
    <3>3. QED BY <1>4, <3>1, <3>2 DEF AppendCount, AppendOp, AppendList, tables
  <2>5. /\ DOMAIN plans' = DOMAIN plans /\ plans'[q].status = "editing"
        /\ \A p \in DOMAIN plans : p # q => plans'[p] = plans[p]
    BY <1>0, <2>1, <2>4, TableExcept, StoreAssumption DEF PlanTable
  <2>6. CoverOwn(w)'
    BY <2>1, <2>3, <2>5 DEF CoverOwn, Adding, AppendPc
  <2>7. \A p \in DOMAIN plans' : plans'[p].status # "editing" => SameVerdict(p)
    BY <1>0, <2>2, <2>5 DEF SameVerdict
  <2>8. QED BY <1>0, <1>1, <2>6, <2>7, CoverStays
<1>5. QED BY <1>3, <1>4 DEF Appending

\* A simulation runs over the whole log, with the checkpoints the plan has.
LEMMA SimulateLearns ==
  ASSUME NEW w, Worker = {w}, SerialInv(w), LedgerInv, CoverInv(w), Simulating(w),
         ~SimulateWear(w), ~SimulateVerdict(w)
  PROVE  CoverInv(w)'
PROOF
<1>0. /\ w \in Worker /\ Requests /\ LedgerOwn(w)
      /\ \A p \in Plan : List(p) = planOps[p]
  BY CoverFacts
<1>1. PICK r, q : r = req[w] /\ q = r.plan
  OBVIOUS
<1> DEFINE Goal == UNCHANGED tables /\ ~At(w, "sim_verdict") /\ CoverOwn(w)'
<1>2. ASSUME NEW p, SimulateGet(w, p) PROVE Goal
  BY <1>0, <1>2, BecomeOwn, NothingKnown
     DEF SimulateGet, Record, At, Knowing, Adding, AppendPc
<1>3. ASSUME SimulateBlocks(w) PROVE Goal
  BY <1>0, <1>3, BecomeOwn, NothingKnown
     DEF SimulateBlocks, Record, At, Knowing, Adding, AppendPc
<1>4. ASSUME SimulateOps(w) PROVE Goal
  <2>1. q \in Plan /\ List(q) = planOps[q]
    BY <1>0, <1>1, <1>4 DEF SimulateOps, At, LedgerOwn, SimulatePc
  <2>2. PICK rows, ops : rows = r.rows /\ ops = List(q)
    OBVIOUS
  <2>3. /\ UNCHANGED tables /\ ~At(w, "sim_verdict")
        /\ req'[w] = [pc |-> "sim_run", plan |-> q, rows |-> rows, ops |-> ops]
    BY <1>0, <1>1, <1>4, <2>2, BecomeOwn DEF SimulateOps, Record, At
  <2>4. QED BY <2>1, <2>2, <2>3 DEF CoverOwn, Adding, AppendPc, tables
<1>5. ASSUME SimulateRun(w) PROVE Goal
  <2>1. r.rows = blocks /\ r.ops = planOps[q]
    BY <1>0, <1>1, <1>5 DEF SimulateRun, At, LedgerOwn, CoverInv, CoverOwn
  <2>2. PICK end : end = Outcome(planOps[q], checkpoints[q], blocks)
    OBVIOUS
  <2>3. end = Outcome(r.ops, checkpoints[q], r.rows)
    BY <2>1, <2>2
  <2>4. /\ UNCHANGED tables /\ ~At(w, "sim_verdict")
        /\ \/ req'[w].pc = "idle"
           \/ /\ req'[w] = [pc |-> "sim_verdict", plan |-> q, end |-> end] /\ end.saved = {}
           \/ req'[w] = [pc |-> "sim_wear", plan |-> q, end |-> end]
    BY <1>0, <1>1, <1>5, <2>3, BecomeOwn, DoneOwn DEF SimulateRun, Record, At
  <2>5. end = Outcome(planOps'[q], checkpoints'[q], blocks')
    BY <2>2, <2>4 DEF tables
  <2>6. CASE req'[w].pc = "idle"
    BY <2>4, <2>6, NothingKnown DEF Knowing, Adding, AppendPc
  <2>7. CASE req'[w].pc # "idle"
    BY <2>4, <2>5, <2>7 DEF CoverOwn, Adding, AppendPc
  <2>8. QED BY <2>4, <2>6, <2>7
<1>6. QED BY <1>2, <1>3, <1>4, <1>5, CoverSame DEF Simulating, tables

\* The wear curve is that of the verdict about to be written.
LEMMA WearCovers ==
  ASSUME NEW w, Worker = {w}, SerialInv(w), LedgerInv, CoverInv(w), SimulateWear(w)
  PROVE  CoverInv(w)'
PROOF
<1>0. /\ w \in Worker /\ Requests /\ LedgerOwn(w) /\ DOMAIN plans \subseteq Plan
      /\ wear = [p \in Plan |-> wear[p]]
  BY CoverFacts
<1>1. PICK r, q, end : r = req[w] /\ q = r.plan /\ end = r.end
  OBVIOUS
<1>2. /\ "plan" \in DOMAIN r /\ "end" \in DOMAIN r /\ q \in Plan
      /\ end = Outcome(planOps[q], checkpoints[q], blocks)
  BY <1>0, <1>1 DEF SimulateWear, At, LedgerOwn, SimulatePc, CoverInv, CoverOwn
<1>3. PICK curve \in end.saved : wear' = [wear EXCEPT ![q] = curve]
  BY <1>1 DEF SimulateWear
<1>4. /\ req'[w].pc = "sim_verdict" /\ req'[w].plan = q /\ req'[w].end = end
      /\ UNCHANGED <<blocks, plans, planOps, checkpoints>> /\ ~At(w, "sim_verdict")
      /\ \A p \in Plan \ {q} : wear'[p] = wear[p]
      /\ \A other \in end.saved : wear'[q] = other
  <2>1. \A other \in end.saved : other = curve
    BY <1>2, <1>3, OneCurve
  <2>2. wear'[q] = curve /\ \A p \in Plan \ {q} : wear'[p] = wear[p]
    BY <1>0, <1>2, <1>3
  <2>3. /\ req'[w].pc = "sim_verdict" /\ req'[w].plan = q /\ req'[w].end = end
        /\ UNCHANGED <<blocks, plans, planOps, checkpoints>> /\ ~At(w, "sim_verdict")
    BY <1>0, <1>1, <1>2, AdvanceOwn DEF SimulateWear, At
  <2>4. QED BY <2>1, <2>2, <2>3
<1>5. CoverOwn(w)'
  BY <1>2, <1>4 DEF CoverOwn, Adding, AppendPc
<1>6. ASSUME NEW p \in DOMAIN plans', plans'[p].status # "editing", p # q
      PROVE  Covered(p)'
  <2>1. SameVerdict(p)
    BY <1>0, <1>4, <1>6 DEF SameVerdict
  <2>2. Covered(p)
    BY <1>4, <1>6 DEF CoverInv, Judging
  <2>3. QED BY <1>4, <2>1, <2>2, CoveredStays
<1>7. QED BY <1>4, <1>5, <1>6 DEF CoverInv, Judging, At

\* The verdict is written over the same log, and the curve is there.
LEMMA VerdictCovers ==
  ASSUME NEW w, Worker = {w}, SerialInv(w), LedgerInv, CoverInv(w), SimulateVerdict(w)
  PROVE  CoverInv(w)'
PROOF
<1>0. /\ w \in Worker /\ Requests /\ PlanTable /\ LedgerOwn(w) /\ DOMAIN plans \subseteq Plan
      /\ \A p \in Plan : planOps[p] \in Seq(Operation) /\ checkpoints[p] \subseteq 1 .. Len(planOps[p])
  BY CoverFacts
<1>1. PICK q, end, row :
        /\ q = req[w].plan /\ end = req[w].end
        /\ row = [plans[q] EXCEPT !.status = end.status, !.cursor = end.cursor, !.step = end.step]
  OBVIOUS
<1>2. /\ q \in Plan /\ end = Outcome(planOps[q], checkpoints[q], blocks)
      /\ \A curve \in end.saved : wear[q] = curve
  BY <1>0, <1>1 DEF SimulateVerdict, At, LedgerOwn, SimulatePc, CoverInv, CoverOwn
<1>3. /\ plans' = [plans EXCEPT ![q] = row] /\ req'[w].pc = "idle"
      /\ UNCHANGED <<blocks, planOps, checkpoints, wear>>
  BY <1>0, <1>1, DoneOwn DEF SimulateVerdict
<1>4. /\ DOMAIN plans' = DOMAIN plans
      /\ \A p \in DOMAIN plans : plans'[p] = IF p = q THEN row ELSE plans[p]
  BY <1>0, <1>3, TableExcept, StoreAssumption DEF PlanTable
<1>5. CoverOwn(w)'
  BY <1>3, NothingKnown DEF Knowing, Adding, AppendPc
<1>6. ASSUME q \in DOMAIN plans PROVE Covered(q)'
  <2>1. PICK log : log = planOps[q] /\ log \in Seq(Operation)
    BY <1>0, <1>2
  <2>2. PICK start \in {{}} \cup {{c} : c \in checkpoints[q]} : end = Outcome(log, start, blocks)
    BY <1>0, <1>2, <2>1, LastCounts
  <2>3. row.status = end.status /\ row.cursor = end.cursor /\ row.step = end.step
    BY <1>0, <1>1, <1>6 DEF PlanTable, PlanRow
  <2>4. end.status # "published"
    <3>1. PICK cursors : /\ cursors = checkpoints[q] /\ cursors \subseteq 1 .. Len(log)
                         /\ end = Outcome(log, cursors, blocks)
      BY <1>0, <1>2, <2>1
    <3>2. end.status \in {"error", "budget_exceeded", "recovery_incomplete", "publishable"}
      BY <2>1, <3>1, OutcomeInLog, LenProperties
    <3>3. QED BY <3>2
  <2>5. plans'[q] = row /\ start \in {{}} \cup {{c} : c \in checkpoints'[q]}
        /\ end = Outcome(planOps'[q], start, blocks') /\ wear'[q] = wear[q]
    BY <1>3, <1>4, <1>6, <2>1, <2>2
  <2>6. QED BY <1>2, <2>3, <2>4, <2>5 DEF Covered
<1>7. ASSUME NEW p \in DOMAIN plans', plans'[p].status # "editing", p # q
      PROVE  Covered(p)'
  <2>1. SameVerdict(p)
    BY <1>3, <1>4, <1>7 DEF SameVerdict
  <2>2. Covered(p)
    BY <1>1, <1>4, <1>7 DEF CoverInv, Judging
  <2>3. QED BY <1>3, <2>1, <2>2, CoveredStays
<1>8. QED BY <1>4, <1>5, <1>6, <1>7 DEF CoverInv

\* Certifying publishes a plan that passed and changes nothing else of a verdict.
LEMMA CertCovers ==
  ASSUME NEW w, Worker = {w}, SerialInv(w), LedgerInv, CoverInv(w), Certifying(w)
  PROVE  CoverInv(w)'
PROOF
<1>0. /\ w \in Worker /\ Requests /\ PlanTable /\ CheckedOwn(w)
      /\ UNCHANGED <<blocks, planOps, checkpoints, wear>>
  BY CoverFacts, CertMoves
<1>1. ~At(w, "sim_verdict")
  BY DEF Certifying, CertCall, CertStep, IssueGet, IssueConfig, IssueInsert, IssuePublish,
     RevokeGet, RevokeWrite, At
<1>2. PICK q : q = req[w].plan
  OBVIOUS
<1>3. CASE IssuePublish(w)
  <2>1. PICK row : row = [plans[q] EXCEPT !.status = "published"]
    OBVIOUS
  <2>2. q \in DOMAIN plans /\ plans[q].status = "publishable"
    BY <1>0, <1>2, <1>3 DEF IssuePublish, At, CheckedOwn, CoverInv, CoverOwn
  <2>3. plans' = [plans EXCEPT ![q] = row] /\ req'[w].pc = "idle"
    BY <1>0, <1>2, <1>3, <2>1, DoneOwn DEF IssuePublish, SetStatus
  <2>4. /\ DOMAIN plans' = DOMAIN plans
        /\ \A p \in DOMAIN plans : plans'[p] = IF p = q THEN row ELSE plans[p]
    BY <1>0, <2>3, TableExcept, StoreAssumption DEF PlanTable
  <2>5. row.status = "published" /\ row.cursor = plans[q].cursor /\ row.step = plans[q].step
    BY <1>0, <2>1, <2>2 DEF PlanTable, PlanRow
  <2>6. CoverOwn(w)'
    BY <2>3, NothingKnown DEF Knowing, Adding, AppendPc
  <2>7. \A p \in DOMAIN plans' : plans'[p].status # "editing" => SameVerdict(p)
    BY <1>0, <2>2, <2>4, <2>5 DEF SameVerdict
  <2>8. QED BY <1>0, <1>1, <2>6, <2>7, CoverStays
<1>4. CASE IssueInsert(w)
  <2>1. plans[q].status = "publishable" /\ UNCHANGED plans
    BY <1>0, <1>2, <1>4 DEF IssueInsert, At, CheckedOwn
  <2>2. req'[w].pc = "idle" \/ req'[w] = [pc |-> "issue_publish", plan |-> q]
    BY <1>0, <1>2, <1>4, BecomeOwn, DoneOwn DEF IssueInsert, Record
  <2>3. CoverOwn(w)'
    BY <2>1, <2>2 DEF CoverOwn, Adding, AppendPc
  <2>4. QED BY <1>0, <1>1, <2>1, <2>3, CoverSame
<1>5. ASSUME ~IssuePublish(w), ~IssueInsert(w)
      PROVE  CoverInv(w)'
  <2>1. UNCHANGED plans
    BY <1>5 DEF Certifying, CertCall, CertStep, IssueGet, IssueConfig, RevokeGet, RevokeWrite, tables
  <2>2. req'[w].pc \in {"issue_config", "issue_insert", "revoke_write", "idle"}
    <3>1. ASSUME NEW p, IssueGet(w, p) PROVE req'[w].pc = "issue_config"
      BY <1>0, <3>1, BecomeOwn DEF IssueGet, Record
    <3>2. ASSUME NEW c, NEW reason, RevokeGet(w, c, reason) PROVE req'[w].pc = "revoke_write"
      BY <1>0, <3>2, BecomeOwn DEF RevokeGet, Record
    <3>3. CASE IssueConfig(w) \/ RevokeWrite(w)
      BY <1>0, <3>3, AdvanceOwn, DoneOwn DEF IssueConfig, RevokeWrite
    <3>4. QED BY <1>5, <3>1, <3>2, <3>3 DEF Certifying, CertCall, CertStep
  <2>3. CoverOwn(w)'
    BY <2>2, NothingKnown DEF Knowing, Adding, AppendPc
  <2>4. QED BY <1>0, <1>1, <2>1, <2>3, CoverSame
<1>6. QED BY <1>3, <1>4, <1>5

\* What a report finds in the logs.
ReportFacts ==
  \A p \in Plan : /\ planOps[p] \in Seq(Operation) /\ List(p) = planOps[p]
                  /\ checkpoints[p] \subseteq 1 .. Len(planOps[p])

\* A recoverable log has been read.
LEMMA LogKnown ==
  ASSUME NEW w, NEW p \in Plan, NEW log, log = planOps[p], Recoverable(log), UNCHANGED tables,
         req'[w] = [pc |-> "recover_latest", plan |-> p, log |-> log]
  PROVE  CoverOwn(w)'
PROOF
<1>1. planOps' = planOps
  BY DEF tables
<1>2. req'[w].plan \in Plan /\ req'[w].log = planOps'[req'[w].plan]
  BY <1>1
<1>3. req'[w].log = log
  OBVIOUS
<1>4. QED BY <1>1, <1>2, <1>3 DEF CoverOwn, Adding, AppendPc

\* The answer is ready.
LEMMA AnswerKnown ==
  ASSUME NEW w, NEW p \in Plan, NEW log, log = planOps[p], NEW report, UNCHANGED tables,
         req'[w] = [pc |-> "recover_answer", plan |-> p, log |-> log, report |-> report],
         report.recoverable = Recoverable(log), report.replayed <= report.steps,
         report.from <= Len(log)
  PROVE  CoverOwn(w)'
PROOF
<1>1. planOps' = planOps
  BY DEF tables
<1>2. req'[w].plan \in Plan /\ req'[w].log = planOps'[req'[w].plan] /\ req'[w].report = report
  BY <1>1
<1>3. req'[w].log = log
  OBVIOUS
<1>4. Told(req[w])'
  BY <1>2, <1>3 DEF Told
<1>5. req'[w].pc = "recover_answer"
  OBVIOUS
<1>6. QED BY <1>4, <1>5 DEF CoverOwn, Adding, AppendPc

\* Recover answers for the log it has read, which nobody else extends.
LEMMA RecoverTells ==
  ASSUME NEW w, Worker = {w}, Requests, CoverOwn(w), ReportFacts, Reporting(w)
  PROVE  CoverOwn(w)'
PROOF
<1>0. w \in Worker /\ UNCHANGED tables
  BY ReportMoves
<1>1. ASSUME NEW p \in Plan, RecoverOps(w, p) PROVE CoverOwn(w)'
  <2>1. PICK log : log = planOps[p] /\ log = List(p) /\ log \in Seq(Operation)
    BY DEF ReportFacts
  <2>2. Len(log) \in Nat /\ p \in Plan
    BY <1>1, <2>1, LenProperties
  <2>3. PICK report : report = [recoverable |-> FALSE, steps |-> 0, replayed |-> 0, from |-> 0]
    OBVIOUS
  <2>4. CASE Recoverable(log)
    <3>1. req'[w] = [pc |-> "recover_latest", plan |-> p, log |-> log]
      BY <1>0, <1>1, <2>1, <2>4, BecomeOwn DEF RecoverOps, Record
    <3>2. QED BY <1>0, <2>1, <2>2, <2>4, <3>1, LogKnown
  <2>5. CASE ~Recoverable(log)
    <3>1. req'[w] = [pc |-> "recover_answer", plan |-> p, log |-> log, report |-> report]
      BY <1>0, <1>1, <2>1, <2>3, <2>5, BecomeOwn DEF RecoverOps, Record
    <3>2. Recoverable(log) = FALSE
      BY <2>5 DEF Recoverable
    <3>3. QED
      <4>1. /\ report.recoverable = FALSE /\ report.replayed <= report.steps
            /\ report.from <= Len(log)
        BY <2>2, <2>3
      <4>2. QED BY <1>0, <2>1, <2>2, <3>1, <3>2, <4>1, AnswerKnown
  <2>6. QED BY <2>4, <2>5
<1>2. CASE RecoverLatest(w)
  <2>1. PICK p, log, n, last, replayed, latest :
          /\ p = req[w].plan /\ log = req[w].log /\ n = Len(log) /\ last = LastCheckpoint(log)
          /\ replayed = Replay(log, last) /\ latest = ResumeAt(checkpoints[p])
    OBVIOUS
  <2>2. /\ p \in Plan /\ log = planOps[p] /\ log \in Seq(Operation) /\ Recoverable(log)
        /\ n \in Nat /\ checkpoints[p] \subseteq 1 .. n
    BY <1>2, <2>1, LenProperties DEF RecoverLatest, At, CoverOwn, ReportFacts
  <2>3. last \in 1 .. n /\ replayed \in Nat /\ last + replayed <= n
    BY <2>1, <2>2, RecoveryIs
  <2>4. PICK from \in {latest} \cup (IF Faults THEN {0} ELSE {}) :
          Become(w, [pc |-> "recover_answer", plan |-> p, log |-> log,
                     report |-> [recoverable |-> TRUE, steps |-> n - last,
                                 replayed |-> replayed, from |-> from]])
    BY <1>2, <2>1 DEF RecoverLatest
  <2>5. latest \in 0 .. n /\ from \in 0 .. n
    BY <2>1, <2>2, <2>4, ResumesThere
  <2>6. PICK report : report = [recoverable |-> TRUE, steps |-> n - last, replayed |-> replayed,
                                from |-> from]
    OBVIOUS
  <2>7. req'[w] = [pc |-> "recover_answer", plan |-> p, log |-> log, report |-> report]
    BY <1>0, <2>4, <2>6, BecomeOwn DEF Record
  <2>8. Recoverable(log) = TRUE
    BY <2>2 DEF Recoverable
  <2>9. report.recoverable = TRUE /\ report.replayed <= report.steps /\ report.from <= n
    BY <2>2, <2>3, <2>5, <2>6
  <2>10. QED BY <1>0, <2>1, <2>2, <2>7, <2>8, <2>9, AnswerKnown
<1>3. ASSUME \/ CollectPlans(w) \/ CollectWear(w) \/ CollectCerts(w) \/ CollectBlocks(w)
             \/ Answer(w)
      PROVE  CoverOwn(w)'
  <2>1. req'[w].pc \in {"idle", "stats_wear", "stats_certs", "stats_blocks", "stats_answer"}
    <3>1. CASE CollectPlans(w)
      BY <1>0, <3>1, BecomeOwn DEF CollectPlans, Record
    <3>2. CASE CollectWear(w)
      BY <1>0, <3>2, BecomeOwn DEF CollectWear, Record
    <3>3. CASE CollectCerts(w)
      BY <1>0, <3>3, BecomeOwn DEF CollectCerts, Record
    <3>4. CASE CollectBlocks(w)
      BY <1>0, <3>4, BecomeOwn DEF CollectBlocks, Record
    <3>5. CASE Answer(w)
      BY <1>0, <3>5, DoneOwn DEF Answer
    <3>6. QED BY <1>3, <3>1, <3>2, <3>3, <3>4, <3>5
  <2>2. QED BY <2>1, NothingKnown DEF Knowing, Adding, AppendPc
<1>4. QED BY <1>1, <1>2, <1>3 DEF Reporting, ReportCall, ReportStep

\* The other requests write no plan, no log and no curve, and over a frozen
\* configuration no block.
LEMMA OtherCovers ==
  ASSUME NEW w, Worker = {w}, SerialInv(w), LedgerInv, CoverInv(w),
         Checkpointing(w) \/ Configuring(w) \/ Reporting(w)
  PROVE  CoverInv(w)'
PROOF
<1>0. /\ w \in Worker /\ Requests /\ ReportFacts
      /\ checkpoints = [p \in Plan |-> checkpoints[p]] /\ DOMAIN plans \subseteq Plan
  BY CoverFacts DEF ReportFacts, LedgerInv, Recorded
<1>1. ~At(w, "sim_verdict")
  BY DEF Checkpointing, CheckpointRead, CheckpointInsert, Configuring, ConfigCall, ConfigStep,
     ConfigCreate, ConfigBlocks, MarkBadGet, MarkBadRead, MarkBadWrite, ReserveGet, ReserveRead,
     ReserveWrite, FreezeGet, FreezePromote, FreezeWrite, Reporting, ReportCall, ReportStep,
     CollectPlans, CollectWear, CollectCerts, CollectBlocks, RecoverOps, RecoverLatest, Answer, At
<1>2. CASE Checkpointing(w)
  <2>1. /\ UNCHANGED <<blocks, plans, planOps, wear>>
        /\ req'[w].pc \in {"cp_insert", "idle"}
    BY <1>0, <1>2, CheckpointMoves DEF Moves, CheckpointPc
  <2>2. \A p \in Plan : checkpoints[p] \subseteq checkpoints'[p]
    BY <1>0, <1>2 DEF Checkpointing, CheckpointRead, CheckpointInsert, tables
  <2>3. CoverOwn(w)'
    BY <2>1, NothingKnown DEF Knowing, Adding, AppendPc
  <2>4. QED BY <1>0, <1>1, <2>1, <2>2, <2>3, CoverSame
<1>3. CASE Configuring(w)
  <2>1. /\ UNCHANGED <<plans, planOps, checkpoints, wear>> /\ req'[w].pc \in ConfigPc \cup {"idle"}
    BY <1>0, <1>3, ConfigMoves DEF Moves
  <2>2. UNCHANGED blocks
    BY <1>0, <1>3, RestKept DEF Kept, Grown
  <2>3. CoverOwn(w)'
    BY <2>1, NothingKnown DEF Knowing, Adding, AppendPc, ConfigPc
  <2>4. QED BY <1>1, <2>1, <2>2, <2>3, CoverSame
<1>4. CASE Reporting(w)
  <2>1. UNCHANGED tables
    BY <1>0, <1>4, ReportMoves
  <2>2. CoverOwn(w)'
    BY <1>0, <1>4, RecoverTells DEF CoverInv
  <2>3. QED BY <1>1, <2>1, <2>2, CoverSame DEF tables
<1>5. QED BY <1>2, <1>3, <1>4

\* Every step over a frozen configuration.
LEMMA CoverStep ==
  ASSUME NEW w, Worker = {w}, ~Faults, SerialInv(w), LedgerInv, CoverInv(w), Next
  PROVE  CoverInv(w)'
PROOF
<1>1. \/ Creating(w) \/ Appending(w) \/ Simulating(w) \/ Checkpointing(w)
      \/ Certifying(w) \/ Configuring(w) \/ Reporting(w)
  BY StepCases DEF Abort
<1>2. QED BY <1>1, CreateCovers, AppendCovers, SimulateLearns, WearCovers, VerdictCovers,
             CertCovers, OtherCovers
-----------------------------------------------------------------------------
\* What is known before the configuration is frozen: there is nothing yet.
LEMMA EarlyFacts ==
  ASSUME NEW w, Worker = {w}, SerialInv(w), Early(w)
  PROVE  /\ w \in Worker /\ Requests /\ CoverOwn(w) /\ ReportFacts
         /\ DOMAIN plans = {} /\ DOMAIN certs = {}
         /\ \A p \in Plan : planOps[p] = << >> /\ checkpoints[p] = {}
PROOF
<1>1. \A p \in Plan : planOps[p] = << >> /\ checkpoints[p] = {}
  BY DEF Early
<1>2. ASSUME NEW p \in Plan
      PROVE  /\ planOps[p] \in Seq(Operation) /\ List(p) = planOps[p]
             /\ checkpoints[p] \subseteq 1 .. Len(planOps[p])
  <2>1. planOps[p] \in Seq(Operation) /\ Len(planOps[p]) = 0 /\ checkpoints[p] = {}
    BY <1>1, EmptySeq
  <2>2. planOps[p] \in [1 .. 0 -> Operation]
    BY <2>1, LenProperties
  <2>3. QED BY <2>1, <2>2, ListIsLog
<1>3. CoverOwn(w)
  BY DEF Early, EarlyPc, CoverOwn, Adding, AppendPc, ConfigPc, ReportPc, At
<1>4. DOMAIN plans = {} /\ DOMAIN certs = {}
  BY DEF Early
<1>5. QED BY <1>1, <1>2, <1>3, <1>4, SerialFacts DEF ReportFacts

\* A step that writes nothing, away from the request to freeze.
LEMMA EarlyStays ==
  ASSUME NEW w, Early(w), UNCHANGED tables, ~At(w, "freeze_write"),
         req'[w].pc \in EarlyPc, At(w, "recover_answer")' => Told(req[w])'
  PROVE  Early(w)'
  BY DEF Early, tables

\* A plan is not created before the configuration is frozen.
LEMMA CreateEarly ==
  ASSUME NEW w, Worker = {w}, SerialInv(w), Early(w), Creating(w)
  PROVE  Early(w)'
PROOF
<1>0. w \in Worker /\ Requests
  BY EarlyFacts
<1>1. ASSUME NEW ops, NEW numbered, CreateCall(w, ops, numbered) PROVE Early(w)'
  <2>1. UNCHANGED tables /\ req'[w].pc = "create_lock" /\ req[w].pc = "idle"
    BY <1>0, <1>1, BecomeOwn DEF CreateCall, Record, At
  <2>2. QED BY <2>1, EarlyStays DEF EarlyPc, At
<1>2. CASE CreateLock(w)
  <2>1. UNCHANGED tables /\ req'[w].pc = "create_config" /\ req[w].pc = "create_lock"
    BY <1>0, <1>2, AdvanceOwn DEF CreateLock, At
  <2>2. QED BY <2>1, EarlyStays DEF EarlyPc, At
<1>3. CASE CreateConfig(w)
  <2>1. req[w].pc = "create_config" /\ cfgStatus \notin {"simulatable", "frozen"}
    BY <1>3 DEF CreateConfig, Early, At
  <2>2. UNCHANGED tables /\ req'[w].pc = "idle"
    BY <1>0, <1>3, <2>1, DoneOwn DEF CreateConfig, CreateReturn
  <2>3. QED BY <2>1, <2>2, EarlyStays DEF EarlyPc, At
<1>4. ~CreateFind(w) /\ ~CreateRow(w) /\ ~CreateOp(w)
  BY DEF CreateFind, CreateRow, CreateOp, At, Early, EarlyPc, ConfigPc, ReportPc
<1>5. QED BY <1>1, <1>2, <1>3, <1>4 DEF Creating

\* Without plans and certificates nothing else can be asked of them.
LEMMA NothingElse ==
  ASSUME NEW w, Worker = {w}, SerialInv(w), Early(w)
  PROVE  ~Appending(w) /\ ~Simulating(w) /\ ~Checkpointing(w) /\ ~Certifying(w)
PROOF
<1>1. DOMAIN plans = {} /\ DOMAIN certs = {} /\ req[w].pc \in EarlyPc
  BY EarlyFacts DEF Early
<1>2. ~Appending(w)
  BY <1>1 DEF Appending, AppendGet, AppendCount, AppendOp, AppendList, AppendStatus, AppendHash,
     Exists, At, EarlyPc, ConfigPc, ReportPc
<1>3. ~Simulating(w)
  BY <1>1 DEF Simulating, SimulateGet, SimulateBlocks, SimulateOps, SimulateRun, SimulateWear,
     SimulateVerdict, Exists, At, EarlyPc, ConfigPc, ReportPc
<1>4. ~Checkpointing(w)
  BY <1>1 DEF Checkpointing, CheckpointRead, CheckpointInsert, Exists, At, EarlyPc, ConfigPc, ReportPc
<1>5. ~Certifying(w)
  BY <1>1 DEF Certifying, CertCall, CertStep, IssueGet, IssueConfig, IssueInsert, IssuePublish,
     RevokeGet, RevokeWrite, Exists, At, EarlyPc, ConfigPc, ReportPc
<1>6. QED BY <1>2, <1>3, <1>4, <1>5

\* The configuration is made, changed and at last frozen without a plan.
LEMMA ConfigEarly ==
  ASSUME NEW w, Worker = {w}, SerialInv(w), Early(w), Configuring(w)
  PROVE  /\ ~FreezeWrite(w) => Early(w)'
         /\ FreezeWrite(w) =>
              /\ cfgStatus' = "frozen" /\ req'[w].pc = "idle"
              /\ UNCHANGED <<plans, planOps, checkpoints, certs>>
PROOF
<1>0. w \in Worker /\ Requests
  BY EarlyFacts
<1>1. /\ req'[w].pc \in ConfigPc \cup {"idle"}
      /\ UNCHANGED <<plans, planOps, checkpoints, wear, certs>>
  BY <1>0, ConfigMoves DEF Moves
<1>2. /\ ~At(w, "recover_answer")' /\ req'[w].pc \in EarlyPc
      /\ plans' = << >> /\ certs' = << >> /\ planOps' = [p \in Plan |-> << >>]
      /\ checkpoints' = [p \in Plan |-> {}] /\ wear' = [p \in Plan |-> NoWear]
  BY <1>1 DEF Early, EarlyPc, ConfigPc, At
<1>3. CASE ConfigCreate(w)
  <2>1. cfgStatus' = "draft"
    BY <1>3 DEF ConfigCreate
  <2>2. QED BY <1>2, <1>3, <2>1 DEF Early, ConfigCreate, FreezeWrite, At
<1>4. CASE FreezePromote(w)
  <2>1. cfgStatus' = "simulatable" /\ req'[w].pc = "freeze_write"
    BY <1>0, <1>4, AdvanceOwn DEF FreezePromote
  <2>2. QED BY <1>2, <1>4, <2>1 DEF Early, FreezePromote, FreezeWrite, At
<1>5. CASE FreezeWrite(w)
  BY <1>0, <1>1, <1>5, DoneOwn DEF FreezeWrite
<1>6. ASSUME ~ConfigCreate(w), ~FreezePromote(w), ~FreezeWrite(w)
      PROVE  Early(w)'
  <2>1. ~At(w, "freeze_write") /\ UNCHANGED cfgStatus
    BY <1>6 DEF Configuring, ConfigCall, ConfigStep, ConfigBlocks, MarkBadGet, MarkBadRead,
       MarkBadWrite, ReserveGet, ReserveRead, ReserveWrite, FreezeGet, At, tables
  <2>2. QED BY <1>2, <2>1 DEF Early
<1>7. QED BY <1>3, <1>4, <1>5, <1>6

\* A report on nothing.
LEMMA ReportEarly ==
  ASSUME NEW w, Worker = {w}, SerialInv(w), Early(w), Reporting(w)
  PROVE  Early(w)'
PROOF
<1>0. /\ w \in Worker /\ Requests /\ CoverOwn(w) /\ ReportFacts
      /\ \A p \in Plan : planOps[p] = << >>
  BY EarlyFacts
<1>1. UNCHANGED tables /\ req'[w].pc \in ReportPc \cup {"idle"}
  BY <1>0, ReportMoves DEF Moves
<1>2. CoverOwn(w)'
  BY <1>0, RecoverTells
<1>3. req'[w].pc # "recover_latest"
  <2> SUFFICES ASSUME req'[w].pc = "recover_latest" PROVE FALSE
    OBVIOUS
  <2>1. req'[w].plan \in Plan /\ req'[w].log = planOps'[req'[w].plan] /\ Recoverable(req[w].log)'
    BY <1>2 DEF CoverOwn
  <2>2. req'[w].log = << >>
    BY <1>0, <1>1, <2>1 DEF tables
  <2>3. LastCheckpoint(<< >>) \in 0 .. Len(<< >>)
    BY LastCheckpointIs, EmptySeq
  <2>4. ~Recoverable(<< >>)
    BY <2>3, EmptySeq DEF Recoverable
  <2>5. QED BY <2>1, <2>2, <2>4
<1>4. At(w, "recover_answer")' => Told(req[w])'
  BY <1>2 DEF CoverOwn, At
<1>5. ~At(w, "freeze_write")
  BY DEF Reporting, ReportCall, ReportStep, CollectPlans, CollectWear, CollectCerts, CollectBlocks,
     RecoverOps, RecoverLatest, Answer, At
<1>6. QED BY <1>1, <1>3, <1>4, <1>5, EarlyStays DEF EarlyPc, ReportPc

\* The configuration is frozen, nothing else has happened: the ledger starts.
LEMMA FreezeStarts ==
  ASSUME NEW w, Worker = {w}, LogInv', Early(w),
         cfgStatus' = "frozen", req'[w].pc = "idle",
         UNCHANGED <<plans, planOps, checkpoints, certs>>
  PROVE  LedgerInv' /\ CoverInv(w)'
PROOF
<1>1. /\ plans' = << >> /\ certs' = << >> /\ DOMAIN plans' = {} /\ DOMAIN certs' = {}
      /\ planOps' = [p \in Plan |-> << >>] /\ checkpoints' = [p \in Plan |-> {}]
      /\ Len(plans') = 0 /\ Len(certs') = 0
  BY DEF Early
<1>2. Recorded'
  BY <1>1, StoreAssumption, EmptySeq DEF Recorded, Table
<1>3. PassedCanPass'
  BY <1>1 DEF PassedCanPass
<1>4. \A v \in Worker : LedgerOwn(v)'
  BY DEF LedgerOwn, Straggling, SimulatePc, CheckpointPc
<1>5. CoverInv(w)'
  BY <1>1, NothingKnown DEF CoverInv, Knowing, Adding, AppendPc
<1>6. QED BY <1>2, <1>3, <1>4, <1>5 DEF LedgerInv

\* A step before the configuration is frozen, or the one that freezes it.
LEMMA EarlyStep ==
  ASSUME NEW w, Worker = {w}, ~Faults, SerialInv(w), LogInv, Early(w), Next
  PROVE  Early(w)' \/ (LedgerInv' /\ CoverInv(w)')
PROOF
<1>1. \/ Creating(w) \/ Appending(w) \/ Simulating(w) \/ Checkpointing(w)
      \/ Certifying(w) \/ Configuring(w) \/ Reporting(w)
  BY StepCases DEF Abort
<1>2. LogInv'
  BY LogStep
<1>3. CASE Creating(w)
  BY <1>3, CreateEarly
<1>4. CASE Configuring(w)
  BY <1>2, <1>4, ConfigEarly, FreezeStarts
<1>5. CASE Reporting(w)
  BY <1>5, ReportEarly
<1>6. QED BY <1>1, <1>3, <1>4, <1>5, NothingElse

\* The invariant of verdicts, from an empty service on.
LEMMA VerdictHolds ==
  ASSUME NEW w, Worker = {w}, ~Faults
  PROVE  Spec => []VerdictInv(w)
PROOF
<1>1. Init => VerdictInv(w)
  <2> SUFFICES ASSUME Init PROVE VerdictInv(w)
    OBVIOUS
  <2>1. SerialInv(w) /\ LogInv
    BY SerialInit, LogInit DEF Init
  <2>2. Early(w)
    BY DEF Init, InitStore, Early, EarlyPc, Idle, At
  <2>3. QED BY <2>1, <2>2 DEF VerdictInv
<1>2. VerdictInv(w) /\ [Next]_vars => VerdictInv(w)'
  <2> SUFFICES ASSUME VerdictInv(w), [Next]_vars PROVE VerdictInv(w)'
    OBVIOUS
  <2>1. CASE Next
    <3>1. SerialInv(w)' /\ LogInv'
      BY <2>1, SerialStep, LogStep DEF VerdictInv
    <3>2. CASE Early(w)
      BY <2>1, <3>1, <3>2, EarlyStep DEF VerdictInv
    <3>3. CASE LedgerInv /\ CoverInv(w)
      BY <2>1, <3>1, <3>3, LedgerStep, CoverStep DEF VerdictInv
    <3>4. QED BY <3>2, <3>3 DEF VerdictInv
  <2>2. CASE UNCHANGED vars
    <3>1. SerialInv(w)'
      BY <2>2 DEF vars, VerdictInv, SerialInv, CheckInv, RowsInv, Requests, PlanTable, Table, PlanRow, Logs,
         HoldOwn, CertTable, CertShape, CheckedOwn, Backed, At, OneCertPerPlan
    <3>2. LogInv'
      BY LogStep DEF VerdictInv
    <3>3. CASE Early(w)
      <4>1. Told(req[w]) => Told(req[w])'
        BY <2>2 DEF vars, Told
      <4>2. Early(w)'
        BY <2>2, <3>3, <4>1 DEF vars, Early, At
      <4>3. QED BY <3>1, <3>2, <4>2 DEF VerdictInv
    <3>4. CASE LedgerInv /\ CoverInv(w)
      <4>1. LedgerInv'
        BY <3>4, LedgerStep
      <4>2. CoverOwn(w)' /\ \A p : Covered(p)' <=> Covered(p)
        BY <2>2, <3>4 DEF vars, CoverInv, CoverOwn, Covered, Told
      <4>3. CoverInv(w)'
        BY <2>2, <3>4, <4>2 DEF vars, CoverInv, Judging, At
      <4>4. QED BY <3>1, <3>2, <4>1, <4>3 DEF VerdictInv
    <3>5. QED BY <3>3, <3>4 DEF VerdictInv
  <2>3. QED BY <2>1, <2>2
<1>3. QED BY <1>1, <1>2, PTL DEF Spec

\* Between requests every judged plan has the verdict, the cursor, the violation
\* step and the curve of a run over its complete log.
THEOREM VerdictsCover ==
  ASSUME NEW w, Worker = {w}, ~Faults
  PROVE  Spec => []VerdictCoversLog
PROOF
<1>1. VerdictInv(w) => VerdictCoversLog
  <2> SUFFICES ASSUME VerdictInv(w), Quiet, NEW p \in DOMAIN plans, plans[p].status # "editing"
               PROVE  \E start \in {{}} \cup {{c} : c \in checkpoints[p]} :
                        LET end == Outcome(List(p), start, blocks) IN
                        /\ plans[p].cursor = end.cursor /\ plans[p].step = end.step
                        /\ IF plans[p].status = "published" THEN end.status = "publishable"
                           ELSE end.status = plans[p].status
                        /\ \A curve \in end.saved : wear[p] = curve
    BY DEF VerdictCoversLog
  <2>1. ~Early(w)
    BY DEF Early
  <2>2. List(p) = planOps[p]
    BY <2>1, CoverFacts DEF VerdictInv
  <2>3. ~Judging(w, p)
    BY DEF Quiet, Judging, At
  <2>4. Covered(p)
    BY <2>1, <2>3 DEF VerdictInv, CoverInv
  <2>5. QED BY <2>2, <2>4 DEF Covered
<1>2. QED BY <1>1, VerdictHolds, PTL

\* Recover calls every plan recoverable whose verdict let a power loss pass, and
\* its counts and its checkpoint lie in the log.
THEOREM RecoverAgrees ==
  ASSUME NEW w, Worker = {w}, ~Faults
  PROVE  Spec => []PassedIsRecoverable
PROOF
<1>1. VerdictInv(w) => PassedIsRecoverable
  <2> SUFFICES ASSUME VerdictInv(w), At(w, "recover_answer") PROVE
          LET r == req[w] IN
          /\ /\ Exists(r.plan) /\ plans[r.plan].status \in {"publishable", "published"}
             /\ \E i \in DOMAIN r.log : r.log[i] = PowerLoss
             => r.report.recoverable
          /\ r.report.replayed <= r.report.steps /\ r.report.from <= Len(r.log)
    BY DEF PassedIsRecoverable
  <2>1. PICK r, p, log : r = req[w] /\ p = r.plan /\ log = r.log
    OBVIOUS
  <2>2. Told(r)
    BY <2>1 DEF VerdictInv, Early, CoverInv, CoverOwn, At
  <2>3. ASSUME p \in DOMAIN plans, plans[p].status \in {"publishable", "published"},
               NEW i \in DOMAIN log, log[i] = PowerLoss
        PROVE  Recoverable(log)
    <3>1. LedgerInv /\ CoverInv(w) /\ SerialInv(w)
      BY <2>3 DEF VerdictInv, Early
    <3>2. Covered(p)
      BY <2>3, <3>1 DEF CoverInv, Judging, At
    <3>3. PICK start \in {{}} \cup {{c} : c \in checkpoints[p]} :
            Outcome(planOps[p], start, blocks).status = "publishable"
      BY <2>3, <3>2 DEF Covered
    <3>4. /\ p \in Plan /\ log = planOps[p] /\ log \in Seq(Operation)
          /\ checkpoints[p] \subseteq 1 .. Len(log)
      BY <2>1, <2>2, <3>1, CoverFacts DEF Told
    <3>5. Len(log) \in Nat /\ start \subseteq 1 .. Len(log)
      BY <3>3, <3>4, LenProperties
    <3>6. Unguarded(log) = {}
      BY <3>3, <3>4, <3>5, OutcomeInLog
    <3>7. log[i].type = "powerloss"
      BY <2>3 DEF PowerLoss
    <3>8. QED BY <2>3, <3>4, <3>6, <3>7, RecoveryIs
  <2>4. QED BY <2>1, <2>2, <2>3 DEF Told, Exists
<1>2. QED BY <1>1, VerdictHolds, PTL
-----------------------------------------------------------------------------
\* What Collect reads does not change before it answers: the statuses, and the
\* erases of the wear curves of the plans up to n.
Statuses == [p \in DOMAIN plans |-> plans[p].status]
Worn     == [p \in Plan |-> EraseSum(wear[p])]
UpTo(n)  == SumFunctionOnSet(Worn, 1 .. n)
Revoked  == {c \in DOMAIN certs : certs[c].status = "revoked"}
Adds(s) ==
  /\ s.revoked <= s.issued /\ s.issued <= s.publishable
  /\ s.publishable + s.exceeded + s.broken =
       Cardinality({p \in DOMAIN plans : plans[p].status # "editing"})
  /\ s.plans = Len(plans) /\ s.bad = Cardinality({b \in Block : blocks[b].status = "bad"})
  /\ s.erases = SumFunctionOnSet([p \in Plan |-> EraseSum(wear[p])], Plan)

StatPc == {"stats_wear", "stats_certs", "stats_blocks", "stats_answer"}
StatOwn(w) ==
  LET r == req[w] IN
  /\ r.pc \in {"stats_wear", "stats_certs", "stats_blocks"} => r.statuses = Statuses
  /\ r.pc = "stats_wear" => r.done \in 0 .. Len(plans) - 1 /\ r.erases = UpTo(r.done)
  /\ r.pc \in {"stats_certs", "stats_blocks"} => r.erases = UpTo(Len(plans))
  /\ r.pc = "stats_blocks" => r.issued = Len(certs) /\ r.revoked = Cardinality(Revoked)
  /\ r.pc = "stats_answer" => Adds(r.stats)

\* A plan that does not exist has no wear curve.
UnusedWear == \A p \in Plan : p \in DOMAIN plans \/ wear[p] = NoWear
StatInv(w) == SerialInv(w) /\ TypeInv /\ UnusedWear /\ StatOwn(w)

\* The blocks of a chip are finitely many, and so are a table's rows.
LEMMA FiniteRows ==
  ASSUME TypeInv
  PROVE  /\ IsFiniteSet(Block) /\ \A n \in Nat : IsFiniteSet(1 .. n) /\ Cardinality(1 .. n) = n
         /\ DOMAIN plans = 1 .. Len(plans) /\ Len(plans) \in Nat /\ Len(plans) <= MaxPlans
         /\ DOMAIN certs = 1 .. Len(certs) /\ Len(certs) \in Nat
         /\ \A p \in DOMAIN plans : p \in Plan /\ plans[p].status \in PlanStatus
PROOF
<1>1. IsFiniteSet(Block)
  BY CapacityPositive, FS_Interval DEF Block
<1>2. \A n \in Nat : IsFiniteSet(1 .. n) /\ Cardinality(1 .. n) = n
  BY FS_Interval
<1>3. /\ plans \in Seq(PlanRecord) /\ certs \in Seq(CertRecord) /\ Len(plans) <= MaxPlans
  BY DEF TypeInv, TablesTyped, PlansTyped, CertsTyped
<1>4. /\ DOMAIN plans = 1 .. Len(plans) /\ Len(plans) \in Nat
      /\ DOMAIN certs = 1 .. Len(certs) /\ Len(certs) \in Nat
  BY <1>3, LenProperties
<1>5. ASSUME NEW p \in DOMAIN plans PROVE p \in Plan /\ plans[p].status \in PlanStatus
  <2>1. p \in Plan
    BY <1>3, <1>4, StoreAssumption DEF Plan
  <2>2. plans[p] \in PlanRecord
    BY <1>3, <1>4, ElementOfSeq
  <2>3. QED BY <2>1, <2>2 DEF PlanRecord
<1>6. QED BY <1>1, <1>2, <1>3, <1>4, <1>5

\* A curve's erases add up to a number, none to nothing.
LEMMA WornNumber ==
  ASSUME TypeInv, NEW p \in Plan
  PROVE  Worn[p] \in Int /\ (wear[p] = NoWear => Worn[p] = 0)
PROOF
<1>1. PICK c : c = wear[p] /\ Curve(c)
  BY DEF TypeInv, TablesTyped, WearTyped
<1>2. PICK fun, S : fun = [b \in DOMAIN c |-> c[b].erase] /\ S = DOMAIN c
  OBVIOUS
<1>3. IsFiniteSet(S)
  BY <1>1, <1>2, FiniteRows, FS_Subset DEF Curve
<1>4. Worn[p] = SumFunctionOnSet(fun, S)
  BY <1>1, <1>2 DEF Worn, EraseSum
<1>5. \A b \in S : fun[b] \in Int
  BY <1>1, <1>2 DEF Curve
<1>6. wear[p] = NoWear => S = {}
  BY <1>1, <1>2 DEF NoWear
<1>7. S = {} => SumFunctionOnSet(fun, S) = 0
  BY <1>3, SumNothing
<1>8. SumFunctionOnSet(fun, S) \in Int
  BY <1>3, <1>5, SumInteger
<1>9. QED BY <1>4, <1>6, <1>7, <1>8

\* The block rows have no erases of their own.
LEMMA BlocksNotWorn ==
  ASSUME TypeInv
  PROVE  EraseSum(blocks) = 0
PROOF
<1>1. PICK fun, S : fun = [b \in DOMAIN blocks |-> blocks[b].erase] /\ S = DOMAIN blocks
  OBVIOUS
<1>2. S = Block /\ \A b \in S : fun[b] = 0
  BY <1>1 DEF TypeInv, ConfigInv, NoRowYet, HasRows, NoRow, Row, FactoryRow
<1>3. SumFunctionOnSet(fun, S) = 0
  BY <1>2, FiniteRows, SumNothing
<1>4. QED BY <1>1, <1>3 DEF EraseSum

\* The next plan's erases are added to those of the plans before.
LEMMA WornMore ==
  ASSUME TypeInv, NEW n \in Nat, n + 1 \in Plan
  PROVE  UpTo(n) \in Int /\ UpTo(n + 1) = UpTo(n) + Worn[n + 1]
PROOF
<1>1. PICK fun, S : fun = Worn /\ S = 1 .. n
  OBVIOUS
<1>2. S \cup {n + 1} = 1 .. n + 1 /\ n + 1 \notin S /\ S \subseteq Plan
  BY <1>1, StoreAssumption DEF Plan
<1>3. IsFiniteSet(S) /\ \A p \in Plan : fun[p] \in Int
  BY <1>1, FiniteRows, WornNumber
<1>4. /\ SumFunctionOnSet(fun, S) \in Int
      /\ SumFunctionOnSet(fun, S \cup {n + 1}) = SumFunctionOnSet(fun, S) + fun[n + 1]
  BY <1>2, <1>3, SumMore, SumInteger
<1>5. QED BY <1>1, <1>2, <1>4 DEF UpTo

\* No plan, no erases.
LEMMA WornNone ==
  ASSUME TypeInv
  PROVE  UpTo(0) = 0
PROOF
<1>1. PICK fun, S : fun = Worn /\ S = 1 .. 0
  OBVIOUS
<1>2. IsFiniteSet(S) /\ \A p \in S : fun[p] = 0
  BY <1>1, FiniteRows
<1>3. SumFunctionOnSet(fun, S) = 0
  BY <1>2, SumNothing
<1>4. QED BY <1>1, <1>3 DEF UpTo

\* The plans there are have all the erases.
LEMMA WornAll ==
  ASSUME TypeInv, UnusedWear
  PROVE  SumFunctionOnSet(Worn, Plan) = UpTo(Len(plans)) /\ UpTo(Len(plans)) \in Int
PROOF
<1>1. PICK m, N : m = Len(plans) /\ N = MaxPlans - m
  OBVIOUS
<1>2. m \in Nat /\ N \in Nat /\ m + N = MaxPlans /\ DOMAIN plans = 1 .. m
  BY <1>1, FiniteRows, StoreAssumption
<1> DEFINE T == {n \in Nat : UpTo(m + n) = UpTo(m)}
<1>3. 0 \in T
  BY <1>2
<1>4. ASSUME NEW n \in 0 .. N - 1, n \in T PROVE n + 1 \in T
  <2>1. PICK k : k = m + n
    OBVIOUS
  <2>2. k \in Nat /\ k + 1 \in Plan /\ k + 1 \notin DOMAIN plans /\ m + (n + 1) = k + 1
    BY <1>2, <2>1 DEF Plan
  <2>3. UpTo(k + 1) = UpTo(k) + Worn[k + 1] /\ UpTo(k) \in Int
    BY <2>2, WornMore
  <2>4. Worn[k + 1] = 0
    BY <2>2, WornNumber DEF UnusedWear
  <2>5. UpTo(k) = UpTo(m)
    BY <1>4, <2>1
  <2>6. UpTo(k + 1) = UpTo(m)
    BY <2>3, <2>4, <2>5
  <2>7. QED BY <2>2, <2>6
<1>5. \A n \in 0 .. N : n \in T
  <2> HIDE DEF T
  <2>1. QED BY <1>2, <1>3, <1>4, Runs!Counting
<1>6. UpTo(MaxPlans) = UpTo(m)
  BY <1>2, <1>5
<1>7. SumFunctionOnSet(Worn, Plan) = UpTo(MaxPlans)
  BY DEF UpTo, Plan
<1>8. UpTo(m) \in Int
  <2>1. PICK fun, S : fun = Worn /\ S = 1 .. m
    OBVIOUS
  <2>2. IsFiniteSet(S) /\ \A p \in S : fun[p] \in Int
    BY <1>1, <1>2, <2>1, FiniteRows, WornNumber
  <2>3. SumFunctionOnSet(fun, S) \in Int
    BY <2>2, SumInteger
  <2>4. QED BY <2>1, <2>3 DEF UpTo
<1>9. QED BY <1>1, <1>6, <1>7, <1>8

\* At most one certificate for each plan that passed.
LEMMA FewerCerts ==
  ASSUME NEW w, SerialInv(w), TypeInv, ~At(w, "issue_publish"),
         NEW passed, passed = {p \in DOMAIN plans : plans[p].status \in {"publishable", "published"}}
  PROVE  Len(certs) <= Cardinality(passed)
PROOF
<1>1. PICK issued, k : issued = DOMAIN certs /\ k = Len(certs)
  OBVIOUS
<1>2. /\ IsFiniteSet(issued) /\ Cardinality(issued) = k /\ k \in Nat /\ IsFiniteSet(DOMAIN plans)
  BY <1>1, FiniteRows
<1>3. IsFiniteSet(passed) /\ Cardinality(passed) \in Nat
  BY <1>2, FS_Subset, FS_CardinalityType
<1>4. PICK f : f = [c \in issued |-> certs[c].plan]
  OBVIOUS
<1>5. f \in [issued -> passed]
  BY <1>1, <1>4 DEF SerialInv, CheckInv, Backed
<1>6. \A c, d \in issued : f[c] = f[d] => c = d
  BY <1>1, <1>4 DEF SerialInv, CheckInv, OneCertPerPlan
<1>7. ~(Cardinality(passed) < Cardinality(issued))
  BY <1>2, <1>3, <1>5, <1>6, FS_PigeonHole
<1>8. QED BY <1>1, <1>2, <1>3, <1>7

\* The three outcomes are disjoint, and together with being edited they are all.
LEMMA OutcomesSplit ==
  ASSUME TypeInv, NEW passed, NEW exceeded, NEW broken,
         passed = {p \in DOMAIN plans : plans[p].status \in {"publishable", "published"}},
         exceeded = {p \in DOMAIN plans : plans[p].status = "budget_exceeded"},
         broken = {p \in DOMAIN plans : plans[p].status = "recovery_incomplete"}
  PROVE  /\ Cardinality(passed) + Cardinality(exceeded) + Cardinality(broken) =
              Cardinality({p \in DOMAIN plans : plans[p].status # "editing"})
         /\ Cardinality(passed) \in Nat
PROOF
<1>1. IsFiniteSet(DOMAIN plans)
  BY FiniteRows
<1>2. /\ IsFiniteSet(passed) /\ IsFiniteSet(exceeded) /\ IsFiniteSet(broken)
      /\ Cardinality(passed) \in Nat /\ Cardinality(exceeded) \in Nat /\ Cardinality(broken) \in Nat
  BY <1>1, FS_Subset, FS_CardinalityType
<1>3. PICK both : both = passed \cup exceeded
  OBVIOUS
<1>4. passed \cap exceeded = {} /\ both \cap broken = {}
  BY <1>3
<1>5. IsFiniteSet(both) /\ Cardinality(both) = Cardinality(passed) + Cardinality(exceeded)
  <2>1. Cardinality(passed \cap exceeded) = 0
    BY <1>4, FS_EmptySet
  <2>2. /\ IsFiniteSet(passed \cup exceeded)
        /\ Cardinality(passed \cup exceeded)
             = Cardinality(passed) + Cardinality(exceeded) - Cardinality(passed \cap exceeded)
    BY <1>2, FS_Union
  <2>3. QED BY <1>2, <1>3, <2>1, <2>2
<1>6. Cardinality(both \cup broken) = Cardinality(both) + Cardinality(broken)
  <2>1. Cardinality(both \cap broken) = 0
    BY <1>4, FS_EmptySet
  <2>2. Cardinality(both \cup broken)
          = Cardinality(both) + Cardinality(broken) - Cardinality(both \cap broken)
    BY <1>2, <1>5, FS_Union
  <2>3. Cardinality(both) \in Nat
    BY <1>5, FS_CardinalityType
  <2>4. QED BY <1>2, <2>1, <2>2, <2>3
<1>7. both \cup broken = {p \in DOMAIN plans : plans[p].status # "editing"}
  BY <1>3, FiniteRows DEF PlanStatus
<1>8. QED BY <1>2, <1>5, <1>6, <1>7

\* What Collect reads, from the statuses to the answer.
LEMMA CollectAdds ==
  ASSUME NEW w, Worker = {w}, ~Faults, StatInv(w), Reporting(w)
  PROVE  StatOwn(w)'
PROOF
<1>0. w \in Worker /\ Requests /\ TypeInv /\ SerialInv(w) /\ UnusedWear /\ StatOwn(w)
  BY SerialFacts DEF StatInv
<1>1. UNCHANGED tables
  BY <1>0, ReportMoves
<1>2. /\ Statuses' = Statuses /\ Len(plans)' = Len(plans) /\ Len(certs)' = Len(certs)
      /\ Revoked' = Revoked /\ (\A n : UpTo(n)' = UpTo(n)) /\ \A s : Adds(s)' <=> Adds(s)
  BY <1>1 DEF tables, Statuses, Revoked, UpTo, Worn, Adds
<1>3. PICK r, m : r = req[w] /\ m = Len(plans)
  OBVIOUS
<1>4. m \in Nat /\ m <= MaxPlans /\ DOMAIN Statuses = 1 .. m /\ Len(Statuses) = m
  <2>1. m \in Nat /\ m <= MaxPlans /\ DOMAIN plans = 1 .. m
    BY <1>0, <1>3, FiniteRows
  <2>2. Statuses \in Seq({plans[p].status : p \in 1 .. m})
    BY <2>1, SeqDef DEF Statuses
  <2>3. QED BY <2>1, <2>2, LenProperties DEF Statuses
<1>5. CASE CollectPlans(w)
  <2>1. PICK pc : /\ pc = (IF plans = << >> THEN "stats_certs" ELSE "stats_wear")
                  /\ req'[w] = [pc |-> pc, statuses |-> Statuses, done |-> 0, erases |-> 0]
    BY <1>0, <1>5, BecomeOwn DEF CollectPlans, Record, Statuses
  <2>2. UpTo(0) = 0
    BY <1>0, WornNone
  <2>3. pc = "stats_certs" => m = 0
    BY <1>3, <2>1, EmptySeq
  <2>4. pc = "stats_wear" => m # 0
    <3>1. plans \in Seq(PlanRecord)
      BY <1>0 DEF TypeInv, TablesTyped, PlansTyped
    <3>2. QED BY <1>3, <2>1, <3>1, EmptySeq
  <2>5. pc \in {"stats_certs", "stats_wear"}
    BY <2>1
  <2>6. QED BY <1>2, <1>3, <1>4, <2>1, <2>2, <2>3, <2>4, <2>5 DEF StatOwn
<1>6. CASE CollectWear(w)
  <2>1. /\ r.pc = "stats_wear" /\ r.statuses = Statuses
        /\ r.done \in 0 .. m - 1 /\ r.erases = UpTo(r.done)
    BY <1>0, <1>3, <1>6 DEF CollectWear, At, StatOwn
  <2>2. PICK p, total : p = r.done + 1 /\ total = r.erases + EraseSum(wear[p])
    OBVIOUS
  <2>3. p \in 1 .. m /\ p \in Plan /\ r.done \in Nat
    BY <1>4, <2>1, <2>2, StoreAssumption DEF Plan
  <2>4. total = UpTo(p)
    <3>1. Worn[p] = EraseSum(wear[p])
      BY <2>3 DEF Worn
    <3>2. UpTo(p) = UpTo(r.done) + Worn[p]
      BY <1>0, <2>2, <2>3, WornMore
    <3>3. QED BY <2>1, <2>2, <3>1, <3>2
  <2>5. Become(w, [pc |-> IF p = Len(r.statuses) THEN "stats_certs" ELSE "stats_wear",
                   statuses |-> r.statuses, done |-> p, erases |-> total])
    BY <1>3, <1>6, <2>2 DEF CollectWear
  <2>6. \E pc : /\ pc = (IF p = m THEN "stats_certs" ELSE "stats_wear")
                /\ req'[w] = [pc |-> pc, statuses |-> Statuses, done |-> p, erases |-> total]
    BY <1>0, <1>4, <2>1, <2>5, BecomeOwn DEF Record
  <2>7. p # m => p \in 0 .. m - 1
    BY <1>4, <2>3
  <2>8. QED BY <1>2, <1>3, <2>4, <2>6, <2>7 DEF StatOwn
<1>7. CASE CollectCerts(w)
  <2>1. r.statuses = Statuses /\ r.erases = UpTo(m)
    BY <1>0, <1>3, <1>7 DEF CollectCerts, At, StatOwn
  <2>2. req'[w] = [pc |-> "stats_blocks", statuses |-> r.statuses, erases |-> r.erases,
                   issued |-> Len(certs), revoked |-> Cardinality(Revoked)]
    BY <1>0, <1>3, <1>7, BecomeOwn DEF CollectCerts, Record, Revoked
  <2>3. QED BY <1>2, <1>3, <2>1, <2>2 DEF StatOwn
<1>8. CASE CollectBlocks(w)
  <2>1. /\ r.pc = "stats_blocks" /\ r.statuses = Statuses /\ r.erases = UpTo(m)
        /\ r.issued = Len(certs) /\ r.revoked = Cardinality(Revoked)
    BY <1>0, <1>3, <1>8 DEF CollectBlocks, At, StatOwn
  <2>2. PICK passed, exceeded, broken, bad :
          /\ passed = {p \in DOMAIN plans : plans[p].status \in {"publishable", "published"}}
          /\ exceeded = {p \in DOMAIN plans : plans[p].status = "budget_exceeded"}
          /\ broken = {p \in DOMAIN plans : plans[p].status = "recovery_incomplete"}
          /\ bad = {b \in Block : blocks[b].status = "bad"}
    OBVIOUS
  <2>3. /\ Having(Statuses, {"publishable", "published"}) = Cardinality(passed)
        /\ Having(Statuses, {"budget_exceeded"}) = Cardinality(exceeded)
        /\ Having(Statuses, {"recovery_incomplete"}) = Cardinality(broken)
    <3>1. /\ {p \in DOMAIN Statuses : Statuses[p] \in {"publishable", "published"}} = passed
          /\ {p \in DOMAIN Statuses : Statuses[p] \in {"budget_exceeded"}} = exceeded
          /\ {p \in DOMAIN Statuses : Statuses[p] \in {"recovery_incomplete"}} = broken
      BY <2>2 DEF Statuses
    <3>2. QED BY <3>1 DEF Having
  <2>4. PICK s : s = [plans |-> m, publishable |-> Cardinality(passed),
                      exceeded |-> Cardinality(exceeded), broken |-> Cardinality(broken),
                      issued |-> r.issued, revoked |-> r.revoked, bad |-> Cardinality(bad),
                      erases |-> r.erases + EraseSum(blocks)]
    OBVIOUS
  <2>5. req'[w] = [pc |-> "stats_answer", stats |-> s]
    <3>1. Become(w, [pc |-> "stats_answer", stats |-> s])
      BY <1>3, <1>4, <1>8, <2>1, <2>2, <2>3, <2>4 DEF CollectBlocks
    <3>2. QED BY <1>0, <3>1, BecomeOwn DEF Record
  <2>6. s.revoked <= s.issued
    <3>1. IsFiniteSet(DOMAIN certs) /\ Cardinality(DOMAIN certs) = Len(certs)
      BY <1>0, FiniteRows
    <3>2. Cardinality(Revoked) <= Cardinality(DOMAIN certs)
      BY <3>1, FS_Subset DEF Revoked
    <3>3. QED BY <2>1, <2>4, <3>1, <3>2
  <2>7. s.issued <= s.publishable
    BY <1>0, <1>3, <2>1, <2>2, <2>4, FewerCerts DEF At
  <2>8. s.publishable + s.exceeded + s.broken =
          Cardinality({p \in DOMAIN plans : plans[p].status # "editing"})
    BY <1>0, <2>2, <2>4, OutcomesSplit
  <2>9. s.erases = SumFunctionOnSet(Worn, Plan)
    BY <1>0, <1>3, <2>1, <2>4, WornAll, BlocksNotWorn
  <2>10. Adds(s)
    BY <1>3, <2>2, <2>4, <2>6, <2>7, <2>8, <2>9 DEF Adds, Worn
  <2>11. QED BY <1>2, <2>5, <2>10 DEF StatOwn
<1>9. CASE (\E p \in Plan : RecoverOps(w, p)) \/ RecoverLatest(w) \/ Answer(w)
  <2>1. ASSUME NEW p, RecoverOps(w, p) PROVE req'[w].pc \in {"recover_latest", "recover_answer"}
    BY <1>0, <2>1, BecomeOwn DEF RecoverOps, Record
  <2>2. RecoverLatest(w) => req'[w].pc = "recover_answer"
    BY <1>0, BecomeOwn DEF RecoverLatest, Record
  <2>3. Answer(w) => req'[w].pc = "idle"
    BY <1>0, DoneOwn DEF Answer
  <2>4. QED BY <1>9, <2>1, <2>2, <2>3 DEF StatOwn
<1>10. QED BY <1>5, <1>6, <1>7, <1>8, <1>9 DEF Reporting, ReportCall, ReportStep

\* Only a plan that exists is simulated, and plans are not deleted.
LEMMA UnusedStays ==
  ASSUME NEW w, Worker = {w}, SerialInv(w), TypeInv, UnusedWear, Next
  PROVE  UnusedWear'
PROOF
<1>0. w \in Worker /\ Requests /\ PlanTable /\ CheckedOwn(w)
  BY SerialFacts
<1>1. \/ Creating(w) \/ Appending(w) \/ Simulating(w) \/ Checkpointing(w)
      \/ Certifying(w) \/ Configuring(w) \/ Reporting(w) \/ Abort(w)
  BY StepCases
<1>2. DOMAIN plans \subseteq DOMAIN plans'
  <2>1. CASE CreateRow(w)
    BY <1>0, <2>1, CreatedRow
  <2>2. CASE Creating(w) /\ ~CreateRow(w)
    BY <2>2 DEF Creating, CreateCall, CreateLock, CreateConfig, CreateFind, CreateOp, tables
  <2>3. CASE ~Creating(w)
    BY <1>0, <1>1, <2>3, PlanWrites DEF Rehashed
  <2>4. QED BY <2>1, <2>2, <2>3
<1>3. CASE SimulateWear(w)
  <2>1. PICK p, curve : p = req[w].plan /\ wear' = [wear EXCEPT ![p] = curve]
    BY <1>3 DEF SimulateWear
  <2>2. p \in DOMAIN plans /\ DOMAIN wear = Plan
    BY <1>0, <1>3, <2>1 DEF SimulateWear, At, CheckedOwn, Holding, TypeInv, TablesTyped, WearTyped
  <2>3. QED BY <1>2, <2>1, <2>2 DEF UnusedWear
<1>4. CASE UNCHANGED wear
  BY <1>2, <1>4 DEF UnusedWear
<1>5. UNCHANGED wear \/ SimulateWear(w)
  <2>1. CASE Simulating(w)
    BY <2>1 DEF Simulating, SimulateGet, SimulateBlocks, SimulateOps, SimulateRun, SimulateVerdict,
       tables
  <2>2. CASE ~Simulating(w)
    BY <1>0, <1>1, <2>2, CreateMoves, AppendMoves, CheckpointMoves, CertMoves, ConfigMoves,
       ReportMoves, AbortMoves DEF tables
  <2>3. QED BY <2>1, <2>2
<1>6. QED BY <1>3, <1>4, <1>5

\* The other requests leave the statistics' reads as they are, for nobody is reading.
LEMMA StatStep ==
  ASSUME NEW w, Worker = {w}, ~Faults, StatInv(w), Next
  PROVE  StatInv(w)'
PROOF
<1>1. SerialInv(w)' /\ TypeInv' /\ UnusedWear'
  BY SerialStep, TypeStep, UnusedStays DEF StatInv
<1>2. Reporting(w) => StatOwn(w)'
  BY CollectAdds
<1>3. ASSUME ~Reporting(w) PROVE StatOwn(w)'
  <2>1. w \in Worker /\ Requests
    BY SerialFacts DEF StatInv
  <2>2. \/ Creating(w) \/ Appending(w) \/ Simulating(w) \/ Checkpointing(w)
        \/ Certifying(w) \/ Configuring(w)
    BY <1>3, StepCases DEF Abort
  <2>3. req'[w].pc \in CreatePc \cup AppendPc \cup SimulatePc \cup CheckpointPc \cup CertPc
                        \cup ConfigPc \cup {"idle"}
    BY <2>1, <2>2, CreateMoves, AppendMoves, SimulateMoves, CheckpointMoves, CertMoves, ConfigMoves
       DEF Moves
  <2>4. req'[w].pc \notin StatPc
    BY <2>3 DEF StatPc, CreatePc, AppendPc, SimulatePc, CheckpointPc, CertPc, ConfigPc
  <2>5. QED BY <2>4 DEF StatOwn, StatPc
<1>4. QED BY <1>1, <1>2, <1>3 DEF StatInv

\* The statistics of a service that serves one request at a time add up.
THEOREM StatsAgree ==
  ASSUME NEW w, Worker = {w}, ~Faults
  PROVE  Spec => []StatsAddUp
PROOF
<1>1. Init => StatInv(w)
  <2> SUFFICES ASSUME Init PROVE StatInv(w)
    OBVIOUS
  <2>1. SerialInv(w) /\ TypeInv
    BY SerialInit, TypeStart DEF Init
  <2>2. UnusedWear /\ StatOwn(w)
    BY DEF Init, InitStore, UnusedWear, StatOwn, Idle
  <2>3. QED BY <2>1, <2>2 DEF StatInv
<1>2. StatInv(w) /\ [Next]_vars => StatInv(w)'
  <2> SUFFICES ASSUME StatInv(w), [Next]_vars PROVE StatInv(w)'
    OBVIOUS
  <2>1. CASE UNCHANGED vars
    <3>1. SerialInv(w)'
      BY <2>1 DEF vars, StatInv, SerialInv, CheckInv, RowsInv, Requests, PlanTable, Table, PlanRow, Logs,
         HoldOwn, CertTable, CertShape, CheckedOwn, Backed, At, OneCertPerPlan
    <3>2. TypeInv' /\ UnusedWear'
      BY <2>1, TypeStep DEF vars, StatInv, UnusedWear
    <3>3. StatOwn(w)'
      BY <2>1 DEF vars, StatInv, StatOwn, Statuses, UpTo, Worn, Revoked, Adds
    <3>4. QED BY <3>1, <3>2, <3>3 DEF StatInv
  <2>2. CASE Next
    BY <2>2, StatStep
  <2>3. QED BY <2>1, <2>2
<1>3. StatInv(w) => StatsAddUp
  BY DEF StatInv, StatOwn, StatsAddUp, Adds, At
<1>4. QED BY <1>1, <1>2, <1>3, PTL DEF Spec
===============================================================================
