----------------------------- MODULE PlanProofs -----------------------------
(***************************************************************************)
(* Proofs about the plan rows, for any number of overlapping requests of   *)
(* every kind: creations do not collide as long as no statement fails, a   *)
(* plan that passed and that nobody holds is settled, references           *)
(* and rejections agree with the log, and all tables keep their types.     *)
(***************************************************************************)
EXTENDS Progress, LedgerProofs, OutcomeProofs

\* The part of Create between its Lock and its Unlock.
Locked == {"create_config", "create_find", "create_row", "create_op"}

PlanTable == Table(plans, MaxPlans) /\ \A p \in DOMAIN plans : PlanRow(plans[p])
MutexOwn(w) ==
  LET r == req[w] IN
  /\ r.pc \in Locked => createMu = w
  /\ r.pc \in CreatePc \ {"create_op"} =>
       {"ops", "numbered"} \subseteq DOMAIN r /\ r.numbered \in BOOLEAN
  /\ r.pc = "create_row" => ~HashTaken(HashOps(r.ops, r.numbered)) \/ r.numbered

MutexInv == Requests /\ PlanTable /\ \A w \in Worker : MutexOwn(w)

\* The step stores no hash of operations without numbers.
Rehashed ==
  /\ DOMAIN plans' = DOMAIN plans
  /\ \A q \in DOMAIN plans : \/ plans'[q].hash = plans[q].hash
                             \/ \E ops : plans'[q].hash = HashOps(ops, TRUE)

\* It makes no hash of operations without numbers taken.
LEMMA RehashedKeeps ==
  ASSUME Rehashed, NEW ops, ~HashTaken(HashOps(ops, FALSE))
  PROVE  ~HashTaken(HashOps(ops, FALSE))'
PROOF
<1>1. \A other : HashOps(ops, FALSE) # HashOps(other, TRUE)
  BY DEF HashOps
<1>2. QED BY <1>1 DEF Rehashed, HashTaken

\* A write to one row that keeps its hash, or numbers the operations in it.
LEMMA RowRehashed ==
  ASSUME PlanTable, NEW p, NEW row, plans' = [plans EXCEPT ![p] = row],
         p \in DOMAIN plans => /\ PlanRow(row)
                               /\ row.hash = plans[p].hash \/ \E ops : row.hash = HashOps(ops, TRUE)
  PROVE  PlanTable' /\ Rehashed
  BY TableExcept, StoreAssumption DEF PlanTable, Rehashed

\* A step that leaves the plan rows alone.
LEMMA SamePlans ==
  ASSUME PlanTable, UNCHANGED plans
  PROVE  PlanTable' /\ Rehashed
  BY DEF PlanTable, Rehashed, Table, PlanRow

\* A new plan row goes after the others and touches none of them.
LEMMA CreatedRow ==
  ASSUME PlanTable, NEW w, CreateRow(w)
  PROVE  /\ PlanTable'
         /\ DOMAIN plans \subseteq DOMAIN plans' /\ \A p \in DOMAIN plans : plans'[p] = plans[p]
         /\ Len(plans) + 1 \notin DOMAIN plans
PROOF
<1>1. DOMAIN plans = 1 .. Len(plans) /\ Len(plans) \in Nat
  BY TableRows, StoreAssumption DEF PlanTable, Table
<1>2. CASE UNCHANGED plans
  BY <1>1, <1>2, SamePlans
<1>3. CASE plans' # plans
  <2>1. PICK k, hash, count, row :
          /\ k = Len(plans) /\ hash = HashOps(req[w].ops, req[w].numbered) /\ count = Len(req[w].ops)
          /\ row = [status |-> "editing", hash |-> hash, opCount |-> count, cursor |-> 0, step |-> 0]
    OBVIOUS
  <2>2. k # MaxPlans /\ plans' = Append(plans, row)
    BY <1>3, <2>1 DEF CreateRow
  <2>3. /\ Table(plans', MaxPlans) /\ DOMAIN plans = 1 .. k /\ DOMAIN plans' = 1 .. k + 1
        /\ (\A p \in DOMAIN plans : plans'[p] = plans[p]) /\ plans'[k + 1] = row /\ k \in Nat
    BY <2>1, <2>2, TableAppend, StoreAssumption DEF PlanTable, Table
  <2>4. \A p \in DOMAIN plans' : p \in DOMAIN plans \/ p = k + 1
    BY <2>3
  <2>5. PlanRow(row)
    BY <2>1 DEF PlanRow
  <2>6. QED BY <1>1, <2>3, <2>4, <2>5 DEF PlanTable
<1>4. QED BY <1>2, <1>3

\* Only Create stores such a hash.
LEMMA PlanWrites ==
  ASSUME PlanTable, NEW w \in Worker,
         \/ Appending(w) \/ Simulating(w) \/ Checkpointing(w)
         \/ Certifying(w) \/ Configuring(w) \/ Reporting(w) \/ Abort(w)
  PROVE  PlanTable' /\ Rehashed
PROOF
<1>1. CASE AppendStatus(w)
  <2>1. PICK p, row : p = req[w].plan /\ row = [plans[p] EXCEPT !.status = "editing"]
    OBVIOUS
  <2>2. plans' = [plans EXCEPT ![p] = row]
    BY <1>1, <2>1 DEF AppendStatus, SetStatus
  <2>3. p \in DOMAIN plans => PlanRow(row) /\ row.hash = plans[p].hash
    BY <2>1 DEF PlanTable, PlanRow
  <2>4. QED BY <2>2, <2>3, RowRehashed
<1>2. CASE AppendHash(w) /\ plans' # plans
  <2>1. PICK p, hash, count, half, row :
          /\ p = req[w].plan /\ hash = HashOps(req[w].all, TRUE) /\ count = Len(req[w].all)
          /\ half = [plans[p] EXCEPT !.hash = hash] /\ row = [half EXCEPT !.opCount = count]
    OBVIOUS
  <2>2. plans' = [plans EXCEPT ![p].hash = hash, ![p].opCount = count]
    BY <1>2, <2>1 DEF AppendHash
  <2>3. plans' = [plans EXCEPT ![p] = row]
    BY <2>1, <2>2
  <2>4. p \in DOMAIN plans => PlanRow(row) /\ row.hash = hash
    BY <2>1 DEF PlanTable, PlanRow
  <2>5. QED BY <2>1, <2>3, <2>4, RowRehashed
<1>3. CASE SimulateVerdict(w)
  <2>1. PICK p, end, row :
          /\ p = req[w].plan /\ end = req[w].end
          /\ row = [plans[p] EXCEPT !.status = end.status, !.cursor = end.cursor, !.step = end.step]
    OBVIOUS
  <2>2. plans' = [plans EXCEPT ![p] = row]
    BY <1>3, <2>1 DEF SimulateVerdict
  <2>3. p \in DOMAIN plans => PlanRow(row) /\ row.hash = plans[p].hash
    BY <2>1 DEF PlanTable, PlanRow
  <2>4. QED BY <2>2, <2>3, RowRehashed
<1>4. CASE IssuePublish(w)
  <2>1. PICK p, row : p = req[w].plan /\ row = [plans[p] EXCEPT !.status = "published"]
    OBVIOUS
  <2>2. plans' = [plans EXCEPT ![p] = row]
    BY <1>4, <2>1 DEF IssuePublish, SetStatus
  <2>3. p \in DOMAIN plans => PlanRow(row) /\ row.hash = plans[p].hash
    BY <2>1 DEF PlanTable, PlanRow
  <2>4. QED BY <2>2, <2>3, RowRehashed
<1>5. CASE UNCHANGED plans
  BY <1>5, SamePlans
<1>6. CASE Appending(w)
  BY <1>1, <1>2, <1>5, <1>6 DEF Appending, AppendGet, AppendCount, AppendOp, AppendList, tables
<1>7. CASE Simulating(w)
  BY <1>3, <1>5, <1>7
     DEF Simulating, SimulateGet, SimulateBlocks, SimulateOps, SimulateRun, SimulateWear, tables
<1>8. CASE Checkpointing(w)
  BY <1>5, <1>8 DEF Checkpointing, CheckpointRead, CheckpointInsert, tables
<1>9. CASE Certifying(w)
  BY <1>4, <1>5, <1>9 DEF Certifying, CertCall, CertStep, IssueGet, IssueConfig, IssueInsert,
     RevokeGet, RevokeWrite, tables
<1>10. CASE Configuring(w)
  BY <1>5, <1>10 DEF Configuring, ConfigCall, ConfigStep, ConfigCreate, ConfigBlocks, MarkBadGet,
     MarkBadRead, MarkBadWrite, ReserveGet, ReserveRead, ReserveWrite, FreezeGet, FreezePromote,
     FreezeWrite, tables
<1>11. CASE Reporting(w)
  BY <1>5, <1>11 DEF Reporting, ReportCall, ReportStep, CollectPlans, CollectWear, CollectCerts,
     CollectBlocks, RecoverOps, RecoverLatest, Answer, tables
<1>12. CASE Abort(w)
  BY <1>5, <1>12 DEF Abort, tables
<1>13. QED BY <1>6, <1>7, <1>8, <1>9, <1>10, <1>11, <1>12

\* What a step beside Create does to the requests and the mutex.
LEMMA BesideKeeps ==
  ASSUME MutexInv, NEW w \in Worker,
         \/ Appending(w) \/ Simulating(w) \/ Checkpointing(w)
         \/ Certifying(w) \/ Configuring(w) \/ Reporting(w) \/ Abort(w)
  PROVE  MutexInv'
PROOF
<1>1. /\ Moves(w, AppendPc \cup SimulatePc \cup CheckpointPc \cup CertPc \cup ConfigPc
                    \cup ReportPc \cup {"idle"})
      /\ createMu' = createMu \/ createMu = w
  BY AppendMoves, SimulateMoves, CheckpointMoves, CertMoves, ConfigMoves, ReportMoves, AbortMoves
     DEF MutexInv, Moves, Abort
<1>2. PlanTable' /\ Rehashed
  BY PlanWrites DEF MutexInv
<1>3. req'[w].pc \notin CreatePc /\ Requests' /\ Only(w)
  BY <1>1 DEF Moves, CreatePc, AppendPc, SimulatePc, CheckpointPc, CertPc, ConfigPc, ReportPc
<1>4. ASSUME NEW v \in Worker \ {w} PROVE MutexOwn(v)'
  <2>1. PICK r : r = req[v] /\ r = req'[v]
    BY <1>3 DEF Only
  <2>2. MutexOwn(v)
    BY DEF MutexInv
  <2>3. r.pc \in Locked => createMu' = v
    BY <1>1, <2>1, <2>2 DEF MutexOwn
  <2>4. r.pc = "create_row" => ~HashTaken(HashOps(r.ops, r.numbered))' \/ r.numbered
    <3>1. ASSUME r.pc = "create_row", ~r.numbered PROVE ~HashTaken(HashOps(r.ops, r.numbered))'
      <4>1. r.numbered = FALSE /\ ~HashTaken(HashOps(r.ops, FALSE))
        BY <2>1, <2>2, <3>1 DEF MutexOwn, CreatePc
      <4>2. QED BY <1>2, <4>1, RehashedKeeps
    <3>2. QED BY <3>1
  <2>5. QED BY <2>1, <2>2, <2>3, <2>4 DEF MutexOwn
<1>5. MutexOwn(w)'
  BY <1>3 DEF MutexOwn, CreatePc, Locked
<1>6. QED BY <1>2, <1>3, <1>4, <1>5 DEF MutexInv

\* The holder's steps: nobody else is between Lock and Unlock.
LEMMA HolderKeeps ==
  ASSUME MutexInv, NEW w \in Worker, Requests', Only(w), PlanTable', MutexOwn(w)',
         \A v \in Worker \ {w} : req[v].pc \notin Locked
  PROVE  MutexInv'
PROOF
<1>1. ASSUME NEW v \in Worker \ {w} PROVE MutexOwn(v)'
  <2>1. PICK r : r = req[v] /\ r = req'[v]
    BY DEF Only
  <2>2. r.pc \notin Locked /\ MutexOwn(v)
    BY <2>1 DEF MutexInv
  <2>3. r.pc # "create_row"
    BY <2>2 DEF Locked
  <2>4. QED BY <2>1, <2>2, <2>3 DEF MutexOwn
<1>2. QED BY <1>1 DEF MutexInv

\* Create's own steps: the mutex is held from the lookup to the insert.
LEMMA CreateMutex ==
  ASSUME ~Faults, MutexInv, NEW w \in Worker, Creating(w)
  PROVE  MutexInv'
PROOF
<1> USE DEF MutexInv
<1>1. PICK r, hash : r = req[w] /\ hash = HashOps(r.ops, r.numbered)
  OBVIOUS
<1>2. r.pc \in Locked => \A v \in Worker \ {w} : req[v].pc \notin Locked
  BY <1>1 DEF MutexOwn
<1>3. ASSUME NEW ops, NEW numbered \in Numbering, CreateCall(w, ops, numbered) PROVE MutexInv'
  <2>1. /\ Requests' /\ Only(w) /\ UNCHANGED <<plans, createMu>>
        /\ req'[w] = [pc |-> "create_lock", ops |-> ops, numbered |-> numbered]
    BY <1>3, BecomeOwn DEF CreateCall, Record, tables
  <2>2. numbered \in BOOLEAN
    BY StoreAssumption
  <2>3. MutexOwn(w)'
    BY <2>1, <2>2 DEF MutexOwn, Locked, CreatePc
  <2>4. PlanTable'
    BY <2>1, SamePlans
  <2>5. \A v \in Worker \ {w} : MutexOwn(v)'
    BY <2>1 DEF Only, MutexOwn, HashTaken
  <2>6. QED BY <2>1, <2>3, <2>4, <2>5
<1>4. CASE CreateLock(w)
  <2>1. \A v \in Worker \ {w} : req[v].pc \notin Locked
    BY <1>4, StoreAssumption DEF CreateLock, MutexOwn
  <2>2. {"ops", "numbered"} \subseteq DOMAIN r /\ r.numbered \in BOOLEAN
    BY <1>1, <1>4 DEF CreateLock, At, MutexOwn, CreatePc
  <2>3. /\ Requests' /\ Only(w) /\ req'[w].pc = "create_config" /\ DOMAIN req'[w] = DOMAIN r
        /\ req'[w].numbered = r.numbered /\ createMu' = w /\ UNCHANGED plans
    BY <1>1, <1>4, <2>2, AdvanceOwn DEF CreateLock, tables
  <2>4. MutexOwn(w)'
    BY <2>2, <2>3 DEF MutexOwn, CreatePc
  <2>5. QED BY <2>1, <2>3, <2>4, SamePlans, HolderKeeps
<1>5. CASE CreateConfig(w) \/ CreateFind(w)
  <2>1. /\ r.pc \in {"create_config", "create_find"} /\ createMu = w
        /\ {"ops", "numbered"} \subseteq DOMAIN r /\ r.numbered \in BOOLEAN
    BY <1>1, <1>5 DEF CreateConfig, CreateFind, At, MutexOwn, CreatePc, Locked
  <2>2. /\ Requests' /\ Only(w) /\ UNCHANGED plans
        /\ \/ req'[w].pc = "idle"
           \/ /\ DOMAIN req'[w] = DOMAIN r /\ createMu' = w
              /\ req'[w].ops = r.ops /\ req'[w].numbered = r.numbered
              /\ \/ req'[w].pc = "create_find"
                 \/ req'[w].pc = "create_row" /\ ~HashTaken(hash)
    <3>1. CASE CreateConfig(w)
      BY <1>1, <2>1, <3>1, AdvanceOwn, DoneOwn DEF CreateConfig, CreateReturn, tables
    <3>2. CASE CreateFind(w)
      BY <1>1, <2>1, <3>2, AdvanceOwn, DoneOwn DEF CreateFind, CreateReturn, tables
    <3>3. QED BY <1>5, <3>1, <3>2
  <2>3. MutexOwn(w)'
    BY <1>1, <2>1, <2>2 DEF MutexOwn, CreatePc, Locked, HashTaken
  <2>4. \A v \in Worker \ {w} : req[v].pc \notin Locked
    BY <1>2, <2>1 DEF Locked
  <2>5. QED BY <2>2, <2>3, <2>4, SamePlans, HolderKeeps
<1>6. CASE CreateRow(w)
  <2>1. r.pc = "create_row" /\ createMu = w
    BY <1>1, <1>6 DEF CreateRow, At, MutexOwn, Locked
  <2>2. /\ Requests' /\ Only(w)
        /\ \/ req'[w].pc = "idle"
           \/ req'[w].pc = "create_op" /\ createMu' = w
    BY <2>1, <1>6, BecomeOwn, DoneOwn DEF CreateRow, CreateReturn, Record
  <2>3. MutexOwn(w)'
    BY <2>2 DEF MutexOwn, CreatePc, Locked
  <2>4. PlanTable'
    BY <1>6, CreatedRow
  <2>5. \A v \in Worker \ {w} : req[v].pc \notin Locked
    BY <1>2, <2>1 DEF Locked
  <2>6. QED BY <2>2, <2>3, <2>4, <2>5, HolderKeeps
<1>7. CASE CreateOp(w)
  <2>1. r.pc = "create_op" /\ createMu = w
    BY <1>1, <1>7 DEF CreateOp, At, MutexOwn, Locked
  <2>2. /\ Requests' /\ Only(w) /\ UNCHANGED plans
        /\ \/ req'[w].pc = "idle"
           \/ req'[w].pc = "create_op" /\ createMu' = w
    BY <1>1, <2>1, <1>7, BecomeOwn, DoneOwn DEF CreateOp, CreateReturn, Requests, Record
  <2>3. MutexOwn(w)'
    BY <2>2 DEF MutexOwn, CreatePc, Locked
  <2>4. \A v \in Worker \ {w} : req[v].pc \notin Locked
    BY <1>2, <2>1 DEF Locked
  <2>5. QED BY <2>2, <2>3, <2>4, SamePlans, HolderKeeps
<1>8. QED BY <1>3, <1>4, <1>5, <1>6, <1>7 DEF Creating

\* Two creations with the same operations never both reach the insert: without
\* failing statements the later one finds the plan of the earlier.
THEOREM CreationsExclude == ~Faults => (Spec => []CreateNeverCollides)
PROOF
<1> SUFFICES ASSUME ~Faults PROVE Spec => []CreateNeverCollides
  OBVIOUS
<1>1. Init => MutexInv
  <2> SUFFICES ASSUME Init PROVE MutexInv
    OBVIOUS
  <2>1. Requests /\ \A w \in Worker : MutexOwn(w)
    BY RequestsInit DEF Init, InitStore, Idle, MutexOwn, Locked, CreatePc
  <2>2. plans = << >> /\ DOMAIN plans = {} /\ Len(plans) = 0
    BY DEF Init, InitStore
  <2>3. PlanTable
    BY <2>2, StoreAssumption DEF PlanTable, Table
  <2>4. QED BY <2>1, <2>3 DEF MutexInv
<1>2. MutexInv /\ [Next]_vars => MutexInv'
  <2> SUFFICES ASSUME MutexInv, [Next]_vars PROVE MutexInv'
    OBVIOUS
  <2>1. CASE Next
    BY <2>1, StepCases, BesideKeeps, CreateMutex
  <2>2. CASE UNCHANGED vars
    BY <2>2 DEF vars, MutexInv, Requests, PlanTable, Table, PlanRow, MutexOwn, HashTaken
  <2>3. QED BY <2>1, <2>2
<1>3. MutexInv => CreateNeverCollides
  <2> SUFFICES ASSUME MutexInv, NEW w \in Worker, At(w, "create_row"), ~req[w].numbered
               PROVE  ~HashTaken(HashOps(req[w].ops, FALSE))
    BY DEF CreateNeverCollides
  <2>1. req[w].numbered = FALSE
    BY DEF MutexInv, MutexOwn, At, CreatePc
  <2>2. QED BY <2>1 DEF MutexInv, MutexOwn, At
<1>4. QED BY <1>1, <1>2, <1>3, PTL DEF Spec
-----------------------------------------------------------------------------
\* A request that holds a plan says which.
HoldOwn(w) == req[w].pc \in Holding => "plan" \in DOMAIN req[w]
RowsInv ==
  /\ Requests /\ PlanTable /\ Logs
  /\ wear = [p \in Plan |-> wear[p]]
  /\ \A w \in Worker : HoldOwn(w)

Passed(p)    == p \in DOMAIN plans /\ plans[p].status \in {"publishable", "published"}
Clear(w, p)  == req[w].pc \in Holding => req[w].plan # p

\* The row is as before, or has become that of a published plan.
SameRow(p) ==
  p \in DOMAIN plans' /\ plans'[p] \in {plans[p], [plans[p] EXCEPT !.status = "published"]}

\* The step takes no plan in hand that passed and, of those it does not hold,
\* writes none but to publish it.
Spares(w) ==
  \A p \in Plan : Passed(p) /\ Clear(w, p) =>
    Clear(w, p)' /\ SameRow(p) /\ planOps'[p] = planOps[p] /\ wear'[p] = wear[p]
Sparing(w) == Spares(w) /\ HoldOwn(w)' /\ Only(w) /\ Logs' /\ wear' = [p \in Plan |-> wear'[p]]

\* A write to one row spares the others.
LEMMA OtherRows ==
  ASSUME RowsInv, NEW q, NEW row, plans' = [plans EXCEPT ![q] = row]
  PROVE  /\ DOMAIN plans' = DOMAIN plans
         /\ \A p \in DOMAIN plans \ {q} : plans'[p] = plans[p]
  BY TableExcept, StoreAssumption DEF RowsInv, PlanTable

\* Create touches only the plan it has made.
LEMMA CreateSpares ==
  ASSUME RowsInv, NEW w \in Worker, Creating(w)
  PROVE  Sparing(w)
PROOF
<1> USE DEF RowsInv
<1>1. UNCHANGED wear
  BY CreateMoves
<1>2. ASSUME NEW ops, NEW numbered, CreateCall(w, ops, numbered) PROVE Sparing(w)
  BY <1>2, BecomeOwn
     DEF CreateCall, Record, Sparing, Spares, SameRow, HoldOwn, Clear, Passed, Holding, Logs, tables
<1>3. CASE CreateLock(w) \/ CreateConfig(w) \/ CreateFind(w)
  BY <1>3, AdvanceOwn, DoneOwn
     DEF CreateLock, CreateConfig, CreateFind, CreateReturn, Sparing, Spares, SameRow, HoldOwn,
         Clear, Passed, Holding, Logs, tables
<1>4. CASE CreateRow(w)
  <2>1. PICK k, ops : k = Len(plans) + 1 /\ ops = req[w].ops
    OBVIOUS
  <2>2. /\ Only(w) /\ UNCHANGED <<planOps, wear>>
        /\ \/ req'[w].pc = "idle"
           \/ req'[w] = [pc |-> "create_op", plan |-> k, ops |-> ops, done |-> 0]
    BY <1>4, <2>1, BecomeOwn, DoneOwn DEF CreateRow, CreateReturn, Record
  <2>3. /\ \A p \in DOMAIN plans : plans'[p] = plans[p] /\ p \in DOMAIN plans'
        /\ k \notin DOMAIN plans
    BY <1>4, <2>1, CreatedRow
  <2>4. QED BY <2>2, <2>3 DEF Sparing, Spares, SameRow, HoldOwn, Clear, Passed, Holding, Logs
<1>5. CASE CreateOp(w)
  <2>1. PICK q, s, op : q = req[w].plan /\ s = req[w].done + 1 /\ op = req[w].ops[s]
    OBVIOUS
  <2>2. req[w].pc \in Holding /\ "plan" \in DOMAIN req[w]
    BY <1>5 DEF CreateOp, At, HoldOwn, Holding
  <2>3. UNCHANGED <<plans, wear>> /\ (UNCHANGED planOps \/ InsertOp(q, s, op))
    BY <1>5, <2>1 DEF CreateOp
  <2>4. Logs' /\ \A p \in Plan \ {q} : planOps'[p] = planOps[p]
    BY <2>3 DEF Logs, InsertOp
  <2>5. Only(w) /\ (req'[w].pc = "idle" \/ (req'[w].plan = q /\ "plan" \in DOMAIN req'[w]))
    BY <1>5, <2>1, <2>2, BecomeOwn, DoneOwn DEF CreateOp, CreateReturn, Requests, Record
  <2>6. QED BY <2>1, <2>2, <2>3, <2>4, <2>5
        DEF Sparing, Spares, SameRow, HoldOwn, Clear, Passed, Holding
<1>6. QED BY <1>2, <1>3, <1>4, <1>5 DEF Creating

\* AppendOps takes a plan that is edited and writes no other.
LEMMA AppendSpares ==
  ASSUME RowsInv, NEW w \in Worker, Appending(w)
  PROVE  Sparing(w)
PROOF
<1> USE DEF RowsInv
<1>1. UNCHANGED wear
  BY AppendMoves
<1>2. PICK r, q : r = req[w] /\ q = r.plan
  OBVIOUS
<1>3. ASSUME NEW p, NEW ops, AppendGet(w, p, ops) PROVE Sparing(w)
  <2>1. /\ Only(w) /\ UNCHANGED <<plans, planOps>> /\ plans[p].status = "editing"
        /\ req'[w] = [pc |-> "append_count", plan |-> p, ops |-> ops]
    BY <1>3, BecomeOwn DEF AppendGet, Record, tables
  <2>2. QED BY <1>1, <2>1 DEF Sparing, Spares, SameRow, HoldOwn, Clear, Passed, Holding, Logs
<1>4. CASE AppendCount(w) \/ AppendList(w)
  <2>1. r.pc \in Holding
    BY <1>2, <1>4 DEF AppendCount, AppendList, At, Holding
  <2>2. /\ Only(w) /\ UNCHANGED <<plans, planOps>>
        /\ req'[w].pc = "idle" \/ ("plan" \in DOMAIN req'[w] /\ req'[w].plan = q)
    <3>1. CASE AppendCount(w)
      BY <1>2, <3>1, BecomeOwn, DoneOwn DEF AppendCount, Record, tables
    <3>2. CASE AppendList(w)
      BY <1>2, <3>2, BecomeOwn DEF AppendList, Record, tables
    <3>3. QED BY <1>4, <3>1, <3>2
  <2>3. QED BY <1>1, <1>2, <2>1, <2>2
        DEF Sparing, Spares, SameRow, HoldOwn, Clear, Passed, Holding, Logs
<1>5. CASE AppendOp(w)
  <2>1. r.pc \in Holding /\ "plan" \in DOMAIN r
    BY <1>2, <1>5 DEF AppendOp, At, HoldOwn, Holding
  <2>2. PICK i, s, op : i = r.done + 1 /\ s = r.start + i /\ op = r.ops[i]
    OBVIOUS
  <2>3. UNCHANGED plans /\ (UNCHANGED planOps \/ InsertOp(q, s, op))
    BY <1>2, <1>5, <2>2 DEF AppendOp
  <2>4. Logs' /\ \A p \in Plan \ {q} : planOps'[p] = planOps[p]
    BY <2>3 DEF Logs, InsertOp
  <2>5. /\ Only(w)
        /\ req'[w].pc = "idle" \/ ("plan" \in DOMAIN req'[w] /\ req'[w].plan = q)
    BY <1>2, <1>5, <2>1, AdvanceOwn, BecomeOwn, DoneOwn DEF AppendOp, Requests, Record
  <2>6. QED BY <1>1, <1>2, <2>1, <2>3, <2>4, <2>5
        DEF Sparing, Spares, SameRow, HoldOwn, Clear, Passed, Holding
<1>6. CASE AppendStatus(w) \/ AppendHash(w)
  <2>1. r.pc \in Holding /\ "plan" \in DOMAIN r
    BY <1>2, <1>6 DEF AppendStatus, AppendHash, At, HoldOwn, Holding
  <2>2. /\ Only(w) /\ UNCHANGED planOps
        /\ req'[w].pc = "idle" \/ ("plan" \in DOMAIN req'[w] /\ req'[w].plan = q)
    BY <1>2, <1>6, <2>1, AdvanceOwn, DoneOwn DEF AppendStatus, AppendHash
  <2>3. UNCHANGED plans \/ \E row : plans' = [plans EXCEPT ![q] = row]
    BY <1>2, <1>6 DEF AppendStatus, AppendHash, SetStatus
  <2>4. \A p \in DOMAIN plans \ {q} : p \in DOMAIN plans' /\ plans'[p] = plans[p]
    BY <2>3, OtherRows
  <2>5. QED BY <1>1, <1>2, <2>1, <2>2, <2>4
        DEF Sparing, Spares, SameRow, HoldOwn, Clear, Passed, Holding, Logs
<1>7. QED BY <1>3, <1>4, <1>5, <1>6 DEF Appending

\* Simulate takes one that has not passed and writes no other.
LEMMA SimulateSpares ==
  ASSUME RowsInv, NEW w \in Worker, Simulating(w)
  PROVE  Sparing(w)
PROOF
<1> USE DEF RowsInv
<1>1. UNCHANGED planOps
  BY SimulateMoves
<1>2. PICK r, q : r = req[w] /\ q = r.plan
  OBVIOUS
<1>3. ASSUME NEW p, SimulateGet(w, p) PROVE Sparing(w)
  <2>1. /\ Only(w) /\ UNCHANGED <<plans, wear>> /\ plans[p].status \notin {"publishable", "published"}
        /\ req'[w] = [pc |-> "sim_blocks", plan |-> p]
    BY <1>3, BecomeOwn DEF SimulateGet, Record, tables
  <2>2. QED BY <1>1, <2>1 DEF Sparing, Spares, SameRow, HoldOwn, Clear, Passed, Holding, Logs
<1>4. ASSUME SimulateBlocks(w) \/ SimulateOps(w) \/ SimulateRun(w) \/ SimulateWear(w)
             \/ SimulateVerdict(w)
      PROVE  Sparing(w)
  <2>1. r.pc \in Holding /\ "plan" \in DOMAIN r
    BY <1>2, <1>4 DEF SimulateBlocks, SimulateOps, SimulateRun, SimulateWear, SimulateVerdict, At,
       HoldOwn, Holding
  <2>2. /\ Only(w)
        /\ req'[w].pc = "idle" \/ ("plan" \in DOMAIN req'[w] /\ req'[w].plan = q)
    <3>1. CASE SimulateBlocks(w)
      BY <1>2, <3>1, BecomeOwn DEF SimulateBlocks, Record
    <3>2. CASE SimulateOps(w)
      BY <1>2, <3>2, BecomeOwn DEF SimulateOps, Record
    <3>3. CASE SimulateRun(w)
      BY <1>2, <3>3, BecomeOwn, DoneOwn DEF SimulateRun, Record
    <3>4. CASE SimulateWear(w)
      BY <1>2, <2>1, <3>4, AdvanceOwn DEF SimulateWear
    <3>5. CASE SimulateVerdict(w)
      BY <3>5, DoneOwn DEF SimulateVerdict
    <3>6. QED BY <1>4, <3>1, <3>2, <3>3, <3>4, <3>5
  <2>3. /\ UNCHANGED plans \/ \E row : plans' = [plans EXCEPT ![q] = row]
        /\ UNCHANGED wear \/ \E curve : wear' = [wear EXCEPT ![q] = curve]
    BY <1>2, <1>4 DEF SimulateBlocks, SimulateOps, SimulateRun, SimulateWear, SimulateVerdict, tables
  <2>4. /\ \A p \in DOMAIN plans \ {q} : p \in DOMAIN plans' /\ plans'[p] = plans[p]
        /\ \A p \in Plan \ {q} : wear'[p] = wear[p]
        /\ wear' = [p \in Plan |-> wear'[p]]
    BY <2>3, OtherRows
  <2>5. QED BY <1>1, <1>2, <2>1, <2>2, <2>4
        DEF Sparing, Spares, SameRow, HoldOwn, Clear, Passed, Holding, Logs
<1>5. QED BY <1>3, <1>4 DEF Simulating

\* Issue writes the status of one row.
LEMMA PublishSpares ==
  ASSUME RowsInv, NEW w \in Worker, IssuePublish(w)
  PROVE  \A p \in Plan : Passed(p) => SameRow(p)
PROOF
<1> USE DEF RowsInv
<1>1. PICK q, row : q = req[w].plan /\ row = [plans[q] EXCEPT !.status = "published"]
  OBVIOUS
<1>2. plans' = [plans EXCEPT ![q] = row]
  BY <1>1 DEF IssuePublish, SetStatus
<1>3. /\ DOMAIN plans' = DOMAIN plans
      /\ \A p \in DOMAIN plans : plans'[p] = IF p = q THEN row ELSE plans[p]
  BY <1>2, TableExcept, StoreAssumption DEF PlanTable
<1>4. QED BY <1>1, <1>3 DEF Passed, SameRow

\* The requests that hold no plan.
LEMMA OthersSpare ==
  ASSUME RowsInv, NEW w \in Worker,
         Checkpointing(w) \/ Certifying(w) \/ Configuring(w) \/ Reporting(w) \/ Abort(w)
  PROVE  Sparing(w)
PROOF
<1> USE DEF RowsInv
<1>1. Only(w) /\ req'[w].pc \notin Holding /\ UNCHANGED <<planOps, wear>>
  BY CheckpointMoves, CertMoves, ConfigMoves, ReportMoves, AbortMoves
     DEF Moves, CheckpointPc, CertPc, ConfigPc, ReportPc, Holding, tables
<1>2. UNCHANGED plans \/ IssuePublish(w)
  <2>1. CASE Certifying(w)
    BY <2>1 DEF Certifying, CertCall, CertStep, IssueGet, IssueConfig, IssueInsert, RevokeGet,
       RevokeWrite, tables
  <2>2. QED BY <2>1, CheckpointMoves, ConfigMoves, ReportMoves, AbortMoves DEF tables
<1>3. \A p \in Plan : Passed(p) => SameRow(p)
  BY <1>2, PublishSpares DEF Passed, SameRow
<1>4. QED BY <1>1, <1>3 DEF Sparing, Spares, HoldOwn, Clear, Holding, Logs

\* Every step keeps the rows and spares every plan that is final.
LEMMA RowsStep ==
  ASSUME RowsInv, Next
  PROVE  RowsInv' /\ \E w \in Worker : Sparing(w)
PROOF
<1>1. PICK w \in Worker :
        \/ Creating(w) \/ Appending(w) \/ Simulating(w) \/ Checkpointing(w)
        \/ Certifying(w) \/ Configuring(w) \/ Reporting(w) \/ Abort(w)
  BY StepCases
<1>2. Sparing(w)
  BY <1>1, CreateSpares, AppendSpares, SimulateSpares, OthersSpare
<1>3. PlanTable'
  <2>1. CASE Creating(w)
    <3>1. UNCHANGED plans \/ CreateRow(w)
      BY <2>1 DEF Creating, CreateCall, CreateLock, CreateConfig, CreateFind, CreateOp, tables
    <3>2. QED BY <3>1, CreatedRow, SamePlans DEF RowsInv
  <2>2. QED BY <1>1, <2>1, PlanWrites DEF RowsInv
<1>4. Requests'
  BY <1>1, CreateMoves, AppendMoves, SimulateMoves, CheckpointMoves, CertMoves, ConfigMoves,
     ReportMoves, AbortMoves DEF RowsInv, Moves
<1>5. \A v \in Worker : HoldOwn(v)'
  BY <1>2 DEF RowsInv, Sparing, HoldOwn, Only
<1>6. QED BY <1>2, <1>3, <1>4, <1>5 DEF RowsInv, Sparing

\* At first there are no rows and nobody holds one.
LEMMA RowsStart == InitStore => RowsInv
PROOF
<1> SUFFICES ASSUME InitStore PROVE RowsInv
  OBVIOUS
<1>1. plans = << >> /\ DOMAIN plans = {} /\ Len(plans) = 0
  BY DEF InitStore
<1>2. PlanTable
  BY <1>1, StoreAssumption DEF PlanTable, Table
<1>3. QED BY <1>2, RequestsInit DEF InitStore, RowsInv, Logs, HoldOwn, Holding, Idle

\* A plan that passed and that no append or simulation holds keeps its operations,
\* its wear curve and its row but for being published, whatever arrives,
\* interleaves or fails later.
THEOREM PassedIsSettled == (Spec => PassedSettles) /\ (SpecFrozen => PassedSettles)
PROOF
<1>1. (Init => RowsInv) /\ (InitFrozen => RowsInv)
  BY RowsStart DEF Init, InitFrozen
<1> DEFINE Stays == \A p \in Plan : Final(p) =>
              /\ Final(p)'
              /\ plans'[p] \in {plans[p], [plans[p] EXCEPT !.status = "published"]}
              /\ planOps'[p] = planOps[p] /\ wear'[p] = wear[p]
<1>2. RowsInv /\ [Next]_vars => RowsInv' /\ Stays
  <2> SUFFICES ASSUME RowsInv, [Next]_vars PROVE RowsInv' /\ Stays
    OBVIOUS
  <2>1. CASE UNCHANGED vars
    BY <2>1 DEF vars, RowsInv, Requests, PlanTable, Table, PlanRow, Logs, HoldOwn, Final, Exists
  <2>2. CASE Next
    <3>1. PICK w \in Worker : Sparing(w)
      BY <2>2, RowsStep
    <3>2. ASSUME NEW p \in Plan, Final(p)
          PROVE  /\ Final(p)' /\ planOps'[p] = planOps[p] /\ wear'[p] = wear[p]
                 /\ plans'[p] \in {plans[p], [plans[p] EXCEPT !.status = "published"]}
      <4>1. Passed(p) /\ \A v \in Worker : Clear(v, p)
        BY <3>2 DEF Final, Exists, Passed, Clear
      <4>2. Clear(w, p)' /\ SameRow(p) /\ planOps'[p] = planOps[p] /\ wear'[p] = wear[p]
        BY <3>1, <4>1 DEF Sparing, Spares
      <4>3. \A v \in Worker : Clear(v, p)'
        BY <3>1, <4>1, <4>2 DEF Sparing, Only, Clear
      <4>4. p \in DOMAIN plans' /\ plans'[p].status \in {"publishable", "published"}
        <5>1. plans[p] = [plans[p] EXCEPT !.status = plans[p].status] /\ "status" \in DOMAIN plans[p]
          BY <4>1 DEF RowsInv, PlanTable, PlanRow, Passed
        <5>2. QED BY <4>1, <4>2, <5>1 DEF SameRow, Passed
      <4>5. QED BY <4>2, <4>3, <4>4 DEF SameRow, Final, Exists, Clear
    <3>3. QED BY <2>2, <3>2, RowsStep
  <2>3. QED BY <2>1, <2>2
<1>3. QED BY <1>1, <1>2, PTL DEF Spec, SpecFrozen, PassedSettles
------------------------------------------------------------------------------
\* A verdict that lies in the log it is about.
JudgedOn(log, v) ==
  /\ v.cursor \in 0 .. Len(log) /\ v.step \in 0 .. Len(log)
  /\ v.status = "recovery_incomplete" => First(Unguarded(log)) = {v.step}
JudgedInv == \A p \in Plan : JudgedOn(planOps[p], Verdicts[p])

\* It still does when the log has grown.
LEMMA JudgedLonger ==
  ASSUME NEW S, NEW more \in Seq(S), NEW n \in 0 .. Len(more), NEW v, JudgedOn(SubSeq(more, 1, n), v)
  PROVE  JudgedOn(more, v)
PROOF
<1>1. PICK log : log = SubSeq(more, 1, n)
  OBVIOUS
<1>2. Len(more) \in Nat /\ DOMAIN more = 1 .. Len(more)
  BY LenProperties
<1>3. /\ Len(log) = n /\ DOMAIN log = 1 .. n /\ n <= Len(more)
      /\ \A i \in 1 .. n : log[i] = more[i]
  BY <1>1, <1>2
<1>4. ASSUME First(Unguarded(log)) = {v.step}
      PROVE  First(Unguarded(more)) = {v.step}
  <2>1. PICK f \in Unguarded(log) : f = v.step /\ \A j \in Unguarded(log) : f <= j
    BY <1>4 DEF First
  <2>2. f \in Unguarded(more)
    BY <1>2, <1>3, <2>1 DEF Unguarded
  <2>3. \A j \in Unguarded(more) : j <= f => j \in Unguarded(log)
    BY <1>2, <1>3, <2>1 DEF Unguarded
  <2>4. Unguarded(more) \subseteq Int /\ f \in Int
    BY <1>2, <1>3 DEF Unguarded
  <2>5. QED BY <2>1, <2>2, <2>3, <2>4 DEF First
<1>5. QED BY <1>1, <1>2, <1>3, <1>4 DEF JudgedOn

\* So does one that some prefix of the log and some checkpoints lead to.
LEMMA JudgedEnd ==
  ASSUME LedgerInv, NEW p \in Plan, NEW end \in CanEnd(p), end.status # "error"
  PROVE  JudgedOn(planOps[p], end)
PROOF
<1>1. PICK n \in 0 .. Len(planOps[p]), cursors \in SUBSET checkpoints[p] :
        end = Outcome(SubSeq(planOps[p], 1, n), cursors, blocks)
  BY DEF CanEnd
<1>2. PICK log, m, part : log = planOps[p] /\ m = Len(log) /\ part = SubSeq(log, 1, n)
  OBVIOUS
<1>3. log \in Seq(Operation) /\ m \in Nat /\ part \in Seq(Operation) /\ cursors \subseteq 1 .. m
  BY <1>1, <1>2 DEF LedgerInv, Recorded
<1>4. end = Outcome(part, cursors, blocks)
  BY <1>1, <1>2
<1>5. JudgedOn(part, end)
  BY <1>3, <1>4, OutcomeInLog DEF JudgedOn
<1>6. QED BY <1>2, <1>3, <1>5, JudgedLonger

\* Every step of the ledger leaves verdicts that lie in their logs.
LEMMA JudgedStep ==
  ASSUME LedgerInv, LedgerAllows, JudgedInv
  PROVE  JudgedInv'
PROOF
<1>1. /\ planOps = [p \in Plan |-> planOps[p]]
      /\ \A p \in Plan : planOps[p] \in Seq(Operation) /\ checkpoints[p] \subseteq 1 .. Len(planOps[p])
  BY DEF LedgerInv, LogInv, Logs, Recorded
<1>2. CASE UNCHANGED Ledger!lvars
  BY <1>2 DEF Ledger!lvars, JudgedInv, JudgedOn, Verdicts
<1>3. ASSUME NEW p \in Plan, Ledger!Grow(p)
      PROVE  JudgedInv'
  <2>1. PICK op \in Operation : planOps' = [planOps EXCEPT ![p] = Append(@, op)]
    BY <1>3 DEF Ledger!Grow
  <2>2. Verdicts' = Verdicts
    BY <1>3 DEF Ledger!Grow, Verdicts
  <2>3. ASSUME NEW q \in Plan PROVE JudgedOn(planOps'[q], Verdicts[q])
    <3>1. CASE q = p
      <4>1. planOps'[p] = Append(planOps[p], op)
        BY <1>1, <2>1
      <4>2. PICK log, n, more : log = planOps[p] /\ n = Len(log) /\ more = Append(log, op)
        OBVIOUS
      <4>3. more \in Seq(Operation) /\ n \in 0 .. Len(more) /\ SubSeq(more, 1, n) = log
        BY <1>1, <4>2
      <4>4. JudgedOn(SubSeq(more, 1, n), Verdicts[p])
        BY <4>2, <4>3 DEF JudgedInv
      <4>5. JudgedOn(more, Verdicts[p])
        BY <4>3, <4>4, JudgedLonger
      <4>6. QED BY <3>1, <4>1, <4>2, <4>5
    <3>2. CASE q # p
      BY <1>1, <2>1, <3>2 DEF JudgedInv
    <3>3. QED BY <3>1, <3>2
  <2>4. QED BY <2>2, <2>3 DEF JudgedInv
<1>4. ASSUME NEW p \in Plan, Ledger!Mark(p)
      PROVE  JudgedInv'
  <2>1. planOps' = planOps /\ Verdicts' = Verdicts
    BY <1>4 DEF Ledger!Mark, Verdicts
  <2>2. QED BY <2>1 DEF JudgedInv
<1>5. ASSUME NEW p \in Plan, Ledger!Judge(p)
      PROVE  JudgedInv'
  <2>1. PICK end \in Ledger!Reachable(p) :
          end.status # "error" /\ Verdicts' = [Verdicts EXCEPT ![p] = Ledger!Judgement(end)]
    BY <1>5 DEF Ledger!Judge, Verdicts
  <2>2. UNCHANGED planOps
    BY <1>5 DEF Ledger!Judge
  <2>3. end \in CanEnd(p)
    BY DEF Ledger!Reachable, CanEnd
  <2>4. Verdicts'[p] = [status |-> end.status, cursor |-> end.cursor, step |-> end.step]
    BY <2>1 DEF Verdicts, Ledger!Judgement
  <2>5. JudgedOn(planOps[p], end)
    BY <2>1, <2>3, JudgedEnd
  <2>6. JudgedOn(planOps[p], Verdicts'[p])
    BY <2>4, <2>5 DEF JudgedOn
  <2>7. \A q \in Plan \ {p} : Verdicts'[q] = Verdicts[q]
    BY <2>1 DEF Verdicts
  <2>8. QED BY <2>2, <2>6, <2>7 DEF JudgedInv
<1>6. ASSUME NEW p \in Plan, Ledger!Reopen(p) \/ Ledger!Certify(p) \/ Ledger!Publish(p)
      PROVE  JudgedInv'
  <2>1. /\ UNCHANGED planOps
        /\ \/ Verdicts' = Verdicts
           \/ \E s \in {"editing", "published"} : Verdicts' = [Verdicts EXCEPT ![p].status = s]
    BY <1>6 DEF Ledger!Reopen, Ledger!Certify, Ledger!Publish, Verdicts
  <2>2. \A q \in Plan : /\ Verdicts'[q].cursor = Verdicts[q].cursor
                        /\ Verdicts'[q].step = Verdicts[q].step
                        /\ \/ Verdicts'[q].status = Verdicts[q].status
                           \/ Verdicts'[q].status # "recovery_incomplete"
    <3>1. PICK old, new : old = Verdicts /\ new = Verdicts'
      OBVIOUS
    <3>2. /\ old = [q \in Plan |-> old[q]]
          /\ \A q \in Plan : old[q] = [status |-> old[q].status, cursor |-> old[q].cursor,
                                       step |-> old[q].step]
      BY <3>1 DEF Verdicts
    <3>3. new = old \/ \E s \in {"editing", "published"} : new = [old EXCEPT ![p].status = s]
      BY <2>1, <3>1
    <3>4. ASSUME NEW q \in Plan
          PROVE  /\ new[q].cursor = old[q].cursor /\ new[q].step = old[q].step
                 /\ new[q].status \in {old[q].status, "editing", "published"}
      BY <3>2, <3>3
    <3>5. QED BY <3>1, <3>4
  <2>3. QED BY <2>1, <2>2 DEF JudgedInv, JudgedOn
<1>7. QED BY <1>2, <1>3, <1>4, <1>5, <1>6 DEF LedgerAllows, Ledger!LedgerNext

\* What LedgerInv and JudgedInv say of the rows.
LEMMA JudgedRows ==
  ASSUME LedgerInv, JudgedInv
  PROVE  ReferencesInLog /\ RejectionStands
PROOF
<1>1. /\ DOMAIN plans \subseteq Plan
      /\ \A p \in Plan : planOps[p] \in Seq(Operation) /\ checkpoints[p] \subseteq 1 .. Len(planOps[p])
  BY TableRows, StoreAssumption DEF LedgerInv, Recorded, Plan
<1>2. ASSUME NEW p \in Plan PROVE Len(planOps[p]) \in Nat /\ Count(p) = Len(planOps[p])
  BY <1>1, LenProperties, CountIsLast
<1>3. ASSUME NEW p \in DOMAIN plans
      PROVE  JudgedOn(planOps[p], plans[p])
  <2>1. p \in Plan /\ Verdicts[p] = [status |-> plans[p].status, cursor |-> plans[p].cursor,
                                     step |-> plans[p].step]
    BY <1>1 DEF Verdicts, Exists
  <2>2. JudgedOn(planOps[p], Verdicts[p])
    BY <2>1 DEF JudgedInv
  <2>3. QED BY <2>1, <2>2 DEF JudgedOn
<1>4. ReferencesInLog
  BY <1>1, <1>2, <1>3 DEF ReferencesInLog, JudgedOn
<1>5. ASSUME NEW p \in DOMAIN plans, plans[p].status = "recovery_incomplete"
      PROVE  LET s == plans[p].step IN
             planOps[p][s] = PowerLoss /\ \A i \in 1 .. s - 1 : planOps[p][i] # Checkpoint
  <2>1. PICK log, s : log = planOps[p] /\ s = plans[p].step
    OBVIOUS
  <2>2. log \in Seq(Operation) /\ Len(log) \in Nat /\ DOMAIN log = 1 .. Len(log)
    BY <1>1, <1>2, <2>1, LenProperties
  <2>3. First(Unguarded(log)) = {s}
    BY <1>3, <1>5, <2>1 DEF JudgedOn
  <2>4. s \in Unguarded(log)
    BY <2>3 DEF First
  <2>5. s \in DOMAIN log /\ log[s].type = "powerloss"
    BY <2>4 DEF Unguarded
  <2>6. log[s] \in PlanOperation
    BY <2>2, <2>5, StoreAssumption
  <2>7. log[s] = PowerLoss
    BY <2>5, <2>6 DEF PlanOperation, Checkpoint, PowerLoss
  <2>8. ASSUME NEW i \in 1 .. s - 1 PROVE log[i] # Checkpoint
    <3>1. i \in DOMAIN log /\ ~(i > s)
      BY <2>2, <2>5
    <3>2. log[i].type # "checkpoint"
      BY <2>4, <3>1 DEF Unguarded
    <3>3. QED BY <3>2 DEF Checkpoint
  <2>9. QED BY <2>1, <2>7, <2>8
<1>6. QED BY <1>4, <1>5 DEF RejectionStands

\* Before the first request there are no verdicts.
LEMMA JudgedStart == InitFrozen => JudgedInv
PROOF
<1> SUFFICES ASSUME InitFrozen PROVE JudgedInv
  OBVIOUS
<1>1. \A p \in Plan : planOps[p] = << >> /\ ~Exists(p)
  BY DEF InitFrozen, InitStore, Exists
<1>2. \A p \in Plan : Verdicts[p] = [status |-> "editing", cursor |-> 0, step |-> 0]
  BY <1>1 DEF Verdicts
<1>3. QED BY <1>1, <1>2 DEF JudgedInv, JudgedOn

\* Logs, checkpoints and verdicts agree in every state of a frozen service.
LEMMA JudgedHolds == SpecFrozen => [](LedgerInv /\ JudgedInv)
PROOF
<1>1. InitFrozen => LedgerInv /\ JudgedInv
  BY LedgerStart, JudgedStart
<1>2. (LedgerInv /\ JudgedInv) /\ [Next]_vars => (LedgerInv /\ JudgedInv)'
  BY LedgerStep, JudgedStep
<1>3. QED BY <1>1, <1>2, PTL DEF SpecFrozen

\* Whatever overlaps or fails, a checkpoint, a simulation cursor and a violation
\* step refer to operations the plan has.
THEOREM ReferencesStay == SpecFrozen => []ReferencesInLog
  BY JudgedHolds, JudgedRows, PTL

\* A plan rejected for recovery goes on naming a power loss that no checkpoint
\* operation precedes, whatever other requests append to it.
THEOREM RejectionsStay == SpecFrozen => []RejectionStands
  BY JudgedHolds, JudgedRows, PTL
-----------------------------------------------------------------------------
\* A curve that some prefix of the log and some checkpoints lead to, and a plan
\* that has none and has not passed.
Passing  == {"publishable", "published"}
Drawn(p) == \E end \in CanEnd(p) : wear[p] \in end.saved
Blank(p) == wear[p] = NoWear /\ ~(Exists(p) /\ plans[p].status \in Passing)

\* A request about to write a verdict that comes with a curve has saved one, and
\* only a plan that has one is certified.
CurveOwn(w) ==
  LET r == req[w] IN
  /\ r.pc = "sim_verdict" /\ r.end.saved # {} => Drawn(r.plan)
  /\ r.pc \in {"issue_config", "issue_insert", "issue_publish"} => Drawn(r.plan)
CurveInv ==
  /\ LedgerInv
  /\ wear = [p \in Plan |-> wear[p]]
  /\ \A p \in Plan : Drawn(p) \/ Blank(p)
  /\ \A w \in Worker : CurveOwn(w)

\* A plan cannot pass without a curve.
LEMMA PassedSaves ==
  ASSUME NEW ops, NEW cursors, NEW rows, NEW end, end = Outcome(ops, cursors, rows)
  PROVE  end.status \in Passing => end.saved # {}
PROOF
<1> DEFINE start == ResumeAt(cursors)
           run   == Run(ops, start, rows)
           late  == Validate(ops, cursors)
           check == Check(run.eng.blocks)
           curve == Wear(run.eng.blocks)
<1>1. \/ end.status \in {"error", "budget_exceeded", "recovery_incomplete"}
      \/ end = [status |-> "publishable", cursor |-> run.done, step |-> 0, saved |-> {curve}]
  <2> HIDE DEF start, run, late, check, curve
  <2>1. end = IF start > Len(ops) \/ run.stop = "error"
              THEN [status |-> "error", cursor |-> run.done, step |-> 0, saved |-> {}]
              ELSE IF run.stop # "ok"
              THEN [status |-> "budget_exceeded", cursor |-> run.done,
                    step |-> start + run.done + 1, saved |-> {}]
              ELSE IF late # {}
              THEN [status |-> "recovery_incomplete", cursor |-> run.done, step |-> Max(late),
                    saved |-> {}]
              ELSE IF check # "ok"
              THEN [status |-> "budget_exceeded", cursor |-> run.done, step |-> run.done,
                    saved |-> {curve}]
              ELSE [status |-> "publishable", cursor |-> run.done, step |-> 0, saved |-> {curve}]
    BY DEF Outcome, start, run, late, check, curve
  <2>2. QED BY <2>1
<1> HIDE DEF start, run, late, check, curve
<1>2. QED BY <1>1 DEF Passing

\* So it is for every verdict that can be reached.
LEMMA EndSaves ==
  ASSUME NEW p, NEW end \in CanEnd(p), end.status \in Passing
  PROVE  end.saved # {}
PROOF
<1>1. PICK n \in 0 .. Len(planOps[p]), cursors \in SUBSET checkpoints[p] :
        end = Outcome(SubSeq(planOps[p], 1, n), cursors, blocks)
  BY DEF CanEnd
<1>2. QED BY <1>1, PassedSaves

\* A curve stays drawn, however the log and the checkpoints grow.
LEMMA DrawnStays ==
  ASSUME Recorded, Recorded', Grown, NEW p \in Plan, Drawn(p), wear'[p] = wear[p]
  PROVE  Drawn(p)'
PROOF
<1>1. PICK end \in CanEnd(p) : wear'[p] \in end.saved
  BY DEF Drawn
<1>2. end \in CanEnd(p)'
  BY GrownEnds
<1>3. QED BY <1>1, <1>2 DEF Drawn

\* A step that saves no curve: only a plan that has one comes to pass.
LEMMA CurveKept ==
  ASSUME CurveInv, NEW w \in Worker, LedgerInv', Kept(w), Only(w), UNCHANGED wear, CurveOwn(w)',
         \A p \in Plan : Exists(p)' /\ plans'[p].status \in Passing =>
                           Drawn(p) \/ (Exists(p) /\ plans[p].status \in Passing)
  PROVE  CurveInv'
PROOF
<1>1. \A p \in Plan : Drawn(p) => Drawn(p)'
  BY DrawnStays DEF CurveInv, LedgerInv, Kept
<1>2. \A p \in Plan : Drawn(p)' \/ Blank(p)'
  BY <1>1 DEF CurveInv, Blank
<1>3. ASSUME NEW v \in Worker \ {w} PROVE CurveOwn(v)'
  <2>1. PICK r : r = req[v] /\ r = req'[v]
    BY DEF Only
  <2>2. CurveOwn(v) /\ LedgerOwn(v)
    BY DEF CurveInv, LedgerInv
  <2>3. r.pc \in {"sim_verdict", "issue_config", "issue_insert", "issue_publish"} => r.plan \in Plan
    BY <2>1, <2>2 DEF LedgerOwn, SimulatePc
  <2>4. QED BY <1>1, <2>1, <2>2, <2>3 DEF CurveOwn
<1>4. QED BY <1>2, <1>3 DEF CurveInv

\* Which steps let a plan pass.
LEMMA PassedBy ==
  ASSUME LedgerInv, NEW w \in Worker,
         \/ Creating(w) \/ Appending(w) \/ Simulating(w) \/ Checkpointing(w)
         \/ Certifying(w) \/ Configuring(w) \/ Reporting(w) \/ Abort(w),
         NEW p \in DOMAIN plans', plans'[p].status \in Passing,
         ~(p \in DOMAIN plans /\ plans[p].status \in Passing)
  PROVE  p = req[w].plan /\ (IssuePublish(w) \/ (SimulateVerdict(w) /\ req[w].end.status \in Passing))
PROOF
<1>1. PlanTable
  BY DEF LedgerInv, Recorded, PlanTable
<1>2. PICK q : q = req[w].plan
  OBVIOUS
<1>3. ASSUME NEW row, plans' = [plans EXCEPT ![q] = row]
      PROVE  p \in DOMAIN plans /\ p = q /\ plans'[p] = row
  BY <1>1, <1>3, TableExcept, StoreAssumption DEF PlanTable
<1>4. CASE CreateRow(w)
  <2>1. PICK k, row :
          /\ k = Len(plans)
          /\ row = [status |-> "editing", hash |-> HashOps(req[w].ops, req[w].numbered),
                    opCount |-> Len(req[w].ops), cursor |-> 0, step |-> 0]
    OBVIOUS
  <2>2. k # MaxPlans /\ plans' = Append(plans, row)
    BY <1>4, <2>1 DEF CreateRow
  <2>3. /\ DOMAIN plans = 1 .. k /\ DOMAIN plans' = 1 .. k + 1
        /\ (\A i \in DOMAIN plans : plans'[i] = plans[i]) /\ plans'[k + 1] = row /\ k \in Nat
    BY <1>1, <2>1, <2>2, TableAppend, StoreAssumption DEF PlanTable, Table
  <2>4. p \in DOMAIN plans \/ p = k + 1
    BY <2>3
  <2>5. row.status = "editing"
    BY <2>1
  <2>6. QED BY <2>3, <2>4, <2>5 DEF Passing
<1>5. CASE AppendStatus(w)
  <2>1. PICK row : row = [plans[q] EXCEPT !.status = "editing"]
    OBVIOUS
  <2>2. plans' = [plans EXCEPT ![q] = row]
    BY <1>2, <1>5, <2>1 DEF AppendStatus, SetStatus
  <2>3. row.status = "editing"
    BY <1>1, <1>3, <2>1, <2>2 DEF PlanTable, PlanRow
  <2>4. QED BY <1>3, <2>2, <2>3 DEF Passing
<1>6. CASE AppendHash(w)
  <2>1. PICK hash, count, half, row :
          /\ hash = HashOps(req[w].all, TRUE) /\ count = Len(req[w].all)
          /\ half = [plans[q] EXCEPT !.hash = hash] /\ row = [half EXCEPT !.opCount = count]
    OBVIOUS
  <2>2. UNCHANGED plans \/ plans' = [plans EXCEPT ![q].hash = hash, ![q].opCount = count]
    BY <1>2, <1>6, <2>1 DEF AppendHash
  <2>3. plans' = [plans EXCEPT ![q] = row]
    BY <2>1, <2>2
  <2>4. row.status = plans[q].status
    BY <1>1, <1>3, <2>1, <2>3 DEF PlanTable, PlanRow
  <2>5. QED BY <1>3, <2>3, <2>4
<1>7. CASE SimulateVerdict(w)
  <2>1. PICK end, row :
          /\ end = req[w].end
          /\ row = [plans[q] EXCEPT !.status = end.status, !.cursor = end.cursor, !.step = end.step]
    OBVIOUS
  <2>2. plans' = [plans EXCEPT ![q] = row]
    BY <1>2, <1>7, <2>1 DEF SimulateVerdict
  <2>3. row.status = end.status
    BY <1>1, <1>3, <2>1, <2>2 DEF PlanTable, PlanRow
  <2>4. QED BY <1>2, <1>3, <1>7, <2>1, <2>2, <2>3
<1>8. CASE IssuePublish(w)
  BY <1>2, <1>3, <1>8 DEF IssuePublish, SetStatus
<1>9. CASE UNCHANGED plans
  BY <1>9
<1>10. CASE Creating(w)
  BY <1>4, <1>9, <1>10 DEF Creating, CreateCall, CreateLock, CreateConfig, CreateFind, CreateOp, tables
<1>11. CASE Appending(w)
  BY <1>5, <1>6, <1>9, <1>11 DEF Appending, AppendGet, AppendCount, AppendOp, AppendList, tables
<1>12. CASE Simulating(w)
  BY <1>7, <1>9, <1>12
     DEF Simulating, SimulateGet, SimulateBlocks, SimulateOps, SimulateRun, SimulateWear, tables
<1>13. CASE Certifying(w)
  BY <1>8, <1>9, <1>13 DEF Certifying, CertCall, CertStep, IssueGet, IssueConfig, IssueInsert,
     RevokeGet, RevokeWrite, tables
<1>14. CASE Checkpointing(w) \/ Configuring(w) \/ Reporting(w) \/ Abort(w)
  BY <1>9, <1>14, CheckpointMoves, ConfigMoves, ReportMoves, AbortMoves
     DEF LedgerInv, LogInv, tables
<1>15. QED BY <1>10, <1>11, <1>12, <1>13, <1>14

\* The step that stores a curve stores one that can be reached by now.
LEMMA CurveSaved ==
  ASSUME CurveInv, NEW w \in Worker, LedgerInv', Kept(w), Only(w), SimulateWear(w)
  PROVE  CurveInv'
PROOF
<1>1. PICK r, p : r = req[w] /\ p = r.plan
  OBVIOUS
<1>2. /\ Requests /\ r.pc = "sim_wear" /\ p \in Plan
      /\ {"plan", "end"} \subseteq DOMAIN r /\ r.end \in CanEnd(p)
  BY <1>1 DEF CurveInv, LedgerInv, LogInv, SimulateWear, At, LedgerOwn, SimulatePc
<1>3. PICK curve \in r.end.saved : wear' = [wear EXCEPT ![p] = curve]
  BY <1>1 DEF SimulateWear
<1>4. /\ req'[w].pc = "sim_verdict" /\ req'[w].plan = p /\ UNCHANGED plans
  BY <1>1, <1>2, AdvanceOwn DEF SimulateWear
<1>5. /\ wear' = [q \in Plan |-> wear'[q]] /\ wear'[p] = curve
      /\ \A q \in Plan \ {p} : wear'[q] = wear[q]
  BY <1>2, <1>3 DEF CurveInv
<1>6. Drawn(p)'
  <2>1. r.end \in CanEnd(p)'
    BY <1>2, GrownEnds DEF CurveInv, LedgerInv, Kept
  <2>2. QED BY <1>5, <2>1 DEF Drawn
<1>7. ASSUME NEW q \in Plan \ {p} PROVE (Drawn(q) => Drawn(q)') /\ (Blank(q) => Blank(q)')
  <2>1. Drawn(q) => Drawn(q)'
    BY <1>5, DrawnStays DEF CurveInv, LedgerInv, Kept
  <2>2. QED BY <1>4, <1>5, <2>1 DEF Blank, Exists
<1>8. \A q \in Plan : (Drawn(q) => Drawn(q)') /\ (Drawn(q)' \/ Blank(q)')
  BY <1>6, <1>7 DEF CurveInv
<1>9. CurveOwn(w)'
  BY <1>4, <1>6 DEF CurveOwn
<1>10. ASSUME NEW v \in Worker \ {w} PROVE CurveOwn(v)'
  <2>1. PICK s : s = req[v] /\ s = req'[v]
    BY DEF Only
  <2>2. CurveOwn(v) /\ LedgerOwn(v)
    BY DEF CurveInv, LedgerInv
  <2>3. s.pc \in {"sim_verdict", "issue_config", "issue_insert", "issue_publish"} => s.plan \in Plan
    BY <2>1, <2>2 DEF LedgerOwn, SimulatePc
  <2>4. QED BY <1>8, <2>1, <2>2, <2>3 DEF CurveOwn
<1>11. QED BY <1>5, <1>8, <1>9, <1>10 DEF CurveInv

\* What the request that moves knows of the curve.
LEMMA CurveKnown ==
  ASSUME CurveInv, NEW w \in Worker, Kept(w), Only(w), ~SimulateWear(w), UNCHANGED wear,
         \/ Creating(w) \/ Appending(w) \/ Simulating(w) \/ Checkpointing(w)
         \/ Certifying(w) \/ Configuring(w) \/ Reporting(w) \/ Abort(w)
  PROVE  CurveOwn(w)'
PROOF
<1>1. PICK r : r = req[w]
  OBVIOUS
<1>2. /\ Requests /\ CurveOwn(w) /\ LedgerOwn(w)
      /\ \A p \in Plan : Drawn(p) => Drawn(p)'
  BY DrawnStays DEF CurveInv, LedgerInv, LogInv, Kept
<1>3. CASE Simulating(w)
  <2>1. CASE SimulateRun(w)
    <3>1. PICK end : end = Outcome(r.ops, checkpoints[r.plan], r.rows)
      OBVIOUS
    <3>2. \/ req'[w].pc = "idle"
          \/ req'[w] = [pc |-> IF end.saved = {} THEN "sim_verdict" ELSE "sim_wear",
                        plan |-> r.plan, end |-> end]
      BY <1>1, <1>2, <2>1, <3>1, BecomeOwn, DoneOwn DEF SimulateRun, Record
    <3>3. QED BY <3>2 DEF CurveOwn
  <2>2. CASE ~SimulateRun(w)
    <3>1. req'[w].pc \in {"sim_blocks", "sim_ops", "sim_run", "idle"}
      <4>1. ASSUME NEW p, SimulateGet(w, p) PROVE req'[w].pc = "sim_blocks"
        BY <1>2, <4>1, BecomeOwn DEF SimulateGet, Record
      <4>2. CASE SimulateBlocks(w)
        BY <1>2, <4>2, BecomeOwn DEF SimulateBlocks, Record
      <4>3. CASE SimulateOps(w)
        BY <1>2, <4>3, BecomeOwn DEF SimulateOps, Record
      <4>4. CASE SimulateVerdict(w)
        BY <1>2, <4>4, DoneOwn DEF SimulateVerdict
      <4>5. QED BY <1>3, <2>2, <4>1, <4>2, <4>3, <4>4 DEF Simulating
    <3>2. QED BY <3>1 DEF CurveOwn
  <2>3. QED BY <2>1, <2>2
<1>4. CASE Certifying(w)
  <2>1. ASSUME NEW p \in Plan, IssueGet(w, p) PROVE CurveOwn(w)'
    <3>1. Exists(p) /\ plans[p].status \in Passing
      BY <2>1 DEF IssueGet, Passing
    <3>2. Drawn(p)'
      BY <1>2, <3>1 DEF CurveInv, Blank
    <3>3. req'[w].pc = "issue_config" /\ req'[w].plan = p
      BY <1>2, <2>1, BecomeOwn DEF IssueGet, Record
    <3>4. QED BY <3>2, <3>3 DEF CurveOwn
  <2>2. ASSUME IssueConfig(w) \/ IssueInsert(w) PROVE CurveOwn(w)'
    <3>1. "plan" \in DOMAIN r /\ r.plan \in Plan /\ Drawn(r.plan)
      BY <1>1, <1>2, <2>2 DEF IssueConfig, IssueInsert, At, LedgerOwn, CurveOwn
    <3>2. \/ req'[w].pc = "idle"
          \/ req'[w].pc \in {"issue_insert", "issue_publish"} /\ req'[w].plan = r.plan
      <4>1. CASE IssueConfig(w)
        BY <1>1, <1>2, <3>1, <4>1, AdvanceOwn, DoneOwn DEF IssueConfig
      <4>2. CASE IssueInsert(w)
        BY <1>1, <1>2, <4>2, BecomeOwn, DoneOwn DEF IssueInsert, Record
      <4>3. QED BY <2>2, <4>1, <4>2
    <3>3. QED BY <1>2, <3>1, <3>2 DEF CurveOwn
  <2>3. ASSUME NEW c, NEW reason, RevokeGet(w, c, reason) PROVE CurveOwn(w)'
    <3>1. req'[w].pc = "revoke_write"
      BY <1>2, <2>3, BecomeOwn DEF RevokeGet, Record
    <3>2. QED BY <3>1 DEF CurveOwn
  <2>4. CASE IssuePublish(w) \/ RevokeWrite(w)
    <3>1. req'[w].pc = "idle"
      BY <1>2, <2>4, DoneOwn DEF IssuePublish, RevokeWrite
    <3>2. QED BY <3>1 DEF CurveOwn
  <2>5. QED BY <1>4, <2>1, <2>2, <2>3, <2>4 DEF Certifying, CertCall, CertStep
<1>5. CASE Creating(w) \/ Appending(w) \/ Checkpointing(w) \/ Configuring(w) \/ Reporting(w) \/ Abort(w)
  <2>1. req'[w].pc \in CreatePc \cup AppendPc \cup CheckpointPc \cup ConfigPc \cup ReportPc \cup {"idle"}
    BY <1>2, <1>5, CreateMoves, AppendMoves, CheckpointMoves, ConfigMoves, ReportMoves, AbortMoves
       DEF Moves
  <2>2. QED BY <2>1 DEF CurveOwn, CreatePc, AppendPc, CheckpointPc, ConfigPc, ReportPc
<1>6. QED BY <1>3, <1>4, <1>5

\* Every step keeps the curves.
LEMMA CurveStep == CurveInv /\ [Next]_vars => CurveInv'
PROOF
<1> SUFFICES ASSUME CurveInv, [Next]_vars PROVE CurveInv'
  OBVIOUS
<1>1. LedgerInv'
  BY LedgerStep DEF CurveInv
<1>2. CASE Next
  <2>1. PICK w \in Worker :
          \/ Creating(w) \/ Appending(w) \/ Simulating(w) \/ Checkpointing(w)
          \/ Certifying(w) \/ Configuring(w) \/ Reporting(w) \/ Abort(w)
    BY <1>2, StepCases
  <2>2. Kept(w) /\ Only(w)
    BY <2>1, StepKept DEF CurveInv
  <2>3. CASE SimulateWear(w)
    BY <1>1, <2>2, <2>3, CurveSaved
  <2>4. CASE ~SimulateWear(w)
    <3>1. UNCHANGED wear
      BY <2>1, <2>4, CreateMoves, AppendMoves, CheckpointMoves, CertMoves, ConfigMoves, ReportMoves,
         AbortMoves
         DEF CurveInv, LedgerInv, LogInv, tables, Simulating, SimulateGet, SimulateBlocks,
             SimulateOps, SimulateRun, SimulateVerdict
    <3>2. CurveOwn(w)'
      BY <2>1, <2>2, <2>4, <3>1, CurveKnown
    <3>3. ASSUME NEW p \in Plan, p \in DOMAIN plans', plans'[p].status \in Passing,
                 ~(p \in DOMAIN plans /\ plans[p].status \in Passing)
          PROVE  Drawn(p)
      <4>1. /\ p = req[w].plan
            /\ IssuePublish(w) \/ (SimulateVerdict(w) /\ req[w].end.status \in Passing)
        BY <2>1, <3>3, PassedBy DEF CurveInv
      <4>2. CurveOwn(w) /\ LedgerOwn(w)
        BY DEF CurveInv, LedgerInv
      <4>3. CASE IssuePublish(w)
        BY <4>1, <4>2, <4>3 DEF IssuePublish, At, CurveOwn
      <4>4. CASE SimulateVerdict(w) /\ req[w].end.status \in Passing
        <5>1. req[w].pc = "sim_verdict" /\ req[w].end \in CanEnd(p)
          BY <4>1, <4>2, <4>4 DEF SimulateVerdict, At, LedgerOwn
        <5>2. QED BY <4>1, <4>2, <4>4, <5>1, EndSaves DEF CurveOwn
      <4>5. QED BY <4>1, <4>3, <4>4
    <3>4. QED BY <1>1, <2>2, <3>1, <3>2, <3>3, CurveKept DEF Exists
  <2>5. QED BY <2>3, <2>4
<1>3. CASE UNCHANGED vars
  <2>1. \A p : (Drawn(p) => Drawn(p)') /\ (Blank(p) => Blank(p)')
    BY <1>3 DEF vars, Drawn, CanEnd, Blank, Exists
  <2>2. QED BY <1>1, <1>3, <2>1 DEF vars, CurveInv, CurveOwn
<1>4. QED BY <1>2, <1>3

\* Whatever overlaps or stops half way, a stored curve is that of one run over a
\* prefix of the plan's log, from the start or from recorded checkpoints, and a
\* plan that passed or is published has one.
THEOREM CurvesAreOfRuns == SpecFrozen => []CurveOfRun
PROOF
<1>1. InitFrozen => CurveInv
  <2> SUFFICES ASSUME InitFrozen PROVE CurveInv
    OBVIOUS
  <2>1. LedgerInv
    BY LedgerStart
  <2>2. \A p \in Plan : Blank(p)
    BY DEF InitFrozen, InitStore, Blank, Exists
  <2>3. \A w \in Worker : CurveOwn(w)
    BY DEF InitFrozen, InitStore, Idle, CurveOwn
  <2>4. wear = [p \in Plan |-> wear[p]]
    BY DEF InitFrozen, InitStore
  <2>5. QED BY <2>1, <2>2, <2>3, <2>4 DEF CurveInv
<1>2. CurveInv => CurveOfRun
  BY DEF CurveInv, CurveOfRun, Drawn, Blank, Passing, CanEnd
<1>3. QED BY <1>1, <1>2, CurveStep, PTL DEF SpecFrozen
-----------------------------------------------------------------------------
\* The types of the tables, and of what requests carry to them.
PlanRecord == [status : PlanStatus, hash : Hash, opCount : Nat, cursor : Nat, step : Nat]
CertRecord == [plan : Plan, hash : Hash, status : {"published", "revoked"},
               reason : Reason \cup {"none"}]
Rows       == [Block -> BlockRow]
Curve(c)   == DOMAIN c \subseteq Block /\ \A b \in DOMAIN c : c[b].erase \in Nat
Ending(end) ==
  /\ end.status \in PlanStatus /\ end.cursor \in Nat /\ end.step \in Nat
  /\ \A curve \in end.saved : Curve(curve)

OnPlan == AppendPc \cup SimulatePc \cup {"issue_config", "issue_insert"}
TypeOwn(w) ==
  LET r == req[w] IN
  /\ r.pc \in CreatePc \cup {"append_count", "append_op"} =>
       "ops" \in DOMAIN r /\ r.ops \in Seq(Operation)
  /\ r.pc \in CreatePc => Len(r.ops) <= MaxOps
  /\ r.pc \in CreatePc \ {"create_op"} => "numbered" \in DOMAIN r /\ r.numbered \in BOOLEAN
  /\ r.pc \in {"create_find", "create_row"} => r.ops # << >>
  /\ r.pc \in {"create_op", "append_op"} => Sent(r)
  /\ r.pc = "append_op" =>
       "start" \in DOMAIN r /\ r.start \in Nat /\ r.start + Len(r.ops) <= MaxOps
  /\ r.pc \in OnPlan => "plan" \in DOMAIN r /\ r.plan \in Plan
  /\ r.pc \in {"append_status", "append_hash"} => "all" \in DOMAIN r /\ r.all \in Seq(Operation)
  /\ r.pc \in {"sim_ops", "sim_run"} => "rows" \in DOMAIN r /\ r.rows \in Rows
  /\ r.pc = "sim_run" => "ops" \in DOMAIN r /\ r.ops \in Seq(Operation)
  /\ r.pc \in {"sim_wear", "sim_verdict"} => "end" \in DOMAIN r /\ Ending(r.end)
  /\ r.pc = "cp_insert" => "cursor" \in DOMAIN r /\ r.cursor \in 1 .. MaxOps
  /\ r.pc \in {"issue_config", "issue_insert"} => "hash" \in DOMAIN r /\ r.hash \in Hash
  /\ r.pc = "revoke_write" => "reason" \in DOMAIN r /\ r.reason \in Reason

PlansTyped == plans \in Seq(PlanRecord) /\ Len(plans) <= MaxPlans
LogsTyped  ==
  /\ DOMAIN planOps = Plan
  /\ \A p \in Plan : planOps[p] \in [DOMAIN planOps[p] -> Operation] /\ DOMAIN planOps[p] \subseteq 1 .. MaxOps
MarksTyped == checkpoints \in [Plan -> SUBSET (1 .. MaxOps)]
CertsTyped == certs \in Seq(CertRecord) /\ Len(certs) <= MaxCerts
MutexTyped == createMu \in Worker \cup {Free}
WearTyped  == DOMAIN wear = Plan /\ \A p \in Plan : Curve(wear[p])
CfgTyped   == cfgStatus \in {"absent", "draft", "simulatable", "frozen"}
TablesTyped ==
  CfgTyped /\ PlansTyped /\ LogsTyped /\ MarksTyped /\ CertsTyped /\ MutexTyped /\ WearTyped
TypeInv == LogInv /\ ConfigInv /\ TablesTyped /\ \A w \in Worker : TypeOwn(w)

\* What the handlers below need of the invariant.
LEMMA TypeFacts ==
  ASSUME TypeInv, NEW w \in Worker
  PROVE  /\ Requests /\ TypeOwn(w)
         /\ blocks \in Rows
         /\ \A p \in Plan : /\ planOps[p] \in Seq(Operation) /\ Len(planOps[p]) = Count(p)
                            /\ List(p) = planOps[p]
                            /\ Count(p) \in 0 .. MaxOps
         /\ DOMAIN plans = 1 .. Len(plans) /\ Len(plans) \in Nat /\ DOMAIN plans \subseteq Plan
PROOF
<1>1. blocks \in Rows
  <2>1. FactoryRow \subseteq BlockRow /\ NoRow \in BlockRow
    BY DEF FactoryRow, NoRow, Row, BlockRow, BlockStatus
  <2>2. QED BY <2>1 DEF TypeInv, ConfigInv, NoRowYet, HasRows, Rows
<1>2. ASSUME NEW p \in Plan
      PROVE  /\ planOps[p] \in Seq(Operation) /\ Len(planOps[p]) = Count(p)
             /\ List(p) = planOps[p] /\ Count(p) \in 0 .. MaxOps
  <2>1. PICK n \in Nat : DOMAIN planOps[p] = 1 .. n
    BY DEF TypeInv, LogInv, Gapless
  <2>2. planOps[p] \in [1 .. n -> Operation] /\ 1 .. n \subseteq 1 .. MaxOps
    BY <2>1 DEF TypeInv, TablesTyped, LogsTyped
  <2>3. planOps[p] \in Seq(Operation) /\ Len(planOps[p]) = n
    BY <2>1, <2>2, SeqDef, LenProperties
  <2>4. n \in 0 .. MaxOps
    BY <2>2, StoreAssumption
  <2>5. QED BY <2>1, <2>2, <2>3, <2>4, CountIsLast, ListIsLog
<1>3. /\ DOMAIN plans = 1 .. Len(plans) /\ Len(plans) \in Nat
  BY LenProperties DEF TypeInv, TablesTyped, PlansTyped
<1>4. DOMAIN plans \subseteq Plan
  BY <1>3, StoreAssumption DEF TypeInv, TablesTyped, PlansTyped, Plan
<1>5. QED BY <1>1, <1>2, <1>3, <1>4 DEF TypeInv, ConfigInv

\* A table row is replaced by one of its type.
LEMMA RowTyped ==
  ASSUME NEW S, NEW t \in Seq(S), NEW i, NEW row, i \in DOMAIN t => row \in S
  PROVE  LET u == [t EXCEPT ![i] = row] IN u \in Seq(S) /\ Len(u) = Len(t)
PROOF
<1>1. CASE i \in DOMAIN t
  <2>1. i \in 1 .. Len(t)
    BY <1>1, LenProperties
  <2>2. QED BY <1>1, <2>1, ExceptSeq
<1>2. CASE i \notin DOMAIN t
  <2>1. [t EXCEPT ![i] = row] = t
    BY <1>2
  <2>2. QED BY <2>1
<1>3. QED BY <1>1, <1>2

\* A block's wear stays a number whatever the engine does with it.
LEMMA RowsRun ==
  ASSUME NEW S, NEW log \in Seq(S), NEW rows \in Rows
  PROVE  Runs!Folded(Booted(rows), log).eng.blocks \in Rows
PROOF
<1> DEFINE R(l) == Runs!Folded(Booted(rows), l)
           T    == {l \in Seq(S) : R(l).eng.blocks \in Rows}
<1>1. << >> \in T
  BY Runs!FoldEmpty DEF Booted, Boot
<1>2. ASSUME NEW l \in Seq(S), NEW op \in S, l \in T
      PROVE  Append(l, op) \in T
  <2>1. R(Append(l, op)) = RunStep(R(l), op)
    BY Runs!FoldAppend
  <2>2. PICK more, run, next, e : more = Append(l, op) /\ run = R(l) /\ next = RunStep(run, op)
                                  /\ e = run.eng
    OBVIOUS
  <2>3. more \in Seq(S) /\ e.blocks \in Rows
    BY <1>2, <2>2, Appended
  <2>4. next.eng = e \/ next.eng = Effect(e, op)
    <3>1. run = [eng |-> run.eng, stop |-> run.stop, done |-> run.done]
      BY <2>2, RunCounts DEF Ran
    <3>2. QED BY <2>2, <3>1 DEF RunStep
  <2>5. Effect(e, op).blocks \in Rows
    <3>1. Put(e, op.lpn, op.dest).blocks = e.blocks
      BY DEF Put
    <3>2. EraseBlock(e, op.block).blocks \in Rows
      <4>1. PICK b, row : b = op.block /\ row = Cycled(e.blocks[b])
        OBVIOUS
      <4>2. b \in Block => row \in BlockRow
        BY <2>3, <4>1, CycledType DEF Rows
      <4>3. EraseBlock(e, op.block).blocks = [e.blocks EXCEPT ![b] = row]
        BY <4>1 DEF EraseBlock
      <4>4. QED BY <2>3, <4>2, <4>3 DEF Rows
    <3>3. QED BY <2>3, <3>1, <3>2 DEF Effect
  <2>6. QED BY <2>1, <2>2, <2>3, <2>4, <2>5
<1>3. Seq(S) \subseteq T
  <2> HIDE DEF T
  <2>1. QED BY <1>1, <1>2, Runs!SequenceInduction
<1>4. QED BY <1>3

\* The verdict of a simulation has its types.
LEMMA OutcomeTyped ==
  ASSUME NEW log \in Seq(Operation), NEW cursors, cursors \subseteq 1 .. MaxOps, NEW rows \in Rows,
         NEW end, end = Outcome(log, cursors, rows), end.status # "error"
  PROVE  Ending(end)
PROOF
<1>1. /\ end.status \in {"budget_exceeded", "recovery_incomplete", "publishable"}
      /\ end.cursor \in 0 .. Len(log) /\ end.step \in 0 .. Len(log)
  BY StoreAssumption, OutcomeInLog
<1>2. Len(log) \in Nat
  BY LenProperties
<1>3. PICK start : start = ResumeAt(cursors)
  OBVIOUS
<1>4. start \in Nat
  <2>1. MaxOps \in Nat
    BY StoreAssumption
  <2>2. start \in 0 .. MaxOps
    BY <1>3, <2>1, ResumesThere
  <2>3. QED BY <2>1, <2>2
<1>5. Run(log, start, rows).eng.blocks \in Rows
  <2>1. CASE start <= Len(log)
    <3>1. SubSeq(log, start + 1, Len(log)) \in Seq(Operation)
      BY <1>2, <1>4, <2>1, SubSeqProperties
    <3>2. QED BY <3>1, RunFolded, RowsRun
  <2>2. CASE start > Len(log)
    <3>1. SubSeq(log, start + 1, Len(log)) \in Seq(Operation)
      BY <1>2, <1>4, <2>2, SubSeqProperties
    <3>2. QED BY <3>1, RunFolded, RowsRun
  <2>3. QED BY <1>2, <1>4, <2>1, <2>2
<1>6. \A table \in Rows : Curve(Wear(table))
  BY DEF Rows, BlockRow, Curve, Wear, WearEntry
<1>7. end.saved \subseteq {Wear(Run(log, start, rows).eng.blocks)}
  BY <1>3 DEF Outcome
<1>8. QED BY <1>1, <1>2, <1>5, <1>6, <1>7 DEF Ending, PlanStatus

\* Tables that a step leaves alone keep their types.
LEMMA SameTyped ==
  ASSUME TablesTyped
  PROVE  /\ UNCHANGED cfgStatus => CfgTyped'
         /\ UNCHANGED plans => PlansTyped'
         /\ UNCHANGED planOps => LogsTyped'
         /\ UNCHANGED checkpoints => MarksTyped'
         /\ UNCHANGED certs => CertsTyped'
         /\ UNCHANGED createMu => MutexTyped'
         /\ UNCHANGED wear => WearTyped'
  BY DEF TablesTyped, CfgTyped, PlansTyped, LogsTyped, MarksTyped, CertsTyped, MutexTyped, WearTyped

\* A request that has nothing to remember that is typed here.
Bare == {"idle", "issue_publish"} \cup ConfigPc \cup ReportPc

\* An insert into a log.
LEMMA InsertTyped ==
  ASSUME TypeInv, NEW p, NEW s \in 1 .. MaxOps, NEW op \in Operation, InsertOp(p, s, op)
  PROVE  LogsTyped'
PROOF
<1>1. /\ planOps = [q \in Plan |-> planOps[q]]
      /\ \A q \in Plan : /\ planOps[q] \in [DOMAIN planOps[q] -> Operation]
                         /\ DOMAIN planOps[q] \subseteq 1 .. MaxOps
  BY DEF TypeInv, LogInv, Logs, TablesTyped, LogsTyped
<1>2. PICK log, more : log = planOps[p] /\ more = [t \in DOMAIN log \cup {s} |-> IF t = s THEN op ELSE log[t]]
  OBVIOUS
<1>3. planOps' = [planOps EXCEPT ![p] = more]
  BY <1>2 DEF InsertOp
<1>4. p \in Plan => more \in [DOMAIN more -> Operation] /\ DOMAIN more \subseteq 1 .. MaxOps
  BY <1>1, <1>2
<1>5. ASSUME NEW q \in Plan
      PROVE  /\ planOps'[q] \in [DOMAIN planOps'[q] -> Operation]
             /\ DOMAIN planOps'[q] \subseteq 1 .. MaxOps
  BY <1>1, <1>3, <1>4
<1>6. DOMAIN planOps' = Plan
  BY <1>1, <1>3
<1>7. QED BY <1>5, <1>6 DEF LogsTyped

\* Create: what it was sent fits a log, and it makes a whole row of it.
LEMMA CreateTyped ==
  ASSUME TypeInv, NEW w \in Worker, Creating(w)
  PROVE  TablesTyped' /\ TypeOwn(w)'
PROOF
<1>1. /\ Requests /\ TypeOwn(w) /\ TablesTyped
      /\ UNCHANGED <<cfgStatus, blocks, checkpoints, wear, certs>>
  BY TypeFacts, CreateMoves DEF TypeInv
<1>2. CfgTyped' /\ MarksTyped' /\ WearTyped' /\ CertsTyped'
  BY <1>1, SameTyped
<1>3. MutexTyped'
  BY <1>1, SameTyped DEF Creating, CreateCall, CreateLock, CreateConfig, CreateFind, CreateRow,
     CreateOp, CreateReturn, MutexTyped
<1>4. PICK r : r = req[w]
  OBVIOUS
<1>5. ASSUME NEW ops \in Batch, NEW numbered \in Numbering, CreateCall(w, ops, numbered)
      PROVE  UNCHANGED <<plans, planOps>> /\ TypeOwn(w)'
  <2>1. req'[w] = [pc |-> "create_lock", ops |-> ops, numbered |-> numbered]
    BY <1>1, <1>5, BecomeOwn DEF CreateCall, Record
  <2>2. ops \in Seq(Operation) /\ Len(ops) <= MaxOps /\ numbered \in BOOLEAN
    BY BatchOps, StoreAssumption
  <2>3. TypeOwn(w)'
    BY <2>1, <2>2 DEF TypeOwn, CreatePc, AppendPc, SimulatePc, OnPlan
  <2>4. QED BY <1>5, <2>3 DEF CreateCall, tables
<1>6. ASSUME CreateLock(w) \/ CreateConfig(w) \/ CreateFind(w)
      PROVE  UNCHANGED <<plans, planOps>> /\ TypeOwn(w)'
  <2>1. /\ {"ops", "numbered"} \subseteq DOMAIN r /\ r.ops \in Seq(Operation)
        /\ r.numbered \in BOOLEAN /\ Len(r.ops) <= MaxOps
        /\ CreateFind(w) => r.ops # << >>
    BY <1>1, <1>4, <1>6 DEF CreateLock, CreateConfig, CreateFind, At, TypeOwn, CreatePc
  <2>2. \/ req'[w].pc = "idle"
        \/ /\ req'[w].ops = r.ops /\ req'[w].numbered = r.numbered /\ DOMAIN req'[w] = DOMAIN r
           /\ \/ req'[w].pc = "create_config"
              \/ req'[w].pc \in {"create_find", "create_row"} /\ r.ops # << >>
    BY <1>1, <1>4, <1>6, <2>1, AdvanceOwn, DoneOwn
       DEF CreateLock, CreateConfig, CreateFind, CreateReturn
  <2>3. TypeOwn(w)'
    BY <2>1, <2>2 DEF TypeOwn, CreatePc, AppendPc, SimulatePc, OnPlan
  <2>4. QED BY <1>6, <2>3 DEF CreateLock, CreateConfig, CreateFind, tables
<1>7. ASSUME CreateRow(w)
      PROVE  PlansTyped' /\ UNCHANGED planOps /\ TypeOwn(w)'
  <2>1. /\ {"ops", "numbered"} \subseteq DOMAIN r /\ r.ops \in Seq(Operation) /\ r.ops # << >>
        /\ r.numbered \in BOOLEAN /\ Len(r.ops) <= MaxOps
    BY <1>1, <1>4, <1>7 DEF CreateRow, At, TypeOwn, CreatePc
  <2>2. PICK k, hash, count, row :
          /\ k = Len(plans) /\ hash = HashOps(r.ops, r.numbered) /\ count = Len(r.ops)
          /\ row = [status |-> "editing", hash |-> hash, opCount |-> count, cursor |-> 0, step |-> 0]
    OBVIOUS
  <2>3. count \in Nat /\ count # 0
    BY <2>1, <2>2, LenProperties, EmptySeq
  <2>4. row \in PlanRecord
    BY <2>1, <2>2, <2>3 DEF PlanRecord, PlanStatus, Hash, HashOps
  <2>5. plans \in Seq(PlanRecord) /\ k \in Nat /\ k <= MaxPlans
    BY <1>1, <2>2, LenProperties DEF TablesTyped, PlansTyped
  <2>6. \/ UNCHANGED plans /\ req'[w].pc = "idle"
        \/ /\ k # MaxPlans /\ plans' = Append(plans, row)
           /\ req'[w] = [pc |-> "create_op", plan |-> k + 1, ops |-> r.ops, done |-> 0]
    BY <1>1, <1>4, <1>7, <2>2, BecomeOwn, DoneOwn DEF CreateRow, CreateReturn, Record
  <2>7. PlansTyped'
    <3>1. CASE UNCHANGED plans
      BY <1>1, <3>1, SameTyped
    <3>2. CASE k # MaxPlans /\ plans' = Append(plans, row)
      <4>1. plans' \in Seq(PlanRecord) /\ Len(plans') = k + 1
        BY <2>2, <2>4, <2>5, <3>2, AppendProperties
      <4>2. k + 1 <= MaxPlans
        BY <2>5, <3>2, StoreAssumption
      <4>3. QED BY <4>1, <4>2 DEF PlansTyped
    <3>3. QED BY <2>6, <3>1, <3>2
  <2>8. TypeOwn(w)'
    <3>1. 0 \in 0 .. count - 1
      BY <2>3
    <3>2. QED BY <2>1, <2>2, <2>6, <3>1 DEF TypeOwn, Sent, CreatePc, AppendPc, SimulatePc, OnPlan
  <2>9. QED BY <1>7, <2>7, <2>8 DEF CreateRow
<1>8. ASSUME CreateOp(w)
      PROVE  UNCHANGED plans /\ LogsTyped' /\ TypeOwn(w)'
  <2>1. PICK s, op : s = r.done + 1 /\ op = r.ops[s]
    OBVIOUS
  <2>2. Sent(r) /\ Len(r.ops) <= MaxOps /\ r.pc = "create_op"
    BY <1>1, <1>4, <1>8 DEF CreateOp, At, TypeOwn, CreatePc
  <2>3. op \in Operation /\ Len(r.ops) \in Nat
    BY <2>1, <2>2, SentOp, LenProperties DEF Sent
  <2>4. s \in 1 .. MaxOps /\ (s # Len(r.ops) => s \in 0 .. Len(r.ops) - 1)
    BY <2>1, <2>2, <2>3, StoreAssumption DEF Sent
  <2>5. UNCHANGED planOps \/ InsertOp(r.plan, s, op)
    BY <1>4, <1>8, <2>1 DEF CreateOp
  <2>6. LogsTyped'
    BY <1>1, <2>3, <2>4, <2>5, InsertTyped, SameTyped
  <2>7. Done(w) \/ (s # Len(r.ops) /\ Become(w, [r EXCEPT !.done = s]))
    BY <1>4, <1>8, <2>1 DEF CreateOp, CreateReturn
  <2>8. \/ req'[w].pc = "idle"
        \/ /\ s # Len(r.ops) /\ req'[w].pc = "create_op" /\ DOMAIN req'[w] = DOMAIN r
           /\ req'[w].ops = r.ops /\ req'[w].done = s
    <3>1. CASE Done(w)
      BY <1>1, <3>1, DoneOwn
    <3>2. CASE s # Len(r.ops) /\ Become(w, [r EXCEPT !.done = s])
      BY <1>1, <1>4, <2>2, <3>2, CountedOn DEF Sent
    <3>3. QED BY <2>7, <3>1, <3>2
  <2>9. TypeOwn(w)'
    BY <2>2, <2>4, <2>8 DEF TypeOwn, Sent, CreatePc, AppendPc, SimulatePc, OnPlan
  <2>10. QED BY <1>8, <2>6, <2>9 DEF CreateOp
<1>9. PlansTyped' /\ LogsTyped' /\ TypeOwn(w)'
  BY <1>1, <1>5, <1>6, <1>7, <1>8, SameTyped DEF Creating
<1>10. QED BY <1>2, <1>3, <1>9 DEF TablesTyped

\* A status is written over another.
LEMMA StatusTyped ==
  ASSUME TablesTyped, NEW p, NEW status \in PlanStatus, SetStatus(p, status)
  PROVE  PlansTyped'
PROOF
<1>1. plans \in Seq(PlanRecord) /\ Len(plans) <= MaxPlans
  BY DEF TablesTyped, PlansTyped
<1>2. PICK row : row = [plans[p] EXCEPT !.status = status]
  OBVIOUS
<1>3. p \in DOMAIN plans => row \in PlanRecord
  <2>1. p \in DOMAIN plans => plans[p] \in PlanRecord
    BY <1>1, LenProperties, ElementOfSeq
  <2>2. QED BY <1>2, <2>1 DEF PlanRecord
<1>4. plans' = [plans EXCEPT ![p] = row]
  BY <1>2 DEF SetStatus
<1>5. QED BY <1>1, <1>3, <1>4, RowTyped DEF PlansTyped

\* AppendOps: what it inserts fits the log it counted.
LEMMA AppendTyped ==
  ASSUME TypeInv, NEW w \in Worker, Appending(w)
  PROVE  TablesTyped' /\ TypeOwn(w)'
PROOF
<1>1. /\ Requests /\ TypeOwn(w) /\ TablesTyped
      /\ UNCHANGED <<cfgStatus, blocks, checkpoints, wear, certs, createMu>>
  BY TypeFacts, AppendMoves DEF TypeInv
<1>2. CfgTyped' /\ MarksTyped' /\ WearTyped' /\ CertsTyped' /\ MutexTyped'
  BY <1>1, SameTyped
<1>3. PICK r : r = req[w]
  OBVIOUS
<1>4. ASSUME NEW p \in Plan, NEW ops \in Batch, AppendGet(w, p, ops)
      PROVE  UNCHANGED <<plans, planOps>> /\ TypeOwn(w)'
  <2>1. req'[w] = [pc |-> "append_count", plan |-> p, ops |-> ops]
    BY <1>1, <1>4, BecomeOwn DEF AppendGet, Record
  <2>2. ops \in Seq(Operation)
    BY BatchOps
  <2>3. TypeOwn(w)'
    BY <2>1, <2>2 DEF TypeOwn, CreatePc, AppendPc, SimulatePc, OnPlan
  <2>4. QED BY <1>4, <2>3 DEF AppendGet, tables
<1>5. ASSUME AppendCount(w) PROVE UNCHANGED <<plans, planOps>> /\ TypeOwn(w)'
  <2>1. /\ "plan" \in DOMAIN r /\ r.plan \in Plan /\ "ops" \in DOMAIN r /\ r.ops \in Seq(Operation)
    BY <1>1, <1>3, <1>5 DEF AppendCount, At, TypeOwn, OnPlan, AppendPc
  <2>2. PICK p, start, size : p = r.plan /\ start = Count(p) /\ size = Len(r.ops)
    OBVIOUS
  <2>3. start \in Nat /\ size \in Nat /\ (r.ops # << >> => 0 \in 0 .. size - 1)
    <3>1. start \in 0 .. MaxOps
      BY <2>1, <2>2, TypeFacts
    <3>2. MaxOps \in Nat
      BY StoreAssumption
    <3>3. QED BY <2>1, <2>2, <3>1, <3>2, EmptySeq, LenProperties
  <2>4. \/ req'[w].pc = "idle"
        \/ /\ ~(start + size > MaxOps)
           /\ req'[w] = [pc |-> IF r.ops = << >> THEN "append_list" ELSE "append_op",
                         plan |-> p, ops |-> r.ops, start |-> start, done |-> 0]
    BY <1>1, <1>3, <1>5, <2>2, BecomeOwn, DoneOwn DEF AppendCount, Record
  <2>5. start + size <= MaxOps \/ start + size > MaxOps
    BY <2>3, StoreAssumption
  <2>6. TypeOwn(w)'
    BY <2>1, <2>2, <2>3, <2>4, <2>5 DEF TypeOwn, Sent, CreatePc, AppendPc, SimulatePc, OnPlan
  <2>7. QED BY <1>5, <2>6 DEF AppendCount, tables
<1>6. ASSUME AppendOp(w) PROVE UNCHANGED plans /\ LogsTyped' /\ TypeOwn(w)'
  <2>1. PICK i, s, op : i = r.done + 1 /\ s = r.start + i /\ op = r.ops[i]
    OBVIOUS
  <2>2. /\ Sent(r) /\ r.pc = "append_op" /\ {"plan", "start"} \subseteq DOMAIN r
        /\ r.plan \in Plan /\ r.start \in Nat /\ r.start + Len(r.ops) <= MaxOps
    BY <1>1, <1>3, <1>6 DEF AppendOp, At, TypeOwn, OnPlan, AppendPc
  <2>3. op \in Operation /\ Len(r.ops) \in Nat
    BY <2>1, <2>2, SentOp, LenProperties DEF Sent
  <2>4. s \in 1 .. MaxOps /\ (i # Len(r.ops) => i \in 0 .. Len(r.ops) - 1)
    BY <2>1, <2>2, <2>3, StoreAssumption DEF Sent
  <2>5. UNCHANGED planOps \/ InsertOp(r.plan, s, op)
    BY <1>3, <1>6, <2>1 DEF AppendOp
  <2>6. LogsTyped'
    BY <1>1, <2>3, <2>4, <2>5, InsertTyped, SameTyped
  <2>7. \/ Done(w) \/ Advance(w, "append_list")
        \/ i # Len(r.ops) /\ Become(w, [r EXCEPT !.done = i])
    BY <1>3, <1>6, <2>1 DEF AppendOp
  <2>8. \/ req'[w].pc = "idle"
        \/ /\ req'[w].pc = "append_list" /\ "plan" \in DOMAIN req'[w] /\ req'[w].plan = r.plan
        \/ /\ i # Len(r.ops) /\ req'[w].pc = "append_op" /\ DOMAIN req'[w] = DOMAIN r
           /\ req'[w].ops = r.ops /\ req'[w].done = i
           /\ req'[w].plan = r.plan /\ req'[w].start = r.start
    <3>1. CASE Done(w)
      BY <1>1, <3>1, DoneOwn
    <3>2. CASE Advance(w, "append_list")
      BY <1>1, <1>3, <2>2, <3>2, AdvanceOwn
    <3>3. CASE i # Len(r.ops) /\ Become(w, [r EXCEPT !.done = i])
      BY <1>1, <1>3, <2>2, <3>3, CountedOn DEF Sent
    <3>4. QED BY <2>7, <3>1, <3>2, <3>3
  <2>9. TypeOwn(w)'
    BY <2>2, <2>4, <2>8 DEF TypeOwn, Sent, CreatePc, AppendPc, SimulatePc, OnPlan
  <2>10. QED BY <1>6, <2>6, <2>9 DEF AppendOp
<1>7. ASSUME AppendList(w) PROVE UNCHANGED <<plans, planOps>> /\ TypeOwn(w)'
  <2>1. r.plan \in Plan
    BY <1>1, <1>3, <1>7 DEF AppendList, At, TypeOwn, OnPlan, AppendPc
  <2>2. PICK all : all = List(r.plan) /\ all \in Seq(Operation)
    BY <2>1, TypeFacts
  <2>3. req'[w] = [pc |-> "append_status", plan |-> r.plan, all |-> all]
    BY <1>1, <1>3, <1>7, <2>2, BecomeOwn DEF AppendList, Record
  <2>4. TypeOwn(w)'
    BY <2>1, <2>2, <2>3 DEF TypeOwn, CreatePc, AppendPc, SimulatePc, OnPlan
  <2>5. QED BY <1>7, <2>4 DEF AppendList, tables
<1>8. ASSUME AppendStatus(w) PROVE PlansTyped' /\ UNCHANGED planOps /\ TypeOwn(w)'
  <2>1. /\ {"plan", "all"} \subseteq DOMAIN r /\ r.plan \in Plan /\ r.all \in Seq(Operation)
    BY <1>1, <1>3, <1>8 DEF AppendStatus, At, TypeOwn, OnPlan, AppendPc
  <2>2. /\ req'[w].pc = "append_hash" /\ DOMAIN req'[w] = DOMAIN r
        /\ req'[w].plan = r.plan /\ req'[w].all = r.all
    BY <1>1, <1>3, <1>8, <2>1, AdvanceOwn DEF AppendStatus
  <2>3. TypeOwn(w)'
    BY <2>1, <2>2 DEF TypeOwn, CreatePc, AppendPc, SimulatePc, OnPlan
  <2>4. SetStatus(r.plan, "editing")
    BY <1>3, <1>8 DEF AppendStatus
  <2>5. PlansTyped'
    BY <1>1, <2>4, StatusTyped DEF PlanStatus
  <2>6. QED BY <1>8, <2>3, <2>5 DEF AppendStatus
<1>9. ASSUME AppendHash(w) PROVE PlansTyped' /\ UNCHANGED planOps /\ TypeOwn(w)'
  <2>1. r.all \in Seq(Operation)
    BY <1>1, <1>3, <1>9 DEF AppendHash, At, TypeOwn
  <2>2. PICK p, hash, count, half, row :
          /\ p = r.plan /\ hash = HashOps(r.all, TRUE) /\ count = Len(r.all)
          /\ half = [plans[p] EXCEPT !.hash = hash] /\ row = [half EXCEPT !.opCount = count]
    OBVIOUS
  <2>3. count \in Nat /\ hash \in Hash
    BY <2>1, <2>2, LenProperties DEF Hash, HashOps
  <2>4. plans \in Seq(PlanRecord) /\ Len(plans) <= MaxPlans
    BY <1>1 DEF TablesTyped, PlansTyped
  <2>5. p \in DOMAIN plans => row \in PlanRecord
    <3>1. p \in DOMAIN plans => plans[p] \in PlanRecord
      BY <2>4, LenProperties, ElementOfSeq
    <3>2. QED BY <2>2, <2>3, <3>1 DEF PlanRecord
  <2>6. UNCHANGED plans \/ plans' = [plans EXCEPT ![p].hash = hash, ![p].opCount = count]
    BY <1>3, <1>9, <2>2 DEF AppendHash
  <2>7. UNCHANGED plans \/ plans' = [plans EXCEPT ![p] = row]
    BY <2>2, <2>6
  <2>8. PlansTyped'
    BY <1>1, <2>4, <2>5, <2>7, RowTyped, SameTyped DEF PlansTyped
  <2>9. req'[w].pc = "idle"
    BY <1>1, <1>9, DoneOwn DEF AppendHash
  <2>10. TypeOwn(w)'
    BY <2>9 DEF TypeOwn, CreatePc, AppendPc, SimulatePc, OnPlan
  <2>11. QED BY <1>9, <2>8, <2>10 DEF AppendHash
<1>10. PlansTyped' /\ LogsTyped' /\ TypeOwn(w)'
  BY <1>1, <1>4, <1>5, <1>6, <1>7, <1>8, <1>9, SameTyped DEF Appending
<1>11. QED BY <1>2, <1>10 DEF TablesTyped

\* Simulate: the verdict of a run over a log, checkpoints and rows of their types.
LEMMA SimulateTyped ==
  ASSUME TypeInv, NEW w \in Worker, Simulating(w)
  PROVE  TablesTyped' /\ TypeOwn(w)'
PROOF
<1>1. /\ Requests /\ TypeOwn(w) /\ TablesTyped
      /\ UNCHANGED <<cfgStatus, blocks, planOps, checkpoints, certs, createMu>>
  BY TypeFacts, SimulateMoves DEF TypeInv
<1>2. CfgTyped' /\ LogsTyped' /\ MarksTyped' /\ CertsTyped' /\ MutexTyped'
  BY <1>1, SameTyped
<1>3. PICK r, p : r = req[w] /\ p = r.plan
  OBVIOUS
<1>4. ASSUME NEW q \in Plan, SimulateGet(w, q) PROVE UNCHANGED <<plans, wear>> /\ TypeOwn(w)'
  <2>1. req'[w] = [pc |-> "sim_blocks", plan |-> q]
    BY <1>1, <1>4, BecomeOwn DEF SimulateGet, Record
  <2>2. TypeOwn(w)'
    BY <2>1 DEF TypeOwn, CreatePc, AppendPc, SimulatePc, OnPlan
  <2>3. QED BY <1>4, <2>2 DEF SimulateGet, tables
<1>5. ASSUME SimulateBlocks(w) PROVE UNCHANGED <<plans, wear>> /\ TypeOwn(w)'
  <2>1. p \in Plan /\ blocks \in Rows
    BY <1>1, <1>3, <1>5, TypeFacts DEF SimulateBlocks, At, TypeOwn, OnPlan, SimulatePc
  <2>2. req'[w] = [pc |-> "sim_ops", plan |-> p, rows |-> blocks]
    BY <1>1, <1>3, <1>5, BecomeOwn DEF SimulateBlocks, Record
  <2>3. TypeOwn(w)'
    BY <2>1, <2>2 DEF TypeOwn, CreatePc, AppendPc, SimulatePc, OnPlan
  <2>4. QED BY <1>5, <2>3 DEF SimulateBlocks, tables
<1>6. ASSUME SimulateOps(w) PROVE UNCHANGED <<plans, wear>> /\ TypeOwn(w)'
  <2>1. p \in Plan /\ r.rows \in Rows
    BY <1>1, <1>3, <1>6 DEF SimulateOps, At, TypeOwn, OnPlan, SimulatePc
  <2>2. PICK ops : ops = List(p) /\ ops \in Seq(Operation)
    BY <2>1, TypeFacts
  <2>3. req'[w] = [pc |-> "sim_run", plan |-> p, rows |-> r.rows, ops |-> ops]
    BY <1>1, <1>3, <1>6, <2>2, BecomeOwn DEF SimulateOps, Record
  <2>4. TypeOwn(w)'
    BY <2>1, <2>2, <2>3 DEF TypeOwn, CreatePc, AppendPc, SimulatePc, OnPlan
  <2>5. QED BY <1>6, <2>4 DEF SimulateOps, tables
<1>7. ASSUME SimulateRun(w) PROVE UNCHANGED <<plans, wear>> /\ TypeOwn(w)'
  <2>1. p \in Plan /\ r.rows \in Rows /\ r.ops \in Seq(Operation)
    BY <1>1, <1>3, <1>7 DEF SimulateRun, At, TypeOwn, OnPlan, SimulatePc
  <2>2. PICK cursors : cursors = checkpoints[p] /\ cursors \subseteq 1 .. MaxOps
    BY <1>1, <2>1 DEF TablesTyped, MarksTyped
  <2>3. PICK end : end = Outcome(r.ops, cursors, r.rows)
    OBVIOUS
  <2>4. \/ req'[w].pc = "idle"
        \/ /\ end.status # "error"
           /\ \E pc \in {"sim_verdict", "sim_wear"} : req'[w] = [pc |-> pc, plan |-> p, end |-> end]
    BY <1>1, <1>3, <1>7, <2>2, <2>3, BecomeOwn, DoneOwn DEF SimulateRun, Record
  <2>5. end.status # "error" => Ending(end)
    BY <2>1, <2>2, <2>3, OutcomeTyped
  <2>6. TypeOwn(w)'
    BY <2>1, <2>4, <2>5 DEF TypeOwn, CreatePc, AppendPc, SimulatePc, OnPlan
  <2>7. QED BY <1>7, <2>6 DEF SimulateRun, tables
<1>8. ASSUME SimulateWear(w) PROVE UNCHANGED plans /\ WearTyped' /\ TypeOwn(w)'
  <2>1. /\ {"plan", "end"} \subseteq DOMAIN r /\ p \in Plan /\ Ending(r.end)
    BY <1>1, <1>3, <1>8 DEF SimulateWear, At, TypeOwn, OnPlan, SimulatePc
  <2>2. /\ req'[w].pc = "sim_verdict" /\ DOMAIN req'[w] = DOMAIN r
        /\ req'[w].plan = p /\ req'[w].end = r.end
    BY <1>1, <1>3, <1>8, <2>1, AdvanceOwn DEF SimulateWear
  <2>3. TypeOwn(w)'
    BY <2>1, <2>2 DEF TypeOwn, CreatePc, AppendPc, SimulatePc, OnPlan
  <2>4. PICK curve \in r.end.saved : wear' = [wear EXCEPT ![p] = curve]
    BY <1>3, <1>8 DEF SimulateWear
  <2>5. Curve(curve)
    BY <2>1 DEF Ending
  <2>6. DOMAIN wear = Plan /\ \A q \in Plan : Curve(wear[q])
    BY <1>1 DEF TablesTyped, WearTyped
  <2>7. DOMAIN wear' = Plan /\ \A q \in Plan : wear'[q] = curve \/ wear'[q] = wear[q]
    BY <2>4, <2>6
  <2>8. \A q \in Plan : Curve(wear'[q])
    BY <2>5, <2>6, <2>7
  <2>9. QED BY <1>8, <2>3, <2>7, <2>8 DEF SimulateWear, WearTyped, Curve
<1>9. ASSUME SimulateVerdict(w) PROVE PlansTyped' /\ UNCHANGED wear /\ TypeOwn(w)'
  <2>1. PICK end, row :
          /\ end = r.end
          /\ row = [plans[p] EXCEPT !.status = end.status, !.cursor = end.cursor, !.step = end.step]
    OBVIOUS
  <2>2. end.status \in PlanStatus /\ end.cursor \in Nat /\ end.step \in Nat
    BY <1>1, <1>3, <1>9, <2>1 DEF SimulateVerdict, At, TypeOwn, Ending
  <2>3. plans \in Seq(PlanRecord) /\ Len(plans) <= MaxPlans
    BY <1>1 DEF TablesTyped, PlansTyped
  <2>4. p \in DOMAIN plans => row \in PlanRecord
    <3>1. p \in DOMAIN plans => plans[p] \in PlanRecord
      BY <2>3, LenProperties, ElementOfSeq
    <3>2. QED BY <2>1, <2>2, <3>1 DEF PlanRecord
  <2>5. plans' = [plans EXCEPT ![p] = row]
    BY <1>3, <1>9, <2>1 DEF SimulateVerdict
  <2>6. PlansTyped'
    BY <2>3, <2>4, <2>5, RowTyped DEF PlansTyped
  <2>7. req'[w].pc = "idle"
    BY <1>1, <1>9, DoneOwn DEF SimulateVerdict
  <2>8. TypeOwn(w)'
    BY <2>7 DEF TypeOwn, CreatePc, AppendPc, SimulatePc, OnPlan
  <2>9. QED BY <1>9, <2>6, <2>8 DEF SimulateVerdict
<1>10. PlansTyped' /\ WearTyped' /\ TypeOwn(w)'
  BY <1>1, <1>4, <1>5, <1>6, <1>7, <1>8, <1>9, SameTyped DEF Simulating
<1>11. QED BY <1>2, <1>10 DEF TablesTyped

\* Checkpoint: the cursor was in a log.
LEMMA CheckpointTyped ==
  ASSUME TypeInv, NEW w \in Worker, Checkpointing(w)
  PROVE  TablesTyped' /\ TypeOwn(w)'
PROOF
<1>1. /\ Requests /\ TypeOwn(w) /\ TablesTyped
      /\ UNCHANGED <<cfgStatus, blocks, plans, planOps, wear, certs, createMu>>
  BY TypeFacts, CheckpointMoves DEF TypeInv
<1>2. CfgTyped' /\ PlansTyped' /\ LogsTyped' /\ WearTyped' /\ CertsTyped' /\ MutexTyped'
  BY <1>1, SameTyped
<1>3. ASSUME NEW p \in Plan, NEW cursor, CheckpointRead(w, p, cursor)
      PROVE  MarksTyped' /\ TypeOwn(w)'
  <2>1. req'[w] = [pc |-> "cp_insert", plan |-> p, cursor |-> cursor]
    BY <1>1, <1>3, BecomeOwn DEF CheckpointRead, Record
  <2>2. cursor \in 1 .. Count(p) /\ Count(p) \in 0 .. MaxOps
    BY <1>3, TypeFacts DEF CheckpointRead
  <2>3. cursor \in 1 .. MaxOps
    BY <2>2, StoreAssumption
  <2>4. TypeOwn(w)'
    BY <2>1, <2>3 DEF TypeOwn, CreatePc, AppendPc, SimulatePc, OnPlan
  <2>5. QED BY <1>1, <1>3, <2>4, SameTyped DEF CheckpointRead, tables
<1>4. ASSUME CheckpointInsert(w) PROVE MarksTyped' /\ TypeOwn(w)'
  <2>1. PICK p, s : p = req[w].plan /\ s = req[w].cursor
    OBVIOUS
  <2>2. s \in 1 .. MaxOps
    BY <1>1, <1>4, <2>1 DEF CheckpointInsert, At, TypeOwn
  <2>3. checkpoints' = [checkpoints EXCEPT ![p] = @ \cup {s}]
    BY <1>4, <2>1 DEF CheckpointInsert
  <2>4. MarksTyped'
    BY <1>1, <2>2, <2>3 DEF TablesTyped, MarksTyped
  <2>5. req'[w].pc = "idle"
    BY <1>1, <1>4, DoneOwn DEF CheckpointInsert
  <2>6. QED BY <2>4, <2>5 DEF TypeOwn, CreatePc, AppendPc, SimulatePc, OnPlan
<1>5. QED BY <1>2, <1>3, <1>4 DEF Checkpointing, TablesTyped

\* Issue and Revoke: a certificate carries what its plan and its client gave.
LEMMA CertTyped ==
  ASSUME TypeInv, NEW w \in Worker, Certifying(w)
  PROVE  TablesTyped' /\ TypeOwn(w)'
PROOF
<1>1. /\ Requests /\ TypeOwn(w) /\ TablesTyped
      /\ UNCHANGED <<cfgStatus, blocks, planOps, checkpoints, wear, createMu>>
  BY TypeFacts, CertMoves DEF TypeInv
<1>2. CfgTyped' /\ LogsTyped' /\ MarksTyped' /\ WearTyped' /\ MutexTyped'
  BY <1>1, SameTyped
<1>3. PICK r : r = req[w]
  OBVIOUS
<1>4. ASSUME NEW p \in Plan, IssueGet(w, p) PROVE UNCHANGED <<plans, certs>> /\ TypeOwn(w)'
  <2>1. PICK hash : hash = plans[p].hash
    OBVIOUS
  <2>2. hash \in Hash
    <3>1. plans \in Seq(PlanRecord) /\ p \in DOMAIN plans
      BY <1>1, <1>4 DEF TablesTyped, PlansTyped, IssueGet, Exists
    <3>2. plans[p] \in PlanRecord
      BY <3>1, LenProperties, ElementOfSeq
    <3>3. QED BY <2>1, <3>2 DEF PlanRecord
  <2>3. req'[w] = [pc |-> "issue_config", plan |-> p, hash |-> hash]
    BY <1>1, <1>4, <2>1, BecomeOwn DEF IssueGet, Record
  <2>4. TypeOwn(w)'
    BY <2>2, <2>3 DEF TypeOwn, CreatePc, AppendPc, SimulatePc, OnPlan
  <2>5. QED BY <1>4, <2>4 DEF IssueGet, tables
<1>5. ASSUME IssueConfig(w) PROVE UNCHANGED <<plans, certs>> /\ TypeOwn(w)'
  <2>1. {"plan", "hash"} \subseteq DOMAIN r /\ r.plan \in Plan /\ r.hash \in Hash
    BY <1>1, <1>3, <1>5 DEF IssueConfig, At, TypeOwn, OnPlan
  <2>2. \/ req'[w].pc = "idle"
        \/ /\ req'[w].pc = "issue_insert" /\ DOMAIN req'[w] = DOMAIN r
           /\ req'[w].plan = r.plan /\ req'[w].hash = r.hash
    BY <1>1, <1>3, <1>5, <2>1, AdvanceOwn, DoneOwn DEF IssueConfig
  <2>3. TypeOwn(w)'
    BY <2>1, <2>2 DEF TypeOwn, CreatePc, AppendPc, SimulatePc, OnPlan
  <2>4. QED BY <1>5, <2>3 DEF IssueConfig, tables
<1>6. ASSUME IssueInsert(w) PROVE UNCHANGED plans /\ CertsTyped' /\ TypeOwn(w)'
  <2>1. r.plan \in Plan /\ r.hash \in Hash
    BY <1>1, <1>3, <1>6 DEF IssueInsert, At, TypeOwn, OnPlan
  <2>2. PICK row, k : /\ row = [plan |-> r.plan, hash |-> r.hash, status |-> "published",
                                reason |-> "none"]
                      /\ k = Len(certs)
    OBVIOUS
  <2>3. row \in CertRecord
    BY <2>1, <2>2 DEF CertRecord
  <2>4. certs \in Seq(CertRecord) /\ k \in Nat /\ k <= MaxCerts
    BY <1>1, <2>2, LenProperties DEF TablesTyped, CertsTyped
  <2>5. \/ UNCHANGED certs /\ req'[w].pc = "idle"
        \/ k # MaxCerts /\ certs' = Append(certs, row) /\ req'[w].pc = "issue_publish"
    BY <1>1, <1>3, <1>6, <2>2, BecomeOwn, DoneOwn DEF IssueInsert, Record
  <2>6. CertsTyped'
    <3>1. CASE UNCHANGED certs
      BY <1>1, <3>1, SameTyped
    <3>2. CASE k # MaxCerts /\ certs' = Append(certs, row)
      <4>1. certs' \in Seq(CertRecord) /\ Len(certs') = k + 1
        BY <2>2, <2>3, <2>4, <3>2, AppendProperties
      <4>2. k + 1 <= MaxCerts
        BY <2>4, <3>2, StoreAssumption
      <4>3. QED BY <4>1, <4>2 DEF CertsTyped
    <3>3. QED BY <2>5, <3>1, <3>2
  <2>7. TypeOwn(w)'
    BY <2>5 DEF TypeOwn, CreatePc, AppendPc, SimulatePc, OnPlan
  <2>8. QED BY <1>6, <2>6, <2>7 DEF IssueInsert
<1>7. ASSUME IssuePublish(w) PROVE PlansTyped' /\ UNCHANGED certs /\ TypeOwn(w)'
  <2>1. SetStatus(r.plan, "published")
    BY <1>3, <1>7 DEF IssuePublish
  <2>2. PlansTyped'
    BY <1>1, <2>1, StatusTyped DEF PlanStatus
  <2>3. req'[w].pc = "idle"
    BY <1>1, <1>7, DoneOwn DEF IssuePublish
  <2>4. TypeOwn(w)'
    BY <2>3 DEF TypeOwn, CreatePc, AppendPc, SimulatePc, OnPlan
  <2>5. QED BY <1>7, <2>2, <2>4 DEF IssuePublish
<1>8. ASSUME NEW c, NEW reason \in Reason, RevokeGet(w, c, reason)
      PROVE  UNCHANGED <<plans, certs>> /\ TypeOwn(w)'
  <2>1. req'[w] = [pc |-> "revoke_write", cert |-> c, reason |-> reason]
    BY <1>1, <1>8, BecomeOwn DEF RevokeGet, Record
  <2>2. TypeOwn(w)'
    BY <2>1 DEF TypeOwn, CreatePc, AppendPc, SimulatePc, OnPlan
  <2>3. QED BY <1>8, <2>2 DEF RevokeGet, tables
<1>9. ASSUME RevokeWrite(w) PROVE UNCHANGED plans /\ CertsTyped' /\ TypeOwn(w)'
  <2>1. PICK c, reason, row :
          /\ c = r.cert /\ reason = r.reason
          /\ row = [certs[c] EXCEPT !.status = "revoked", !.reason = reason]
    OBVIOUS
  <2>2. reason \in Reason
    BY <1>1, <1>3, <1>9, <2>1 DEF RevokeWrite, At, TypeOwn
  <2>3. certs \in Seq(CertRecord) /\ Len(certs) <= MaxCerts
    BY <1>1 DEF TablesTyped, CertsTyped
  <2>4. c \in DOMAIN certs => row \in CertRecord
    <3>1. c \in DOMAIN certs => certs[c] \in CertRecord
      BY <2>3, LenProperties, ElementOfSeq
    <3>2. QED BY <2>1, <2>2, <3>1 DEF CertRecord
  <2>5. certs' = [certs EXCEPT ![c] = row]
    BY <1>3, <1>9, <2>1 DEF RevokeWrite
  <2>6. CertsTyped'
    BY <2>3, <2>4, <2>5, RowTyped DEF CertsTyped
  <2>7. req'[w].pc = "idle"
    BY <1>1, <1>9, DoneOwn DEF RevokeWrite
  <2>8. TypeOwn(w)'
    BY <2>7 DEF TypeOwn, CreatePc, AppendPc, SimulatePc, OnPlan
  <2>9. QED BY <1>9, <2>6, <2>8 DEF RevokeWrite
<1>10. PlansTyped' /\ CertsTyped' /\ TypeOwn(w)'
  BY <1>1, <1>4, <1>5, <1>6, <1>7, <1>8, <1>9, SameTyped DEF Certifying, CertCall, CertStep
<1>11. QED BY <1>2, <1>10 DEF TablesTyped

\* Configuration requests, reports and requests that stop half way.
LEMMA RestTyped ==
  ASSUME TypeInv, NEW w \in Worker, Configuring(w) \/ Reporting(w) \/ Abort(w)
  PROVE  TablesTyped' /\ TypeOwn(w)'
PROOF
<1>1. /\ Requests /\ TablesTyped
      /\ UNCHANGED <<plans, planOps, checkpoints, wear, certs>>
      /\ req'[w].pc \in Bare
  BY TypeFacts, ConfigMoves, ReportMoves, AbortMoves DEF TypeInv, Moves, Bare, tables
<1>2. PlansTyped' /\ LogsTyped' /\ MarksTyped' /\ CertsTyped' /\ WearTyped'
  BY <1>1, SameTyped
<1>3. CfgTyped'
  <2>1. UNCHANGED cfgStatus \/ cfgStatus' \in {"draft", "simulatable", "frozen"}
    <3>1. CASE Configuring(w)
      BY <3>1 DEF Configuring, ConfigCall, ConfigStep, ConfigCreate, MarkBadGet, ReserveGet,
         FreezeGet, ConfigBlocks, MarkBadRead, MarkBadWrite, ReserveRead, ReserveWrite,
         FreezePromote, FreezeWrite, tables
    <3>2. CASE Reporting(w) \/ Abort(w)
      BY <1>1, <3>2, ReportMoves, AbortMoves DEF tables
    <3>3. QED BY <3>1, <3>2
  <2>2. QED BY <1>1, <2>1 DEF TablesTyped, CfgTyped
<1>4. MutexTyped'
  BY <1>1, SameTyped, ConfigMoves, ReportMoves DEF Abort, TablesTyped, MutexTyped
<1>5. TypeOwn(w)'
  BY <1>1 DEF Bare, TypeOwn, CreatePc, AppendPc, SimulatePc, OnPlan, ConfigPc, ReportPc
<1>6. QED BY <1>2, <1>3, <1>4, <1>5 DEF TablesTyped

\* Every step keeps the types.
LEMMA TypeStep == TypeInv /\ [Next]_vars => TypeInv'
PROOF
<1> SUFFICES ASSUME TypeInv, [Next]_vars PROVE TypeInv'
  OBVIOUS
<1>1. LogInv' /\ ConfigInv'
  BY LogStep, ConfigNext DEF TypeInv
<1>2. CASE Next
  <2>1. PICK w \in Worker :
          \/ Creating(w) \/ Appending(w) \/ Simulating(w) \/ Checkpointing(w)
          \/ Certifying(w) \/ Configuring(w) \/ Reporting(w) \/ Abort(w)
    BY <1>2, StepCases
  <2>2. TablesTyped' /\ TypeOwn(w)'
    BY <2>1, CreateTyped, AppendTyped, SimulateTyped, CheckpointTyped, CertTyped, RestTyped
  <2>3. Only(w)
    BY <2>1, CreateMoves, AppendMoves, SimulateMoves, CheckpointMoves, CertMoves, ConfigMoves,
       ReportMoves, AbortMoves DEF TypeInv, LogInv, Moves
  <2>4. ASSUME NEW v \in Worker \ {w} PROVE TypeOwn(v)'
    BY <2>3, <2>4 DEF TypeInv, Only, TypeOwn, Sent
  <2>5. QED BY <1>1, <2>2, <2>4 DEF TypeInv
<1>3. CASE UNCHANGED vars
  <2>1. TablesTyped'
    BY <1>3, SameTyped DEF TypeInv, vars, TablesTyped
  <2>2. \A w \in Worker : TypeOwn(w)'
    BY <1>3 DEF TypeInv, vars, TypeOwn, Sent
  <2>3. QED BY <1>1, <2>1, <2>2 DEF TypeInv
<1>4. QED BY <1>2, <1>3

\* The tables are empty at first, whether or not there is a configuration.
LEMMA TypeStart == (Init => TypeInv) /\ (InitFrozen => TypeInv)
PROOF
<1> SUFFICES ASSUME Init \/ InitFrozen PROVE TypeInv
  OBVIOUS
<1>1. InitStore /\ cfgStatus \in {"absent", "frozen"}
  BY DEF Init, InitFrozen
<1>2. LogInv
  BY <1>1, LogInit
<1>3. ConfigInv
  <2>1. CASE Init
    BY <2>1, ConfigInit
  <2>2. CASE InitFrozen
    <3>1. HasRows
      BY <2>2, FactoryRows DEF InitFrozen, InitialRows, HasRows
    <3>2. QED BY <1>1, <3>1, RequestsInit DEF InitStore, ConfigInv, ConfigOwn, Idle, Naming, Writing
  <2>3. QED BY <2>1, <2>2
<1>4. << >> \in Seq(PlanRecord) /\ << >> \in Seq(CertRecord) /\ Len(<< >>) = 0
  BY EmptySeq
<1>5. PlansTyped /\ CertsTyped /\ MutexTyped /\ MarksTyped /\ CfgTyped
  BY <1>1, <1>4, StoreAssumption
     DEF InitStore, PlansTyped, CertsTyped, MutexTyped, MarksTyped, CfgTyped
<1>6. LogsTyped /\ WearTyped
  <2>1. DOMAIN << >> = {}
    OBVIOUS
  <2>2. QED BY <1>1, <2>1 DEF InitStore, LogsTyped, WearTyped, Curve, NoWear
<1>7. \A w \in Worker : TypeOwn(w)
  BY <1>1 DEF InitStore, Idle, TypeOwn, CreatePc, AppendPc, SimulatePc, OnPlan
<1>8. QED BY <1>2, <1>3, <1>5, <1>6, <1>7 DEF TypeInv, TablesTyped

\* The invariant describes the rows and requests in more detail than TypeOK.
LEMMA TypesOK == TypeInv => TypeOK
PROOF
<1> SUFFICES ASSUME TypeInv PROVE TypeOK
  OBVIOUS
<1>1. blocks \in [Block -> BlockRow]
  <2>1. FactoryRow \subseteq BlockRow /\ NoRow \in BlockRow
    BY DEF FactoryRow, NoRow, Row, BlockRow, BlockStatus
  <2>2. QED BY <2>1 DEF TypeInv, ConfigInv, NoRowYet, HasRows
<1>2. DOMAIN req = Worker
  BY DEF TypeInv, LogInv, Requests
<1>3. /\ cfgStatus \in {"absent", "draft", "simulatable", "frozen"}
      /\ createMu \in Worker \cup {Free} /\ DOMAIN wear = Plan
      /\ checkpoints \in [Plan -> SUBSET (1 .. MaxOps)]
  BY DEF TypeInv, TablesTyped, CfgTyped, MutexTyped, WearTyped, MarksTyped
<1>4. /\ DOMAIN planOps = Plan
      /\ \A p \in Plan : /\ planOps[p] \in [DOMAIN planOps[p] -> Operation]
                         /\ DOMAIN planOps[p] \subseteq 1 .. MaxOps
  BY DEF TypeInv, TablesTyped, LogsTyped
<1>5. plans \in Seq(PlanRecord) /\ Len(plans) <= MaxPlans /\ certs \in Seq(CertRecord)
      /\ Len(certs) <= MaxCerts
  BY DEF TypeInv, TablesTyped, PlansTyped, CertsTyped
<1>6. QED BY <1>1, <1>2, <1>3, <1>4, <1>5 DEF TypeOK, PlanRecord, CertRecord

\* Whatever overlaps or fails, before and after the freeze, the tables hold
\* values of their types and a log has at most MaxOps operations.
THEOREM TypesHold == (Spec => []TypeOK) /\ (SpecFrozen => []TypeOK)
  BY TypeStart, TypeStep, TypesOK, PTL DEF Spec, SpecFrozen
==============================================================================
