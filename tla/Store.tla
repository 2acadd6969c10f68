-------------------------------- MODULE Store --------------------------------
(***************************************************************************)
(* The SQLite tables of one storage configuration (src/internal/store) and *)
(* the request handlers that share them.  The database has one connection  *)
(* (db.go Open), so each statement is atomic and nothing larger is, but    *)
(* for the transaction that replaces a wear curve: a handler of the        *)
(* services is one action per statement that matters, and handlers of      *)
(* different requests interleave between statements.                       *)
(*                                                                         *)
(* req[w] is what worker w, a request being served, holds in its local     *)
(* variables.  Only the database survives a restart.                       *)
(***************************************************************************)
EXTENDS Simulation

CONSTANTS Worker,      \* requests served at the same time
          Free,        \* no worker: the create mutex is not held
          MaxPlans,    \* bound: plan rows
          MaxOps,      \* bound: operations of one plan
          MaxCerts,    \* bound: certificate rows
          MaxMarks,    \* bound: checkpoints of a plan beyond which none is requested
          Batch,       \* the operation sequences clients send
          Reason,      \* the reasons clients give when they revoke
          Numbering,   \* whether clients number the operations they send
          Faults       \* whether a statement may fail or the process crash

Operation == UNION {{batch[i] : i \in DOMAIN batch} : batch \in Batch}

ASSUME StoreAssumption ==
  /\ Free \notin Worker
  /\ MaxPlans \in Nat /\ MaxOps \in Nat /\ MaxCerts \in Nat /\ MaxMarks \in Nat
  /\ \A batch \in Batch : batch \in Seq(Operation) /\ Len(batch) <= MaxOps
  /\ Operation \subseteq PlanOperation
  /\ Numbering \subseteq BOOLEAN /\ Faults \in BOOLEAN

VARIABLES cfgStatus,    \* storage_configs.status
          blocks,       \* physical_blocks
          plans,        \* operation_plans, in creation order
          planOps,      \* plan_ops: per plan, the operation at each sequence number
          checkpoints,  \* checkpoints: per plan, the cursors of its rows
          wear,         \* wear_entries: per plan, the saved curve
          certs,        \* certificates, in issue order
          createMu,     \* PlanService.createMu: its holder, or Free
          req           \* per worker, the request in progress

tables == <<cfgStatus, blocks, plans, planOps, checkpoints, wear, certs>>
vars   == <<cfgStatus, blocks, plans, planOps, checkpoints, wear, certs, createMu, req>>

Plan == 1 .. MaxPlans
Cert == 1 .. MaxCerts

\* hashOps, taken as injective.  It covers the sequence numbers, which a client
\* may leave out when it creates a plan; stored operations always have theirs.
HashOps(ops, numbered) == [ops |-> ops, numbered |-> numbered]

\* Table access.  The unique index on (config_id, plan_hash) and the primary
\* key (plan_id, seq) are what make an insert fail.
Exists(p)       == p \in DOMAIN plans
HashTaken(hash) == \E p \in DOMAIN plans : plans[p].hash = hash
Count(p)        == Cardinality(DOMAIN planOps[p])

\* OpStore.List: the operations ordered by sequence number.
List(p) ==
  [i \in 1 .. Count(p) |->
     planOps[p][CHOOSE s \in DOMAIN planOps[p] :
                  Cardinality({t \in DOMAIN planOps[p] : t <= s}) = i]]

InsertOp(p, s, op) ==
  planOps' = [planOps EXCEPT ![p] = [t \in DOMAIN @ \cup {s} |-> IF t = s THEN op ELSE @[t]]]

SetStatus(p, status) == plans' = [plans EXCEPT ![p].status = status]

\* A request's progress: pc names the statement it executes next.
Idle           == [pc |-> "idle"]
At(w, pc)      == req[w].pc = pc
Become(w, r)   == req' = [req EXCEPT ![w] = r]
Advance(w, pc) == Become(w, [req[w] EXCEPT !.pc = pc])
Done(w)        == Become(w, Idle)

\* A service that has stored no plan yet.
InitStore ==
  /\ plans = << >>
  /\ planOps = [p \in Plan |-> << >>]
  /\ checkpoints = [p \in Plan |-> {}]
  /\ wear = [p \in Plan |-> NoWear]
  /\ certs = << >>
  /\ createMu = Free
  /\ req = [w \in Worker |-> Idle]
=============================================================================
