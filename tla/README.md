# A TLA+ model of nvwear

`nvwear` is a Go service that checks wear budgets of non-volatile storage. A client registers a
chip, freezes it, submits plans of page writes, block erases, relocations, checkpoints and power
losses, has them simulated, and gets a certificate for a plan that passes. This directory holds
TLA+ modules for its core, TLC configurations that check them on small instances, and theorems
that TLAPS checks for every instance. File names below without a directory are under
`src/internal/`.

## Inventory

| Part | State | Operations | What makes it correct |
|---|---|---|---|
| `geometry` | none | capacities, page and block addressing, reserve set, snapshot hash | addressing is a bijection; an accepted chip is not larger than asked for, also when products overflow |
| `mapping` | per run: logical page to physical page, next version of each page | Get, Has, Put, Delete, Range | the table is the replay of the operations |
| `simulator` | per run: block rows, table, accepted steps | Apply (write, erase, relocate, markers), Run | mapped pages live on good blocks; wear counts balance; the loop stops where the engine refuses |
| `recovery` | none | Validate, Recoverable, Replay | a rejected power loss has no checkpoint before it; a replay stops at a power loss |
| `budget` | none | Check, WearEntry, Balance | no block beyond the threshold passes |
| `store` | eight SQLite tables | one statement per method, one transaction for wear curves and one for block rows | keys and unique plan hashes |
| `service/plan_service.go` | plans, operations, checkpoints, wear; the create mutex | Create, AppendOps, Simulate, Checkpoint, Recover | a verdict speaks of the plan's log; logs only grow; creations do not collide; the recovery report agrees with the verdict |
| `service/cert_service.go`, `certificate` | certificates | Issue, Revoke | only plans that passed are certified; a revocation is final |
| `service/config_service.go` | configuration status, block rows | Create, MarkBad, Reserve, Freeze, InitMapping | a frozen configuration does not change |
| `service/stats_service.go` | none | Collect | the counts of one answer fit together |
| `httpapi` | none | decoding, routes, error mapping | requests are the `Call` actions, the rest is not modelled |
| `cmd` | none | flags, server start, smoke test | not modelled |

How they interact: every HTTP request runs in its own goroutine and calls one service method. The
services share the database and nothing else, but for the mutex that `PlanService.Create` holds
from its first line to its return. `Simulate` loads block rows, operations and checkpoints, builds
an engine and a runner in memory, and then asks `recovery` and `budget` for their verdicts.

What is hard: the database has a single connection (`store/db.go:34`), so each statement is atomic,
and a handler of several statements is not. Handlers check a status in one statement and write in a
later one; a failing statement or a crash leaves the first half done; a verdict is written over
whatever the row has become. Dimensions come from the client without a limit, so every product of
them may overflow. The list with lines is under `hazards` in `PROJECT.json`.

## Modules

| Module | Models | How it corresponds |
|---|---|---|
| `Geometry` | `geometry/layout.go`, `ReserveSet` | constants for a layout, operators for its functions, over unbounded numbers |
| `Capacity` | the same functions in machine words, `ComputeGeometry`, the loop of `initBlocks` | state machine of one `Create`: `Refuse`, `Compute`, `Choose`, `Place` (one pass of the loop), `Insert` |
| `Simulator` | `simulator/engine.go`, `mapping/table.go` | an engine is a record; `Verdict` is what `Apply` answers, `Effect` the engine after an accepted operation |
| `Engine` | `simulator/runner.go` | state machine of one run: `Accept` and `Refuse` are one pass of `Run`'s loop |
| `Recovery`, `Budget` | `recovery/validator.go`, `budget/evaluator.go` | operators; the code's loops are folds over one step |
| `Simulation` | `Run`, the decision of `PlanService.Simulate` | `Outcome(ops, cursors, rows)` |
| `Verdicts` | nothing new | what `Recovery`, `Budget` and `Run` answer, compared with what they are for, on the runs of `Engine` |
| `Store` | the tables, the requests in progress | one variable per table; `req[w]` holds a handler's local variables and `pc` names its next statement |
| `PlanService`, `CertService`, `ConfigService` | the handlers that write | one action per statement that matters: a read whose result is used after another request may have written, or a write |
| `ReportService` | `Collect`, `Recover` | one action per read, so others write in between |
| `NvWear` | all services together | `Call` starts a request, `Step` runs its next statement, `Abort` is a failing statement or a crash |
| `PlanLedger` | the abstract promise about plans | refined by `NvWear` (`KeepsLedger`) |
| `Serial`, `Progress`, `Claims` | nothing new | properties of requests one at a time, mutex and liveness, documented claims that fail |
| `FoldProofs` | nothing of the code | induction, folds and sums, for the other proofs |
| `OutcomeProofs`, `EngineProofs`, `CapacityProofs` | `Geometry`, `Recovery`, `Budget`, `Simulation`; `Engine`, `Verdicts`; `Capacity` | theorems about the pure algorithms, the simulator and a configuration's numbers |
| `RequestProofs`, `LedgerProofs`, `PlanProofs`, `SerialProofs` | `NvWear` with its services, `PlanLedger`, `Serial`, `Progress` | theorems about overlapping requests, the refinement, and requests one at a time |

`Engine` and `NvWear` share `Simulator`: the operators that the engine's theorems are about are the
ones a simulation of the service evaluates. `RunAgrees` shows that `Run`, the fold a simulation of
the service evaluates, ends where `Engine` ends step by step. They also meet in `StoredRows`: `Engine`
starts from any of these block tables, and `BlocksAgree` proves that the services leave no other.
`Capacity` is where `Geometry`'s unbounded numbers are justified: `ExactWhenFits` compares the two.

`PlanLedger` says what a client may rely on: a plan's log only grows at its end, a verdict is the
verdict on some prefix of the log with some of the recorded checkpoints, only a plan some prefix of
which can pass is certified, only a certified plan is published. What a verdict is, it takes as the
constant operator `Outcome`; the refinement puts `Simulation`'s in its place. It promises no more,
because the code keeps no more when requests overlap: see the findings.

A few definitions have names that say `Fault:` above them. They are not part of the model. Each is
the form a definition would have if the code had a certain mistake, and `PROJECT.json` names the
property that catches it.

Abstractions, all of them about data that no handler branches on:

- One storage configuration. Configurations share only the create mutex.
- `hashOps` is injective. It covers the sequence numbers the client sent, which are all zero or
  all set (`numbered`, with the values `Numbering` allows); the stored operations always have theirs.
- The persisted mappings table is empty: nothing inserts into it, so an engine starts unmapped and
  `InitMapping` has no effect. The persisted erase counts are zero: nothing calls `IncErase`.
- Names, messages, notes, time stamps, snapshots and snapshot hashes are left out. So is the
  checkpoint's `log_count`, which nothing reads.
- The statuses `worn`, `isolated`, `conflict`, `simulating` and the draft certificate are declared
  in the code and never assigned.
- A request that its first read refuses changes nothing and is not shown.
- A crash of the process is an `Abort` of every request in progress. Nothing survives a restart but
  the tables, and nothing else is shared except the mutex.

## Runs

| Run | Instance | What it shows |
|---|---|---|
| `engine` | 2 blocks of 2 pages, 2 logical pages, budget 2, at most 4 accepted operations, every initial block table | the simulator: `MappedPagesLive`, `MapIsReplay`, `WearLedger`; the service's loop over it: `RunAgrees`; recovery and budget on its runs: `RejectionExact`, `ReplayStopsAtLoss`, `BalanceExplainsCheck` |
| `layout` | five-bit ints, nine sizes of each dimension, four page sizes, five numbers of reserved blocks | what an accepted chip is, overflow or not: `RowsLocateBlocks`, `PagesOnRows`, `NeverOverstated`, `FloorMet`, `ExactWhenFits` |
| `plans` | 2 overlapping requests, 1 plan of at most 3 operations, statements may fail | the log and what refers to it: `OpsContiguous`, `ReferencesInLog`, `RejectionStands`, `CurveOfRun`; plans that passed: `PassedSettles`; the refinement `KeepsLedger` |
| `serial` | 1 request at a time, 2 plans of at most 2 operations, 2 certificates, from an empty service | what the handlers' own checks guarantee without overlap, and what the two reports then say (`StatsAddUp`, `PassedIsRecoverable`) |
| `config` | 3 overlapping requests on a chip of 3 blocks, statements may fail | `BlockRowsAgree`, `FreezeSettles` |
| `progress` | 2 overlapping requests of every kind, reports included, from an empty service | what the create mutex is for: `CreateNeverCollides`, `RequestsFinish` |
| `claim_*` | the smallest instance that shows it | a documented claim the code does not keep |

`engine` and `plans` also check `TypeOK`.

The bounds, and why they are enough:

- `MaxSteps = 4` in `engine`: four operations map, move, erase twice and wear a block out, or put two
  power losses and two checkpoints in every order. The theorems about the engine have no bound.
- `MaxOps = 3` in `plans`: a plan of three operations holds a creation of one and an append of two
  that are cut off half way, or two appends that number alike. Two requests are enough because every
  hazard listed is a pair of requests, or one request and its own half-done predecessor. There is room for
  one certificate, so the second of a plan whose `Issue` was cut off is not inserted in this run; its plan
  being left alone until then is what the run checks. `config`
  has three because a straggler, a freeze and a later request meet there.
- The batches of `serial` make an append that collides with another plan's hash, a plan that passes
  over a power loss, one that is refused for it, and a block that goes hot (`MaxEraseCycles = 3` with a
  threshold of 60 percent: two erases). `<< >>` is a creation without operations.
- `Numbering` has both values in `serial` and `progress`; a creation with numbers meets the hash an
  append has written. In `plans` it has one, which keeps the run short and only removes creations.
- `MaxInt = 15` in `layout`, ints of five bits: three of the four dimensions are enough to overflow
  twice, and the sizes include the two largest ints, divisors of 2^5 and numbers prime to it; the page
  sizes are one that is refused, one byte, and two that overflow the capacity in bytes. The
  theorems about `Capacity` hold for every `MaxInt`, 2^63 - 1 included.
- `MaxPlans`, `MaxOps`, `MaxCerts` and `MaxMarks` are bounds of the model only: a request beyond them
  ends without effect. `Reports` says which reports clients ask for; they write nothing, so runs about the
  tables do without them. Workers are interchangeable and `plans` and `config` use that symmetry;
  `progress`, which checks liveness, does not.

Deadlock is checked in every run but `engine` and `layout`, where the run of a simulator and the
creation of a configuration end.

Overlap and its absence. `serial` states what a reader of a single handler would expect:
`VerdictCoversLog` (the stored verdict is the verdict on the whole log), `PublishedIsFinal`,
`FrozenIsFixed`, `BadStays`, `CertsRevokedOnce`, `OneCertPerPlan`, `CertMatchesPlan`, and a statistics
answer whose counts fit together. None of these survives two overlapping requests. What does survive
is what `plans` and `config` check: the log has no gaps, what refers to it stays inside it, a verdict
is always the verdict on some prefix of the log, a wear curve is that of one run, only a plan some
prefix of which passed is certified, and frozen configurations and plans that passed are fixed, but for
being published, as soon as the requests that passed their check earlier are gone.

Fairness, in `progress` only: a goroutine with a next statement runs it in the end (weak fairness of
`Step`), because the database hands its connection to waiting goroutines in turn. Taking the mutex
needs strong fairness: others may take it again and again, and Go's `sync.Mutex` hands it to a
waiter that starves. Clients are not assumed to send anything. The run takes `Faults = FALSE`, for a
failing request only ends sooner.

## Findings

Each is a run of its own with a trace of a few requests; `PROJECT.json` quotes the lines.

1. `claim_hot_block`: a block worn out completely is bad, and the hot block check passes over bad
   blocks. 80 percent is rejected, 100 percent is publishable.
2. `claim_resume`: a checkpoint may be put on a step that was never executed, and the simulation
   starts after it on a factory fresh engine. A refused operation before it is never seen.
3. `claim_append_race`: an append that overlaps a simulation leaves a publishable plan with an
   operation nobody simulated.
4. `claim_cert_hash`: an append that fails on the unique hash has stored its operations, and the plan
   is certified with the hash of its shorter log.
5. `claim_frozen`: a configuration request that passed its check writes after the freeze.
6. `claim_no_blocks`: a configuration whose block initialisation was refused can be frozen.

Four more lines of the repository say otherwise than the model, which follows the code. They have no run of
their own; for the first two, tests or the repository's own README side with the code:

- `model/model.go:17` calls reserved blocks targets of relocations and replacements. `simulator/engine.go:131`
  refuses them, as README.md:10 of the repository has it, and so does the model: `MappedPagesLive` would
  fail if they were accepted.
- `simulator/runner.go:53` describes `Cursor` as including the step of the first violation. The code counts
  accepted steps only, `simulator/engine_test.go:129` expects that, and `RunAgrees` compares that count.
- `model/model.go:118` says of `SimCursor` that it is the step executed up to. Of a run that resumed
  from a checkpoint the code stores the steps since that checkpoint (`service/plan_service.go:233`).
  `ReferencesInLog` bounds the code's count by the log, `VerdictCoversLog` compares it with the run from
  that checkpoint.
- `model/model.go:14` draws the states of a block without a way back from bad. A `Reserve` that read the
  block before an overlapping `MarkBad` writes over it and puts it back into use; `BadStays` is stated for
  requests that do not overlap.

Met on the way, and not contradicted by any comment or document found, or outside what is modelled:

- `Simulate` rejects a power loss before the first checkpoint, `Recover` calls the same log
  recoverable if a checkpoint comes anywhere in it. The converse cannot happen (`PassedIsRecoverable`).
- `Recover` replays from the last checkpoint operation and names the checkpoint row with the highest
  cursor; the two need not have anything to do with each other. A failing read of that row counts as
  no checkpoint (`service/plan_service.go:300`).
- The violation step of a refused operation or power loss counts from the start of the log, that of the
  budget from the checkpoint the run resumed from, like the cursor.
- Recorded checkpoints guard nothing in `Validate`: only checkpoint operations in the log do
  (`ValidateExact`).
- A plan whose `Issue` was cut off after the insert is certified again by the next `Issue`, and the
  first certificate stays. Nothing changes the plan in between (`PassedSettles`), unless a straggler
  does; with one request at a time both carry the plan's hash (`CertsStand`, proved and in no run).
- Chips whose sizes overflow can be accepted as small ones: 2^63-1 dies of 2^63-1 planes of three
  blocks are a chip of three (`NeverOverstated` says they come out too small, never too large). The
  rows of such a chip may have locations `LocationToIndex` refuses.
- `httpapi/blocks.go:34` looks for a body by reading its first byte, so the reason sent with a bad
  block does not decode.

## Theorems

Checked by `tlapm` on each of the eight `*Proofs.tla`. What is assumed of the constants:

- `LayoutAssumption`, `EngineAssumption`: the checks of `NewLayout` and `ComputeGeometry`, a positive
  erase budget. `BudgetAssumption`: the percentages `budget.New` accepts. `ReportAssumption`: which
  reports there are.
- `StoreAssumption`: `Free` is not a worker, and a batch is a sequence of operations a client can
  send (`PlanOperation`, which has any numbers and an unknown type) no longer than `MaxOps`.
- `CapacityAssumption`: the largest int is positive and a request's numbers are ints.

Every bound of the model is a constant there, so no theorem depends on its value. Every safety
property of a passing run, invariant or action property, is now a theorem.

**Induction** (`FoldProofs`). The code's loops are folds in the model, and what a fold returns for
every log needs induction over the log. The induction theorems of the library take a predicate as a
parameter, which the provers cannot instantiate. `FoldProofs` proves them again, from the library's
fact that the order of the naturals is well-founded, with the set of the values that satisfy the
predicate in its place; the step function of a fold is the constant `Op`, for which `OutcomeProofs`
substitutes the code's: `Scans == INSTANCE FoldProofs WITH Op <- ...`, and the like for runs and replays.
Its lemmas are about folds and sums
in general; what they are for is in the modules that use them.

**Algorithms** (`OutcomeProofs`), for every log and every chip.

- `PageAddress`, `BlockLocation`: the two addressings lose nothing. They rest on facts about integer
  division.
- `ValidateExact`: the recovery check is silent exactly if every power loss has a checkpoint operation
  before it, and otherwise names the first that has none. Recorded cursors, as long as they lie in the
  log, have no part in it: with any of them the answer is the one without.
- `RecoveryIs`: where `Recover` resumes, how far it replays, and when it says yes.
- `OutcomeInLog`: what a verdict refers to lies in the log it was reached over.

**Simulator** (`EngineProofs`).

- `TypeCorrect`: `Spec => []TypeOK`. `TypeOK` is inductive.
- `PagesLive`: `Spec => []MappedPagesLive`. Alone it is not inductive: a write is accepted on a block
  that is not bad and not flagged, and the property says the block is `available`, so the invariant
  adds that a block whose status is `reserved` also has the flag (`ReservedFlag`).
- `WearAccounted`: `Spec => []WearLedger`, inductive with the types; each step adds at most one
  erase to the log and one to a count.
- `MapReplays`: `Spec => []MapIsReplay`. A move becomes the last move of its page and leaves the
  others' standing alone; an erase ends the standing of exactly the pages on its block.
- `RunsAgree`: `Spec => []RunAgrees`. `AgreesInv` says that the accepted operations fold to the engine
  the run has reached, and that a run that stopped was refused some operation.
- `RejectionsExact`, `ReplaysStop`: the theorems about algorithms for the log of a run. `AccountsAgree`
  needs `WearLedger` too: a block at the full budget is bad, and that is why no reported wear is 100.

**Configuration numbers** (`CapacityProofs`), for every `MaxInt`: `BlocksLocated`, `PagesLieOnRows`,
`CapacityHonest`, `FloorKept`, `LayoutExact`. `CapacityInv` says that the stored totals are those of an
accepted request, in blocks, pages and bytes, and that the rows made so far are those of the first
block numbers. The rest is arithmetic: what is kept of a product differs from it by a multiple of `Span`, a kept product of
positive numbers that is positive itself does not exceed it, and a location whose strides have
wrapped around is either refused or still the block's own.

**Overlapping requests**, any number of them, statements failing. `RequestProofs` has the lemmas all
of these use: a step of one request moves its own record and no other (`Only`).

- `BlocksAgree`, `FreezeIsFinal` (`RequestProofs`): `Spec => []BlockRowsAgree`, `Spec => FreezeSettles`.
  `ConfigInv` says that the table is empty or complete and, per request, that one about to write rows
  does so on a complete table with values it read there (`ConfigOwn`). Without that part a
  `MarkBad` could write into a table that has no rows.
- `LogsContiguous` (`RequestProofs`): `Spec => []OpsContiguous`, and the same from `SpecFrozen`. `LogInv`
  adds what an inserting request knows (`LogOwn`): the numbers it has counted or used are in the log. The
  next number it tries is then taken, and the insert fails, or is exactly one past the end.
- `LedgerKept` (`LedgerProofs`): `SpecFrozen => KeepsLedger`, the refinement. `LedgerInv` is `LogInv`
  with the shape of the tables (`Recorded`), that a publishable plan can pass (`PassedCanPass`), and what
  each request has read and stays true while others go on (`LedgerOwn`): the log a simulation holds is a
  prefix of the plan's, its cursors are among the recorded ones, its blocks are the frozen ones, and a
  plan about to be certified can pass. `GrownEnds` is the heart of it: what could be judged
  still can when logs and checkpoints have grown. Each writing action has a lemma that it is one step of
  the ledger; all reads are stutters.
- `CreationsExclude` (`PlanProofs`): without failing statements, `Spec => []CreateNeverCollides`.
  `MutexInv` says that a request between `Lock` and `Unlock` holds the mutex and that the hash it has
  looked up is still free, if the client left the numbers out; writers of plan rows that do not hold the
  mutex keep the hashes there are or store hashes with numbers (`Rehashed`).
- `PassedIsSettled` (`PlanProofs`): `Spec => PassedSettles`, and the same from `SpecFrozen`.
  `RowsInv` knows that a request holding a plan says which; every action is shown to take no plan in
  hand that passed, and to write no row it does not hold, except to publish it (`Sparing`).
- `ReferencesStay`, `RejectionsStay` (`PlanProofs`): `SpecFrozen => []ReferencesInLog`,
  `SpecFrozen => []RejectionStands`. They are proved of the ledger and come back through the
  refinement: `JudgedInv` says that every verdict lies in the plan's log and that a rejection for
  recovery is for the log's first unguarded power loss. A verdict lies in the prefix it was reached over
  (`OutcomeInLog`), and a longer log has the same first such loss (`JudgedLonger`).
- `CurvesAreOfRuns` (`PlanProofs`): `SpecFrozen => []CurveOfRun`. `CurveInv` is `LedgerInv` with a plan's
  curve being drawn from one of the verdicts its log allows (`Drawn`), or absent and the plan not
  passed (`Blank`), and with what a request needs that lets a plan pass: one about to write a
  verdict that comes with a curve has stored such a curve, and so has the plan of one that certifies
  (`CurveOwn`). Another simulation may replace the curve in between, but only by one that is drawn too.
- `TypesHold` (`PlanProofs`): `[]TypeOK`, of `Spec` and of `SpecFrozen`. `TypeInv` adds to the tables
  what each request holds at each of its statements (`TypeOwn`): a plan row is written from
  values that were read many statements earlier.

**One request at a time** (`SerialProofs`), for `Worker = {w}`.

- `CertifiedOnce`, `CertsMatch`, `PublishedStays`, `RevokedOnce`, without failing statements.
  `SerialInv` says that what the request has checked still holds when it writes (`CheckedOwn`)
  and that every certificate's plan is published or about to be (`Backed`), which is what refuses a
  second certificate. With failing statements the certificate could stand beside a plan never published.
- `CertificatesStand`: `[]CertsStand`, of `Spec` and of `SpecFrozen`, whether statements fail or not. Only an
  append changes a hash, and only appends and simulations write over the status of a plan that passed; both
  look at it first (`CheckInv`), so such a plan is out of their reach, whatever was cut off before.
  `serial` does not check `CertsStand`: where nothing fails it follows from `CertMatchesPlan`.
- `FrozenStays`, `BadBlocksStay`, whether statements fail or not: `FreshOwn` says that the
  configuration checked is not frozen and the block read is not bad when the request writes.
- `VerdictsCover`: without failing statements, `Spec => []VerdictCoversLog`. In `CoverInv` every judged
  plan has the verdict of its complete log from some start (`Covered`), except for the one whose
  verdict is being written, whose new wear curve is stored already. It holds only of blocks that
  stay as they are, so the invariant has two phases: `Early`, while the configuration is not frozen and
  there are no plans, and then `LedgerInv` with `CoverInv`.
- `RecoverAgrees`: `Spec => []PassedIsRecoverable`. A covered plan that passed has no unguarded power
  loss, so `Recoverable` finds a checkpoint.
- `StatsAgree`: `Spec => []StatsAddUp`. `StatInv` says what `Collect` has counted after each of its
  reads, and that a plan that does not exist has no wear curve; there are no more certificates than
  plans that passed because certifying is injective (`OneCertPerPlan`).

Only model-checked: `RequestsFinish`, for TLAPS does no liveness under fairness and no `ENABLED`; and
the findings, which are traces.

## Plan

1. Done: `Geometry`, `Simulator`, `Engine` with their theorems; the services, the ledger, the runs
   and findings above.
2. Done: `Recovery` and `Budget` as the code's loops, compared with what they mean on the runs of the
   engine (`Verdicts`); the link between `Engine` and `Run`; capacities in machine words; the reports.
3. Done: theorems about the service, from the logs to the refinement of the ledger.
4. Done: induction over logs and sums, and with it a theorem for every safety property of the
   passing runs.
5. What could come next: `ReferencesStay` and `RejectionsStay` from `Spec`, before the freeze too, for
   verdicts reached over whatever blocks a simulation has read (`LedgerKept` itself needs blocks that
   stay, which a straggling configuration request may change: finding 5); a second configuration, to
   check that the unique index on `(config_id, plan_hash)` keeps them apart.

## Not modelled

- HTTP decoding, routing and the mapping of errors to status codes: text in, text out, and no state.
- The command: flags, server start and the smoke test.
- Snapshot hashes, `WearTier`, the methods of the store no service calls, and `InitMapping`, which
  empties a table nothing fills.
- Operations that return what a single read found (`List`, `Get`, `Ops`, `Wear`, `Checkpoints`, `Blocks`).
- The order of time stamps stored as text.
- More than one configuration.
- Two writes to one physical page, which the code does not look for.
