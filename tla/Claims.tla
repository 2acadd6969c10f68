-------------------------------- MODULE Claims --------------------------------
(***************************************************************************)
(* What the repository's documentation, comments and declarations say of   *)
(* the service and the code does not keep.  Each claim is checked by a run *)
(* of its own, which shows how it fails.                                   *)
(***************************************************************************)
EXTENDS Serial

\* "Any block that is not reserved and worn beyond the threshold" is a hot block
\* (budget/evaluator.go:58), and a publishable plan has none.  The check passes
\* over bad blocks, and a block goes bad by being worn out.
HotBlocksCaught ==
  Quiet => \A p \in DOMAIN plans : plans[p].status = "publishable" =>
    \A b \in DOMAIN wear[p] : wear[p][b].reserved \/ wear[p][b].pct < HotBlockPct

\* A plan publishable after it resumed from a checkpoint would have been so from
\* its first step: a checkpoint "must refer to executed steps"
\* (service/plan_service.go:253).  Nothing asks whether the steps were executed,
\* and what they did to the blocks is not restored.
ResumedLikeFull ==
  Quiet => \A p \in DOMAIN plans : plans[p].status = "publishable" =>
    Outcome(List(p), {}, blocks).status = "publishable"

\* A publishable plan is one whose operations passed budget and recovery
\* (model/model.go:27), from the start or from a checkpoint of it.
PublishableLogPasses ==
  Quiet => \A p \in DOMAIN plans : plans[p].status = "publishable" =>
    \E start \in {{}} \cup {{c} : c \in checkpoints[p]} :
      Outcome(List(p), start, blocks).status = "publishable"

\* A certificate freezes the operation sequence (README.md:58): the hash it
\* carries is the hash of the operations its plan was simulated with.
CertNamesLog ==
  Quiet => \A c \in DOMAIN certs : certs[c].hash.ops = List(certs[c].plan)

\* A configuration has its blocks initialised before it can be frozen
\* (service/config_service.go:168).
FrozenHasBlocks ==
  cfgStatus = "frozen" => \A b \in Block : blocks[b].status # "absent"
===============================================================================
