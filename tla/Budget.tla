------------------------------- MODULE Budget -------------------------------
(***************************************************************************)
(* The wear budget of src/internal/budget/evaluator.go over the block rows *)
(* a simulation ended with.                                                *)
(***************************************************************************)
EXTENDS Simulator, FiniteSets, FiniteSetsExt

CONSTANTS HotBlockPct,     \* the service passes 80
          WarnThreshold    \* the configuration's warning tier, in percent

ASSUME BudgetAssumption == HotBlockPct \in 1 .. 100 /\ WarnThreshold \in 1 .. 100

WearPct(row) == (row.erase * 100) \div MaxEraseCycles

\* WearEntry: one point of the wear curve, the percentage capped at 100.
Tier(pct) ==
  IF pct >= 100 THEN "critical" ELSE IF pct >= WarnThreshold THEN "warning" ELSE "healthy"
WearEntry(row) ==
  LET pct == IF WearPct(row) > 100 THEN 100 ELSE WearPct(row)
  IN  [erase |-> row.erase, pct |-> pct, tier |-> Tier(pct), reserved |-> row.reserved]

\* Check looks at hot blocks first, passing over reserved and bad ones, then
\* compares the reserved rows with the configuration's number of them.
Judged(row) == row.status \notin {"absent", "bad"} /\ ~row.reserved

\* Fault: the threshold itself is still accepted.
HotBlocksAbove(rows) == {b \in Block : Judged(rows[b]) /\ WearPct(rows[b]) > HotBlockPct}

HotBlocks(rows) == {b \in Block : Judged(rows[b]) /\ WearPct(rows[b]) >= HotBlockPct}
Reserve(rows)   == {b \in Block : rows[b].reserved}

\* Balance: highest, lowest and average wear of the blocks Check looks at.
Balance(rows) ==
  LET blocks == {b \in Block : Judged(rows[b])}
      pcts   == {WearPct(rows[b]) : b \in blocks}
  IN  IF blocks = {} THEN [ok |-> FALSE, max |-> 0, min |-> 0, avg |-> 0]
      ELSE [ok |-> TRUE, max |-> Max(pcts), min |-> Min(pcts),
            avg |-> SumFunctionOnSet([b \in Block |-> WearPct(rows[b])], blocks) \div Cardinality(blocks)]

Check(rows) ==
  IF HotBlocks(rows) # {} THEN "hot_block"
  ELSE IF Cardinality(Reserve(rows)) < ReservedBlocks THEN "reserve_below_floor"
  ELSE "ok"
=============================================================================
