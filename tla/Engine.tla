------------------------------- MODULE Engine -------------------------------
(***************************************************************************)
(* A run of the simulator (src/internal/simulator/runner.go): the engine   *)
(* is booted from the persisted blocks and applies one operation after     *)
(* another until the plan ends or an operation is refused.  The plan is    *)
(* any sequence of operations, chosen step by step.                        *)
(***************************************************************************)
EXTENDS Simulator, Sequences, FiniteSets

CONSTANT MaxSteps          \* bound: accepted operations in one run

VARIABLES loaded,          \* the block rows the run was booted from
          eng,             \* the engine
          steps,           \* Runner.Steps: the accepted operations
          stop             \* "running", or why the run ended

vars == <<loaded, eng, steps, stop>>

\* The run is booted from whatever rows the configuration service can leave.
Init ==
  /\ loaded \in StoredRows
  /\ eng = Boot(loaded)
  /\ steps = << >>
  /\ stop = "running"

\* One pass of Run's loop over an operation that Apply accepts.
Accept(op) ==
  /\ stop = "running" /\ Len(steps) < MaxSteps
  /\ Verdict(eng, op) = "ok"
  /\ eng' = Effect(eng, op)
  /\ steps' = Append(steps, op)
  /\ UNCHANGED <<loaded, stop>>

\* The run ends at the first operation that is a violation or an error.
Refuse(op) ==
  /\ stop = "running"
  /\ Verdict(eng, op) # "ok"
  /\ stop' = Verdict(eng, op)
  /\ UNCHANGED <<loaded, eng, steps>>

\* What a client may put in an operation, out-of-range numbers included.
LpnInput   == LPN \cup {-1}
PageInput  == -1 .. TotalPages
BlockInput == -1 .. TotalBlocks
OpInput ==
  {Write(l, p) : l \in LpnInput, p \in PageInput} \cup {Erase(b) : b \in BlockInput}
    \cup {Relocate(l, s, d) : l \in LpnInput, s \in PageInput, d \in PageInput}
    \cup {Checkpoint, PowerLoss, [type |-> "unknown"]}

DoWrite    == \E l \in LpnInput, p \in PageInput : Accept(Write(l, p))
DoErase    == \E b \in BlockInput : Accept(Erase(b))
DoRelocate == \E l \in LpnInput, s \in PageInput, d \in PageInput : Accept(Relocate(l, s, d))
DoMarker   == \E op \in {Checkpoint, PowerLoss} : Accept(op)
DoRefuse   == \E op \in OpInput : Refuse(op)

Next == DoWrite \/ DoErase \/ DoRelocate \/ DoMarker \/ DoRefuse

Spec == Init /\ [][Next]_vars
-----------------------------------------------------------------------------
\* Types of the run's state.
TypeOK ==
  /\ loaded \in [Block -> BlockRow]
  /\ eng \in EngineState
  /\ steps \in Seq(OpInput)
  /\ stop \in {"running", "error"} \cup Violation

\* A mapped page lives on a block that has a row, is neither reserved nor bad,
\* and is addressed the way the layout addresses it: an erase that wears a
\* block out takes the block's pages with it (engine.go applyErase), and a
\* relocation never parks a page on a block a write would refuse.
MappedPagesLive ==
  \A l \in LPN : Mapped(eng, l) =>
    LET m == eng.map[l] IN
    /\ m.block = BlockOf(m.ppn) /\ m.page = PageIn(m.ppn)
    /\ eng.blocks[m.block].status = "available" /\ ~eng.blocks[m.block].reserved

Moves(l)  == {i \in DOMAIN steps : steps[i].type \in {"write", "relocate"} /\ steps[i].lpn = l}
Erases(b) == {i \in DOMAIN steps : steps[i].type = "erase" /\ steps[i].block = b}

\* The page's last move, unless the block it went to was erased afterwards.
Standing(l) == {i \in Moves(l) : /\ \A j \in Moves(l) : j <= i
                                 /\ \A j \in Erases(BlockOf(steps[i].dest)) : j < i}

\* The table is what a replay of the accepted operations gives: a page is where
\* its last write or relocation put it unless that block was erased since, and
\* its versions count its moves without a reset when it was deleted in between
\* (mapping/table.go Put and Delete).
MapIsReplay ==
  \A l \in LPN :
    /\ eng.nextVer[l] = Cardinality(Moves(l))
    /\ Mapped(eng, l) <=> Standing(l) # {}
    /\ \A i \in Standing(l) : /\ eng.map[l].ppn = steps[i].dest
                              /\ eng.map[l].version = Cardinality(Moves(l)) - 1

\* The wear account: a block's count is the number of accepted erases of it, it
\* never passes the budget, and a block is bad exactly when it was loaded bad or
\* has used the budget up (engine.go applyErase).
WearLedger ==
  \A b \in Block :
    /\ eng.blocks[b].erase = Cardinality(Erases(b))
    /\ eng.blocks[b].erase <= MaxEraseCycles
    /\ eng.blocks[b].status = "bad"
         <=> loaded[b].status = "bad" \/ eng.blocks[b].erase = MaxEraseCycles
    /\ eng.blocks[b].reserved = loaded[b].reserved
=============================================================================
