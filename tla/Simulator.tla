------------------------------ MODULE Simulator ------------------------------
(***************************************************************************)
(* What one operation of a plan does to the simulated chip: the dispatch   *)
(* and the three handlers of src/internal/simulator/engine.go over the     *)
(* mapping table of src/internal/mapping/table.go.                         *)
(*                                                                         *)
(* An engine is a record of the block view, the mapping table and the next *)
(* version of every logical page.  Verdict(e, op) is what Apply answers,   *)
(* Effect(e, op) the engine after an accepted operation.                   *)
(***************************************************************************)
EXTENDS Geometry

CONSTANTS LPN,             \* the logical pages the operations name
          MaxEraseCycles   \* the erase budget of one block

ASSUME EngineAssumption ==
  /\ LPN \subseteq Nat
  /\ MaxEraseCycles \in Nat \ {0}

\* A block row: "worn" and "isolated" are declared in the code and never
\* assigned, "absent" stands for a block number that has no row.
BlockStatus == {"absent", "available", "reserved", "bad"}
BlockRow    == [status : BlockStatus, reserved : BOOLEAN, erase : Nat]

\* The rows MarkBad, Reserve and initBlocks leave behind, and those of a
\* configuration whose block initialisation failed; erase counts are never
\* written back.
Row(s, r)  == [status |-> s, reserved |-> r, erase |-> 0]
FactoryRow == {row \in [status : BlockStatus \ {"absent"}, reserved : BOOLEAN, erase : {0}] :
                 row.status # "bad" => (row.reserved <=> row.status = "reserved")}
NoRow      == Row("absent", FALSE)
StoredRows == [Block -> FactoryRow] \cup {[b \in Block |-> NoRow]}

Entry    == [ppn : Page, block : Block, page : 0 .. PagesPerBlock - 1, version : Nat]
Unmapped == [ppn |-> -1, block |-> -1, page |-> -1, version |-> -1]

EngineState ==
  [blocks : [Block -> BlockRow], map : [LPN -> Entry \cup {Unmapped}], nextVer : [LPN -> Nat]]

\* NewEngine over the persisted blocks and a table without rows.
Boot(rows) == [blocks  |-> rows,
               map     |-> [l \in LPN |-> Unmapped],
               nextVer |-> [l \in LPN |-> 0]]

Present(e, b) == b \in Block /\ e.blocks[b].status # "absent"
Mapped(e, l)  == l \in LPN /\ e.map[l] # Unmapped

Write(l, dest)         == [type |-> "write", lpn |-> l, dest |-> dest]
Erase(b)               == [type |-> "erase", block |-> b]
Relocate(l, src, dest) == [type |-> "relocate", lpn |-> l, src |-> src, dest |-> dest]
Checkpoint             == [type |-> "checkpoint"]
PowerLoss              == [type |-> "powerloss"]

\* What a client may send: any numbers, and a type that no handler knows.
PlanOperation ==
  [type : {"write"}, lpn : Int, dest : Int] \cup [type : {"erase"}, block : Int]
    \cup [type : {"relocate"}, lpn : Int, src : Int, dest : Int]
    \cup {Checkpoint, PowerLoss, [type |-> "unknown"]}

Marker     == {"checkpoint", "powerloss"}
Violation  == {"erase_bad", "relocate_to_reserved", "duplicate_mapping"}
----------------------------------------------------------------------------
\* applyWrite: a bad target is reported before a reserved one, and both before
\* the duplicate.  Whether the target page already holds data is not asked.
WriteVerdict(e, op) ==
  IF op.lpn \notin LPN \/ op.dest \notin Page \/ ~Present(e, BlockOf(op.dest))
  THEN "error"
  ELSE LET b == e.blocks[BlockOf(op.dest)]
       IN  IF b.status = "bad" THEN "erase_bad"
           ELSE IF b.reserved THEN "relocate_to_reserved"
           ELSE IF Mapped(e, op.lpn) THEN "duplicate_mapping"
           ELSE "ok"

\* applyErase: a reserved block may be erased, a bad one may not.
EraseVerdict(e, op) ==
  IF ~Present(e, op.block) THEN "error"
  ELSE IF e.blocks[op.block].status = "bad" THEN "erase_bad" ELSE "ok"

\* applyRelocate: the source must be the page's current place; here the
\* reserved target is reported before the bad one.
RelocateVerdict(e, op) ==
  IF \/ ~Mapped(e, op.lpn) \/ e.map[op.lpn].ppn # op.src
     \/ op.dest \notin Page \/ ~Present(e, BlockOf(op.dest))
  THEN "error"
  ELSE LET b == e.blocks[BlockOf(op.dest)]
       IN  IF b.reserved THEN "relocate_to_reserved"
           ELSE IF b.status = "bad" THEN "erase_bad"
           ELSE "ok"

\* Apply: markers always pass, a type it does not know is an error.
Verdict(e, op) ==
  IF op.type = "write" THEN WriteVerdict(e, op)
  ELSE IF op.type = "erase" THEN EraseVerdict(e, op)
  ELSE IF op.type = "relocate" THEN RelocateVerdict(e, op)
  ELSE IF op.type \in Marker THEN "ok"
  ELSE "error"
----------------------------------------------------------------------------
\* Table.Put: the version counter of a page survives the page's deletion.
Put(e, l, ppn) ==
  [blocks  |-> e.blocks,
   map     |-> [e.map EXCEPT ![l] = [ppn |-> ppn, block |-> BlockOf(ppn), page |-> PageIn(ppn),
                                     version |-> e.nextVer[l]]],
   nextVer |-> [e.nextVer EXCEPT ![l] = @ + 1]]

\* Fault: the block goes bad one cycle past its budget.
CycledLate(row) ==
  [row EXCEPT !.erase  = row.erase + 1,
              !.status = IF row.erase + 1 > MaxEraseCycles THEN "bad" ELSE row.status]

\* One more cycle; at the budget the block goes bad.
Cycled(row) ==
  [row EXCEPT !.erase  = row.erase + 1,
              !.status = IF row.erase + 1 >= MaxEraseCycles THEN "bad" ELSE row.status]

\* Faults: the pages of the block keep their mapping; they lose their version
\* counter with it.
EraseBlockOnly(e, b) == [e EXCEPT !.blocks[b] = Cycled(@)]
EraseBlockVersions(e, b) ==
  LET gone == {l \in LPN : e.map[l].block = b} IN
  [blocks  |-> [e.blocks EXCEPT ![b] = Cycled(@)],
   map     |-> [l \in LPN |-> IF l \in gone THEN Unmapped ELSE e.map[l]],
   nextVer |-> [l \in LPN |-> IF l \in gone THEN 0 ELSE e.nextVer[l]]]

\* Every page that lives on the block loses its mapping.
EraseBlock(e, b) ==
  [blocks  |-> [e.blocks EXCEPT ![b] = Cycled(@)],
   map     |-> [l \in LPN |-> IF e.map[l].block = b THEN Unmapped ELSE e.map[l]],
   nextVer |-> e.nextVer]

Effect(e, op) ==
  IF op.type \in {"write", "relocate"} THEN Put(e, op.lpn, op.dest)
  ELSE IF op.type = "erase" THEN EraseBlock(e, op.block)
  ELSE e
=============================================================================
