------------------------------ MODULE Geometry ------------------------------
(***************************************************************************)
(* The chip layout: dies, planes, blocks and pages, the addressing between *)
(* them, and the blocks set aside when a configuration is created.         *)
(* src/internal/geometry/layout.go and block.go.                           *)
(***************************************************************************)
EXTENDS Integers

CONSTANTS DieCount, PlanesPerDie, BlocksPerPlane, PagesPerBlock, ReservedBlocks

TotalBlocks  == DieCount * PlanesPerDie * BlocksPerPlane
UsableBlocks == TotalBlocks - ReservedBlocks
TotalPages   == TotalBlocks * PagesPerBlock

\* What NewLayout insists on before any layout exists.
ASSUME LayoutAssumption ==
  /\ DieCount \in Nat \ {0} /\ PlanesPerDie \in Nat \ {0}
  /\ BlocksPerPlane \in Nat \ {0} /\ PagesPerBlock \in Nat \ {0}
  /\ ReservedBlocks \in Nat /\ ReservedBlocks < TotalBlocks

Block == 0 .. TotalBlocks - 1
Page  == 0 .. TotalPages - 1

\* Fault: the page keeps its number on the chip.
PageOnChip(ppn) == ppn

\* PageToBlock refuses a page outside Page; these are its two results.
BlockOf(ppn) == ppn \div PagesPerBlock
PageIn(ppn)  == ppn % PagesPerBlock

\* BlockToPage.
FirstPage(b) == b * PagesPerBlock

\* IndexToLocation and LocationToIndex, for a block and a location in range.
IndexToLocation(b) ==
  LET rest == b % (PlanesPerDie * BlocksPerPlane)
  IN  [die   |-> b \div (PlanesPerDie * BlocksPerPlane),
       plane |-> rest \div BlocksPerPlane,
       block |-> rest % BlocksPerPlane]

LocationToIndex(loc) ==
  loc.die * PlanesPerDie * BlocksPerPlane + loc.plane * BlocksPerPlane + loc.block

\* ReserveSet(l, l.ReservedBlocks): it refuses a count above the usable blocks,
\* and otherwise takes the last ones among them, not the last of the chip.
Reservable == ReservedBlocks <= UsableBlocks
ReserveSet == UsableBlocks - ReservedBlocks .. UsableBlocks - 1
=============================================================================
