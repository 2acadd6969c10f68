------------------------------ MODULE Capacity ------------------------------
(***************************************************************************)
(* How a configuration gets its capacities and its block rows when the     *)
(* products are computed in machine words: NewLayout and ComputeGeometry   *)
(* of src/internal/geometry/layout.go and the loop of initBlocks in        *)
(* src/internal/service/config_service.go.  Go's int wraps around on       *)
(* overflow and its division rounds towards zero; nothing in the code      *)
(* limits the numbers a client may send.  Where no product overflows the   *)
(* layout is that of Geometry, on which the other modules are built.       *)
(***************************************************************************)
EXTENDS Integers, Sequences, FiniteSets

CONSTANTS MaxInt,      \* the largest int: 2^63 - 1 in a 64-bit build
          Extent,      \* the dimensions clients send
          PageSize,    \* the bytes per page clients send
          Floor        \* the numbers of reserved blocks clients send

Word == -(MaxInt + 1) .. MaxInt

ASSUME CapacityAssumption ==
  /\ MaxInt \in Nat \ {0}
  /\ Extent \subseteq Word /\ PageSize \subseteq Word /\ Floor \subseteq Word

\* Arithmetic of Go's int.
Wrap(x)     == ((x + MaxInt + 1) % (2 * (MaxInt + 1))) - (MaxInt + 1)
Times(x, y) == Wrap(x * y)
Abs(x)      == IF x < 0 THEN -x ELSE x
Quo(x, y)   == IF (x < 0) = (y < 0) THEN Abs(x) \div Abs(y) ELSE -(Abs(x) \div Abs(y))
Rem(x, y)   == x - y * Quo(x, y)

\* What a client asks for; sane says whether the wear budget and the warning
\* threshold, which no capacity depends on, are in range.
Asked == [die : Extent, planes : Extent, blocks : Extent, pages : Extent,
          bytes : PageSize, reserved : Floor, sane : BOOLEAN]

Dimension(l) == {l.die, l.planes, l.blocks, l.pages, l.bytes}

\* The methods of Layout.
TotalBlocks(l)  == Times(Times(l.die, l.planes), l.blocks)
UsableBlocks(l) == Wrap(TotalBlocks(l) - l.reserved)
\* Fault: the pages of reserved blocks are not counted.
TotalPagesUsable(l) == Times(UsableBlocks(l), l.pages)

TotalPages(l) == Times(TotalBlocks(l), l.pages)

\* Computed in int64, which is what an int is in a 64-bit build.
TotalBytes(l) == Times(TotalPages(l), l.bytes)

\* Fault: as many reserved blocks as there are blocks.
LaidOutFull(l) ==
  (\A d \in Dimension(l) : d > 0) /\ l.reserved >= 0 /\ l.reserved <= TotalBlocks(l)

\* NewLayout.
LaidOut(l) ==
  (\A d \in Dimension(l) : d > 0) /\ l.reserved >= 0 /\ l.reserved < TotalBlocks(l)

\* Fault: the remainder is split by the planes of a die.
LocationByPlanes(l, i) ==
  LET rest == Rem(i, Times(l.planes, l.blocks))
  IN  [die |-> Quo(i, Times(l.planes, l.blocks)),
       plane |-> Quo(rest, l.planes), block |-> Rem(rest, l.planes)]

\* IndexToLocation of a block number in range.
IndexToLocation(l, i) ==
  LET rest == Rem(i, Times(l.planes, l.blocks))
  IN  [die |-> Quo(i, Times(l.planes, l.blocks)),
       plane |-> Quo(rest, l.blocks), block |-> Rem(rest, l.blocks)]

\* LocationToIndex: it refuses a location outside the dimensions.
Locatable(l, loc) ==
  loc.die \in 0 .. l.die - 1 /\ loc.plane \in 0 .. l.planes - 1 /\ loc.block \in 0 .. l.blocks - 1
LocationToIndex(l, loc) ==
  Wrap(Wrap(Times(Times(loc.die, l.planes), l.blocks) + Times(loc.plane, l.blocks)) + loc.block)

\* Fault: the first page past the chip is taken for one of its pages.
AddressablePast(l, ppn) == ppn >= 0 /\ ppn <= TotalPages(l)

\* PageToBlock, its range check and its results; BlockToPage.
Addressable(l, ppn) == ppn >= 0 /\ ppn < TotalPages(l)
PageToBlock(l, ppn) == [block |-> Quo(ppn, l.pages), page |-> Rem(ppn, l.pages)]
BlockToPage(l, b)   == Times(b, l.pages)

\* Fault: the reserve set goes one too far.
ReserveSetLong(l) == UsableBlocks(l) - l.reserved .. UsableBlocks(l)

\* ReserveSet(l, l.reserved).
Reservable(l) == l.reserved <= UsableBlocks(l)
ReserveSet(l) == UsableBlocks(l) - l.reserved .. UsableBlocks(l) - 1
-----------------------------------------------------------------------------
VARIABLES asked,     \* the dimensions of the request
          phase,     \* how far Create has come
          capacity,  \* the totals stored with the configuration
          rows       \* the block rows made so far, in block order

vars == <<asked, phase, capacity, rows>>

NoCapacity == [blocks |-> 0, usable |-> 0, pages |-> 0, bytes |-> 0]

Init ==
  /\ asked \in Asked
  /\ phase = "asked"
  /\ capacity = NoCapacity
  /\ rows = << >>

\* ComputeGeometry refuses the request before anything is stored.
Refuse ==
  /\ phase = "asked" /\ ~(LaidOut(asked) /\ asked.sane)
  /\ phase' = "refused"
  /\ UNCHANGED <<asked, capacity, rows>>

\* ComputeGeometry fills in the totals and the draft is stored.
Compute ==
  /\ phase = "asked" /\ LaidOut(asked) /\ asked.sane
  /\ capacity' = [blocks |-> TotalBlocks(asked), usable |-> UsableBlocks(asked),
                  pages |-> TotalPages(asked), bytes |-> TotalBytes(asked)]
  /\ phase' = "stored"
  /\ UNCHANGED <<asked, rows>>

\* initBlocks: the reserve set is chosen or refused; a refusal leaves the draft.
Choose ==
  /\ phase = "stored"
  /\ phase' = IF Reservable(asked) THEN "placing" ELSE "rowless"
  /\ UNCHANGED <<asked, capacity, rows>>

\* One pass of initBlocks' loop.
Place ==
  /\ phase = "placing" /\ Len(rows) < capacity.blocks
  /\ rows' = Append(rows, [loc      |-> IndexToLocation(asked, Len(rows)),
                           reserved |-> Len(rows) \in ReserveSet(asked)])
  /\ UNCHANGED <<asked, phase, capacity>>

Insert ==
  /\ phase = "placing" /\ Len(rows) = capacity.blocks
  /\ phase' = "ready"
  /\ UNCHANGED <<asked, capacity, rows>>

Next == Refuse \/ Compute \/ Choose \/ Place \/ Insert
Spec == Init /\ [][Next]_vars
-----------------------------------------------------------------------------
\* No two blocks are placed at one location, whatever overflowed, and a location
\* that LocationToIndex accepts is never taken for another block's: a stride may
\* have wrapped around to a small or a negative number (layout.go:66-87).
RowsLocateBlocks ==
  \A i \in DOMAIN rows :
    /\ \A j \in DOMAIN rows : rows[i].loc = rows[j].loc => i = j
    /\ Locatable(asked, rows[i].loc) => LocationToIndex(asked, rows[i].loc) = i - 1

\* Every page the layout admits lies on a block that has a row, and is the page
\* an erase of that block starts counting from (layout.go:50-64, engine.go:97).
PagesOnRows ==
  phase = "ready" => \A ppn \in 0 .. MaxInt : Addressable(asked, ppn) =>
    LET at == PageToBlock(asked, ppn) IN
    /\ at.block \in 0 .. Len(rows) - 1 /\ at.page \in 0 .. asked.pages - 1
    /\ BlockToPage(asked, at.block) + at.page = ppn

\* An accepted configuration never promises more than its dimensions hold, and
\* always a usable block (layout.go:29-32): a product that overflows is refused
\* as non-positive or comes out too small.
NeverOverstated ==
  phase \notin {"asked", "refused"} =>
    /\ capacity.blocks \in 1 .. asked.die * asked.planes * asked.blocks
    /\ capacity.usable \in 1 .. capacity.blocks
    /\ capacity.pages <= asked.die * asked.planes * asked.blocks * asked.pages
    /\ capacity.bytes <= asked.die * asked.planes * asked.blocks * asked.pages * asked.bytes

\* A chip that gets rows gets as many reserved ones as the budget's floor asks
\* for, and one that is not reserved (block.go:31-41, evaluator.go:70-79).
FloorMet ==
  phase = "ready" =>
    LET kept == {i \in DOMAIN rows : rows[i].reserved}
    IN  Cardinality(kept) = asked.reserved /\ kept # DOMAIN rows

\* Geometry's layout of a request.
Chip(DieCount, PlanesPerDie, BlocksPerPlane, PagesPerBlock, ReservedBlocks) == INSTANCE Geometry

\* As long as the number of pages fits an int, totals and rows are those of
\* Geometry, where numbers do not overflow; so is the number of bytes if it fits.
ExactWhenFits ==
  LET l == asked
      n == l.die * l.planes * l.blocks
  IN  phase = "ready" /\ n * l.pages <= MaxInt =>
        /\ capacity.blocks = n /\ capacity.usable = n - l.reserved
        /\ capacity.pages = n * l.pages
        /\ n * l.pages * l.bytes <= MaxInt => capacity.bytes = n * l.pages * l.bytes
        /\ \A i \in DOMAIN rows :
             LET b == i - 1 IN
             /\ rows[i].loc = Chip(l.die, l.planes, l.blocks, l.pages, l.reserved)!IndexToLocation(b)
             /\ rows[i].reserved
                  <=> b \in Chip(l.die, l.planes, l.blocks, l.pages, l.reserved)!ReserveSet
=============================================================================
