\* Ints of five bits, from -16 to 15.
CONSTANTS
  MaxInt = 15
  Extent <- MCExtent
  PageSize <- MCPageSize
  Floor <- MCFloor
SPECIFICATION Spec
CHECK_DEADLOCK FALSE
INVARIANTS
  RowsLocateBlocks
  PagesOnRows
  NeverOverstated
  FloorMet
  ExactWhenFits
