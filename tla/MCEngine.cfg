\* Two blocks of two pages each; a block wears out at its second erase.
CONSTANTS
  DieCount = 1
  PlanesPerDie = 1
  BlocksPerPlane = 2
  PagesPerBlock = 2
  ReservedBlocks = 1
  LPN = {0, 1}
  MaxEraseCycles = 2
  MaxSteps = 4
  HotBlockPct = 50
  WarnThreshold = 50
SPECIFICATION Spec
CHECK_DEADLOCK FALSE
INVARIANTS
  TypeOK
  MappedPagesLive
  MapIsReplay
  WearLedger
  RunAgrees
  RejectionExact
  ReplayStopsAtLoss
  BalanceExplainsCheck
