CONSTANTS
  DieCount = 1
  PlanesPerDie = 1
  BlocksPerPlane = 3
  PagesPerBlock = 1
  ReservedBlocks = 2
  LPN = {0}
  MaxEraseCycles = 2
  HotBlockPct = 80
  WarnThreshold = 50
  Worker = {w1}
  Free = Free
  MaxPlans = 0
  MaxOps = 0
  MaxCerts = 0
  MaxMarks = 0
  Batch = {}
  Reason = {}
  Numbering = {FALSE}
  Faults = FALSE
  Reports = {}
SPECIFICATION Spec
INVARIANT
  FrozenHasBlocks
