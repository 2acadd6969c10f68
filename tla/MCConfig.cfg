CONSTANTS
  DieCount = 1
  PlanesPerDie = 1
  BlocksPerPlane = 3
  PagesPerBlock = 1
  ReservedBlocks = 1
  LPN = {0}
  MaxEraseCycles = 1
  HotBlockPct = 80
  WarnThreshold = 50
  Worker = {w1, w2, w3}
  Free = Free
  MaxPlans = 0
  MaxOps = 0
  MaxCerts = 0
  MaxMarks = 0
  Batch = {}
  Reason = {}
  Numbering = {FALSE}
  Faults = TRUE
  Reports = {}
SYMMETRY Symmetry
SPECIFICATION Spec
INVARIANTS
  BlockRowsAgree
PROPERTY
  FreezeSettles
