CONSTANTS
  DieCount = 1
  PlanesPerDie = 1
  BlocksPerPlane = 1
  PagesPerBlock = 1
  ReservedBlocks = 0
  LPN = {0}
  MaxEraseCycles = 2
  HotBlockPct = 80
  WarnThreshold = 50
  Worker = {w1, w2}
  Free = Free
  MaxPlans = 1
  MaxOps = 1
  MaxCerts = 1
  MaxMarks = 1
  Batch <- MCBatch
  Reason = {}
  Numbering = {TRUE, FALSE}
  Faults = FALSE
  Reports = {"stats", "recover"}
SPECIFICATION FairSpec
INVARIANT
  CreateNeverCollides
PROPERTY
  RequestsFinish
