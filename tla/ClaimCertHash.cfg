CONSTANTS
  DieCount = 1
  PlanesPerDie = 1
  BlocksPerPlane = 2
  PagesPerBlock = 1
  ReservedBlocks = 1
  LPN = {0}
  MaxEraseCycles = 2
  HotBlockPct = 80
  WarnThreshold = 50
  Worker = {w1}
  Free = Free
  MaxPlans = 2
  MaxOps = 2
  MaxCerts = 1
  MaxMarks = 0
  Batch <- MarkBatch
  Reason = {}
  Numbering = {FALSE}
  Faults = FALSE
  Reports = {}
SPECIFICATION SpecFrozen
INVARIANT
  CertNamesLog
