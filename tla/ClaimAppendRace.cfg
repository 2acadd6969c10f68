CONSTANTS
  DieCount = 1
  PlanesPerDie = 1
  BlocksPerPlane = 2
  PagesPerBlock = 1
  ReservedBlocks = 1
  LPN = {0}
  MaxEraseCycles = 2
  HotBlockPct = 80
  WarnThreshold = 50
  Worker = {w1, w2}
  Free = Free
  MaxPlans = 1
  MaxOps = 2
  MaxCerts = 0
  MaxMarks = 0
  Batch <- WriteBatch
  Reason = {}
  Numbering = {FALSE}
  Faults = FALSE
  Reports = {}
SPECIFICATION SpecFrozen
INVARIANT
  PublishableLogPasses
