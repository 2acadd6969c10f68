CONSTANTS
  DieCount = 1
  PlanesPerDie = 1
  BlocksPerPlane = 2
  PagesPerBlock = 1
  ReservedBlocks = 1
  LPN = {0}
  MaxEraseCycles = 2
  HotBlockPct = 80
  WarnThreshold = 50
  Worker = {w1, w2}
  Free = Free
  MaxPlans = 1
  MaxOps = 3
  MaxCerts = 1
  MaxMarks = 1
  Batch <- MCBatch
  Reason = {}
  Numbering = {FALSE}
  Faults = TRUE
  Reports = {}
SYMMETRY Symmetry
SPECIFICATION SpecFrozen
INVARIANTS
  TypeOK
  OpsContiguous
  ReferencesInLog
  RejectionStands
  CurveOfRun
PROPERTIES
  PassedSettles
  KeepsLedger
