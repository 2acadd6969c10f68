CONSTANTS
  DieCount = 1
  PlanesPerDie = 1
  BlocksPerPlane = 2
  PagesPerBlock = 1
  ReservedBlocks = 1
  LPN = {0}
  MaxEraseCycles = 3
  HotBlockPct = 60
  WarnThreshold = 30
  Worker = {w1}
  Free = Free
  MaxPlans = 2
  MaxOps = 2
  MaxCerts = 2
  MaxMarks = 1
  Batch <- MCBatch
  Reason = {r1, r2}
  Numbering = {TRUE, FALSE}
  Faults = FALSE
  Reports = {"stats", "recover"}
SPECIFICATION Spec
INVARIANTS
  VerdictCoversLog
  OneCertPerPlan
  CertMatchesPlan
  StatsAddUp
  PassedIsRecoverable
PROPERTIES
  PublishedIsFinal
  CertsRevokedOnce
  FrozenIsFixed
  BadStays
