SPECIFICATION Spec
CONSTANTS
  Workers = {w1, w2}
  Tasks = {t1}
  Movable = {}
  Items = {i1, i2}
  Requests = {r1, r2}
  NoWorker = NoWorker
  NoTask = NoTask
  NoItem = NoItem
  Free = Free
  Reports = {"LINK_READY", "COMPLETED", "MANUAL_REVIEW"}
  MaxTime = 1
  LeaseLen = 1
  MaxAttempts = 1
  MaxOps = 3
SYMMETRY Interchangeable
INVARIANTS
  NothingEarly
  ClaimsAreOwned
  
  CompletedHasLedger
  PlatformWritesSerial
