SPECIFICATION FairSpec
CONSTANTS
  Workers = {w1}
  Tasks = {t1}
  Movable = {t1}
  Items = {i1}
  Requests = {r1}
  NoWorker = NoWorker
  NoTask = NoTask
  NoItem = NoItem
  Free = Free
  Reports = {"LINK_READY"}
  MaxTime = 3
  LeaseLen = 1
  MaxAttempts = 1
  MaxOps = 0
PROPERTIES
  AbandonedClaimReturns
