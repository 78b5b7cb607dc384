SPECIFICATION FairSpec
CONSTANTS
  Processes = {p1, p2}
  Ids = {i1, i2}
  IdOf <- OwnIds
  Free = Free
  NoProcess = NoProcess
  LeaseLen = 2
  MaxTime = 3
  MaxOps = 4
INVARIANTS
  StartSparesExecution
  ExecutesInConfirmedMode
PROPERTIES
  ModeIsApplied
CHECK_DEADLOCK FALSE
