SPECIFICATION FairSpec
CONSTANTS
  d1 = d1
  d2 = d2
  Drama = {d1, d2}
  Links <- SomeLinks
  DayOf <- SameDay
  Cid = {0, 1, 2, 3, 4, 5, 6, 7, 8, 9, 10}
  Configured = {1, 2, 3, 4, 5, 6, 7, 8, 9, 10}
  Size <- OneEach
  InitialSheets <- Sheets
  Nobody = Nobody
  Other = Other
  IncludeTest = TRUE
  MaxEdits = 1
  MaxRuns = 2
  MaxPolls = 1
INVARIANTS
  WrittenIsRecordable
  ConfirmedPlanIsValid
  CompletionIsBacked
PROPERTIES
  KeepsDelivery
  ExecutionEnds
CHECK_DEADLOCK FALSE
