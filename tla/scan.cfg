SPECIFICATION FairSpec
CONSTANTS
  d1 = d1
  d2 = d2
  ten = ten
  tenAgain = tenAgain
  noted = noted
  o1 = o1
  Drama = {d1, d2}
  TimeCell = {ten, tenAgain, noted}
  Today = {ten, tenAgain}
  Public <- PublicRows
  PrefixOf <- Letters
  Runs = {r1}
  Person = Person
  NoMark = NoMark
  NoRun = NoRun
  FirstRows <- Sheets
  Additions = {}
  Retimed = {tenAgain}
  MaxEdits = 1
  MaxClicks = 1
  MaxFaults = 0
  Scanners = {loop, api}
  Scheduler = loop
  When <- Moments
  NoTime = 0
  ScanRows = 2
INVARIANTS
  TasksPerKeyBounded

  
CHECK_DEADLOCK FALSE
