SPECIFICATION ImportSpec
CONSTANTS
  d1 = d1
  d2 = d2
  ten = ten
  tenAgain = tenAgain
  noon = noon
  o1 = o1
  Drama = {d1, d2}
  TimeCell = {ten, tenAgain, noon}
  Today = {ten, tenAgain, noon}
  Public <- PublicRows
  PrefixOf <- Letters
  Runs = {r1, r2}
  Person = Person
  NoMark = NoMark
  NoRun = NoRun
  FirstRows <- Sheets
  Additions <- Added
  Retimed = {tenAgain, noon}
  MaxEdits = 2
  MaxClicks = 3
  MaxFaults = 2
INVARIANTS
  InsertedOnce
  CompletedHasLanded
  ImportsAreDisjoint
CHECK_DEADLOCK FALSE
