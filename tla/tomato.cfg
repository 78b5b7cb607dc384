SPECIFICATION TEFairSpec
CONSTANTS
  Catalogue <- SameName
  Due = 0
  OldRows <- Rows
  MaxOldRows = 1
  Template = {"small", "large"}
  PriceOf <- Prices
  Counts = {1, 60}
  RuleRange <- Ranges
  NoDrama = NoDrama
  MaxRuns = 2
INVARIANTS
  
  
  GeneratesForTheDrama
PROPERTIES
  ExtractionEnds
CHECK_DEADLOCK FALSE
