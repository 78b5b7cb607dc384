SPECIFICATION Spec
CONSTANTS
    Promotions <- MCPromotions
    PriceRules <- MCPriceRules
    MaxPromotions = 3
    MaxCaptures = 2
    MaxRuns = 2
INVARIANTS
    
    SeveralNeverFrozen
    ReadySettlesDoubts
    
CHECK_DEADLOCK FALSE
