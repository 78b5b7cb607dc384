SPECIFICATION Spec
CONSTANTS
    price = price
    material = material
    RuleSets = {price, material}
    Requests = {r1, r2}
    Payloads <- MCPayloads
    DefaultPayload <- MCDefaultPayload
    DefaultPrices <- MCDefaultPrices
    DefaultRanges <- MCDefaultRanges
    Counts = {1, 19, 20, 30, 31, 60, 61, 90, 91, 100, 121}
    MaxOps = 4
    MaxTime = 1
    r1 = r1
    r2 = r2
INVARIANTS PublishedIsInEffect ValidatedIsValid GroupsFit
PROPERTIES PublishesNewest
SYMMETRY Symmetry
CHECK_DEADLOCK FALSE
