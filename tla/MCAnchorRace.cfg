SPECIFICATION Spec
CONSTANTS
    c1 = c1
    c2 = c2
    None = None
    Coins = {c1}
    Amount <- MCAmount
    MaxHeight = 1
    MaxActive = 2
    MaxFaults = 1
    MaxBoots = 1
INVARIANTS
    TrackedUntilConfirmed
PROPERTIES
    RecordsFormAnchorChain
CHECK_DEADLOCK FALSE
