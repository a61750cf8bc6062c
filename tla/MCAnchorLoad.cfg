SPECIFICATION Spec
CONSTANTS
    c1 = c1
    c2 = c2
    None = None
    Coins = {c1}
    Amount <- MCAmount
    MaxHeight = 1
    MaxActive = 1
    MaxFaults = 1
    MaxBoots = 2
INVARIANTS
    UnconfirmedAreLoaded
CHECK_DEADLOCK FALSE
