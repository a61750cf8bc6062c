SPECIFICATION Spec
CONSTANTS
    ChunkBits = 1
    Chunks = 2
    SizeBound = 4
    ByteMax = 3
    Chains <- EdgeChain
    Contents = {1}
    Payments <- Purchases
    LastMinute = 1
    MaxHeight = 1
    MaxSent = 1
    MaxBoots = 1
INVARIANT AllBlocksByChain
CHECK_DEADLOCK FALSE
