SPECIFICATION Spec
CONSTANTS
    ChunkBits = 1
    Chunks = 2
    SizeBound = 4
    ByteMax = 3
    Chains <- Neighbours
    Contents = {1}
    Payments <- Purchases
    LastMinute = 2
    MaxHeight = 2
    MaxSent = 2
    MaxBoots = 2
INVARIANTS
    TypeOK RequestsAreAnswered AnswersMatchTheirKey LinksNameStoredBlocks
    EntriesAreTimed ScansFindTheirChain StoredEntriesAreListed PurchasesReadBack KeyMRCommits
CHECK_DEADLOCK FALSE
