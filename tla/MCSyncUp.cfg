SPECIFICATION FairSpec
CONSTANTS
    b1 = b1
    b2 = b2
    x = x
    y = y
    None = None
    Top = 2
    EBlocks = {b1, b2}
    Entries = {x, y}
    Listed <- MCListed
    ChainOf <- MCChainOf
    SeqOf <- MCSeqOf
    Body <- MCBody
    MAX_BLK_POOL_SIZE = 6
    Ahead = 1
    MaxStale = 1
    MaxBoots = 3
INVARIANTS
    TypeOK
    PoolKeepsWhatWasChecked
    BlocksAppliedOnce
    StartupNeverPanics
PROPERTIES
    MirrorsServer
    CompleteIsStored
