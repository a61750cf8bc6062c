SPECIFICATION FairSpec
CONSTANTS
    k1 = k1
    k2 = k2
    e1 = e1
    e2 = e2
    e3 = e3
    t1 = t1
    cc1 = cc1
    cc3 = cc3
    ce3 = ce3
    ce2 = ce2
    ce2b = ce2b
    None = None
    Keys = {k1, k2}
    Chains = {1, 2}
    Entries = {e1, e2, e3}
    Commits = {cc1, ce2, cc3}
    Txs = {t1}
    ChainOf <- MCChainOf
    Cost <- MCCost
    NamesChain <- MCNamesChain
    CommitMsg <- MCCommitMsg
    ECOutputs <- MCECOutputs
    Rates = {1}
    GenesisRate = 1
    MAX_ENTRY_CREDITS = 2
    MAX_CHAIN_CREDITS = 4
    MAX_ORPHAN_SIZE = 1
    MAX_PLIST_SIZE = 3
    ChainFee = 2
    LastMinute = 2
    MaxHeight = 3
    MaxBoots = 1
    CrashAt = {}
INVARIANT EntriesKeepTheirMinute
PROPERTIES
    OrphansAreServed
