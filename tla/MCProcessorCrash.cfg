SPECIFICATION Spec
CONSTANTS
    k1 = k1
    k2 = k2
    e1 = e1
    e2 = e2
    e3 = e3
    t1 = t1
    cc1 = cc1
    cc3 = cc3
    ce3 = ce3
    ce2 = ce2
    ce2b = ce2b
    None = None
    Keys = {k1}
    Chains = {1}
    Entries = {e1, e2}
    Commits = {cc1, ce2}
    Txs = {t1}
    ChainOf <- MCChainOf
    Cost <- MCCost
    NamesChain <- MCNamesChain
    CommitMsg <- MCCommitMsg
    ECOutputs <- MCECOutputs
    Rates = {1, 2}
    GenesisRate = 1
    MAX_ENTRY_CREDITS = 2
    MAX_CHAIN_CREDITS = 4
    MAX_ORPHAN_SIZE = 1
    MAX_PLIST_SIZE = 3
    ChainFee = 2
    LastMinute = 1
    MaxHeight = 3
    MaxBoots = 2
    CrashAt = {"serve", "orphans", "build", "first", "admin", "fct", "entry"}
INVARIANTS
    DirectoryListsStoredBlocks
    ReplayGivesBalances
    EntriesArePaidFor
