SPECIFICATION Spec
CONSTANTS
    m1 = m1
    m2 = m2
    tx = tx
    None = None
    Msgs = {m1, m2, tx}
    Commits = {m1, m2}
    Stamp <- MCStamp
    numBuckets = 4
    COMMIT_TIME_WINDOW = 2
    Hour = 2
    StartTime = 11
    MaxTime = 20
    MaxBoots = 2
    MaxSetBacks = 1
INVARIANTS
    TypeOK
    FreshPasses
    ServedOnceByProcess
    BucketsAligned
    LockedOutOnlyWhenStale
