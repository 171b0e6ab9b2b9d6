CONSTANTS
    e1 = e1
    e2 = e2
    NoEntry = NoEntry
    NCores = 3
    PollBound = 1
    Entries <- MCEntries
    ClusterIds <- MCClusterIds

SPECIFICATION Spec

INVARIANT OfflineCoreSilent
