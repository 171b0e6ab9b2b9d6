CONSTANTS
    e1 = e1
    e2 = e2
    NoEntry = NoEntry
    NCores = 3
    PollBound = 1
    Entries <- MCEntries
    ClusterIds <- MCClusterIds

SPECIFICATION FairSpec

INVARIANT TypeOK
INVARIANT NoBootWithoutEntry
PROPERTY CpuOnTerminates
PROPERTY SuccessfulCpuOnBoots
PROPERTY RetiredCoreParked
