CONSTANTS
    t1 = t1
    t2 = t2
    f1 = f1
    f2 = f2
    NoThread = NoThread
    Threads <- MCThreads
    FROs <- MCFROs
    ShutdownTh = 1
    MaxAlarms = 3

SPECIFICATION FairSpec

PROPERTY CallsReturn
