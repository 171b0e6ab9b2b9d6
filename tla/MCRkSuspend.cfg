CONSTANTS
    GateCnt = 2
    LockBound = 1

SPECIFICATION FairSpec

CHECK_DEADLOCK FALSE

INVARIANT TypeOK
INVARIANT DividersOnlyInSlowMode
INVARIANT PllNormalOnlyWhenLocked
PROPERTY SuspendRoundTrip
PROPERTY SuspendEnds
