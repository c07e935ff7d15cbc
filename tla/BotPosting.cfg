SPECIFICATION FairSpec
CONSTANTS
    p1 = p1
    p2 = p2
    b1 = b1
    b2 = b2
    b3 = b3
    j1 = j1
    j2 = j2
    j3 = j3
    NoBot = NoBot
    NoPlatform = NoPlatform
    Jobs = {j1, j2}
    Bots = {b1, b2, b3}
    Platforms = {p1, p2}
    PlatformOf <- TwoPlatforms
    BoundTo <- OneBotEach
    MaxSize = 1
    FailLimit = 2
    MaxRetries = 2
    BatchSize = 2
    NewBots = 1
INVARIANT TypeOK
INVARIANT PoolBounded
INVARIANT PoolIsUsable
INVARIANT RightBot
INVARIANT NoEarlyDeactivation
 
PROPERTY EveryJobEnds
\* Once every job has its verdict and the pool is closed, nothing is left to do.
CHECK_DEADLOCK FALSE
