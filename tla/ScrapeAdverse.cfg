SPECIFICATION FairSpec
CONSTANTS
    s1 = s1
    s2 = s2
    j1 = j1
    j2 = j2
    j3 = j3
    NoJob = NoJob
    NoSession = NoSession
    Jobs = {j1, j2}
    Sessions = {s1, s2}
    DeadProxy = {s1}
    Permits = 2
    FailLimit = 2
    MaxRetries = 2
    MaxDepth = 1
    Adversity = {"flood", "fail", "unauthorized", "raise", "disconnect", "cancel"}
INVARIANT TypeOK
INVARIANT ConnectionsAccounted
INVARIANT NoEarlyBan
PROPERTY EveryScrapeEnds
\* Once every job has its verdict and the pool is closed, nothing is left to do.
CHECK_DEADLOCK FALSE
