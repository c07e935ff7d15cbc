SPECIFICATION FairSpec
CONSTANTS
    Workers = {w1, w2}
    NoWorker = NoWorker
    p1 = p1
    r1 = r1
    r2 = r2
    r3 = r3
    w1 = w1
    w2 = w2
    Partitions <- MCPartitions
    Requests <- MCRequests
    LogLength = 3
    RequestOf <- RepeatedLater
    Malformed <- NoMessage
    Invalid <- FirstMessage
    Unrouted <- NoMessage
    Concurrency = 2
    Budget <- MCBudget
    Crashes = 1
    Stops = 1
    Rebalances = 1
    Expulsions = 0
    Cancels = 0
    Faults = 0
    Evictions = 0
INVARIANT NoLostRequest
INVARIANT OneWorkerPerPartition
PROPERTY EventuallyAnswered
PROPERTY DrainEnds
\* The log is finite: once it is processed, the system rests.
CHECK_DEADLOCK FALSE
