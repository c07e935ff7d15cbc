SPECIFICATION FairSpec
CONSTANTS
    Workers = {w1, w2}
    NoWorker = NoWorker
    p1 = p1
    r1 = r1
    r2 = r2
    r3 = r3
    w1 = w1
    w2 = w2
    Partitions <- MCPartitions
    Requests <- MCRequests
    LogLength = 2
    RequestOf <- RepeatedRequest
    Malformed <- FirstMessage
    Invalid <- NoMessage
    Unrouted <- NoMessage
    Concurrency = 1
    Budget <- MCBudget
    Crashes = 1
    Stops = 0
    Rebalances = 1
    Expulsions = 1
    Cancels = 0
    Faults = 1
    Evictions = 1
INVARIANT CommittedAreHandled
PROPERTY CommitsMoveForward
PROPERTY EventuallyHandled
\* The log is finite: once it is processed, the system rests.
CHECK_DEADLOCK FALSE
