SPECIFICATION Spec
CONSTANTS
    Workers = {w1, w2}
    NoWorker = NoWorker
    p1 = p1
    r1 = r1
    r2 = r2
    r3 = r3
    w1 = w1
    w2 = w2
    Partitions <- MCPartitions
    Requests <- MCRequests
    LogLength = 2
    RequestOf <- RepeatedRequest
    Malformed <- NoMessage
    Invalid <- NoMessage
    Unrouted <- NoMessage
    Concurrency = 2
    Budget <- MCBudget
    Crashes = 1
    Stops = 1
    Rebalances = 1
    Expulsions = 1
    Cancels = 1
    Faults = 1
    Evictions = 0
INVARIANT TypeOK
INVARIANT ExecutedAtMostOnce
INVARIANT VerdictIsTrue
INVARIANT TasksWithinAssignment
PROPERTY DeliveryRefined
SYMMETRY WorkerSymmetry
\* The log is finite: once it is processed, the system rests.
CHECK_DEADLOCK FALSE
