SPECIFICATION FairSpec
CONSTANTS
    Messages = {1, 2}
    Signals = {"SIGTERM", "SIGINT"}
    Probes = {"q1", "q2"}
    Faults = 1
INVARIANT TypeOK
INVARIANT NothingInFlight
PROPERTY ClosedInOrder
PROPERTY SignalEndsProcess
\* A process that has exited takes no step.
CHECK_DEADLOCK FALSE
