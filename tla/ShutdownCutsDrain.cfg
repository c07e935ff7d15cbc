SPECIFICATION Spec
CONSTANTS
    Messages = {1, 2}
    Signals = {"SIGTERM", "SIGINT"}
    Probes = {}
    Faults = 0
INVARIANT DrainHasItsTime
CHECK_DEADLOCK FALSE
