SPECIFICATION HostSpec
CONSTANTS
    Threads = {t1, t2}
    MaxCalls = 2
    MaxGroupSize = 2
    None = None
    Processes <- MCProcesses
INVARIANT
    NothingInFlight
CHECK_DEADLOCK FALSE
