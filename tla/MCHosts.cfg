\* A process ends, and with it what it does: there is nothing after that.
SPECIFICATION HostSpec
CONSTANTS
    Threads = {t1, t2}
    MaxCalls = 2
    MaxGroupSize = 2
    None = None
    Processes <- MCProcesses
INVARIANTS CodeIsTrue BindingIsTrue
PROPERTY CallReturns
CHECK_DEADLOCK FALSE
