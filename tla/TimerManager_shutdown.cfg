\* Shutdown against the thread's unlocked test of running.
CONSTANTS
    Callers = {c1, c2}
    Handlers = {h1}
    Delays = {0}
    Intervals = {0}
    ResetIntervals = {}
    MaxTimers = 1
    MaxTime = 1
SPECIFICATION FairSpec
PROPERTIES
    ShutdownReturns
CHECK_DEADLOCK FALSE
