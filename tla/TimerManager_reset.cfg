\* Intervals reset at any moment, the running handler included.
CONSTANTS
    Callers = {c1}
    Handlers = {h1}
    Delays = {0, 1}
    Intervals = {0, 1}
    ResetIntervals = {1, 2}
    MaxTimers = 2
    MaxTime = 3
SPECIFICATION FairSpec
INVARIANTS
    PeriodicNeverLost
PROPERTIES
    OnlyResetsDouble
    DueTimerExpires
CHECK_DEADLOCK FALSE
