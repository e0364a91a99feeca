\* Two threads, two handlers, two timers, one-shot and of both periods; no resets.
CONSTANTS
    Callers = {c1, c2}
    Handlers = {h1, h2}
    Delays = {0, 1}
    Intervals = {0, 1, 2}
    ResetIntervals = {}
    MaxTimers = 2
    MaxTime = 3
SPECIFICATION Spec
SYMMETRY Symmetric
INVARIANTS
    TypeOK
    EventsRegistered
    RemovedOnce
    OneJoiner
PROPERTIES
    ImplementsService
\* The bounds may be used up with nothing left to do.
CHECK_DEADLOCK FALSE
