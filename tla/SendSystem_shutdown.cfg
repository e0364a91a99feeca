\* Two threads of a client, two connections, a server component that is asked to shut
\* down by one other thread and started once more.
CONSTANTS
    Users = {u1, u2}
    Signallers = {s1}
    MaxSessions = 2
    MaxCommands = 2
    MaxQueue = 2
    MaxThreads = 3
    MaxRestarts = 1
    MaxRounds = 2
SPECIFICATION FairSpec
INVARIANTS
    TypeOK
    ConnectedHasWriter
    QuietAfterShutdown
    OneThread
PROPERTIES
    ImplementsService
    ShutdownEnds
\* The bounds may be used up with nothing left to do.
CHECK_DEADLOCK FALSE
