\* Two threads, a reconnect, a query under way, a server that goes away once.
CONSTANTS
    Users = {u1, u2}
    MaxSessions = 2
    MaxQueries = 1
    MaxOutages = 1
SPECIFICATION FairSpec
INVARIANTS
    TypeOK
    ConnectedHasEndpoints
    RegisteredInSession
    NoForgottenWaiter
PROPERTIES
    WaitsEnd
\* The bounds may be used up with nothing left to do.
CHECK_DEADLOCK FALSE
