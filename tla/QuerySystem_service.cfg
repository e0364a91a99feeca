\* Two queries of one client that reconnects, or disconnects, while they are under way.
CONSTANTS
    Users = {u1}
    Workers = {w1}
    MaxSessions = 2
    MaxQueries = 2
SPECIFICATION Spec
PROPERTIES
    ImplementsService
\* The bounds may be used up with nothing left to do.
CHECK_DEADLOCK FALSE
