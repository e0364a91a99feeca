\* serverInitiatedDisconnect against an upcall that wants the mutex.
CONSTANTS
    Workers = {w1}
    MaxSessions = 1
    MaxQueries = 1
SPECIFICATION FairSpec
PROPERTIES
    DisconnectCompletes
CHECK_DEADLOCK FALSE
