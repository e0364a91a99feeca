\* Two clients that come and go, two answering threads, two requests.
CONSTANTS
    Workers = {w1, w2}
    MaxSessions = 2
    MaxQueries = 2
SPECIFICATION FairSpec
INVARIANTS
    TypeOK
    AnsweredOnce
    DownIsClean
    KnowsItsClients
PROPERTIES
    RequestsAreHandled
\* The bounds may be used up with nothing left to do.
CHECK_DEADLOCK FALSE
