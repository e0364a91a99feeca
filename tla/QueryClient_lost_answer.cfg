\* An answer that arrives before its entry is made.
CONSTANTS
    Users = {u1}
    MaxSessions = 1
    MaxQueries = 1
    MaxOutages = 0
SPECIFICATION FairSpec
PROPERTIES
    AnsweredWaitReturns
CHECK_DEADLOCK FALSE
