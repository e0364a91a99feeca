\* Two threads, a subscription and a reconnect or resubscription, an outage, every
\* second update.
CONSTANTS
    Users = {u1, u2}
    MaxReaders = 3
    MaxPuts = 2
    MaxOutages = 1
    Prescales = {0, 2}
SPECIFICATION FairSpec
INVARIANTS
    TypeOK
    SubscriptionHasReader
    FreshUpdates
PROPERTIES
    ImplementsService
    MutexReleased
\* The bounds may be used up with nothing left to do.
CHECK_DEADLOCK FALSE
