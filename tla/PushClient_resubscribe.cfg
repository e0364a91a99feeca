\* A client that connects again after it was subscribed.
CONSTANTS
    Users = {u1}
    MaxReaders = 3
    MaxPuts = 1
    MaxOutages = 0
    Prescales = {1}
SPECIFICATION Spec
INVARIANTS
    NotSubscribedAfterConnect
CHECK_DEADLOCK FALSE
