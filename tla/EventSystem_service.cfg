\* Two threads that use the client, two connections, one activation, two events, one
\* restart of the server.
CONSTANTS
    Users = {u1, u2}
    Base = 2
    LENGTH = 2
    MaxSessions = 2
    MaxActivations = 1
    MaxPuts = 2
    MaxRestarts = 1
    VirtualGuid <- MCVirtualGuid
SPECIFICATION Spec
INVARIANTS
    TypeOK
    ConnectedHasEndpoints
    OwnEventsOnly
    EventHasEntry
    GuardTellsEvent
    ActivationsAgree
    NoForgottenWaiter
    HolderProceeds
SYMMETRY Symmetric
PROPERTIES
    NextEventIsNew
    ImplementsService
\* The bounds on connections and puts are reached.
CHECK_DEADLOCK FALSE
