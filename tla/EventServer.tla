---------------------------- MODULE EventServer -----------------------------
(***************************************************************************)
(* EventServerPattern: the DDS listener thread that keeps the list of      *)
(* activations, the user's thread that puts states to be tested against    *)
(* them, and the server-initiated disconnect. The flag is_shutting_down is *)
(* read before server_mutex is taken, by the upcall and by put.            *)
(***************************************************************************)
EXTENDS EventTopics

CONSTANT MaxRestarts    \* bound on the times the server is created anew
ASSUME RestartBound == MaxRestarts \in Nat

VARIABLES
    event_activations,  \* the activations the server tests
    is_shutting_down,   \* the flag of the base class
    server_mutex,       \* Free, or held by the disconnect
    disconnecting,      \* how far serverInitiatedDisconnect is
    upcall,             \* the listener thread: "quiet", or "locking" the mutex
    puts, restarts      \* how often an event was put and the server was replaced

service == <<event_activations, is_shutting_down, server_mutex, disconnecting, upcall>>
serverVars == <<service, puts, restarts>>

Free == "free"

\* EventActivation: the identity, the mode and whether it has fired.
Activations == [id : EventIds, mode : Modes, fired_once : BOOLEAN]
IsContinuous(a) == a.mode = "continuous"

ServiceInit ==
    /\ event_activations = {}
    /\ is_shutting_down = FALSE
    /\ server_mutex = Free
    /\ disconnecting = "no"
    /\ upcall = "quiet"

ServerInit == ServiceInit /\ puts = 0 /\ restarts = 0

-----------------------------------------------------------------------------
\* The listener thread. A batch of samples is handled like as many upcalls.

OnRequestAvailable ==
    /\ upcall = "quiet"
    /\ server_up /\ requests # {}
    /\ ~is_shutting_down
    /\ upcall' = "locking"
    /\ UNCHANGED <<event_activations, is_shutting_down, server_mutex, disconnecting, puts,
                   restarts, topics>>

\* The samples of one writer come in the order written: an activation before its
\* deactivation.
InOrder(r) == r.mode = "deactivate" => \A q \in requests : q.id = r.id => q = r

\* A deactivation kept like an activation.
AlwaysStored(r) ==
    event_activations \cup {[id |-> r.id, mode |-> r.mode, fired_once |-> FALSE]}
ActivationsAfter(r) ==
    IF r.mode = "deactivate"
      THEN {a \in event_activations : a.id # r.id}
      ELSE event_activations \cup {[id |-> r.id, mode |-> r.mode, fired_once |-> FALSE]}

TakeRequest(r) ==
    /\ upcall = "locking"
    /\ server_mutex = Free
    /\ r \in requests /\ InOrder(r)
    /\ requests' = requests \ {r}
    /\ event_activations' = ActivationsAfter(r)
    /\ upcall' = "quiet"
    /\ UNCHANGED <<is_shutting_down, server_mutex, disconnecting, puts, restarts,
                   events, reader, server_up>>

\* The sample is gone with its writer.
TakeNothing ==
    /\ upcall = "locking"
    /\ server_mutex = Free
    /\ requests = {}
    /\ upcall' = "quiet"
    /\ UNCHANGED <<event_activations, is_shutting_down, server_mutex, disconnecting, puts,
                   restarts, topics>>

-----------------------------------------------------------------------------
\* put(), SMART_CANCELLED while shutting down. Any thread may put, and have read the
\* flag before the shutdown was announced: the step begins where put takes the mutex.

\* The activations that are tested, and those the user's testEvent accepts.
TestedAlways == event_activations
Tested == {a \in event_activations : IsContinuous(a) \/ ~a.fired_once}

FireEvents(due) ==
    event_activations' =
        (event_activations \ due) \cup {[a EXCEPT !.fired_once = TRUE] : a \in due}

Put(due) ==
    /\ server_mutex = Free
    /\ server_up
    /\ due \subseteq Tested
    /\ due # {} => puts < MaxPuts
    /\ puts' = IF due = {} THEN puts ELSE puts + 1
    /\ FireEvents(due)
    /\ events' = events \cup Sent({[id |-> a.id, put |-> puts'] : a \in due})
    /\ UNCHANGED <<is_shutting_down, server_mutex, disconnecting, upcall, restarts,
                   requests, reader, server_up>>

\* The writer is nil: the first write throws, SMART_ERROR_COMMUNICATION.
PutFails ==
    /\ server_mutex = Free
    /\ ~server_up
    /\ \/ UNCHANGED event_activations
       \/ \E a \in Tested : FireEvents({a})
    /\ UNCHANGED <<is_shutting_down, server_mutex, disconnecting, upcall, puts, restarts,
                   topics>>

-----------------------------------------------------------------------------
\* The base class announces the shutdown before it disconnects the clients; the
\* destructor disconnects them without announcing it.
BeginShutdown ==
    /\ ~is_shutting_down
    /\ is_shutting_down' = TRUE
    /\ UNCHANGED <<event_activations, server_mutex, disconnecting, upcall, puts,
                   restarts, topics>>

\* serverInitiatedDisconnect(): with the mutex ...
LockServer ==
    /\ disconnecting = "no"
    /\ server_mutex = Free
    /\ server_mutex' = "disconnect"
    /\ disconnecting' = "detaching"
    /\ UNCHANGED <<event_activations, is_shutting_down, upcall, puts, restarts,
                   topics>>

\* ... detach the listener, which waits for an upcall in progress, and drop the
\* reader and the writer, with what they have not sent. The list of activations stays.
DetachServer ==
    /\ disconnecting = "detaching"
    /\ upcall = "quiet"
    /\ server_up' = FALSE
    /\ requests' = {}
    /\ events' \in SUBSET events
    /\ server_mutex' = Free
    /\ disconnecting' = "done"
    /\ UNCHANGED <<event_activations, is_shutting_down, upcall, puts, restarts,
                   reader>>

\* The server is destroyed and created anew, with an empty list.
RestartServer ==
    /\ disconnecting = "done"
    /\ restarts < MaxRestarts
    /\ restarts' = restarts + 1
    /\ event_activations' = {}
    /\ is_shutting_down' = FALSE
    /\ disconnecting' = "no"
    /\ server_up' = TRUE
    /\ UNCHANGED <<server_mutex, upcall, puts, requests, events, reader>>

-----------------------------------------------------------------------------
ServerUpcall ==
    \/ OnRequestAvailable \/ TakeNothing
    \/ \E r \in requests : TakeRequest(r)

PutNext == PutFails \/ \E due \in SUBSET event_activations : Put(due)

ServerNext ==
    \/ ServerUpcall \/ PutNext
    \/ BeginShutdown \/ LockServer \/ DetachServer \/ RestartServer

ServerTypeOK ==
    /\ event_activations \subseteq Activations
    /\ is_shutting_down \in BOOLEAN
    /\ server_mutex \in {Free, "disconnect"}
    /\ disconnecting \in {"no", "detaching", "done"}
    /\ upcall \in {"quiet", "locking"}
    /\ puts \in 0 .. MaxPuts
    /\ restarts \in 0 .. MaxRestarts
=============================================================================
