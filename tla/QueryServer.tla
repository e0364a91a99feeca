---------------------------- MODULE QueryServer -----------------------------
(***************************************************************************)
(* QueryServerPattern: the DDS listener thread that stores requests and    *)
(* hands them to the user's handler, threads that answer them at any later *)
(* time (the handler itself, or a ThreadQueueQueryHandler), and the        *)
(* server-initiated disconnect.                                            *)
(*                                                                         *)
(* server_mutex is held for one step, except by serverInitiatedDisconnect, *)
(* which keeps it while it detaches the listener from the reader.          *)
(***************************************************************************)
EXTENDS QueryTopics, FiniteSets

CONSTANTS Workers      \* the threads that call answer()

VARIABLES
    request_cache,     \* the requests that may still be answered
    connected_clients, \* the sessions of the clients that are connected
    is_shutting_down,  \* the flag of the base class
    server_mutex,      \* Free, or held by the disconnect
    disconnecting,     \* how far serverInitiatedDisconnect is
    upcall,            \* the listener thread, its session and its batch of requests
    matched,           \* the sessions DDS has reported to the reader
    handed,            \* the requests the user's handler was given
    answering,         \* per worker, the request it is about to answer
    opened, sent       \* the sessions and requests there have been so far

serverVars == <<request_cache, connected_clients, is_shutting_down, server_mutex,
                disconnecting, upcall, matched, handed, answering>>
clients == <<opened, sent>>
vars == <<serverVars, clients, topics>>

Free == "free"
Quiet == [at |-> "quiet", session |-> 0, batch |-> {}]

ServerInit ==
    /\ request_cache = {}
    /\ connected_clients = {}
    /\ is_shutting_down = FALSE
    /\ server_mutex = Free
    /\ disconnecting = "no"
    /\ upcall = Quiet
    /\ matched = {}
    /\ handed = {}
    /\ answering = [w \in Workers |-> NoQuery]

-----------------------------------------------------------------------------
\* The listener thread, one upcall at a time.

\* DDS reports a writer that appeared or vanished; nobody cares while shutting down.
OnLivelinessChanged(s) ==
    /\ upcall = Quiet
    /\ server_up
    /\ \/ s \in request_writers \ matched /\ matched' = matched \cup {s}
       \/ s \in matched \ request_writers /\ matched' = matched \ {s}
    /\ upcall' = IF is_shutting_down THEN Quiet
                 ELSE [at |-> IF s \in matched' THEN "alive" ELSE "gone",
                       session |-> s, batch |-> {}]
    /\ UNCHANGED <<request_cache, connected_clients, is_shutting_down, server_mutex,
                   disconnecting, handed, answering, clients, topics>>

\* last_publication_handle(): the client the upcall is about.
NilHandle == 0
ClientHandle == upcall.session

ClientsOnlyAdded == connected_clients \cup {ClientHandle}
ClientsUpdated ==
    IF upcall.at = "alive" THEN connected_clients \cup {ClientHandle}
                           ELSE connected_clients \ {ClientHandle}

UpdateClients ==
    /\ upcall.at \in {"alive", "gone"}
    /\ server_mutex = Free
    /\ connected_clients' = ClientsUpdated
    /\ upcall' = Quiet
    /\ UNCHANGED <<request_cache, is_shutting_down, server_mutex, disconnecting, matched,
                   handed, answering, clients, topics>>

\* take(): DDS delivers what the writers it has reported, or had reported, wrote.
OnDataAvailable ==
    LET arrived == {r \in requests : r.session \in matched \cup (Sessions \ request_writers)} IN
    /\ upcall = Quiet
    /\ server_up
    /\ ~is_shutting_down
    /\ arrived # {}
    /\ requests' = requests \ arrived
    /\ upcall' = [at |-> "data", session |-> 0, batch |-> arrived]
    /\ UNCHANGED <<request_cache, connected_clients, is_shutting_down, server_mutex,
                   disconnecting, matched, handed, answering, clients, replies,
                   request_writers, server_up>>

\* Store one request, unlock and call the handler, which has the identifier from
\* then on.
StoreRequest(id) ==
    /\ upcall.at = "data"
    /\ id \in upcall.batch
    /\ server_mutex = Free
    /\ request_cache' = request_cache \cup {id}
    /\ handed' = handed \cup {id}
    /\ upcall' = [upcall EXCEPT !.at = "handling", !.batch = @ \ {id}]
    /\ UNCHANGED <<connected_clients, is_shutting_down, server_mutex, disconnecting,
                   matched, answering, clients, topics>>

\* handleQuery returns: the loop ends with the batch or with the server.
LoopEndsAlways == TRUE
LoopEnds == is_shutting_down \/ upcall.batch = {}

HandlerReturned ==
    /\ upcall.at = "handling"
    /\ upcall' = IF LoopEnds THEN Quiet
                 ELSE [upcall EXCEPT !.at = "data"]
    /\ UNCHANGED <<request_cache, connected_clients, is_shutting_down, server_mutex,
                   disconnecting, matched, handed, answering, clients, topics>>

-----------------------------------------------------------------------------
\* answer(): the flag is read before the mutex is taken. Refused with
\* SMART_DISCONNECTED while shutting down.

BeginAnswer(w, id) ==
    /\ answering[w] = NoQuery
    /\ id \in handed
    /\ ~is_shutting_down
    /\ answering' = [answering EXCEPT ![w] = id]
    /\ UNCHANGED <<request_cache, connected_clients, is_shutting_down, server_mutex,
                   disconnecting, upcall, matched, handed, clients, topics>>

EntryKept(id) == request_cache
EntryErased(id) == request_cache \ {id}

Answerable(id) == id \in request_cache /\ id.session \in connected_clients

WriteAnswer(w) ==
    /\ answering[w] # NoQuery
    /\ server_mutex = Free
    /\ Answerable(answering[w])
    /\ server_up
    /\ replies' = replies \cup {answering[w]}
    /\ request_cache' = EntryErased(answering[w])
    /\ answering' = [answering EXCEPT ![w] = NoQuery]
    /\ UNCHANGED <<connected_clients, is_shutting_down, server_mutex, disconnecting,
                   upcall, matched, handed, clients, requests, request_writers, server_up>>

\* SMART_WRONGID, SMART_DISCONNECTED (the request stays in the cache), or
\* SMART_ERROR_COMMUNICATION when the write throws.
RefuseAnswer(w) ==
    /\ answering[w] # NoQuery
    /\ server_mutex = Free
    /\ answering' = [answering EXCEPT ![w] = NoQuery]
    /\ UNCHANGED <<request_cache, connected_clients, is_shutting_down, server_mutex,
                   disconnecting, upcall, matched, handed, clients, topics>>

-----------------------------------------------------------------------------
\* The base class announces the shutdown before it disconnects the clients; the
\* destructor disconnects them without announcing it.
BeginShutdown ==
    /\ ~is_shutting_down
    /\ is_shutting_down' = TRUE
    /\ UNCHANGED <<request_cache, connected_clients, server_mutex, disconnecting, upcall,
                   matched, handed, answering, clients, topics>>

LockReleased == server_mutex' = Free
LockKept == server_mutex' = "disconnect"

\* serverInitiatedDisconnect(): clear, and with the mutex still held ...
ClearServer ==
    /\ disconnecting = "no"
    /\ server_mutex = Free
    /\ LockKept
    /\ request_cache' = {}
    /\ connected_clients' = {}
    /\ disconnecting' = "detaching"
    /\ UNCHANGED <<is_shutting_down, upcall, matched, handed, answering, clients, topics>>

\* ... detach the listener, which waits for an upcall in progress, and drop the
\* reader and the writer.
DetachServer ==
    /\ disconnecting = "detaching"
    /\ upcall = Quiet
    /\ server_up' = FALSE
    /\ requests' = {}
    /\ server_mutex' = Free
    /\ disconnecting' = "done"
    /\ UNCHANGED <<request_cache, connected_clients, is_shutting_down, upcall, matched,
                   handed, answering, clients, replies, request_writers>>

-----------------------------------------------------------------------------
\* The clients as the server sees them: each session's writer comes, writes requests
\* and goes, some of its requests on the way with it.

ClientConnects(s) ==
    /\ s \notin opened
    /\ opened' = opened \cup {s}
    /\ request_writers' = request_writers \cup {s}
    /\ UNCHANGED <<serverVars, sent, requests, replies, server_up>>

ClientRequests(id) ==
    /\ server_up
    /\ id.session \in request_writers
    /\ \A other \in sent : other.number < id.number
    /\ sent' = sent \cup {id}
    /\ requests' = requests \cup {id}
    /\ UNCHANGED <<serverVars, opened, replies, request_writers, server_up>>

ClientLeaves(s) ==
    /\ s \in request_writers
    /\ request_writers' = request_writers \ {s}
    /\ \E lost \in SUBSET {r \in requests : r.session = s} : requests' = requests \ lost
    /\ UNCHANGED <<serverVars, clients, replies, server_up>>

-----------------------------------------------------------------------------
Upcall ==
    \/ \E s \in Sessions : OnLivelinessChanged(s)
    \/ UpdateClients \/ OnDataAvailable \/ HandlerReturned
    \/ \E id \in upcall.batch : StoreRequest(id)

Answer(w) ==
    \/ \E id \in handed : BeginAnswer(w, id)
    \/ WriteAnswer(w) \/ RefuseAnswer(w)

ServerNext ==
    \/ Upcall
    \/ \E w \in Workers : Answer(w)
    \/ BeginShutdown \/ ClearServer \/ DetachServer

ClientsNext ==
    \/ \E s \in Sessions : ClientConnects(s) \/ ClientLeaves(s)
    \/ \E id \in QueryIds : ClientRequests(id)

Init == ServerInit /\ opened = {} /\ sent = {} /\ TopicsInit
Next == ServerNext \/ ClientsNext
Spec == Init /\ [][Next]_vars

\* The listener thread runs, handlers return, a disconnect that began goes on.
Fairness == WF_vars(Upcall) /\ WF_vars(DetachServer)
FairSpec == Spec /\ Fairness

-----------------------------------------------------------------------------
TypeOK ==
    /\ request_cache \subseteq QueryIds
    /\ connected_clients \subseteq Sessions
    /\ is_shutting_down \in BOOLEAN
    /\ server_mutex \in {Free, "disconnect"}
    /\ disconnecting \in {"no", "detaching", "done"}
    /\ upcall \in [at : {"quiet", "alive", "gone", "data", "handling"},
                   session : Sessions \cup {0}, batch : SUBSET QueryIds]
    /\ matched \subseteq Sessions
    /\ handed \subseteq QueryIds
    /\ answering \in [Workers -> QueryIds \cup {NoQuery}]
    /\ opened \subseteq Sessions
    /\ sent \subseteq QueryIds
    /\ TopicsTypeOK

\* A request is in one place only: on its way, in the listener's batch, in the cache
\* or answered. So however many threads answer it, it is answered once.
AnsweredOnce ==
    /\ replies \cap (requests \cup upcall.batch \cup request_cache) = {}
    /\ request_cache \cap (requests \cup upcall.batch) = {}
    /\ requests \cap upcall.batch = {}

\* Once the server has disconnected its clients it knows none of them and none of
\* their requests, whatever upcall was in progress.
DownIsClean == ~server_up => request_cache = {} /\ connected_clients = {}

\* Outside an upcall the clients the server takes for connected are those DDS has
\* reported, as long as it is not shutting down.
KnowsItsClients ==
    upcall = Quiet /\ disconnecting = "no" /\ ~is_shutting_down =>
        connected_clients = matched

\* A request that reaches the server is stored, or the server shuts down, or its
\* client leaves: no upcall in progress loses it.
RequestsAreHandled ==
    \A id \in QueryIds :
        id \in requests ~> (\/ id \in handed
                            \/ id.session \notin request_writers
                            \/ is_shutting_down \/ disconnecting # "no")

-----------------------------------------------------------------------------
\* A statement of the documentation that the code does not keep.

\* Disconnecting the clients leaves them in a defined state before the server is
\* gone: a disconnect that began completes.
DisconnectCompletes == disconnecting = "detaching" ~> disconnecting = "done"
=============================================================================
