-------------------------- MODULE QueryServerProofs --------------------------
(***************************************************************************)
(* What the query server keeps for every number of workers, clients and    *)
(* requests: a request is answered once, the clients it takes for          *)
(* connected are those DDS reported, and nothing is left after the         *)
(* server-initiated disconnect.                                            *)
(***************************************************************************)
EXTENDS QueryServer, TLAPS

\* The server's reader and writer exist until the disconnect is done, and the mutex
\* is held exactly while it is detaching the listener.
DisconnectState ==
    /\ server_up <=> disconnecting # "done"
    /\ server_mutex # Free <=> disconnecting = "detaching"
    /\ disconnecting # "no" => request_cache = {} /\ connected_clients = {}
    /\ disconnecting = "done" => upcall = Quiet

\* Every request the server has seen, in whatever place, was sent.
Received == requests \cup upcall.batch \cup request_cache \cup replies
ReceivedWasSent == Received \subseteq sent

\* A liveliness upcall is about a session.
AboutASession == upcall.at \in {"alive", "gone"} => upcall.session \in Sessions

\* The effect of the upcall in progress makes the connected clients those reported.
ReportedClients ==
    disconnecting = "no" /\ ~is_shutting_down =>
        /\ upcall.at = "alive" => connected_clients \cup {upcall.session} = matched
        /\ upcall.at = "gone" => connected_clients \ {upcall.session} = matched
        /\ upcall.at \notin {"alive", "gone"} => connected_clients = matched

IInv ==
    /\ TypeOK
    /\ AboutASession
    /\ DisconnectState
    /\ ReceivedWasSent
    /\ AnsweredOnce
    /\ ReportedClients

-----------------------------------------------------------------------------
LEMMA InitIInv == Init => IInv
<1> SUFFICES ASSUME Init PROVE IInv  OBVIOUS
<1>1. TypeOK
  BY DEF Init, ServerInit, TopicsInit, TypeOK, TopicsTypeOK, Quiet, Free
<1>2. AboutASession /\ DisconnectState
  BY DEF Init, ServerInit, TopicsInit, AboutASession, DisconnectState, Quiet, Free
<1>3. ReceivedWasSent /\ AnsweredOnce /\ ReportedClients
  BY DEF Init, ServerInit, TopicsInit, ReceivedWasSent, Received, AnsweredOnce,
         ReportedClients, Quiet
<1> QED  BY <1>1, <1>2, <1>3 DEF IInv

\* Types, one lemma per group of steps.
LEMMA UpcallType ==
    ASSUME TypeOK, AboutASession, Upcall
    PROVE  TypeOK' /\ AboutASession'
<1> USE DEF TypeOK, TopicsTypeOK, AboutASession
<1> DEFINE Upcalls == [at : {"quiet", "alive", "gone", "data", "handling"},
                       session : Sessions \cup {0}, batch : SUBSET QueryIds]
<1>1. CASE \E s \in Sessions : OnLivelinessChanged(s)
  <2>1. PICK s \in Sessions : OnLivelinessChanged(s)  BY <1>1
  <2> QED  BY <2>1 DEF OnLivelinessChanged, Quiet, clients, topics
<1>2. CASE UpdateClients
  BY <1>2 DEF UpdateClients, ClientsUpdated, ClientHandle, Quiet, clients, topics
<1>3. CASE OnDataAvailable
  BY <1>3 DEF OnDataAvailable, clients
<1>4. CASE HandlerReturned
  <2>1. upcall' = Quiet \/ upcall' = [upcall EXCEPT !.at = "data"]
    BY <1>4 DEF HandlerReturned
  <2>2. upcall' \in Upcalls /\ upcall'.at \in {"quiet", "data"}
    BY <2>1 DEF Quiet
  <2> QED  BY <1>4, <2>2 DEF HandlerReturned, clients, topics
<1>5. CASE \E id \in upcall.batch : StoreRequest(id)
  <2>1. PICK id \in upcall.batch : StoreRequest(id)  BY <1>5
  <2>2. /\ upcall' = [upcall EXCEPT !.at = "handling", !.batch = @ \ {id}]
        /\ id \in QueryIds
    BY <2>1 DEF StoreRequest
  <2>3. upcall' \in Upcalls /\ upcall'.at = "handling"
    BY <2>2
  <2> QED  BY <2>1, <2>2, <2>3 DEF StoreRequest, clients, topics
<1> QED  BY <1>1, <1>2, <1>3, <1>4, <1>5 DEF Upcall

LEMMA WorkersType ==
    ASSUME TypeOK,
           \/ \E w \in Workers : Answer(w)
           \/ BeginShutdown \/ ClearServer \/ DetachServer
    PROVE  TypeOK'
<1> USE DEF TypeOK, TopicsTypeOK
<1>1. CASE \E w \in Workers : Answer(w)
  <2>1. PICK w \in Workers : Answer(w)  BY <1>1
  <2>2. CASE \E id \in handed : BeginAnswer(w, id)
    BY <2>2 DEF BeginAnswer, clients, topics
  <2>3. CASE WriteAnswer(w)
    BY <2>3 DEF WriteAnswer, EntryErased, clients
  <2>4. CASE RefuseAnswer(w)
    BY <2>4 DEF RefuseAnswer, clients, topics
  <2> QED  BY <2>1, <2>2, <2>3, <2>4 DEF Answer
<1>2. CASE BeginShutdown
  BY <1>2 DEF BeginShutdown, clients, topics
<1>3. CASE ClearServer
  BY <1>3 DEF ClearServer, LockKept, clients, topics
<1>4. CASE DetachServer
  BY <1>4 DEF DetachServer, clients
<1> QED  BY <1>1, <1>2, <1>3, <1>4

LEMMA ClientsType ==
    ASSUME TypeOK, ClientsNext
    PROVE  TypeOK'
<1> USE DEF TypeOK, TopicsTypeOK, serverVars
<1>1. CASE \E s \in Sessions : ClientConnects(s)
  BY <1>1 DEF ClientConnects
<1>2. CASE \E s \in Sessions : ClientLeaves(s)
  BY <1>2 DEF ClientLeaves, clients
<1>3. CASE \E id \in QueryIds : ClientRequests(id)
  BY <1>3 DEF ClientRequests
<1> QED  BY <1>1, <1>2, <1>3 DEF ClientsNext

-----------------------------------------------------------------------------
\* The record of the listener thread after a request was stored, and after the
\* handler returned.
LEMMA StoredUpcall ==
    ASSUME TypeOK, NEW id, StoreRequest(id)
    PROVE  upcall'.at = "handling" /\ upcall'.batch = upcall.batch \ {id}
BY DEF StoreRequest, TypeOK

LEMMA ReturnedUpcall ==
    ASSUME TypeOK, HandlerReturned
    PROVE  \/ upcall' = Quiet
           \/ upcall'.at = "data" /\ upcall'.batch = upcall.batch
BY DEF HandlerReturned, TypeOK

\* The disconnect: no upcall or answer touches the tables between clearing them and
\* detaching the listener, and no upcall starts afterwards.
LEMMA DisconnectStep ==
    ASSUME IInv, [Next]_vars
    PROVE  DisconnectState'
<1> USE DEF DisconnectState
<1>0. DisconnectState  BY DEF IInv
<1>1. CASE \E s \in Sessions : OnLivelinessChanged(s)
  BY <1>0, <1>1 DEF OnLivelinessChanged, clients, topics
<1>2. CASE UpdateClients
  <2>1. disconnecting = "no"
    BY <1>0, <1>2 DEF UpdateClients, Quiet, IInv, TypeOK
  <2> QED  BY <1>0, <1>2, <2>1 DEF UpdateClients, clients, topics
<1>3. CASE OnDataAvailable
  BY <1>0, <1>3 DEF OnDataAvailable, clients
<1>4. CASE HandlerReturned
  BY <1>0, <1>4 DEF HandlerReturned, Quiet, clients, topics
<1>5. ASSUME NEW id \in upcall.batch, StoreRequest(id)
      PROVE  DisconnectState'
  <2>1. disconnecting = "no"
    BY <1>0, <1>5 DEF StoreRequest, Quiet, IInv, TypeOK
  <2> QED  BY <1>0, <1>5, <2>1 DEF StoreRequest, clients, topics
<1>6. CASE \E w \in Workers : Answer(w)
  BY <1>0, <1>6 DEF Answer, BeginAnswer, WriteAnswer, RefuseAnswer, Answerable, clients, topics
<1>7. CASE BeginShutdown
  BY <1>0, <1>7 DEF BeginShutdown, clients, topics
<1>8. CASE ClearServer
  BY <1>0, <1>8 DEF ClearServer, LockKept, Free, clients, topics
<1>9. CASE DetachServer
  BY <1>0, <1>9 DEF DetachServer, clients
<1>10. CASE ClientsNext
  BY <1>0, <1>10 DEF ClientsNext, ClientConnects, ClientLeaves, ClientRequests, serverVars
<1>11. CASE UNCHANGED vars
  BY <1>0, <1>11 DEF vars, serverVars, topics
<1> QED
  BY <1>1, <1>2, <1>3, <1>4, <1>5, <1>6, <1>7, <1>8, <1>9, <1>10, <1>11
     DEF Next, ServerNext, Upcall

\* A request moves from place to place and is never copied; a new one was never
\* sent before.
LEMMA OnceStep ==
    ASSUME IInv, [Next]_vars
    PROVE  ReceivedWasSent' /\ AnsweredOnce'
<1> USE DEF ReceivedWasSent, Received, AnsweredOnce
<1>0. TypeOK /\ ReceivedWasSent /\ AnsweredOnce  BY DEF IInv
<1>1. CASE \E s \in Sessions : OnLivelinessChanged(s)
  <2>1. upcall'.batch = {} /\ upcall.batch = {}
    BY <1>1 DEF OnLivelinessChanged, Quiet
  <2> QED  BY <1>0, <1>1, <2>1 DEF OnLivelinessChanged, clients, topics
<1>2. CASE UpdateClients
  BY <1>0, <1>2 DEF UpdateClients, Quiet, clients, topics
<1>3. CASE OnDataAvailable
  <2>1. /\ upcall'.batch \subseteq requests
        /\ requests' = requests \ upcall'.batch
        /\ UNCHANGED <<request_cache, replies, sent>>
    BY <1>3 DEF OnDataAvailable, clients
  <2> QED  BY <1>0, <2>1
<1>4. CASE HandlerReturned
  <2>1. upcall'.batch \subseteq upcall.batch
    BY <1>0, <1>4, ReturnedUpcall DEF Quiet
  <2> QED  BY <1>0, <1>4, <2>1 DEF HandlerReturned, clients, topics
<1>5. ASSUME NEW id \in upcall.batch, StoreRequest(id)
      PROVE  ReceivedWasSent' /\ AnsweredOnce'
  <2>1. upcall'.batch = upcall.batch \ {id} /\ request_cache' = request_cache \cup {id}
    BY <1>0, <1>5, StoredUpcall DEF StoreRequest
  <2> QED  BY <1>0, <1>5, <2>1 DEF StoreRequest, clients, topics
<1>6. CASE \E w \in Workers : WriteAnswer(w)
  <2>1. PICK w \in Workers : WriteAnswer(w)  BY <1>6
  <2>2. /\ answering[w] \in request_cache
        /\ replies' = replies \cup {answering[w]}
        /\ request_cache' = request_cache \ {answering[w]}
        /\ UNCHANGED <<requests, upcall, sent>>
    BY <2>1 DEF WriteAnswer, Answerable, EntryErased, clients
  <2> QED  BY <1>0, <2>2
<1>7. CASE \E w \in Workers : RefuseAnswer(w) \/ \E id \in handed : BeginAnswer(w, id)
  BY <1>0, <1>7 DEF RefuseAnswer, BeginAnswer, clients, topics
<1>8. CASE BeginShutdown \/ ClearServer \/ DetachServer
  BY <1>0, <1>8 DEF BeginShutdown, ClearServer, DetachServer, clients, topics
<1>9. CASE \E s \in Sessions : ClientConnects(s) \/ ClientLeaves(s)
  BY <1>0, <1>9 DEF ClientConnects, ClientLeaves, serverVars, clients
<1>10. CASE \E id \in QueryIds : ClientRequests(id)
  <2>1. PICK id \in QueryIds : ClientRequests(id)  BY <1>10
  <2>2. id \notin sent
    BY <2>1 DEF ClientRequests, QueryIds
  <2> QED  BY <1>0, <2>1, <2>2 DEF ClientRequests, serverVars
<1>11. CASE UNCHANGED vars
  BY <1>0, <1>11 DEF vars, serverVars, clients, topics
<1> QED
  BY <1>1, <1>2, <1>3, <1>4, <1>5, <1>6, <1>7, <1>8, <1>9, <1>10, <1>11
     DEF Next, ServerNext, ClientsNext, Upcall, Answer

\* The clients change with the upcalls DDS makes, one at a time, until a shutdown.
LEMMA ReportedStep ==
    ASSUME IInv, [Next]_vars
    PROVE  ReportedClients'
<1> USE DEF ReportedClients
<1>0. TypeOK /\ ReportedClients  BY DEF IInv
<1>1. CASE \E s \in Sessions : OnLivelinessChanged(s)
  <2>1. PICK s \in Sessions : OnLivelinessChanged(s)  BY <1>1
  <2>2. SUFFICES ASSUME disconnecting' = "no", ~is_shutting_down'
                 PROVE  ReportedClients'
    OBVIOUS
  <2>3. connected_clients' = matched
    BY <1>0, <2>1, <2>2 DEF OnLivelinessChanged, Quiet
  <2>4. /\ upcall'.at = (IF s \in matched' THEN "alive" ELSE "gone")
        /\ upcall'.session = s
        /\ \/ s \notin matched /\ matched' = matched \cup {s}
           \/ s \in matched /\ matched' = matched \ {s}
    BY <2>1, <2>2 DEF OnLivelinessChanged
  <2> QED  BY <2>3, <2>4
<1>2. CASE UpdateClients
  BY <1>0, <1>2 DEF UpdateClients, ClientsUpdated, ClientHandle, Quiet
<1>3. CASE OnDataAvailable
  BY <1>0, <1>3 DEF OnDataAvailable, Quiet
<1>4. CASE HandlerReturned
  <2>1. upcall.at = "handling" /\ UNCHANGED <<disconnecting, is_shutting_down,
                                             connected_clients, matched>>
    BY <1>4 DEF HandlerReturned
  <2>2. upcall'.at \in {"quiet", "data"}
    BY <1>0, <1>4, ReturnedUpcall DEF Quiet
  <2> QED  BY <1>0, <2>1, <2>2
<1>5. CASE \E id \in upcall.batch : StoreRequest(id)
  <2>1. /\ upcall.at = "data" /\ upcall'.at = "handling"
        /\ UNCHANGED <<disconnecting, is_shutting_down, connected_clients, matched>>
    BY <1>0, <1>5, StoredUpcall DEF StoreRequest
  <2> QED  BY <1>0, <2>1
<1>6. CASE \E w \in Workers : Answer(w)
  BY <1>0, <1>6 DEF Answer, BeginAnswer, WriteAnswer, RefuseAnswer
<1>7. CASE BeginShutdown \/ ClearServer \/ DetachServer
  BY <1>0, <1>7 DEF BeginShutdown, ClearServer, DetachServer
<1>8. CASE ClientsNext
  BY <1>0, <1>8 DEF ClientsNext, ClientConnects, ClientLeaves, ClientRequests, serverVars
<1>9. CASE UNCHANGED vars
  BY <1>0, <1>9 DEF vars, serverVars
<1> QED
  BY <1>1, <1>2, <1>3, <1>4, <1>5, <1>6, <1>7, <1>8, <1>9 DEF Next, ServerNext, Upcall

-----------------------------------------------------------------------------
LEMMA NextIInv == IInv /\ [Next]_vars => IInv'
<1> SUFFICES ASSUME IInv, [Next]_vars PROVE IInv'  OBVIOUS
<1>1. TypeOK' /\ AboutASession'
  <2>0. TypeOK /\ AboutASession  BY DEF IInv
  <2>1. CASE Upcall  BY <2>0, <2>1, UpcallType
  <2>2. CASE \/ \E w \in Workers : Answer(w)
             \/ BeginShutdown \/ ClearServer \/ DetachServer
    <3>1. upcall' = upcall
      BY <2>2 DEF Answer, BeginAnswer, WriteAnswer, RefuseAnswer, BeginShutdown,
                  ClearServer, DetachServer
    <3> QED  BY <2>0, <2>2, <3>1, WorkersType DEF AboutASession
  <2>3. CASE ClientsNext
    <3>1. upcall' = upcall
      BY <2>3 DEF ClientsNext, ClientConnects, ClientLeaves, ClientRequests, serverVars
    <3> QED  BY <2>0, <2>3, <3>1, ClientsType DEF AboutASession
  <2>4. CASE UNCHANGED vars
    BY <2>0, <2>4 DEF vars, serverVars, clients, topics, TypeOK, TopicsTypeOK, AboutASession
  <2> QED  BY <2>1, <2>2, <2>3, <2>4 DEF Next, ServerNext
<1> QED  BY <1>1, DisconnectStep, OnceStep, ReportedStep DEF IInv

\* The inductive invariant holds in every reachable state.
THEOREM Invariance == Spec => []IInv
<1> QED  BY InitIInv, NextIInv, PTL DEF Spec

\* All variables of the server and of its topics keep their types.
THEOREM TypeCorrect == Spec => []TypeOK
<1>1. IInv => TypeOK  BY DEF IInv
<1> QED  BY <1>1, Invariance, PTL

\* However many threads answer a request, and whenever, one answer is written.
THEOREM RequestsAnsweredOnce == Spec => []AnsweredOnce
<1>1. IInv => AnsweredOnce  BY DEF IInv
<1> QED  BY <1>1, Invariance, PTL

\* After serverInitiatedDisconnect the server keeps no client and no request.
THEOREM CleanWhenDown == Spec => []DownIsClean
<1>1. IInv => DownIsClean  BY DEF IInv, DisconnectState, DownIsClean
<1> QED  BY <1>1, Invariance, PTL

\* Between upcalls the server's list of clients is what DDS reported.
THEOREM ClientsAreKnown == Spec => []KnowsItsClients
<1>1. IInv => KnowsItsClients  BY DEF IInv, ReportedClients, KnowsItsClients, Quiet
<1> QED  BY <1>1, Invariance, PTL

-----------------------------------------------------------------------------
\* What RequestsAreHandled rests on, fairness aside: no step loses a request, and while
\* there are requests the listener thread has a step to take.

\* The listener has requests in its hands only in the loop, and goes on with it only for
\* another one.
LoopHasBatch ==
    /\ upcall.at = "data" => upcall.batch # {}
    /\ upcall.at \in {"alive", "gone"} => upcall.batch = {}
    /\ upcall.at = "quiet" => upcall = Quiet

\* The guards of the listener's steps.
ListenerCanStep ==
    \/ upcall.at \in {"alive", "gone"} /\ server_mutex = Free
    \/ upcall.at = "data" /\ upcall.batch # {} /\ server_mutex = Free
    \/ upcall.at = "handling"
    \/ upcall = Quiet /\ server_up /\ request_writers \ matched # {}
    \/ /\ upcall = Quiet /\ server_up /\ ~is_shutting_down
       /\ \E r \in requests : r.session \in matched \cup (Sessions \ request_writers)

\* A request is where the server still gets it, or the user's handler was given it.
Kept(id) == id \in requests' \cup upcall'.batch \cup handed'

LEMMA InitLoop == Init => LoopHasBatch
BY DEF Init, ServerInit, TopicsInit, LoopHasBatch, Quiet

LEMMA NextLoop == IInv /\ LoopHasBatch /\ [Next]_vars => LoopHasBatch'
<1> SUFFICES ASSUME IInv, LoopHasBatch, [Next]_vars PROVE LoopHasBatch'
  OBVIOUS
<1> DEFINE Upcalls == [at : {"quiet", "alive", "gone", "data", "handling"},
                       session : Sessions \cup {0}, batch : SUBSET QueryIds]
<1>0. upcall \in Upcalls
  BY DEF IInv, TypeOK
<1>2. ASSUME \/ upcall' = upcall \/ upcall' = Quiet
             \/ upcall'.at \in {"alive", "gone"} /\ upcall'.batch = {}
             \/ upcall'.at = "handling"
             \/ upcall'.at = "data" /\ upcall'.batch # {}
      PROVE  LoopHasBatch'
  BY <1>2 DEF LoopHasBatch, Quiet
<1>3. ASSUME NEW s \in Sessions, OnLivelinessChanged(s) PROVE LoopHasBatch'
  BY <1>2, <1>3 DEF OnLivelinessChanged
<1>4. CASE UpdateClients \/ OnDataAvailable
  BY <1>2, <1>4 DEF UpdateClients, OnDataAvailable
<1>5. CASE HandlerReturned
  <2>1. CASE LoopEnds
    BY <1>2, <1>5, <2>1 DEF HandlerReturned
  <2>2. CASE ~LoopEnds
    <3>1. upcall'.at = "data" /\ upcall'.batch = upcall.batch
      BY <1>0, <1>5, <2>2 DEF HandlerReturned
    <3> QED  BY <1>2, <2>2, <3>1 DEF LoopEnds
  <2> QED  BY <2>1, <2>2
<1>6. ASSUME NEW id \in upcall.batch, StoreRequest(id) PROVE LoopHasBatch'
  <2>1. upcall'.at = "handling"
    BY <1>0, <1>6 DEF StoreRequest
  <2> QED  BY <1>2, <2>1
<1>7. ASSUME NEW w \in Workers, Answer(w) PROVE LoopHasBatch'
  BY <1>2, <1>7 DEF Answer, BeginAnswer, WriteAnswer, RefuseAnswer
<1>8. CASE BeginShutdown \/ ClearServer \/ DetachServer
  BY <1>2, <1>8 DEF BeginShutdown, ClearServer, DetachServer
<1>9. CASE ClientsNext
  BY <1>2, <1>9 DEF ClientsNext, ClientConnects, ClientLeaves, ClientRequests, serverVars
<1>10. CASE UNCHANGED vars
  BY <1>2, <1>10 DEF vars, serverVars
<1> QED  BY <1>3, <1>4, <1>5, <1>6, <1>7, <1>8, <1>9, <1>10 DEF Next, ServerNext, Upcall

LEMMA LoopInvariant == Spec => []LoopHasBatch
<1> QED  BY InitLoop, NextLoop, Invariance, PTL DEF Spec

\* While a request is on its way or in the listener's hands, and no disconnect has begun,
\* the listener thread has a step to take: neither an answer, nor a client that comes or
\* goes, nor the mutex blocks it.
THEOREM ListenerNotStuck ==
    Spec => []( /\ disconnecting = "no" /\ ~is_shutting_down
                /\ requests \cup upcall.batch # {}
                => ListenerCanStep )
<1>1. IInv /\ LoopHasBatch /\ disconnecting = "no" /\ ~is_shutting_down
        /\ requests \cup upcall.batch # {} => ListenerCanStep
  <2> SUFFICES ASSUME IInv, LoopHasBatch, disconnecting = "no", ~is_shutting_down,
                      requests \cup upcall.batch # {}
               PROVE  ListenerCanStep
    OBVIOUS
  <2>1. server_mutex = Free /\ server_up
    BY DEF IInv, DisconnectState
  <2>2. upcall.at \in {"quiet", "alive", "gone", "data", "handling"}
    BY DEF IInv, TypeOK
  <2>3. CASE upcall.at # "quiet"
    BY <2>1, <2>2, <2>3 DEF ListenerCanStep, LoopHasBatch
  <2>4. CASE upcall.at = "quiet"
    <3>1. upcall = Quiet
      BY <2>4 DEF LoopHasBatch
    <3>2. PICK r \in requests : TRUE
      BY <3>1 DEF Quiet
    <3>3. r.session \in Sessions
      BY <3>2 DEF IInv, TypeOK, TopicsTypeOK, QueryIds
    <3> QED  BY <2>1, <3>1, <3>2, <3>3 DEF ListenerCanStep
  <2> QED  BY <2>3, <2>4
<1> QED  BY <1>1, LoopInvariant, Invariance, PTL

\* No step loses a request.
LEMMA KeptStep ==
    ASSUME IInv, LoopHasBatch, [Next]_vars
    PROVE  /\ \A id \in requests :
                Kept(id) \/ id.session \notin request_writers' \/ disconnecting' # "no"
           /\ \A id \in upcall.batch : Kept(id) \/ is_shutting_down
<1> USE DEF Kept, topics
<1>0. upcall \in [at : {"quiet", "alive", "gone", "data", "handling"},
                  session : Sessions \cup {0}, batch : SUBSET QueryIds]
  BY DEF IInv, TypeOK
<1>1. CASE UNCHANGED <<requests, upcall>>
  BY <1>1
<1>2. ASSUME NEW s \in Sessions, OnLivelinessChanged(s)
      PROVE  UNCHANGED requests /\ upcall.batch = {}
  BY <1>2 DEF OnLivelinessChanged, Quiet
<1>3. CASE UpdateClients
  BY <1>3 DEF UpdateClients, LoopHasBatch
<1>4. CASE OnDataAvailable
  <2>1. upcall.batch = {} /\ requests \subseteq requests' \cup upcall'.batch
    BY <1>4 DEF OnDataAvailable, Quiet
  <2> QED  BY <2>1
<1>5. CASE HandlerReturned
  <2>1. requests' = requests
        /\ (upcall'.batch = upcall.batch \/ upcall.batch = {} \/ is_shutting_down)
    BY <1>0, <1>5 DEF HandlerReturned, LoopEnds
  <2> QED  BY <2>1
<1>6. ASSUME NEW id \in upcall.batch, StoreRequest(id)
      PROVE  requests' = requests /\ upcall.batch \subseteq upcall'.batch \cup handed'
  <2>1. upcall'.batch = upcall.batch \ {id} /\ id \in handed' /\ requests' = requests
    BY <1>0, <1>6 DEF StoreRequest
  <2> QED  BY <2>1
<1>7. CASE ServerNext /\ ~Upcall
  <2>1. CASE DetachServer
    BY <2>1 DEF DetachServer, Quiet
  <2>2. CASE ~DetachServer
    BY <1>1, <1>7, <2>2 DEF ServerNext, Answer, BeginAnswer, WriteAnswer, RefuseAnswer,
                            BeginShutdown, ClearServer
  <2> QED  BY <2>1, <2>2
<1>8. CASE ClientsNext
  <2>1. upcall' = upcall
    BY <1>8 DEF ClientsNext, ClientConnects, ClientLeaves, ClientRequests, serverVars
  <2>2. \A id \in requests : id \in requests' \/ id.session \notin request_writers'
    <3>1. ASSUME NEW s \in Sessions, ClientLeaves(s)
          PROVE  \A id \in requests : id \in requests' \/ id.session \notin request_writers'
      BY <3>1 DEF ClientLeaves
    <3>2. ASSUME NEW s \in Sessions, ClientConnects(s) PROVE requests' = requests
      BY <3>2 DEF ClientConnects
    <3>3. ASSUME NEW id \in QueryIds, ClientRequests(id) PROVE requests \subseteq requests'
      BY <3>3 DEF ClientRequests
    <3> QED  BY <1>8, <3>1, <3>2, <3>3 DEF ClientsNext
  <2> QED  BY <2>1, <2>2
<1>9. CASE UNCHANGED vars
  BY <1>1, <1>9 DEF vars, serverVars
<1> QED  BY <1>2, <1>3, <1>4, <1>5, <1>6, <1>7, <1>8, <1>9 DEF Next, ServerNext, Upcall

\* A request that was written gets to the handler, unless its client leaves with it or the
\* server shuts down or disconnects; one the listener has taken gets there although its
\* client leaves.
THEOREM RequestsAreKept ==
    Spec => [][ /\ \A id \in requests :
                     Kept(id) \/ id.session \notin request_writers' \/ disconnecting' # "no"
                /\ \A id \in upcall.batch : Kept(id) \/ is_shutting_down ]_vars
<1>1. IInv /\ LoopHasBatch /\ [Next]_vars =>
        /\ \A id \in requests :
             Kept(id) \/ id.session \notin request_writers' \/ disconnecting' # "no"
        /\ \A id \in upcall.batch : Kept(id) \/ is_shutting_down
  BY KeptStep
<1> QED  BY <1>1, LoopInvariant, Invariance, PTL DEF Spec
=============================================================================
