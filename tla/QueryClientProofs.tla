-------------------------- MODULE QueryClientProofs --------------------------
(***************************************************************************)
(* What the query client keeps for every number of threads, sessions and   *)
(* queries: a request is registered in the session it was written in, a    *)
(* client that reports itself connected has both end points, and a waiter  *)
(* whose entry was removed is woken.                                       *)
(***************************************************************************)
EXTENDS QueryClient, TLAPS

\* connection_mutex is held by a thread that opens a connection, writes a request
\* or has closed the end points, and by nobody else.
Holding == {"closed", "opening", "matching", "subscribing", "attached", "written"}
Disconnecting == {"clearing", "closing"}

MutexOwner ==
    \A u \in Users :
        /\ at[u] \in Holding => connection_mutex = u
        /\ at[u] \in Disconnecting /\ after[u] = "open" => connection_mutex = u
        /\ connection_mutex = u => at[u] \in Holding \cup Disconnecting

\* A thread on its way to a new connection has not used up the bound.
MayOpen ==
    \A u \in Users :
        \/ at[u] \in Disconnecting \cup {"closed"} /\ after[u] = "open"
        \/ at[u] = "opening"
        => sessions < MaxSessions

\* The end points at each stage of connect(), and while nobody changes them.
Endpoints ==
    /\ \A u \in Users :
         /\ at[u] \in {"closed", "opening"} => writer = 0 /\ reader = 0
         /\ at[u] \in {"matching", "subscribing"} => writer # 0 /\ reader = 0
         /\ at[u] = "attached" => writer # 0 /\ reader = writer
         /\ at[u] = "written" => reader = writer /\ (reader = 0 => disconnected_guard)
    /\ connection_mutex = Free => reader = writer /\ (reader = 0 => disconnected_guard)

\* A liveliness upcall runs only for a reader this object listens to.
ListenerHasReader == listener.at \in {"alive", "gone"} => reader # 0

\* The identifier of a request in hand is of the present session.
WrittenNow ==
    \A u \in Users : at[u] = "written" => query[u] \in QueryIds /\ query[u].session = writer

\* Each thread holds its own identifiers.
OwnQueries ==
    \A u, v \in Users :
        /\ query[u].number <= written
        /\ u # v /\ query[u] = query[v] => query[u] = NoQuery

\* A waiter's entry is there, or its discard guard was set.
Waiters ==
    \A u \in Users :
        at[u] = "waiting" => query[u] \in QueryIds /\ query[u] \in answer_cache \cup request_discarded

IInv ==
    /\ TypeOK /\ MutexOwner /\ MayOpen /\ Endpoints /\ ListenerHasReader
    /\ WrittenNow /\ OwnQueries /\ Waiters

-----------------------------------------------------------------------------
LEMMA NoQueryIsNone == NoQuery \notin QueryIds /\ NoQuery.number = 0
BY DEF NoQuery, QueryIds, Sessions

\* Forgetting an identifier, or keeping it, leaves the others with their threads.
LEMMA ForgetOwn ==
    ASSUME TypeOK, OwnQueries, NEW u \in Users,
           Forget(u) \/ UNCHANGED query, UNCHANGED written
    PROVE  OwnQueries'
BY NoQueryIsNone DEF TypeOK, OwnQueries, Forget

\* An entry a thread removes for itself is awaited by no other thread.
LEMMA RemoveOwn ==
    ASSUME TypeOK, OwnQueries, Waiters, NEW u \in Users, at'[u] # "waiting",
           \A v \in Users \ {u} : at'[v] = at[v] /\ query'[v] = query[v],
           answer_cache' \in {answer_cache, answer_cache \ {query[u]}},
           UNCHANGED request_discarded
    PROVE  Waiters'
BY NoQueryIsNone DEF TypeOK, OwnQueries, Waiters

LEMMA InitIInv == Init => IInv
<1> SUFFICES ASSUME Init PROVE IInv  OBVIOUS
<1>1. TypeOK
  <2>1. /\ writer \in 0 .. sessions /\ reader \in 0 .. sessions
        /\ sessions \in 0 .. MaxSessions
        /\ written \in 0 .. MaxQueries
        /\ outages \in 0 .. MaxOutages
    BY QueryBounds, OutageBound DEF Init, ClientInit
  <2>2. /\ at \in [Users -> UserStates]
        /\ after \in [Users -> {"open", "return"}]
        /\ query \in [Users -> QueryIds \cup {NoQuery}]
        /\ cause \in [Users -> Causes]
    BY DEF Init, ClientInit, UserStates, Causes
  <2> QED  BY <2>1, <2>2 DEF Init, ClientInit, TopicsInit, TypeOK, TopicsTypeOK, Quiet
<1>2. MutexOwner /\ MayOpen /\ Endpoints /\ ListenerHasReader
  BY FreeIsNoUser DEF Init, ClientInit, MutexOwner, MayOpen, Endpoints, ListenerHasReader,
                      Holding, Disconnecting, Quiet
<1>3. WrittenNow /\ OwnQueries /\ Waiters
  BY NoQueryIsNone DEF Init, ClientInit, WrittenNow, OwnQueries, Waiters
<1> QED  BY <1>1, <1>2, <1>3 DEF IInv

-----------------------------------------------------------------------------
\* disconnect() and connect().
LEMMA DisconnectIInv ==
    ASSUME IInv, NEW u \in Users,
           Disconnect(u) \/ ClearQueries(u) \/ CloseEndpoints(u) \/ CloseDone(u)
    PROVE  IInv'
<1> USE FreeIsNoUser
    DEF IInv, UserStates, MutexOwner, MayOpen, Endpoints, ListenerHasReader, WrittenNow,
        OwnQueries, Waiters, Holding, Disconnecting, guards, endpoints, entries, calls,
        reception, topics, Go
<1>1. CASE Disconnect(u)
  BY <1>1 DEF Disconnect, TypeOK, TopicsTypeOK
<1>2. CASE ClearQueries(u)
  BY <1>2 DEF ClearQueries, ClearEntries, TypeOK, TopicsTypeOK
<1>3. CASE CloseEndpoints(u)
  <2>1. TypeOK'
    <3>1. sessions' = sessions /\ sessions \in Nat
      BY <1>3 DEF CloseEndpoints, TypeOK
    <3>2. writer' \in 0 .. sessions' /\ reader' \in 0 .. sessions'
      BY <1>3, <3>1 DEF CloseEndpoints
    <3> QED  BY <1>3, <3>1, <3>2 DEF CloseEndpoints, TypeOK, TopicsTypeOK
  <2>2. (MutexOwner /\ MayOpen /\ Endpoints /\ ListenerHasReader)'
    BY <1>3 DEF CloseEndpoints, MutexAvailable, Quiet, TypeOK
  <2>3. (WrittenNow /\ OwnQueries /\ Waiters)'
    BY <1>3 DEF CloseEndpoints, MutexAvailable, TypeOK
  <2> QED  BY <2>1, <2>2, <2>3
<1>4. CASE CloseDone(u)
  BY <1>4 DEF CloseDone, GuardSetAgain, TypeOK, TopicsTypeOK
<1> QED  BY <1>1, <1>2, <1>3, <1>4

LEMMA ConnectIInv ==
    ASSUME IInv, NEW u \in Users,
           \/ Connect(u) \/ CreateWriter(u) \/ WriterMatched(u) \/ AttachReader(u)
           \/ Connected(u) \/ ConnectFails(u)
    PROVE  IInv'
<1> USE FreeIsNoUser
    DEF IInv, UserStates, MutexOwner, MayOpen, Endpoints, ListenerHasReader, WrittenNow,
        OwnQueries, Waiters, Holding, Disconnecting, guards, endpoints, entries, calls,
        reception, topics, Go
<1>1. CASE Connect(u)
  BY <1>1 DEF Connect, TypeOK, TopicsTypeOK
<1>2. CASE CreateWriter(u)
  <2>1. sessions \in Nat /\ sessions < MaxSessions /\ MaxSessions \in Nat
    BY <1>2, QueryBounds DEF CreateWriter, TypeOK
  <2>2. TypeOK'
    <3>1. /\ sessions' \in 0 .. MaxSessions
          /\ writer' \in 0 .. sessions' /\ reader' \in 0 .. sessions'
          /\ request_writers' \subseteq Sessions
      BY <1>2, <2>1 DEF CreateWriter, TypeOK, TopicsTypeOK, Sessions
    <3> QED  BY <1>2, <3>1 DEF CreateWriter, TypeOK, TopicsTypeOK
  <2>3. (MutexOwner /\ MayOpen /\ Endpoints /\ ListenerHasReader)'
    BY <1>2, <2>1 DEF CreateWriter, TypeOK
  <2>4. (WrittenNow /\ OwnQueries /\ Waiters)'
    BY <1>2 DEF CreateWriter, TypeOK
  <2> QED  BY <2>2, <2>3, <2>4
<1>3. CASE WriterMatched(u)
  BY <1>3 DEF WriterMatched, TypeOK, TopicsTypeOK
<1>4. CASE AttachReader(u)
  BY <1>4 DEF AttachReader, TypeOK, TopicsTypeOK
<1>5. CASE Connected(u)
  BY <1>5 DEF Connected, TypeOK, TopicsTypeOK
<1>6. CASE ConnectFails(u)
  BY <1>6 DEF ConnectFails, TypeOK, TopicsTypeOK
<1> QED  BY <1>1, <1>2, <1>3, <1>4, <1>5, <1>6

\* blocking() and queryRequest().
LEMMA RequestIInv ==
    ASSUME IInv, NEW u \in Users,
           \/ \E blocking \in BOOLEAN : Blocking(u, blocking)
           \/ QueryRequest(u) \/ WriteRequest(u) \/ WriteFails(u) \/ RegisterQuery(u)
    PROVE  IInv'
<1> USE FreeIsNoUser
    DEF IInv, UserStates, MutexOwner, MayOpen, Endpoints, ListenerHasReader, WrittenNow,
        OwnQueries, Waiters, Holding, Disconnecting, guards, endpoints, entries, calls,
        reception, topics, Go
<1>1. CASE \E blocking \in BOOLEAN : Blocking(u, blocking)
  BY <1>1 DEF Blocking, TypeOK, TopicsTypeOK
<1>2. CASE QueryRequest(u)
  BY <1>2 DEF QueryRequest, TypeOK, TopicsTypeOK
<1>3. CASE WriteRequest(u)
  <2> DEFINE id == [session |-> writer, number |-> written + 1]
  <2>1. id \in QueryIds /\ written + 1 \in 0 .. MaxQueries
    BY <1>3, QueryBounds DEF WriteRequest, WriterExists, TypeOK, QueryIds, Sessions
  <2>2. /\ query' = [query EXCEPT ![u] = id]
        /\ requests' \subseteq requests \cup {id}
        /\ written' = written + 1 /\ written \in Nat
    BY <1>3 DEF WriteRequest, TypeOK
  <2>3. TypeOK'
    <3>1. query' \in [Users -> QueryIds \cup {NoQuery}] /\ requests' \subseteq QueryIds
      BY <2>1, <2>2 DEF TypeOK, TopicsTypeOK
    <3> QED  BY <1>3, <2>1, <2>2, <3>1 DEF WriteRequest, TypeOK, TopicsTypeOK
  <2>4. (MutexOwner /\ MayOpen /\ Endpoints /\ ListenerHasReader)'
    BY <1>3 DEF WriteRequest, TypeOK
  <2>5. WrittenNow'
    <3>1. \A v \in Users : at[v] # "written"
      BY <1>3 DEF WriteRequest
    <3> QED  BY <1>3, <2>1, <2>2, <3>1 DEF WriteRequest, TypeOK
  <2>6. OwnQueries'
    <3>1. \A v \in Users : query'[v] = IF v = u THEN id ELSE query[v]
      BY <2>2 DEF TypeOK
    <3>2. \A v \in Users : query[v] # id /\ query[v].number \in Nat
      BY <2>2, NoQueryIsNone DEF TypeOK, QueryIds
    <3> QED  BY <2>2, <3>1, <3>2
  <2>7. Waiters'
    BY <1>3 DEF WriteRequest, TypeOK
  <2> QED  BY <2>3, <2>4, <2>5, <2>6, <2>7
<1>4. CASE WriteFails(u)
  BY <1>4 DEF WriteFails, TypeOK, TopicsTypeOK
<1>5. CASE RegisterQuery(u)
  BY <1>5 DEF RegisterQuery, TypeOK, TopicsTypeOK
<1> QED  BY <1>1, <1>2, <1>3, <1>4, <1>5

\* The calls that fetch or discard an answer leave the connection alone: what is
\* left to show of the invariant is the part about identifiers.
LEMMA ConnectionUntouched ==
    ASSUME IInv, NEW u \in Users,
           UNCHANGED <<guards, endpoints, after, reception>>,
           \E s \in UserStates \ (Holding \cup Disconnecting) : Go(u, s) \/ UNCHANGED at,
           at[u] \notin Holding \cup Disconnecting
    PROVE  (MutexOwner /\ MayOpen /\ Endpoints /\ ListenerHasReader)'
BY DEF IInv, TypeOK, MutexOwner, MayOpen, Endpoints, ListenerHasReader, Holding,
       Disconnecting, guards, endpoints, reception, Go

LEMMA ReceiveIInv ==
    ASSUME IInv, NEW u \in Users,
           \/ QueryReceive(u) \/ QueryReceiveWait(u) \/ WrongId(u) \/ Receive(u)
           \/ QueryDiscard(u)
    PROVE  IInv'
<1> USE DEF IInv, UserStates, guards, endpoints, entries, calls, reception, topics, Go
<1>1. CASE QueryReceive(u) \/ QueryReceiveWait(u)
  <2>1. /\ UNCHANGED <<guards, endpoints, entries, after, cause, reception, written,
                       outages, topics>>
        /\ at[u] = "idle"
        /\ \/ UNCHANGED at \/ at' = [at EXCEPT ![u] = "receiving"]
           \/ at' = [at EXCEPT ![u] = "finding"]
        /\ Forget(u) \/ UNCHANGED query
    BY <1>1 DEF QueryReceive, QueryReceiveWait, BeginReceive
  <2>2. TypeOK'
    BY <2>1 DEF TypeOK, TopicsTypeOK, Forget
  <2>3. (MutexOwner /\ MayOpen /\ Endpoints /\ ListenerHasReader)'
    BY <2>1, ConnectionUntouched DEF Holding, Disconnecting
  <2>4. (WrittenNow /\ Waiters)'
    BY <2>1 DEF TypeOK, WrittenNow, Waiters, Forget
  <2> QED  BY <2>1, <2>2, <2>3, <2>4, ForgetOwn
<1>2. CASE WrongId(u)
  <2>1. TypeOK'
    BY <1>2 DEF WrongId, TypeOK, TopicsTypeOK, Forget
  <2>2. (MutexOwner /\ MayOpen /\ Endpoints /\ ListenerHasReader)'
    BY <1>2, ConnectionUntouched DEF WrongId, Holding, Disconnecting
  <2>3. (WrittenNow /\ Waiters)'
    BY <1>2 DEF WrongId, TypeOK, WrittenNow, Waiters, Forget
  <2> QED  BY <1>2, <2>1, <2>2, <2>3, ForgetOwn DEF WrongId
<1>3. CASE Receive(u)
  <2>1. TypeOK'
    BY <1>3 DEF Receive, TypeOK, TopicsTypeOK, Forget
  <2>2. (MutexOwner /\ MayOpen /\ Endpoints /\ ListenerHasReader)'
    BY <1>3, ConnectionUntouched DEF Receive, Holding, Disconnecting
  <2>3. WrittenNow'
    BY <1>3 DEF Receive, TypeOK, WrittenNow, Forget
  <2>4. Waiters'
    <3>1. /\ at'[u] # "waiting"
          /\ \A v \in Users \ {u} : at'[v] = at[v] /\ query'[v] = query[v]
      BY <1>3 DEF Receive, TypeOK, Forget
    <3> QED  BY <1>3, <3>1, RemoveOwn DEF Receive
  <2> QED  BY <1>3, <2>1, <2>2, <2>3, <2>4, ForgetOwn DEF Receive
<1>4. CASE QueryDiscard(u)
  <2>1. TypeOK'
    BY <1>4 DEF QueryDiscard, TypeOK, TopicsTypeOK, Forget
  <2>2. (MutexOwner /\ MayOpen /\ Endpoints /\ ListenerHasReader)'
    BY <1>4, ConnectionUntouched DEF QueryDiscard, Holding, Disconnecting
  <2>3. (WrittenNow /\ Waiters)'
    BY <1>4 DEF QueryDiscard, TypeOK, WrittenNow, Waiters, Forget
  <2> QED  BY <1>4, <2>1, <2>2, <2>3, ForgetOwn DEF QueryDiscard
<1> QED  BY <1>1, <1>2, <1>3, <1>4

LEMMA WaitIInv ==
    ASSUME IInv, NEW u \in Users,
           \/ StartWait(u) \/ Wake(u) \/ WaitTimesOut(u) \/ ReturnDisconnected(u)
           \/ ReturnCancelled(u) \/ ReturnAnswer(u)
    PROVE  IInv'
<1> USE DEF IInv, UserStates, guards, endpoints, entries, calls, reception, topics, Go
<1>1. CASE StartWait(u) \/ WaitTimesOut(u)
  <2>1. (MutexOwner /\ MayOpen /\ Endpoints /\ ListenerHasReader)'
    BY <1>1, ConnectionUntouched DEF StartWait, WaitTimesOut, Holding, Disconnecting
  <2>2. (TypeOK /\ WrittenNow /\ OwnQueries /\ Waiters)'
    BY <1>1 DEF StartWait, WaitTimesOut, TypeOK, TopicsTypeOK, WrittenNow, OwnQueries, Waiters
  <2> QED  BY <2>1, <2>2
<1>2. CASE Wake(u) \/ ReturnCancelled(u)
  <2>1. cause' \in [Users -> Causes]
    BY <1>2 DEF Wake, Active, ReturnCancelled, Causes, TypeOK
  <2>2. TypeOK'
    BY <1>2, <2>1 DEF Wake, ReturnCancelled, TypeOK, TopicsTypeOK
  <2>3. (MutexOwner /\ MayOpen /\ Endpoints /\ ListenerHasReader)'
    BY <1>2, ConnectionUntouched DEF Wake, ReturnCancelled, Holding, Disconnecting
  <2>4. (WrittenNow /\ OwnQueries /\ Waiters)'
    BY <1>2 DEF Wake, ReturnCancelled, TypeOK, WrittenNow, OwnQueries, Waiters
  <2> QED  BY <2>2, <2>3, <2>4
<1>3. CASE ReturnDisconnected(u)
  <2>1. TypeOK'
    BY <1>3 DEF ReturnDisconnected, TypeOK, TopicsTypeOK, Forget, Causes
  <2>2. (MutexOwner /\ MayOpen /\ Endpoints /\ ListenerHasReader)'
    BY <1>3, ConnectionUntouched DEF ReturnDisconnected, Holding, Disconnecting
  <2>3. (WrittenNow /\ Waiters)'
    BY <1>3 DEF ReturnDisconnected, TypeOK, WrittenNow, Waiters, Forget
  <2> QED  BY <1>3, <2>1, <2>2, <2>3, ForgetOwn DEF ReturnDisconnected
<1>4. CASE ReturnAnswer(u)
  <2>1. TypeOK'
    BY <1>4 DEF ReturnAnswer, TypeOK, TopicsTypeOK, Forget, Causes
  <2>2. (MutexOwner /\ MayOpen /\ Endpoints /\ ListenerHasReader)'
    BY <1>4, ConnectionUntouched DEF ReturnAnswer, Holding, Disconnecting
  <2>3. WrittenNow'
    BY <1>4 DEF ReturnAnswer, TypeOK, WrittenNow, Forget
  <2>4. Waiters'
    <3>1. /\ at'[u] # "waiting"
          /\ \A v \in Users \ {u} : at'[v] = at[v] /\ query'[v] = query[v]
      BY <1>4 DEF ReturnAnswer, TypeOK, Forget
    <3> QED  BY <1>4, <3>1, RemoveOwn DEF ReturnAnswer
  <2> QED  BY <1>4, <2>1, <2>2, <2>3, <2>4, ForgetOwn DEF ReturnAnswer
<1> QED  BY <1>1, <1>2, <1>3, <1>4

-----------------------------------------------------------------------------
\* The listener thread and the server change no identifier of a thread, no entry,
\* no end point.
Own == <<nonblocking_guard, connection_mutex, writer, reader, sessions,
         answer_cache, request_discarded, at, after, query, cause, written>>
Listening == [at : {"quiet", "data", "alive", "gone"}, batch : SUBSET QueryIds]

ReceptionTypeOK ==
    /\ disconnected_guard \in BOOLEAN
    /\ has_answer \subseteq QueryIds
    /\ listener \in Listening
    /\ inbox \subseteq QueryIds
    /\ notified \in BOOLEAN

LEMMA OutsideIInv ==
    ASSUME IInv, UNCHANGED Own, ReceptionTypeOK', TopicsTypeOK', ListenerHasReader',
           outages' \in 0 .. MaxOutages,
           disconnected_guard' = disconnected_guard \/ reader # 0
    PROVE  IInv'
<1>1. TypeOK'
  BY DEF IInv, Own, TypeOK, ReceptionTypeOK, Listening
<1>2. (MutexOwner /\ MayOpen /\ Endpoints)'
  BY DEF IInv, Own, MutexOwner, MayOpen, Endpoints
<1>3. (WrittenNow /\ OwnQueries /\ Waiters)'
  BY DEF IInv, Own, WrittenNow, OwnQueries, Waiters
<1> QED  BY <1>1, <1>2, <1>3 DEF IInv

LEMMA ListenIInv ==
    ASSUME IInv, Listen
    PROVE  IInv'
<1> USE DEF guards, endpoints, entries, calls, reception, topics, Own, ReceptionTypeOK,
            TopicsTypeOK, Listening, ListenerHasReader
<1>0. TypeOK /\ ListenerHasReader  BY DEF IInv
<1>1. ASSUME NEW id \in replies, ReplyArrives(id)
      PROVE  IInv'
  <2>1. TopicsTypeOK' /\ ListenerHasReader'
    BY <1>0, <1>1 DEF ReplyArrives, TypeOK
  <2>2. inbox' \subseteq QueryIds /\ notified' \in BOOLEAN
    <3>1. CASE id.session = reader
      BY <1>0, <1>1, <3>1 DEF ReplyArrives, TypeOK
    <3>2. CASE id.session # reader
      BY <1>0, <1>1, <3>2 DEF ReplyArrives, TypeOK
    <3> QED  BY <3>1, <3>2
  <2>3. ReceptionTypeOK'
    BY <1>0, <1>1, <2>2 DEF ReplyArrives, TypeOK
  <2> QED  BY <1>0, <1>1, <2>1, <2>3, OutsideIInv DEF ReplyArrives, TypeOK
<1>2. CASE OnDataAvailable
  <2>1. /\ listener' = listener \/ listener' = [at |-> "data", batch |-> inbox]
        /\ inbox' = inbox \/ inbox' = {}
        /\ notified' = FALSE
        /\ UNCHANGED <<disconnected_guard, has_answer, reader>>
    BY <1>2 DEF OnDataAvailable
  <2>2. ReceptionTypeOK' /\ ListenerHasReader'
    <3>1. CASE listener' = listener
      BY <1>0, <2>1, <3>1 DEF TypeOK
    <3>2. CASE listener' = [at |-> "data", batch |-> inbox]
      BY <1>0, <2>1, <3>2 DEF TypeOK
    <3> QED  BY <2>1, <3>1, <3>2
  <2>3. TopicsTypeOK'
    BY <1>0, <1>2 DEF OnDataAvailable, TypeOK
  <2> QED  BY <1>0, <1>2, <2>2, <2>3, OutsideIInv DEF OnDataAvailable, TypeOK
<1>3. ASSUME NEW id, HandleAnswer(id)
      PROVE  IInv'
  <2>1. ReceptionTypeOK' /\ TopicsTypeOK' /\ ListenerHasReader'
    BY <1>0, <1>3 DEF HandleAnswer, Quiet, TypeOK
  <2> QED  BY <1>0, <1>3, <2>1, OutsideIInv DEF HandleAnswer, TypeOK
<1>4. CASE OnLivelinessChanged
  <2>1. ReceptionTypeOK' /\ TopicsTypeOK' /\ ListenerHasReader'
    BY <1>0, <1>4 DEF OnLivelinessChanged, Quiet, TypeOK
  <2> QED  BY <1>0, <1>4, <2>1, OutsideIInv DEF OnLivelinessChanged, TypeOK
<1> QED  BY <1>1, <1>2, <1>3, <1>4 DEF Listen

LEMMA RemoteIInv ==
    ASSUME IInv, RemoteNext
    PROVE  IInv'
<1> USE DEF guards, endpoints, entries, calls, reception, topics, Own, ReceptionTypeOK,
            TopicsTypeOK, Listening, ListenerHasReader
<1>0. TypeOK /\ ListenerHasReader  BY DEF IInv
<1>1. CASE ServerVanishes
  <2>0. \/ listener' = listener
        \/ listener' = [at |-> "gone", batch |-> {}] /\ reader # 0
    BY <1>1 DEF ServerVanishes, TellListener
  <2>1. /\ UNCHANGED <<disconnected_guard, has_answer, inbox, notified, reader>>
        /\ UNCHANGED <<replies, request_writers>> /\ requests' = {} /\ server_up' = FALSE
    BY <1>1 DEF ServerVanishes
  <2>3. ReceptionTypeOK' /\ TopicsTypeOK' /\ ListenerHasReader'
    <3>1. CASE listener' = listener
      BY <1>0, <2>1, <3>1 DEF TypeOK
    <3>2. CASE listener' = [at |-> "gone", batch |-> {}] /\ reader # 0
      BY <1>0, <2>1, <3>2 DEF TypeOK
    <3> QED  BY <2>0, <3>1, <3>2
  <2>2. outages' \in 0 .. MaxOutages
    BY <1>0, <1>1, OutageBound DEF ServerVanishes, TypeOK
  <2> QED  BY <1>1, <2>1, <2>2, <2>3, OutsideIInv DEF ServerVanishes
<1>2. CASE ServerReturns
  <2>1. ReceptionTypeOK' /\ TopicsTypeOK' /\ ListenerHasReader'
    BY <1>0, <1>2 DEF ServerReturns, TellListener, TypeOK
  <2> QED  BY <1>0, <1>2, <2>1, OutsideIInv DEF ServerReturns, TypeOK
<1>3. ASSUME NEW id, ServerAnswers(id)
      PROVE  IInv'
  <2>1. ReceptionTypeOK' /\ TopicsTypeOK' /\ ListenerHasReader'
    BY <1>0, <1>3 DEF ServerAnswers, clientVars, TypeOK
  <2> QED  BY <1>0, <1>3, <2>1, OutsideIInv DEF ServerAnswers, clientVars, TypeOK
<1> QED  BY <1>1, <1>2, <1>3 DEF RemoteNext

LEMMA NextIInv == IInv /\ [Next]_vars => IInv'
<1> SUFFICES ASSUME IInv, [Next]_vars PROVE IInv'  OBVIOUS
<1>1. CASE \E u \in Users : Call(u) \/ Proceed(u) \/ WaitTimesOut(u)
  BY <1>1, DisconnectIInv, ConnectIInv, RequestIInv, ReceiveIInv, WaitIInv DEF Call, Proceed
<1>2. CASE Listen \/ RemoteNext
  BY <1>2, ListenIInv, RemoteIInv
<1>3. CASE UNCHANGED vars
  BY <1>3 DEF vars, clientVars, guards, endpoints, entries, calls, reception, topics, IInv,
     TypeOK, TopicsTypeOK, MutexOwner, MayOpen, Endpoints, ListenerHasReader, WrittenNow,
     OwnQueries, Waiters
<1> QED  BY <1>1, <1>2, <1>3 DEF Next, ClientNext

\* The inductive invariant holds in every reachable state.
THEOREM Invariance == Spec => []IInv
<1> QED  BY InitIInv, NextIInv, PTL DEF Spec

\* All variables of the client and of its topics keep their types.
THEOREM TypeCorrect == Spec => []TypeOK
<1>1. IInv => TypeOK  BY DEF IInv
<1> QED  BY <1>1, Invariance, PTL

\* However connect, disconnect and liveliness upcalls overlap, once no call changes
\* the connection a client that reports itself connected has both end points.
THEOREM ConnectedMeansEndpoints == Spec => []ConnectedHasEndpoints
<1>1. IInv => ConnectedHasEndpoints
  BY DEF IInv, Endpoints, ConnectedHasEndpoints
<1> QED  BY <1>1, Invariance, PTL

\* A request's entry is made in the session the request was written in.
THEOREM RegisteredInItsSession == Spec => []RegisteredInSession
<1>1. IInv => RegisteredInSession
  BY DEF IInv, WrittenNow, RegisteredInSession
<1> QED  BY <1>1, Invariance, PTL

\* Clearing or discarding an entry wakes whoever waits for it.
THEOREM NobodyIsForgotten == Spec => []NoForgottenWaiter
<1>1. IInv => NoForgottenWaiter
  BY DEF IInv, Waiters, NoForgottenWaiter, Active, Causes
<1> QED  BY <1>1, Invariance, PTL

-----------------------------------------------------------------------------
\* What WaitsEnd rests on, fairness aside: the thread that holds connection_mutex has a
\* step to take, or waits for an upcall that needs no such mutex, and each of its steps
\* leaves it fewer to take.

\* DDS announces answers that are there, and an upcall ends with the last of them.
UpcallsHaveAnswers ==
    /\ notified => inbox # {}
    /\ listener.at = "data" => listener.batch # {}
    /\ listener.at = "quiet" => listener = Quiet

\* The guards of the steps of a thread that changes the connection or writes a request.
CanStep(u) ==
    \/ at[u] \in Holding \cup {"clearing"}
    \/ at[u] = "closing" /\ (reader # 0 => listener = Quiet)

UpcallEnds ==
    \/ listener.at \in {"alive", "gone"}
    \/ listener.at = "data" /\ listener.batch # {}

\* The steps before the mutex is released at most: more of them when the new end points
\* of connect() are still to come.
StepsFrom(place) ==
    CASE place = "opening" -> 7
      [] place = "matching" -> 6
      [] place = "subscribing" -> 5
      [] place = "attached" -> 4
      [] place = "clearing" -> 3
      [] place = "closing" -> 2
      [] place \in {"closed", "written"} -> 1
      [] OTHER -> 0

StepsLeft(place, next) ==
    StepsFrom(place)
        + (IF place \in Disconnecting \cup {"closed"} /\ next = "open" THEN 7 ELSE 0)

\* A step of a call is one of the calls that are left with fewer steps.
GetsOn(u) ==
    /\ \/ at'[u] = at[u] /\ after'[u] = after[u]
       \/ StepsLeft(at'[u], after'[u]) < StepsLeft(at[u], after[u])
    /\ connection_mutex' = u \/ at'[u] = "idle"

LEMMA InitUpcalls == Init => UpcallsHaveAnswers
BY DEF Init, ClientInit, UpcallsHaveAnswers, Quiet

LEMMA NextUpcalls == IInv /\ UpcallsHaveAnswers /\ [Next]_vars => UpcallsHaveAnswers'
<1> SUFFICES ASSUME IInv, UpcallsHaveAnswers, [Next]_vars PROVE UpcallsHaveAnswers'
  OBVIOUS
<1> USE DEF UpcallsHaveAnswers, reception, clientVars
<1>0. listener \in Listening
  BY DEF IInv, TypeOK, Listening
<1>1. ASSUME NEW u \in Users, Call(u) \/ Proceed(u) \/ WaitTimesOut(u)
      PROVE  UpcallsHaveAnswers'
  <2>1. /\ listener' = listener
        /\ (inbox' = inbox /\ notified' = notified) \/ notified' = FALSE
    BY <1>1
    DEF Call, Connect, Disconnect, QueryRequest, QueryReceive, QueryReceiveWait, BeginReceive,
        QueryDiscard, Blocking, Proceed, ClearQueries, CloseEndpoints, CloseDone, CreateWriter,
        WriterMatched, AttachReader, Connected, ConnectFails, WriteRequest, WriteFails,
        RegisterQuery, WrongId, Receive, StartWait, Wake, ReturnDisconnected, ReturnCancelled,
        ReturnAnswer, WaitTimesOut
  <2> QED  BY <2>1
<1>2. ASSUME NEW id \in replies, ReplyArrives(id) PROVE UpcallsHaveAnswers'
  <2>1. listener' = listener
    BY <1>2 DEF ReplyArrives
  <2>2. CASE id.session = reader
    BY <1>2, <2>1, <2>2 DEF ReplyArrives
  <2>3. CASE id.session # reader
    <3>1. inbox' = inbox /\ notified' = notified
      BY <1>2, <2>3 DEF ReplyArrives
    <3> QED  BY <2>1, <3>1
  <2> QED  BY <2>2, <2>3
<1>3. CASE OnDataAvailable
  <2>1. /\ notified /\ listener = Quiet /\ notified' = FALSE
        /\ listener' = listener \/ listener' = [at |-> "data", batch |-> inbox]
    BY <1>3 DEF OnDataAvailable
  <2> QED  BY <2>1 DEF Quiet
<1>4. ASSUME NEW id \in listener.batch, HandleAnswer(id) PROVE UpcallsHaveAnswers'
  <2>1. UNCHANGED <<inbox, notified>> /\ listener.at = "data"
        /\ listener' = IF listener.batch = {id} THEN Quiet
                       ELSE [listener EXCEPT !.batch = @ \ {id}]
    BY <1>4 DEF HandleAnswer
  <2>2. CASE listener.batch = {id}
    BY <2>1, <2>2 DEF Quiet
  <2>3. CASE listener.batch # {id}
    <3>1. listener'.at = "data" /\ listener'.batch = listener.batch \ {id}
      BY <1>0, <2>1, <2>3 DEF Listening
    <3> QED  BY <1>4, <2>1, <2>3, <3>1
  <2> QED  BY <2>2, <2>3
<1>5. CASE OnLivelinessChanged
  BY <1>5 DEF OnLivelinessChanged, Quiet
<1>6. CASE ServerVanishes \/ ServerReturns
  <2>1. /\ UNCHANGED <<inbox, notified>>
        /\ \/ listener' = listener
           \/ listener' = [at |-> "alive", batch |-> {}]
           \/ listener' = [at |-> "gone", batch |-> {}]
    BY <1>6 DEF ServerVanishes, ServerReturns, TellListener
  <2> QED  BY <2>1
<1>7. ASSUME NEW id \in requests, ServerAnswers(id) PROVE UpcallsHaveAnswers'
  BY <1>7 DEF ServerAnswers
<1>8. CASE UNCHANGED vars
  BY <1>8 DEF vars
<1> QED  BY <1>1, <1>2, <1>3, <1>4, <1>5, <1>6, <1>7, <1>8
         DEF Next, ClientNext, RemoteNext, Listen

\* The mutex is not held for ever behind an upcall or another call.
THEOREM HolderNotStuck ==
    Spec => [](\A u \in Users : connection_mutex = u => CanStep(u) \/ UpcallEnds)
<1>1. IInv /\ UpcallsHaveAnswers =>
        \A u \in Users : connection_mutex = u => CanStep(u) \/ UpcallEnds
  <2> SUFFICES ASSUME IInv, UpcallsHaveAnswers, NEW u \in Users, connection_mutex = u
               PROVE  CanStep(u) \/ UpcallEnds
    OBVIOUS
  <2>1. at[u] \in Holding \cup Disconnecting
    BY DEF IInv, MutexOwner
  <2>2. listener.at \in {"quiet", "data", "alive", "gone"}
    BY DEF IInv, TypeOK
  <2> QED  BY <2>1, <2>2 DEF CanStep, UpcallEnds, UpcallsHaveAnswers, Disconnecting
<1>2. Spec => []UpcallsHaveAnswers
  BY InitUpcalls, NextUpcalls, Invariance, PTL DEF Spec
<1> QED  BY <1>1, <1>2, Invariance, PTL

\* A call never needs more of them than this.
LEMMA StepsAreBounded ==
    \A place \in UserStates, next \in {"open", "return"} : StepsLeft(place, next) \in 0 .. 10
BY DEF StepsLeft, StepsFrom, UserStates, Disconnecting

\* The steps of the holder of the mutex itself.
LEMMA HolderSteps ==
    ASSUME IInv, NEW u \in Users, connection_mutex = u,
           Call(u) \/ Proceed(u) \/ WaitTimesOut(u)
    PROVE  GetsOn(u)
<1>0. /\ at \in [Users -> UserStates] /\ after \in [Users -> {"open", "return"}]
      /\ u # Free /\ at[u] \in Holding \cup Disconnecting
  BY FreeIsNoUser DEF IInv, TypeOK, MutexOwner
<1>1. ASSUME NEW place, Go(u, place) PROVE at'[u] = place
  BY <1>0, <1>1 DEF Go
<1>2. CASE ClearQueries(u) \/ CloseEndpoints(u) \/ CreateWriter(u) \/ WriterMatched(u)
           \/ AttachReader(u)
  <2>1. PICK place \in {"closing", "closed", "matching", "subscribing", "attached"} :
          /\ Go(u, place) /\ connection_mutex' = u /\ after' = after
          /\ \/ at[u] = "clearing" /\ place = "closing"
             \/ at[u] = "closing" /\ place = "closed"
             \/ at[u] = "opening" /\ place = "matching"
             \/ at[u] = "matching" /\ place = "subscribing"
             \/ at[u] = "subscribing" /\ place = "attached"
    BY <1>2 DEF ClearQueries, CloseEndpoints, CreateWriter, WriterMatched, AttachReader, endpoints
  <2>2. at'[u] = place
    BY <1>1, <2>1
  <2>3. StepsLeft(at'[u], after'[u]) < StepsLeft(at[u], after[u])
    BY <2>1, <2>2 DEF StepsLeft, StepsFrom, Disconnecting
  <2> QED  BY <2>1, <2>3 DEF GetsOn
<1>3. CASE CloseDone(u)
  <2>1. /\ at[u] = "closed" /\ after' = after
        /\ \/ after[u] = "open" /\ at'[u] = "opening" /\ connection_mutex' = u
           \/ at'[u] = "idle"
    BY <1>1, <1>3 DEF CloseDone
  <2>2. StepsLeft(at'[u], after'[u]) < StepsLeft(at[u], after[u])
    BY <2>1 DEF StepsLeft, StepsFrom, Disconnecting
  <2> QED  BY <2>1, <2>2 DEF GetsOn
<1>4. CASE Connected(u) \/ RegisterQuery(u)
  <2>1. at[u] \in {"attached", "written"} /\ at'[u] = "idle"
    BY <1>1, <1>4 DEF Connected, RegisterQuery
  <2> QED  BY <2>1 DEF GetsOn, StepsLeft, StepsFrom, Disconnecting
<1>5. CASE ConnectFails(u)
  <2>1. /\ at[u] \in {"opening", "matching", "subscribing"} /\ at'[u] = "clearing"
        /\ after'[u] = "return" /\ connection_mutex' = u
    BY <1>0, <1>1, <1>5 DEF ConnectFails
  <2>2. StepsLeft(at'[u], after'[u]) < StepsLeft(at[u], after[u])
    BY <2>1 DEF StepsLeft, StepsFrom, Disconnecting
  <2> QED  BY <2>1, <2>2 DEF GetsOn
<1>6. ~Call(u) /\ ~WaitTimesOut(u)
  BY <1>0 DEF Call, Connect, Disconnect, QueryRequest, QueryReceive, QueryReceiveWait,
              BeginReceive, QueryDiscard, Blocking, WaitTimesOut, Holding, Disconnecting
<1>7. ~(WriteRequest(u) \/ WriteFails(u) \/ WrongId(u) \/ Receive(u) \/ StartWait(u) \/ Wake(u)
        \/ ReturnDisconnected(u) \/ ReturnCancelled(u) \/ ReturnAnswer(u))
  BY <1>0 DEF WriteRequest, WriteFails, WrongId, Receive, StartWait, Wake, ReturnDisconnected,
              ReturnCancelled, ReturnAnswer, Holding, Disconnecting
<1> QED  BY <1>2, <1>3, <1>4, <1>5, <1>6, <1>7 DEF Proceed

\* What another thread does leaves the holder of the mutex and its call alone.
LEMMA OtherThreads ==
    ASSUME IInv, NEW u \in Users, connection_mutex = u, NEW v \in Users, v # u,
           Call(v) \/ Proceed(v) \/ WaitTimesOut(v)
    PROVE  connection_mutex' = u /\ at'[u] = at[u] /\ after'[u] = after[u]
<1>1. at[v] \notin Holding /\ u # Free
  BY FreeIsNoUser DEF IInv, MutexOwner
<1>2. connection_mutex' = u
  BY <1>1
  DEF Call, Connect, Disconnect, QueryRequest, QueryReceive, QueryReceiveWait, BeginReceive,
      QueryDiscard, Blocking, Proceed, ClearQueries, CloseEndpoints, CloseDone, CreateWriter,
      WriterMatched, AttachReader, Connected, ConnectFails, WriteRequest, WriteFails,
      RegisterQuery, WrongId, Receive, StartWait, Wake, ReturnDisconnected, ReturnCancelled,
      ReturnAnswer, WaitTimesOut, endpoints, MutexAvailable, Holding
<1>3. /\ \A place : Go(v, place) => at'[u] = at[u]
      /\ \A next : after' = [after EXCEPT ![v] = next] => after'[u] = after[u]
  BY DEF Go, IInv, TypeOK
<1>4. at'[u] = at[u] /\ after'[u] = after[u]
  BY <1>1, <1>3
  DEF Call, Connect, Disconnect, QueryRequest, QueryReceive, QueryReceiveWait, BeginReceive,
      QueryDiscard, Blocking, Proceed, ClearQueries, CloseEndpoints, CloseDone, CreateWriter,
      WriterMatched, AttachReader, Connected, ConnectFails, WriteRequest, WriteFails,
      RegisterQuery, WrongId, Receive, StartWait, Wake, ReturnDisconnected, ReturnCancelled,
      ReturnAnswer, WaitTimesOut, calls
<1> QED  BY <1>2, <1>4

\* Every step of the holder brings it closer to the end of its call, where it lets go of
\* the mutex, and nobody takes it further away.
THEOREM HolderGetsOn ==
    Spec => [][\A u \in Users : connection_mutex = u => GetsOn(u)]_vars
<1>1. IInv /\ [Next]_vars => \A u \in Users : connection_mutex = u => GetsOn(u)
  <2> SUFFICES ASSUME IInv, [Next]_vars, NEW u \in Users, connection_mutex = u
               PROVE  GetsOn(u)
    OBVIOUS
  <2>1. ASSUME NEW v \in Users, Call(v) \/ Proceed(v) \/ WaitTimesOut(v) PROVE GetsOn(u)
    BY <2>1, HolderSteps, OtherThreads DEF GetsOn
  <2>2. CASE Listen \/ RemoteNext \/ UNCHANGED vars
    BY <2>2 DEF Listen, OnDataAvailable, OnLivelinessChanged, ReplyArrives, HandleAnswer,
                RemoteNext, ServerVanishes, ServerReturns, ServerAnswers, vars, clientVars,
                endpoints, calls, GetsOn
  <2> QED  BY <2>1, <2>2 DEF Next, ClientNext
<1> QED  BY <1>1, Invariance, PTL DEF Spec
=============================================================================
