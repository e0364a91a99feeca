------------------------- MODULE QuerySystemProofs --------------------------
(***************************************************************************)
(* The query pattern end to end, for any number of threads, sessions and   *)
(* queries: it implements QueryService. A request is answered once because *)
(* it is in one place at a time on its way through the server, and its     *)
(* answer is obtained once because one thread holds its identifier. The    *)
(* second half shows that each component meets here the environment its    *)
(* own module supposes, so that what is proved of it alone holds here.     *)
(***************************************************************************)
EXTENDS QuerySystem, FiniteSetTheorems, TLAPS

\* The functions are over all threads and queries, the listeners are records.
Shapes ==
    /\ written \in Nat
    /\ answers \in [Numbers -> {0, 1}]
    /\ results \in [Numbers -> {0, 1}]
    /\ DOMAIN at = Users /\ DOMAIN query = Users /\ DOMAIN cause = Users
    /\ listener = [at |-> listener.at, batch |-> listener.batch]
    /\ upcall = [at |-> upcall.at, session |-> upcall.session, batch |-> upcall.batch]

\* A request on its way through the server has no answer yet, and is in one place.
Known == requests \cup upcall.batch \cup request_cache
Pending ==
    /\ \A id \in Known : id.number \in Numbers /\ id.number <= written
    /\ \A id \in Known : answers[id.number] = 0
    /\ \A id, other \in Known : id.number = other.number => id = other
    /\ requests \cap upcall.batch = {}
    /\ request_cache \cap (requests \cup upcall.batch) = {}

\* An answer on its way to the client, or registered there, was given.
Given == replies \cup inbox \cup listener.batch \cup has_answer
Answered == \A id \in Given : id.number \in Numbers /\ answers[id.number] = 1

Unused == \A n \in Numbers : n > written => answers[n] = 0 /\ results[n] = 0

\* A thread that may still obtain an answer is the only one that holds its identifier,
\* and nobody obtained it before.
Holders ==
    /\ \A u \in Users : query[u].number \in 0 .. written
    /\ \A u, v \in Users :
         u # v /\ query[u].number = query[v].number => query[u].number = 0
    /\ \A u \in Users :
         query[u].number \in Numbers /\ results[query[u].number] = 1 => at[u] = "undefined"

\* A wait that ended with an answer has one.
WokenWithAnswer ==
    \A u \in Users : at[u] = "woken" /\ cause[u] = "result" => query[u] \in has_answer

SInv == Shapes /\ Pending /\ Answered /\ Unused /\ Holders /\ WokenWithAnswer

Served == [Service!Next]_(Service!vars)

-----------------------------------------------------------------------------
LEMMA InitSInv == Init => SInv /\ Service!Init
<1> SUFFICES ASSUME Init PROVE SInv /\ Service!Init  OBVIOUS
<1>1. Shapes
  BY DEF Init, Shapes, Client!ClientInit, Server!ServerInit, TopicsInit, Client!Quiet,
         Server!Quiet
<1>2. Pending /\ Answered /\ WokenWithAnswer
  BY DEF Init, Pending, Known, Answered, Given, WokenWithAnswer, Client!ClientInit,
         Server!ServerInit, TopicsInit, Client!Quiet, Server!Quiet
<1>3. Unused
  BY DEF Init, Unused
<1>4. Holders
  BY QueryBounds DEF Init, Holders, Client!ClientInit, Client!NoQuery, Numbers
<1>5. Service!Init
  BY DEF Init, Client!ClientInit, Service!Init, Service!Queries, Numbers
<1> QED  BY <1>1, <1>2, <1>3, <1>4, <1>5 DEF SInv

-----------------------------------------------------------------------------
\* How the history of obtained answers changes in a step of the client.
Counted(n) == {u \in Users : Obtains(u) /\ query[u].number = n}
CountsResults == results' = [n \in Numbers |-> results[n] + Cardinality(Counted(n))]

LEMMA NobodyObtains ==
    ASSUME Shapes, CountsResults,
           \A u \in Users : Obtains(u) => query[u].number \notin Numbers
    PROVE  results' = results
<1>1. ASSUME NEW n \in Numbers PROVE Counted(n) = {}
  <2>1. \A u \in Users : ~(Obtains(u) /\ query[u].number = n)
    OBVIOUS
  <2> QED  BY <2>1 DEF Counted
<1>2. ASSUME NEW n \in Numbers PROVE results[n] + Cardinality(Counted(n)) = results[n]
  <2>1. results[n] \in Nat
    BY DEF Shapes
  <2>2. Cardinality(Counted(n)) = 0
    BY <1>1, FS_EmptySet
  <2> QED  BY <2>1, <2>2
<1> QED  BY <1>2 DEF CountsResults, Shapes

LEMMA OneObtains ==
    ASSUME Shapes, CountsResults, NEW u \in Users, Obtains(u),
           query[u].number \in Numbers, results[query[u].number] = 0,
           \A v \in Users : v # u => ~Obtains(v)
    PROVE  results' = [results EXCEPT ![query[u].number] = 1]
<1> DEFINE q == query[u].number
<1>1. Counted(q) = {u}
  BY DEF Counted
<1>2. \A n \in Numbers : n # q => Counted(n) = {}
  BY DEF Counted
<1>3. Cardinality(Counted(q)) = 1
  BY <1>1, FS_Singleton
<1>4. \A n \in Numbers : results[n] + Cardinality(Counted(n)) = IF n = q THEN 1 ELSE results[n]
  BY <1>2, <1>3, FS_EmptySet DEF Shapes
<1>5. results' = [n \in Numbers |-> IF n = q THEN 1 ELSE results[n]]
  BY <1>4 DEF CountsResults
<1> QED  BY <1>5 DEF Shapes

\* A thread that obtains an answer leaves where it was.
LEMMA ObtainsMoves ==
    ASSUME NEW v, at'[v] = at[v]
    PROVE  ~Obtains(v)
BY DEF Obtains

-----------------------------------------------------------------------------
\* A step that neither asks, answers nor obtains, and takes no request further.
LEMMA KeepsSInv ==
    ASSUME SInv, Shapes', WokenWithAnswer', Given' \subseteq Given,
           UNCHANGED <<requests, upcall, request_cache, written, answers, results>>,
           \A v \in Users : query'[v] = query[v] \/ query'[v] = NoQuery,
           \A v \in Users : at[v] = "undefined" => at'[v] = "undefined"
    PROVE  SInv' /\ Served
<1>1. Pending' /\ Unused'
  BY DEF SInv, Pending, Known, Unused
<1>2. Answered'
  BY DEF SInv, Answered
<1>3. Holders'
  <2>1. NoQuery.number = 0 /\ 0 \notin Numbers /\ 0 \in 0 .. written
    BY DEF NoQuery, Numbers, SInv, Shapes
  <2> QED  BY <2>1 DEF SInv, Holders
<1>4. UNCHANGED Service!vars
  BY DEF Service!vars
<1> QED  BY <1>1, <1>2, <1>3, <1>4 DEF SInv, Served

Waking == {"woken", "undefined"}

\* The steps of a user's thread that change none of what the listeners and the server
\* have, and end no wait with an answer.
LEMMA UserKeeps ==
    ASSUME SInv, NEW u \in Users, CountsResults,
           UNCHANGED <<requests, replies, has_answer, listener, upcall, request_cache,
                       written, answers>>,
           inbox' \subseteq inbox,
           DOMAIN at' = Users, \A v \in Users : v # u => at'[v] = at[v], at'[u] \notin Waking,
           query' = query \/ query' = [query EXCEPT ![u] = NoQuery],
           cause' = cause \/ cause' = [cause EXCEPT ![u] = "none"],
           at[u] # "undefined", Obtains(u) => query[u].number \notin Numbers
    PROVE  SInv' /\ Served
<1>1. results' = results
  <2>1. \A v \in Users : Obtains(v) => query[v].number \notin Numbers
    BY ObtainsMoves
  <2> QED  BY <2>1, NobodyObtains DEF SInv
<1>2. Shapes'
  BY <1>1 DEF SInv, Shapes
<1>3. Given' \subseteq Given
  BY DEF Given
<1>4. WokenWithAnswer'
  BY DEF SInv, Shapes, WokenWithAnswer, Waking
<1>5. \A v \in Users : query'[v] = query[v] \/ query'[v] = NoQuery
  BY DEF SInv, Shapes
<1>6. \A v \in Users : at[v] = "undefined" => at'[v] = "undefined"
  BY DEF SInv, Shapes
<1> QED  BY <1>1, <1>2, <1>3, <1>4, <1>5, <1>6, KeepsSInv

\* What the steps of a thread that UserKeeps speaks of have in common.
Keeps(u) ==
    /\ UNCHANGED <<requests, replies, has_answer, listener, written>>
    /\ inbox' \subseteq inbox
    /\ DOMAIN at' = Users
    /\ \A v \in Users : v # u => at'[v] = at[v]
    /\ at'[u] \notin Waking
    /\ query' = query \/ query' = [query EXCEPT ![u] = NoQuery]
    /\ cause' = cause \/ cause' = [cause EXCEPT ![u] = "none"]
    /\ at[u] # "undefined"

LEMMA CallKeeps ==
    ASSUME Shapes, NEW u \in Users, Client!Call(u)
    PROVE  Keeps(u) /\ ~Obtains(u)
<1> USE DEF Shapes, Keeps, Waking, Client!Go, Client!Forget, Client!guards, Client!endpoints,
            Client!entries, Client!calls, Client!reception, Client!topics, Client!NoQuery,
            NoQuery
<1>1. CASE Client!Connect(u) \/ Client!Disconnect(u)
  BY <1>1 DEF Client!Connect, Client!Disconnect, Obtains
<1>2. CASE Client!QueryRequest(u)
  BY <1>2 DEF Client!QueryRequest, Obtains
<1>3. CASE Client!QueryReceive(u) \/ Client!QueryReceiveWait(u)
  BY <1>3 DEF Client!QueryReceive, Client!QueryReceiveWait, Client!BeginReceive, Obtains
<1>4. CASE Client!QueryDiscard(u)
  BY <1>4 DEF Client!QueryDiscard, Obtains
<1>5. CASE \E blocking \in BOOLEAN : Client!Blocking(u, blocking)
  BY <1>5 DEF Client!Blocking, Obtains
<1> QED  BY <1>1, <1>2, <1>3, <1>4, <1>5 DEF Client!Call

\* The steps of a call that neither write a request nor end a wait with an answer.
Inside(u) ==
    \/ Client!ClearQueries(u) \/ Client!CloseEndpoints(u) \/ Client!CloseDone(u)
    \/ Client!CreateWriter(u) \/ Client!WriterMatched(u) \/ Client!AttachReader(u)
    \/ Client!Connected(u) \/ Client!ConnectFails(u) \/ Client!WriteFails(u)
    \/ Client!RegisterQuery(u) \/ Client!WrongId(u) \/ Client!StartWait(u)
    \/ Client!WaitTimesOut(u) \/ Client!ReturnDisconnected(u) \/ Client!ReturnCancelled(u)
    \/ Client!Receive(u) /\ ~Client!AnswerReady(query[u])

LEMMA InsideKeeps ==
    ASSUME Shapes, NEW u \in Users, Inside(u)
    PROVE  Keeps(u) /\ (Obtains(u) => query[u].number \notin Numbers)
<1> USE DEF Shapes, Keeps, Waking, Client!Go, Client!Forget, Client!guards, Client!endpoints,
            Client!entries, Client!calls, Client!reception, Client!topics, Client!NoQuery,
            NoQuery
<1>1. CASE Client!ClearQueries(u) \/ Client!CloseEndpoints(u) \/ Client!CloseDone(u)
  BY <1>1 DEF Client!ClearQueries, Client!ClearEntries, Client!CloseEndpoints,
              Client!CloseDone, Obtains
<1>2. CASE Client!CreateWriter(u) \/ Client!WriterMatched(u) \/ Client!AttachReader(u)
  BY <1>2 DEF Client!CreateWriter, Client!WriterMatched, Client!AttachReader, Obtains
<1>3. CASE Client!Connected(u) \/ Client!ConnectFails(u)
  BY <1>3 DEF Client!Connected, Client!ConnectFails, Obtains
<1>4. CASE Client!WriteFails(u) \/ Client!RegisterQuery(u)
  BY <1>4 DEF Client!WriteFails, Client!RegisterQuery, Obtains
<1>5. CASE Client!WrongId(u) \/ Client!StartWait(u) \/ Client!WaitTimesOut(u)
  BY <1>5 DEF Client!WrongId, Client!StartWait, Client!WaitTimesOut, Obtains
<1>6. CASE Client!ReturnDisconnected(u) \/ Client!ReturnCancelled(u)
  BY <1>6 DEF Client!ReturnDisconnected, Client!ReturnCancelled, Obtains
<1>7. CASE Client!Receive(u) /\ ~Client!AnswerReady(query[u])
  BY <1>7 DEF Client!Receive, Obtains, Numbers
<1> QED  BY <1>1, <1>2, <1>3, <1>4, <1>5, <1>6, <1>7 DEF Inside

-----------------------------------------------------------------------------
\* What a step of the client leaves alone.
ServerIdles ==
    UNCHANGED <<request_cache, connected_clients, is_shutting_down, server_mutex,
                disconnecting, upcall, matched, handed, answering, answers>>

LEMMA QuietServes ==
    ASSUME SInv, NEW u \in Users, CountsResults, ServerIdles, Client!Call(u) \/ Inside(u)
    PROVE  SInv' /\ Served
<1>1. Keeps(u) /\ (Obtains(u) => query[u].number \notin Numbers)
  BY CallKeeps, InsideKeeps DEF SInv
<1> QED  BY <1>1, UserKeeps DEF Keeps, ServerIdles

\* A wait that ends: with an answer only if there is one.
LEMMA WakeServes ==
    ASSUME SInv, NEW u \in Users, CountsResults, ServerIdles, Client!Wake(u)
    PROVE  SInv' /\ Served
<1>1. /\ at[u] = "waiting" /\ at' = [at EXCEPT ![u] = "woken"]
      /\ UNCHANGED <<requests, replies, has_answer, listener, inbox, written, query>>
      /\ \E c : cause' = [cause EXCEPT ![u] = c] /\ (c = "result" => query[u] \in has_answer)
  BY DEF Client!Wake, Client!Go, Client!Active, Client!guards, Client!endpoints,
         Client!entries, Client!reception, Client!topics
<1>2. results' = results
  <2>1. \A v \in Users : ~Obtains(v)
    BY <1>1, ObtainsMoves DEF SInv, Shapes, Obtains
  <2> QED  BY <2>1, NobodyObtains DEF SInv
<1>3. Shapes'
  BY <1>1, <1>2 DEF SInv, Shapes, ServerIdles
<1>4. WokenWithAnswer'
  BY <1>1 DEF SInv, Shapes, WokenWithAnswer
<1>5. Given' \subseteq Given
  BY <1>1 DEF Given
<1>6. \A v \in Users : at[v] = "undefined" => at'[v] = "undefined"
  BY <1>1 DEF SInv, Shapes
<1> QED  BY <1>1, <1>2, <1>3, <1>4, <1>5, <1>6, KeepsSInv DEF ServerIdles

\* A request gets the next number, which nobody has.
LEMMA WriteServes ==
    ASSUME SInv, NEW u \in Users, CountsResults, ServerIdles, Client!WriteRequest(u)
    PROVE  SInv' /\ Served
<1> DEFINE id == [session |-> writer, number |-> written + 1]
<1>1. /\ at[u] = "requesting" /\ at' = [at EXCEPT ![u] = "written"]
      /\ written < MaxQueries /\ written' = written + 1
      /\ requests' \in {requests, requests \cup {id}}
      /\ query' = [query EXCEPT ![u] = id]
      /\ UNCHANGED <<replies, has_answer, listener, inbox, cause>>
  BY DEF Client!WriteRequest, Client!Go, Client!guards, Client!reception, Client!entries
<1>2. results' = results
  <2>1. \A v \in Users : ~Obtains(v)
    BY <1>1, ObtainsMoves DEF SInv, Shapes, Obtains
  <2> QED  BY <2>1, NobodyObtains DEF SInv
<1>3. UNCHANGED <<upcall, request_cache, answers, results>>
  BY <1>2 DEF ServerIdles
<1>4. id.number \in Numbers /\ id.number = written + 1 /\ written \in Nat
  BY <1>1, QueryBounds DEF SInv, Shapes, Numbers
<1>5. /\ \A old \in Known : old.number # id.number
      /\ id \notin Known
      /\ answers[id.number] = 0 /\ results[id.number] = 0
  BY <1>4, QueryBounds DEF SInv, Pending, Unused, Numbers
<1>6. Shapes'
  BY <1>1, <1>3, <1>4 DEF SInv, Shapes
<1>7. Pending'
  <2>1. Known' \subseteq Known \cup {id}
    BY <1>1, <1>3 DEF Known
  <2>2. id \notin upcall.batch \cup request_cache
    BY <1>5 DEF Known
  <2>3. \A n \in Numbers : n <= written => n <= written'
    BY <1>1, <1>4, QueryBounds DEF Numbers
  <2>4. /\ \A i \in Known' : i.number \in Numbers /\ i.number <= written'
        /\ \A i \in Known' : answers'[i.number] = 0
        /\ \A i, other \in Known' : i.number = other.number => i = other
    <3> HIDE DEF id
    <3>1. id.number <= written'
      BY <1>1, <1>4
    <3> QED  BY <1>3, <1>4, <1>5, <2>1, <2>3, <3>1 DEF SInv, Pending
  <2>5. /\ (requests \cap upcall.batch = {})'
        /\ (request_cache \cap (requests \cup upcall.batch) = {})'
    <3> HIDE DEF id
    <3> QED  BY <1>1, <1>3, <2>2 DEF SInv, Pending
  <2> QED  BY <2>4, <2>5 DEF Pending
<1>8. Answered'
  BY <1>1, <1>3 DEF SInv, Answered, Given
<1>9. Unused'
  BY <1>1, <1>3, <1>4, QueryBounds DEF SInv, Unused, Numbers
<1>10. Holders'
  <2>1. \A v \in Users : query'[v] = IF v = u THEN id ELSE query[v]
    BY <1>1 DEF SInv, Shapes
  <2>2. \A v \in Users : at[v] = "undefined" => at'[v] = "undefined"
    BY <1>1 DEF SInv, Shapes
  <2>3. \A v \in Users : query[v].number \in 0 .. written
    BY DEF SInv, Holders
  <2>4. \A v \in Users : query'[v].number \in 0 .. written'
    BY <1>1, <1>4, <2>1, <2>3
  <2>5. \A v, w \in Users :
          v # w /\ query'[v].number = query'[w].number => query'[v].number = 0
    BY <1>4, <2>1, <2>3 DEF SInv, Holders
  <2>6. \A v \in Users :
          query'[v].number \in Numbers /\ results'[query'[v].number] = 1 => at'[v] = "undefined"
    BY <1>3, <1>4, <1>5, <2>1, <2>2 DEF SInv, Holders
  <2> QED  BY <2>4, <2>5, <2>6 DEF Holders
<1>11. WokenWithAnswer'
  BY <1>1 DEF SInv, Shapes, WokenWithAnswer
<1>12. Service!Ask(written + 1)
  BY <1>1, <1>3, <1>4 DEF Service!Ask
<1>13. Served
  BY <1>4, <1>12 DEF Served, Service!Next, Service!Queries, Numbers
<1> QED  BY <1>6, <1>7, <1>8, <1>9, <1>10, <1>11, <1>13 DEF SInv

\* An answer is obtained by the one thread that holds its identifier and has no further
\* use of it.
LEMMA ObtainServes ==
    ASSUME SInv, NEW u \in Users, CountsResults, ServerIdles,
           \/ Client!ReturnAnswer(u) /\ cause[u] = "result"
           \/ Client!Receive(u) /\ Client!AnswerReady(query[u])
    PROVE  SInv' /\ Served
<1> USE DEF Client!Go, Client!Forget, Client!guards, Client!endpoints, Client!calls,
            Client!reception, Client!topics, Client!NoQuery, NoQuery
<1>1. /\ at[u] \in {"woken", "receiving"} /\ Obtains(u)
      /\ UNCHANGED <<requests, replies, has_answer, listener, inbox, written>>
      /\ \E state : at' = [at EXCEPT ![u] = state] /\ state \notin {"woken"}
      /\ \/ query' = [query EXCEPT ![u] = NoQuery]
         \/ query' = query /\ at' = [at EXCEPT ![u] = "undefined"]
      /\ cause' = cause \/ cause' = [cause EXCEPT ![u] = "none"]
  BY DEF Client!ReturnAnswer, Client!Receive, Obtains, SInv, Shapes
<1>2. query[u] \in has_answer
  BY DEF Client!ReturnAnswer, Client!Receive, Client!AnswerReady, SInv, WokenWithAnswer
<1> DEFINE q == query[u].number
<1>3. q \in Numbers /\ answers[q] = 1 /\ results[q] = 0
  <2>1. q \in Numbers /\ answers[q] = 1
    BY <1>2 DEF SInv, Answered, Given
  <2>2. results[q] \in {0, 1}
    BY <2>1 DEF SInv, Shapes
  <2>3. results[q] # 1
    BY <1>1, <2>1 DEF SInv, Holders
  <2> QED  BY <2>1, <2>2, <2>3
<1>4. \A v \in Users : v # u => at'[v] = at[v] /\ ~Obtains(v)
  BY <1>1, ObtainsMoves DEF SInv, Shapes
<1>5. results' = [results EXCEPT ![q] = 1]
  BY <1>1, <1>3, <1>4, OneObtains DEF SInv
<1>6. UNCHANGED <<upcall, request_cache, answers>>
  BY DEF ServerIdles
<1>7. Shapes'
  BY <1>1, <1>5, <1>6 DEF SInv, Shapes
<1>8. Pending'
  BY <1>1, <1>6 DEF SInv, Pending, Known
<1>9. Answered'
  BY <1>1, <1>6 DEF SInv, Answered, Given
<1>10. Unused'
  <2>1. q <= written
    BY DEF SInv, Holders
  <2>2. \A n \in Numbers : n > written => n # q
    BY <1>3, <2>1, QueryBounds DEF Numbers, SInv, Shapes
  <2> QED  BY <1>1, <1>5, <1>6, <2>2 DEF SInv, Shapes, Unused
<1>11. Holders'
  <2>1. \A v \in Users : v # u => query'[v] = query[v] /\ query[v].number # q
    <3>1. q # 0
      BY <1>3, QueryBounds DEF Numbers
    <3> QED  BY <1>1, <3>1 DEF SInv, Shapes, Holders
  <2>2. query'[u] = NoQuery \/ (query'[u] = query[u] /\ at'[u] = "undefined")
    BY <1>1 DEF SInv, Shapes
  <2>3. NoQuery.number = 0 /\ 0 \notin Numbers /\ 0 \in 0 .. written
    BY QueryBounds DEF Numbers, SInv, Shapes
  <2>4. \A v \in Users : query'[v].number \in 0 .. written'
    BY <1>1, <2>1, <2>2, <2>3 DEF SInv, Holders
  <2>5. \A v, w \in Users :
          v # w /\ query'[v].number = query'[w].number => query'[v].number = 0
    BY <2>1, <2>2, <2>3 DEF SInv, Holders
  <2>6. ASSUME NEW v \in Users, query'[v].number \in Numbers, results'[query'[v].number] = 1
        PROVE  at'[v] = "undefined"
    <3>1. CASE v = u
      BY <2>2, <2>3, <2>6, <3>1
    <3>2. CASE v # u
      <4>1. results'[query[v].number] = results[query[v].number]
        BY <1>5, <2>1, <2>6, <3>2 DEF SInv, Shapes
      <4> QED  BY <1>4, <2>1, <2>6, <3>2, <4>1 DEF SInv, Holders
    <3> QED  BY <3>1, <3>2
  <2> QED  BY <2>4, <2>5, <2>6 DEF Holders
<1>12. WokenWithAnswer'
  BY <1>1 DEF SInv, Shapes, WokenWithAnswer
<1>13. Service!Obtain(q)
  BY <1>1, <1>3, <1>5, <1>6 DEF Service!Obtain
<1>14. Served
  BY <1>3, <1>13 DEF Served, Service!Next, Service!Queries, Numbers
<1> QED  BY <1>7, <1>8, <1>9, <1>10, <1>11, <1>12, <1>14 DEF SInv

\* The listener moves answers towards the entries and makes none.
LEMMA ListenServes ==
    ASSUME SInv, CountsResults, ServerIdles, Client!Listen
    PROVE  SInv' /\ Served
<1>1. /\ UNCHANGED <<requests, written, at, query, cause>>
      /\ has_answer \subseteq has_answer'
      /\ listener' = [at |-> listener'.at, batch |-> listener'.batch]
      /\ Given' \subseteq Given
  <2> USE DEF Client!guards, Client!endpoints, Client!entries, Client!calls,
              Client!reception, Client!topics, Client!Quiet, Given
  <2>1. CASE Client!OnDataAvailable
    BY <2>1 DEF Client!OnDataAvailable, SInv, Shapes
  <2>2. CASE Client!OnLivelinessChanged
    BY <2>2 DEF Client!OnLivelinessChanged
  <2>3. CASE \E id \in replies : Client!ReplyArrives(id)
    BY <2>3 DEF Client!ReplyArrives, SInv, Shapes
  <2>4. CASE \E id \in listener.batch : Client!HandleAnswer(id)
    <3>1. PICK id \in listener.batch : Client!HandleAnswer(id)
      BY <2>4
    <3>2. listener' = [at |-> listener'.at, batch |-> listener'.batch]
      BY <3>1 DEF Client!HandleAnswer, SInv, Shapes
    <3>3. listener'.batch \subseteq listener.batch
      BY <3>1 DEF Client!HandleAnswer, SInv, Shapes
    <3> QED  BY <3>1, <3>2, <3>3 DEF Client!HandleAnswer
  <2> QED  BY <2>1, <2>2, <2>3, <2>4 DEF Client!Listen
<1>2. results' = results
  <2>1. \A v \in Users : ~Obtains(v)
    BY <1>1, ObtainsMoves
  <2> QED  BY <2>1, NobodyObtains DEF SInv
<1>3. Shapes'
  BY <1>1, <1>2 DEF SInv, Shapes, ServerIdles
<1>4. WokenWithAnswer'
  BY <1>1 DEF SInv, WokenWithAnswer
<1> QED  BY <1>1, <1>2, <1>3, <1>4, KeepsSInv DEF ServerIdles

LEMMA ClientServes ==
    ASSUME SInv, ClientStep
    PROVE  SInv' /\ Served
<1>1. CountsResults /\ ServerIdles
  BY DEF ClientStep, CountsResults, Counted, ServerIdles, serverState
<1>2. CASE Client!Listen
  BY <1>1, <1>2, ListenServes
<1>3. ASSUME NEW u \in Users, Client!Call(u) \/ Client!Proceed(u) \/ Client!WaitTimesOut(u)
      PROVE  SInv' /\ Served
  <2>1. CASE Client!Call(u) \/ Inside(u)
    BY <1>1, <2>1, QuietServes
  <2>2. CASE Client!Wake(u)
    BY <1>1, <2>2, WakeServes
  <2>3. CASE Client!WriteRequest(u)
    BY <1>1, <2>3, WriteServes
  <2>4. CASE \/ Client!ReturnAnswer(u)
             \/ Client!Receive(u) /\ Client!AnswerReady(query[u])
    <3>1. Client!ReturnAnswer(u) => cause[u] = "result"
      BY DEF Client!ReturnAnswer
    <3> QED  BY <1>1, <2>4, <3>1, ObtainServes
  <2> QED  BY <1>3, <2>1, <2>2, <2>3, <2>4 DEF Client!Proceed, Inside
<1> QED  BY <1>2, <1>3 DEF ClientStep, Client!ClientNext

-----------------------------------------------------------------------------
\* The server moves requests from the topic to the batch of an upcall and to its cache.
Apart ==
    /\ requests \cap upcall.batch = {}
    /\ request_cache \cap (requests \cup upcall.batch) = {}

LEMMA MovesServes ==
    ASSUME SInv, Known' \subseteq Known, Apart',
           UNCHANGED <<replies, inbox, has_answer, written, at, query, cause, history>>,
           listener' = [at |-> listener'.at, batch |-> listener'.batch],
           listener'.batch \subseteq listener.batch,
           upcall' = [at |-> upcall'.at, session |-> upcall'.session, batch |-> upcall'.batch]
    PROVE  SInv' /\ Served
<1>1. UNCHANGED <<answers, results>>
  BY DEF history
<1>2. Shapes' /\ Unused' /\ Holders' /\ WokenWithAnswer'
  BY <1>1 DEF SInv, Shapes, Unused, Holders, WokenWithAnswer
<1>3. Pending'
  BY <1>1 DEF SInv, Pending, Apart
<1>4. Answered'
  BY <1>1 DEF SInv, Answered, Given
<1>5. UNCHANGED Service!vars
  BY <1>1 DEF Service!vars
<1> QED  BY <1>2, <1>3, <1>4, <1>5 DEF SInv, Served

LEMMA ServerServes ==
    ASSUME SInv, ServerStep
    PROVE  SInv' /\ Served
<1>1. /\ UNCHANGED <<inbox, has_answer, written, at, query, cause, history, listener>>
      /\ listener' = [at |-> listener'.at, batch |-> listener'.batch]
      /\ listener'.batch \subseteq listener.batch
  BY DEF ServerStep, clientState, SInv, Shapes
<1>2. Apart
  BY DEF SInv, Pending, Apart
<1> DEFINE Moved == /\ replies' = replies /\ Known' \subseteq Known /\ Apart'
                    /\ upcall' = [at |-> upcall'.at, session |-> upcall'.session,
                                  batch |-> upcall'.batch]
<1> USE DEF Known, Apart, Server!Quiet, Server!topics
<1>3. CASE \E s \in Server!Sessions : Server!OnLivelinessChanged(s)
  <2>1. Moved
    BY <1>2, <1>3 DEF Server!OnLivelinessChanged
  <2> QED  BY <1>1, <2>1, MovesServes
<1>4. CASE Server!UpdateClients
  <2>1. Moved
    BY <1>2, <1>4 DEF Server!UpdateClients
  <2> QED  BY <1>1, <2>1, MovesServes
<1>5. CASE Server!OnDataAvailable
  <2>1. PICK arrived \in SUBSET requests :
           /\ requests' = requests \ arrived
           /\ upcall' = [at |-> "data", session |-> 0, batch |-> arrived]
           /\ UNCHANGED <<request_cache, replies>>
    BY <1>5 DEF Server!OnDataAvailable
  <2>2. Moved
    BY <1>2, <2>1
  <2> QED  BY <1>1, <2>2, MovesServes
<1>6. CASE Server!HandlerReturned
  <2>1. Moved
    BY <1>2, <1>6 DEF Server!HandlerReturned, SInv, Shapes
  <2> QED  BY <1>1, <2>1, MovesServes
<1>7. CASE \E id \in upcall.batch : Server!StoreRequest(id)
  <2>1. PICK id \in upcall.batch : Server!StoreRequest(id)
    BY <1>7
  <2>2. /\ upcall' = [at |-> "handling", session |-> upcall.session,
                      batch |-> upcall.batch \ {id}]
        /\ request_cache' = request_cache \cup {id}
        /\ UNCHANGED <<requests, replies>>
    BY <2>1 DEF Server!StoreRequest, SInv, Shapes
  <2>3. Moved
    BY <1>2, <2>2
  <2> QED  BY <1>1, <2>3, MovesServes
<1>8. CASE \E w \in Workers :
              Server!RefuseAnswer(w) \/ \E id \in handed : Server!BeginAnswer(w, id)
  <2>1. Moved
    BY <1>2, <1>8 DEF Server!RefuseAnswer, Server!BeginAnswer, SInv, Shapes
  <2> QED  BY <1>1, <2>1, MovesServes
<1>9. CASE Server!BeginShutdown \/ Server!ClearServer
  <2>1. Moved
    BY <1>2, <1>9 DEF Server!BeginShutdown, Server!ClearServer, SInv, Shapes
  <2> QED  BY <1>1, <2>1, MovesServes
<1> QED  BY <1>3, <1>4, <1>5, <1>6, <1>7, <1>8, <1>9 DEF ServerStep, Server!Upcall

LEMMA GoesServes ==
    ASSUME SInv, ServerGoes
    PROVE  SInv' /\ Served
<1>1. /\ UNCHANGED <<replies, inbox, has_answer, written, at, query, cause, history>>
      /\ upcall' = upcall /\ request_cache' = request_cache /\ requests' = {}
  BY DEF ServerGoes, Server!DetachServer, clientState
<1>2. /\ listener' = [at |-> listener'.at, batch |-> listener'.batch]
      /\ listener'.batch \subseteq listener.batch
  BY DEF ServerGoes, Client!TellListener, SInv, Shapes
<1>3. Known' \subseteq Known /\ Apart'
  BY <1>1 DEF Known, Apart, SInv, Pending
<1>4. upcall' = [at |-> upcall'.at, session |-> upcall'.session, batch |-> upcall'.batch]
  BY <1>1 DEF SInv, Shapes
<1> QED  BY <1>1, <1>2, <1>3, <1>4, MovesServes

\* An answered request leaves the cache, and it was nowhere else.
LEMMA AnswerServes ==
    ASSUME SInv, ServerAnswers
    PROVE  SInv' /\ Served
<1>1. PICK w \in Workers :
        /\ Server!WriteAnswer(w)
        /\ answers' = [answers EXCEPT ![answering[w].number] = @ + 1]
        /\ UNCHANGED <<clientState, listener, results>>
  BY DEF ServerAnswers
<1> DEFINE id == answering[w]
           q == id.number
<1>2. /\ id \in request_cache
      /\ replies' = replies \cup {id} /\ request_cache' = request_cache \ {id}
      /\ UNCHANGED <<upcall, requests>>
  BY <1>1 DEF Server!WriteAnswer, Server!Answerable, Server!EntryErased
<1>3. UNCHANGED <<inbox, has_answer, written, at, query, cause, listener, results>>
  BY <1>1 DEF clientState
<1>4. id \in Known /\ q \in Numbers /\ q <= written /\ answers[q] = 0
  BY <1>2 DEF SInv, Pending, Known
<1>5. answers' = [answers EXCEPT ![q] = 1]
  BY <1>1, <1>4
<1> HIDE DEF id
<1>6. Known' \subseteq Known /\ id \notin Known' /\ Apart'
  BY <1>2 DEF SInv, Pending, Known, Apart
<1>7. \A other \in Known' : other.number # q
  BY <1>4, <1>6 DEF SInv, Pending
<1>8. Shapes'
  BY <1>2, <1>3, <1>4, <1>5 DEF SInv, Shapes
<1>9. Pending'
  <2>1. \A other \in Known' : answers'[other.number] = answers[other.number]
    BY <1>5, <1>6, <1>7 DEF SInv, Shapes, Pending
  <2> QED  BY <1>3, <1>6, <2>1 DEF SInv, Pending, Apart
<1>10. Answered'
  <2>1. Given' = Given \cup {id}
    BY <1>2, <1>3 DEF Given
  <2>2. \A n \in Numbers : answers[n] = 1 => answers'[n] = 1
    BY <1>4, <1>5 DEF SInv, Shapes
  <2>3. answers'[q] = 1
    BY <1>4, <1>5 DEF SInv, Shapes
  <2> QED  BY <1>4, <2>1, <2>2, <2>3 DEF SInv, Answered
<1>11. Unused'
  <2>1. \A n \in Numbers : n > written => n # q
    BY <1>4, QueryBounds DEF Numbers, SInv, Shapes
  <2> QED  BY <1>3, <1>5, <2>1 DEF SInv, Shapes, Unused
<1>12. Holders' /\ WokenWithAnswer'
  BY <1>3 DEF SInv, Holders, WokenWithAnswer
<1>13. q \in 1 .. written
  BY <1>4, QueryBounds DEF Numbers, SInv, Shapes
<1>14. Service!Answer(q)
  BY <1>3, <1>4, <1>5, <1>13 DEF Service!Answer
<1>15. Served
  BY <1>4, <1>14 DEF Served, Service!Next, Service!Queries, Numbers
<1> QED  BY <1>8, <1>9, <1>10, <1>11, <1>12, <1>15 DEF SInv

-----------------------------------------------------------------------------
LEMMA NextServes ==
    ASSUME SInv, [Next]_vars
    PROVE  SInv' /\ Served
<1>1. CASE UNCHANGED vars
  <2>1. /\ Known' = Known /\ Apart'
        /\ UNCHANGED <<replies, inbox, has_answer, written, at, query, cause, history>>
        /\ listener' = listener /\ upcall' = upcall
    BY <1>1 DEF vars, clientState, serverState, topics, Known, Apart, SInv, Pending
  <2>2. /\ listener' = [at |-> listener'.at, batch |-> listener'.batch]
        /\ upcall' = [at |-> upcall'.at, session |-> upcall'.session, batch |-> upcall'.batch]
    BY <2>1 DEF SInv, Shapes
  <2> QED  BY <2>1, <2>2, MovesServes
<1> QED  BY <1>1, ClientServes, ServerServes, GoesServes, AnswerServes DEF Next

\* Every answer a caller obtains was written by the server for its request, once, and no
\* answer is obtained twice, through reconnects, refused answers and the disconnect of the
\* server.
THEOREM QueryServiceIsImplemented == Spec => ImplementsService
<1>1. Init => SInv /\ Service!Init
  BY InitSInv
<1>2. SInv /\ [Next]_vars => SInv' /\ Served
  BY NextServes
<1> QED  BY <1>1, <1>2, PTL DEF Spec, ImplementsService, Service!Spec, Served

-----------------------------------------------------------------------------
\* Each component meets, in the composition, the environment its own module supposes. To
\* the client a request waits for its answer wherever the server has it, or dropped it;
\* the server goes once. To the server an answer given stays given.
Unanswered == IF server_up THEN {id \in sent : answers[id.number] = 0} ELSE {}
AllAnswers == {id \in sent : answers[id.number] = 1}
Outages == IF server_up THEN 0 ELSE 1

ClientPart == INSTANCE QueryClientProofs WITH
    MaxOutages <- 1, outages <- Outages, requests <- Unanswered
ServerPart == INSTANCE QueryServerProofs WITH opened <- 1 .. sessions, replies <- AllAnswers

\* The requests written are told apart by their numbers; the server has some of them.
SentRequests ==
    /\ Known \subseteq sent
    /\ \A id \in sent : id.number \in Numbers /\ id.number <= written
    /\ \A id, other \in sent : id.number = other.number => id = other
    /\ ~server_up => requests = {}
    /\ server_up = (disconnecting # "done")

CInv == SInv /\ SentRequests

LEMMA InitCInv == Init => CInv /\ ClientPart!Init
<1> SUFFICES ASSUME Init PROVE CInv /\ ClientPart!Init  OBVIOUS
<1>1. SInv
  BY InitSInv
<1>2. SentRequests
  BY DEF Init, SentRequests, Known, Client!ClientInit, Server!ServerInit, TopicsInit,
         Server!Quiet
<1>3. ClientPart!ClientInit
  BY DEF Init, Client!ClientInit, ClientPart!ClientInit, Client!NoQuery, ClientPart!NoQuery,
         Client!Free, ClientPart!Free, Client!Quiet, ClientPart!Quiet
<1>4. ClientPart!TopicsInit /\ Outages = 0
  BY DEF Init, TopicsInit, ClientPart!TopicsInit, Unanswered, Outages
<1> QED  BY <1>1, <1>2, <1>3, <1>4 DEF CInv, ClientPart!Init

-----------------------------------------------------------------------------
\* The steps of the client but WriteRequest are the same steps of its module.
Stay == UNCHANGED <<Unanswered, Outages>>

LEMMA SameCalls ==
    ASSUME Stay, NEW u \in Users
    PROVE  /\ Client!Connect(u) => ClientPart!Connect(u)
           /\ Client!Disconnect(u) => ClientPart!Disconnect(u)
           /\ Client!QueryRequest(u) => ClientPart!QueryRequest(u)
           /\ Client!QueryReceive(u) => ClientPart!QueryReceive(u)
           /\ Client!QueryReceiveWait(u) => ClientPart!QueryReceiveWait(u)
           /\ Client!QueryDiscard(u) => ClientPart!QueryDiscard(u)
<1> USE DEF Stay, Client!guards, Client!endpoints, Client!entries, Client!calls,
            Client!reception, Client!topics, Client!Go, Client!Free, Client!NoQuery,
            ClientPart!guards, ClientPart!endpoints, ClientPart!entries, ClientPart!calls,
            ClientPart!reception, ClientPart!topics, ClientPart!Go, ClientPart!Free,
            ClientPart!NoQuery
<1>1. Client!Connect(u) => ClientPart!Connect(u)
  BY DEF Client!Connect, ClientPart!Connect
<1>2. Client!Disconnect(u) => ClientPart!Disconnect(u)
  BY DEF Client!Disconnect, ClientPart!Disconnect
<1>3. Client!QueryRequest(u) => ClientPart!QueryRequest(u)
  BY DEF Client!QueryRequest, ClientPart!QueryRequest
<1>4. Client!QueryReceive(u) => ClientPart!QueryReceive(u)
  BY DEF Client!QueryReceive, ClientPart!QueryReceive, Client!BeginReceive,
         ClientPart!BeginReceive, Client!Forget, ClientPart!Forget
<1>5. Client!QueryReceiveWait(u) => ClientPart!QueryReceiveWait(u)
  BY DEF Client!QueryReceiveWait, ClientPart!QueryReceiveWait, Client!BeginReceive,
         ClientPart!BeginReceive, Client!Forget, ClientPart!Forget
<1>6. Client!QueryDiscard(u) => ClientPart!QueryDiscard(u)
  BY DEF Client!QueryDiscard, ClientPart!QueryDiscard, Client!Forget, ClientPart!Forget
<1> QED  BY <1>1, <1>2, <1>3, <1>4, <1>5, <1>6

LEMMA SameConnection ==
    ASSUME Stay, NEW u \in Users
    PROVE  /\ Client!ClearQueries(u) => ClientPart!ClearQueries(u)
           /\ Client!CloseEndpoints(u) => ClientPart!CloseEndpoints(u)
           /\ Client!CloseDone(u) => ClientPart!CloseDone(u)
           /\ Client!CreateWriter(u) => ClientPart!CreateWriter(u)
           /\ Client!WriterMatched(u) => ClientPart!WriterMatched(u)
           /\ Client!AttachReader(u) => ClientPart!AttachReader(u)
           /\ Client!Connected(u) => ClientPart!Connected(u)
           /\ Client!ConnectFails(u) => ClientPart!ConnectFails(u)
<1> USE DEF Stay, Client!guards, Client!endpoints, Client!entries, Client!calls,
            Client!reception, Client!topics, Client!Go, Client!Free, Client!NoQuery,
            ClientPart!guards, ClientPart!endpoints, ClientPart!entries, ClientPart!calls,
            ClientPart!reception, ClientPart!topics, ClientPart!Go, ClientPart!Free,
            ClientPart!NoQuery
<1>1. Client!ClearQueries(u) => ClientPart!ClearQueries(u)
  BY DEF Client!ClearQueries, ClientPart!ClearQueries, Client!ClearEntries,
         ClientPart!ClearEntries
<1>2. Client!CloseEndpoints(u) => ClientPart!CloseEndpoints(u)
  BY DEF Client!CloseEndpoints, ClientPart!CloseEndpoints, Client!MutexAvailable,
         ClientPart!MutexAvailable, Client!Quiet, ClientPart!Quiet
<1>3. Client!CloseDone(u) => ClientPart!CloseDone(u)
  BY DEF Client!CloseDone, ClientPart!CloseDone, Client!GuardSetAgain, ClientPart!GuardSetAgain
<1>4. Client!CreateWriter(u) => ClientPart!CreateWriter(u)
  BY DEF Client!CreateWriter, ClientPart!CreateWriter
<1>5. Client!WriterMatched(u) => ClientPart!WriterMatched(u)
  BY DEF Client!WriterMatched, ClientPart!WriterMatched
<1>6. Client!AttachReader(u) => ClientPart!AttachReader(u)
  BY DEF Client!AttachReader, ClientPart!AttachReader
<1>7. Client!Connected(u) => ClientPart!Connected(u)
  BY DEF Client!Connected, ClientPart!Connected
<1>8. Client!ConnectFails(u) => ClientPart!ConnectFails(u)
  BY DEF Client!ConnectFails, ClientPart!ConnectFails
<1> QED  BY <1>1, <1>2, <1>3, <1>4, <1>5, <1>6, <1>7, <1>8

LEMMA SameReceive ==
    ASSUME Stay, NEW u \in Users
    PROVE  /\ Client!WriteFails(u) => ClientPart!WriteFails(u)
           /\ Client!RegisterQuery(u) => ClientPart!RegisterQuery(u)
           /\ Client!WrongId(u) => ClientPart!WrongId(u)
           /\ Client!Receive(u) => ClientPart!Receive(u)
           /\ Client!StartWait(u) => ClientPart!StartWait(u)
           /\ Client!Wake(u) => ClientPart!Wake(u)
           /\ Client!WaitTimesOut(u) => ClientPart!WaitTimesOut(u)
           /\ Client!ReturnDisconnected(u) => ClientPart!ReturnDisconnected(u)
           /\ Client!ReturnCancelled(u) => ClientPart!ReturnCancelled(u)
           /\ Client!ReturnAnswer(u) => ClientPart!ReturnAnswer(u)
<1> USE DEF Stay, Client!guards, Client!endpoints, Client!entries, Client!calls,
            Client!reception, Client!topics, Client!Go, Client!Free, Client!NoQuery,
            ClientPart!guards, ClientPart!endpoints, ClientPart!entries, ClientPart!calls,
            ClientPart!reception, ClientPart!topics, ClientPart!Go, ClientPart!Free,
            ClientPart!NoQuery
<1>1. Client!WriteFails(u) => ClientPart!WriteFails(u)
  BY DEF Client!WriteFails, ClientPart!WriteFails
<1>2. Client!RegisterQuery(u) => ClientPart!RegisterQuery(u)
  BY DEF Client!RegisterQuery, ClientPart!RegisterQuery
<1>3. Client!WrongId(u) => ClientPart!WrongId(u)
  BY DEF Client!WrongId, ClientPart!WrongId, Client!Forget, ClientPart!Forget
<1>4. Client!Receive(u) => ClientPart!Receive(u)
  BY DEF Client!Receive, ClientPart!Receive, Client!Forget, ClientPart!Forget,
         Client!AnswerReady, ClientPart!AnswerReady
<1>5. Client!StartWait(u) => ClientPart!StartWait(u)
  BY DEF Client!StartWait, ClientPart!StartWait
<1>6. Client!Wake(u) => ClientPart!Wake(u)
  BY DEF Client!Wake, ClientPart!Wake, Client!Active, ClientPart!Active, Client!Causes,
         ClientPart!Causes
<1>7. Client!WaitTimesOut(u) => ClientPart!WaitTimesOut(u)
  BY DEF Client!WaitTimesOut, ClientPart!WaitTimesOut, Client!Active, ClientPart!Active,
         Client!Causes, ClientPart!Causes
<1>8. Client!ReturnDisconnected(u) => ClientPart!ReturnDisconnected(u)
  BY DEF Client!ReturnDisconnected, ClientPart!ReturnDisconnected, Client!Forget,
         ClientPart!Forget
<1>9. Client!ReturnCancelled(u) => ClientPart!ReturnCancelled(u)
  BY DEF Client!ReturnCancelled, ClientPart!ReturnCancelled
<1>10. Client!ReturnAnswer(u) => ClientPart!ReturnAnswer(u)
  BY DEF Client!ReturnAnswer, ClientPart!ReturnAnswer, Client!Forget, ClientPart!Forget
<1> QED  BY <1>1, <1>2, <1>3, <1>4, <1>5, <1>6, <1>7, <1>8, <1>9, <1>10

LEMMA SameListener ==
    ASSUME Stay, Client!Listen
    PROVE  ClientPart!Listen
<1> USE DEF Stay, Client!guards, Client!endpoints, Client!entries, Client!calls,
            Client!reception, Client!topics, Client!Go, Client!Free, Client!NoQuery,
            ClientPart!guards, ClientPart!endpoints, ClientPart!entries, ClientPart!calls,
            ClientPart!reception, ClientPart!topics, ClientPart!Go, ClientPart!Free,
            ClientPart!NoQuery
<1> USE DEF Client!Quiet, ClientPart!Quiet
<1>1. CASE Client!OnDataAvailable
  BY <1>1 DEF Client!OnDataAvailable, ClientPart!OnDataAvailable, ClientPart!Listen
<1>2. CASE Client!OnLivelinessChanged
  BY <1>2 DEF Client!OnLivelinessChanged, ClientPart!OnLivelinessChanged, ClientPart!Listen
<1>3. CASE \E id \in replies : Client!ReplyArrives(id)
  BY <1>3 DEF Client!ReplyArrives, ClientPart!ReplyArrives, ClientPart!Listen
<1>4. CASE \E id \in listener.batch : Client!HandleAnswer(id)
  BY <1>4 DEF Client!HandleAnswer, ClientPart!HandleAnswer, ClientPart!Listen
<1> QED  BY <1>1, <1>2, <1>3, <1>4 DEF Client!Listen

LEMMA SameBlocking ==
    ASSUME Stay, NEW u \in Users, NEW blocking \in BOOLEAN, Client!Blocking(u, blocking)
    PROVE  ClientPart!Blocking(u, blocking)
<1> USE DEF Stay, Client!guards, Client!endpoints, Client!entries, Client!calls,
            Client!reception, Client!topics, Client!Go, Client!Free, Client!NoQuery,
            ClientPart!guards, ClientPart!endpoints, ClientPart!entries, ClientPart!calls,
            ClientPart!reception, ClientPart!topics, ClientPart!Go, ClientPart!Free,
            ClientPart!NoQuery
<1> QED  BY DEF Client!Blocking, ClientPart!Blocking

-----------------------------------------------------------------------------
\* What those steps leave alone.
LEMMA CallsStay ==
    ASSUME NEW u \in Users, Client!Call(u)
    PROVE  UNCHANGED <<requests, request_writers, server_up, sessions, writer, written>>
<1> USE DEF Client!topics, Client!endpoints
<1>1. CASE Client!Connect(u) \/ Client!Disconnect(u) \/ Client!QueryRequest(u)
  BY <1>1 DEF Client!Connect, Client!Disconnect, Client!QueryRequest
<1>2. CASE Client!QueryReceive(u) \/ Client!QueryReceiveWait(u) \/ Client!QueryDiscard(u)
  BY <1>2 DEF Client!QueryReceive, Client!QueryReceiveWait, Client!BeginReceive,
              Client!QueryDiscard
<1>3. CASE \E blocking \in BOOLEAN : Client!Blocking(u, blocking)
  BY <1>3 DEF Client!Blocking
<1> QED  BY <1>1, <1>2, <1>3 DEF Client!Call

\* The steps of a thread in a call that change no end point and write no request.
Receives(u) ==
    \/ Client!WriteFails(u) \/ Client!RegisterQuery(u) \/ Client!WrongId(u)
    \/ Client!Receive(u) \/ Client!StartWait(u) \/ Client!Wake(u)
    \/ Client!WaitTimesOut(u) \/ Client!ReturnDisconnected(u)
    \/ Client!ReturnCancelled(u) \/ Client!ReturnAnswer(u)
    \/ Client!ClearQueries(u) \/ Client!CloseDone(u)
    \/ Client!WriterMatched(u) \/ Client!AttachReader(u) \/ Client!Connected(u)

LEMMA ReceivesStay ==
    ASSUME NEW u \in Users, Receives(u)
    PROVE  UNCHANGED <<requests, request_writers, server_up, sessions, writer, written>>
<1> USE DEF Client!topics, Client!endpoints
<1>1. CASE Client!WriteFails(u) \/ Client!RegisterQuery(u) \/ Client!WrongId(u)
           \/ Client!Receive(u)
  BY <1>1 DEF Client!WriteFails, Client!RegisterQuery, Client!WrongId, Client!Receive
<1>2. CASE Client!StartWait(u) \/ Client!Wake(u) \/ Client!WaitTimesOut(u)
  BY <1>2 DEF Client!StartWait, Client!Wake, Client!WaitTimesOut
<1>3. CASE \/ Client!ReturnDisconnected(u) \/ Client!ReturnCancelled(u)
           \/ Client!ReturnAnswer(u)
  BY <1>3 DEF Client!ReturnDisconnected, Client!ReturnCancelled, Client!ReturnAnswer
<1>4. CASE Client!ClearQueries(u) \/ Client!CloseDone(u)
  BY <1>4 DEF Client!ClearQueries, Client!CloseDone
<1>5. CASE \/ Client!WriterMatched(u) \/ Client!AttachReader(u) \/ Client!Connected(u)
  BY <1>5 DEF Client!WriterMatched, Client!AttachReader, Client!Connected
<1> QED  BY <1>1, <1>2, <1>3, <1>4, <1>5 DEF Receives

Opens(u) == Client!CloseEndpoints(u) \/ Client!CreateWriter(u) \/ Client!ConnectFails(u)

LEMMA OpensStay ==
    ASSUME NEW u \in Users, Opens(u)
    PROVE  UNCHANGED <<requests, server_up, written>>
BY DEF Opens, Client!CloseEndpoints, Client!CreateWriter, Client!ConnectFails

LEMMA ListensStay ==
    ASSUME Client!Listen
    PROVE  UNCHANGED <<requests, request_writers, server_up, sessions, writer, written>>
<1> USE DEF Client!topics, Client!endpoints
<1>1. CASE Client!OnDataAvailable \/ Client!OnLivelinessChanged
  BY <1>1 DEF Client!OnDataAvailable, Client!OnLivelinessChanged
<1>2. CASE \E id \in replies : Client!ReplyArrives(id)
  BY <1>2 DEF Client!ReplyArrives
<1>3. CASE \E id \in listener.batch : Client!HandleAnswer(id)
  BY <1>3 DEF Client!HandleAnswer
<1> QED  BY <1>1, <1>2, <1>3 DEF Client!Listen

\* Without a new request the history of requests stays, and so does what the parts see.
LEMMA NothingSent ==
    ASSUME CInv, ClientStep, UNCHANGED <<requests, server_up, written>>
    PROVE  /\ sent' = sent /\ answers' = answers
           /\ Stay /\ AllAnswers' = AllAnswers /\ SentRequests'
<1>1. sent' = sent /\ answers' = answers
  BY DEF ClientStep, CInv, SentRequests, Known
<1>2. Stay /\ AllAnswers' = AllAnswers
  BY <1>1 DEF Stay, Unanswered, AllAnswers, Outages
<1>3. Known' = Known
  BY DEF ClientStep, serverState, Known
<1>4. disconnecting' = disconnecting
  BY DEF ClientStep, serverState
<1> QED  BY <1>1, <1>2, <1>3, <1>4 DEF CInv, SentRequests

\* A request written while the server is there is new to both parts.
LEMMA RequestSent ==
    ASSUME CInv, ClientStep, NEW u \in Users, Client!WriteRequest(u)
    PROVE  LET id == [session |-> writer, number |-> written + 1] IN
           /\ written < MaxQueries /\ writer # 0
           /\ \A other \in sent : other.number < id.number
           /\ UNCHANGED <<server_up, request_writers, sessions, writer, replies>>
           /\ requests' = IF server_up THEN requests \cup {id} ELSE requests
           /\ sent' = IF server_up THEN sent \cup {id} ELSE sent
           /\ Unanswered' = IF server_up THEN Unanswered \cup {id} ELSE Unanswered
           /\ UNCHANGED <<Outages, AllAnswers>> /\ SentRequests'
<1> DEFINE id == [session |-> writer, number |-> written + 1]
<1>1. /\ written < MaxQueries /\ written' = written + 1 /\ writer # 0
      /\ requests' = IF server_up THEN requests \cup {id} ELSE requests
      /\ UNCHANGED <<server_up, request_writers, sessions, writer, replies>>
  BY DEF Client!WriteRequest, Client!WriterExists
<1>2. answers' = answers /\ sent' = sent \cup requests'
      /\ UNCHANGED <<upcall, request_cache, disconnecting>>
  BY DEF ClientStep, serverState
<1>3. id.number \in Numbers /\ id.number = written + 1 /\ written \in Nat
  BY <1>1, QueryBounds DEF CInv, SInv, Shapes, Numbers
<1>4. answers[id.number] = 0
  BY <1>3 DEF CInv, SInv, Unused
<1>5. \A other \in sent : other.number < id.number /\ other.number <= written'
  BY <1>1, <1>3, QueryBounds DEF CInv, SentRequests, Numbers
<1> HIDE DEF id
<1>6. sent' = IF server_up THEN sent \cup {id} ELSE sent
  BY <1>1, <1>2 DEF CInv, SentRequests, Known
<1>7. Unanswered' = IF server_up THEN Unanswered \cup {id} ELSE Unanswered
  BY <1>1, <1>2, <1>4, <1>6 DEF Unanswered
<1>8. AllAnswers' = AllAnswers
  BY <1>2, <1>4, <1>6 DEF AllAnswers
<1>9. Outages' = Outages
  BY <1>1 DEF Outages
<1>10. SentRequests'
  <2>1. Known' \subseteq sent'
    BY <1>1, <1>2, <1>6 DEF CInv, SentRequests, Known
  <2>2. \A i \in sent' : i.number \in Numbers /\ i.number <= written'
    BY <1>1, <1>3, <1>5, <1>6 DEF CInv, SentRequests
  <2>3. \A i, other \in sent' : i.number = other.number => i = other
    <3>1. \A other \in sent : other.number # id.number
      BY <1>3, <1>5, QueryBounds DEF CInv, SentRequests, Numbers
    <3> QED  BY <1>6, <3>1 DEF CInv, SentRequests
  <2> QED  BY <1>1, <1>2, <2>1, <2>2, <2>3 DEF CInv, SentRequests
<1> QED  BY <1>1, <1>5, <1>6, <1>7, <1>8, <1>9, <1>10 DEF id

-----------------------------------------------------------------------------
\* A step of the composition is one of the client's module, its environment's included.
ClientPartStep == [ClientPart!Next]_(ClientPart!vars)

LEMMA ClientStepConforms ==
    ASSUME CInv, ClientStep
    PROVE  ClientPart!Next /\ SentRequests'
<1>1. CASE Client!Listen
  <2>1. Stay /\ SentRequests'
    BY <1>1, ListensStay, NothingSent
  <2> QED  BY <1>1, <2>1, SameListener DEF ClientPart!Next, ClientPart!ClientNext
<1>2. ASSUME NEW u \in Users, Client!Call(u)
      PROVE  ClientPart!Call(u) /\ SentRequests'
  <2>1. Stay /\ SentRequests'
    BY <1>2, CallsStay, NothingSent
  <2> QED
    BY <1>2, <2>1, SameCalls, SameBlocking DEF Client!Call, ClientPart!Call
<1>3. ASSUME NEW u \in Users, Receives(u) \/ Opens(u)
      PROVE  (ClientPart!Proceed(u) \/ ClientPart!WaitTimesOut(u)) /\ SentRequests'
  <2>1. Stay /\ SentRequests'
    BY <1>3, ReceivesStay, OpensStay, NothingSent
  <2> QED
    BY <1>3, <2>1, SameConnection, SameReceive DEF Receives, Opens, ClientPart!Proceed
<1>4. ASSUME NEW u \in Users, Client!WriteRequest(u)
      PROVE  ClientPart!WriteRequest(u) /\ SentRequests'
  <2> DEFINE id == [session |-> writer, number |-> written + 1]
  <2>1. /\ Unanswered' = IF server_up THEN Unanswered \cup {id} ELSE Unanswered
        /\ Outages' = Outages /\ SentRequests'
    BY <1>4, RequestSent
  <2> QED
    BY <1>4, <2>1
    DEF Client!WriteRequest, ClientPart!WriteRequest, Client!WriterExists,
        ClientPart!WriterExists, Client!Free, ClientPart!Free, Client!Go, ClientPart!Go,
        Client!guards, ClientPart!guards, Client!reception, ClientPart!reception,
        Client!entries, ClientPart!entries
<1>5. \A u \in Users : Client!Proceed(u) \/ Client!WaitTimesOut(u)
                          => Receives(u) \/ Opens(u) \/ Client!WriteRequest(u)
  BY DEF Client!Proceed, Receives, Opens
<1>6. CASE \E u \in Users : Client!Call(u) \/ Client!Proceed(u) \/ Client!WaitTimesOut(u)
  BY <1>2, <1>3, <1>4, <1>5, <1>6 DEF ClientPart!Next, ClientPart!ClientNext, ClientPart!Proceed
<1> QED  BY <1>1, <1>6 DEF ClientStep, Client!ClientNext

\* The server moves its requests on or drops them; the history of requests stays.
LEMMA ServerMoves ==
    ASSUME CInv, ServerStep
    PROVE  /\ Known' \subseteq Known /\ requests' \subseteq requests
           /\ UNCHANGED <<replies, request_writers, server_up>>
           /\ (disconnecting = "done") = (disconnecting' = "done")
<1> USE DEF Known, Server!Quiet, Server!topics
<1>1. CASE \/ \E s \in Server!Sessions : Server!OnLivelinessChanged(s)
           \/ Server!UpdateClients \/ Server!OnDataAvailable
  BY <1>1 DEF Server!OnLivelinessChanged, Server!UpdateClients, Server!OnDataAvailable
<1>2. CASE Server!HandlerReturned
  BY <1>2 DEF Server!HandlerReturned, CInv, SInv, Shapes
<1>3. CASE \E id \in upcall.batch : Server!StoreRequest(id)
  <2>1. PICK id \in upcall.batch : Server!StoreRequest(id)
    BY <1>3
  <2>2. upcall'.batch = upcall.batch \ {id}
    BY <2>1 DEF Server!StoreRequest, CInv, SInv, Shapes
  <2> QED  BY <2>1, <2>2 DEF Server!StoreRequest
<1>4. CASE \E w \in Workers :
              Server!RefuseAnswer(w) \/ \E id \in handed : Server!BeginAnswer(w, id)
  BY <1>4 DEF Server!RefuseAnswer, Server!BeginAnswer
<1>5. CASE Server!BeginShutdown \/ Server!ClearServer
  BY <1>5 DEF Server!BeginShutdown, Server!ClearServer
<1> QED  BY <1>1, <1>2, <1>3, <1>4, <1>5 DEF ServerStep, Server!Upcall

LEMMA ServerStepConforms ==
    ASSUME CInv, ServerStep
    PROVE  /\ UNCHANGED <<ClientPart!vars, AllAnswers, sent, sessions>>
           /\ SentRequests'
<1>1. UNCHANGED <<clientState, listener, answers, sent>>
  BY DEF ServerStep, history
<1>2. Known' \subseteq Known /\ requests' \subseteq requests
      /\ UNCHANGED <<replies, request_writers, server_up>>
      /\ (disconnecting = "done") = (disconnecting' = "done")
  BY ServerMoves
<1>3. UNCHANGED <<Unanswered, Outages, AllAnswers>>
  BY <1>1, <1>2 DEF Unanswered, Outages, AllAnswers
<1>4. SentRequests'
  BY <1>1, <1>2 DEF CInv, SentRequests, clientState
<1> QED
  BY <1>1, <1>2, <1>3, <1>4
  DEF clientState, ClientPart!vars, ClientPart!clientVars, ClientPart!guards,
      ClientPart!endpoints, ClientPart!entries, ClientPart!calls, ClientPart!reception,
      ClientPart!topics

\* The answer of a request goes to the client, whatever other requests there are.
LEMMA AnswerConforms ==
    ASSUME CInv, NEW w \in Workers, Server!WriteAnswer(w),
           answers' = [answers EXCEPT ![answering[w].number] = @ + 1],
           UNCHANGED <<clientState, listener, results, sent>>
    PROVE  LET id == answering[w] IN
           /\ id \in Unanswered /\ Unanswered' = Unanswered \ {id}
           /\ AllAnswers' = AllAnswers \cup {id}
           /\ ClientPart!ServerAnswers(id) /\ SentRequests'
<1> DEFINE id == answering[w]
<1>1. /\ id \in request_cache /\ server_up
      /\ replies' = replies \cup {id} /\ request_cache' = request_cache \ {id}
      /\ UNCHANGED <<upcall, requests, request_writers, server_up>>
  BY DEF Server!WriteAnswer, Server!Answerable, Server!EntryErased
<1>2. id \in sent /\ id.number \in Numbers /\ answers[id.number] = 0
  BY <1>1 DEF CInv, SInv, Pending, SentRequests, Known
<1>3. answers' = [answers EXCEPT ![id.number] = 1]
  BY <1>2
<1> HIDE DEF id
<1>4. \A other \in sent :
         /\ other # id => answers'[other.number] = answers[other.number]
         /\ answers'[id.number] = 1
  BY <1>2, <1>3 DEF CInv, SInv, Shapes, SentRequests
<1>5. id \in Unanswered /\ Unanswered' = Unanswered \ {id}
  BY <1>1, <1>2, <1>4 DEF Unanswered
<1>6. AllAnswers' = AllAnswers \cup {id}
  BY <1>2, <1>4 DEF AllAnswers
<1>7. Outages' = Outages
  BY <1>1 DEF Outages
<1>8. UNCHANGED ClientPart!clientVars
  BY DEF clientState, ClientPart!clientVars, ClientPart!guards, ClientPart!endpoints,
         ClientPart!entries, ClientPart!calls, ClientPart!reception
<1>9. ClientPart!ServerAnswers(id)
  BY <1>1, <1>5, <1>7, <1>8 DEF ClientPart!ServerAnswers
<1>10. SentRequests'
  BY <1>1 DEF CInv, SentRequests, Known, clientState, Server!WriteAnswer
<1> QED  BY <1>5, <1>6, <1>9, <1>10 DEF id

LEMMA GoesConforms ==
    ASSUME CInv, ServerGoes
    PROVE  /\ ClientPart!ServerVanishes
           /\ UNCHANGED <<AllAnswers, sent, sessions>> /\ SentRequests'
<1>1. /\ UNCHANGED <<clientState, answers, sent, replies, request_writers, upcall, request_cache>>
      /\ server_up' = FALSE /\ requests' = {}
      /\ Client!TellListener("gone")
  BY DEF ServerGoes, Server!DetachServer, history
<1>2. AllAnswers' = AllAnswers /\ Unanswered' = {} /\ Outages' = 1
  BY <1>1 DEF AllAnswers, Unanswered, Outages
<1>3. SentRequests'
  BY <1>1 DEF CInv, SentRequests, Known, clientState, ServerGoes, Server!DetachServer
<1>4. ClientPart!TellListener("gone")
  BY <1>1 DEF Client!TellListener, ClientPart!TellListener, Client!Quiet, ClientPart!Quiet
<1>5. server_up /\ Outages = 0
  BY DEF ServerGoes, Server!DetachServer, Outages, CInv, SentRequests
<1>6. /\ UNCHANGED <<disconnected_guard, nonblocking_guard, connection_mutex, writer, reader,
                      sessions, answer_cache, has_answer, request_discarded, at, after,
                      query, cause, inbox, notified, written>>
  BY <1>1 DEF clientState
<1>7. ClientPart!ServerVanishes
  BY <1>1, <1>2, <1>4, <1>5, <1>6
  DEF ClientPart!ServerVanishes, ClientPart!guards, ClientPart!endpoints,
      ClientPart!entries, ClientPart!calls
<1> QED  BY <1>1, <1>2, <1>3, <1>6, <1>7

LEMMA NextCInv == CInv /\ [Next]_vars => CInv' /\ ClientPartStep
<1> SUFFICES ASSUME CInv, [Next]_vars PROVE CInv' /\ ClientPartStep
  OBVIOUS
<1>1. SInv'
  BY NextServes DEF CInv
<1>2. CASE ClientStep
  BY <1>1, <1>2, ClientStepConforms DEF CInv, ClientPartStep
<1>3. CASE ServerStep
  BY <1>1, <1>3, ServerStepConforms DEF CInv, ClientPartStep
<1>4. CASE ServerAnswers
  <2>1. PICK w \in Workers :
          /\ Server!WriteAnswer(w)
          /\ answers' = [answers EXCEPT ![answering[w].number] = @ + 1]
          /\ UNCHANGED <<clientState, listener, results, sent>>
    BY <1>4 DEF ServerAnswers
  <2>2. /\ answering[w] \in Unanswered /\ ClientPart!ServerAnswers(answering[w])
        /\ SentRequests'
    BY <2>1, AnswerConforms
  <2> QED
    BY <1>1, <2>2 DEF CInv, ClientPartStep, ClientPart!Next, ClientPart!RemoteNext
<1>5. CASE ServerGoes
  BY <1>1, <1>5, GoesConforms
  DEF CInv, ClientPartStep, ClientPart!Next, ClientPart!RemoteNext
<1>6. CASE UNCHANGED vars
  <2>1. UNCHANGED <<clientState, listener, requests, replies, request_writers, server_up,
                    upcall, request_cache, disconnecting, answers, sent>>
    BY <1>6 DEF vars, serverState, topics, history
  <2>2. SentRequests'
    BY <2>1 DEF CInv, SentRequests, Known, clientState
  <2>3. UNCHANGED <<Unanswered, Outages>>
    BY <2>1 DEF Unanswered, Outages
  <2>4. UNCHANGED ClientPart!vars
    BY <2>1, <2>3
    DEF clientState, ClientPart!vars, ClientPart!clientVars, ClientPart!guards,
        ClientPart!endpoints, ClientPart!entries, ClientPart!calls, ClientPart!reception,
        ClientPart!topics
  <2> QED  BY <1>1, <2>2, <2>4 DEF CInv, ClientPartStep
<1> QED  BY <1>2, <1>3, <1>4, <1>5, <1>6 DEF Next

LEMMA CInvariance == Spec => []CInv
<1> QED  BY InitCInv, NextCInv, PTL DEF Spec

\* The composition is a behaviour of the query client's module: what the server and the
\* topics do to the client is what that module supposes of them.
THEOREM ClientPartConforms == Spec => ClientPart!Spec
<1> QED  BY InitCInv, NextCInv, PTL DEF Spec, ClientPart!Spec, ClientPartStep

LEMMA ClientPartAssumptions ==
    ClientPart!QueryBounds /\ ClientPart!OutageBound /\ ClientPart!FreeIsNoUser
BY QueryBounds, FreeIsNoUser
DEF ClientPart!QueryBounds, ClientPart!OutageBound, ClientPart!FreeIsNoUser, Client!Free,
    ClientPart!Free

LEMMA ClientPartInvariance == Spec => []ClientPart!IInv
<1>1. ClientPart!Spec => []ClientPart!IInv
  BY ClientPartAssumptions, ClientPart!Invariance
<1> QED  BY <1>1, ClientPartConforms, PTL

\* So the client keeps in the composition what it keeps alone: connected means both end
\* points, a request is registered in the session it was written in, and nobody waits
\* for an entry that was removed.
THEOREM ClientKeepsItsPromises ==
    Spec => [](/\ Client!ConnectedHasEndpoints /\ Client!RegisteredInSession
               /\ Client!NoForgottenWaiter)
<1>1. /\ ClientPart!Spec => []ClientPart!ConnectedHasEndpoints
      /\ ClientPart!Spec => []ClientPart!RegisteredInSession
      /\ ClientPart!Spec => []ClientPart!NoForgottenWaiter
  BY ClientPartAssumptions, ClientPart!ConnectedMeansEndpoints,
     ClientPart!RegisteredInItsSession, ClientPart!NobodyIsForgotten
<1>2. /\ ClientPart!ConnectedHasEndpoints => Client!ConnectedHasEndpoints
      /\ ClientPart!RegisteredInSession => Client!RegisteredInSession
      /\ ClientPart!NoForgottenWaiter => Client!NoForgottenWaiter
  BY DEF ClientPart!ConnectedHasEndpoints, Client!ConnectedHasEndpoints,
         ClientPart!RegisteredInSession, Client!RegisteredInSession,
         ClientPart!NoForgottenWaiter, Client!NoForgottenWaiter, ClientPart!Free, Client!Free,
         ClientPart!Active, Client!Active, ClientPart!Causes, Client!Causes
<1> QED  BY <1>1, <1>2, ClientPartConforms, PTL

-----------------------------------------------------------------------------
\* To the server the client is a set of writers that come, write requests and go.
ServerPartStep == [ServerPart!Next]_(ServerPart!vars)

\* The client's writer is one of those the server may see.
WriterSeen == writer # 0 => writer \in request_writers

\* What the client's own invariant says of its sessions.
SessionsKnown ==
    /\ sessions \in 0 .. MaxSessions /\ writer \in 0 .. sessions
    /\ request_writers \subseteq 1 .. MaxSessions
    /\ \A u \in Users : at[u] = "opening" => sessions < MaxSessions

LEMMA ClientKnowsSessions == ClientPart!IInv => SessionsKnown
BY DEF ClientPart!IInv, ClientPart!TypeOK, ClientPart!TopicsTypeOK, ClientPart!Sessions,
       ClientPart!MayOpen, SessionsKnown

LEMMA ServerIdlesHere ==
    ASSUME ClientStep
    PROVE  UNCHANGED ServerPart!serverVars
BY DEF ClientStep, serverState, ServerPart!serverVars

LEMMA SameToServer ==
    ASSUME ClientStep, UNCHANGED <<requests, request_writers, server_up, sessions, sent,
                                   AllAnswers>>
    PROVE  UNCHANGED ServerPart!vars
BY ServerIdlesHere DEF ServerPart!vars, ServerPart!clients, ServerPart!topics

\* A writer that goes, if there is one, takes no request with it that is on its way.
LEMMA WriterLeaves ==
    ASSUME SessionsKnown, ClientStep,
           request_writers' = request_writers \ {writer},
           UNCHANGED <<requests, server_up, sessions, sent, AllAnswers>>
    PROVE  ServerPartStep
<1>1. CASE writer \in request_writers
  <2>1. writer \in ServerPart!Sessions
    BY <1>1 DEF SessionsKnown, ServerPart!Sessions
  <2>2. \E lost \in SUBSET {r \in requests : r.session = writer} : requests' = requests \ lost
    BY requests' = requests \ {}
  <2>3. ServerPart!ClientLeaves(writer)
    BY <1>1, <2>2, ServerIdlesHere DEF ServerPart!ClientLeaves, ServerPart!clients
  <2> QED
    BY <2>1, <2>3 DEF ServerPartStep, ServerPart!Next, ServerPart!ClientsNext
<1>2. CASE writer \notin request_writers
  <2>1. request_writers' = request_writers
    BY <1>2
  <2> QED  BY <2>1, SameToServer DEF ServerPartStep
<1> QED  BY <1>1, <1>2

LEMMA OpensSeen ==
    ASSUME CInv, SessionsKnown, WriterSeen, ClientStep, NEW u \in Users, Opens(u)
    PROVE  ServerPartStep /\ WriterSeen'
<1>1. /\ UNCHANGED <<requests, server_up, sent, AllAnswers>>
  BY OpensStay, NothingSent
<1>2. CASE Client!CloseEndpoints(u)
  <2>1. writer' = 0 /\ sessions' = sessions /\ request_writers' = request_writers \ {writer}
    BY <1>2 DEF Client!CloseEndpoints
  <2> QED  BY <1>1, <2>1, WriterLeaves DEF WriterSeen
<1>3. CASE Client!ConnectFails(u)
  <2>1. sessions' = sessions
    BY <1>3 DEF Client!ConnectFails
  <2>2. CASE writer' = 0 /\ request_writers' = request_writers \ {writer}
    BY <1>1, <2>1, <2>2, WriterLeaves DEF WriterSeen
  <2>3. CASE UNCHANGED <<writer, request_writers>>
    BY <1>1, <2>1, <2>3, SameToServer DEF WriterSeen, ServerPartStep
  <2> QED  BY <1>3, <2>2, <2>3 DEF Client!ConnectFails
<1>4. CASE Client!CreateWriter(u)
  <2> DEFINE s == sessions + 1
  <2>1. /\ at[u] = "opening" /\ sessions' = s /\ writer' = s
        /\ request_writers' = request_writers \cup {s}
    BY <1>4 DEF Client!CreateWriter
  <2>2. /\ s \in ServerPart!Sessions /\ s \notin 1 .. sessions
        /\ 1 .. sessions' = (1 .. sessions) \cup {s}
    BY <2>1, QueryBounds DEF SessionsKnown, ServerPart!Sessions
  <2> HIDE DEF s
  <2>3. ServerPart!ClientConnects(s)
    BY <1>1, <2>1, <2>2, ServerIdlesHere DEF ServerPart!ClientConnects
  <2>4. WriterSeen'
    BY <2>1 DEF WriterSeen
  <2> QED
    BY <2>2, <2>3, <2>4 DEF ServerPartStep, ServerPart!Next, ServerPart!ClientsNext
<1> QED  BY <1>2, <1>3, <1>4 DEF Opens

LEMMA RequestSeen ==
    ASSUME CInv, SessionsKnown, WriterSeen, ClientStep, NEW u \in Users,
           Client!WriteRequest(u)
    PROVE  ServerPartStep /\ WriterSeen'
<1> DEFINE id == [session |-> writer, number |-> written + 1]
<1>1. /\ written < MaxQueries /\ writer # 0
      /\ \A other \in sent : other.number < id.number
      /\ UNCHANGED <<server_up, request_writers, sessions, writer, replies>>
      /\ requests' = IF server_up THEN requests \cup {id} ELSE requests
      /\ sent' = IF server_up THEN sent \cup {id} ELSE sent
      /\ AllAnswers' = AllAnswers
  BY RequestSent
<1>2. WriterSeen'
  BY <1>1 DEF WriterSeen
<1>3. id \in ServerPart!QueryIds /\ id.session = writer
  BY <1>1, QueryBounds
  DEF ServerPart!QueryIds, ServerPart!Sessions, SessionsKnown, CInv, SInv, Shapes
<1> HIDE DEF id
<1>4. CASE server_up
  <2>1. ServerPart!ClientRequests(id)
    BY <1>1, <1>3, <1>4, ServerIdlesHere DEF ServerPart!ClientRequests, WriterSeen
  <2> QED
    BY <1>2, <1>3, <2>1 DEF ServerPartStep, ServerPart!Next, ServerPart!ClientsNext
<1>5. CASE ~server_up
  <2>1. UNCHANGED ServerPart!vars
    BY <1>1, <1>5, SameToServer
  <2> QED  BY <1>2, <2>1 DEF ServerPartStep
<1> QED  BY <1>4, <1>5

LEMMA ClientStepSeen ==
    ASSUME CInv, SessionsKnown, WriterSeen, ClientStep
    PROVE  ServerPartStep /\ WriterSeen'
<1>1. ASSUME UNCHANGED <<requests, request_writers, server_up, sessions, writer, written>>
      PROVE  ServerPartStep /\ WriterSeen'
  BY <1>1, NothingSent, SameToServer DEF ServerPartStep, WriterSeen
<1>2. ASSUME NEW u \in Users, Client!Call(u) \/ Client!Proceed(u) \/ Client!WaitTimesOut(u)
      PROVE  ServerPartStep /\ WriterSeen'
  <2>1. CASE Client!Call(u) \/ Receives(u)
    BY <1>1, <2>1, CallsStay, ReceivesStay
  <2>2. CASE Opens(u)
    BY <2>2, OpensSeen
  <2>3. CASE Client!WriteRequest(u)
    BY <2>3, RequestSeen
  <2> QED  BY <1>2, <2>1, <2>2, <2>3 DEF Client!Proceed, Receives, Opens
<1>3. CASE Client!Listen
  BY <1>1, <1>3, ListensStay
<1> QED  BY <1>2, <1>3 DEF ClientStep, Client!ClientNext

\* The steps of the server are the same steps of its module.
LEMMA ServerStepSeen ==
    ASSUME CInv, ServerStep
    PROVE  ServerPart!Next
<1>1. UNCHANGED <<AllAnswers, sent, sessions>>
  BY ServerStepConforms
<1> USE <1>1 DEF Server!topics, ServerPart!topics, ServerPart!clients, Server!Quiet,
            ServerPart!Quiet, Server!NoQuery, ServerPart!NoQuery, Server!Free, ServerPart!Free
<1>2. ASSUME NEW s \in Server!Sessions, Server!OnLivelinessChanged(s)
      PROVE  ServerPart!OnLivelinessChanged(s)
  BY <1>2 DEF Server!OnLivelinessChanged, ServerPart!OnLivelinessChanged
<1>3. Server!UpdateClients => ServerPart!UpdateClients
  BY DEF Server!UpdateClients, ServerPart!UpdateClients, Server!ClientsUpdated,
         ServerPart!ClientsUpdated, Server!ClientHandle, ServerPart!ClientHandle
<1>4. Server!OnDataAvailable => ServerPart!OnDataAvailable
  BY DEF Server!OnDataAvailable, ServerPart!OnDataAvailable, Server!Sessions,
         ServerPart!Sessions
<1>5. Server!HandlerReturned => ServerPart!HandlerReturned
  BY DEF Server!HandlerReturned, ServerPart!HandlerReturned, Server!LoopEnds,
         ServerPart!LoopEnds
<1>6. ASSUME NEW id, Server!StoreRequest(id) PROVE ServerPart!StoreRequest(id)
  BY <1>6 DEF Server!StoreRequest, ServerPart!StoreRequest
<1>7. Server!Upcall => ServerPart!Upcall
  BY <1>2, <1>3, <1>4, <1>5, <1>6
  DEF Server!Upcall, ServerPart!Upcall, Server!Sessions, ServerPart!Sessions
<1>8. ASSUME NEW w \in Workers, NEW id, Server!BeginAnswer(w, id)
      PROVE  ServerPart!BeginAnswer(w, id)
  BY <1>8 DEF Server!BeginAnswer, ServerPart!BeginAnswer
<1>9. ASSUME NEW w \in Workers, Server!RefuseAnswer(w) PROVE ServerPart!RefuseAnswer(w)
  BY <1>9 DEF Server!RefuseAnswer, ServerPart!RefuseAnswer
<1>10. Server!BeginShutdown => ServerPart!BeginShutdown
  BY DEF Server!BeginShutdown, ServerPart!BeginShutdown
<1>11. Server!ClearServer => ServerPart!ClearServer
  BY DEF Server!ClearServer, ServerPart!ClearServer, Server!LockKept, ServerPart!LockKept
<1> QED
  BY <1>7, <1>8, <1>9, <1>10, <1>11
  DEF ServerStep, ServerPart!Next, ServerPart!ServerNext, ServerPart!Answer

\* What a step of the server leaves of the client's writer.
LEMMA WriterStays ==
    ASSUME WriterSeen, UNCHANGED <<clientState, request_writers>>
    PROVE  WriterSeen'
BY DEF WriterSeen, clientState

LEMMA AnswerSeen ==
    ASSUME CInv, WriterSeen, ServerAnswers
    PROVE  ServerPart!Next /\ WriterSeen'
<1>1. PICK w \in Workers :
        /\ Server!WriteAnswer(w)
        /\ answers' = [answers EXCEPT ![answering[w].number] = @ + 1]
        /\ UNCHANGED <<clientState, listener, results, sent>>
  BY DEF ServerAnswers
<1>2. AllAnswers' = AllAnswers \cup {answering[w]}
  BY <1>1, AnswerConforms
<1>3. sessions' = sessions
  BY <1>1 DEF clientState
<1>4. ServerPart!WriteAnswer(w)
  BY <1>1, <1>2, <1>3
  DEF Server!WriteAnswer, ServerPart!WriteAnswer, Server!Answerable, ServerPart!Answerable,
      Server!EntryErased, ServerPart!EntryErased, Server!NoQuery, ServerPart!NoQuery,
      Server!Free, ServerPart!Free, ServerPart!clients
<1>5. WriterSeen'
  BY <1>1, WriterStays DEF Server!WriteAnswer
<1> QED
  BY <1>4, <1>5 DEF ServerPart!Next, ServerPart!ServerNext, ServerPart!Answer

LEMMA GoesSeen ==
    ASSUME CInv, WriterSeen, ServerGoes
    PROVE  ServerPart!Next /\ WriterSeen'
<1>1. UNCHANGED <<AllAnswers, sent, sessions>>
  BY GoesConforms
<1>2. ServerPart!DetachServer
  BY <1>1
  DEF ServerGoes, Server!DetachServer, ServerPart!DetachServer, Server!Quiet, ServerPart!Quiet,
      Server!Free, ServerPart!Free, ServerPart!clients
<1>3. WriterSeen'
  BY WriterStays DEF ServerGoes, Server!DetachServer
<1> QED  BY <1>2, <1>3 DEF ServerPart!Next, ServerPart!ServerNext

LEMMA NothingSeen ==
    ASSUME WriterSeen, UNCHANGED vars
    PROVE  UNCHANGED ServerPart!vars /\ WriterSeen'
<1>1. UNCHANGED <<clientState, serverState, requests, request_writers, server_up, answers, sent>>
  BY DEF vars, topics, history
<1>2. AllAnswers' = AllAnswers /\ sessions' = sessions
  BY <1>1 DEF AllAnswers, clientState
<1>3. UNCHANGED ServerPart!serverVars
  BY <1>1 DEF serverState, ServerPart!serverVars
<1> QED
  BY <1>1, <1>2, <1>3, WriterStays DEF ServerPart!vars, ServerPart!clients, ServerPart!topics

LEMMA NextSeen ==
    CInv /\ SessionsKnown /\ WriterSeen /\ [Next]_vars => WriterSeen' /\ ServerPartStep
<1> SUFFICES ASSUME CInv, SessionsKnown, WriterSeen, [Next]_vars
             PROVE  WriterSeen' /\ ServerPartStep
  OBVIOUS
<1>1. CASE ClientStep
  BY <1>1, ClientStepSeen
<1>2. CASE ServerStep
  <2>1. WriterSeen'
    <3>1. request_writers' = request_writers
      BY <1>2, ServerMoves
    <3> QED  BY <1>2, <3>1, WriterStays DEF ServerStep
  <2> QED  BY <1>2, <2>1, ServerStepSeen DEF ServerPartStep
<1>3. CASE ServerAnswers
  BY <1>3, AnswerSeen DEF ServerPartStep
<1>4. CASE ServerGoes
  BY <1>4, GoesSeen DEF ServerPartStep
<1>5. CASE UNCHANGED vars
  BY <1>5, NothingSeen DEF ServerPartStep
<1> QED  BY <1>1, <1>2, <1>3, <1>4, <1>5 DEF Next

LEMMA InitSeen == Init => WriterSeen /\ ServerPart!Init
<1> SUFFICES ASSUME Init PROVE WriterSeen /\ ServerPart!Init  OBVIOUS
<1>1. writer = 0 /\ sessions = 0 /\ sent = {}
  BY DEF Init, Client!ClientInit
<1>2. 1 .. sessions = {} /\ AllAnswers = {}
  BY <1>1 DEF AllAnswers
<1>3. ServerPart!ServerInit
  BY DEF Init, Server!ServerInit, ServerPart!ServerInit, Server!Quiet, ServerPart!Quiet,
         Server!NoQuery, ServerPart!NoQuery, Server!Free, ServerPart!Free
<1>4. ServerPart!TopicsInit
  BY <1>2 DEF Init, TopicsInit, ServerPart!TopicsInit
<1> QED  BY <1>1, <1>2, <1>3, <1>4 DEF WriterSeen, ServerPart!Init

\* The composition is a behaviour of the query server's module too: to the server the
\* client is writers that come, write requests with growing numbers, and go.
THEOREM ServerPartConforms == Spec => ServerPart!Spec
<1>1. Spec => []SessionsKnown
  BY ClientPartInvariance, ClientKnowsSessions, PTL
<1> QED
  BY <1>1, CInvariance, InitSeen, NextSeen, PTL DEF Spec, ServerPart!Spec, ServerPartStep

\* So the server keeps in the composition what it keeps alone: a request is in one place
\* and answered once, nothing is left after the disconnect, and between upcalls the
\* clients it takes for connected are those it was told of.
THEOREM ServerKeepsItsPromises ==
    Spec => [](ServerPart!AnsweredOnce /\ ServerPart!DownIsClean /\ ServerPart!KnowsItsClients)
<1>1. ServerPart!QueryBounds
  BY QueryBounds DEF ServerPart!QueryBounds
<1>2. /\ ServerPart!Spec => []ServerPart!AnsweredOnce
      /\ ServerPart!Spec => []ServerPart!DownIsClean
      /\ ServerPart!Spec => []ServerPart!KnowsItsClients
  BY <1>1, ServerPart!RequestsAnsweredOnce, ServerPart!CleanWhenDown,
     ServerPart!ClientsAreKnown
<1> QED  BY <1>2, ServerPartConforms, PTL
=============================================================================
