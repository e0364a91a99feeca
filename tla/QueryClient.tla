---------------------------- MODULE QueryClient -----------------------------
(***************************************************************************)
(* QueryClientPattern: threads that connect, disconnect, send queries and  *)
(* fetch, await or discard their answers, and the DDS listener thread that *)
(* delivers answers and liveliness changes.                                *)
(*                                                                         *)
(* What the code does under answer_mutex alone never blocks and is one     *)
(* step. connection_mutex is held across such steps and across the waits   *)
(* of connect, so its owner is a variable. A guard is read or set in the   *)
(* step that does so, whether a mutex is held or not.                      *)
(***************************************************************************)
EXTENDS QueryTopics, FiniteSets

CONSTANTS Users,        \* the threads that use the client
          MaxOutages    \* bound on the times the server goes away

ASSUME OutageBound == MaxOutages \in Nat

VARIABLES
    disconnected_guard, nonblocking_guard,
    connection_mutex,   \* its owner, or Free
    writer,             \* the session of the request writer, 0 when it is nil
    reader,             \* the session of the reply reader this object listens to, or 0
    answer_cache,       \* the identifiers with an entry
    has_answer,         \* the entries' (and waiters') result guards that are set
    request_discarded,  \* the discard guards that are set
    at,                 \* where each user thread is
    after,              \* what it does after disconnect: "open" or "return"
    query,              \* the query identifier it holds
    cause,              \* the condition that ended its wait
    listener,           \* the listener thread and the answers it has taken
    inbox,              \* the answers in the reader's queue
    notified,           \* DDS has yet to call on_data_available
    sessions, written,  \* the sessions opened and the requests written so far
    outages             \* the times the server went away

guards == <<disconnected_guard, nonblocking_guard>>
endpoints == <<connection_mutex, writer, reader, sessions>>
entries == <<answer_cache, has_answer, request_discarded>>
calls == <<at, after, query, cause>>
reception == <<listener, inbox, notified>>

clientVars == <<guards, endpoints, entries, calls, reception, written>>
vars == <<clientVars, outages, topics>>

Free == "free"
ASSUME FreeIsNoUser == Free \notin Users
Quiet == [at |-> "quiet", batch |-> {}]

UserStates ==
    {"idle", "clearing", "closing", "closed", "opening", "matching", "subscribing",
     "attached", "requesting", "written", "receiving", "finding", "waiting", "woken",
     "undefined"}
Causes == {"none", "disconnected", "nonblocking", "discarded", "result"}

\* The constructor: disconnected, blocking calls allowed.
ClientInit ==
    /\ disconnected_guard = TRUE
    /\ nonblocking_guard = FALSE
    /\ connection_mutex = Free
    /\ writer = 0 /\ reader = 0 /\ sessions = 0
    /\ answer_cache = {} /\ has_answer = {} /\ request_discarded = {}
    /\ at = [u \in Users |-> "idle"]
    /\ after = [u \in Users |-> "return"]
    /\ query = [u \in Users |-> NoQuery]
    /\ cause = [u \in Users |-> "none"]
    /\ listener = Quiet
    /\ inbox = {} /\ notified = FALSE
    /\ written = 0

Go(u, state) == at' = [at EXCEPT ![u] = state]
Forget(u) == query' = [query EXCEPT ![u] = NoQuery]

-----------------------------------------------------------------------------
\* disconnect(), also as the first step of connect() and after its failures, when
\* the caller already owns connection_mutex (which is recursive).

Disconnect(u) ==
    /\ at[u] = "idle"
    /\ disconnected_guard' = TRUE
    /\ Go(u, "clearing")
    /\ after' = [after EXCEPT ![u] = "return"]
    /\ UNCHANGED <<nonblocking_guard, endpoints, entries, query, cause,
                   reception, written, outages, topics>>

ClearSilently == /\ answer_cache' = {} /\ UNCHANGED request_discarded
ClearEntries ==
    /\ request_discarded' = request_discarded \cup answer_cache
    /\ answer_cache' = {}

ClearQueries(u) ==
    /\ at[u] = "clearing"
    /\ ClearEntries
    /\ Go(u, "closing")
    /\ UNCHANGED <<guards, endpoints, has_answer, after, query, cause, reception,
                   written, outages, topics>>

\* Take the mutex, detach the listener (which waits for an upcall in progress) and
\* drop the end points and what they hold.
MutexIgnored(u) == TRUE
MutexAvailable(u) == connection_mutex \in {Free, u}

CloseEndpoints(u) ==
    /\ at[u] = "closing"
    /\ MutexAvailable(u)
    /\ reader # 0 => listener = Quiet
    /\ connection_mutex' = u
    /\ writer' = 0 /\ reader' = 0
    /\ request_writers' = request_writers \ {writer}
    /\ inbox' = {} /\ notified' = FALSE
    /\ Go(u, "closed")
    /\ UNCHANGED <<guards, sessions, entries, after, query, cause, listener, written,
                   outages, requests, replies, server_up>>

\* The guard is set once more: an upcall may have reset it in the meantime.
GuardLeft == disconnected_guard' = disconnected_guard
GuardSetAgain == disconnected_guard' = TRUE

CloseDone(u) ==
    /\ at[u] = "closed"
    /\ GuardSetAgain
    /\ IF after[u] = "open"
         THEN Go(u, "opening") /\ UNCHANGED connection_mutex
         ELSE Go(u, "idle") /\ connection_mutex' = Free
    /\ UNCHANGED <<nonblocking_guard, writer, reader, sessions, entries,
                   after, query, cause, reception, written, outages, topics>>

-----------------------------------------------------------------------------
\* connect(): disconnect, then a new writer and reader that must each find the
\* server within a second.

Connect(u) ==
    /\ at[u] = "idle"
    /\ sessions < MaxSessions
    /\ connection_mutex = Free
    /\ connection_mutex' = u
    /\ disconnected_guard' = TRUE
    /\ Go(u, "clearing")
    /\ after' = [after EXCEPT ![u] = "open"]
    /\ UNCHANGED <<nonblocking_guard, writer, reader, sessions, entries,
                   query, cause, reception, written, outages, topics>>

CreateWriter(u) ==
    /\ at[u] = "opening"
    /\ sessions' = sessions + 1
    /\ writer' = sessions + 1
    /\ request_writers' = request_writers \cup {sessions + 1}
    /\ Go(u, "matching")
    /\ UNCHANGED <<guards, connection_mutex, reader, entries, after, query, cause,
                   reception, written, outages, requests, replies, server_up>>

WriterMatched(u) ==
    /\ at[u] = "matching"
    /\ server_up
    /\ Go(u, "subscribing")
    /\ UNCHANGED <<guards, endpoints, entries, after, query, cause, reception, written, outages, topics>>

\* The reader has matched; its listener becomes this object.
AttachReader(u) ==
    /\ at[u] = "subscribing"
    /\ server_up
    /\ reader' = writer
    /\ Go(u, "attached")
    /\ UNCHANGED <<guards, connection_mutex, writer, sessions, entries, after, query,
                   cause, reception, written, outages, topics>>

Connected(u) ==
    /\ at[u] = "attached"
    /\ disconnected_guard' = FALSE
    /\ connection_mutex' = Free
    /\ Go(u, "idle")
    /\ UNCHANGED <<nonblocking_guard, writer, reader, sessions, entries,
                   after, query, cause, reception, written, outages, topics>>

\* A match timed out or DDS reported an error: disconnect and return.
ConnectFails(u) ==
    /\ at[u] \in {"opening", "matching", "subscribing"}
    /\ disconnected_guard' = TRUE
    /\ IF at[u] = "matching"
         THEN writer' = 0 /\ request_writers' = request_writers \ {writer}
         ELSE UNCHANGED <<writer, request_writers>>
    /\ Go(u, "clearing")
    /\ after' = [after EXCEPT ![u] = "return"]
    /\ UNCHANGED <<nonblocking_guard, connection_mutex, reader, sessions,
                   entries, query, cause, reception, written, outages, requests, replies,
                   server_up>>

\* blocking(): the guard gets the value of the argument itself, so blocking(false)
\* resets the condition that cancels the waits. The flag is_blocking is not read.
Blocking(u, blocking) ==
    /\ at[u] = "idle"
    /\ connection_mutex = Free
    /\ nonblocking_guard' = blocking
    /\ UNCHANGED <<disconnected_guard, endpoints, entries, calls, reception, written, outages, topics>>

-----------------------------------------------------------------------------
\* queryRequest(): the guard is read before the mutex is taken, and the entry for
\* the answer is made after the request was written.

QueryRequest(u) ==
    /\ at[u] = "idle"
    /\ query[u] = NoQuery
    /\ written < MaxQueries
    /\ ~disconnected_guard
    /\ Go(u, "requesting")
    /\ UNCHANGED <<guards, endpoints, entries, after, query, cause, reception, written, outages, topics>>

WriterAssumed == TRUE
WriterExists == writer # 0

WriteRequest(u) ==
    LET id == [session |-> writer, number |-> written + 1] IN
    /\ at[u] = "requesting"
    /\ connection_mutex = Free
    /\ WriterExists
    /\ written < MaxQueries
    /\ connection_mutex' = u
    /\ written' = written + 1
    /\ requests' = IF server_up THEN requests \cup {id} ELSE requests
    /\ query' = [query EXCEPT ![u] = id]
    /\ Go(u, "written")
    /\ UNCHANGED <<guards, writer, reader, sessions, entries, after, cause, reception,
                   outages, replies, request_writers, server_up>>

\* The write throws (always on a nil writer): the request is not made.
WriteFails(u) ==
    /\ at[u] = "requesting"
    /\ connection_mutex = Free
    /\ Go(u, "idle")
    /\ UNCHANGED <<guards, endpoints, entries, after, query, cause, reception, written, outages, topics>>

RegisterQuery(u) ==
    /\ at[u] = "written"
    /\ answer_cache' = answer_cache \cup {query[u]}
    /\ connection_mutex' = Free
    /\ Go(u, "idle")
    /\ UNCHANGED <<guards, writer, reader, sessions, has_answer, request_discarded, after,
                   query, cause, reception, written, outages, topics>>

\* queryReceive() and queryReceiveWait() begin alike: SMART_DISCONNECTED when the
\* guard is set.
BeginReceive(u, state) ==
    /\ at[u] = "idle"
    /\ query[u] # NoQuery
    /\ IF disconnected_guard
         THEN Forget(u) /\ UNCHANGED at
         ELSE Go(u, state) /\ UNCHANGED query
    /\ UNCHANGED <<guards, endpoints, entries, after, cause, reception, written, outages,
                   topics>>
QueryReceive(u) == BeginReceive(u, "receiving")
QueryReceiveWait(u) == BeginReceive(u, "finding")

\* SMART_WRONGID: no entry.
WrongId(u) ==
    /\ at[u] \in {"receiving", "finding"}
    /\ query[u] \notin answer_cache
    /\ Go(u, "idle")
    /\ Forget(u)
    /\ UNCHANGED <<guards, endpoints, entries, after, cause, reception, written, outages,
                   topics>>

AnswerAssumed(id) == TRUE
AnswerReady(id) == id \in has_answer

Receive(u) ==
    /\ at[u] = "receiving"
    /\ query[u] \in answer_cache
    /\ IF AnswerReady(query[u])
         THEN answer_cache' = answer_cache \ {query[u]} /\ Forget(u)
         ELSE UNCHANGED <<answer_cache, query>>
    /\ Go(u, "idle")
    /\ UNCHANGED <<guards, endpoints, has_answer, request_discarded, after, cause,
                   reception, written, outages, topics>>

\* The waiter keeps the entry's iterator and a pointer to its guards.
StartWait(u) ==
    /\ at[u] = "finding"
    /\ query[u] \in answer_cache
    /\ Go(u, "waiting")
    /\ UNCHANGED <<guards, endpoints, entries, after, query, cause, reception, written, outages, topics>>

ActiveWithoutResult(u) ==
    {c \in Causes : \/ c = "disconnected" /\ disconnected_guard
                    \/ c = "nonblocking" /\ nonblocking_guard
                    \/ c = "discarded" /\ query[u] \in request_discarded}
Active(u) ==
    {c \in Causes : \/ c = "disconnected" /\ disconnected_guard
                    \/ c = "nonblocking" /\ nonblocking_guard
                    \/ c = "discarded" /\ query[u] \in request_discarded
                    \/ c = "result" /\ query[u] \in has_answer}

\* The first of the active conditions, in an unspecified order, decides.
Wake(u) ==
    /\ at[u] = "waiting"
    /\ \E c \in Active(u) : cause' = [cause EXCEPT ![u] = c]
    /\ Go(u, "woken")
    /\ UNCHANGED <<guards, endpoints, entries, after, query, reception, written, outages,
                   topics>>

WaitTimesOut(u) ==
    /\ at[u] = "waiting"
    /\ Active(u) = {}
    /\ Go(u, "idle")
    /\ UNCHANGED <<guards, endpoints, entries, after, query, cause, reception, written, outages, topics>>

ReturnDisconnected(u) ==
    /\ at[u] = "woken"
    /\ \/ cause[u] = "disconnected"
       \/ cause[u] = "discarded" /\ disconnected_guard
    /\ Go(u, "idle")
    /\ Forget(u)
    /\ cause' = [cause EXCEPT ![u] = "none"]
    /\ UNCHANGED <<guards, endpoints, entries, after, reception, written, outages, topics>>

\* SMART_CANCELLED: the caller keeps the identifier.
ReturnCancelled(u) ==
    /\ at[u] = "woken"
    /\ \/ cause[u] = "nonblocking"
       \/ cause[u] = "discarded" /\ ~disconnected_guard
    /\ Go(u, "idle")
    /\ cause' = [cause EXCEPT ![u] = "none"]
    /\ UNCHANGED <<guards, endpoints, entries, after, query, reception, written, outages,
                   topics>>

\* The entry is erased through the iterator found before the wait. If the entry is
\* gone that is undefined behaviour: the call is taken to end in "undefined".
ReturnAnswer(u) ==
    /\ at[u] = "woken"
    /\ cause[u] = "result"
    /\ answer_cache' = answer_cache \ {query[u]}
    /\ IF query[u] \in answer_cache
         THEN Go(u, "idle") /\ Forget(u)
         ELSE Go(u, "undefined") /\ UNCHANGED query
    /\ cause' = [cause EXCEPT ![u] = "none"]
    /\ UNCHANGED <<guards, endpoints, has_answer, request_discarded, after, reception,
                   written, outages, topics>>

QueryDiscard(u) ==
    /\ at[u] = "idle"
    /\ query[u] # NoQuery
    /\ request_discarded' = request_discarded \cup ({query[u]} \cap answer_cache)
    /\ answer_cache' = answer_cache \ {query[u]}
    /\ Forget(u)
    /\ UNCHANGED <<guards, endpoints, has_answer, at, after, cause, reception, written, outages, topics>>

-----------------------------------------------------------------------------
\* The listener thread, one upcall at a time.

\* An answer reaches the queue of the reader of its session, if there is one.
ReplyArrives(id) ==
    /\ id \in replies
    /\ replies' = replies \ {id}
    /\ IF id.session = reader
         THEN inbox' = inbox \cup {id} /\ notified' = TRUE
         ELSE UNCHANGED <<inbox, notified>>
    /\ UNCHANGED <<guards, endpoints, entries, calls, listener, written, outages, requests,
                   request_writers, server_up>>

\* The guard is read without a mutex; when it is set the answers stay in the queue.
OnDataAvailable ==
    /\ notified
    /\ listener = Quiet
    /\ notified' = FALSE
    /\ IF disconnected_guard
         THEN UNCHANGED <<listener, inbox>>
         ELSE listener' = [at |-> "data", batch |-> inbox] /\ inbox' = {}
    /\ UNCHANGED <<guards, endpoints, entries, calls, written, outages, topics>>

\* One answer under answer_mutex; without an entry it is dropped.
HandleAnswer(id) ==
    /\ listener.at = "data"
    /\ id \in listener.batch
    /\ has_answer' = has_answer \cup ({id} \cap answer_cache)
    /\ listener' = IF listener.batch = {id} THEN Quiet
                   ELSE [listener EXCEPT !.batch = @ \ {id}]
    /\ UNCHANGED <<guards, endpoints, answer_cache, request_discarded, calls, inbox,
                   notified, written, outages, topics>>

\* The upcall on_liveliness_changed with the alive count it was given.
OnLivelinessChanged ==
    /\ listener.at \in {"alive", "gone"}
    /\ disconnected_guard' = (listener.at = "gone")
    /\ listener' = Quiet
    /\ UNCHANGED <<nonblocking_guard, endpoints, entries, calls, inbox,
                   notified, written, outages, topics>>

\* DDS starts that upcall if this object listens to the reader.
TellListener(news) ==
    IF reader = 0
      THEN UNCHANGED listener
      ELSE listener = Quiet /\ listener' = [at |-> news, batch |-> {}]

-----------------------------------------------------------------------------
\* The rest of the system as the client sees it: a server that comes and goes and
\* answers requests while it is there.

ServerVanishes ==
    /\ server_up
    /\ outages < MaxOutages
    /\ server_up' = FALSE
    /\ outages' = outages + 1
    /\ requests' = {}
    /\ TellListener("gone")
    /\ UNCHANGED <<guards, endpoints, entries, calls, inbox, notified, written, replies,
                   request_writers>>

ServerReturns ==
    /\ ~server_up
    /\ server_up' = TRUE
    /\ TellListener("alive")
    /\ UNCHANGED <<guards, endpoints, entries, calls, inbox, notified, written, outages,
                   requests, replies, request_writers>>

ServerAnswers(id) ==
    /\ server_up
    /\ id \in requests
    /\ requests' = requests \ {id}
    /\ replies' = replies \cup {id}
    /\ UNCHANGED <<clientVars, outages, request_writers, server_up>>

-----------------------------------------------------------------------------
Call(u) ==
    \/ Connect(u) \/ Disconnect(u) \/ QueryRequest(u) \/ QueryReceive(u)
    \/ QueryReceiveWait(u) \/ QueryDiscard(u)
    \/ \E blocking \in BOOLEAN : Blocking(u, blocking)

\* The steps of a call in progress, apart from a wait that times out.
Proceed(u) ==
    \/ ClearQueries(u) \/ CloseEndpoints(u) \/ CloseDone(u)
    \/ CreateWriter(u) \/ WriterMatched(u) \/ AttachReader(u) \/ Connected(u)
    \/ ConnectFails(u)
    \/ WriteRequest(u) \/ WriteFails(u) \/ RegisterQuery(u)
    \/ WrongId(u) \/ Receive(u) \/ StartWait(u) \/ Wake(u)
    \/ ReturnDisconnected(u) \/ ReturnCancelled(u) \/ ReturnAnswer(u)

Listen ==
    \/ OnDataAvailable \/ OnLivelinessChanged
    \/ \E id \in replies : ReplyArrives(id)
    \/ \E id \in listener.batch : HandleAnswer(id)

ClientNext ==
    \/ \E u \in Users : Call(u) \/ Proceed(u) \/ WaitTimesOut(u)
    \/ Listen

RemoteNext ==
    \/ ServerVanishes \/ ServerReturns
    \/ \E id \in requests : ServerAnswers(id)

Init == ClientInit /\ TopicsInit /\ outages = 0
Next == ClientNext \/ RemoteNext
Spec == Init /\ [][Next]_vars

\* Threads in a call and the listener are scheduled, and the server answers what it
\* gets. Waits without a timeout: nothing is assumed about WaitTimesOut.
Fairness ==
    /\ \A u \in Users : WF_vars(Proceed(u))
    /\ WF_vars(Listen)
    /\ WF_vars(\E id \in requests : ServerAnswers(id))

FairSpec == Spec /\ Fairness

-----------------------------------------------------------------------------
TypeOK ==
    /\ disconnected_guard \in BOOLEAN
    /\ nonblocking_guard \in BOOLEAN
    /\ connection_mutex \in Users \cup {Free}
    /\ writer \in 0 .. sessions /\ reader \in 0 .. sessions
    /\ sessions \in 0 .. MaxSessions
    /\ written \in 0 .. MaxQueries
    /\ answer_cache \subseteq QueryIds
    /\ has_answer \subseteq QueryIds
    /\ request_discarded \subseteq QueryIds
    /\ at \in [Users -> UserStates]
    /\ after \in [Users -> {"open", "return"}]
    /\ query \in [Users -> QueryIds \cup {NoQuery}]
    /\ cause \in [Users -> Causes]
    /\ listener \in [at : {"quiet", "data", "alive", "gone"}, batch : SUBSET QueryIds]
    /\ inbox \subseteq QueryIds
    /\ notified \in BOOLEAN
    /\ outages \in 0 .. MaxOutages
    /\ TopicsTypeOK

\* Between calls that change the connection, a client that reports itself connected
\* has both of its end points, in one session: no liveliness upcall that overlaps
\* disconnect() leaves it connected without them.
ConnectedHasEndpoints ==
    connection_mutex = Free /\ ~disconnected_guard => writer # 0 /\ reader = writer

\* A request is registered in the session it was written in: no other thread
\* replaces the writer between the write and the entry.
RegisteredInSession ==
    \A u \in Users : at[u] = "written" => query[u].session = writer

\* A thread that waits for an entry that was removed finds a guard that wakes it.
NoForgottenWaiter ==
    \A u \in Users :
        at[u] = "waiting" /\ query[u] \notin answer_cache => Active(u) # {}

\* A wait ends once an upcall has taken its answer, or its entry was removed.
WaitsEnd ==
    \A u \in Users :
        (at[u] = "waiting" /\ (query[u] \in listener.batch \/ query[u] \notin answer_cache))
            ~> at[u] # "waiting"

-----------------------------------------------------------------------------
\* A statement of the documentation that the code does not keep.

\* queryReceiveWait waits until the answer is received: if the server stays and
\* answers every request, it returns.
AnsweredWaitReturns == \A u \in Users : at[u] = "waiting" ~> at[u] # "waiting"
=============================================================================
