---------------------------- MODULE EventClient -----------------------------
(***************************************************************************)
(* EventClientPattern and EventResult: threads that connect, disconnect,   *)
(* activate and deactivate events and wait for them, and the DDS listener  *)
(* thread that stores events and reports the server's liveliness.          *)
(*                                                                         *)
(* client_mutex protects everything but the guards. Its owner is a         *)
(* variable, since connect, disconnect and activate hold it for several    *)
(* steps. The component is running: is_shutting_down is false.             *)
(***************************************************************************)
EXTENDS EventTopics

CONSTANT Users         \* the threads that use the client

VARIABLES
    disconnected_guard, nonblocking_guard,
    client_mutex,      \* its owner, or "free"
    writer,            \* the session of the activation writer, 0 when it is nil
    event_cache,       \* the identifiers with an entry
    results,           \* the EventResult made for each activation
    call,              \* per user thread, the call it is in
    listener,          \* the listener thread: "quiet", or "locking" the mutex
    heard,             \* the liveliness of the server last reported to the listener
    sessions, activated   \* the connections and activations made so far

guards == <<disconnected_guard, nonblocking_guard>>
counters == <<sessions, activated>>
clientVars == <<guards, client_mutex, writer, event_cache, results, call, listener,
                heard, counters>>

Nobody == "free"
ASSUME NobodyIsNoUser == Nobody \notin Users

\* What ends a wait: the event guard, or one of the guards that abort it.
Conditions == {"abort", "event"}
CallStates ==
    {"idle", "locking", "detaching", "closed", "opening", "subscribing", "attached",
     "written", "waiting", "woken"}
NoId == NoEvent.id

\* EventResult: event is the put the stored event came from.
Results == [mode : Modes, has_new_event : BOOLEAN, has_event_guard : BOOLEAN,
            deactivated : BOOLEAN, event : 0 .. MaxPuts]
NewResult(mode) == [mode |-> mode, has_new_event |-> FALSE, has_event_guard |-> FALSE,
                    deactivated |-> FALSE, event |-> 0]

\* A call: what it does after disconnect, the activation it is about, whether it is
\* getNextEvent, that call's own guard, the event there was when it began to wait, and
\* the guards that were active when the wait ended.
Calls == [at : CallStates, after : {"open", "return"}, id : EventIds \cup {NoId},
          next : BOOLEAN, next_event_guard : BOOLEAN, since : 0 .. MaxPuts,
          active : SUBSET Conditions]
NoCall == [at |-> "idle", after |-> "return", id |-> NoId, next |-> FALSE,
           next_event_guard |-> FALSE, since |-> 0, active |-> {}]

\* The constructor: disconnected, blocking calls allowed.
ClientInit ==
    /\ disconnected_guard = TRUE /\ nonblocking_guard = FALSE
    /\ client_mutex = Nobody
    /\ writer = 0
    /\ event_cache = {}
    /\ results = [n \in Numbers |-> NewResult("single")]
    /\ call = [u \in Users |-> NoCall]
    /\ listener = "quiet" /\ heard = FALSE
    /\ sessions = 0 /\ activated = 0

Go(u, place) == call' = [call EXCEPT ![u].at = place]
Return(u) == call' = [call EXCEPT ![u] = NoCall]
\* std::mutex in place of std::recursive_mutex.
AvailableOnce(u) == client_mutex = Nobody
Available(u) == client_mutex \in {Nobody, u}
Result(id) == results[id.number]

-----------------------------------------------------------------------------
\* disconnect(), also as the first step of connect() and after its failures, when
\* the caller already owns client_mutex (which is recursive).

Disconnect(u) ==
    /\ call[u].at = "idle"
    /\ disconnected_guard' = TRUE
    /\ Go(u, "locking")
    /\ UNCHANGED <<nonblocking_guard, client_mutex, writer, event_cache, results, listener,
                   heard, counters, topics>>

\* Deactivate and remove the entries, drop the writer with what it has not sent.
EntriesForgotten == UNCHANGED results
EntriesDeactivated ==
    results' = [n \in Numbers |->
        IF \E id \in event_cache : id.number = n
          THEN [results[n] EXCEPT !.deactivated = TRUE] ELSE results[n]]

ClearEvents(u) ==
    /\ call[u].at = "locking"
    /\ Available(u)
    /\ client_mutex' = u
    /\ EntriesDeactivated
    /\ event_cache' = {}
    /\ writer' = 0
    /\ requests' \in SUBSET requests
    /\ Go(u, "detaching")
    /\ UNCHANGED <<guards, listener, heard, counters, events, reader, server_up>>

\* Detach the listener, which waits for an upcall in progress, and drop the reader.
DetachReader(u) ==
    /\ call[u].at = "detaching"
    /\ reader.session # 0 => listener = "quiet"
    /\ reader' = NoReader
    /\ events' = {}
    /\ heard' = FALSE
    /\ Go(u, "closed")
    /\ UNCHANGED <<guards, client_mutex, writer, event_cache, results, listener, counters,
                   requests, server_up>>

\* The guard is set once more: an upcall may have reset it in the meantime.
GuardLeft == UNCHANGED disconnected_guard
GuardSetAgain == disconnected_guard' = TRUE

Closed(u) ==
    /\ call[u].at = "closed"
    /\ GuardSetAgain
    /\ IF call[u].after = "open"
         THEN Go(u, "opening") /\ UNCHANGED client_mutex
         ELSE Return(u) /\ client_mutex' = Nobody
    /\ UNCHANGED <<nonblocking_guard, writer, event_cache, results, listener, heard,
                   counters, topics>>

-----------------------------------------------------------------------------
\* connect(): disconnect, then a writer and a filtered reader that must each find the
\* server within a second.

Connect(u) ==
    /\ call[u].at = "idle"
    /\ client_mutex = Nobody
    /\ sessions < MaxSessions
    /\ client_mutex' = u
    /\ disconnected_guard' = TRUE
    /\ call' = [call EXCEPT ![u].at = "locking", ![u].after = "open"]
    /\ UNCHANGED <<nonblocking_guard, writer, event_cache, results, listener, heard,
                   counters, topics>>

OpenWriter(u) ==
    /\ call[u].at = "opening"
    /\ server_up
    /\ sessions' = sessions + 1
    /\ writer' = sessions + 1
    /\ Go(u, "subscribing")
    /\ UNCHANGED <<guards, client_mutex, event_cache, results, listener, heard, activated,
                   topics>>

\* The filter is made from the new writer's identity; the reader has matched, its
\* listener becomes this object.
OpenReader(u) ==
    /\ call[u].at = "subscribing"
    /\ server_up
    /\ reader' = FilteredReader(writer)
    /\ heard' = TRUE
    /\ Go(u, "attached")
    /\ UNCHANGED <<guards, client_mutex, writer, event_cache, results, listener, counters,
                   requests, events, server_up>>

Connected(u) ==
    /\ call[u].at = "attached"
    /\ disconnected_guard' = FALSE
    /\ client_mutex' = Nobody
    /\ Return(u)
    /\ UNCHANGED <<nonblocking_guard, writer, event_cache, results, listener, heard,
                   counters, topics>>

\* A match timed out, the services are incompatible or DDS reported an error.
ConnectFails(u) ==
    /\ call[u].at \in {"opening", "subscribing"}
    /\ disconnected_guard' = TRUE
    /\ call' = [call EXCEPT ![u].at = "locking", ![u].after = "return"]
    /\ UNCHANGED <<nonblocking_guard, client_mutex, writer, event_cache, results, listener,
                   heard, counters, topics>>

\* blocking(): the guard gets the value of the argument itself, so blocking(false)
\* resets the condition that cancels the waits. The flag is_blocking is not read.
Blocking(u, blocking) ==
    /\ call[u].at = "idle"
    /\ client_mutex = Nobody
    /\ nonblocking_guard' = blocking
    /\ UNCHANGED <<disconnected_guard, client_mutex, writer, event_cache, results, call,
                   listener, heard, counters, topics>>

-----------------------------------------------------------------------------
\* activate(): the entry is made after the request was written, before the mutex is
\* released. A write that throws changes nothing.

LockIgnored(u) == client_mutex' = Nobody
LockHeld(u) == client_mutex' = u

Activate(u, mode) ==
    LET id == [session |-> writer, number |-> activated + 1] IN
    /\ call[u].at = "idle"
    /\ client_mutex = Nobody
    /\ ~disconnected_guard
    /\ writer # 0
    /\ activated < MaxActivations
    /\ LockHeld(u)
    /\ activated' = activated + 1
    /\ requests' = IF server_up THEN requests \cup {[mode |-> mode, id |-> id]}
                                ELSE requests
    /\ results' = [results EXCEPT ![activated + 1] = NewResult(mode)]
    /\ call' = [call EXCEPT ![u].at = "written", ![u].id = id]
    /\ UNCHANGED <<guards, writer, event_cache, listener, heard, sessions, events, reader,
                   server_up>>

Register(u) ==
    /\ call[u].at = "written"
    /\ event_cache' = event_cache \cup {call[u].id}
    /\ client_mutex' = Nobody
    /\ Return(u)
    /\ UNCHANGED <<guards, writer, results, listener, heard, counters, topics>>

\* deactivate(): the server is told only while connected.
TellNobody(request) == UNCHANGED requests
TellServer(request) ==
    requests' = IF ~disconnected_guard /\ server_up THEN requests \cup {request}
                                                    ELSE requests

Deactivate(u, id) ==
    /\ call[u].at = "idle"
    /\ client_mutex = Nobody
    /\ id \in event_cache
    /\ TellServer([mode |-> "deactivate", id |-> id])
    /\ results' = [results EXCEPT ![id.number].deactivated = TRUE]
    /\ event_cache' = event_cache \ {id}
    /\ UNCHANGED <<guards, client_mutex, writer, call, listener, heard, counters, events,
                   reader, server_up>>

\* tryEvent(): SMART_OK, SMART_PASSIVE, SMART_ACTIVE or SMART_WRONGID.
tryEvent(id) ==
    CASE id \notin event_cache -> "wrong id"
      [] id \in event_cache /\ Result(id).has_new_event -> "ok"
      [] id \in event_cache /\ ~Result(id).has_new_event ->
            IF Result(id).has_event_guard THEN "passive" ELSE "active"

-----------------------------------------------------------------------------
\* getEvent() and getNextEvent(): the latter refuses a single event that has fired
\* (SMART_PASSIVE) and waits on a guard of its own.

BeginWait(u, id, next) ==
    /\ call[u].at = "idle"
    /\ client_mutex = Nobody
    /\ ~disconnected_guard
    /\ id \in event_cache
    /\ call' = [call EXCEPT ![u] = [NoCall EXCEPT !.at = "waiting", !.id = id,
                                        !.next = next,
                                        !.since = IF next THEN Result(id).event ELSE 0]]
    /\ UNCHANGED <<guards, client_mutex, writer, event_cache, results, listener, heard,
                   counters, topics>>

GetEvent(u, id) == BeginWait(u, id, FALSE)

MissedSingle(id) == Result(id).mode = "single" /\ Result(id).has_event_guard
GetNextEvent(u, id) == ~MissedSingle(id) /\ BeginWait(u, id, TRUE)

\* Both kinds of call wait for the same guard.
SharedGuard(u) == Result(call[u].id).has_event_guard
EventGuard(u) ==
    IF call[u].next THEN call[u].next_event_guard ELSE Result(call[u].id).has_event_guard

Aborted(u) == disconnected_guard \/ nonblocking_guard \/ Result(call[u].id).deactivated

Active(u) ==
    {c \in Conditions : (c = "abort" /\ Aborted(u)) \/ (c = "event" /\ EventGuard(u))}

\* The wait ends with the active guards, with none when it timed out.
Wake(u) ==
    /\ call[u].at = "waiting"
    /\ Active(u) # {}
    /\ call' = [call EXCEPT ![u].at = "woken", ![u].active = Active(u),
                            ![u].next_event_guard = FALSE]
    /\ UNCHANGED <<guards, client_mutex, writer, event_cache, results, listener, heard,
                   counters, topics>>

TimeOut(u) ==
    /\ call[u].at = "waiting"
    /\ Active(u) = {}
    /\ Go(u, "woken")
    /\ UNCHANGED <<guards, client_mutex, writer, event_cache, results, listener, heard,
                   counters, topics>>

\* consumeEvent(): the guard stays set in single mode.
ConsumedOnly(r) == [r EXCEPT !.has_new_event = FALSE]
Consumed(r) ==
    [r EXCEPT !.has_new_event = FALSE, !.has_event_guard = (r.mode = "single")]

\* The active guards are looked at in any order. SMART_OK: the entry has an event.
ReturnEvent(u) ==
    /\ call[u].at = "woken"
    /\ client_mutex = Nobody
    /\ "event" \in call[u].active
    /\ Result(call[u].id).has_new_event
    /\ results' = [results EXCEPT ![call[u].id.number] = Consumed(@)]
    /\ Return(u)
    /\ UNCHANGED <<guards, client_mutex, writer, event_cache, listener, heard, counters,
                   topics>>

\* SMART_DISCONNECTED, SMART_CANCELLED, SMART_NOTACTIVATED or SMART_TIMEOUT; or another
\* thread consumed the event: SMART_PASSIVE in single mode, SMART_ERROR otherwise.
ReturnNothing(u) ==
    /\ call[u].at = "woken"
    /\ client_mutex = Nobody
    /\ \/ call[u].active # {"event"}
       \/ ~Result(call[u].id).has_new_event
    /\ Return(u)
    /\ UNCHANGED <<guards, client_mutex, writer, event_cache, results, listener, heard,
                   counters, topics>>

-----------------------------------------------------------------------------
\* The listener thread, one upcall at a time.

OnLivelinessChanged ==
    /\ listener = "quiet"
    /\ reader.session # 0
    /\ heard # server_up
    /\ heard' = server_up
    /\ disconnected_guard' = ~server_up
    /\ UNCHANGED <<nonblocking_guard, client_mutex, writer, event_cache, results, call,
                   listener, counters, topics>>

\* The guard is read without the mutex; when it is set the event stays in the reader.
OnDataAvailable ==
    /\ listener = "quiet"
    /\ reader.notified
    /\ reader' = [reader EXCEPT !.notified = FALSE]
    /\ listener' = IF disconnected_guard THEN "quiet" ELSE "locking"
    /\ UNCHANGED <<guards, client_mutex, writer, event_cache, results, call, heard,
                   counters, requests, events, server_up>>

\* setNewEvent(): the event, its guard and the guards of the getNextEvent calls.
Stored(r, put) == [r EXCEPT !.event = put, !.has_new_event = TRUE, !.has_event_guard = TRUE]
WaitsForNext(u, id) == call[u].at = "waiting" /\ call[u].next /\ call[u].id = id

TakeEvent ==
    LET id == reader.sample.id IN
    /\ listener = "locking"
    /\ client_mutex = Nobody
    /\ reader' = [reader EXCEPT !.sample = NoEvent]
    /\ IF id \in event_cache
         THEN /\ results' = [results EXCEPT ![id.number] = Stored(@, reader.sample.put)]
              /\ call' = [u \in Users |->
                           IF WaitsForNext(u, id)
                             THEN [call[u] EXCEPT !.next_event_guard = TRUE] ELSE call[u]]
         ELSE UNCHANGED <<results, call>>
    /\ listener' = "quiet"
    /\ UNCHANGED <<guards, client_mutex, writer, event_cache, heard, counters, requests,
                   events, server_up>>

-----------------------------------------------------------------------------
Call(u) ==
    \/ Connect(u) \/ Disconnect(u)
    \/ \E mode \in Modes : Activate(u, mode)
    \/ \E id \in event_cache : Deactivate(u, id) \/ GetEvent(u, id) \/ GetNextEvent(u, id)
    \/ \E blocking \in BOOLEAN : Blocking(u, blocking)

\* The steps of a call in progress, apart from a wait that times out.
Proceed(u) ==
    \/ ClearEvents(u) \/ DetachReader(u) \/ Closed(u)
    \/ OpenWriter(u) \/ OpenReader(u) \/ Connected(u) \/ ConnectFails(u)
    \/ Register(u)
    \/ Wake(u) \/ ReturnEvent(u) \/ ReturnNothing(u)

Listen == OnLivelinessChanged \/ OnDataAvailable \/ TakeEvent

ClientNext ==
    \/ \E u \in Users : Call(u) \/ Proceed(u) \/ TimeOut(u)
    \/ Listen

ClientTypeOK ==
    /\ disconnected_guard \in BOOLEAN /\ nonblocking_guard \in BOOLEAN
    /\ client_mutex \in Users \cup {Nobody}
    /\ writer \in 0 .. sessions
    /\ event_cache \subseteq EventIds
    /\ results \in [Numbers -> Results]
    /\ call \in [Users -> Calls]
    /\ listener \in {"quiet", "locking"}
    /\ heard \in BOOLEAN
    /\ sessions \in 0 .. MaxSessions /\ activated \in 0 .. MaxActivations
=============================================================================
