---------------------------- MODULE EventSystem -----------------------------
(***************************************************************************)
(* An event client and an event server on the same two topics.             *)
(***************************************************************************)
EXTENDS EventServer, EventClient

VARIABLES fires,      \* history: the puts that fired each activation
          obtained,   \* history: the last event a call obtained from it
          seen        \* history, per thread: obtained when its getEvent began

history == <<fires, obtained>>
vars == <<clientVars, serverVars, topics, history, seen>>

Init ==
    /\ ClientInit /\ ServerInit /\ TopicsInit
    /\ fires = [n \in Numbers |-> {}]
    /\ obtained = [n \in Numbers |-> 0]
    /\ seen = [u \in Users |-> 0]

\* The activations a put fires get its number.
Fired(due, put) ==
    fires' = [n \in Numbers |->
        IF \E a \in due : a.id.number = n THEN fires[n] \cup {put} ELSE fires[n]]

SystemPut(due) ==
    /\ Put(due)
    /\ Fired(due, puts')
    /\ UNCHANGED <<clientVars, obtained>>

ServerStep ==
    /\ \/ ServerUpcall \/ PutFails
       \/ BeginShutdown \/ LockServer \/ DetachServer \/ RestartServer
    /\ UNCHANGED <<clientVars, history>>

\* The user's call returns SMART_OK with an event.
Obtains(u) ==
    /\ ReturnEvent(u)
    /\ obtained' = [obtained EXCEPT ![call[u].id.number] = Result(call[u].id).event]
    /\ UNCHANGED <<serverVars, fires>>

Quietly == UNCHANGED <<serverVars, history>>

UserCalls(u) == Call(u) /\ Quietly
UserTimesOut(u) == TimeOut(u) /\ Quietly
UserProceeds(u) ==
    \/ /\ \/ ClearEvents(u) \/ DetachReader(u) \/ Closed(u)
          \/ OpenWriter(u) \/ OpenReader(u) \/ Connected(u) \/ ConnectFails(u)
          \/ Register(u) \/ Wake(u) \/ ReturnNothing(u)
       /\ Quietly
    \/ Obtains(u)

Listens == Listen /\ Quietly

Arrives == /\ \E e \in events : Deliver(e)
           /\ UNCHANGED <<clientVars, serverVars, history>>

\* Every call of getEvent and getNextEvent remembers what had been obtained before it.
Waits(c) == c.at \in {"waiting", "woken"}
Remembers ==
    seen' = [u \in Users |->
        CASE ~Waits(call'[u]) -> 0
          [] Waits(call'[u]) /\ Waits(call[u]) -> seen[u]
          [] Waits(call'[u]) /\ ~Waits(call[u]) -> obtained[call'[u].id.number]]

SystemStep ==
    \/ \E u \in Users : UserCalls(u) \/ UserProceeds(u) \/ UserTimesOut(u)
    \/ Listens \/ Arrives
    \/ ServerStep \/ \E due \in SUBSET event_activations : SystemPut(due)

Next == SystemStep /\ Remembers

Spec == Init /\ [][Next]_vars

-----------------------------------------------------------------------------
SystemTypeOK ==
    /\ ClientTypeOK /\ ServerTypeOK /\ TopicsTypeOK
    /\ fires \in [Numbers -> SUBSET (1 .. MaxPuts)]
    /\ obtained \in [Numbers -> 0 .. MaxPuts]
TypeOK ==
    /\ SystemTypeOK
    /\ seen \in [Users -> 0 .. MaxPuts]

\* Between calls that change the connection, a client that reports itself connected
\* has both of its end points, in one session: no liveliness upcall that overlaps
\* disconnect() leaves it connected without them.
ConnectedHasEndpoints ==
    client_mutex = Nobody /\ ~disconnected_guard => writer # 0 /\ reader.session = writer

\* The client receives the events of its present connection only, although the
\* server goes on firing the activations of those it has left.
OwnEventsOnly ==
    \A e \in events \cup ({reader.sample} \ {NoEvent}) : e.id.session = reader.session

\* An event finds the entry of its activation, unless that was deactivated: it cannot
\* overtake the registration, whatever thread activates.
EventHasEntry ==
    reader.sample # NoEvent =>
        \/ reader.sample.id \in event_cache
        \/ Result(reader.sample.id).deactivated
        \/ \E u \in Users : /\ client_mutex = u
                            /\ call[u].at = "written" /\ call[u].id = reader.sample.id

\* What tryEvent tells of an activation agrees with what getEvent would do: with an
\* event getEvent finds its guard set, and only a single event that was consumed is
\* passive, a guard set without an event.
GuardTellsEvent ==
    \A id \in event_cache :
        /\ tryEvent(id) = "ok" => Result(id).has_event_guard
        /\ tryEvent(id) = "passive" => Result(id).mode = "single"

\* While both sides are there and no thread is about to disconnect, the server tests
\* no activation of the present connection that the client has deactivated, beyond the
\* deactivation on its way.
ActivationsAgree ==
    server_up /\ ~disconnected_guard /\ (\A u \in Users : call[u].at # "locking") =>
        \A a \in event_activations :
            a.id.session = writer =>
                \/ a.id \in event_cache
                \/ [mode |-> "deactivate", id |-> a.id] \in requests
                \/ \E u \in Users : call[u].at = "written" /\ call[u].id = a.id

\* getNextEvent returns an event that came after it was called, however many threads
\* consume events meanwhile.
NextEventIsNew ==
    [][\A u \in Users : Obtains(u) /\ call[u].next =>
            Result(call[u].id).event > call[u].since]_vars

\* Events fire and are obtained as the service promises: a consumed event is returned by
\* no call that begins afterwards.
Service == INSTANCE EventService WITH
    calls <- [u \in Users |-> [number |-> IF Waits(call[u]) THEN call[u].id.number ELSE 0,
                              seen |-> seen[u]]],
    mode <- [n \in Numbers |-> IF n <= activated THEN results[n].mode ELSE "none"]
ImplementsService == Service!Spec

-----------------------------------------------------------------------------
\* A thread that waits for an activation whose entry was removed finds a guard that
\* ends the wait, also when the client has a new connection by then; and one that waits
\* for the next event has its guard set once that is stored.
NoForgottenWaiter ==
    \A u \in Users :
        call[u].at = "waiting" =>
            /\ call[u].id \notin event_cache => "abort" \in Active(u)
            /\ call[u].next /\ Result(call[u].id).event > call[u].since => "event" \in Active(u)

\* The listener has read the guard, found it reset, and waits for the mutex of a thread
\* that waits for the listener to finish: both wait for good.
UpcallCaught ==
    listener = "locking" /\ \E u \in Users : client_mutex = u /\ call[u].at = "detaching"

\* The thread that holds the mutex always has a next step, the deadlock above apart: no
\* other order of calls and upcalls blocks the client.
HolderProceeds ==
    client_mutex # Nobody => UpcallCaught \/ ENABLED UserProceeds(client_mutex)
=============================================================================
