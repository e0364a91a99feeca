----------------------------- MODULE PushClient -----------------------------
(***************************************************************************)
(* PushClientPattern: threads that connect, disconnect, subscribe,         *)
(* unsubscribe and read or await updates, and the DDS listener thread.     *)
(* connection_mutex is held across the waits for a matching server, so its *)
(* owner is a variable; each subscription gets a reader of its own.        *)
(***************************************************************************)
EXTENDS PushServer

CONSTANT Users    \* the threads that use the client

VARIABLES
    disconnected_guard, unsubscribed_guard, nonblocking_guard,
    connection_mutex,  \* its owner, or Free
    connection_guard, incompatible_qos_guard,  \* of the reader's DDSReaderConnector
    attached,          \* this object is the reader's listener, no longer the connector
    new_data_guard,    \* the reader whose data the read condition reports, 0: nil
    opened,            \* the readers opened so far
    call,              \* where each thread is, see Idle
    listener,          \* the upcall in progress
    notified,          \* DDS has yet to call on_data_available
    barrier            \* history: the last update before the last unsubscription

guards == <<disconnected_guard, unsubscribed_guard, nonblocking_guard>>
connector == <<connection_guard, incompatible_qos_guard>>
vars == <<guards, connection_mutex, connector, attached, new_data_guard, opened, call, listener,
          notified, barrier, reader, serverVars>>

Free == "free"
ASSUME FreeIsNoUser == Free \notin Users

\* What the thread is doing, to what end, the prescale factor it asks for, what
\* follows its disconnect, and the reader its wait set looks at.
Idle == [at |-> "idle", goal |-> "none", prescale |-> 0, after |-> "return", watches |-> 0]
Places == {"idle", "disconnecting", "closing", "closed", "detaching", "opening",
           "matching", "matched", "waiting", "woken"}
Goals == {"none", "connect", "subscribe", "unsubscribe", "leave"}

ClientInit ==
    /\ disconnected_guard = TRUE
    /\ unsubscribed_guard = TRUE
    /\ nonblocking_guard = FALSE
    /\ connection_mutex = Free
    /\ connection_guard = FALSE /\ incompatible_qos_guard = FALSE
    /\ attached = FALSE
    /\ new_data_guard = 0
    /\ opened = 0
    /\ call = [u \in Users |-> Idle]
    /\ listener = "quiet"
    /\ notified = FALSE
    /\ barrier = 0

Begins(u) == call[u].at = "idle" /\ connection_mutex = Free
Go(u, place) == call' = [call EXCEPT ![u].at = place]
Return(u) == call' = [call EXCEPT ![u] = Idle] /\ connection_mutex' = Free

\* Detaching the listener waits for an upcall in progress.
Detached == /\ attached => listener = "quiet"
            /\ attached' = FALSE
            /\ notified' = FALSE

-----------------------------------------------------------------------------
\* disconnect(), and connect(), which begins with it.

Disconnect(u) ==
    /\ call[u].at = "idle"
    /\ disconnected_guard' = TRUE
    /\ Go(u, "disconnecting")
    /\ UNCHANGED <<connector, unsubscribed_guard, nonblocking_guard, connection_mutex,
                   attached, new_data_guard, opened, listener, notified, barrier,
                   reader, serverVars>>

Connect(u) ==
    /\ Begins(u)
    /\ opened < MaxReaders
    /\ connection_mutex' = u
    /\ disconnected_guard' = TRUE
    /\ call' = [call EXCEPT ![u] = [Idle EXCEPT !.at = "disconnecting", !.after = "open"]]
    /\ UNCHANGED <<connector, unsubscribed_guard, nonblocking_guard, attached,
                   new_data_guard, opened, listener, notified, barrier, reader,
                   serverVars>>

\* unsubscribe() within disconnect() returns at once, unless an upcall has reset
\* disconnected_guard in between.
LeaveServer(u) ==
    /\ call[u].at = "disconnecting"
    /\ connection_mutex \in {Free, u}
    /\ connection_mutex' = u
    /\ IF disconnected_guard
         THEN Go(u, "closing") /\ UNCHANGED <<unsubscribed_guard, new_data_guard>>
         ELSE /\ unsubscribed_guard' = TRUE
              /\ new_data_guard' = 0
              /\ call' = [call EXCEPT ![u].at = "detaching", ![u].goal = "leave"]
    /\ UNCHANGED <<connector, disconnected_guard, nonblocking_guard, attached, opened,
                   listener, notified, barrier, reader, serverVars>>

Close(u) ==
    /\ call[u].at = "closing"
    /\ Detached
    /\ reader' = NoReader
    /\ filter' = NoFilter /\ pending' = 0
    /\ Go(u, "closed")
    /\ UNCHANGED <<connector, guards, connection_mutex, new_data_guard, opened,
                   listener, barrier, server_up, outages, published>>

CloseDone(u) ==
    /\ call[u].at = "closed"
    /\ disconnected_guard' = TRUE
    /\ barrier' = published
    /\ IF call[u].after = "open"
         THEN /\ call' = [call EXCEPT ![u] = [Idle EXCEPT !.at = "opening", !.goal = "connect"]]
              /\ UNCHANGED connection_mutex
         ELSE Return(u)
    /\ UNCHANGED <<connector, unsubscribed_guard, nonblocking_guard, attached,
                   new_data_guard, opened, listener, notified, reader, serverVars>>

-----------------------------------------------------------------------------
\* subscribe() and unsubscribe(): a new reader with another filter.

AcceptedAny(prescale) == TRUE
Accepted(prescale) == prescale >= 1

Subscribe(u, prescale) ==
    /\ Begins(u)
    /\ Accepted(prescale)
    /\ opened < MaxReaders
    /\ ~disconnected_guard
    /\ reader # NoReader
    /\ connection_mutex' = u
    /\ call' = [call EXCEPT ![u] = [Idle EXCEPT !.at = "detaching", !.goal = "subscribe",
                                                !.prescale = prescale]]
    /\ UNCHANGED <<connector, guards, attached, new_data_guard, opened, listener,
                   notified, barrier, reader, serverVars>>

Unsubscribe(u) ==
    /\ Begins(u)
    /\ opened < MaxReaders
    /\ ~disconnected_guard
    /\ connection_mutex' = u
    /\ unsubscribed_guard' = TRUE
    /\ new_data_guard' = 0
    /\ call' = [call EXCEPT ![u] = [Idle EXCEPT !.at = "detaching", !.goal = "unsubscribe"]]
    /\ UNCHANGED <<connector, disconnected_guard, nonblocking_guard, attached, opened,
                   listener, notified, barrier, reader, serverVars>>

Detach(u) ==
    /\ call[u].at = "detaching"
    /\ Detached
    /\ Go(u, "opening")
    /\ UNCHANGED <<connector, guards, connection_mutex, new_data_guard, opened,
                   listener, barrier, reader, serverVars>>

\* DDSReaderConnector::reconnect: the new reader replaces the old one and its data; the
\* connector listens until the reader has matched.
SameReader(u) == [reader EXCEPT !.id = opened + 1, !.prescale = call[u].prescale]
FreshReader(u) == NewReader(opened + 1, call[u].prescale)

OpenReader(u) ==
    /\ call[u].at = "opening"
    /\ reader' = FreshReader(u)
    /\ opened' = opened + 1
    /\ filter' = NoFilter /\ pending' = 0
    /\ connection_guard' = FALSE /\ incompatible_qos_guard' = FALSE
    /\ Go(u, "matching")
    /\ UNCHANGED <<guards, connection_mutex, attached, new_data_guard, listener,
                   notified, barrier, server_up, outages, published>>

\* The connector's upcalls: the reader has found a server, or one whose QoS do not fit.
Matching == \E u \in Users : call[u].at = "matching"

OnSubscriptionMatched ==
    /\ Matching
    /\ server_up
    /\ connection_guard' = TRUE
    /\ UNCHANGED <<guards, connection_mutex, incompatible_qos_guard, attached,
                   new_data_guard, opened, call, listener, notified, barrier, reader,
                   serverVars>>

OnRequestedIncompatibleQos ==
    /\ Matching
    /\ incompatible_qos_guard' = TRUE
    /\ UNCHANGED <<guards, connection_mutex, connection_guard, attached, new_data_guard,
                   opened, call, listener, notified, barrier, reader, serverVars>>

\* The wait looks at the guards in any order; the server may have gone since it matched.
ReaderMatched(u) ==
    /\ call[u].at = "matching"
    /\ connection_guard
    /\ attached' = TRUE
    /\ Go(u, "matched")
    /\ UNCHANGED <<connector, guards, connection_mutex, new_data_guard, opened,
                   listener, notified, barrier, reader, serverVars>>

\* What follows the new reader: connected, subscribed, or (also when the call it
\* belongs to failed) unsubscribed.
Connected(u) ==
    /\ call[u].at = "matched" /\ call[u].goal = "connect"
    /\ disconnected_guard' = FALSE
    /\ Return(u)
    /\ UNCHANGED <<connector, unsubscribed_guard, nonblocking_guard, attached,
                   new_data_guard, opened, listener, notified, barrier, reader,
                   serverVars>>

ConditionKept == new_data_guard' = new_data_guard
ConditionMoved == new_data_guard' = reader.id

Subscribed(u) ==
    /\ call[u].at = "matched" /\ call[u].goal = "subscribe"
    /\ ConditionMoved
    /\ unsubscribed_guard' = FALSE
    /\ Return(u)
    /\ UNCHANGED <<connector, disconnected_guard, nonblocking_guard, attached, opened,
                   listener, notified, barrier, reader, serverVars>>

Unsubscribed(u) ==
    /\ call[u].at = "matched" /\ call[u].goal \in {"unsubscribe", "leave"}
    /\ barrier' = published
    /\ IF call[u].goal = "leave"
         THEN Go(u, "closing") /\ UNCHANGED connection_mutex
         ELSE Return(u)
    /\ UNCHANGED <<connector, guards, attached, new_data_guard, opened, listener,
                   notified, reader, serverVars>>

\* The wait times out or finds the incompatible server, the reader cannot be created or
\* DDS reports an error: connect() disconnects, subscribe() unsubscribes, unsubscribe()
\* does not look at the outcome.
MatchFails(u) ==
    /\ call[u].at \in {"opening", "matching"}
    /\ reader' = NoReader
    /\ filter' = NoFilter /\ pending' = 0
    /\ CASE call[u].goal = "connect" ->
              /\ disconnected_guard' = TRUE
              /\ call' = [call EXCEPT ![u] = [Idle EXCEPT !.at = "disconnecting"]]
              /\ UNCHANGED <<unsubscribed_guard, new_data_guard, connection_mutex,
                             barrier>>
         [] call[u].goal = "subscribe" /\ ~disconnected_guard ->
              /\ unsubscribed_guard' = TRUE
              /\ new_data_guard' = 0
              /\ call' = [call EXCEPT ![u] = [Idle EXCEPT !.at = "detaching",
                                                          !.goal = "unsubscribe"]]
              /\ UNCHANGED <<disconnected_guard, connection_mutex, barrier>>
         [] call[u].goal = "leave" ->
              /\ Go(u, "closing")
              /\ barrier' = published
              /\ UNCHANGED <<disconnected_guard, unsubscribed_guard, new_data_guard,
                             connection_mutex>>
         [] OTHER ->
              /\ Return(u)
              /\ barrier' = published
              /\ UNCHANGED <<disconnected_guard, unsubscribed_guard, new_data_guard>>
    /\ UNCHANGED <<connector, nonblocking_guard, attached, opened, listener, notified,
                   server_up, outages, published>>

\* blocking(): the guard gets the value of the argument itself.
Blocking(u, blocking) ==
    /\ Begins(u)
    /\ nonblocking_guard' = blocking
    /\ UNCHANGED <<connector, disconnected_guard, unsubscribed_guard, connection_mutex,
                   attached, new_data_guard, opened, call, listener, notified, barrier,
                   reader, serverVars>>

-----------------------------------------------------------------------------
\* What getUpdate() hands out with the mutex, 0: an error code.
UpdateNow == IF disconnected_guard \/ unsubscribed_guard THEN 0 ELSE reader.data

\* getUpdate(), on its own or at the end of getUpdateWait(): the update is copied
\* and stays in the reader.
GetUpdate(u) ==
    /\ call[u].at \in {"idle", "woken"}
    /\ connection_mutex = Free
    /\ call' = [call EXCEPT ![u] = Idle]
    /\ IF UpdateNow = 0
         THEN UNCHANGED reader
         ELSE reader' = [reader EXCEPT !.unread = FALSE]
    /\ UNCHANGED <<connector, guards, connection_mutex, attached, new_data_guard,
                   opened, listener, notified, barrier, serverVars>>

\* getUpdateWait() waits, without the mutex, on the condition as it is now.
GetUpdateWait(u) ==
    /\ Begins(u)
    /\ ~disconnected_guard /\ ~unsubscribed_guard
    /\ call' = [call EXCEPT ![u] = [Idle EXCEPT !.at = "waiting", !.watches = new_data_guard]]
    /\ UNCHANGED <<connector, guards, connection_mutex, attached, new_data_guard,
                   opened, listener, notified, barrier, reader, serverVars>>

\* A condition of a reader the client no longer uses keeps that reader, which may
\* still get updates.
Active(u) ==
    \/ disconnected_guard \/ unsubscribed_guard \/ nonblocking_guard
    \/ call[u].watches = reader.id /\ reader.unread

Wake(u) ==
    /\ call[u].at = "waiting"
    /\ Active(u) \/ call[u].watches # reader.id
    /\ call' = [call EXCEPT ![u] = IF nonblocking_guard THEN Idle
                                   ELSE [Idle EXCEPT !.at = "woken"]]
    /\ UNCHANGED <<connector, guards, connection_mutex, attached, new_data_guard,
                   opened, listener, notified, barrier, reader, serverVars>>

WaitTimesOut(u) ==
    /\ call[u].at = "waiting"
    /\ ~Active(u)
    /\ call' = [call EXCEPT ![u] = Idle]
    /\ UNCHANGED <<connector, guards, connection_mutex, attached, new_data_guard,
                   opened, listener, notified, barrier, reader, serverVars>>

-----------------------------------------------------------------------------
\* DDS and the listener thread.

\* The update reaches the reader and replaces the one it holds.
Deliver ==
    /\ pending # 0
    /\ reader' = [reader EXCEPT !.data = pending, !.unread = TRUE]
    /\ pending' = 0
    /\ notified' = attached
    /\ UNCHANGED <<connector, guards, connection_mutex, attached, new_data_guard,
                   opened, call, listener, barrier, server_up, outages, published,
                   filter>>

\* on_data_available reads the update for the push handler, which marks it as read.
OnDataAvailable ==
    /\ notified
    /\ listener = "quiet"
    /\ notified' = FALSE
    /\ reader' = IF disconnected_guard THEN reader ELSE [reader EXCEPT !.unread = FALSE]
    /\ UNCHANGED <<connector, guards, connection_mutex, attached, new_data_guard,
                   opened, call, listener, barrier, serverVars>>

\* on_liveliness_changed takes no mutex.
UpcallLocks == connection_mutex = Free
UpcallRuns == TRUE

OnLivelinessChanged ==
    /\ listener \in {"alive", "gone"}
    /\ UpcallRuns
    /\ disconnected_guard' = (listener = "gone")
    /\ listener' = "quiet"
    /\ UNCHANGED <<connector, unsubscribed_guard, nonblocking_guard, connection_mutex,
                   attached, new_data_guard, opened, call, notified, barrier, reader,
                   serverVars>>

TellListener(news) ==
    IF attached THEN listener = "quiet" /\ listener' = news ELSE UNCHANGED listener

ServerVanishes ==
    /\ WriterGoes
    /\ TellListener("gone")
    /\ UNCHANGED <<connector, guards, connection_mutex, attached, new_data_guard,
                   opened, call, notified, barrier>>

ServerReturns ==
    /\ WriterReturns
    /\ TellListener("alive")
    /\ UNCHANGED <<connector, guards, connection_mutex, attached, new_data_guard,
                   opened, call, notified, barrier>>

ServerWrites ==
    /\ Put \/ Compile
    /\ UNCHANGED <<connector, guards, connection_mutex, attached, new_data_guard,
                   opened, call, listener, notified, barrier>>

-----------------------------------------------------------------------------
Call(u) ==
    \/ Connect(u) \/ Disconnect(u) \/ Unsubscribe(u) \/ GetUpdate(u) \/ GetUpdateWait(u)
    \/ \E prescale \in Prescales : Subscribe(u, prescale)
    \/ \E blocking \in BOOLEAN : Blocking(u, blocking)

\* The steps of a call that changes the connection.
Proceed(u) ==
    \/ LeaveServer(u) \/ Close(u) \/ CloseDone(u)
    \/ Detach(u) \/ OpenReader(u) \/ ReaderMatched(u) \/ MatchFails(u)
    \/ Connected(u) \/ Subscribed(u) \/ Unsubscribed(u)

Listen ==
    \/ OnDataAvailable \/ OnLivelinessChanged
    \/ OnSubscriptionMatched \/ OnRequestedIncompatibleQos

Next ==
    \/ \E u \in Users : Call(u) \/ Proceed(u) \/ Wake(u) \/ WaitTimesOut(u)
    \/ Listen \/ Deliver
    \/ ServerVanishes \/ ServerReturns \/ ServerWrites

Init == ServerInit /\ ClientInit
Spec == Init /\ [][Next]_vars

\* Threads that change the connection and the listener are scheduled.
Fairness == (\A u \in Users : WF_vars(Proceed(u))) /\ WF_vars(Listen)
FairSpec == Spec /\ Fairness

-----------------------------------------------------------------------------
TypeOK ==
    /\ disconnected_guard \in BOOLEAN
    /\ unsubscribed_guard \in BOOLEAN
    /\ nonblocking_guard \in BOOLEAN
    /\ connection_mutex \in Users \cup {Free}
    /\ connection_guard \in BOOLEAN /\ incompatible_qos_guard \in BOOLEAN
    /\ attached \in BOOLEAN
    /\ opened \in Nat
    /\ new_data_guard \in 0 .. opened
    /\ call \in [Users -> [at : Places, goal : Goals, prescale : Prescales \cup {0},
                           after : {"open", "return"}, watches : Nat]]
    /\ \A u \in Users : call[u].goal = "subscribe" => call[u].prescale > 0
    /\ listener \in {"quiet", "alive", "gone"}
    /\ notified \in BOOLEAN
    /\ barrier \in Nat
    /\ server_up \in BOOLEAN
    /\ outages \in 0 .. MaxOutages
    /\ published \in 0 .. MaxPuts
    /\ reader \in [id : 0 .. opened, prescale : Prescales \cup {0}, data : Nat, unread : BOOLEAN]
    /\ filter \in [reader : Nat, count : Nat, since : Nat]
    /\ pending \in Nat

\* Between calls that change the connection, a reader with a prescale factor is the
\* one of a subscription: the client reports itself subscribed and waits on the
\* condition of that very reader, not of one it has replaced. A subscribed client
\* always has a condition to wait on.
SubscriptionHasReader ==
    /\ connection_mutex = Free /\ reader.prescale > 0 =>
         ~unsubscribed_guard /\ new_data_guard = reader.id
    /\ ~unsubscribed_guard => new_data_guard # 0

\* No old data: what getUpdate would return, also after a wait that other threads'
\* calls have overtaken, was published after the last unsubscription.
FreshUpdates ==
    connection_mutex = Free /\ ~disconnected_guard /\ ~unsubscribed_guard /\ reader.data # 0 =>
        reader.data > barrier

\* A subscriber gets the next update after its filter was compiled and then every
\* n-th of those published, whether or not they were read.
PrescaleKept ==
    filter.reader = reader.id /\ reader.prescale > 0 /\ reader.data > filter.since =>
        (reader.data - filter.since - 1) % reader.prescale = 0

\* A call that changes the connection lets go of the mutex: neither the listener it
\* detaches nor another call keeps it from going on.
MutexReleased == connection_mutex # Free ~> connection_mutex = Free

-----------------------------------------------------------------------------
\* The pattern implements PushService: the client is at the update its reader holds, or
\* else at the one on its way, or else at the next one.

\* The client reports itself subscribed, or has the reader with which it is about to.
Subscribing ==
    \/ ~unsubscribed_guard
    \/ \E u \in Users : call[u].at \in {"matching", "matched"} /\ call[u].goal = "subscribe"

rhythmBar ==
    IF Subscribing /\ reader.id # 0 /\ filter.reader = reader.id
      THEN [known |-> TRUE, factor |-> reader.prescale, since |-> filter.since]
      ELSE [known |-> FALSE, factor |-> 0, since |-> 0]
nextBar ==
    CASE ~Subscribing -> published + 1
      [] Subscribing /\ reader.data # 0 -> reader.data
      [] Subscribing /\ reader.data = 0 /\ pending # 0 -> pending
      [] OTHER -> published + 1
shownBar == IF connection_mutex = Free THEN UpdateNow ELSE 0

Service == INSTANCE PushService WITH
    Factors <- Prescales \cup {0},
    subscribed <- Subscribing,
    rhythm <- rhythmBar,
    next <- nextBar,
    shown <- shownBar

\* What is handed out moves forward only, every n-th update with a prescale factor, and
\* skips what was published while the client was not subscribed.
ImplementsService == Service!Spec

-----------------------------------------------------------------------------
\* A statement of a comment that the code does not keep.

\* Disconnecting also unsubscribes: a connected client that reports itself
\* subscribed has subscribed in this connection.
NotSubscribedAfterConnect ==
    connection_mutex = Free /\ ~disconnected_guard /\ ~unsubscribed_guard =>
        reader.prescale > 0
=============================================================================
