---------------------------- MODULE EventProofs -----------------------------
(***************************************************************************)
(* What the event pattern keeps for every number of threads, connections,  *)
(* activations and puts, every number base and every length of a GUID.     *)
(***************************************************************************)
EXTENDS EventSystem, IdentitiesProofs

\* client_mutex is held by a thread in one of these places, and by one at "locking"
\* whose disconnect is part of a connect.
Holding == {"detaching", "closed", "opening", "subscribing", "attached", "written"}

MutexOwner ==
    \A u \in Users :
        /\ call[u].at \in Holding => client_mutex = u
        /\ call[u].after = "open" =>
             client_mutex = u /\ call[u].at \in (Holding \ {"written"}) \cup {"locking"}
        /\ client_mutex = u => call[u].at \in Holding \cup {"locking"}

\* A thread on its way to a new connection has not used up the bound.
MayOpen ==
    \A u \in Users :
        \/ call[u].at \in {"locking", "detaching", "closed"} /\ call[u].after = "open"
        \/ call[u].at = "opening"
        => sessions < MaxSessions

\* The end points at each stage of connect(), and while nobody changes them.
Endpoints ==
    /\ \A u \in Users :
         /\ call[u].at = "detaching" => writer = 0
         /\ call[u].at \in {"closed", "opening"} => writer = 0 /\ reader.session = 0
         /\ call[u].at = "subscribing" => writer # 0 /\ reader.session = 0
         /\ call[u].at = "attached" => writer # 0 /\ reader.session = writer
         /\ call[u].at = "written" =>
              reader.session = writer /\ (writer = 0 => disconnected_guard)
    /\ client_mutex = Nobody =>
         reader.session = writer /\ (writer = 0 => disconnected_guard)

\* The activation in the hands of a thread.
InHand ==
    \A u \in Users : call[u].at \in {"written", "waiting", "woken"} => call[u].id \in EventIds

Conn == SystemTypeOK /\ MutexOwner /\ MayOpen /\ Endpoints /\ InHand

-----------------------------------------------------------------------------
LEMMA SmallFacts ==
    /\ NoEvent \notin Events /\ NoId \notin EventIds /\ NoId.session = 0 /\ NoEvent.id = NoId
    /\ NoEvent.put = 0
    /\ NoCall \in Calls /\ 0 \in 0 .. MaxPuts /\ 0 \in 0 .. MaxSessions
    /\ 0 \in 0 .. MaxActivations
    /\ \A mode \in Modes : NewResult(mode) \in Results
    /\ Nobody \notin Users
<1>1. NoEvent \notin Events /\ NoId \notin EventIds /\ NoId.session = 0 /\ NoEvent.id = NoId
      /\ NoEvent.put = 0
  BY DEF NoEvent, NoId, Events, EventIds, Sessions
<1>2. /\ 0 \in 0 .. MaxPuts /\ 0 \in 0 .. MaxSessions /\ 0 \in 0 .. MaxActivations
  BY EventBounds
<1>3. NoCall \in Calls
  BY <1>2 DEF NoCall, Calls, CallStates
<1>4. \A mode \in Modes : NewResult(mode) \in Results
  BY <1>2 DEF NewResult, Results, Modes
<1>5. QED BY <1>1, <1>2, <1>3, <1>4, NobodyIsNoUser

LEMMA NoReaderType ==
    NoReader \in [session : Sessions \cup {0}, expression : HexTexts,
                  sample : Events \cup {NoEvent}, notified : BOOLEAN]
<1>1. NoText \in HexTexts
  BY IdentityAssumption DEF NoText, HexTexts, Digits
<1>2. QED BY <1>1 DEF NoReader

\* A step of a call changes its place, or ends it.
LEMMA Moves ==
    ASSUME call \in [Users -> Calls], NEW u \in Users, NEW place \in CallStates, Go(u, place)
    PROVE  /\ call' \in [Users -> Calls]
           /\ call'[u] = [call[u] EXCEPT !.at = place]
           /\ \A v \in Users \ {u} : call'[v] = call[v]
BY DEF Go, Calls

LEMMA CallBecomes ==
    ASSUME call \in [Users -> Calls], NEW u \in Users, NEW c \in Calls,
           call' = [call EXCEPT ![u] = c]
    PROVE  /\ call' \in [Users -> Calls]
           /\ call'[u] = c
           /\ \A v \in Users \ {u} : call'[v] = call[v]
OBVIOUS

\* The calls that connect(), a failed connect() and activate() leave behind.
LEMMA CallChanges ==
    ASSUME NEW c \in Calls
    PROVE  /\ \A place \in CallStates, after \in {"open", "return"} :
                [c EXCEPT !.at = place, !.after = after] \in Calls
           /\ \A place \in CallStates, id \in EventIds :
                [c EXCEPT !.at = place, !.id = id] \in Calls
BY DEF Calls

LEMMA Ends ==
    ASSUME call \in [Users -> Calls], NEW u \in Users, Return(u)
    PROVE  /\ call' \in [Users -> Calls]
           /\ call'[u] = NoCall
           /\ \A v \in Users \ {u} : call'[v] = call[v]
BY SmallFacts DEF Return

LEMMA InitConn == Init => Conn
<1> SUFFICES ASSUME Init PROVE Conn
  OBVIOUS
<1>1. ClientTypeOK
  <2>1. NewResult("single") \in Results
    BY SmallFacts DEF Modes
  <2>2. /\ results \in [Numbers -> Results]
        /\ call \in [Users -> Calls]
    BY <2>1, SmallFacts DEF Init, ClientInit
  <2>3. /\ writer \in 0 .. sessions
        /\ sessions \in 0 .. MaxSessions /\ activated \in 0 .. MaxActivations
    BY EventBounds DEF Init, ClientInit
  <2>4. QED BY <2>2, <2>3 DEF Init, ClientInit, ClientTypeOK
<1>2. ServerTypeOK
  <2>1. puts \in 0 .. MaxPuts /\ restarts \in 0 .. MaxRestarts
    BY EventBounds, RestartBound DEF Init, ServerInit
  <2>2. QED BY <2>1 DEF Init, ServerInit, ServiceInit, ServerTypeOK
<1>3. TopicsTypeOK
  BY NoReaderType DEF Init, TopicsInit, TopicsTypeOK
<1>4. SystemTypeOK
  BY <1>1, <1>2, <1>3, SmallFacts DEF Init, SystemTypeOK
<1>5. MutexOwner /\ MayOpen /\ Endpoints /\ InHand
  BY SmallFacts DEF Init, ClientInit, TopicsInit, MutexOwner, MayOpen, Endpoints, InHand,
                    Holding, NoCall, NoReader
<1>6. QED BY <1>4, <1>5 DEF Conn

-----------------------------------------------------------------------------
\* What a step of the client leaves alone.
ServerSide == <<serverVars, history>>

LEMMA ServerSideTyped ==
    ASSUME SystemTypeOK, UNCHANGED ServerSide, ClientTypeOK', TopicsTypeOK'
    PROVE  SystemTypeOK'
BY DEF SystemTypeOK, ServerSide, history, serverVars, service, ServerTypeOK

\* disconnect().
LEMMA DisconnectConn ==
    ASSUME Conn, NEW u \in Users, UNCHANGED ServerSide,
           Disconnect(u) \/ ClearEvents(u) \/ DetachReader(u) \/ Closed(u)
    PROVE  Conn'
<1> USE SmallFacts DEF Conn, guards, counters, topics
<1>0. SystemTypeOK /\ ClientTypeOK /\ TopicsTypeOK /\ call \in [Users -> Calls]
  BY DEF SystemTypeOK, ClientTypeOK
<1>1. CASE Disconnect(u)
  <2>1. /\ call' \in [Users -> Calls] /\ call'[u] = [call[u] EXCEPT !.at = "locking"]
        /\ \A v \in Users \ {u} : call'[v] = call[v]
    BY <1>0, <1>1, Moves DEF Disconnect, CallStates
  <2>2. ClientTypeOK' /\ TopicsTypeOK'
    BY <1>0, <1>1, <2>1 DEF Disconnect, ClientTypeOK, TopicsTypeOK
  <2>3. (MutexOwner /\ MayOpen /\ Endpoints /\ InHand)'
    BY <1>0, <1>1, <2>1 DEF Disconnect, Calls, MutexOwner, MayOpen, Endpoints, InHand, Holding
  <2>4. QED BY <1>0, <2>2, <2>3, ServerSideTyped
<1>2. CASE ClearEvents(u)
  <2>1. /\ call' \in [Users -> Calls] /\ call'[u] = [call[u] EXCEPT !.at = "detaching"]
        /\ \A v \in Users \ {u} : call'[v] = call[v]
    BY <1>0, <1>2, Moves DEF ClearEvents, CallStates
  <2>2. results' \in [Numbers -> Results]
    <3>1. \A r \in Results : [r EXCEPT !.deactivated = TRUE] \in Results
      BY DEF Results
    <3>2. QED BY <1>0, <1>2, <3>1 DEF ClearEvents, EntriesDeactivated, ClientTypeOK
  <2>3. ClientTypeOK' /\ TopicsTypeOK'
    BY <1>0, <1>2, <2>1, <2>2 DEF ClearEvents, ClientTypeOK, TopicsTypeOK
  <2>4. (MutexOwner /\ MayOpen /\ Endpoints /\ InHand)'
    BY <1>0, <1>2, <2>1
       DEF ClearEvents, Available, Calls, MutexOwner, MayOpen, Endpoints, InHand, Holding
  <2>5. QED BY <1>0, <2>3, <2>4, ServerSideTyped
<1>3. CASE DetachReader(u)
  <2>1. /\ call' \in [Users -> Calls] /\ call'[u] = [call[u] EXCEPT !.at = "closed"]
        /\ \A v \in Users \ {u} : call'[v] = call[v]
    BY <1>0, <1>3, Moves DEF DetachReader, CallStates
  <2>2. ClientTypeOK' /\ TopicsTypeOK'
    BY <1>0, <1>3, <2>1, NoReaderType DEF DetachReader, ClientTypeOK, TopicsTypeOK
  <2>3. (MutexOwner /\ MayOpen /\ Endpoints /\ InHand)'
    BY <1>0, <1>3, <2>1
       DEF DetachReader, NoReader, Calls, MutexOwner, MayOpen, Endpoints, InHand, Holding
  <2>4. QED BY <1>0, <2>2, <2>3, ServerSideTyped
<1>4. CASE Closed(u)
  <2>1. /\ call' \in [Users -> Calls]
        /\ \/ /\ call[u].after = "open"
              /\ call'[u] = [call[u] EXCEPT !.at = "opening"] /\ client_mutex' = client_mutex
           \/ call'[u] = NoCall /\ client_mutex' = Nobody
        /\ \A v \in Users \ {u} : call'[v] = call[v]
    BY <1>0, <1>4, Moves, Ends DEF Closed, CallStates
  <2>2. ClientTypeOK' /\ TopicsTypeOK'
    BY <1>0, <1>4, <2>1 DEF Closed, GuardSetAgain, ClientTypeOK, TopicsTypeOK
  <2>3. (MutexOwner /\ MayOpen /\ Endpoints /\ InHand)'
    BY <1>0, <1>4, <2>1 DEF Closed, GuardSetAgain, NoCall, Calls, MutexOwner, MayOpen,
                            Endpoints, InHand, Holding
  <2>4. QED BY <1>0, <2>2, <2>3, ServerSideTyped
<1>5. QED BY <1>1, <1>2, <1>3, <1>4

\* connect().
LEMMA ConnectConn ==
    ASSUME Conn, NEW u \in Users, UNCHANGED ServerSide,
           \/ Connect(u) \/ OpenWriter(u) \/ OpenReader(u) \/ Connected(u)
           \/ ConnectFails(u)
    PROVE  Conn'
<1> USE SmallFacts DEF Conn, guards, counters, topics
<1>0. SystemTypeOK /\ ClientTypeOK /\ TopicsTypeOK /\ call \in [Users -> Calls]
  BY DEF SystemTypeOK, ClientTypeOK
<1>1. CASE Connect(u)
  <2>1. /\ call' \in [Users -> Calls]
        /\ call'[u] = [call[u] EXCEPT !.at = "locking", !.after = "open"]
        /\ \A v \in Users \ {u} : call'[v] = call[v]
    <3>1. call' = [call EXCEPT ![u].at = "locking", ![u].after = "open"]
      BY <1>1 DEF Connect
    <3> DEFINE c == [call[u] EXCEPT !.at = "locking", !.after = "open"]
    <3>2. c \in Calls
      BY <1>0, CallChanges DEF CallStates
    <3>3. call' = [call EXCEPT ![u] = c]
      BY <1>0, <3>1
    <3> HIDE DEF c
    <3>4. call' \in [Users -> Calls] /\ call'[u] = c /\ \A v \in Users \ {u} : call'[v] = call[v]
      BY <1>0, <3>2, <3>3, CallBecomes
    <3>5. QED BY <3>4 DEF c
  <2>2. ClientTypeOK' /\ TopicsTypeOK'
    BY <1>0, <1>1, <2>1 DEF Connect, ClientTypeOK, TopicsTypeOK
  <2>3. (MutexOwner /\ MayOpen /\ Endpoints /\ InHand)'
    BY <1>0, <1>1, <2>1
       DEF Connect, Calls, MutexOwner, MayOpen, Endpoints, InHand, Holding
  <2>4. QED BY <1>0, <2>2, <2>3, ServerSideTyped
<1>2. CASE OpenWriter(u)
  <2>1. /\ call' \in [Users -> Calls] /\ call'[u] = [call[u] EXCEPT !.at = "subscribing"]
        /\ \A v \in Users \ {u} : call'[v] = call[v]
    BY <1>0, <1>2, Moves DEF OpenWriter, CallStates
  <2>2. writer' \in Sessions /\ writer' \in 0 .. sessions' /\ sessions' \in 0 .. MaxSessions
    BY <1>0, <1>2, EventBounds DEF OpenWriter, MayOpen, ClientTypeOK, Sessions
  <2>3. ClientTypeOK' /\ TopicsTypeOK'
    BY <1>0, <1>2, <2>1, <2>2 DEF OpenWriter, ClientTypeOK, TopicsTypeOK
  <2>4. (MutexOwner /\ MayOpen /\ Endpoints /\ InHand)'
    BY <1>0, <1>2, <2>1, <2>2
       DEF OpenWriter, Sessions, Calls, MutexOwner, MayOpen, Endpoints, InHand, Holding
  <2>5. QED BY <1>0, <2>3, <2>4, ServerSideTyped
<1>3. CASE OpenReader(u)
  <2>1. /\ call' \in [Users -> Calls] /\ call'[u] = [call[u] EXCEPT !.at = "attached"]
        /\ \A v \in Users \ {u} : call'[v] = call[v]
    BY <1>0, <1>3, Moves DEF OpenReader, CallStates
  <2>2. reader' = FilteredReader(writer) /\ writer \in Sessions /\ writer # 0
    BY <1>0, <1>3, EventBounds DEF OpenReader, Endpoints, ClientTypeOK, Sessions
  <2>3. TopicsTypeOK'
    <3>1. toString(VirtualGuid[writer]) \in HexTexts
      BY <2>2, GuidsAreUnique, TextIsHexadecimal
    <3>2. QED BY <1>0, <1>3, <2>2, <3>1, NoReaderType
              DEF OpenReader, FilteredReader, NoReader, TopicsTypeOK
  <2>4. ClientTypeOK'
    BY <1>0, <1>3, <2>1, <2>2 DEF OpenReader, ClientTypeOK
  <2>5. (MutexOwner /\ MayOpen /\ Endpoints /\ InHand)'
    BY <1>0, <1>3, <2>1, <2>2
       DEF OpenReader, FilteredReader, NoReader, Calls, MutexOwner, MayOpen, Endpoints, InHand, Holding
  <2>6. QED BY <1>0, <2>3, <2>4, <2>5, ServerSideTyped
<1>4. CASE Connected(u)
  <2>1. /\ call' \in [Users -> Calls] /\ call'[u] = NoCall
        /\ \A v \in Users \ {u} : call'[v] = call[v]
    BY <1>0, <1>4, Ends DEF Connected
  <2>2. ClientTypeOK' /\ TopicsTypeOK'
    BY <1>0, <1>4, <2>1 DEF Connected, ClientTypeOK, TopicsTypeOK
  <2>3. (MutexOwner /\ MayOpen /\ Endpoints /\ InHand)'
    BY <1>0, <1>4, <2>1
       DEF Connected, NoCall, Calls, MutexOwner, MayOpen, Endpoints, InHand, Holding
  <2>4. QED BY <1>0, <2>2, <2>3, ServerSideTyped
<1>5. CASE ConnectFails(u)
  <2>1. /\ call' \in [Users -> Calls]
        /\ call'[u] = [call[u] EXCEPT !.at = "locking", !.after = "return"]
        /\ \A v \in Users \ {u} : call'[v] = call[v]
    <3>1. call' = [call EXCEPT ![u].at = "locking", ![u].after = "return"]
      BY <1>5 DEF ConnectFails
    <3> DEFINE c == [call[u] EXCEPT !.at = "locking", !.after = "return"]
    <3>2. c \in Calls
      BY <1>0, CallChanges DEF CallStates
    <3>3. call' = [call EXCEPT ![u] = c]
      BY <1>0, <3>1
    <3> HIDE DEF c
    <3>4. call' \in [Users -> Calls] /\ call'[u] = c /\ \A v \in Users \ {u} : call'[v] = call[v]
      BY <1>0, <3>2, <3>3, CallBecomes
    <3>5. QED BY <3>4 DEF c
  <2>2. ClientTypeOK' /\ TopicsTypeOK'
    BY <1>0, <1>5, <2>1 DEF ConnectFails, ClientTypeOK, TopicsTypeOK
  <2>3. (MutexOwner /\ MayOpen /\ Endpoints /\ InHand)'
    BY <1>0, <1>5, <2>1
       DEF ConnectFails, Calls, MutexOwner, MayOpen, Endpoints, InHand, Holding
  <2>4. QED BY <1>0, <2>2, <2>3, ServerSideTyped
<1>6. QED BY <1>1, <1>2, <1>3, <1>4, <1>5

\* blocking(), activate() and deactivate().
LEMMA ActivateConn ==
    ASSUME Conn, NEW u \in Users, UNCHANGED ServerSide,
           \/ \E blocking \in BOOLEAN : Blocking(u, blocking)
           \/ \E mode \in Modes : Activate(u, mode)
           \/ Register(u)
           \/ \E id \in event_cache : Deactivate(u, id)
    PROVE  Conn'
<1> USE SmallFacts DEF Conn, guards, counters, topics
<1>0. SystemTypeOK /\ ClientTypeOK /\ TopicsTypeOK /\ call \in [Users -> Calls]
  BY DEF SystemTypeOK, ClientTypeOK
<1>1. CASE \E blocking \in BOOLEAN : Blocking(u, blocking)
  <2>1. ClientTypeOK' /\ TopicsTypeOK'
    BY <1>0, <1>1 DEF Blocking, ClientTypeOK, TopicsTypeOK
  <2>2. (MutexOwner /\ MayOpen /\ Endpoints /\ InHand)'
    BY <1>1 DEF Blocking, MutexOwner, MayOpen, Endpoints, InHand
  <2>3. QED BY <1>0, <2>1, <2>2, ServerSideTyped
<1>2. CASE \E mode \in Modes : Activate(u, mode)
  <2> PICK mode \in Modes : Activate(u, mode)
    BY <1>2
  <2> DEFINE id == [session |-> writer, number |-> activated + 1]
  <2>1. id \in EventIds /\ activated' \in 0 .. MaxActivations /\ activated + 1 \in Numbers
    BY <1>0, EventBounds DEF Activate, ClientTypeOK, EventIds, Sessions, Numbers
  <2>2. /\ call' = [call EXCEPT ![u].at = "written", ![u].id = id]
        /\ call[u].at = "idle" /\ client_mutex' = u /\ client_mutex = Nobody
        /\ results' = [results EXCEPT ![activated + 1] = NewResult(mode)]
        /\ requests' \subseteq requests \cup {[mode |-> mode, id |-> id]}
    BY DEF Activate, LockHeld
  <2> HIDE DEF id
  <2>3. /\ call' \in [Users -> Calls]
        /\ call'[u] = [call[u] EXCEPT !.at = "written", !.id = id]
        /\ \A v \in Users \ {u} : call'[v] = call[v]
    <3> DEFINE c == [call[u] EXCEPT !.at = "written", !.id = id]
    <3>1. c \in Calls
      BY <1>0, <2>1, CallChanges DEF CallStates
    <3>2. call' = [call EXCEPT ![u] = c]
      BY <1>0, <2>2
    <3> HIDE DEF c
    <3>3. call' \in [Users -> Calls] /\ call'[u] = c /\ \A v \in Users \ {u} : call'[v] = call[v]
      BY <1>0, <3>1, <3>2, CallBecomes
    <3>4. QED BY <3>3 DEF c
  <2>4. results' \in [Numbers -> Results]
    BY <1>0, <2>1, <2>2 DEF ClientTypeOK
  <2>5. requests' \subseteq Requests
    BY <1>0, <2>1, <2>2 DEF TopicsTypeOK, Requests
  <2>6. ClientTypeOK' /\ TopicsTypeOK'
    BY <1>0, <2>1, <2>2, <2>3, <2>4, <2>5 DEF Activate, ClientTypeOK, TopicsTypeOK
  <2>7. (MutexOwner /\ MayOpen /\ Endpoints /\ InHand)'
    BY <1>0, <2>1, <2>2, <2>3
       DEF Activate, Calls, MutexOwner, MayOpen, Endpoints, InHand, Holding
  <2>8. QED BY <1>0, <2>6, <2>7, ServerSideTyped
<1>3. CASE Register(u)
  <2>1. /\ call' \in [Users -> Calls] /\ call'[u] = NoCall
        /\ \A v \in Users \ {u} : call'[v] = call[v]
    BY <1>0, <1>3, Ends DEF Register
  <2>2. ClientTypeOK' /\ TopicsTypeOK'
    BY <1>0, <1>3, <2>1 DEF Register, InHand, ClientTypeOK, TopicsTypeOK
  <2>3. (MutexOwner /\ MayOpen /\ Endpoints /\ InHand)'
    BY <1>0, <1>3, <2>1
       DEF Register, NoCall, Calls, MutexOwner, MayOpen, Endpoints, InHand, Holding
  <2>4. QED BY <1>0, <2>2, <2>3, ServerSideTyped
<1>4. CASE \E id \in event_cache : Deactivate(u, id)
  <2> PICK id \in event_cache : Deactivate(u, id)
    BY <1>4
  <2>1. id \in EventIds /\ id.number \in Numbers
    BY <1>0 DEF ClientTypeOK, EventIds
  <2>2. results' \in [Numbers -> Results]
    <3>1. \A r \in Results : [r EXCEPT !.deactivated = TRUE] \in Results
      BY DEF Results
    <3>2. results' = [results EXCEPT ![id.number] = [results[id.number] EXCEPT !.deactivated = TRUE]]
      BY DEF Deactivate
    <3>3. QED BY <1>0, <2>1, <3>1, <3>2 DEF ClientTypeOK
  <2>3. requests' \subseteq Requests
    BY <1>0, <2>1 DEF Deactivate, TellServer, TopicsTypeOK, Requests
  <2>4. ClientTypeOK' /\ TopicsTypeOK'
    BY <1>0, <2>2, <2>3 DEF Deactivate, ClientTypeOK, TopicsTypeOK
  <2>5. (MutexOwner /\ MayOpen /\ Endpoints /\ InHand)'
    BY DEF Deactivate, MutexOwner, MayOpen, Endpoints, InHand
  <2>6. QED BY <1>0, <2>4, <2>5, ServerSideTyped
<1>5. QED BY <1>1, <1>2, <1>3, <1>4

\* A call that waits for an event leaves the connection alone.
LEMMA WaitingKeepsConnection ==
    ASSUME Conn, NEW u \in Users,
           UNCHANGED <<disconnected_guard, client_mutex, writer, reader, sessions>>,
           \A v \in Users \ {u} : call'[v] = call[v],
           call[u].at \in {"idle", "waiting", "woken"},
           call'[u].at \in {"idle", "waiting", "woken"}, call'[u].after # "open",
           call'[u].at \in {"waiting", "woken"} => call'[u].id \in EventIds
    PROVE  (MutexOwner /\ MayOpen /\ Endpoints /\ InHand)'
BY DEF Conn, MutexOwner, MayOpen, Endpoints, InHand, Holding

\* A thread that waits is in the middle of no connect.
LEMMA WaitingReturns ==
    ASSUME Conn, NEW u \in Users, call[u].at \in {"idle", "waiting", "woken"}
    PROVE  call[u].after # "open"
BY DEF Conn, MutexOwner, Holding

\* getEvent() and getNextEvent().
LEMMA WaitConn ==
    ASSUME Conn, NEW u \in Users, UNCHANGED ServerSide,
           \/ \E id \in event_cache : GetEvent(u, id) \/ GetNextEvent(u, id)
           \/ Wake(u) \/ TimeOut(u) \/ ReturnNothing(u)
    PROVE  Conn'
<1> USE SmallFacts DEF Conn, guards, counters, topics
<1>0. SystemTypeOK /\ ClientTypeOK /\ TopicsTypeOK /\ call \in [Users -> Calls]
  BY DEF SystemTypeOK, ClientTypeOK
<1>1. CASE \E id \in event_cache : GetEvent(u, id) \/ GetNextEvent(u, id)
  <2> PICK id \in event_cache : GetEvent(u, id) \/ GetNextEvent(u, id)
    BY <1>1
  <2> PICK next \in BOOLEAN : BeginWait(u, id, next)
    BY DEF GetEvent, GetNextEvent
  <2> DEFINE wait == [NoCall EXCEPT !.at = "waiting", !.id = id, !.next = next,
                                    !.since = IF next THEN Result(id).event ELSE 0]
  <2>1. id \in EventIds /\ Result(id).event \in 0 .. MaxPuts
    BY <1>0 DEF ClientTypeOK, EventIds, Result, Results
  <2>2. wait \in Calls /\ wait.at = "waiting" /\ wait.id = id /\ wait.after = "return"
    BY <2>1 DEF Calls, CallStates, NoCall
  <2> HIDE DEF wait
  <2>3. call[u].at = "idle" /\ call' = [call EXCEPT ![u] = wait]
    BY DEF BeginWait, wait
  <2>4. call' \in [Users -> Calls]
    BY <1>0, <2>2, <2>3
  <2>5. ClientTypeOK' /\ TopicsTypeOK'
    BY <1>0, <2>4 DEF BeginWait, ClientTypeOK, TopicsTypeOK
  <2>6. (MutexOwner /\ MayOpen /\ Endpoints /\ InHand)'
    BY <1>0, <2>1, <2>2, <2>3, WaitingKeepsConnection DEF BeginWait
  <2>7. QED BY <1>0, <2>5, <2>6, ServerSideTyped
<1>2. CASE Wake(u)
  <2>1. Active(u) \in SUBSET Conditions
    BY DEF Active
  <2> DEFINE woken == [call[u] EXCEPT !.at = "woken", !.active = Active(u),
                                      !.next_event_guard = FALSE]
  <2>2. woken \in Calls /\ woken.at = "woken" /\ woken.id = call[u].id
        /\ woken.after = call[u].after
    BY <1>0, <2>1 DEF Calls, CallStates
  <2> HIDE DEF woken
  <2>3. call[u].at = "waiting" /\ call' = [call EXCEPT ![u] = woken]
    BY <1>2 DEF Wake, woken
  <2>4. call' \in [Users -> Calls]
    BY <1>0, <2>2, <2>3
  <2>5. ClientTypeOK' /\ TopicsTypeOK'
    BY <1>0, <1>2, <2>4 DEF Wake, ClientTypeOK, TopicsTypeOK
  <2>6. (MutexOwner /\ MayOpen /\ Endpoints /\ InHand)'
    BY <1>0, <1>2, <2>2, <2>3, WaitingKeepsConnection, WaitingReturns DEF Wake, InHand
  <2>7. QED BY <1>0, <2>5, <2>6, ServerSideTyped
<1>3. CASE TimeOut(u)
  <2>1. /\ call' \in [Users -> Calls] /\ call'[u] = [call[u] EXCEPT !.at = "woken"]
        /\ \A v \in Users \ {u} : call'[v] = call[v]
    BY <1>0, <1>3, Moves DEF TimeOut, CallStates
  <2>2. ClientTypeOK' /\ TopicsTypeOK'
    BY <1>0, <1>3, <2>1 DEF TimeOut, ClientTypeOK, TopicsTypeOK
  <2>3. /\ call'[u].at = "woken" /\ call'[u].after = call[u].after
        /\ call'[u].id = call[u].id /\ call[u].at = "waiting"
    BY <1>0, <1>3, <2>1 DEF Calls, TimeOut
  <2>4. (MutexOwner /\ MayOpen /\ Endpoints /\ InHand)'
    BY <1>0, <1>3, <2>1, <2>3, WaitingKeepsConnection, WaitingReturns DEF TimeOut, InHand
  <2>5. QED BY <1>0, <2>2, <2>4, ServerSideTyped
<1>4. CASE ReturnNothing(u)
  <2>1. /\ call' \in [Users -> Calls] /\ call'[u] = NoCall
        /\ \A v \in Users \ {u} : call'[v] = call[v]
    BY <1>0, <1>4, Ends DEF ReturnNothing
  <2>2. ClientTypeOK' /\ TopicsTypeOK'
    BY <1>0, <1>4, <2>1 DEF ReturnNothing, ClientTypeOK, TopicsTypeOK
  <2>3. (MutexOwner /\ MayOpen /\ Endpoints /\ InHand)'
    BY <1>0, <1>4, <2>1, WaitingKeepsConnection DEF ReturnNothing, NoCall
  <2>4. QED BY <1>0, <2>2, <2>3, ServerSideTyped
<1>5. QED BY <1>1, <1>2, <1>3, <1>4

LEMMA ObtainConn ==
    ASSUME Conn, NEW u \in Users, Obtains(u)
    PROVE  Conn'
<1> USE SmallFacts DEF Conn, guards, counters, topics
<1>0. SystemTypeOK /\ ClientTypeOK /\ TopicsTypeOK /\ call \in [Users -> Calls]
  BY DEF SystemTypeOK, ClientTypeOK
<1>1. /\ call[u].at = "woken" /\ call[u].id \in EventIds
      /\ Result(call[u].id) \in Results /\ call[u].id.number \in Numbers
  <2>1. call[u].at = "woken" /\ call[u].id \in EventIds
    BY DEF Obtains, ReturnEvent, InHand
  <2>2. QED BY <1>0, <2>1 DEF ClientTypeOK, EventIds, Result
<1>2. /\ call' \in [Users -> Calls] /\ call'[u] = NoCall
      /\ \A v \in Users \ {u} : call'[v] = call[v]
  BY <1>0, Ends DEF Obtains, ReturnEvent
<1>3. results' \in [Numbers -> Results]
  <2>1. \A r \in Results : Consumed(r) \in Results
    BY DEF Results, Consumed
  <2>2. QED BY <1>0, <1>1, <2>1 DEF Obtains, ReturnEvent, ClientTypeOK
<1>4. ClientTypeOK' /\ TopicsTypeOK'
  BY <1>0, <1>2, <1>3 DEF Obtains, ReturnEvent, ClientTypeOK, TopicsTypeOK
<1>5. fires' = fires /\ obtained' \in [Numbers -> 0 .. MaxPuts]
  <2>1. Result(call[u].id).event \in 0 .. MaxPuts
    BY <1>1 DEF Results
  <2>2. QED BY <1>0, <1>1, <2>1 DEF Obtains, SystemTypeOK
<1>6. SystemTypeOK'
  BY <1>0, <1>4, <1>5 DEF Obtains, SystemTypeOK, serverVars, service, ServerTypeOK
<1>7. (MutexOwner /\ MayOpen /\ Endpoints /\ InHand)'
  BY <1>1, <1>2, WaitingKeepsConnection DEF Obtains, ReturnEvent, NoCall
<1>8. QED BY <1>6, <1>7

-----------------------------------------------------------------------------
\* The listener thread and DDS.
LEMMA ListenConn ==
    ASSUME Conn, UNCHANGED ServerSide, OnLivelinessChanged \/ OnDataAvailable \/ TakeEvent
    PROVE  Conn'
<1> USE SmallFacts DEF Conn, guards, counters, topics
<1>0. SystemTypeOK /\ ClientTypeOK /\ TopicsTypeOK /\ call \in [Users -> Calls]
  BY DEF SystemTypeOK, ClientTypeOK
<1>1. CASE OnLivelinessChanged
  <2>1. ClientTypeOK' /\ TopicsTypeOK'
    BY <1>0, <1>1 DEF OnLivelinessChanged, ClientTypeOK, TopicsTypeOK
  <2>2. (MutexOwner /\ MayOpen /\ Endpoints /\ InHand)'
    BY <1>1 DEF OnLivelinessChanged, MutexOwner, MayOpen, Endpoints, InHand, Holding
  <2>3. QED BY <1>0, <2>1, <2>2, ServerSideTyped
<1>2. CASE OnDataAvailable
  <2>1. reader' = [reader EXCEPT !.notified = FALSE]
    BY <1>2 DEF OnDataAvailable
  <2>2. TopicsTypeOK' /\ reader'.session = reader.session
    BY <1>0, <1>2, <2>1 DEF OnDataAvailable, TopicsTypeOK
  <2>3. ClientTypeOK'
    BY <1>0, <1>2 DEF OnDataAvailable, ClientTypeOK
  <2>4. (MutexOwner /\ MayOpen /\ Endpoints /\ InHand)'
    BY <1>2, <2>2 DEF OnDataAvailable, MutexOwner, MayOpen, Endpoints, InHand
  <2>5. QED BY <1>0, <2>2, <2>3, <2>4, ServerSideTyped
<1>3. CASE TakeEvent
  <2> DEFINE id == reader.sample.id
             put == reader.sample.put
             Flagged(v) == [call[v] EXCEPT !.next_event_guard = TRUE]
  <2>1. reader' = [reader EXCEPT !.sample = NoEvent]
    BY <1>3 DEF TakeEvent
  <2>2. TopicsTypeOK' /\ reader'.session = reader.session
    BY <1>0, <1>3, <2>1 DEF TakeEvent, TopicsTypeOK
  <2>3. put \in 0 .. MaxPuts /\ (id \in event_cache => id.number \in Numbers)
    <3>1. reader.sample \in Events \cup {NoEvent}
      BY <1>0 DEF TopicsTypeOK
    <3>2. put \in 0 .. MaxPuts
      BY <3>1, EventBounds DEF Events
    <3>3. QED BY <1>0, <3>2 DEF ClientTypeOK, EventIds
  <2>4. results' \in [Numbers -> Results]
    <3>1. \A r \in Results : Stored(r, put) \in Results
      BY <2>3 DEF Results, Stored
    <3>2. results' = results \/ results' = [results EXCEPT ![id.number] = Stored(@, put)]
      BY <1>3 DEF TakeEvent
    <3>3. CASE id \in event_cache
      BY <1>0, <2>3, <3>1, <3>2, <3>3 DEF ClientTypeOK
    <3>4. CASE id \notin event_cache
      BY <1>0, <1>3, <3>4 DEF TakeEvent, ClientTypeOK
    <3>5. QED BY <3>3, <3>4
  <2>5. \A v \in Users : Flagged(v) \in Calls /\ Flagged(v).at = call[v].at
                         /\ Flagged(v).after = call[v].after /\ Flagged(v).id = call[v].id
    BY <1>0 DEF Calls
  <2> HIDE DEF Flagged
  <2>6. call' = call \/ call' = [v \in Users |-> IF WaitsForNext(v, id) THEN Flagged(v) ELSE call[v]]
    BY <1>3 DEF TakeEvent, Flagged
  <2>7. /\ call' \in [Users -> Calls]
        /\ \A v \in Users : /\ call'[v].at = call[v].at /\ call'[v].id = call[v].id
                              /\ call'[v].after = call[v].after
    BY <1>0, <2>5, <2>6
  <2>8. ClientTypeOK'
    BY <1>0, <1>3, <2>4, <2>7 DEF TakeEvent, ClientTypeOK
  <2>9. (MutexOwner /\ MayOpen /\ Endpoints /\ InHand)'
    BY <1>3, <2>2, <2>7 DEF TakeEvent, MutexOwner, MayOpen, Endpoints, InHand
  <2>10. QED BY <1>0, <2>2, <2>8, <2>9, ServerSideTyped
<1>4. QED BY <1>1, <1>2, <1>3

\* What the topics and the server do leaves the client's invariants alone as long as
\* the reader keeps its session.
LEMMA ServerKeepsClient ==
    ASSUME Conn, UNCHANGED clientVars, reader'.session = reader.session, SystemTypeOK'
    PROVE  Conn'
BY DEF Conn, clientVars, guards, counters, MutexOwner, MayOpen, Endpoints, InHand

LEMMA ArrivesConn ==
    ASSUME Conn, Arrives
    PROVE  Conn'
<1> USE SmallFacts DEF Conn, guards, counters, topics
<1>0. SystemTypeOK /\ ClientTypeOK /\ TopicsTypeOK /\ call \in [Users -> Calls]
  BY DEF SystemTypeOK, ClientTypeOK
<1> PICK e \in events : Deliver(e)
  BY DEF Arrives
<1>1. reader' = [reader EXCEPT !.sample = e, !.notified = TRUE] /\ e \in Events
  BY <1>0 DEF Deliver, TopicsTypeOK
<1>2. TopicsTypeOK' /\ reader'.session = reader.session
  BY <1>0, <1>1 DEF Deliver, TopicsTypeOK
<1>3. SystemTypeOK'
  BY <1>0, <1>2 DEF Arrives, SystemTypeOK, clientVars, serverVars, service, history, ClientTypeOK,
                    ServerTypeOK
<1>4. QED BY <1>2, <1>3, ServerKeepsClient DEF Arrives

\* Firing changes nothing of an activation but the mark that it has fired.
LEMMA FireTyped ==
    ASSUME event_activations \subseteq Activations, NEW due \in SUBSET event_activations,
           FireEvents(due)
    PROVE  event_activations' \subseteq Activations
<1>1. \A a \in Activations : [a EXCEPT !.fired_once = TRUE] \in Activations
  BY DEF Activations
<1>2. QED BY <1>1 DEF FireEvents

LEMMA ServerConn ==
    ASSUME Conn, ServerStep
    PROVE  Conn'
<1> USE SmallFacts DEF Conn, guards, counters, topics
<1>0. SystemTypeOK /\ ClientTypeOK /\ TopicsTypeOK /\ call \in [Users -> Calls]
  BY DEF SystemTypeOK, ClientTypeOK
<1>1. reader' = reader
  BY DEF ServerStep, ServerUpcall, PutFails, OnRequestAvailable, TakeNothing, TakeRequest,
         BeginShutdown, LockServer, DetachServer, RestartServer
<1>2. TopicsTypeOK'
  BY <1>0 DEF TopicsTypeOK, ServerStep, ServerUpcall, PutFails, OnRequestAvailable,
              TakeNothing, TakeRequest, BeginShutdown, LockServer, DetachServer,
              RestartServer
<1>3. event_activations \subseteq Activations
  BY <1>0 DEF SystemTypeOK, ServerTypeOK
<1>4. event_activations' \subseteq Activations
  <2>1. ASSUME PutFails PROVE event_activations' \subseteq Activations
    <3>1. \/ UNCHANGED event_activations
          \/ \E a \in event_activations : FireEvents({a})
      BY <2>1 DEF PutFails, Tested
    <3>2. QED BY <1>3, <3>1, FireTyped
  <2>2. ASSUME NEW r \in requests, TakeRequest(r) PROVE event_activations' \subseteq Activations
    <3>1. r \in Requests
      BY <1>0 DEF TopicsTypeOK
    <3>2. r.mode # "deactivate" =>
            [id |-> r.id, mode |-> r.mode, fired_once |-> FALSE] \in Activations
      BY <3>1 DEF Requests, Activations
    <3>3. QED BY <1>0, <2>2, <3>2 DEF TakeRequest, ActivationsAfter, SystemTypeOK, ServerTypeOK
  <2>3. QED BY <1>0, <2>1, <2>2
            DEF ServerStep, ServerUpcall, OnRequestAvailable, TakeNothing, BeginShutdown,
                LockServer, DetachServer, RestartServer, SystemTypeOK, ServerTypeOK
<1>5. restarts' \in 0 .. MaxRestarts
  BY <1>0, RestartBound
     DEF ServerStep, ServerUpcall, PutFails, OnRequestAvailable, TakeNothing, TakeRequest,
         BeginShutdown, LockServer, DetachServer, RestartServer, SystemTypeOK, ServerTypeOK
<1>6. ServerTypeOK'
  BY <1>0, <1>4, <1>5
     DEF ServerStep, ServerUpcall, PutFails, OnRequestAvailable, TakeNothing, TakeRequest,
         BeginShutdown, LockServer, DetachServer, RestartServer, SystemTypeOK, ServerTypeOK
<1>7. SystemTypeOK'
  BY <1>0, <1>2, <1>6 DEF ServerStep, SystemTypeOK, clientVars, history, ClientTypeOK
<1>8. QED BY <1>1, <1>7, ServerKeepsClient DEF ServerStep

LEMMA PutConn ==
    ASSUME Conn, NEW due \in SUBSET event_activations, SystemPut(due)
    PROVE  Conn'
<1> USE SmallFacts DEF Conn, guards, counters, topics
<1>0. SystemTypeOK /\ ClientTypeOK /\ TopicsTypeOK /\ call \in [Users -> Calls]
  BY DEF SystemTypeOK, ClientTypeOK
<1>1. due \subseteq Activations /\ event_activations \subseteq Activations
  BY <1>0 DEF SystemTypeOK, ServerTypeOK
<1>2. puts' \in 0 .. MaxPuts /\ (due # {} => puts' \in 1 .. MaxPuts)
  BY <1>0, EventBounds DEF SystemPut, Put, SystemTypeOK, ServerTypeOK
<1>3. event_activations' \subseteq Activations
  BY <1>1, FireTyped DEF SystemPut, Put
<1>4. events' \subseteq Events
  <2>1. \A a \in due : [id |-> a.id, put |-> puts'] \in Events
    BY <1>1, <1>2 DEF Activations, Events
  <2>2. QED BY <1>0, <2>1 DEF SystemPut, Put, Sent, TopicsTypeOK
<1>5. fires' \in [Numbers -> SUBSET (1 .. MaxPuts)]
  <2>1. CASE due = {}
    BY <1>0, <2>1 DEF SystemPut, Fired, SystemTypeOK
  <2>2. CASE due # {}
    <3>1. \A n \in Numbers : fires[n] \cup {puts'} \in SUBSET (1 .. MaxPuts)
      BY <1>0, <1>2, <2>2 DEF SystemTypeOK
    <3>2. QED BY <1>0, <3>1 DEF SystemPut, Fired, SystemTypeOK
  <2>3. QED BY <2>1, <2>2
<1>6. ServerTypeOK' /\ TopicsTypeOK'
  BY <1>0, <1>2, <1>3, <1>4 DEF SystemPut, Put, SystemTypeOK, ServerTypeOK, TopicsTypeOK
<1>7. SystemTypeOK'
  BY <1>0, <1>5, <1>6 DEF SystemPut, SystemTypeOK, clientVars, ClientTypeOK
<1>8. QED BY <1>7, ServerKeepsClient DEF SystemPut, Put

-----------------------------------------------------------------------------
\* The steps of the system, action by action.
StepsOfUser(u) ==
    \/ /\ \/ Disconnect(u) \/ ClearEvents(u) \/ DetachReader(u) \/ Closed(u)
          \/ Connect(u) \/ OpenWriter(u) \/ OpenReader(u) \/ Connected(u) \/ ConnectFails(u)
          \/ \E blocking \in BOOLEAN : Blocking(u, blocking)
          \/ \E mode \in Modes : Activate(u, mode)
          \/ Register(u)
          \/ \E id \in event_cache : Deactivate(u, id)
          \/ \E id \in event_cache : GetEvent(u, id) \/ GetNextEvent(u, id)
          \/ Wake(u) \/ TimeOut(u) \/ ReturnNothing(u)
       /\ UNCHANGED ServerSide
    \/ Obtains(u)

LEMMA StepCases ==
    ASSUME Next
    PROVE  \/ \E u \in Users : StepsOfUser(u)
           \/ Listens \/ Arrives \/ ServerStep
           \/ \E due \in SUBSET event_activations : SystemPut(due)
<1>1. ASSUME NEW u \in Users, UserCalls(u) \/ UserProceeds(u) \/ UserTimesOut(u)
      PROVE  StepsOfUser(u)
  <2>1. CASE UserCalls(u)
    BY <2>1 DEF UserCalls, Call, Quietly, StepsOfUser, ServerSide
  <2>2. CASE UserProceeds(u)
    BY <2>2 DEF UserProceeds, Quietly, StepsOfUser, ServerSide
  <2>3. CASE UserTimesOut(u)
    BY <2>3 DEF UserTimesOut, Quietly, StepsOfUser, ServerSide
  <2>4. QED BY <1>1, <2>1, <2>2, <2>3
<1>2. QED BY <1>1 DEF Next, SystemStep

LEMMA NextConn == Conn /\ [Next]_vars => Conn'
<1> SUFFICES ASSUME Conn, [Next]_vars PROVE Conn'
  OBVIOUS
<1>1. ASSUME NEW u \in Users, StepsOfUser(u) PROVE Conn'
  BY <1>1, DisconnectConn, ConnectConn, ActivateConn, WaitConn, ObtainConn DEF StepsOfUser
<1>2. CASE Listens
  BY <1>2, ListenConn DEF Listens, Listen, Quietly, ServerSide
<1>3. CASE UNCHANGED vars
  BY <1>3 DEF vars, clientVars, guards, counters, serverVars, service, topics, history,
              Conn, SystemTypeOK, ClientTypeOK, ServerTypeOK, TopicsTypeOK, MutexOwner, MayOpen,
              Endpoints, InHand
<1>4. QED BY <1>1, <1>2, <1>3, ArrivesConn, ServerConn, PutConn, StepCases

\* The mutex has at most one owner, the end points follow the stage of its call.
THEOREM ConnInvariant == Spec => []Conn
BY InitConn, NextConn, PTL DEF Spec

\* A client that reports itself connected has both end points in one session, whatever
\* upcalls overlap its disconnects.
THEOREM ConnectedMeansEndpoints == Spec => []ConnectedHasEndpoints
<1>1. Conn => ConnectedHasEndpoints
  BY DEF Conn, Endpoints, ConnectedHasEndpoints
<1>2. QED BY <1>1, ConnInvariant, PTL

-----------------------------------------------------------------------------
\* The reader's filter is made of the identity of its own session.
FilterIsOwn ==
    reader.session # 0 => reader.expression = toString(VirtualGuid[reader.session])

Own == Conn /\ FilterIsOwn /\ OwnEventsOnly

\* A filter made of the identity of a session passes the events of that session only.
LEMMA FilterPassesOwn ==
    ASSUME NEW s \in Sessions, NEW id \in EventIds, Passes(toString(VirtualGuid[s]), id)
    PROVE  id.session = s
<1>1. VirtualGuid[s] \in Guids /\ VirtualGuid[id.session] \in Guids /\ id.session \in Sessions
  BY GuidsAreUnique DEF EventIds
<1>2. VirtualGuid[s] = VirtualGuid[id.session]
  BY <1>1, TextRoundTrip DEF Passes
<1>3. QED BY <1>1, <1>2, GuidsAreUnique

LEMMA InitOwn == Init => Own
BY InitConn DEF Init, TopicsInit, Own, FilterIsOwn, OwnEventsOnly, NoReader

\* The client's steps replace the reader, drop the sample it holds or leave it alone.
LEMMA ClientKeepsReader ==
    ASSUME Conn, \/ \E u \in Users : StepsOfUser(u)
                 \/ Listens
    PROVE  \/ reader' = NoReader /\ events' = {}
           \/ /\ writer \in Sessions /\ reader.session = 0
              /\ reader' = FilteredReader(writer) /\ events' = events
           \/ /\ reader'.session = reader.session /\ reader'.expression = reader.expression
              /\ reader'.sample \in {reader.sample, NoEvent} /\ events' = events
<1> USE DEF guards, counters, topics
<1>1. ASSUME NEW u \in Users, OpenReader(u)
      PROVE  writer \in Sessions /\ reader.session = 0
  <2>1. writer # 0 /\ reader.session = 0 /\ writer \in 0 .. sessions
        /\ sessions \in 0 .. MaxSessions
    BY <1>1 DEF OpenReader, Conn, Endpoints, SystemTypeOK, ClientTypeOK
  <2>2. QED BY <2>1, EventBounds DEF Sessions
<1>2. ASSUME NEW u \in Users, StepsOfUser(u)
      PROVE  \/ reader' = NoReader /\ events' = {}
             \/ OpenReader(u) /\ reader' = FilteredReader(writer) /\ events' = events
             \/ reader' = reader /\ events' = events
  BY <1>2 DEF StepsOfUser, Disconnect, ClearEvents, DetachReader, Closed, Connect, OpenWriter,
              OpenReader, Connected, ConnectFails, Blocking, Activate, Register, Deactivate,
              GetEvent, GetNextEvent, BeginWait, Wake, TimeOut, ReturnNothing, Obtains,
              ReturnEvent
<1>3. CASE Listens
  <2>1. reader \in [session : Sessions \cup {0}, expression : HexTexts,
                    sample : Events \cup {NoEvent}, notified : BOOLEAN]
    BY DEF Conn, SystemTypeOK, TopicsTypeOK
  <2>2. events' = events
    BY <1>3 DEF Listens, Listen, OnLivelinessChanged, OnDataAvailable, TakeEvent
  <2>3. CASE OnLivelinessChanged
    BY <2>2, <2>3 DEF OnLivelinessChanged
  <2>4. CASE OnDataAvailable
    BY <2>1, <2>2, <2>4 DEF OnDataAvailable
  <2>5. CASE TakeEvent
    BY <2>1, <2>2, <2>5 DEF TakeEvent
  <2>6. QED BY <1>3, <2>3, <2>4, <2>5 DEF Listens, Listen
<1>4. QED BY <1>1, <1>2, <1>3

LEMMA NextOwn == Own /\ [Next]_vars => Own'
<1> SUFFICES ASSUME Own, [Next]_vars PROVE Own'
  OBVIOUS
<1>0. Conn /\ Conn' /\ TopicsTypeOK /\ TopicsTypeOK' /\ SystemTypeOK
  BY NextConn DEF Own, Conn, SystemTypeOK
<1>1. CASE (\E u \in Users : StepsOfUser(u)) \/ Listens
  <2>1. CASE reader' = NoReader /\ events' = {}
    BY <1>0, <2>1 DEF Own, FilterIsOwn, OwnEventsOnly, NoReader
  <2>2. CASE /\ writer \in Sessions /\ reader.session = 0
             /\ reader' = FilteredReader(writer) /\ events' = events
    <3>1. events = {}
      BY <1>0, <2>2 DEF Own, OwnEventsOnly, TopicsTypeOK, Events, EventIds, Sessions
    <3>2. QED BY <1>0, <2>2, <3>1
              DEF Own, FilterIsOwn, OwnEventsOnly, FilteredReader, NoReader
  <2>3. CASE /\ reader'.session = reader.session /\ reader'.expression = reader.expression
             /\ reader'.sample \in {reader.sample, NoEvent} /\ events' = events
    BY <1>0, <2>3 DEF Own, FilterIsOwn, OwnEventsOnly
  <2>4. QED BY <1>0, <1>1, <2>1, <2>2, <2>3, ClientKeepsReader
<1>2. CASE Arrives
  <2> PICK e \in events : Deliver(e)
    BY <1>2 DEF Arrives
  <2>1. /\ reader'.session = reader.session /\ reader'.expression = reader.expression
        /\ reader'.sample = e /\ events' \subseteq events
    BY <1>0 DEF Deliver, TopicsTypeOK
  <2>2. QED BY <1>0, <2>1 DEF Own, FilterIsOwn, OwnEventsOnly
<1>3. CASE ServerStep
  <2>1. reader' = reader /\ events' \subseteq events
    BY <1>3 DEF ServerStep, ServerUpcall, PutFails, OnRequestAvailable, TakeNothing,
                TakeRequest, BeginShutdown, LockServer, DetachServer, RestartServer, topics
  <2>2. QED BY <1>0, <2>1 DEF Own, FilterIsOwn, OwnEventsOnly
<1>4. CASE \E due \in SUBSET event_activations : SystemPut(due)
  <2> PICK due \in SUBSET event_activations : SystemPut(due)
    BY <1>4
  <2>1. reader' = reader /\ events' = events \cup Sent({[id |-> a.id, put |-> puts'] : a \in due})
    BY DEF SystemPut, Put
  <2>2. ASSUME NEW e \in Sent({[id |-> a.id, put |-> puts'] : a \in due})
        PROVE  e.id.session = reader.session
    <3>1. PICK a \in due : e = [id |-> a.id, put |-> puts']
      BY <2>2 DEF Sent
    <3>2. e.id \in EventIds
      BY <1>0, <3>1 DEF SystemTypeOK, ServerTypeOK, Activations
    <3>3. reader.session # 0 /\ Passes(reader.expression, e.id)
      BY <2>2 DEF Sent
    <3>4. reader.session \in Sessions
      BY <1>0, <3>3 DEF TopicsTypeOK
    <3>5. QED BY <3>2, <3>3, <3>4, FilterPassesOwn DEF Own, FilterIsOwn
  <2>3. QED BY <1>0, <2>1, <2>2 DEF Own, FilterIsOwn, OwnEventsOnly
<1>5. CASE UNCHANGED vars
  BY <1>0, <1>5 DEF vars, topics, Own, FilterIsOwn, OwnEventsOnly
<1>6. QED BY <1>1, <1>2, <1>3, <1>4, <1>5, StepCases

\* The client receives the events of its present connection only: the filter compares
\* identities that went through a text of digits, which gives each back unchanged.
THEOREM OwnEvents == Spec => []OwnEventsOnly
<1>1. Own => OwnEventsOnly
  BY DEF Own
<1>2. QED BY <1>1, InitOwn, NextOwn, PTL DEF Spec

-----------------------------------------------------------------------------
\* The activations that are still talked about: in samples, at the server, in entries
\* and in the hands of the threads.
HasInHand(u) == call[u].at \in {"written", "waiting", "woken"}
Wired ==
    {r.id : r \in requests} \cup {a.id : a \in event_activations}
        \cup {e.id : e \in events} \cup ({reader.sample.id} \ {NoId})
Present == Wired \cup event_cache \cup {call[u].id : u \in {v \in Users : HasInHand(v)}}

\* Each of them has a number of its own that was handed out.
Numbered ==
    \A id \in Present :
        /\ id.number <= activated
        /\ \A other \in Present : id.number = other.number => id = other

\* What travels or is known to the server has an entry, was deactivated, or is about
\* to get its entry.
Registered ==
    \A id \in Wired :
        \/ id \in event_cache
        \/ Result(id).deactivated
        \/ \E u \in Users : call[u].at = "written" /\ call[u].id = id

\* What a thread waits for has its entry or was deactivated.
Awaited ==
    \A u \in Users :
        call[u].at \in {"waiting", "woken"} =>
            call[u].id \in event_cache \/ Result(call[u].id).deactivated

\* The guard of an entry and its event.
Consistent ==
    \A n \in Numbers :
        /\ results[n].has_new_event => results[n].has_event_guard
        /\ results[n].has_event_guard /\ ~results[n].has_new_event =>
             results[n].mode = "single"

\* A thread that waits for the next event has its guard set exactly when it was stored.
NextGuards ==
    \A u \in Users :
        /\ call[u].at = "waiting" =>
             /\ call[u].active = {}
             /\ call[u].next =>
                  /\ call[u].since <= Result(call[u].id).event
                  /\ call[u].next_event_guard <=> call[u].since < Result(call[u].id).event
        /\ call[u].at = "woken" /\ call[u].next /\ "event" \in call[u].active =>
             call[u].since < Result(call[u].id).event

Entries == Numbered /\ Registered /\ Awaited /\ Consistent /\ NextGuards

\* The events of an activation come in the order of their puts, each after the one its
\* entry has.
EventsAhead == events \cup ({reader.sample} \ {NoEvent})
Order ==
    /\ \A n \in Numbers : results[n].event <= puts
    /\ \A e \in EventsAhead : e.put <= puts /\ Result(e.id).event < e.put
    /\ reader.sample # NoEvent =>
         \A f \in events : f.id.number = reader.sample.id.number => reader.sample.put < f.put

\* A step that does nothing to the entries, and puts no activation in new hands.
CallFrame ==
    \A v \in Users :
        \/ call'[v] = call[v]
        \/ call[v].at # "written" /\ ~HasInHand(v)'
        \/ /\ call[v].at = "waiting" /\ call'[v].at = "woken"
           /\ call'[v].id = call[v].id /\ call'[v].next = call[v].next
           /\ call'[v].since = call[v].since
           /\ "event" \in call'[v].active /\ call[v].next /\ call[v].active = {} =>
                call[v].next_event_guard

WireFrame ==
    /\ requests' \subseteq requests /\ events' \subseteq events
    /\ reader'.sample \in {reader.sample, NoEvent}
    /\ event_activations' = event_activations

EntryFrame ==
    /\ activated' = activated
    /\ event_cache' \subseteq event_cache
    /\ \A id \in event_cache \ event_cache' : results'[id.number].deactivated
    /\ \A n \in Numbers :
         /\ results'[n].event = results[n].event
         /\ results[n].deactivated => results'[n].deactivated

\* A step to a place without an activation, and the end of a call, put none in new hands.
LEMMA LeavesHands ==
    ASSUME call \in [Users -> Calls], NEW u \in Users, call[u].at # "written",
           \/ \E place \in CallStates \ {"written", "waiting", "woken"} : Go(u, place)
           \/ Return(u)
    PROVE  CallFrame
<1>1. CASE \E place \in CallStates \ {"written", "waiting", "woken"} : Go(u, place)
  <2> PICK place \in CallStates \ {"written", "waiting", "woken"} : Go(u, place)
    BY <1>1
  <2>1. call'[u] = [call[u] EXCEPT !.at = place] /\ \A v \in Users \ {u} : call'[v] = call[v]
    BY Moves
  <2>2. call[u] \in Calls
    OBVIOUS
  <2>3. call'[u].at = place
    BY <2>1, <2>2 DEF Calls
  <2>4. QED BY <2>1, <2>3 DEF CallFrame, HasInHand
<1>2. CASE Return(u)
  <2>1. call'[u].at = "idle" /\ \A v \in Users \ {u} : call'[v] = call[v]
    BY <1>2, Ends DEF NoCall
  <2>2. QED BY <2>1 DEF CallFrame, HasInHand
<1>3. QED BY <1>1, <1>2

\* The steps of the calls that have nothing to do with the entries.
LEMMA QuietSteps ==
    ASSUME Conn, NEW u \in Users, UNCHANGED ServerSide,
           \/ Disconnect(u) \/ DetachReader(u) \/ Closed(u)
           \/ Connect(u) \/ OpenWriter(u) \/ OpenReader(u) \/ Connected(u) \/ ConnectFails(u)
           \/ \E blocking \in BOOLEAN : Blocking(u, blocking)
           \/ Wake(u) \/ TimeOut(u) \/ ReturnNothing(u)
    PROVE  EntryFrame /\ CallFrame /\ WireFrame
<1>0. call \in [Users -> Calls]
  BY DEF Conn, SystemTypeOK, ClientTypeOK
<1>1. EntryFrame
  BY DEF EntryFrame, Disconnect, DetachReader, Closed, Connect, OpenWriter, OpenReader,
         Connected, ConnectFails, Blocking, Wake, TimeOut, ReturnNothing, counters
<1>2. WireFrame
  <2>1. event_activations' = event_activations
    BY DEF ServerSide, serverVars, service
  <2>2. CASE DetachReader(u)
    BY <2>1, <2>2 DEF WireFrame, DetachReader, NoReader
  <2>3. CASE OpenReader(u)
    <3>1. reader'.sample = NoEvent /\ requests' = requests /\ events' = events
      BY <2>3 DEF OpenReader, FilteredReader, NoReader
    <3>2. QED BY <2>1, <3>1 DEF WireFrame
  <2>4. CASE ~DetachReader(u) /\ ~OpenReader(u)
    <3>1. requests' = requests /\ events' = events /\ reader' = reader
      BY <2>4 DEF Disconnect, Closed, Connect, OpenWriter, Connected, ConnectFails, Blocking,
                  Wake, TimeOut, ReturnNothing, topics
    <3>2. QED BY <2>1, <3>1 DEF WireFrame
  <2>5. QED BY <2>2, <2>3, <2>4
<1>3. CallFrame
  <2>1. CASE \/ Disconnect(u) \/ DetachReader(u) \/ OpenWriter(u) \/ OpenReader(u)
    <3>1. /\ call[u].at # "written"
          /\ \E place \in CallStates \ {"written", "waiting", "woken"} : Go(u, place)
      BY <2>1 DEF Disconnect, DetachReader, OpenWriter, OpenReader, CallStates
    <3>2. QED BY <1>0, <3>1, LeavesHands
  <2>2. CASE Closed(u)
    <3>1. /\ call[u].at # "written"
          /\ \/ \E place \in CallStates \ {"written", "waiting", "woken"} : Go(u, place)
             \/ Return(u)
      BY <2>2 DEF Closed, CallStates
    <3>2. QED BY <1>0, <3>1, LeavesHands
  <2>3. CASE Connected(u) \/ ReturnNothing(u)
    <3>1. call[u].at # "written" /\ Return(u)
      BY <2>3 DEF Connected, ReturnNothing
    <3>2. QED BY <1>0, <3>1, LeavesHands
  <2>4. CASE Connect(u) \/ ConnectFails(u)
    <3>1. /\ call[u].at # "written"
          /\ \E after \in {"open", "return"} :
               call' = [call EXCEPT ![u].at = "locking", ![u].after = after]
      BY <2>4 DEF Connect, ConnectFails
    <3>2. call'[u].at = "locking" /\ \A v \in Users \ {u} : call'[v] = call[v]
      BY <1>0, <3>1 DEF Calls
    <3>3. QED BY <3>1, <3>2 DEF CallFrame, HasInHand
  <2>5. CASE \E blocking \in BOOLEAN : Blocking(u, blocking)
    BY <2>5 DEF Blocking, CallFrame
  <2>6. CASE Wake(u)
    <3>1. call' = [call EXCEPT ![u].at = "woken", ![u].active = Active(u),
                               ![u].next_event_guard = FALSE]
          /\ call[u].at = "waiting"
      BY <2>6 DEF Wake
    <3>2. "event" \in Active(u) /\ call[u].next => call[u].next_event_guard
      BY DEF Active, EventGuard
    <3>3. \A v \in Users \ {u} : call'[v] = call[v]
      BY <1>0, <3>1
    <3>4. /\ call'[u].at = "woken" /\ call'[u].id = call[u].id /\ call'[u].next = call[u].next
          /\ call'[u].since = call[u].since /\ call'[u].active = Active(u)
      BY <1>0, <3>1 DEF Calls
    <3>5. QED BY <3>1, <3>2, <3>3, <3>4 DEF CallFrame
  <2>7. CASE TimeOut(u)
    <3>1. call[u].at = "waiting" /\ Go(u, "woken")
      BY <2>7 DEF TimeOut
    <3>2. call'[u] = [call[u] EXCEPT !.at = "woken"] /\ \A v \in Users \ {u} : call'[v] = call[v]
      BY <1>0, <3>1, Moves DEF CallStates
    <3>3. call[u] \in Calls
      BY <1>0
    <3>4. /\ call'[u].at = "woken" /\ call'[u].id = call[u].id /\ call'[u].next = call[u].next
          /\ call'[u].since = call[u].since /\ call'[u].active = call[u].active
      BY <3>2, <3>3 DEF Calls
    <3>5. "event" \in call'[u].active => call[u].active # {}
      BY <3>4
    <3>6. QED BY <3>1, <3>2, <3>4, <3>5 DEF CallFrame
  <2>8. QED BY <2>1, <2>2, <2>3, <2>4, <2>5, <2>6, <2>7
<1>4. QED BY <1>1, <1>2, <1>3

\* What was talked about and where it is found.
LEMMA HandsTyped ==
    ASSUME Conn
    PROVE  /\ Present \subseteq EventIds /\ Wired \subseteq Present
           /\ event_cache \subseteq Present
           /\ \A u \in Users : HasInHand(u) => call[u].id \in Present
           /\ \A id \in EventIds : id.number \in Numbers
           /\ call \in [Users -> Calls] /\ results \in [Numbers -> Results]
<1>1. {r.id : r \in requests} \subseteq EventIds
  BY DEF Conn, SystemTypeOK, TopicsTypeOK, Requests
<1>2. {a.id : a \in event_activations} \subseteq EventIds
  BY DEF Conn, SystemTypeOK, ServerTypeOK, Activations
<1>3. {e.id : e \in events} \subseteq EventIds /\ ({reader.sample.id} \ {NoId}) \subseteq EventIds
  BY SmallFacts DEF Conn, SystemTypeOK, TopicsTypeOK, Events
<1>4. event_cache \subseteq EventIds /\ \A u \in Users : HasInHand(u) => call[u].id \in EventIds
  BY DEF Conn, SystemTypeOK, ClientTypeOK, InHand, HasInHand
<1>5. \A id \in EventIds : id.number \in Numbers
  BY DEF EventIds
<1>6. call \in [Users -> Calls] /\ results \in [Numbers -> Results]
  BY DEF Conn, SystemTypeOK, ClientTypeOK
<1>7. QED BY <1>1, <1>2, <1>3, <1>4, <1>5, <1>6 DEF Present, Wired

\* A step that takes entries away only with a mark keeps the invariant.
LEMMA FrameKeepsEntries ==
    ASSUME Conn, Conn', Entries, EntryFrame, CallFrame, Consistent',
           \A id \in Wired' :
               id \in Wired \/ (id \in Present /\ results'[id.number].deactivated)
    PROVE  Entries'
<1>0. /\ Present \subseteq EventIds /\ Wired \subseteq Present
      /\ \A id \in EventIds : id.number \in Numbers
  BY HandsTyped
<1>1. \A v \in Users : HasInHand(v)' => HasInHand(v) /\ call'[v].id = call[v].id
  BY DEF CallFrame, HasInHand
<1>2. Present' \subseteq Present
  BY <1>0, <1>1 DEF EntryFrame, Present
<1>3. Numbered'
  BY <1>2 DEF Entries, Numbered, EntryFrame
<1>4. Registered'
  <2>1. ASSUME NEW id \in Wired'
        PROVE  \/ id \in event_cache' \/ results'[id.number].deactivated
               \/ \E v \in Users : call'[v].at = "written" /\ call'[v].id = id
    <3>1. CASE id \in Wired
      BY <1>0, <3>1 DEF Entries, Registered, EntryFrame, CallFrame, Result
    <3>2. QED BY <2>1, <3>1
  <2>2. QED BY <2>1 DEF Registered, Result
<1>5. Awaited'
  <2>1. ASSUME NEW v \in Users, call'[v].at \in {"waiting", "woken"}
        PROVE  call'[v].id \in event_cache' \/ results'[call'[v].id.number].deactivated
    <3>1. call[v].at \in {"waiting", "woken"} /\ call'[v].id = call[v].id
          /\ call[v].id.number \in Numbers
      BY <2>1, HandsTyped DEF CallFrame, HasInHand
    <3>2. call[v].id \in event_cache \/ results[call[v].id.number].deactivated
      BY <3>1 DEF Entries, Awaited, Result
    <3>3. QED BY <3>1, <3>2 DEF EntryFrame
  <2>2. QED BY <2>1 DEF Awaited, Result
<1>6. NextGuards'
  <2>1. ASSUME NEW v \in Users, HasInHand(v)'
        PROVE  results'[call'[v].id.number].event = results[call[v].id.number].event
    BY <1>1, <2>1, HandsTyped DEF EntryFrame
  <2>2. QED BY <2>1 DEF Entries, NextGuards, CallFrame, Result, HasInHand
<1>7. QED BY <1>3, <1>4, <1>5, <1>6 DEF Entries

LEMMA WireFrameKeepsWired ==
    ASSUME WireFrame
    PROVE  Wired' \subseteq Wired
BY SmallFacts DEF WireFrame, Wired

\* disconnect() takes the entries, having marked them.
LEMMA ClearEntries ==
    ASSUME Conn, Conn', Entries, NEW u \in Users, ClearEvents(u), UNCHANGED ServerSide
    PROVE  Entries'
<1>0. /\ call \in [Users -> Calls] /\ results \in [Numbers -> Results]
      /\ \A id \in event_cache : id.number \in Numbers
  BY HandsTyped
<1>1. /\ event_cache' = {} /\ writer' = 0 /\ requests' \subseteq requests
      /\ events' = events /\ reader' = reader /\ activated' = activated
      /\ event_activations' = event_activations
      /\ call[u].at = "locking" /\ Go(u, "detaching")
  BY DEF ClearEvents, counters, ServerSide, serverVars, service
<1>2. \A n \in Numbers :
        /\ results'[n].event = results[n].event
        /\ results'[n].mode = results[n].mode
        /\ results'[n].has_new_event = results[n].has_new_event
        /\ results'[n].has_event_guard = results[n].has_event_guard
        /\ results[n].deactivated => results'[n].deactivated
        /\ (\E id \in event_cache : id.number = n) => results'[n].deactivated
  BY <1>0 DEF ClearEvents, EntriesDeactivated, Results
<1>3. EntryFrame
  BY <1>0, <1>1, <1>2 DEF EntryFrame
<1>4. CallFrame
  BY <1>0, <1>1, LeavesHands DEF CallStates
<1>5. Consistent'
  BY <1>2 DEF Entries, Consistent
<1>6. Wired' \subseteq Wired
  BY <1>1 DEF Wired
<1>7. QED BY <1>3, <1>4, <1>5, <1>6, FrameKeepsEntries

\* activate() makes an activation nobody has talked about.
LEMMA ActivateEntries ==
    ASSUME Conn, Conn', Entries, NEW u \in Users, NEW mode \in Modes, Activate(u, mode),
           UNCHANGED ServerSide
    PROVE  Entries'
<1> DEFINE id == [session |-> writer, number |-> activated + 1]
<1>0. /\ call \in [Users -> Calls] /\ results \in [Numbers -> Results]
      /\ Present \subseteq EventIds /\ Wired \subseteq Present /\ event_cache \subseteq Present
      /\ \A other \in EventIds : other.number \in Numbers
      /\ \A v \in Users : HasInHand(v) => call[v].id \in Present
      /\ activated \in Nat /\ activated + 1 \in Numbers
  BY HandsTyped, EventBounds DEF Activate, Conn, SystemTypeOK, ClientTypeOK, Numbers
<1>1. /\ call' = [call EXCEPT ![u].at = "written", ![u].id = id]
      /\ call[u].at = "idle" /\ activated' = activated + 1
      /\ results' = [results EXCEPT ![activated + 1] = NewResult(mode)]
      /\ event_cache' = event_cache /\ event_activations' = event_activations
      /\ events' = events /\ reader' = reader
      /\ requests' \subseteq requests \cup {[mode |-> mode, id |-> id]}
  BY DEF Activate, ServerSide, serverVars, service
<1>2. id.number = activated + 1
  OBVIOUS
<1> HIDE DEF id
<1>3. /\ call'[u].at = "written" /\ call'[u].id = id
      /\ \A v \in Users \ {u} : call'[v] = call[v]
  BY <1>0, <1>1 DEF Calls
<1>4. Wired' \subseteq Wired \cup {id}
  BY <1>1 DEF Wired
<1>5. Present' \subseteq Present \cup {id}
  <2>1. \A v \in Users : HasInHand(v)' => call'[v].id = id \/ (HasInHand(v) /\ call'[v] = call[v])
    BY <1>3 DEF HasInHand
  <2>2. \A v \in Users : HasInHand(v)' => call'[v].id \in Present \cup {id}
    BY <1>0, <2>1
  <2>3. event_cache' \subseteq Present
    BY <1>0, <1>1
  <2>4. QED BY <1>0, <1>4, <2>2, <2>3 DEF Present
<1>6. \A other \in Present : other.number \in Nat /\ other.number <= activated
  BY <1>0 DEF Entries, Numbered, EventIds, Numbers
<1>7. \A other \in Present : results'[other.number] = results[other.number]
  BY <1>0, <1>1, <1>6
<1>8. Numbered'
  BY <1>0, <1>1, <1>2, <1>5, <1>6 DEF Entries, Numbered
<1>9. Registered'
  <2>1. ASSUME NEW other \in Wired'
        PROVE  \/ other \in event_cache' \/ results'[other.number].deactivated
               \/ \E v \in Users : call'[v].at = "written" /\ call'[v].id = other
    <3>1. CASE other = id
      BY <1>3, <3>1
    <3>2. CASE other \in Wired
      BY <1>0, <1>1, <1>3, <1>7, <3>2 DEF Entries, Registered, Result
    <3>3. QED BY <1>4, <2>1, <3>1, <3>2
  <2>2. QED BY <2>1 DEF Registered, Result
<1>10. Awaited'
  <2>1. ASSUME NEW v \in Users, call'[v].at \in {"waiting", "woken"}
        PROVE  call'[v].id \in event_cache' \/ results'[call'[v].id.number].deactivated
    <3>1. call'[v] = call[v] /\ call[v].id \in Present
      BY <1>0, <1>3, <2>1 DEF HasInHand
    <3>2. QED BY <1>1, <1>7, <2>1, <3>1 DEF Entries, Awaited, Result
  <2>2. QED BY <2>1 DEF Awaited, Result
<1>11. Consistent'
  BY <1>0, <1>1 DEF Entries, Consistent, NewResult
<1>12. NextGuards'
  <2>1. \A v \in Users : call'[v].at \in {"waiting", "woken"} =>
          /\ call'[v] = call[v]
          /\ results'[call'[v].id.number].event = results[call[v].id.number].event
    BY <1>0, <1>3, <1>7 DEF HasInHand
  <2>2. QED BY <2>1 DEF Entries, NextGuards, Result
<1>13. QED BY <1>8, <1>9, <1>10, <1>11, <1>12 DEF Entries

LEMMA RegisterEntries ==
    ASSUME Conn, Conn', Entries, NEW u \in Users, Register(u), UNCHANGED ServerSide
    PROVE  Entries'
<1>0. /\ call \in [Users -> Calls] /\ call[u].id \in Present
      /\ \A v \in Users : HasInHand(v) => call[v].id \in Present
  BY HandsTyped DEF Register, HasInHand
<1>1. /\ event_cache' = event_cache \cup {call[u].id} /\ results' = results
      /\ activated' = activated /\ Wired' = Wired
      /\ call[u].at = "written" /\ Return(u)
  BY DEF Register, counters, ServerSide, serverVars, service, topics, Wired
<1>2. call'[u].at = "idle" /\ \A v \in Users \ {u} : call'[v] = call[v]
  BY <1>0, <1>1, Ends DEF NoCall
<1>3. Present' \subseteq Present
  BY <1>0, <1>1, <1>2 DEF Present, HasInHand
<1>4. Numbered'
  BY <1>1, <1>3 DEF Entries, Numbered
<1>5. Registered'
  BY <1>1, <1>2 DEF Entries, Registered, Result
<1>6. Awaited'
  BY <1>1, <1>2 DEF Entries, Awaited, Result
<1>7. Consistent'
  BY <1>1 DEF Entries, Consistent
<1>8. NextGuards'
  BY <1>1, <1>2 DEF Entries, NextGuards, Result
<1>9. QED BY <1>4, <1>5, <1>6, <1>7, <1>8 DEF Entries

LEMMA DeactivateEntries ==
    ASSUME Conn, Conn', Entries, NEW u \in Users, NEW id \in event_cache, Deactivate(u, id),
           UNCHANGED ServerSide
    PROVE  Entries'
<1>0. /\ results \in [Numbers -> Results] /\ id.number \in Numbers /\ id \in Present
  BY HandsTyped
<1>1. /\ event_cache' = event_cache \ {id} /\ activated' = activated /\ call' = call
      /\ results' = [results EXCEPT ![id.number] = [results[id.number] EXCEPT !.deactivated = TRUE]]
      /\ events' = events /\ reader' = reader /\ event_activations' = event_activations
      /\ requests' \subseteq requests \cup {[mode |-> "deactivate", id |-> id]}
  BY DEF Deactivate, TellServer, counters, ServerSide, serverVars, service
<1>2. \A n \in Numbers :
        /\ results'[n].event = results[n].event
        /\ results'[n].mode = results[n].mode
        /\ results'[n].has_new_event = results[n].has_new_event
        /\ results'[n].has_event_guard = results[n].has_event_guard
        /\ results[n].deactivated => results'[n].deactivated
  <2>1. ASSUME NEW r \in Results, NEW s, s = [r EXCEPT !.deactivated = TRUE]
        PROVE  /\ s.event = r.event /\ s.mode = r.mode /\ s.has_new_event = r.has_new_event
               /\ s.has_event_guard = r.has_event_guard /\ s.deactivated
    BY <2>1 DEF Results
  <2>2. \A n \in Numbers :
          results'[n] \in {results[n], [results[n] EXCEPT !.deactivated = TRUE]}
    BY <1>0, <1>1
  <2>3. QED BY <1>0, <2>1, <2>2
<1>3. results'[id.number].deactivated
  BY <1>0, <1>1 DEF Results
<1>4. EntryFrame
  BY <1>1, <1>2, <1>3 DEF EntryFrame
<1>5. CallFrame /\ Consistent'
  BY <1>1, <1>2 DEF CallFrame, Entries, Consistent
<1>6. Wired' \subseteq Wired \cup {id}
  BY <1>1 DEF Wired
<1>7. QED BY <1>0, <1>3, <1>4, <1>5, <1>6, FrameKeepsEntries

\* getEvent and getNextEvent begin with an entry and remember its event.
LEMMA WaitEntries ==
    ASSUME Conn, Conn', Entries, NEW u \in Users, NEW id \in event_cache, NEW next \in BOOLEAN,
           BeginWait(u, id, next), UNCHANGED ServerSide
    PROVE  Entries'
<1>0. /\ call \in [Users -> Calls] /\ results \in [Numbers -> Results]
      /\ id.number \in Numbers /\ id \in Present /\ Result(id).event \in Int
      /\ \A v \in Users : HasInHand(v) => call[v].id \in Present
  BY HandsTyped, EventBounds DEF Result, Results
<1> DEFINE since == IF next THEN Result(id).event ELSE 0
<1>1. /\ call' = [call EXCEPT ![u] = [NoCall EXCEPT !.at = "waiting", !.id = id, !.next = next,
                                          !.since = since]]
      /\ call[u].at = "idle"
      /\ event_cache' = event_cache /\ results' = results /\ activated' = activated
      /\ Wired' = Wired
  BY DEF BeginWait, counters, topics, ServerSide, serverVars, service, Wired
<1>2. next => since = Result(id).event
  OBVIOUS
<1> HIDE DEF since
<1>3. /\ call'[u].at = "waiting" /\ call'[u].id = id /\ call'[u].next = next
      /\ call'[u].since = since /\ call'[u].next_event_guard = FALSE /\ call'[u].active = {}
      /\ \A v \in Users \ {u} : call'[v] = call[v]
  BY <1>0, <1>1 DEF NoCall
<1>4. Present' \subseteq Present
  <2>1. \A v \in Users : HasInHand(v)' => call'[v].id = id \/ (HasInHand(v) /\ call'[v] = call[v])
    BY <1>3 DEF HasInHand
  <2>2. \A v \in Users : HasInHand(v)' => call'[v].id \in Present
    BY <1>0, <2>1
  <2>3. QED BY <1>1, <2>2, HandsTyped DEF Present
<1>5. Numbered'
  BY <1>1, <1>4 DEF Entries, Numbered
<1>6. Registered'
  BY <1>1, <1>3 DEF Entries, Registered, Result
<1>7. Awaited'
  BY <1>1, <1>3 DEF Entries, Awaited, Result
<1>8. Consistent'
  BY <1>1 DEF Entries, Consistent
<1>9. NextGuards'
  BY <1>0, <1>1, <1>2, <1>3 DEF Entries, NextGuards, Result
<1>10. QED BY <1>5, <1>6, <1>7, <1>8, <1>9 DEF Entries

\* What consumes an event leaves a guard without one in single mode only.
LEMMA ObtainEntries ==
    ASSUME Conn, Conn', Entries, NEW u \in Users, Obtains(u)
    PROVE  Entries'
<1>0. /\ call \in [Users -> Calls] /\ results \in [Numbers -> Results]
  BY HandsTyped
<1> DEFINE k == call[u].id.number
<1>1. /\ event_cache' = event_cache /\ activated' = activated /\ Wired' = Wired
      /\ results' = [results EXCEPT ![k] = Consumed(results[k])]
      /\ call[u].at = "woken" /\ Return(u)
  BY DEF Obtains, ReturnEvent, counters, topics, serverVars, service, Wired
<1> HIDE DEF k
<1>2. \A n \in Numbers : results'[n] \in {results[n], Consumed(results[n])}
  BY <1>0, <1>1
<1>3. ASSUME NEW r \in Results, NEW s, s = Consumed(r)
      PROVE  /\ s.event = r.event /\ s.mode = r.mode /\ s.has_new_event = FALSE
             /\ s.has_event_guard => s.mode = "single"
             /\ s.deactivated = r.deactivated
  BY <1>3 DEF Consumed, Results
<1>4. EntryFrame
  BY <1>0, <1>1, <1>2, <1>3 DEF EntryFrame
<1>5. CallFrame
  BY <1>0, <1>1, LeavesHands
<1>6. Consistent'
  <2>1. \A n \in Numbers : results[n] \in Results
    BY <1>0
  <2>2. \A n \in Numbers :
          \/ results'[n] = results[n]
          \/ /\ results'[n].has_new_event = FALSE
             /\ results'[n].has_event_guard => results'[n].mode = "single"
    BY <1>2, <1>3, <2>1
  <2>3. QED BY <2>2 DEF Entries, Consistent
<1>7. QED BY <1>1, <1>4, <1>5, <1>6, FrameKeepsEntries

\* The listener stores the event of an entry and wakes those that wait for the next one.
LEMMA TakeEntries ==
    ASSUME Conn, Conn', Entries, Order, TakeEvent, UNCHANGED ServerSide
    PROVE  Entries'
<1> DEFINE id == reader.sample.id
<1>0. /\ call \in [Users -> Calls] /\ results \in [Numbers -> Results]
      /\ \A v \in Users : HasInHand(v) => call[v].id \in Present
      /\ \A other \in Present : other.number \in Numbers
      /\ event_cache \subseteq Present
  BY HandsTyped
<1>1. /\ event_cache' = event_cache /\ activated' = activated /\ Wired' \subseteq Wired
      /\ reader.sample # NoEvent \/ id \notin event_cache
  <2>1. reader'.sample = NoEvent /\ requests' = requests /\ events' = events
        /\ event_activations' = event_activations
    BY DEF TakeEvent, Conn, SystemTypeOK, TopicsTypeOK, ServerSide, serverVars, service
  <2>2. id \in event_cache => id \in EventIds
    BY DEF Conn, SystemTypeOK, ClientTypeOK
  <2>3. QED BY <2>1, <2>2, SmallFacts DEF TakeEvent, counters, Wired
<1>2. CASE id \notin event_cache
  <2>1. results' = results /\ call' = call
    BY <1>2 DEF TakeEvent
  <2>2. EntryFrame /\ CallFrame /\ Consistent'
    BY <1>1, <2>1 DEF EntryFrame, CallFrame, Entries, Consistent
  <2>3. QED BY <1>1, <2>2, FrameKeepsEntries
<1>3. CASE id \in event_cache
  <2> DEFINE put == reader.sample.put
  <2>1. /\ results' = [results EXCEPT ![id.number] = Stored(results[id.number], put)]
        /\ call' = [u \in Users |-> IF WaitsForNext(u, id)
                                      THEN [call[u] EXCEPT !.next_event_guard = TRUE] ELSE call[u]]
    BY <1>3 DEF TakeEvent
  <2>2. /\ id \in Present /\ id.number \in Numbers
        /\ put \in Int /\ Result(id).event \in Int /\ Result(id).event < put
    <3>1. id \in Present /\ id.number \in Numbers
      BY <1>0, <1>3
    <3>2. reader.sample # NoEvent
      BY <1>1, <1>3
    <3>3. reader.sample \in Events
      BY <3>2 DEF Conn, SystemTypeOK, TopicsTypeOK
    <3>4. put \in Int
      BY <3>3 DEF Events
    <3>5. Result(id).event \in Int
      BY <1>0, <3>1 DEF Result, Results
    <3>6. Result(id).event < put
      BY <3>2 DEF Order, EventsAhead
    <3>7. QED BY <3>1, <3>4, <3>5, <3>6
  <2> HIDE DEF id, put
  <2>3. ASSUME NEW r \in Results, NEW s, s = Stored(r, put)
        PROVE  /\ s.event = put /\ s.has_new_event /\ s.has_event_guard
               /\ s.mode = r.mode /\ s.deactivated = r.deactivated
    BY <2>3 DEF Stored, Results
  <2>4. /\ \A n \in Numbers \ {id.number} : results'[n] = results[n]
        /\ results'[id.number].event = put
        /\ results'[id.number].has_new_event /\ results'[id.number].has_event_guard
        /\ results'[id.number].deactivated = results[id.number].deactivated
    BY <1>0, <2>1, <2>2, <2>3
  <2>5. \A u \in Users :
          /\ call'[u].at = call[u].at /\ call'[u].id = call[u].id /\ call'[u].next = call[u].next
          /\ call'[u].since = call[u].since /\ call'[u].active = call[u].active
          /\ call'[u].next_event_guard <=> (WaitsForNext(u, id) \/ call[u].next_event_guard)
    BY <1>0, <2>1 DEF Calls
  <2>6. Present' \subseteq Present
    BY <1>1, <2>5 DEF Present, HasInHand
  <2>7. Numbered'
    BY <1>1, <2>6 DEF Entries, Numbered
  <2>8. \A other \in Present : results'[other.number].deactivated = results[other.number].deactivated
    BY <1>0, <2>4
  <2>9. Registered'
    <3>1. \A other \in Wired' : other \in Wired /\ other \in Present
      BY <1>1, HandsTyped
    <3>2. ASSUME NEW other \in Wired'
          PROVE  \/ other \in event_cache' \/ results'[other.number].deactivated
                 \/ \E v \in Users : call'[v].at = "written" /\ call'[v].id = other
      BY <1>1, <2>5, <2>8, <3>1 DEF Entries, Registered, Result
    <3>3. QED BY <3>2 DEF Registered, Result
  <2>10. Awaited'
    <3>1. ASSUME NEW v \in Users, call'[v].at \in {"waiting", "woken"}
          PROVE  call'[v].id \in event_cache' \/ results'[call'[v].id.number].deactivated
      <4>1. call[v].at \in {"waiting", "woken"} /\ call[v].id \in Present
        BY <1>0, <2>5, <3>1 DEF HasInHand
      <4>2. QED BY <1>1, <2>5, <2>8, <4>1 DEF Entries, Awaited, Result
    <3>2. QED BY <3>1 DEF Awaited, Result
  <2>11. Consistent'
    BY <2>4 DEF Entries, Consistent
  <2>12. NextGuards'
    <3>1. ASSUME NEW v \in Users, HasInHand(v)
          PROVE  /\ call[v].id.number = id.number => call[v].id = id
                 /\ call[v].id.number \in Numbers
      BY <1>0, <2>2, <3>1 DEF Entries, Numbered
    <3>2. ASSUME NEW v \in Users, HasInHand(v)
          PROVE  \/ call[v].id = id
                 \/ results'[call[v].id.number] = results[call[v].id.number] /\ call[v].id # id
      BY <2>4, <3>1, <3>2
    <3>3. ASSUME NEW v \in Users, call'[v].at = "waiting"
          PROVE  /\ call'[v].active = {}
                 /\ call'[v].next =>
                      /\ call'[v].since <= results'[call'[v].id.number].event
                      /\ call'[v].next_event_guard <=>
                            call'[v].since < results'[call'[v].id.number].event
      <4>1. /\ call[v].at = "waiting" /\ HasInHand(v) /\ call[v].active = {}
            /\ call[v].since \in Int
            /\ call[v].next =>
                 /\ call[v].since <= results[call[v].id.number].event
                 /\ call[v].next_event_guard <=> call[v].since < results[call[v].id.number].event
        BY <1>0, <2>5, <3>3 DEF HasInHand, Entries, NextGuards, Result, Calls
      <4>2. CASE call[v].id = id
        <5>1. call[v].next => call[v].since < put
          BY <2>2, <4>1, <4>2 DEF Result
        <5>2. call[v].next => WaitsForNext(v, id)
          BY <4>1, <4>2 DEF WaitsForNext
        <5>3. QED BY <2>2, <2>4, <2>5, <4>1, <4>2, <5>1, <5>2
      <4>3. CASE call[v].id # id
        <5>1. ~WaitsForNext(v, id)
          BY <4>3 DEF WaitsForNext
        <5>2. results'[call[v].id.number] = results[call[v].id.number]
          BY <3>2, <4>1, <4>3
        <5>3. QED BY <2>5, <4>1, <5>1, <5>2
      <4>4. QED BY <4>2, <4>3
    <3>4. ASSUME NEW v \in Users, call'[v].at = "woken", call'[v].next,
                 "event" \in call'[v].active
          PROVE  call'[v].since < results'[call'[v].id.number].event
      <4>1. /\ HasInHand(v) /\ call[v].since \in Int
            /\ call[v].since < results[call[v].id.number].event
        BY <1>0, <2>5, <3>4 DEF HasInHand, Entries, NextGuards, Result, Calls
      <4>2. CASE call[v].id = id
        BY <2>2, <2>4, <2>5, <4>1, <4>2 DEF Result
      <4>3. CASE call[v].id # id
        BY <2>5, <3>2, <4>1, <4>3
      <4>4. QED BY <4>2, <4>3
    <3>5. QED BY <3>3, <3>4 DEF NextGuards, Result
  <2>13. QED BY <2>7, <2>9, <2>10, <2>11, <2>12 DEF Entries
<1>4. QED BY <1>2, <1>3

\* The server, its user and the arrival of events leave the client's entries alone.
LEMMA OthersKeepWired ==
    ASSUME Conn,
           \/ Arrives \/ ServerStep
           \/ \E due \in SUBSET event_activations : SystemPut(due)
    PROVE  Wired' \subseteq Wired /\ UNCHANGED clientVars
<1>0. /\ event_activations \subseteq Activations
      /\ reader \in [session : Sessions \cup {0}, expression : HexTexts,
                     sample : Events \cup {NoEvent}, notified : BOOLEAN]
  BY DEF Conn, SystemTypeOK, ServerTypeOK, TopicsTypeOK
<1>1. ASSUME NEW due \in SUBSET event_activations, FireEvents(due)
      PROVE  {a.id : a \in event_activations'} \subseteq {a.id : a \in event_activations}
  <2>1. \A a \in due : [a EXCEPT !.fired_once = TRUE].id = a.id
    BY <1>0 DEF Activations
  <2>2. ASSUME NEW b \in event_activations'
        PROVE  b.id \in {a.id : a \in event_activations}
    <3>1. \/ b \in event_activations
          \/ \E a \in due : b = [a EXCEPT !.fired_once = TRUE]
      BY <1>1 DEF FireEvents
    <3>2. QED BY <2>1, <3>1
  <2>3. QED BY <2>2
<1>2. CASE Arrives
  <2> PICK e \in events : Deliver(e)
    BY <1>2 DEF Arrives
  <2>1. /\ reader'.sample = e /\ events' \subseteq events /\ requests' = requests
        /\ event_activations' = event_activations /\ UNCHANGED clientVars
    BY <1>0, <1>2 DEF Arrives, Deliver, serverVars, service
  <2>2. QED BY <2>1 DEF Wired
<1>3. CASE ServerStep
  <2>1. reader' = reader /\ events' \subseteq events /\ UNCHANGED clientVars
    BY <1>3 DEF ServerStep, ServerUpcall, PutFails, OnRequestAvailable, TakeNothing,
                TakeRequest, BeginShutdown, LockServer, DetachServer, RestartServer, topics
  <2>2. CASE PutFails
    <3>1. \/ event_activations' = event_activations
          \/ \E a \in event_activations : FireEvents({a})
      BY <2>2 DEF PutFails, Tested
    <3>2. {a.id : a \in event_activations'} \subseteq {a.id : a \in event_activations}
      BY <1>1, <3>1
    <3>3. requests' = requests
      BY <2>2 DEF PutFails, topics
    <3>4. QED BY <2>1, <3>2, <3>3 DEF Wired
  <2>3. ASSUME NEW r \in requests, TakeRequest(r)
        PROVE  Wired' \subseteq Wired
    <3>1. /\ requests' \subseteq requests
          /\ event_activations' \subseteq
               event_activations \cup {[id |-> r.id, mode |-> r.mode, fired_once |-> FALSE]}
      BY <2>3 DEF TakeRequest, ActivationsAfter
    <3>2. QED BY <2>1, <3>1 DEF Wired
  <2>4. CASE ~PutFails /\ ~\E r \in requests : TakeRequest(r)
    <3>1. requests' \subseteq requests /\ event_activations' \subseteq event_activations
      BY <1>3, <2>4 DEF ServerStep, ServerUpcall, OnRequestAvailable, TakeNothing,
                        BeginShutdown, LockServer, DetachServer, RestartServer, topics
    <3>2. QED BY <2>1, <3>1 DEF Wired
  <2>5. QED BY <2>1, <2>2, <2>3, <2>4
<1>4. CASE \E due \in SUBSET event_activations : SystemPut(due)
  <2> PICK due \in SUBSET event_activations : SystemPut(due)
    BY <1>4
  <2>1. /\ reader' = reader /\ requests' = requests /\ FireEvents(due) /\ UNCHANGED clientVars
        /\ events' \subseteq events \cup {[id |-> a.id, put |-> puts'] : a \in due}
    BY DEF SystemPut, Put, Sent
  <2>2. {a.id : a \in event_activations'} \subseteq {a.id : a \in event_activations}
    BY <1>1, <2>1
  <2>3. {e.id : e \in events'} \subseteq {e.id : e \in events} \cup {a.id : a \in event_activations}
    BY <2>1
  <2>4. QED BY <2>1, <2>2, <2>3 DEF Wired
<1>5. QED BY <1>2, <1>3, <1>4

\* The steps of the users do not give an entry a newer event.
LEMMA UsersKeepEvents ==
    ASSUME Conn, NEW u \in Users, StepsOfUser(u), NEW n \in Numbers
    PROVE  results'[n].event \in {results[n].event, 0}
<1>0. results \in [Numbers -> Results]
  BY HandsTyped
<1>1. CASE ClearEvents(u)
  BY <1>0, <1>1 DEF ClearEvents, EntriesDeactivated, Results
<1>2. CASE \E mode \in Modes : Activate(u, mode)
  <2> PICK mode \in Modes : Activate(u, mode)
    BY <1>2
  <2>1. results'[n] \in {results[n], NewResult(mode)}
    BY <1>0 DEF Activate
  <2>2. QED BY <2>1 DEF NewResult
<1>3. CASE \E id \in event_cache : Deactivate(u, id)
  <2> PICK id \in event_cache : Deactivate(u, id)
    BY <1>3
  <2>1. results'[n] \in {results[n], [results[n] EXCEPT !.deactivated = TRUE]}
    BY <1>0 DEF Deactivate
  <2>2. results[n] \in Results
    BY <1>0
  <2>3. QED BY <2>1, <2>2 DEF Results
<1>4. CASE Obtains(u)
  <2>1. results'[n] \in {results[n], Consumed(results[n])}
    BY <1>0, <1>4 DEF Obtains, ReturnEvent
  <2>2. results[n] \in Results
    BY <1>0
  <2>3. QED BY <2>1, <2>2 DEF Consumed, Results
<1>5. CASE /\ ~ClearEvents(u) /\ ~Obtains(u)
           /\ ~(\E mode \in Modes : Activate(u, mode))
           /\ ~(\E id \in event_cache : Deactivate(u, id))
  BY <1>5 DEF StepsOfUser, Disconnect, DetachReader, Closed, Connect, OpenWriter, OpenReader,
              Connected, ConnectFails, Blocking, Register, GetEvent, GetNextEvent, BeginWait,
              Wake, TimeOut, ReturnNothing
<1>6. QED BY <1>1, <1>2, <1>3, <1>4, <1>5

LEMMA InitOrder == Init => Order
BY SmallFacts DEF Init, ClientInit, ServerInit, TopicsInit, NewResult, NoReader, Order, EventsAhead

LEMMA NextOrder ==
    ASSUME Conn, Conn', Order, [Next]_vars
    PROVE  Order'
<1>0. /\ results \in [Numbers -> Results] /\ results' \in [Numbers -> Results]
      /\ events \subseteq Events /\ events' \subseteq Events
      /\ puts \in Nat /\ puts' \in Nat
      /\ reader \in [session : Sessions \cup {0}, expression : HexTexts,
                     sample : Events \cup {NoEvent}, notified : BOOLEAN]
      /\ reader' \in [session : Sessions \cup {0}, expression : HexTexts,
                      sample : Events \cup {NoEvent}, notified : BOOLEAN]
      /\ \A e \in Events : e.put \in Int /\ 0 < e.put /\ e.id \in EventIds /\ e.id.number \in Numbers
      /\ \A r \in Results : r.event \in Int
  BY EventBounds DEF Conn, SystemTypeOK, ClientTypeOK, ServerTypeOK, TopicsTypeOK, Events, EventIds, Results
<1> DEFINE KeepsResults == \A n \in Numbers : results'[n].event \in {results[n].event, 0}
           KeepsTopics == /\ events' \subseteq events
                          /\ reader'.sample \in {reader.sample, NoEvent}
                          /\ puts' = puts
<1>1. KeepsResults /\ KeepsTopics => Order'
  <2> SUFFICES ASSUME KeepsResults, KeepsTopics PROVE Order'
    OBVIOUS
  <2>1. EventsAhead' \subseteq EventsAhead
    BY DEF EventsAhead
  <2>2. \A e \in EventsAhead : e \in Events
    BY <1>0 DEF EventsAhead
  <2>3. \A n \in Numbers : results'[n].event <= puts'
    BY <1>0 DEF Order
  <2>4. \A e \in EventsAhead' : e.put <= puts' /\ results'[e.id.number].event < e.put
    <3>1. ASSUME NEW e \in EventsAhead'
          PROVE  e.put <= puts' /\ results'[e.id.number].event < e.put
      <4>1. e \in EventsAhead /\ e \in Events /\ e.id.number \in Numbers
        BY <1>0, <2>1, <2>2, <3>1
      <4>2. results'[e.id.number].event \in {results[e.id.number].event, 0}
        BY <4>1
      <4>3. QED BY <1>0, <4>1, <4>2 DEF Order, Result
    <3>2. QED BY <3>1
  <2>5. QED BY <2>3, <2>4 DEF Order, Result
<1> HIDE DEF KeepsResults, KeepsTopics
<1>2. ASSUME NEW u \in Users, StepsOfUser(u) PROVE Order'
  <2>1. KeepsResults
    BY <1>2, UsersKeepEvents DEF KeepsResults
  <2>2. KeepsTopics
    <3>1. puts' = puts
      BY <1>2 DEF StepsOfUser, ServerSide, Obtains, serverVars
    <3>2. NoReader.sample = NoEvent /\ FilteredReader(writer).sample = NoEvent
      BY DEF NoReader, FilteredReader
    <3>3. events' \subseteq events /\ reader'.sample \in {reader.sample, NoEvent}
      BY <1>2, <3>2, ClientKeepsReader
    <3>4. QED BY <3>1, <3>3 DEF KeepsTopics
  <2>3. QED BY <1>1, <2>1, <2>2
<1>3. CASE Listens
  <2>1. puts' = puts /\ events' = events /\ reader'.sample \in {reader.sample, NoEvent}
    BY <1>0, <1>3 DEF Listens, Listen, Quietly, serverVars, OnLivelinessChanged, OnDataAvailable,
                      TakeEvent, topics
  <2>2. CASE results' = results
    BY <1>1, <2>1, <2>2 DEF KeepsResults, KeepsTopics
  <2>3. CASE results' # results
    <3> DEFINE s == reader.sample
    <3>1. /\ reader'.sample = NoEvent /\ s.id \in event_cache
          /\ results' = [results EXCEPT ![s.id.number] = Stored(results[s.id.number], s.put)]
      BY <1>0, <1>3, <2>3 DEF Listens, Listen, OnLivelinessChanged, OnDataAvailable, TakeEvent
    <3>2. s # NoEvent /\ s \in Events /\ s.id.number \in Numbers
      <4>1. s.id \in EventIds
        BY <3>1 DEF Conn, SystemTypeOK, ClientTypeOK
      <4>2. s # NoEvent
        BY <4>1, SmallFacts
      <4>3. QED BY <1>0, <4>2
    <3> HIDE DEF s
    <3>3. ASSUME NEW r \in Results, NEW q, q = Stored(r, s.put) PROVE q.event = s.put
      BY <3>3 DEF Stored, Results
    <3>4. /\ results'[s.id.number].event = s.put
          /\ \A n \in Numbers \ {s.id.number} : results'[n] = results[n]
      BY <1>0, <3>1, <3>2, <3>3
    <3>5. s.put <= puts /\ \A f \in events : f.id.number = s.id.number => s.put < f.put
      BY <3>2 DEF Order, EventsAhead, s
    <3>6. \A n \in Numbers : results'[n].event <= puts'
      BY <2>1, <3>4, <3>5 DEF Order
    <3>7. EventsAhead' \subseteq events
      BY <2>1, <3>1 DEF EventsAhead
    <3>8. \A e \in EventsAhead' : e.put <= puts' /\ results'[e.id.number].event < e.put
      <4>1. ASSUME NEW e \in EventsAhead'
            PROVE  e.put <= puts' /\ results'[e.id.number].event < e.put
        <5>1. e \in events /\ e \in Events /\ e.id.number \in Numbers
          BY <1>0, <3>7
        <5>2. e.put <= puts /\ results[e.id.number].event < e.put
          BY <5>1 DEF Order, EventsAhead, Result
        <5>3. QED BY <2>1, <3>4, <3>5, <5>1, <5>2
      <4>2. QED BY <4>1
    <3>9. QED BY <3>1, <3>6, <3>8 DEF Order, Result
  <2>4. QED BY <2>2, <2>3
<1>4. CASE Arrives
  <2> PICK e \in events : Deliver(e)
    BY <1>4 DEF Arrives
  <2>1. /\ results' = results /\ puts' = puts /\ reader'.sample = e
        /\ events' = {f \in events : Older(e, f)}
    BY <1>0, <1>4 DEF Arrives, Deliver, clientVars, serverVars
  <2>2. EventsAhead' \subseteq EventsAhead
    BY <2>1 DEF EventsAhead
  <2>3. \A f \in events' : f.id.number = e.id.number => e.put < f.put
    <3>1. ASSUME NEW f \in events', f.id.number = e.id.number PROVE e.put < f.put
      <4>1. Older(e, f) /\ e.id.number \in Int
        BY <1>0, <2>1, EventBounds DEF Numbers
      <4>2. QED BY <3>1, <4>1 DEF Older
    <3>2. QED BY <3>1
  <2>4. QED BY <2>1, <2>2, <2>3 DEF Order, Result
<1>5. CASE ServerStep
  <2>1. results' = results /\ puts' = puts /\ reader' = reader /\ events' \subseteq events
    BY <1>5 DEF ServerStep, ServerUpcall, PutFails, OnRequestAvailable, TakeNothing,
                TakeRequest, BeginShutdown, LockServer, DetachServer, RestartServer, topics,
                clientVars
  <2>2. QED BY <1>1, <2>1 DEF KeepsResults, KeepsTopics
<1>6. CASE \E due \in SUBSET event_activations : SystemPut(due)
  <2> PICK due \in SUBSET event_activations : SystemPut(due)
    BY <1>6
  <2>1. /\ results' = results /\ reader' = reader
        /\ events' \subseteq events \cup {[id |-> a.id, put |-> puts'] : a \in due}
        /\ puts' = (IF due = {} THEN puts ELSE puts + 1)
    BY DEF SystemPut, Put, Sent, clientVars
  <2>2. puts <= puts' /\ (due # {} => puts' = puts + 1)
    BY <1>0, <2>1
  <2>3. \A f \in events' \ events : f.put = puts' /\ puts' = puts + 1
    BY <2>1, <2>2
  <2>4. \A n \in Numbers : results'[n].event <= puts /\ results'[n].event \in Int
    BY <1>0, <2>1 DEF Order
  <2>5. \A f \in EventsAhead : f.put \in Int /\ f.put <= puts /\ Result(f.id).event < f.put
    BY <1>0 DEF Order, EventsAhead
  <2>6. \A f \in EventsAhead' : f.put <= puts' /\ Result(f.id)'.event < f.put
    <3>1. ASSUME NEW f \in EventsAhead' PROVE f.put <= puts' /\ results'[f.id.number].event < f.put
      <4>1. CASE f \in EventsAhead
        BY <1>0, <2>1, <2>2, <2>5, <4>1 DEF Result
      <4>2. CASE f \notin EventsAhead
        <5>1. f \in events' \ events /\ f.id.number \in Numbers
          BY <1>0, <2>1, <3>1, <4>2 DEF EventsAhead
        <5>2. QED BY <1>0, <2>3, <2>4, <5>1
      <4>3. QED BY <4>1, <4>2
    <3>2. QED BY <3>1 DEF Result
  <2>7. ASSUME reader.sample # NoEvent, NEW f \in events', f.id.number = reader.sample.id.number
        PROVE  reader.sample.put < f.put
    <3>1. CASE f \in events
      BY <2>7, <3>1 DEF Order
    <3>2. CASE f \notin events
      BY <1>0, <2>3, <2>5, <2>7, <3>2 DEF EventsAhead
    <3>3. QED BY <3>1, <3>2
  <2>8. \A n \in Numbers : results'[n].event <= puts'
    BY <1>0, <2>2, <2>4
  <2>9. QED BY <2>1, <2>6, <2>7, <2>8 DEF Order
<1>7. CASE UNCHANGED vars
  BY <1>7 DEF vars, topics, clientVars, serverVars, Order, EventsAhead, Result
<1>8. QED BY <1>2, <1>3, <1>4, <1>5, <1>6, <1>7, StepCases

\* Steps that leave the client's calls and entries as they are.
LEMMA FrameStep ==
    ASSUME Conn, Conn', Entries, Wired' \subseteq Wired,
           UNCHANGED <<event_cache, results, call, activated>>
    PROVE  Entries'
<1>1. EntryFrame /\ CallFrame /\ Consistent'
  BY DEF EntryFrame, CallFrame, Entries, Consistent
<1>2. QED BY <1>1, FrameKeepsEntries

LEMMA InitEntries == Init => Entries
<1> SUFFICES ASSUME Init PROVE Entries
  OBVIOUS
<1>1. Present = {}
  BY SmallFacts DEF Init, ClientInit, ServerInit, ServiceInit, TopicsInit, Present, Wired, HasInHand, NoCall,
                    NoReader
<1>2. Wired = {}
  BY <1>1 DEF Present
<1>3. QED BY <1>1, <1>2
          DEF Init, ClientInit, NoCall, NewResult, Entries, Numbered, Registered, Awaited,
              Consistent, NextGuards

LEMMA NextEntries ==
    ASSUME Conn, Conn', Order, Entries, [Next]_vars
    PROVE  Entries'
<1>1. ASSUME NEW u \in Users, StepsOfUser(u) PROVE Entries'
  <2>1. CASE Obtains(u)
    BY <2>1, ObtainEntries
  <2>2. CASE UNCHANGED ServerSide /\ ClearEvents(u)
    BY <2>2, ClearEntries
  <2>3. CASE UNCHANGED ServerSide /\ \E mode \in Modes : Activate(u, mode)
    BY <2>3, ActivateEntries
  <2>4. CASE UNCHANGED ServerSide /\ Register(u)
    BY <2>4, RegisterEntries
  <2>5. CASE UNCHANGED ServerSide /\ \E id \in event_cache : Deactivate(u, id)
    BY <2>5, DeactivateEntries
  <2>6. CASE UNCHANGED ServerSide /\ \E id \in event_cache : GetEvent(u, id) \/ GetNextEvent(u, id)
    BY <2>6, WaitEntries DEF GetEvent, GetNextEvent
  <2>7. CASE /\ UNCHANGED ServerSide
             /\ \/ Disconnect(u) \/ DetachReader(u) \/ Closed(u)
                \/ Connect(u) \/ OpenWriter(u) \/ OpenReader(u) \/ Connected(u) \/ ConnectFails(u)
                \/ \E blocking \in BOOLEAN : Blocking(u, blocking)
                \/ Wake(u) \/ TimeOut(u) \/ ReturnNothing(u)
    <3>1. EntryFrame /\ CallFrame /\ Wired' \subseteq Wired
      BY <2>7, QuietSteps, WireFrameKeepsWired
    <3>2. results' = results
      BY <2>7 DEF Disconnect, DetachReader, Closed, Connect, OpenWriter, OpenReader, Connected,
                  ConnectFails, Blocking, Wake, TimeOut, ReturnNothing
    <3>3. Consistent'
      BY <3>2 DEF Entries, Consistent
    <3>4. QED BY <3>1, <3>3, FrameKeepsEntries
  <2>8. QED BY <1>1, <2>1, <2>2, <2>3, <2>4, <2>5, <2>6, <2>7 DEF StepsOfUser
<1>2. CASE Listens
  <2>1. CASE TakeEvent
    BY <1>2, <2>1, TakeEntries DEF Listens, Quietly, ServerSide
  <2>2. CASE OnLivelinessChanged \/ OnDataAvailable
    <3>1. /\ UNCHANGED <<event_cache, results, call, activated, requests, events>>
          /\ reader'.sample = reader.sample
      BY <2>2 DEF OnLivelinessChanged, OnDataAvailable, counters, topics, Conn, SystemTypeOK,
                  TopicsTypeOK
    <3>2. event_activations' = event_activations
      BY <1>2 DEF Listens, Quietly, serverVars, service
    <3>3. Wired' \subseteq Wired
      BY <3>1, <3>2 DEF Wired
    <3>4. QED BY <3>1, <3>3, FrameStep
  <2>3. QED BY <1>2, <2>1, <2>2 DEF Listens, Listen
<1>3. CASE Arrives \/ ServerStep \/ \E due \in SUBSET event_activations : SystemPut(due)
  <2>1. Wired' \subseteq Wired /\ UNCHANGED clientVars
    BY <1>3, OthersKeepWired
  <2>2. QED BY <2>1, FrameStep DEF clientVars, counters
<1>4. CASE UNCHANGED vars
  <2>1. UNCHANGED <<event_cache, results, call, activated>> /\ Wired' = Wired
    BY <1>4 DEF vars, clientVars, counters, serverVars, service, topics, Wired
  <2>2. QED BY <2>1, FrameStep
<1>5. QED BY <1>1, <1>2, <1>3, <1>4, StepCases

EntryInv == Conn /\ Order /\ Entries

\* The activations that are talked about are numbered, registered and stored in order.
THEOREM EntryInvariant == Spec => []EntryInv
<1>1. Init => EntryInv
  BY InitConn, InitOrder, InitEntries DEF EntryInv
<1>2. EntryInv /\ [Next]_vars => EntryInv'
  BY NextConn, NextOrder, NextEntries DEF EntryInv
<1>3. QED BY <1>1, <1>2, PTL DEF Spec

\* No event overtakes the registration of its activation, however many threads activate,
\* deactivate and reconnect.
THEOREM EventsHaveEntries == Spec => []EventHasEntry
<1>1. EntryInv => EventHasEntry
  <2> SUFFICES ASSUME EntryInv, reader.sample # NoEvent
               PROVE  \/ reader.sample.id \in event_cache
                      \/ Result(reader.sample.id).deactivated
                      \/ \E u \in Users : /\ client_mutex = u /\ call[u].at = "written"
                                          /\ call[u].id = reader.sample.id
    BY DEF EventHasEntry
  <2>1. reader.sample.id \in EventIds
    BY DEF EntryInv, Conn, SystemTypeOK, TopicsTypeOK, Events
  <2>2. reader.sample.id \in Wired
    BY <2>1, SmallFacts DEF Wired
  <2>3. \A u \in Users : call[u].at = "written" => client_mutex = u
    BY DEF EntryInv, Conn, MutexOwner, Holding
  <2>4. QED BY <2>2, <2>3 DEF EntryInv, Entries, Registered
<1>2. QED BY <1>1, EntryInvariant, PTL

\* tryEvent never reports an event that getEvent would wait for.
THEOREM GuardsTellEvents == Spec => []GuardTellsEvent
<1>1. EntryInv => GuardTellsEvent
  <2> SUFFICES ASSUME EntryInv, NEW id \in event_cache
               PROVE  /\ tryEvent(id) = "ok" => Result(id).has_event_guard
                      /\ tryEvent(id) = "passive" => Result(id).mode = "single"
    BY DEF GuardTellsEvent
  <2>1. id.number \in Numbers /\ Result(id) \in Results
    BY HandsTyped DEF EntryInv, Result
  <2>2. /\ Result(id).has_new_event => Result(id).has_event_guard
        /\ Result(id).has_event_guard /\ ~Result(id).has_new_event => Result(id).mode = "single"
    BY <2>1 DEF EntryInv, Entries, Consistent, Result
  <2>3. CASE Result(id).has_new_event
    BY <2>2, <2>3 DEF tryEvent
  <2>4. CASE ~Result(id).has_new_event
    BY <2>2, <2>4 DEF tryEvent
  <2>5. QED BY <2>3, <2>4
<1>2. QED BY <1>1, EntryInvariant, PTL

\* A waiting thread whose activation is gone finds a guard that ends its wait, and one
\* that waits for the next event finds its guard set by the time that is stored.
THEOREM NoWaiterForgotten == Spec => []NoForgottenWaiter
<1>1. EntryInv => NoForgottenWaiter
  BY DEF EntryInv, Entries, Awaited, NextGuards, NoForgottenWaiter, Active, Aborted, EventGuard,
         Conditions, Conn, SystemTypeOK, ClientTypeOK, Calls
<1>2. QED BY <1>1, EntryInvariant, PTL

\* getNextEvent returns an event that was stored after the call began.
THEOREM NextEventsAreNew == Spec => NextEventIsNew
<1>1. EntryInv => \A u \in Users : Obtains(u) /\ call[u].next =>
                     Result(call[u].id).event > call[u].since
  <2> SUFFICES ASSUME EntryInv, NEW u \in Users, Obtains(u), call[u].next
               PROVE  Result(call[u].id).event > call[u].since
    OBVIOUS
  <2>1. call[u].at = "woken" /\ "event" \in call[u].active
    BY DEF Obtains, ReturnEvent
  <2>2. QED BY <2>1 DEF EntryInv, Entries, NextGuards
<1>2. QED BY <1>1, EntryInvariant, PTL DEF NextEventIsNew

-----------------------------------------------------------------------------
\* How the activations at the server, their requests, the events and the entries agree
\* with the puts that fired each activation.
Untouched == \A n \in Numbers : activated < n => fires[n] = {} /\ obtained[n] = 0

Unfired(id) == fires[id.number] = {}

ServerFires ==
    \A a \in event_activations :
        /\ a.mode = Result(a.id).mode
        /\ ~a.fired_once => Unfired(a.id)
        /\ \A b \in event_activations : a.id = b.id => a = b

RequestsFire ==
    \A r \in requests :
        r.mode # "deactivate" =>
            /\ r.mode = Result(r.id).mode
            /\ Unfired(r.id)
            /\ \A a \in event_activations : a.id # r.id

EventsFire ==
    /\ \A n \in Numbers : \A k \in fires[n] : k <= puts
    /\ \A e \in EventsAhead : e.put \in fires[e.id.number]

EntriesFire ==
    \A n \in Numbers :
        /\ obtained[n] <= results[n].event
        /\ results[n].has_new_event =>
             results[n].event \in fires[n] /\ obtained[n] < results[n].event

Firing == Untouched /\ ServerFires /\ RequestsFire /\ EventsFire /\ EntriesFire

\* The types these agreements rest on.
LEMMA FiringTypes ==
    ASSUME EntryInv
    PROVE  /\ results \in [Numbers -> Results] /\ call \in [Users -> Calls]
           /\ event_activations \subseteq Activations /\ requests \subseteq Requests
           /\ EventsAhead \subseteq Events
           /\ fires \in [Numbers -> SUBSET (1 .. MaxPuts)]
           /\ obtained \in [Numbers -> 0 .. MaxPuts]
           /\ activated \in Nat /\ puts \in Nat
           /\ \A a \in event_activations : a.id \in Present /\ a.id.number \in Numbers
           /\ \A r \in requests : r.id \in Present /\ r.id.number \in Numbers
           /\ \A id \in Present : /\ id.number \in Numbers /\ id.number <= activated
                                  /\ \A other \in Present : id.number = other.number => id = other
           /\ event_cache \subseteq Present
           /\ \A u \in Users : HasInHand(u) => call[u].id \in Present
<1>1. Conn /\ Numbered
  BY DEF EntryInv, Entries
<1>2. /\ Present \subseteq EventIds /\ Wired \subseteq Present
      /\ event_cache \subseteq Present
      /\ \A u \in Users : HasInHand(u) => call[u].id \in Present
      /\ \A id \in EventIds : id.number \in Numbers
      /\ call \in [Users -> Calls] /\ results \in [Numbers -> Results]
  BY <1>1, HandsTyped
<1>3. /\ \A a \in event_activations : a.id \in Wired
      /\ \A r \in requests : r.id \in Wired
  BY DEF Wired
<1>4. /\ event_activations \subseteq Activations /\ requests \subseteq Requests
      /\ EventsAhead \subseteq Events
      /\ fires \in [Numbers -> SUBSET (1 .. MaxPuts)]
      /\ obtained \in [Numbers -> 0 .. MaxPuts]
      /\ activated \in Nat /\ puts \in Nat
  BY <1>1, EventBounds DEF Conn, SystemTypeOK, ClientTypeOK, ServerTypeOK, TopicsTypeOK, EventsAhead
<1>5. \A id \in Present : /\ id.number <= activated
                          /\ \A other \in Present : id.number = other.number => id = other
  BY <1>1 DEF Numbered
<1>6. QED BY <1>2, <1>3, <1>4, <1>5

\* What steps that neither make an activation, nor fire, store or obtain an event keep.
LEMMA FiringFrame ==
    ASSUME EntryInv, Firing, UNCHANGED <<activated, puts, history>>,
           event_activations' \subseteq event_activations,
           \A r \in requests' : r \in requests \/ r.mode = "deactivate",
           EventsAhead' \subseteq EventsAhead,
           \A n \in Numbers :
               /\ results'[n].mode = results[n].mode
               /\ results'[n].event = results[n].event
               /\ results'[n].has_new_event => results[n].has_new_event
    PROVE  Firing'
<1>0. /\ \A a \in event_activations : a.id.number \in Numbers
      /\ \A r \in requests : r.id.number \in Numbers
      /\ fires' = fires /\ obtained' = obtained
  BY FiringTypes DEF history
<1>1. Untouched'
  BY <1>0 DEF Firing, Untouched
<1>2. ServerFires'
  BY <1>0 DEF Firing, ServerFires, Unfired, Result
<1>3. RequestsFire'
  BY <1>0 DEF Firing, RequestsFire, Unfired, Result
<1>4. EventsFire'
  BY <1>0 DEF Firing, EventsFire
<1>5. EntriesFire'
  BY <1>0 DEF Firing, EntriesFire
<1>6. QED BY <1>1, <1>2, <1>3, <1>4, <1>5 DEF Firing

\* The steps of the users other than activate keep what an entry tells, or consume it.
LEMMA UsersKeepResults ==
    ASSUME Conn, NEW u \in Users, StepsOfUser(u),
           ~\E mode \in Modes : Activate(u, mode),
           NEW n \in Numbers
    PROVE  /\ results'[n].mode = results[n].mode
           /\ results'[n].event = results[n].event
           /\ results'[n].has_new_event => results[n].has_new_event
<1>0. results \in [Numbers -> Results] /\ results[n] \in Results
  BY HandsTyped
<1>1. CASE ClearEvents(u)
  BY <1>0, <1>1 DEF ClearEvents, EntriesDeactivated, Results
<1>2. CASE \E id \in event_cache : Deactivate(u, id)
  <2> PICK id \in event_cache : Deactivate(u, id)
    BY <1>2
  <2>1. results'[n] \in {results[n], [results[n] EXCEPT !.deactivated = TRUE]}
    BY <1>0 DEF Deactivate
  <2>2. QED BY <1>0, <2>1 DEF Results
<1>3. CASE Obtains(u)
  <2>1. results'[n] \in {results[n], Consumed(results[n])}
    BY <1>0, <1>3 DEF Obtains, ReturnEvent
  <2>2. QED BY <1>0, <2>1 DEF Consumed, Results
<1>4. CASE /\ ~ClearEvents(u) /\ ~Obtains(u)
           /\ ~(\E id \in event_cache : Deactivate(u, id))
  BY <1>4 DEF StepsOfUser, Disconnect, DetachReader, Closed, Connect, OpenWriter, OpenReader,
              Connected, ConnectFails, Blocking, Register, GetEvent, GetNextEvent, BeginWait,
              Wake, TimeOut, ReturnNothing
<1>5. QED BY <1>1, <1>2, <1>3, <1>4

\* The users' requests, apart from activations, are deactivations.
LEMMA UsersRequests ==
    ASSUME NEW u \in Users, StepsOfUser(u), ~\E mode \in Modes : Activate(u, mode)
    PROVE  /\ \A r \in requests' : r \in requests \/ r.mode = "deactivate"
           /\ activated' = activated
<1>1. CASE \E id \in event_cache : Deactivate(u, id)
  BY <1>1 DEF Deactivate, TellServer, counters
<1>2. CASE ClearEvents(u)
  BY <1>2 DEF ClearEvents, counters
<1>3. CASE /\ ~ClearEvents(u)
           /\ ~\E id \in event_cache : Deactivate(u, id)
  <2>1. requests' = requests /\ activated' = activated
    BY <1>3 DEF StepsOfUser, Obtains, ReturnEvent, Disconnect, DetachReader, Closed, Connect,
                OpenWriter, OpenReader, Connected, ConnectFails, Blocking, Register, GetEvent,
                GetNextEvent, BeginWait, Wake, TimeOut, ReturnNothing, counters, topics
  <2>2. QED BY <2>1
<1>4. QED BY <1>1, <1>2, <1>3

LEMMA InitFiring == Init => Firing
<1> SUFFICES ASSUME Init PROVE Firing
  OBVIOUS
<1>1. EventsAhead = {} /\ requests = {} /\ event_activations = {}
  BY DEF Init, TopicsInit, ServerInit, ServiceInit, NoReader, EventsAhead
<1>2. QED BY <1>1 DEF Init, ClientInit, NewResult, Firing, Untouched, ServerFires, RequestsFire,
                      EventsFire, EntriesFire

LEMMA ActivateFiring ==
    ASSUME EntryInv, EntryInv', Firing, NEW u \in Users, NEW mode \in Modes, Activate(u, mode),
           UNCHANGED ServerSide
    PROVE  Firing'
<1> DEFINE id == [session |-> writer, number |-> activated + 1]
<1>0. /\ results \in [Numbers -> Results]
      /\ activated \in Nat /\ activated + 1 \in Numbers
      /\ \A a \in event_activations : a.id.number \in Numbers /\ a.id.number <= activated
      /\ \A r \in requests : r.id.number \in Numbers /\ r.id.number <= activated
      /\ obtained \in [Numbers -> 0 .. MaxPuts]
  BY FiringTypes, EventBounds DEF Activate, EntryInv, Conn, SystemTypeOK, ClientTypeOK, Numbers
<1>1. /\ activated' = activated + 1 /\ id.number = activated + 1
      /\ results' = [results EXCEPT ![activated + 1] = NewResult(mode)]
      /\ event_activations' = event_activations /\ puts' = puts
      /\ fires' = fires /\ obtained' = obtained
      /\ EventsAhead' = EventsAhead
      /\ requests' \subseteq requests \cup {[mode |-> mode, id |-> id]}
  BY DEF Activate, ServerSide, serverVars, service, history, EventsAhead
<1> HIDE DEF id
<1>2. \A n \in Numbers : n <= activated => results'[n] = results[n]
  BY <1>0, <1>1
<1>3. results'[activated + 1] = NewResult(mode)
  BY <1>0, <1>1
<1>4. fires[activated + 1] = {} /\ obtained[activated + 1] = 0
  BY <1>0 DEF Firing, Untouched
<1>5. Untouched'
  BY <1>0, <1>1 DEF Firing, Untouched, Numbers
<1>6. ServerFires'
  BY <1>0, <1>1, <1>2 DEF Firing, ServerFires, Unfired, Result
<1>7. RequestsFire'
  <2>1. ASSUME NEW r \in requests', r.mode # "deactivate"
        PROVE  /\ r.mode = results'[r.id.number].mode
               /\ fires'[r.id.number] = {}
               /\ \A a \in event_activations' : a.id # r.id
    <3>1. CASE r \in requests
      BY <1>0, <1>1, <1>2, <2>1, <3>1 DEF Firing, RequestsFire, Unfired, Result
    <3>2. CASE r = [mode |-> mode, id |-> id]
      <4>1. r.mode = mode /\ r.id = id
        BY <3>2
      <4>2. \A a \in event_activations' : a.id # id
        BY <1>0, <1>1
      <4>3. results'[id.number].mode = mode
        BY <1>1, <1>3 DEF NewResult
      <4>4. QED BY <1>1, <1>4, <4>1, <4>2, <4>3
    <3>3. QED BY <1>1, <2>1, <3>1, <3>2
  <2>2. QED BY <2>1 DEF RequestsFire, Unfired, Result
<1>8. EventsFire'
  BY <1>1 DEF Firing, EventsFire
<1>9. EntriesFire'
  <2>1. ASSUME NEW n \in Numbers
        PROVE  /\ obtained'[n] <= results'[n].event
               /\ results'[n].has_new_event =>
                    results'[n].event \in fires'[n] /\ obtained'[n] < results'[n].event
    <3>1. CASE n = activated + 1
      BY <1>1, <1>3, <1>4, <3>1 DEF NewResult
    <3>2. CASE n # activated + 1
      <4>1. results'[n] = results[n]
        BY <1>0, <1>1, <3>2
      <4>2. QED BY <1>1, <4>1 DEF Firing, EntriesFire
    <3>3. QED BY <3>1, <3>2
  <2>2. QED BY <2>1 DEF EntriesFire
<1>10. QED BY <1>5, <1>6, <1>7, <1>8, <1>9 DEF Firing

LEMMA ObtainFiring ==
    ASSUME EntryInv, EntryInv', Firing, NEW u \in Users, Obtains(u)
    PROVE  Firing'
<1> DEFINE k == call[u].id.number
<1>0. /\ results \in [Numbers -> Results] /\ obtained \in [Numbers -> 0 .. MaxPuts]
      /\ k \in Numbers /\ k <= activated
      /\ \A a \in event_activations : a.id.number \in Numbers
      /\ \A r \in requests : r.id.number \in Numbers
      /\ activated \in Nat
  BY FiringTypes DEF Obtains, ReturnEvent, HasInHand
<1>1. /\ results[k].has_new_event
      /\ results' = [results EXCEPT ![k] = Consumed(results[k])]
      /\ obtained' = [obtained EXCEPT ![k] = results[k].event]
      /\ activated' = activated /\ event_activations' = event_activations /\ puts' = puts
      /\ fires' = fires /\ EventsAhead' = EventsAhead /\ requests' = requests
  BY DEF Obtains, ReturnEvent, Result, serverVars, service, counters, topics, EventsAhead
<1> HIDE DEF k
<1>2. ASSUME NEW r \in Results, NEW s, s = Consumed(r)
      PROVE  s.mode = r.mode /\ s.event = r.event /\ s.has_new_event = FALSE
  BY <1>2 DEF Consumed, Results
<1>3. \A n \in Numbers : results'[n].mode = results[n].mode /\ results'[n].event = results[n].event
  BY <1>0, <1>1, <1>2
<1>4. Untouched'
  BY <1>0, <1>1 DEF Firing, Untouched, Numbers
<1>5. ServerFires'
  BY <1>0, <1>1, <1>3 DEF Firing, ServerFires, Unfired, Result
<1>6. RequestsFire'
  BY <1>0, <1>1, <1>3 DEF Firing, RequestsFire, Unfired, Result
<1>7. EventsFire'
  BY <1>1 DEF Firing, EventsFire
<1>8. EntriesFire'
  <2>1. ASSUME NEW n \in Numbers
        PROVE  /\ obtained'[n] <= results'[n].event
               /\ results'[n].has_new_event =>
                    results'[n].event \in fires'[n] /\ obtained'[n] < results'[n].event
    <3>1. CASE n = k
      <4>1. results'[k].has_new_event = FALSE /\ results'[k].event = results[k].event
        BY <1>0, <1>1, <1>2
      <4>2. results[k].event \in Int
        BY <1>0, EventBounds DEF Results
      <4>3. QED BY <1>0, <1>1, <3>1, <4>1, <4>2
    <3>2. CASE n # k
      BY <1>0, <1>1, <3>2 DEF Firing, EntriesFire
    <3>3. QED BY <3>1, <3>2
  <2>2. QED BY <2>1 DEF EntriesFire
<1>9. QED BY <1>4, <1>5, <1>6, <1>7, <1>8 DEF Firing

LEMMA TakeFiring ==
    ASSUME EntryInv, EntryInv', Firing, TakeEvent, UNCHANGED ServerSide
    PROVE  Firing'
<1> DEFINE s == reader.sample
<1>0. /\ results \in [Numbers -> Results] /\ obtained \in [Numbers -> 0 .. MaxPuts]
      /\ \A a \in event_activations : a.id.number \in Numbers
      /\ \A r \in requests : r.id.number \in Numbers
      /\ event_cache \subseteq EventIds
      /\ reader \in [session : Sessions \cup {0}, expression : HexTexts,
                     sample : Events \cup {NoEvent}, notified : BOOLEAN]
  BY FiringTypes DEF EntryInv, Conn, SystemTypeOK, ClientTypeOK, TopicsTypeOK
<1>1. /\ UNCHANGED <<activated, puts, fires, obtained, event_activations, requests, events>>
      /\ reader'.sample = NoEvent
  BY <1>0 DEF TakeEvent, ServerSide, serverVars, service, history, counters
<1>2. EventsAhead' \subseteq EventsAhead
  BY <1>1 DEF EventsAhead
<1>3. CASE s.id \notin event_cache
  <2>1. results' = results
    BY <1>3 DEF TakeEvent
  <2>2. QED BY <1>1, <1>2, <2>1, FiringFrame DEF history
<1>4. CASE s.id \in event_cache
  <2>1. results' = [results EXCEPT ![s.id.number] = Stored(results[s.id.number], s.put)]
    BY <1>4 DEF TakeEvent
  <2>2. s # NoEvent /\ s \in Events /\ s.id.number \in Numbers /\ s.put \in Int
    <3>1. s # NoEvent
      BY <1>0, <1>4, SmallFacts
    <3>2. QED BY <1>0, <3>1, EventBounds DEF Events, EventIds
  <2>3. /\ s.put \in fires[s.id.number]
        /\ results[s.id.number].event < s.put
    BY <2>2 DEF Firing, EventsFire, EventsAhead, EntryInv, Order, Result
  <2> HIDE DEF s
  <2>4. ASSUME NEW r \in Results, NEW q, q = Stored(r, s.put)
        PROVE  q.mode = r.mode /\ q.event = s.put
    BY <2>4 DEF Stored, Results
  <2>5. \A n \in Numbers : results'[n].mode = results[n].mode
    BY <1>0, <2>1, <2>2, <2>4
  <2>6. /\ results'[s.id.number].event = s.put
        /\ \A n \in Numbers \ {s.id.number} : results'[n] = results[n]
    BY <1>0, <2>1, <2>2, <2>4
  <2>7. Untouched'
    BY <1>1 DEF Firing, Untouched
  <2>8. ServerFires'
    BY <1>0, <1>1, <2>5 DEF Firing, ServerFires, Unfired, Result
  <2>9. RequestsFire'
    BY <1>0, <1>1, <2>5 DEF Firing, RequestsFire, Unfired, Result
  <2>10. EventsFire'
    BY <1>1, <1>2 DEF Firing, EventsFire
  <2>11. EntriesFire'
    <3>1. ASSUME NEW n \in Numbers
          PROVE  /\ obtained'[n] <= results'[n].event
                 /\ results'[n].has_new_event =>
                      results'[n].event \in fires'[n] /\ obtained'[n] < results'[n].event
      <4>1. CASE n = s.id.number
        <5>1. obtained[n] <= results[n].event /\ obtained[n] \in Int /\ results[n].event \in Int
          BY <1>0, EventBounds DEF Firing, EntriesFire, Results
        <5>2. obtained[n] < s.put
          BY <2>2, <2>3, <4>1, <5>1
        <5>3. QED BY <1>1, <2>2, <2>3, <2>6, <4>1, <5>1, <5>2
      <4>2. CASE n # s.id.number
        BY <1>1, <2>6, <4>2 DEF Firing, EntriesFire
      <4>3. QED BY <4>1, <4>2
    <3>2. QED BY <3>1 DEF EntriesFire
  <2>12. QED BY <2>7, <2>8, <2>9, <2>10, <2>11 DEF Firing
<1>5. QED BY <1>3, <1>4

\* Firing marks the activations that are due and changes nothing else about them.
LEMMA FireMarks ==
    ASSUME EntryInv, ServerFires, NEW due \in SUBSET event_activations, FireEvents(due)
    PROVE  /\ \A b \in event_activations' :
                \/ b \in event_activations \ due
                \/ \E a \in due : b.id = a.id /\ b.mode = a.mode /\ b.fired_once = TRUE
           /\ \A b, c \in event_activations' : b.id = c.id => b = c
<1>0. /\ event_activations \subseteq Activations
      /\ \A a, b \in event_activations : a.id = b.id => a = b
  BY FiringTypes DEF ServerFires
<1>1. ASSUME NEW a \in Activations, NEW b, b = [a EXCEPT !.fired_once = TRUE]
      PROVE  b.id = a.id /\ b.mode = a.mode /\ b.fired_once = TRUE
  BY <1>1 DEF Activations
<1>2. \A b \in event_activations' :
        b \in event_activations \ due \/ \E a \in due : b = [a EXCEPT !.fired_once = TRUE]
  BY DEF FireEvents
<1>3. \A b \in event_activations' :
        \/ b \in event_activations \ due
        \/ \E a \in due : b.id = a.id /\ b.mode = a.mode /\ b.fired_once = TRUE
  <2>1. ASSUME NEW b \in event_activations', b \notin event_activations \ due
        PROVE  \E a \in due : b.id = a.id /\ b.mode = a.mode /\ b.fired_once = TRUE
    <3>1. PICK a \in due : b = [a EXCEPT !.fired_once = TRUE]
      BY <1>2, <2>1
    <3>2. a \in Activations
      BY <1>0
    <3>3. b.id = a.id /\ b.mode = a.mode /\ b.fired_once = TRUE
      BY <1>1, <3>1, <3>2
    <3>4. QED BY <3>3
  <2>2. QED BY <2>1
<1>4. ASSUME NEW b \in event_activations', NEW c \in event_activations', b.id = c.id PROVE b = c
  <2>1. CASE b \in event_activations \ due /\ c \in event_activations \ due
    BY <1>0, <1>4, <2>1
  <2>2. ASSUME NEW x \in event_activations \ due, NEW a \in due, NEW y, y = [a EXCEPT !.fired_once = TRUE]
        PROVE  x.id # y.id
    BY <1>0, <1>1, <2>2
  <2>3. ASSUME NEW a \in due, b = [a EXCEPT !.fired_once = TRUE],
               NEW d \in due, c = [d EXCEPT !.fired_once = TRUE]
        PROVE  b = c
    <3>1. a.id = d.id
      BY <1>0, <1>1, <1>4, <2>3
    <3>2. a = d
      BY <1>0, <3>1
    <3>3. QED BY <2>3, <3>2
  <2>4. QED BY <1>2, <1>4, <2>1, <2>2, <2>3
<1>5. QED BY <1>3, <1>4

LEMMA TakeRequestFiring ==
    ASSUME EntryInv, EntryInv', Firing, NEW r \in requests, TakeRequest(r),
           UNCHANGED <<clientVars, history>>
    PROVE  Firing'
<1> DEFINE new == [id |-> r.id, mode |-> r.mode, fired_once |-> FALSE]
<1>0. requests \subseteq Requests /\ r \in Requests
  BY FiringTypes
<1>1. /\ UNCHANGED <<activated, puts, fires, obtained, events, reader, results>>
      /\ requests' = requests \ {r} /\ EventsAhead' = EventsAhead
      /\ event_activations' = ActivationsAfter(r)
  BY DEF TakeRequest, clientVars, counters, history, EventsAhead
<1>2. CASE r.mode = "deactivate"
  <2>1. event_activations' \subseteq event_activations
    BY <1>1, <1>2 DEF ActivationsAfter
  <2>2. QED BY <1>1, <2>1, FiringFrame DEF history
<1>3. CASE r.mode # "deactivate"
  <2>1. event_activations' = event_activations \cup {new}
    BY <1>1, <1>3 DEF ActivationsAfter
  <2>2. /\ r.mode = Result(r.id).mode /\ Unfired(r.id)
        /\ \A a \in event_activations : a.id # r.id
    BY <1>3 DEF Firing, RequestsFire
  <2>3. new.id = r.id /\ new.mode = r.mode /\ new.fired_once = FALSE
    OBVIOUS
  <2> HIDE DEF new
  <2>4. Untouched' /\ EventsFire' /\ EntriesFire'
    BY <1>1 DEF Firing, Untouched, EventsFire, EntriesFire
  <2>5. ServerFires'
    <3>1. ASSUME NEW a \in event_activations'
          PROVE  /\ a.mode = results[a.id.number].mode
                 /\ ~a.fired_once => fires[a.id.number] = {}
                 /\ \A b \in event_activations' : a.id = b.id => a = b
      BY <2>1, <2>2, <2>3 DEF Firing, ServerFires, Unfired, Result
    <3>2. QED BY <1>1, <3>1 DEF ServerFires, Unfired, Result
  <2>6. RequestsFire'
    <3>1. ASSUME NEW q \in requests', q.mode # "deactivate"
          PROVE  /\ q.mode = results[q.id.number].mode
                 /\ fires[q.id.number] = {}
                 /\ \A a \in event_activations' : a.id # q.id
      <4>1. q \in requests /\ q # r /\ q \in Requests
        BY <1>0, <1>1
      <4>2. /\ q.mode = Result(q.id).mode /\ Unfired(q.id)
            /\ \A a \in event_activations : a.id # q.id
        BY <3>1, <4>1 DEF Firing, RequestsFire
      <4>3. q.id # r.id
        <5>1. SUFFICES ASSUME q.id = r.id PROVE FALSE
          OBVIOUS
        <5>2. q.mode = r.mode
          BY <2>2, <4>2, <5>1
        <5>3. QED BY <1>0, <4>1, <5>1, <5>2 DEF Requests
      <4>4. QED BY <2>1, <2>3, <4>2, <4>3 DEF Unfired, Result
    <3>2. QED BY <1>1, <3>1 DEF RequestsFire, Unfired, Result
  <2>7. QED BY <2>4, <2>5, <2>6 DEF Firing
<1>4. QED BY <1>2, <1>3

LEMMA PutFailsFiring ==
    ASSUME EntryInv, EntryInv', Firing, PutFails, UNCHANGED <<clientVars, history>>
    PROVE  Firing'
<1>1. /\ UNCHANGED <<activated, puts, fires, obtained, events, reader, results, requests>>
      /\ EventsAhead' = EventsAhead
  BY DEF PutFails, topics, clientVars, counters, history, EventsAhead
<1>2. CASE UNCHANGED event_activations
  BY <1>1, <1>2, FiringFrame DEF history
<1>3. CASE \E a \in Tested : FireEvents({a})
  <2> PICK a \in event_activations : FireEvents({a})
    BY <1>3 DEF Tested
  <2>1. /\ \A b \in event_activations' :
             \/ b \in event_activations
             \/ b.id = a.id /\ b.mode = a.mode /\ b.fired_once = TRUE
        /\ \A b, c \in event_activations' : b.id = c.id => b = c
    <3>1. {a} \in SUBSET event_activations /\ ServerFires
      BY DEF Firing
    <3>2. /\ \A b \in event_activations' :
               \/ b \in event_activations \ {a}
               \/ \E d \in {a} : b.id = d.id /\ b.mode = d.mode /\ b.fired_once = TRUE
          /\ \A b, c \in event_activations' : b.id = c.id => b = c
      BY <3>1, FireMarks
    <3>3. QED BY <3>2
  <2>2. Untouched' /\ EventsFire' /\ EntriesFire'
    BY <1>1 DEF Firing, Untouched, EventsFire, EntriesFire
  <2>3. ServerFires'
    <3>1. ASSUME NEW b \in event_activations'
          PROVE  /\ b.mode = results[b.id.number].mode
                 /\ ~b.fired_once => fires[b.id.number] = {}
      BY <2>1 DEF Firing, ServerFires, Unfired, Result
    <3>2. QED BY <1>1, <2>1, <3>1 DEF ServerFires, Unfired, Result
  <2>4. RequestsFire'
    <3>1. \A b \in event_activations' : \E c \in event_activations : b.id = c.id
      BY <2>1
    <3>2. QED BY <1>1, <3>1 DEF Firing, RequestsFire, Unfired, Result
  <2>5. QED BY <2>2, <2>3, <2>4 DEF Firing
<1>4. QED BY <1>2, <1>3 DEF PutFails

\* A put gives the activations that are due its number.
LEMMA PutFiring ==
    ASSUME EntryInv, EntryInv', Firing, NEW due \in SUBSET event_activations, SystemPut(due)
    PROVE  Firing'
<1>0. /\ fires \in [Numbers -> SUBSET (1 .. MaxPuts)]
      /\ activated \in Nat /\ puts \in Nat
      /\ \A a \in event_activations : a.id \in Present /\ a.id.number \in Numbers /\ a.id.number <= activated
      /\ \A r \in requests : r.id \in Present /\ r.id.number \in Numbers
      /\ \A id, other \in Present : id.number = other.number => id = other
      /\ EventsAhead \subseteq Events
      /\ \A e \in Events : e.id.number \in Numbers
  BY FiringTypes DEF Events, EventIds
<1>1. /\ UNCHANGED <<activated, obtained, reader, results, requests>>
      /\ FireEvents(due) /\ Fired(due, puts')
      /\ puts' = (IF due = {} THEN puts ELSE puts + 1)
      /\ events' \subseteq events \cup {[id |-> a.id, put |-> puts'] : a \in due}
  BY DEF SystemPut, Put, Sent, clientVars, counters
<1>2. /\ \A b \in event_activations' :
           \/ b \in event_activations \ due
           \/ \E a \in due : b.id = a.id /\ b.mode = a.mode /\ b.fired_once = TRUE
      /\ \A b, c \in event_activations' : b.id = c.id => b = c
  BY <1>1, FireMarks DEF Firing
<1>3. puts' \in Nat /\ puts <= puts'
  BY <1>0, <1>1
<1>4. ASSUME NEW n \in Numbers
      PROVE  /\ fires'[n] = fires[n] \/ fires'[n] = fires[n] \cup {puts'}
             /\ (\A a \in due : a.id.number # n) => fires'[n] = fires[n]
             /\ (\E a \in due : a.id.number = n) => puts' \in fires'[n]
  BY <1>1 DEF Fired
<1>5. ASSUME NEW id \in Present, \A a \in due : a.id # id, id.number \in Numbers
      PROVE  fires'[id.number] = fires[id.number]
  <2>1. \A a \in due : a.id.number # id.number
    BY <1>0, <1>5
  <2>2. QED BY <1>4, <1>5, <2>1
<1>6. Untouched'
  <2>1. \A n \in Numbers : activated < n => \A a \in due : a.id.number # n
    BY <1>0 DEF Numbers
  <2>2. QED BY <1>1, <1>4, <2>1 DEF Firing, Untouched
<1>7. ServerFires'
  <2>1. ASSUME NEW b \in event_activations'
        PROVE  /\ b.mode = results[b.id.number].mode
               /\ ~b.fired_once => fires'[b.id.number] = {}
    <3>1. CASE b \in event_activations \ due
      <4>1. \A a \in due : a.id # b.id
        BY <3>1 DEF Firing, ServerFires
      <4>2. fires'[b.id.number] = fires[b.id.number]
        BY <1>0, <1>5, <3>1, <4>1
      <4>3. QED BY <3>1, <4>2 DEF Firing, ServerFires, Unfired, Result
    <3>2. CASE \E a \in due : b.id = a.id /\ b.mode = a.mode /\ b.fired_once = TRUE
      BY <3>2 DEF Firing, ServerFires, Result
    <3>3. QED BY <1>2, <3>1, <3>2
  <2>2. QED BY <1>1, <1>2, <2>1 DEF ServerFires, Unfired, Result
<1>8. RequestsFire'
  <2>1. ASSUME NEW r \in requests, r.mode # "deactivate"
        PROVE  /\ r.mode = results[r.id.number].mode
               /\ fires'[r.id.number] = {}
               /\ \A b \in event_activations' : b.id # r.id
    <3>1. /\ r.mode = results[r.id.number].mode /\ fires[r.id.number] = {}
          /\ \A a \in event_activations : a.id # r.id
      BY <2>1 DEF Firing, RequestsFire, Unfired, Result
    <3>2. \A b \in event_activations' : b.id # r.id
      BY <1>2, <3>1
    <3>3. fires'[r.id.number] = fires[r.id.number]
      BY <1>0, <1>5, <3>1
    <3>4. QED BY <3>1, <3>2, <3>3
  <2>2. QED BY <1>1, <2>1 DEF RequestsFire, Unfired, Result
<1>9. EventsFire'
  <2>1. ASSUME NEW n \in Numbers, NEW k \in fires'[n] PROVE k <= puts'
    <3>1. k = puts' \/ k \in fires[n]
      BY <1>4, <2>1
    <3>2. k \in fires[n] => k \in Int /\ k <= puts
      BY <1>0, EventBounds DEF Firing, EventsFire
    <3>3. QED BY <1>0, <1>3, <3>1, <3>2
  <2>2. ASSUME NEW e \in EventsAhead' PROVE e.put \in fires'[e.id.number]
    <3>1. CASE e \in EventsAhead
      <4>1. e.put \in fires[e.id.number] /\ e.id.number \in Numbers
        BY <1>0, <3>1 DEF Firing, EventsFire
      <4>2. QED BY <1>4, <4>1
    <3>2. CASE e \notin EventsAhead
      <4>1. e \in {[id |-> a.id, put |-> puts'] : a \in due}
        BY <1>1, <2>2, <3>2 DEF EventsAhead
      <4>2. PICK a \in due : e = [id |-> a.id, put |-> puts']
        BY <4>1
      <4>3. e.id = a.id /\ e.put = puts' /\ a.id.number \in Numbers
        BY <1>0, <4>2
      <4>4. QED BY <1>4, <4>3
    <3>3. QED BY <3>1, <3>2
  <2>3. QED BY <2>1, <2>2 DEF EventsFire
<1>10. EntriesFire'
  BY <1>1, <1>4 DEF Firing, EntriesFire
<1>11. QED BY <1>6, <1>7, <1>8, <1>9, <1>10 DEF Firing

\* The steps that leave the history alone and frame the rest.
LEMMA UsersFiring ==
    ASSUME EntryInv, EntryInv', Firing, NEW u \in Users, StepsOfUser(u)
    PROVE  Firing'
<1>1. CASE \E mode \in Modes : Activate(u, mode)
  <2>1. UNCHANGED ServerSide
    <3>1. ~Obtains(u)
      BY <1>1 DEF Activate, Obtains, ReturnEvent
    <3>2. QED BY <3>1 DEF StepsOfUser
  <2>2. QED BY <1>1, <2>1, ActivateFiring
<1>2. CASE Obtains(u)
  BY <1>2, ObtainFiring
<1>3. CASE ~(\E mode \in Modes : Activate(u, mode)) /\ ~Obtains(u)
  <2>1. UNCHANGED ServerSide /\ Conn
    BY <1>3 DEF StepsOfUser, EntryInv
  <2>2. /\ \A r \in requests' : r \in requests \/ r.mode = "deactivate"
        /\ activated' = activated
    BY <1>3, UsersRequests
  <2>3. NoReader.sample = NoEvent /\ FilteredReader(writer).sample = NoEvent
    BY DEF NoReader, FilteredReader
  <2>4. EventsAhead' \subseteq EventsAhead
    BY <2>1, <2>3, ClientKeepsReader DEF EventsAhead
  <2>5. \A n \in Numbers :
          /\ results'[n].mode = results[n].mode
          /\ results'[n].event = results[n].event
          /\ results'[n].has_new_event => results[n].has_new_event
    BY <1>3, <2>1, UsersKeepResults
  <2>6. UNCHANGED <<puts, history, event_activations>>
    BY <2>1 DEF ServerSide, serverVars, service
  <2>7. QED BY <2>2, <2>4, <2>5, <2>6, FiringFrame
<1>4. QED BY <1>1, <1>2, <1>3

LEMMA NextFiring ==
    ASSUME EntryInv, EntryInv', Firing, [Next]_vars
    PROVE  Firing'
<1>1. CASE Listens
  <2>1. CASE TakeEvent
    BY <1>1, <2>1, TakeFiring DEF Listens, Quietly, ServerSide
  <2>2. CASE OnLivelinessChanged \/ OnDataAvailable
    <3>1. /\ UNCHANGED <<activated, results, requests, events>>
          /\ reader'.sample = reader.sample
      BY <2>2 DEF OnLivelinessChanged, OnDataAvailable, counters, topics, EntryInv, Conn, SystemTypeOK,
                  TopicsTypeOK
    <3>2. UNCHANGED <<puts, history, event_activations>>
      BY <1>1 DEF Listens, Quietly, serverVars, service
    <3>3. EventsAhead' \subseteq EventsAhead
      BY <3>1 DEF EventsAhead
    <3>4. QED BY <3>1, <3>2, <3>3, FiringFrame
  <2>3. QED BY <1>1, <2>1, <2>2 DEF Listens, Listen
<1>2. CASE Arrives
  <2> PICK e \in events : Deliver(e)
    BY <1>2 DEF Arrives
  <2>1. UNCHANGED <<activated, results, requests, puts, history, event_activations>>
    BY <1>2 DEF Arrives, Deliver, clientVars, counters, serverVars, service, history
  <2>2. reader'.sample = e /\ events' \subseteq events
    BY DEF Deliver, EntryInv, Conn, SystemTypeOK, TopicsTypeOK
  <2>3. EventsAhead' \subseteq EventsAhead
    BY <2>2 DEF EventsAhead
  <2>4. QED BY <2>1, <2>3, FiringFrame
<1>3. CASE ServerStep
  <2>1. CASE PutFails
    BY <1>3, <2>1, PutFailsFiring DEF ServerStep
  <2>2. CASE \E r \in requests : TakeRequest(r)
    BY <1>3, <2>2, TakeRequestFiring DEF ServerStep
  <2>3. CASE ~PutFails /\ ~\E r \in requests : TakeRequest(r)
    <3>1. /\ UNCHANGED <<activated, results, history, puts, reader>>
          /\ requests' \subseteq requests /\ events' \subseteq events
          /\ event_activations' \subseteq event_activations
      BY <1>3, <2>3 DEF ServerStep, ServerUpcall, OnRequestAvailable, TakeNothing, BeginShutdown,
                        LockServer, DetachServer, RestartServer, topics, clientVars, counters
    <3>2. EventsAhead' \subseteq EventsAhead
      BY <3>1 DEF EventsAhead
    <3>3. QED BY <3>1, <3>2, FiringFrame
  <2>4. QED BY <2>1, <2>2, <2>3
<1>4. CASE UNCHANGED vars
  <2>1. UNCHANGED <<activated, results, requests, events, reader, puts, history, event_activations>>
    BY <1>4 DEF vars, clientVars, counters, serverVars, service, topics
  <2>2. EventsAhead' \subseteq EventsAhead
    BY <2>1 DEF EventsAhead
  <2>3. QED BY <2>1, <2>2, FiringFrame
<1>5. QED BY <1>1, <1>2, <1>3, <1>4, UsersFiring, PutFiring, StepCases

-----------------------------------------------------------------------------
\* Each step of the system is a step of the service or leaves its state as it is.
Whole == EntryInv /\ Firing

\* What is on its way, listed or stored agrees with what was fired and obtained.
THEOREM WholeInvariant == Spec => []Whole
<1>1. Init => Whole
  BY InitConn, InitOrder, InitEntries, InitFiring DEF EntryInv, Whole
<1>2. Whole /\ [Next]_vars => Whole'
  BY NextConn, NextOrder, NextEntries, NextFiring DEF EntryInv, Whole
<1>3. QED BY <1>1, <1>2, PTL DEF Spec

\* The modes of the activations made so far.
ModesMade == [n \in Numbers |-> IF n <= activated THEN results[n].mode ELSE "none"]

LEMMA InitService == Init => Service!Init
<1> SUFFICES ASSUME Init PROVE Service!Init
  OBVIOUS
<1>1. activated = 0 /\ fires = [n \in Numbers |-> {}] /\ obtained = [n \in Numbers |-> 0]
  BY DEF Init, ClientInit
<1>2. ModesMade = [n \in Numbers |-> "none"]
  BY <1>1 DEF ModesMade, Numbers
<1>3. \A u \in Users : ~Waits(call[u]) /\ seen[u] = 0
  BY DEF Init, ClientInit, NoCall, Waits
<1>4. QED BY <1>1, <1>2, <1>3 DEF Service!Init, Service!Numbers, Service!NoCall, Numbers, ModesMade

LEMMA UserServes ==
    ASSUME Whole, NEW u \in Users, StepsOfUser(u)
    PROVE  \/ ~Obtains(u) /\ UNCHANGED <<ModesMade, fires, obtained>>
           \/ \E n \in Numbers, m \in Modes :
                /\ Activate(u, m)
                /\ ModesMade[n] = "none"
                /\ ModesMade' = [ModesMade EXCEPT ![n] = m]
                /\ UNCHANGED <<fires, obtained>>
           \/ \E n \in Numbers, put \in 1 .. MaxPuts :
                /\ Obtains(u) /\ n = call[u].id.number
                /\ put \in fires[n] /\ obtained[n] < put
                /\ obtained' = [obtained EXCEPT ![n] = put]
                /\ UNCHANGED <<ModesMade, fires>>
<1>0. EntryInv /\ Conn /\ Firing
  BY DEF Whole, EntryInv
<1>1. CASE \E mode \in Modes : Activate(u, mode)
  <2> PICK mode \in Modes : Activate(u, mode)
    BY <1>1
  <2>1. UNCHANGED <<fires, obtained>>
    BY DEF StepsOfUser, ServerSide, history, Activate, Obtains, ReturnEvent
  <2>2. /\ activated \in Nat /\ activated + 1 \in Numbers /\ activated' = activated + 1
        /\ results \in [Numbers -> Results]
        /\ results' = [results EXCEPT ![activated + 1] = NewResult(mode)]
    BY <1>0, FiringTypes, EventBounds DEF Activate, Conn, SystemTypeOK, ClientTypeOK, Numbers
  <2>3. ModesMade[activated + 1] = "none"
    BY <2>2 DEF ModesMade
  <2>4. ASSUME NEW n \in Numbers
        PROVE  ModesMade'[n] = IF n = activated + 1 THEN mode ELSE ModesMade[n]
    <3>1. CASE n = activated + 1
      <4>1. results'[n].mode = mode /\ n <= activated'
        BY <2>2, <3>1 DEF NewResult
      <4>2. QED BY <3>1, <4>1 DEF ModesMade
    <3>2. CASE n # activated + 1
      <4>1. results'[n] = results[n] /\ (n <= activated' <=> n <= activated)
        BY <2>2, <3>2 DEF Numbers
      <4>2. QED BY <3>2, <4>1 DEF ModesMade
    <3>3. QED BY <3>1, <3>2
  <2>5. ModesMade' = [ModesMade EXCEPT ![activated + 1] = mode]
    <3>1. ModesMade' = [n \in Numbers |-> ModesMade'[n]]
      BY DEF ModesMade
    <3>2. [ModesMade EXCEPT ![activated + 1] = mode] =
            [n \in Numbers |-> IF n = activated + 1 THEN mode ELSE ModesMade[n]]
      BY DEF ModesMade
    <3>3. QED BY <2>4, <3>1, <3>2
  <2>6. QED BY <2>1, <2>2, <2>3, <2>5
<1>2. CASE ~\E mode \in Modes : Activate(u, mode)
  <2>1. activated' = activated /\ \A n \in Numbers : results'[n].mode = results[n].mode
    BY <1>0, <1>2, UsersRequests, UsersKeepResults
  <2>2. ModesMade' = ModesMade
    BY <2>1 DEF ModesMade
  <2>3. CASE Obtains(u)
    <3> DEFINE n == call[u].id.number
    <3>1. /\ n \in Numbers /\ results[n].has_new_event /\ fires' = fires
          /\ n = call[u].id.number
          /\ obtained' = [obtained EXCEPT ![n] = results[n].event]
      BY <1>0, <2>3, FiringTypes DEF Obtains, ReturnEvent, HasInHand, Result
    <3> HIDE DEF n
    <3>2. results[n].event \in fires[n] /\ obtained[n] < results[n].event
      BY <1>0, <3>1 DEF Firing, EntriesFire
    <3>3. results[n].event \in 1 .. MaxPuts
      BY <1>0, <3>1, <3>2, FiringTypes
    <3>4. QED BY <2>2, <2>3, <3>1, <3>2, <3>3
  <2>4. CASE ~Obtains(u)
    BY <2>2, <2>4 DEF StepsOfUser, ServerSide, history
  <2>5. QED BY <2>3, <2>4
<1>3. QED BY <1>1, <1>2

\* A put fires activations that may fire, with a number none of them has fired with.
LEMMA PutServes ==
    ASSUME Whole, NEW due \in SUBSET event_activations, SystemPut(due)
    PROVE  /\ UNCHANGED <<ModesMade, obtained>>
           /\ \/ fires' = fires
              \/ \E numbers \in SUBSET Numbers, put \in 1 .. MaxPuts :
                   /\ \A n \in numbers :
                        /\ \/ ModesMade[n] = "continuous"
                           \/ ModesMade[n] = "single" /\ fires[n] = {}
                        /\ \A k \in fires[n] : k < put
                   /\ fires' = [n \in Numbers |->
                                  IF n \in numbers THEN fires[n] \cup {put} ELSE fires[n]]
<1> DEFINE numbers == {a.id.number : a \in due}
<1>0. /\ EntryInv /\ Firing
      /\ \A a \in event_activations : /\ a \in Activations /\ a.id.number \in Numbers
                                      /\ a.id.number <= activated
      /\ puts \in Nat /\ fires \in [Numbers -> SUBSET (1 .. MaxPuts)]
  BY FiringTypes DEF Whole
<1>1. /\ UNCHANGED <<activated, results, obtained>>
      /\ due \subseteq Tested
      /\ due # {} => puts < MaxPuts
      /\ puts' = (IF due = {} THEN puts ELSE puts + 1)
      /\ Fired(due, puts')
  BY DEF SystemPut, Put, clientVars, counters
<1>2. ModesMade' = ModesMade
  BY <1>1 DEF ModesMade
<1>3. CASE due = {}
  BY <1>0, <1>1, <1>2, <1>3 DEF Fired
<1>4. CASE due # {}
  <2>1. puts' = puts + 1 /\ puts' \in 1 .. MaxPuts
    BY <1>0, <1>1, <1>4, EventBounds
  <2>2. numbers \in SUBSET Numbers
    BY <1>0
  <2>3. ASSUME NEW a \in due
        PROVE  /\ \/ ModesMade[a.id.number] = "continuous"
                  \/ ModesMade[a.id.number] = "single" /\ fires[a.id.number] = {}
               /\ \A k \in fires[a.id.number] : k < puts'
    <3>1. /\ a \in event_activations /\ a \in Activations
          /\ a.id.number \in Numbers /\ a.id.number <= activated
      BY <1>0, <1>1 DEF Tested
    <3>2. ModesMade[a.id.number] = a.mode
      BY <1>0, <3>1 DEF ModesMade, Firing, ServerFires, Result
    <3>3. a.mode \in {"single", "continuous"}
      BY <3>1 DEF Activations, Modes
    <3>4. a.mode = "continuous" \/ fires[a.id.number] = {}
      BY <1>0, <1>1, <3>1 DEF Tested, IsContinuous, Firing, ServerFires, Unfired
    <3>5. ASSUME NEW k \in fires[a.id.number] PROVE k < puts'
      <4>1. k \in Int /\ k <= puts
        BY <1>0, <3>1, <3>5, EventBounds DEF Firing, EventsFire
      <4>2. QED BY <1>0, <2>1, <4>1
    <3>6. QED BY <3>2, <3>3, <3>4, <3>5
  <2>4. fires' = [n \in Numbers |-> IF n \in numbers THEN fires[n] \cup {puts'} ELSE fires[n]]
    BY <1>1 DEF Fired
  <2>5. \A n \in numbers :
          /\ \/ ModesMade[n] = "continuous"
             \/ ModesMade[n] = "single" /\ fires[n] = {}
          /\ \A k \in fires[n] : k < puts'
    BY <2>3
  <2> HIDE DEF numbers
  <2>6. QED BY <1>1, <1>2, <2>1, <2>2, <2>4, <2>5
<1>5. QED BY <1>3, <1>4

\* The other steps change neither modes nor history.
LEMMA OthersServe ==
    ASSUME Whole, Listens \/ Arrives \/ ServerStep \/ UNCHANGED vars
    PROVE  UNCHANGED <<ModesMade, fires, obtained>>
<1>0. results \in [Numbers -> Results] /\ EntryInv
  BY FiringTypes DEF Whole
<1>1. UNCHANGED <<activated, fires, obtained>>
  BY DEF Listens, Listen, Quietly, OnLivelinessChanged, OnDataAvailable, TakeEvent, Arrives,
         ServerStep, vars, clientVars, counters, history
<1>2. CASE TakeEvent /\ reader.sample.id \in event_cache
  <2>1. results' = [results EXCEPT
                      ![reader.sample.id.number] =
                          Stored(results[reader.sample.id.number], reader.sample.put)]
    BY <1>2 DEF TakeEvent
  <2>2. \A n \in Numbers :
          results'[n] \in {results[n], Stored(results[n], reader.sample.put)}
    BY <1>0, <2>1
  <2>3. ASSUME NEW r \in Results PROVE Stored(r, reader.sample.put).mode = r.mode
    BY DEF Stored, Results
  <2>4. \A n \in Numbers : results'[n].mode = results[n].mode
    BY <1>0, <2>2, <2>3
  <2>5. QED BY <1>1, <2>4 DEF ModesMade
<1>3. CASE ~(TakeEvent /\ reader.sample.id \in event_cache)
  <2>1. results' = results
    BY <1>3 DEF Listens, Listen, OnLivelinessChanged, OnDataAvailable, TakeEvent, Arrives,
                ServerStep, vars, clientVars
  <2>2. QED BY <1>1, <2>1 DEF ModesMade
<1>4. QED BY <1>2, <1>3

\* What a call of getEvent or getNextEvent remembers was obtained when it began.
Memory ==
    /\ seen \in [Users -> 0 .. MaxPuts]
    /\ \A u \in Users : IF Waits(call[u]) THEN seen[u] <= obtained[call[u].id.number]
                                          ELSE seen[u] = 0

\* The service's view of the calls.
CallNow(u) == [number |-> IF Waits(call[u]) THEN call[u].id.number ELSE 0, seen |-> seen[u]]
CallsNow == [u \in Users |-> CallNow(u)]

\* How the call of a thread changes: it goes on outside of a wait, it begins to wait
\* for an entry, it goes on waiting, or it stops.
Outside(u) == ~Waits(call[u]) /\ ~Waits(call'[u])
Begins(u) == /\ ~Waits(call[u]) /\ Waits(call'[u])
             /\ call'[u].id.number \in Numbers
Stays(u) == Waits(call[u]) /\ Waits(call'[u]) /\ call'[u].id = call[u].id
Stops(u) == Waits(call[u]) /\ ~Waits(call'[u])
OthersStay(u) == \A v \in Users \ {u} : call'[v] = call[v]

LEMMA ActionCalls ==
    ASSUME Whole, NEW u \in Users, StepsOfUser(u)
    PROVE  /\ OthersStay(u)
           /\ \/ Outside(u) /\ ~Obtains(u)
              \/ /\ Begins(u) \/ Stays(u)
                 /\ ~Obtains(u) /\ \A mode \in Modes : ~Activate(u, mode)
              \/ Stops(u) /\ \A mode \in Modes : ~Activate(u, mode)
<1> USE DEF OthersStay
<1>0. /\ call \in [Users -> Calls] /\ call[u] \in Calls
      /\ \A id \in event_cache : id.number \in Numbers
  <2>1. EntryInv /\ Conn
    BY DEF Whole, EntryInv
  <2> QED  BY <2>1, FiringTypes
<1>1. Obtains(u) => call[u].at = "woken" /\ Return(u)
  BY DEF Obtains, ReturnEvent
<1>2. \A mode \in Modes : Activate(u, mode) => call[u].at = "idle"
  BY DEF Activate
<1>3. Waits(call[u]) => ~\E mode \in Modes : Activate(u, mode)
  BY <1>2 DEF Waits
<1>4. ~Waits(call[u]) => ~Obtains(u)
  BY <1>1 DEF Waits
<1>5. ASSUME \E place \in CallStates \ {"waiting", "woken"} : Go(u, place)
      PROVE  OthersStay(u) /\ ~Waits(call'[u])
  <2> PICK place \in CallStates \ {"waiting", "woken"} : Go(u, place)
    BY <1>5
  <2>1. call'[u] = [call[u] EXCEPT !.at = place] /\ \A v \in Users \ {u} : call'[v] = call[v]
    BY <1>0, Moves
  <2>2. call'[u].at = place
    BY <1>0, <2>1 DEF Calls
  <2> QED  BY <2>1, <2>2 DEF Waits
<1>6. ASSUME Return(u) PROVE OthersStay(u) /\ ~Waits(call'[u])
  <2>1. call'[u].at = "idle" /\ \A v \in Users \ {u} : call'[v] = call[v]
    BY <1>0, <1>6, Ends DEF NoCall
  <2> QED  BY <2>1 DEF Waits
<1>7. CASE Disconnect(u) \/ ClearEvents(u) \/ DetachReader(u) \/ Closed(u) \/ OpenWriter(u)
           \/ OpenReader(u) \/ Connected(u) \/ Register(u)
  <2>1. /\ ~Waits(call[u])
        /\ \/ \E place \in CallStates \ {"waiting", "woken"} : Go(u, place)
           \/ Return(u)
    BY <1>7 DEF Waits, Disconnect, ClearEvents, DetachReader, Closed, OpenWriter, OpenReader,
                Connected, Register, CallStates
  <2> QED  BY <2>1, <1>4, <1>5, <1>6 DEF Outside
<1>8. CASE Connect(u) \/ ConnectFails(u)
  <2>1. /\ call[u].at \notin {"waiting", "woken"}
        /\ \E after \in {"open", "return"} :
             call' = [call EXCEPT ![u].at = "locking", ![u].after = after]
    BY <1>8 DEF Connect, ConnectFails
  <2>2. call'[u].at = "locking" /\ \A v \in Users \ {u} : call'[v] = call[v]
    BY <1>0, <2>1 DEF Calls
  <2> QED  BY <2>1, <2>2, <1>4 DEF Outside, Waits
<1>9. CASE \/ \E blocking \in BOOLEAN : Blocking(u, blocking)
           \/ \E id \in event_cache : Deactivate(u, id)
  <2>1. call[u].at = "idle" /\ call' = call
    BY <1>9 DEF Blocking, Deactivate
  <2> QED  BY <2>1, <1>4 DEF Outside, Waits
<1>10. CASE \E mode \in Modes : Activate(u, mode)
  <2>1. /\ call[u].at = "idle"
        /\ \E id \in [session : {writer}, number : {activated + 1}] :
             call' = [call EXCEPT ![u].at = "written", ![u].id = id]
    BY <1>10 DEF Activate
  <2>2. call'[u].at = "written" /\ \A v \in Users \ {u} : call'[v] = call[v]
    BY <1>0, <2>1 DEF Calls
  <2> QED  BY <2>1, <2>2, <1>4 DEF Outside, Waits
<1>11. CASE \E id \in event_cache : GetEvent(u, id) \/ GetNextEvent(u, id)
  <2> PICK id \in event_cache : GetEvent(u, id) \/ GetNextEvent(u, id)
    BY <1>11
  <2> PICK next \in BOOLEAN : BeginWait(u, id, next)
    BY DEF GetEvent, GetNextEvent
  <2>1. /\ call[u].at = "idle"
        /\ call' = [call EXCEPT ![u] = [NoCall EXCEPT !.at = "waiting", !.id = id,
                                           !.next = next,
                                           !.since = IF next THEN Result(id).event ELSE 0]]
    BY DEF BeginWait
  <2>2. /\ call'[u].at = "waiting" /\ call'[u].id = id
        /\ \A v \in Users \ {u} : call'[v] = call[v]
    BY <1>0, <2>1 DEF NoCall
  <2>3. ~Waits(call[u]) /\ Begins(u)
    BY <1>0, <2>1, <2>2 DEF Begins, Waits
  <2>4. \A mode \in Modes : ~Activate(u, mode)
    <3> SUFFICES ASSUME NEW mode \in Modes, Activate(u, mode) PROVE FALSE
      OBVIOUS
    <3>1. call'[u].at = "written"
      BY <1>0 DEF Activate, Calls
    <3> QED  BY <2>2, <3>1
  <2> QED  BY <2>2, <2>3, <2>4, <1>4
<1>12. CASE Wake(u)
  <2>1. /\ call[u].at = "waiting"
        /\ call' = [call EXCEPT ![u].at = "woken", ![u].active = Active(u),
                                ![u].next_event_guard = FALSE]
    BY <1>12 DEF Wake
  <2>2. \A v \in Users \ {u} : call'[v] = call[v]
    BY <1>0, <2>1
  <2>3. call'[u].at = "woken" /\ call'[u].id = call[u].id
    BY <1>0, <2>1 DEF Calls
  <2>4. Stays(u) /\ ~Obtains(u)
    BY <2>1, <2>3, <1>1 DEF Stays, Waits
  <2> QED  BY <2>2, <2>4, <1>3 DEF Stays
<1>13. CASE TimeOut(u)
  <2>1. call[u].at = "waiting" /\ Go(u, "woken")
    BY <1>13 DEF TimeOut
  <2>2. call'[u] = [call[u] EXCEPT !.at = "woken"] /\ \A v \in Users \ {u} : call'[v] = call[v]
    BY <1>0, <2>1, Moves DEF CallStates
  <2>3. call'[u].at = "woken" /\ call'[u].id = call[u].id
    BY <1>0, <2>2 DEF Calls
  <2>4. Stays(u) /\ ~Obtains(u)
    BY <2>1, <2>3, <1>1 DEF Stays, Waits
  <2> QED  BY <2>2, <2>4, <1>3 DEF Stays
<1>14. CASE ReturnNothing(u) \/ Obtains(u)
  <2>1. call[u].at = "woken" /\ Return(u)
    BY <1>1, <1>14 DEF ReturnNothing
  <2> QED  BY <2>1, <1>3, <1>6 DEF Stops, Waits
<1> QED  BY <1>7, <1>8, <1>9, <1>10, <1>11, <1>12, <1>13, <1>14 DEF StepsOfUser

\* A call that goes on as before remembers what it did.
LEMMA SameCall ==
    ASSUME Memory, Remembers, NEW v \in Users,
           Waits(call[v]) => Waits(call'[v]) /\ call'[v].id = call[v].id,
           Waits(call'[v]) => Waits(call[v])
    PROVE  seen'[v] = seen[v] /\ CallNow(v)' = CallNow(v)
<1>1. seen'[v] = seen[v]
  <2>1. CASE Waits(call[v])
    BY <2>1 DEF Remembers
  <2>2. CASE ~Waits(call[v])
    BY <2>2 DEF Remembers, Memory
  <2> QED  BY <2>1, <2>2
<1> QED  BY <1>1 DEF CallNow

\* The listener, the wire and the server leave the calls in their places.
LEMMA OthersLeaveCalls ==
    ASSUME Whole,
           \/ Listens \/ Arrives \/ ServerStep
           \/ \E due \in SUBSET event_activations : SystemPut(due)
    PROVE  \A v \in Users : call'[v].at = call[v].at /\ call'[v].id = call[v].id
<1>0. call \in [Users -> Calls]
  BY FiringTypes DEF Whole
<1>1. CASE Listens /\ TakeEvent
  <2>1. \/ call' = call
        \/ \E id \in {reader.sample.id} :
             call' = [u \in Users |-> IF WaitsForNext(u, id)
                                        THEN [call[u] EXCEPT !.next_event_guard = TRUE]
                                        ELSE call[u]]
    BY <1>1 DEF TakeEvent
  <2> QED  BY <1>0, <2>1 DEF Calls
<1>2. CASE ~(Listens /\ TakeEvent)
  <2>1. call' = call
    BY <1>2 DEF Listens, Listen, OnLivelinessChanged, OnDataAvailable, Arrives, ServerStep,
                SystemPut, clientVars
  <2> QED  BY <2>1
<1> QED  BY <1>1, <1>2

\* The service's view after a step of a thread: its own call alone may have changed.
LEMMA ViewOfStep ==
    ASSUME Memory, Remembers, NEW u \in Users, OthersStay(u)
    PROVE  CallsNow' = [CallsNow EXCEPT ![u] = CallNow(u)']
<1>1. \A v \in Users \ {u} : CallNow(v)' = CallNow(v)
  BY SameCall DEF OthersStay
<1> QED  BY <1>1 DEF CallsNow

LEMMA InitMemory == Init => Memory
BY EventBounds DEF Init, ClientInit, Memory, NoCall, Waits

LEMMA NextMemory == Whole /\ Memory /\ [Next]_vars => Memory'
<1> SUFFICES ASSUME Whole, Memory, [Next]_vars PROVE Memory'
  OBVIOUS
<1>0. /\ obtained \in [Numbers -> 0 .. MaxPuts] /\ MaxPuts \in Nat
      /\ \A v \in Users : Waits(call[v]) => call[v].id.number \in Numbers
      /\ seen \in [Users -> 0 .. MaxPuts]
  <2>1. EntryInv /\ \A v \in Users : Waits(call[v]) => HasInHand(v)
    BY DEF Whole, Waits, HasInHand
  <2> QED  BY <2>1, FiringTypes, EventBounds DEF Memory
<1>1. CASE UNCHANGED vars
  BY <1>1 DEF vars, clientVars, history, Memory
<1>2. CASE Next
  <2>1. Remembers
    BY <1>2 DEF Next
  <2>2. seen' = [v \in Users |-> seen'[v]]
    BY <2>1 DEF Remembers
  <2>3. CASE \/ Listens \/ Arrives \/ ServerStep
             \/ \E due \in SUBSET event_activations : SystemPut(due)
    <3>1. \A v \in Users : call'[v].at = call[v].at /\ call'[v].id = call[v].id
      BY <2>3, OthersLeaveCalls
    <3>2. \A v \in Users : seen'[v] = seen[v]
      BY <2>1, <3>1, SameCall DEF Waits
    <3>3. obtained' = obtained
      BY <2>3, OthersServe, PutServes
    <3> QED  BY <1>0, <2>2, <3>1, <3>2, <3>3 DEF Memory, Waits
  <2>4. ASSUME NEW u \in Users, StepsOfUser(u) PROVE Memory'
    <3>1. /\ OthersStay(u)
          /\ \/ Outside(u) \/ Stays(u) \/ Stops(u)
             \/ Begins(u) /\ ~Obtains(u) /\ \A mode \in Modes : ~Activate(u, mode)
      BY <2>4, ActionCalls
    <3>2. /\ obtained' \in [Numbers -> 0 .. MaxPuts]
          /\ \A n \in Numbers : obtained[n] <= obtained'[n]
      <4>1. \/ obtained' = obtained
            \/ \E n \in Numbers, put \in 1 .. MaxPuts :
                 obtained[n] < put /\ obtained' = [obtained EXCEPT ![n] = put]
        BY <2>4, UserServes
      <4> QED  BY <1>0, <4>1
    <3>3. \A v \in Users \ {u} : seen'[v] = seen[v]
      BY <2>1, <3>1, SameCall DEF OthersStay
    <3>4. seen'[u] \in 0 .. MaxPuts
          /\ IF Waits(call'[u]) THEN seen'[u] <= obtained'[call'[u].id.number] ELSE seen'[u] = 0
      <4>1. CASE ~Waits(call'[u])
        BY <1>0, <2>1, <4>1 DEF Remembers
      <4>2. CASE Stays(u)
        <5>1. seen'[u] = seen[u]
          BY <2>1, <4>2, SameCall DEF Stays
        <5> QED  BY <1>0, <3>2, <4>2, <5>1 DEF Stays, Memory
      <4>3. CASE Begins(u)
        <5>1. seen'[u] = obtained[call'[u].id.number] /\ call'[u].id.number \in Numbers
          BY <2>1, <4>3 DEF Remembers, Begins
        <5> QED  BY <1>0, <3>2, <4>3, <5>1 DEF Begins
      <4> QED  BY <3>1, <4>1, <4>2, <4>3 DEF Outside, Stops
    <3>5. \A v \in Users \ {u} : IF Waits(call'[v]) THEN seen'[v] <= obtained'[call'[v].id.number]
                                                    ELSE seen'[v] = 0
      <4> TAKE v \in Users \ {u}
      <4>1. call'[v] = call[v]
        BY <3>1 DEF OthersStay
      <4>2. CASE Waits(call[v])
        <5>1. seen[v] <= obtained[call[v].id.number] /\ call[v].id.number \in Numbers
          BY <1>0, <4>2 DEF Memory
        <5> QED  BY <1>0, <3>2, <3>3, <4>1, <4>2, <5>1
      <4>3. CASE ~Waits(call[v])
        BY <3>3, <4>1, <4>3 DEF Memory
      <4> QED  BY <4>2, <4>3
    <3>6. seen' \in [Users -> 0 .. MaxPuts]
      <4>1. \A v \in Users : seen'[v] \in 0 .. MaxPuts
        BY <1>0, <3>3, <3>4
      <4> QED  BY <2>2, <4>1
    <3> QED  BY <3>4, <3>5, <3>6 DEF Memory
  <2> QED  BY <1>2, <2>3, <2>4, StepCases
<1> QED  BY <1>1, <1>2

\* Type correctness of the whole system.
THEOREM TypeCorrect == Spec => []TypeOK
<1>1. Whole /\ Memory => TypeOK
  BY DEF Whole, EntryInv, Conn, Memory, TypeOK
<1> QED  BY <1>1, InitMemory, NextMemory, WholeInvariant, PTL DEF Spec

LEMMA NextServes ==
    ASSUME Whole, Memory, [Next]_vars
    PROVE  [Service!Next]_Service!vars
<1> USE DEF Modes
<1>0. /\ obtained \in [Numbers -> 0 .. MaxPuts] /\ MaxPuts \in Nat
      /\ \A v \in Users : Waits(call[v]) => call[v].id.number \in Numbers
      /\ seen \in [Users -> 0 .. MaxPuts]
      /\ \A n \in Numbers : n \in Nat \ {0}
  <2>1. EntryInv /\ \A v \in Users : Waits(call[v]) => HasInHand(v)
    BY DEF Whole, Waits, HasInHand
  <2> QED  BY <2>1, FiringTypes, EventBounds DEF Memory, Numbers
<1>1. UNCHANGED <<ModesMade, fires, obtained, CallsNow>> => UNCHANGED Service!vars
  BY DEF Service!vars, ModesMade, CallsNow, CallNow
<1>2. ASSUME NEW n \in Numbers, NEW m \in Modes, ModesMade[n] = "none",
             ModesMade' = [ModesMade EXCEPT ![n] = m], UNCHANGED <<fires, obtained, CallsNow>>
      PROVE  Service!Next
  BY <1>2 DEF Service!Next, Service!Activate, Service!Numbers, Numbers, ModesMade, CallsNow,
              CallNow
<1>3. ASSUME NEW numbers \in SUBSET Numbers, NEW put \in 1 .. MaxPuts,
             UNCHANGED <<ModesMade, obtained, CallsNow>>,
             \A n \in numbers :
                 /\ \/ ModesMade[n] = "continuous"
                    \/ ModesMade[n] = "single" /\ fires[n] = {}
                 /\ \A k \in fires[n] : k < put,
             fires' = [n \in Numbers |-> IF n \in numbers THEN fires[n] \cup {put} ELSE fires[n]]
      PROVE  Service!Next
  BY <1>3 DEF Service!Next, Service!Fire, Service!MayFire, Service!Numbers, Numbers, ModesMade,
              CallsNow, CallNow
<1>4. ASSUME NEW u \in Users, NEW n \in Numbers, CallsNow[u] = [number |-> 0, seen |-> 0],
             CallsNow' = [CallsNow EXCEPT ![u] = [number |-> n, seen |-> obtained[n]]],
             UNCHANGED <<ModesMade, fires, obtained>>
      PROVE  Service!Next
  BY <1>4 DEF Service!Next, Service!Begin, Service!NoCall, Service!Numbers, Numbers, ModesMade,
              CallsNow, CallNow
<1>5. ASSUME NEW u \in Users, NEW put \in 1 .. MaxPuts, CallsNow[u].number # 0,
             put \in fires[CallsNow[u].number], CallsNow[u].seen < put,
             obtained[CallsNow[u].number] <= put,
             obtained' = [obtained EXCEPT ![CallsNow[u].number] = put],
             CallsNow' = [CallsNow EXCEPT ![u] = [number |-> 0, seen |-> 0]],
             UNCHANGED <<ModesMade, fires>>
      PROVE  Service!Next
  <2>1. CallsNow[u] # [number |-> 0, seen |-> 0]
    BY <1>5
  <2>2. Service!Obtain(u, put)
    BY <1>5, <2>1 DEF Service!Obtain, Service!NoCall, ModesMade, CallsNow, CallNow
  <2> QED  BY <2>2 DEF Service!Next
<1>6. ASSUME NEW u \in Users, UNCHANGED <<ModesMade, fires, obtained>>,
             CallsNow' = [CallsNow EXCEPT ![u] = [number |-> 0, seen |-> 0]]
      PROVE  Service!Next
  <2>1. Service!Return(u)
    BY <1>6 DEF Service!Return, Service!NoCall, ModesMade, CallsNow, CallNow
  <2> QED  BY <2>1 DEF Service!Next
<1>7. CASE UNCHANGED vars
  <2>1. UNCHANGED <<ModesMade, fires, obtained>>
    BY <1>7, OthersServe
  <2>2. CallsNow' = CallsNow
    BY <1>7 DEF vars, clientVars, CallsNow, CallNow
  <2> QED  BY <1>1, <2>1, <2>2
<1>8. CASE Next /\ (\/ Listens \/ Arrives \/ ServerStep
                    \/ \E due \in SUBSET event_activations : SystemPut(due))
  <2>1. \A v \in Users : CallNow(v)' = CallNow(v)
    BY <1>8, OthersLeaveCalls, SameCall DEF Next, Waits
  <2>2. CallsNow' = CallsNow
    BY <2>1 DEF CallsNow
  <2>3. CASE Listens \/ Arrives \/ ServerStep
    BY <1>1, <2>2, <2>3, OthersServe
  <2>4. CASE \E due \in SUBSET event_activations : SystemPut(due)
    BY <1>1, <1>3, <2>2, <2>4, PutServes
  <2> QED  BY <1>8, <2>3, <2>4
<1>9. ASSUME NEW u \in Users, Next, StepsOfUser(u) PROVE [Service!Next]_Service!vars
  <2>1. OthersStay(u) /\ Remembers
    BY <1>9, ActionCalls DEF Next
  <2>2. /\ CallsNow' = [CallsNow EXCEPT ![u] = CallNow(u)']
        /\ CallsNow[u] = CallNow(u)
    BY <2>1, ViewOfStep DEF CallsNow
  <2>3. CallsNow' = CallsNow \/ CallNow(u)' # CallNow(u)
    BY <2>2 DEF CallsNow
  <2>4. Waits(call'[u]) \/ CallNow(u)' = [number |-> 0, seen |-> 0]
    BY <2>1 DEF Remembers, CallNow
  <2>5. CASE Obtains(u)
    <3>1. Stops(u)
      BY <1>9, <2>5, ActionCalls
    <3>2. PICK put \in 1 .. MaxPuts :
                 /\ put \in fires[call[u].id.number] /\ obtained[call[u].id.number] < put
                 /\ obtained' = [obtained EXCEPT ![call[u].id.number] = put]
                 /\ UNCHANGED <<ModesMade, fires>>
      BY <1>9, <2>5, <3>1, UserServes, ActionCalls
    <3>3. CallNow(u).number = call[u].id.number /\ CallNow(u).seen = seen[u]
      BY <3>1 DEF CallNow, Stops
    <3>4. /\ call[u].id.number \in Numbers /\ call[u].id.number # 0
          /\ seen[u] <= obtained[call[u].id.number]
      BY <1>0, <3>1 DEF Stops, Memory
    <3>5. seen[u] < put /\ obtained[call[u].id.number] <= put
      BY <1>0, <3>2, <3>4
    <3>6. CallNow(u)' = [number |-> 0, seen |-> 0]
      BY <2>4, <3>1 DEF Stops
    <3> QED  BY <1>5, <2>2, <3>2, <3>3, <3>4, <3>5, <3>6
  <2>6. CASE ~Obtains(u) /\ \E m \in Modes : Activate(u, m)
    <3>1. Outside(u)
      BY <1>9, <2>6, ActionCalls
    <3>2. CallNow(u)' = CallNow(u)
      BY <2>1, <3>1, SameCall DEF Outside
    <3>3. CallsNow' = CallsNow
      BY <2>3, <3>2
    <3> QED  BY <1>1, <1>2, <1>9, <2>6, <3>3, UserServes
  <2>7. CASE ~Obtains(u) /\ ~\E m \in Modes : Activate(u, m)
    <3>1. UNCHANGED <<ModesMade, fires, obtained>>
      BY <1>9, <2>7, UserServes
    <3>2. CASE Outside(u) \/ Stays(u)
      <4>1. CallNow(u)' = CallNow(u)
        BY <2>1, <3>2, SameCall DEF Outside, Stays
      <4> QED  BY <1>1, <2>3, <3>1, <4>1
    <3>3. CASE Stops(u)
      BY <1>6, <2>2, <2>4, <3>1, <3>3 DEF Stops
    <3>4. CASE Begins(u)
      <4>1. /\ CallNow(u)' = [number |-> call'[u].id.number,
                              seen |-> obtained[call'[u].id.number]]
            /\ call'[u].id.number \in Numbers
        BY <2>1, <3>4 DEF Begins, Remembers, CallNow
      <4>2. CallNow(u) = [number |-> 0, seen |-> 0]
        BY <3>4 DEF Begins, Memory, CallNow
      <4> QED  BY <1>4, <2>2, <3>1, <4>1, <4>2
    <3> QED  BY <1>9, <3>2, <3>3, <3>4, ActionCalls
  <2> QED  BY <2>5, <2>6, <2>7
<1> QED  BY <1>7, <1>8, <1>9, StepCases

\* The pattern, with its threads, upcalls, reconnects, restarts and overwritten samples,
\* implements the service: a single event fires once, a caller obtains what was fired, in
\* order, and never what another call had obtained before its own began.
THEOREM EventServiceIsImplemented == Spec => ImplementsService
<1>1. Init => Service!Init /\ Memory
  BY InitService, InitMemory
<1>2. Whole /\ Memory /\ [Next]_vars => [Service!Next]_Service!vars /\ Memory'
  BY NextServes, NextMemory
<1>3. QED BY <1>1, <1>2, WholeInvariant, PTL DEF Spec, ImplementsService, Service!Spec
-----------------------------------------------------------------------------
\* The activations the server tests, or will test once it has taken its requests.
Known(id) ==
    \/ \E a \in event_activations : a.id = id
    \/ \E r \in requests : r.id = id /\ r.mode # "deactivate"

Leaving == \E u \in Users : call[u].at = "locking"

\* A server that is gone has no requests, and knows of no connection to come.
NothingEarly ==
    /\ ~server_up => requests = {}
    /\ \A id \in EventIds : Known(id) => id.session <= sessions

\* What the server knows of the present connection has an entry, is about to get it, or
\* its deactivation is on its way; and the client has not heard of the server's end,
\* so that it tells the server of the next deactivation.
Told ==
    server_up /\ writer # 0 /\ ~Leaving =>
        \A id \in EventIds : Known(id) /\ id.session = writer =>
            /\ ~disconnected_guard
            /\ \/ id \in event_cache
               \/ [mode |-> "deactivate", id |-> id] \in requests
               \/ \E u \in Users : call[u].at = "written" /\ call[u].id = id

Agree == Conn /\ NothingEarly /\ Told

LEMMA InitAgree == Init => Agree
<1> SUFFICES ASSUME Init PROVE Agree
  OBVIOUS
<1>1. event_activations = {} /\ requests = {} /\ writer = 0 /\ server_up = TRUE
  BY DEF Init, ServerInit, ServiceInit, TopicsInit, ClientInit
<1>2. NothingEarly /\ Told
  BY <1>1 DEF NothingEarly, Told, Known
<1>3. QED BY <1>2, InitConn DEF Agree

LEMMA AgreeTypes ==
    ASSUME Conn
    PROVE  /\ call \in [Users -> Calls]
           /\ writer \in Nat /\ sessions \in Nat /\ writer <= sessions
           /\ requests \subseteq Requests /\ event_activations \subseteq Activations
           /\ \A id \in EventIds : id.session \in Nat /\ id.session # 0
           /\ \A r \in requests : r.id \in EventIds
           /\ \A a \in event_activations : a.id \in EventIds
           /\ server_up \in BOOLEAN
<1>1. ClientTypeOK /\ ServerTypeOK /\ TopicsTypeOK
  BY DEF Conn, SystemTypeOK
<1>2. writer \in Nat /\ sessions \in Nat /\ writer <= sessions
  BY <1>1, EventBounds DEF ClientTypeOK
<1>3. \A id \in EventIds : id.session \in Nat /\ id.session # 0
  BY EventBounds DEF EventIds, Sessions
<1>4. QED BY <1>1, <1>2, <1>3 DEF ClientTypeOK, ServerTypeOK, TopicsTypeOK, Requests, Activations

\* A step that tells the server nothing, and leaves no entry without its activation.
LEMMA StaysTold ==
    ASSUME Agree,
           UNCHANGED <<requests, server_up, writer, sessions>>,
           event_cache \subseteq event_cache',
           \A a \in event_activations' : \E b \in event_activations : b.id = a.id,
           disconnected_guard' => disconnected_guard \/ ~server_up,
           Leaving => Leaving',
           \A u \in Users : call[u].at = "written" =>
               \/ call'[u].at = "written" /\ call'[u].id = call[u].id
               \/ call[u].id \in event_cache'
    PROVE  NothingEarly' /\ Told'
<1>1. \A id : Known(id)' => Known(id)
  BY DEF Known
<1>2. NothingEarly'
  BY <1>1 DEF Agree, NothingEarly
<1>3. Told'
  <2>1. SUFFICES ASSUME server_up, writer # 0, ~Leaving,
                        NEW id \in EventIds, Known(id), id.session = writer
                 PROVE  /\ ~disconnected_guard'
                        /\ \/ id \in event_cache'
                           \/ [mode |-> "deactivate", id |-> id] \in requests
                           \/ \E u \in Users : call'[u].at = "written" /\ call'[u].id = id
    BY <1>1 DEF Told
  <2>2. /\ ~disconnected_guard
        /\ \/ id \in event_cache
           \/ [mode |-> "deactivate", id |-> id] \in requests
           \/ \E u \in Users : call[u].at = "written" /\ call[u].id = id
    BY <2>1 DEF Agree, Told
  <2>3. QED BY <2>1, <2>2
<1>4. QED BY <1>2, <1>3

\* A thread at another place than these two changes nothing about them.
LEMMA OthersPlaces ==
    ASSUME call \in [Users -> Calls], NEW u \in Users, call[u].at \notin {"locking", "written"},
           \A v \in Users \ {u} : call'[v] = call[v]
    PROVE  /\ Leaving => Leaving'
           /\ \A v \in Users : call[v].at = "written" =>
                  call'[v].at = "written" /\ call'[v].id = call[v].id
BY DEF Leaving

\* The steps of a connection: the thread is about to disconnect, there is no writer, or
\* it is new and the server has never heard of it.
LEMMA ConnectionAgrees ==
    ASSUME Agree, NEW u \in Users, UNCHANGED ServerSide,
           \/ Disconnect(u) \/ ClearEvents(u) \/ DetachReader(u) \/ Closed(u)
           \/ Connect(u) \/ OpenWriter(u) \/ ConnectFails(u)
    PROVE  NothingEarly' /\ Told'
<1>0. Conn /\ NothingEarly /\ Told
  BY DEF Agree
<1> USE <1>0, AgreeTypes
<1>1. event_activations' = event_activations
  BY DEF ServerSide, serverVars, service
<1>2. CASE Disconnect(u) \/ Connect(u) \/ ConnectFails(u)
  <2>1. UNCHANGED <<requests, server_up, sessions>>
    BY <1>2 DEF Disconnect, Connect, ConnectFails, topics, counters
  <2>2. Leaving'
    <3>0. call \in [Users -> Calls] /\ "locking" \in CallStates
      BY AgreeTypes DEF CallStates
    <3>1. CASE Disconnect(u)
      <4>1. call'[u] = [call[u] EXCEPT !.at = "locking"]
        BY <3>0, <3>1, Moves DEF Disconnect
      <4>2. QED BY <3>0, <4>1 DEF Leaving, Calls
    <3>2. CASE Connect(u) \/ ConnectFails(u)
      <4>1. \E after \in {"open", "return"} :
              call' = [call EXCEPT ![u].at = "locking", ![u].after = after]
        BY <3>2 DEF Connect, ConnectFails
      <4>2. call'[u].at = "locking"
        BY <3>0, <4>1 DEF Calls
      <4>3. QED BY <4>2 DEF Leaving
    <3>3. QED BY <1>2, <3>1, <3>2
  <2>3. NothingEarly'
    BY <1>1, <2>1 DEF NothingEarly, Known
  <2>4. QED BY <2>2, <2>3 DEF Told
<1>3. CASE ClearEvents(u)
  <2>1. requests' \subseteq requests /\ server_up' = server_up /\ sessions' = sessions
        /\ writer' = 0
    BY <1>3 DEF ClearEvents, counters
  <2>2. NothingEarly'
    BY <1>1, <2>1 DEF NothingEarly, Known
  <2>3. QED BY <2>1, <2>2 DEF Told
<1>4. CASE DetachReader(u) \/ Closed(u)
  <2>1. /\ UNCHANGED <<requests, server_up, sessions>>
        /\ writer' = 0
    BY <1>4 DEF DetachReader, Closed, topics, counters, Conn, Endpoints
  <2>2. NothingEarly'
    BY <1>1, <2>1 DEF NothingEarly, Known
  <2>3. QED BY <2>1, <2>2 DEF Told
<1>5. CASE OpenWriter(u)
  <2>1. /\ UNCHANGED <<requests, server_up>>
        /\ sessions' = sessions + 1 /\ writer' = sessions + 1
    BY <1>5 DEF OpenWriter, topics
  <2>2. \A id \in EventIds : Known(id)' => id.session <= sessions
    BY <1>1, <2>1 DEF NothingEarly, Known
  <2>3. \A id \in EventIds : Known(id)' => id.session <= sessions' /\ id.session # writer'
    BY <2>1, <2>2
  <2>4. QED BY <2>1, <2>3 DEF NothingEarly, Told
<1>6. QED BY <1>2, <1>3, <1>4, <1>5

\* The steps that leave the writer and the requests alone.
LEMMA QuietAgrees ==
    ASSUME Agree, NEW u \in Users, UNCHANGED serverVars,
           \/ OpenReader(u) \/ Connected(u) \/ \E blocking \in BOOLEAN : Blocking(u, blocking)
           \/ Register(u) \/ \E id \in event_cache : GetEvent(u, id) \/ GetNextEvent(u, id)
           \/ Wake(u) \/ TimeOut(u) \/ ReturnNothing(u) \/ ReturnEvent(u)
    PROVE  NothingEarly' /\ Told'
<1>0. Conn /\ call \in [Users -> Calls]
  BY AgreeTypes DEF Agree
<1>1. /\ UNCHANGED <<requests, server_up, writer, sessions, event_activations>>
      /\ event_cache \subseteq event_cache'
      /\ disconnected_guard' => disconnected_guard
  <2>1. event_activations' = event_activations
    BY DEF serverVars, service
  <2>2. CASE OpenReader(u) \/ Connected(u) \/ \E blocking \in BOOLEAN : Blocking(u, blocking)
    <3>1. CASE OpenReader(u)
      BY <2>1, <3>1 DEF OpenReader, counters, guards
    <3>2. CASE Connected(u)
      BY <2>1, <3>2 DEF Connected, topics, counters
    <3>3. CASE \E blocking \in BOOLEAN : Blocking(u, blocking)
      BY <2>1, <3>3 DEF Blocking, topics, counters
    <3>4. QED BY <2>2, <3>1, <3>2, <3>3
  <2>3. CASE Register(u)
    BY <2>1, <2>3 DEF Register, topics, counters, guards
  <2>4. CASE \E id \in event_cache : GetEvent(u, id) \/ GetNextEvent(u, id)
    <3>1. PICK id \in event_cache, next \in BOOLEAN : BeginWait(u, id, next)
      BY <2>4 DEF GetEvent, GetNextEvent
    <3>2. QED BY <2>1, <3>1 DEF BeginWait, topics, counters, guards
  <2>5. CASE Wake(u) \/ TimeOut(u) \/ ReturnNothing(u) \/ ReturnEvent(u)
    BY <2>1, <2>5 DEF Wake, TimeOut, ReturnNothing, ReturnEvent, topics, counters, guards
  <2>6. QED BY <2>2, <2>3, <2>4, <2>5
<1>2. \A v \in Users \ {u} : call'[v] = call[v]
  BY <1>0 DEF OpenReader, Connected, Blocking, Register, GetEvent, GetNextEvent, BeginWait, Wake,
              TimeOut, ReturnNothing, ReturnEvent, Go, Return
<1>3. CASE Register(u)
  <2>1. call[u].at = "written" /\ call[u].id \in event_cache'
    BY <1>3 DEF Register
  <2>2. Leaving => Leaving'
    BY <1>2, <2>1 DEF Leaving
  <2>3. QED BY <1>1, <1>2, <2>1, <2>2, StaysTold
<1>4. CASE ~Register(u)
  <2>1. call[u].at \notin {"locking", "written"}
    BY <1>4 DEF OpenReader, Connected, Blocking, GetEvent, GetNextEvent, BeginWait, Wake,
                TimeOut, ReturnNothing, ReturnEvent
  <2>2. QED BY <1>0, <1>1, <1>2, <2>1, OthersPlaces, StaysTold
<1>5. QED BY <1>3, <1>4

LEMMA ActivateAgrees ==
    ASSUME Agree, NEW u \in Users, NEW mode \in Modes, UNCHANGED ServerSide, Activate(u, mode)
    PROVE  NothingEarly' /\ Told'
<1> DEFINE new == [session |-> writer, number |-> activated + 1]
<1>0. Conn /\ NothingEarly /\ Told
  BY DEF Agree
<1>1. /\ UNCHANGED <<server_up, writer, sessions, event_cache, event_activations>>
      /\ requests' = IF server_up THEN requests \cup {[mode |-> mode, id |-> new]}
                                  ELSE requests
      /\ call[u].at = "idle" /\ call'[u].at = "written" /\ call'[u].id = new
      /\ \A v \in Users \ {u} : call'[v] = call[v]
      /\ ~disconnected_guard'
  BY <1>0, AgreeTypes
     DEF Activate, ServerSide, serverVars, service, guards, Calls
<1>2. \A id : Known(id)' => Known(id) \/ (id = new /\ server_up)
  BY <1>1 DEF Known
<1>3. new.session = writer
  OBVIOUS
<1> HIDE DEF new
<1>4. NothingEarly'
  BY <1>0, <1>1, <1>2, <1>3, AgreeTypes DEF NothingEarly
<1>5. Leaving => Leaving'
  BY <1>1 DEF Leaving
<1>6. \A v \in Users : call[v].at = "written" => call'[v].at = "written" /\ call'[v].id = call[v].id
  BY <1>1
<1>7. Told'
  <2>1. SUFFICES ASSUME server_up, writer # 0, ~Leaving,
                        NEW id \in EventIds, Known(id)', id.session = writer
                 PROVE  /\ ~disconnected_guard'
                        /\ \/ id \in event_cache'
                           \/ [mode |-> "deactivate", id |-> id] \in requests'
                           \/ \E v \in Users : call'[v].at = "written" /\ call'[v].id = id
    BY <1>1, <1>5 DEF Told
  <2>2. CASE id = new
    BY <1>1, <2>2
  <2>3. CASE id # new
    <3>1. \/ id \in event_cache
          \/ [mode |-> "deactivate", id |-> id] \in requests
          \/ \E v \in Users : call[v].at = "written" /\ call[v].id = id
      BY <1>0, <1>2, <2>1, <2>3 DEF Told
    <3>2. QED BY <1>1, <1>6, <3>1
  <2>4. QED BY <2>2, <2>3
<1>8. QED BY <1>4, <1>7

\* The entry goes, and the deactivation is sent: the client hears of the server.
LEMMA DeactivateAgrees ==
    ASSUME Agree, NEW u \in Users, NEW gone \in event_cache, UNCHANGED ServerSide,
           Deactivate(u, gone)
    PROVE  NothingEarly' /\ Told'
<1> DEFINE request == [mode |-> "deactivate", id |-> gone]
<1>0. Conn /\ NothingEarly /\ Told
  BY DEF Agree
<1>1. /\ UNCHANGED <<server_up, writer, sessions, call, event_activations, disconnected_guard>>
      /\ requests' = IF ~disconnected_guard /\ server_up THEN requests \cup {request}
                                                         ELSE requests
      /\ event_cache' = event_cache \ {gone}
  BY DEF Deactivate, TellServer, ServerSide, serverVars, service, guards, counters
<1>2. request.mode = "deactivate"
  OBVIOUS
<1> HIDE DEF request
<1>3. \A id : Known(id)' => Known(id)
  BY <1>1, <1>2 DEF Known
<1>4. NothingEarly'
  BY <1>0, <1>1, <1>3 DEF NothingEarly
<1>5. Told'
  <2>1. SUFFICES ASSUME server_up, writer # 0, ~Leaving,
                        NEW id \in EventIds, Known(id), id.session = writer
                 PROVE  /\ ~disconnected_guard
                        /\ \/ id \in event_cache'
                           \/ [mode |-> "deactivate", id |-> id] \in requests'
                           \/ \E v \in Users : call[v].at = "written" /\ call[v].id = id
    BY <1>1, <1>3 DEF Told, Leaving
  <2>2. /\ ~disconnected_guard
        /\ \/ id \in event_cache
           \/ [mode |-> "deactivate", id |-> id] \in requests
           \/ \E v \in Users : call[v].at = "written" /\ call[v].id = id
    BY <1>0, <2>1 DEF Told
  <2>3. requests' = requests \cup {request}
    BY <1>1, <2>1, <2>2
  <2>4. CASE id = gone
    BY <2>2, <2>3, <2>4 DEF request
  <2>5. QED BY <1>1, <2>2, <2>3, <2>4
<1>6. QED BY <1>4, <1>5

LEMMA ListenAgrees ==
    ASSUME Agree, Listens
    PROVE  NothingEarly' /\ Told'
<1>0. call \in [Users -> Calls] /\ server_up \in BOOLEAN
  BY AgreeTypes DEF Agree
<1>1. /\ UNCHANGED <<requests, server_up, writer, sessions, event_cache, event_activations>>
      /\ disconnected_guard' => disconnected_guard \/ ~server_up
  <2>1. event_activations' = event_activations
    BY DEF Listens, Quietly, serverVars, service
  <2>2. CASE OnLivelinessChanged
    BY <2>1, <2>2 DEF OnLivelinessChanged, topics, counters
  <2>3. CASE OnDataAvailable
    BY <2>1, <2>3 DEF OnDataAvailable, counters, guards
  <2>4. CASE TakeEvent
    BY <2>1, <2>4 DEF TakeEvent, counters, guards
  <2>5. QED BY <2>2, <2>3, <2>4 DEF Listens, Listen
<1>2. \A v \in Users : call'[v].at = call[v].at /\ call'[v].id = call[v].id
  BY <1>0 DEF Listens, Listen, OnLivelinessChanged, OnDataAvailable, TakeEvent, Calls
<1>3. Leaving => Leaving'
  BY <1>2 DEF Leaving
<1>4. QED BY <1>1, <1>2, <1>3, StaysTold

\* Firing marks activations, and adds none.
LEMMA FireKeepsIds ==
    ASSUME event_activations \subseteq Activations, NEW due \in SUBSET event_activations,
           FireEvents(due)
    PROVE  \A a \in event_activations' : \E b \in event_activations : b.id = a.id
BY DEF FireEvents, Activations

LEMMA TakeRequestAgrees ==
    ASSUME Agree, NEW r \in requests, TakeRequest(r), UNCHANGED clientVars
    PROVE  NothingEarly' /\ Told'
<1> DEFINE new == [id |-> r.id, mode |-> r.mode, fired_once |-> FALSE]
<1>0. Conn /\ NothingEarly /\ Told
  BY DEF Agree
<1>1. /\ UNCHANGED <<server_up, writer, sessions, call, event_cache, disconnected_guard>>
      /\ requests' = requests \ {r} /\ InOrder(r)
      /\ event_activations' = ActivationsAfter(r)
      /\ requests \subseteq Requests
  BY <1>0, AgreeTypes DEF TakeRequest, clientVars, guards, counters
<1>2. \A id : Known(id)' => Known(id) /\ (r.mode = "deactivate" => id # r.id)
  <2>1. CASE r.mode = "deactivate"
    <3>1. \A q \in requests' : q.id # r.id
      BY <1>1, <2>1 DEF InOrder
    <3>2. \A a \in event_activations' : a \in event_activations /\ a.id # r.id
      BY <1>1, <2>1 DEF ActivationsAfter
    <3>3. QED BY <1>1, <3>1, <3>2 DEF Known
  <2>2. CASE r.mode # "deactivate"
    <3>1. event_activations' = event_activations \cup {new} /\ new.id = r.id
      BY <1>1, <2>2 DEF ActivationsAfter
    <3> HIDE DEF new
    <3>2. QED BY <1>1, <2>2, <3>1 DEF Known
  <2>3. QED BY <2>1, <2>2
<1>3. NothingEarly'
  BY <1>0, <1>1, <1>2 DEF NothingEarly
<1>4. Told'
  <2>1. SUFFICES ASSUME server_up, writer # 0, ~Leaving,
                        NEW id \in EventIds, Known(id)', id.session = writer
                 PROVE  /\ ~disconnected_guard
                        /\ \/ id \in event_cache
                           \/ [mode |-> "deactivate", id |-> id] \in requests'
                           \/ \E v \in Users : call[v].at = "written" /\ call[v].id = id
    BY <1>1 DEF Told, Leaving
  <2>2. /\ ~disconnected_guard
        /\ \/ id \in event_cache
           \/ [mode |-> "deactivate", id |-> id] \in requests
           \/ \E v \in Users : call[v].at = "written" /\ call[v].id = id
    BY <1>0, <1>2, <2>1 DEF Told
  <2>3. [mode |-> "deactivate", id |-> id] # r
    BY <1>2, <2>1
  <2>4. QED BY <1>1, <2>2, <2>3
<1>5. QED BY <1>3, <1>4

LEMMA ServerAgrees ==
    ASSUME Agree, ServerStep
    PROVE  NothingEarly' /\ Told'
<1>0. Conn /\ NothingEarly /\ Told /\ event_activations \subseteq Activations
  BY AgreeTypes DEF Agree
<1>1. /\ UNCHANGED <<writer, sessions, call, event_cache, disconnected_guard>>
      /\ UNCHANGED clientVars
  BY DEF ServerStep, clientVars, guards, counters
<1>2. Leaving => Leaving'
  BY <1>1 DEF Leaving
<1>3. CASE OnRequestAvailable \/ TakeNothing \/ PutFails \/ BeginShutdown \/ LockServer
  <2>1. UNCHANGED <<requests, server_up>>
    BY <1>3 DEF OnRequestAvailable, TakeNothing, PutFails, BeginShutdown, LockServer, topics
  <2>2. \A a \in event_activations' : \E b \in event_activations : b.id = a.id
    <3>1. CASE PutFails
      <4>1. \/ UNCHANGED event_activations
            \/ \E a \in event_activations : FireEvents({a})
        BY <3>1 DEF PutFails, Tested
      <4>2. QED BY <1>0, <4>1, FireKeepsIds
    <3>2. CASE ~PutFails
      BY <1>3, <3>2 DEF OnRequestAvailable, TakeNothing, BeginShutdown, LockServer
    <3>3. QED BY <3>1, <3>2
  <2>3. QED BY <1>1, <1>2, <2>1, <2>2, StaysTold
<1>4. CASE \E r \in requests : TakeRequest(r)
  BY <1>1, <1>4, TakeRequestAgrees
<1>5. CASE DetachServer
  <2>1. server_up' = FALSE /\ requests' = {} /\ event_activations' = event_activations
    BY <1>5 DEF DetachServer
  <2>2. QED BY <1>0, <1>1, <2>1 DEF NothingEarly, Told, Known
<1>6. CASE RestartServer
  <2>1. event_activations' = {} /\ requests' = requests /\ server_up' = TRUE
    BY <1>6 DEF RestartServer
  <2>2. requests = {} \/ server_up
    BY <1>0 DEF NothingEarly
  <2>3. CASE requests = {}
    BY <2>1, <2>3 DEF NothingEarly, Told, Known
  <2>4. CASE server_up
    <3>1. server_up' = server_up
      BY <2>1, <2>4, <1>0, AgreeTypes
    <3>2. QED BY <1>1, <1>2, <2>1, <3>1, StaysTold
  <2>5. QED BY <2>2, <2>3, <2>4
<1>7. QED BY <1>3, <1>4, <1>5, <1>6 DEF ServerStep, ServerUpcall

LEMMA NextAgree == Agree /\ [Next]_vars => Agree'
<1> SUFFICES ASSUME Agree, [Next]_vars PROVE NothingEarly' /\ Told'
  BY NextConn DEF Agree
<1>0. event_activations \subseteq Activations
  BY AgreeTypes DEF Agree
<1>1. ASSUME NEW u \in Users, StepsOfUser(u) PROVE NothingEarly' /\ Told'
  <2>1. CASE Obtains(u)
    BY <2>1, QuietAgrees DEF Obtains
  <2>2. CASE ~Obtains(u)
    BY <1>1, <2>2, ConnectionAgrees, QuietAgrees, ActivateAgrees, DeactivateAgrees
       DEF StepsOfUser, ServerSide
  <2>3. QED BY <2>1, <2>2
<1>2. CASE Arrives
  <2>1. UNCHANGED <<clientVars, serverVars, requests, server_up>>
    BY <1>2 DEF Arrives, Deliver
  <2>2. Leaving => Leaving'
    BY <2>1 DEF Leaving, clientVars
  <2>3. QED BY <2>1, <2>2, StaysTold DEF clientVars, guards, counters, serverVars, service
<1>3. ASSUME NEW due \in SUBSET event_activations, SystemPut(due)
      PROVE  NothingEarly' /\ Told'
  <2>1. UNCHANGED <<clientVars, requests, server_up>>
    BY <1>3 DEF SystemPut, Put
  <2>2. \A a \in event_activations' : \E b \in event_activations : b.id = a.id
    BY <1>0, <1>3, FireKeepsIds DEF SystemPut, Put
  <2>3. Leaving => Leaving'
    BY <2>1 DEF Leaving, clientVars
  <2>4. QED BY <2>1, <2>2, <2>3, StaysTold DEF clientVars, guards, counters
<1>4. CASE UNCHANGED vars
  <2>1. UNCHANGED <<clientVars, serverVars, topics>>
    BY <1>4 DEF vars
  <2>2. Leaving => Leaving'
    BY <2>1 DEF Leaving, clientVars
  <2>3. QED BY <2>1, <2>2, StaysTold DEF clientVars, guards, counters, serverVars, service, topics
<1>5. QED BY <1>1, <1>2, <1>3, <1>4, ListenAgrees, ServerAgrees, StepCases

\* While client and server are there the server tests no activation of the present
\* connection that was deactivated, whatever threads disconnect or deactivate and however
\* often the server is restarted.
THEOREM DeactivatedIsForgotten == Spec => []ActivationsAgree
<1>1. Agree => ActivationsAgree
  <2> SUFFICES ASSUME Agree, server_up, ~Leaving, NEW a \in event_activations,
                      a.id.session = writer
               PROVE  \/ a.id \in event_cache
                      \/ [mode |-> "deactivate", id |-> a.id] \in requests
                      \/ \E u \in Users : call[u].at = "written" /\ call[u].id = a.id
    BY DEF ActivationsAgree, Leaving
  <2>1. a.id \in EventIds /\ writer # 0 /\ Known(a.id)
    BY AgreeTypes DEF Agree, Known
  <2>2. QED BY <2>1 DEF Agree, Told
<1>2. QED BY <1>1, InitAgree, NextAgree, PTL DEF Spec

-----------------------------------------------------------------------------
\* An upcall for an event is pending or under way only while there is a reader.
UpcallHasReader == reader.notified \/ listener = "locking" => reader.session # 0

\* The guards of the steps that the owner of the mutex may take next.
CanStep(u) ==
    \/ call[u].at \in {"closed", "opening", "subscribing", "attached", "written"}
    \/ call[u].at = "locking" /\ Available(u)
    \/ call[u].at = "detaching" /\ (reader.session # 0 => listener = "quiet")

LEMMA InitUpcall == Init => UpcallHasReader
BY DEF Init, ClientInit, TopicsInit, NoReader, UpcallHasReader

LEMMA UsersKeepUpcall ==
    ASSUME Conn, UpcallHasReader, NEW u \in Users, StepsOfUser(u)
    PROVE  UpcallHasReader'
<1> USE DEF UpcallHasReader, topics
<1>1. CASE OpenReader(u)
  BY <1>1 DEF OpenReader, FilteredReader, NoReader, Conn, Endpoints
<1>2. CASE DetachReader(u)
  BY <1>2 DEF DetachReader, NoReader
<1>3. CASE ~OpenReader(u) /\ ~DetachReader(u)
  <2>1. reader' = reader /\ listener' = listener
    BY <1>3 DEF StepsOfUser, Disconnect, ClearEvents, Closed, Connect, OpenWriter, Connected,
                ConnectFails, Blocking, Activate, Register, Deactivate, GetEvent, GetNextEvent,
                BeginWait, Wake, TimeOut, ReturnNothing, Obtains, ReturnEvent
  <2> QED  BY <2>1
<1> QED  BY <1>1, <1>2, <1>3

LEMMA NextUpcall == Own /\ UpcallHasReader /\ [Next]_vars => UpcallHasReader'
<1> SUFFICES ASSUME Own, UpcallHasReader, [Next]_vars PROVE UpcallHasReader'
  OBVIOUS
<1>0. Conn /\ TopicsTypeOK
  BY DEF Own, Conn, SystemTypeOK
<1>1. ASSUME NEW u \in Users, StepsOfUser(u) PROVE UpcallHasReader'
  BY <1>0, <1>1, UsersKeepUpcall
<1>2. CASE Listens
  <2>1. reader \in [session : Sessions \cup {0}, expression : HexTexts,
                    sample : Events \cup {NoEvent}, notified : BOOLEAN]
    BY <1>0 DEF TopicsTypeOK
  <2>2. reader'.session = reader.session
    BY <1>2, <2>1 DEF Listens, Listen, OnLivelinessChanged, OnDataAvailable, TakeEvent, topics
  <2>3. reader'.notified => reader.notified
    BY <1>2, <2>1 DEF Listens, Listen, OnLivelinessChanged, OnDataAvailable, TakeEvent, topics
  <2>4. listener' = "locking" => reader.notified \/ listener = "locking"
    BY <1>2 DEF Listens, Listen, OnLivelinessChanged, OnDataAvailable, TakeEvent
  <2> QED  BY <2>2, <2>3, <2>4 DEF UpcallHasReader
<1>3. CASE Arrives
  <2>1. PICK e \in events : Deliver(e)
    BY <1>3 DEF Arrives
  <2>2. reader.session = e.id.session /\ e \in Events
    BY <1>0, <2>1 DEF Own, OwnEventsOnly, TopicsTypeOK
  <2>3. reader.session # 0
    BY <2>2 DEF Events, EventIds, Sessions
  <2>4. reader'.session = reader.session
    BY <1>0, <2>1 DEF Deliver, TopicsTypeOK
  <2> QED  BY <2>3, <2>4 DEF UpcallHasReader
<1>4. CASE ServerStep \/ \E due \in SUBSET event_activations : SystemPut(due)
  <2>1. reader' = reader /\ listener' = listener
    BY <1>4 DEF ServerStep, ServerUpcall, PutFails, OnRequestAvailable, TakeNothing,
                TakeRequest, BeginShutdown, LockServer, DetachServer, RestartServer, topics,
                SystemPut, Put, clientVars
  <2> QED  BY <2>1 DEF UpcallHasReader
<1>5. CASE UNCHANGED vars
  BY <1>5 DEF vars, topics, clientVars, UpcallHasReader
<1> QED  BY <1>1, <1>2, <1>3, <1>4, <1>5, StepCases

LEMMA UpcallInvariant == Spec => [](Own /\ UpcallHasReader)
<1> QED  BY InitOwn, NextOwn, InitUpcall, NextUpcall, PTL DEF Spec

\* The thread that holds the mutex has a step to take, whatever the other threads, the
\* listener and the server have done, or it waits in disconnect() for an upcall that
\* waits for it: there is no other way to block the client with its mutex held.
THEOREM HolderNotStuck ==
    Spec => [](\A u \in Users : client_mutex = u => UpcallCaught \/ CanStep(u))
<1>1. Conn => \A u \in Users : client_mutex = u => UpcallCaught \/ CanStep(u)
  <2> SUFFICES ASSUME Conn, NEW u \in Users, client_mutex = u, ~CanStep(u)
               PROVE  UpcallCaught
    OBVIOUS
  <2>1. call[u].at \in Holding \cup {"locking"}
    BY DEF Conn, MutexOwner
  <2>2. call[u].at = "detaching" /\ listener # "quiet"
    BY <2>1 DEF CanStep, Holding, Available
  <2>3. listener = "locking"
    BY <2>2 DEF Conn, SystemTypeOK, ClientTypeOK
  <2> QED  BY <2>2, <2>3 DEF UpcallCaught
<1> QED  BY <1>1, ConnInvariant, PTL

\* What another thread does leaves the holder of the mutex and its call alone.
LEMMA OtherThreads ==
    ASSUME Conn, NEW u \in Users, client_mutex = u, NEW v \in Users, v # u, StepsOfUser(v)
    PROVE  client_mutex' = u /\ call'[u] = call[u]
<1>1. call[v].at \notin Holding /\ call[v].after # "open"
  BY DEF Conn, MutexOwner
<1>2. u # Nobody
  BY NobodyIsNoUser
<1>3. client_mutex' = u
  BY <1>1, <1>2
  DEF StepsOfUser, Disconnect, ClearEvents, DetachReader, Closed, Connect, OpenWriter,
      OpenReader, Connected, ConnectFails, Blocking, Activate, Register, Deactivate, GetEvent,
      GetNextEvent, BeginWait, Wake, TimeOut, ReturnNothing, Obtains, ReturnEvent,
      Available, Holding
<1>4. \A c : call' = [call EXCEPT ![v] = c] => call'[u] = call[u]
  BY DEF Conn, SystemTypeOK, ClientTypeOK
<1>5. call'[u] = call[u]
  BY <1>4
  DEF StepsOfUser, Disconnect, ClearEvents, DetachReader, Closed, Connect, OpenWriter,
      OpenReader, Connected, ConnectFails, Blocking, Activate, Register, Deactivate, GetEvent,
      GetNextEvent, BeginWait, Wake, TimeOut, ReturnNothing, Obtains, ReturnEvent, Go, Return,
      Conn, SystemTypeOK, ClientTypeOK
<1> QED  BY <1>3, <1>5

\* And that one is for good: once disconnect() waits for an upcall that waits for the
\* mutex, nothing that any thread, the topics or the server do ends either wait.
THEOREM CaughtForGood == Spec => [][UpcallCaught => UpcallCaught']_vars
<1>1. Own /\ UpcallHasReader /\ [Next]_vars => [UpcallCaught => UpcallCaught']_vars
  <2> SUFFICES ASSUME Own, UpcallHasReader, Next, UpcallCaught PROVE UpcallCaught'
    OBVIOUS
  <2>1. PICK u \in Users : client_mutex = u /\ call[u].at = "detaching"
    BY DEF UpcallCaught
  <2>2. listener = "locking" /\ reader.session # 0 /\ client_mutex # Nobody
    BY <2>1, NobodyIsNoUser DEF UpcallCaught, UpcallHasReader
  <2>3. Conn
    BY DEF Own
  <2>4. ASSUME NEW v \in Users, StepsOfUser(v)
        PROVE  listener' = listener /\ client_mutex' = u /\ call'[u].at = "detaching"
    <3>1. ~DetachReader(v)
      BY <2>2 DEF DetachReader
    <3>2. v # u
      BY <2>1, <2>4, <3>1
      DEF StepsOfUser, Disconnect, ClearEvents, Closed, Connect, OpenWriter, OpenReader,
          Connected, ConnectFails, Blocking, Activate, Register, Deactivate, GetEvent,
          GetNextEvent, BeginWait, Wake, TimeOut, ReturnNothing, Obtains, ReturnEvent
    <3>3. client_mutex' = u /\ call'[u] = call[u]
      BY <2>1, <2>3, <2>4, <3>2, OtherThreads
    <3>4. listener' = listener
      BY <2>4
      DEF StepsOfUser, Disconnect, ClearEvents, DetachReader, Closed, Connect, OpenWriter,
          OpenReader, Connected, ConnectFails, Blocking, Activate, Register, Deactivate,
          GetEvent, GetNextEvent, BeginWait, Wake, TimeOut, ReturnNothing, Obtains,
          ReturnEvent
    <3> QED  BY <2>1, <3>3, <3>4
  <2>5. ~Listens
    BY <2>1, <2>2 DEF Listens, Listen, OnLivelinessChanged, OnDataAvailable, TakeEvent
  <2>6. CASE Arrives \/ ServerStep \/ \E due \in SUBSET event_activations : SystemPut(due)
    BY <2>1, <2>2, <2>6 DEF Arrives, ServerStep, SystemPut, clientVars, UpcallCaught
  <2> QED  BY <2>2, <2>4, <2>5, <2>6, StepCases DEF UpcallCaught
<1> QED  BY <1>1, UpcallInvariant, PTL DEF Spec

-----------------------------------------------------------------------------
\* The steps before a call that changes the connection lets go of the mutex at most: more
\* of them when the new end points of connect() are still to come.
StepsFrom(place) ==
    CASE place = "opening" -> 6
      [] place = "subscribing" -> 5
      [] place = "attached" -> 4
      [] place = "locking" -> 3
      [] place = "detaching" -> 2
      [] place \in {"closed", "written"} -> 1
      [] OTHER -> 0

StepsLeft(c) ==
    StepsFrom(c.at)
        + (IF c.at \in {"locking", "detaching", "closed"} /\ c.after = "open" THEN 6 ELSE 0)

\* A step of a call is one of the calls that are left with fewer steps.
GetsOn(u) ==
    /\ call'[u] = call[u] \/ StepsLeft(call'[u]) < StepsLeft(call[u])
    /\ client_mutex' = u \/ call'[u] = NoCall

\* A call never needs more of them than this.
LEMMA StepsAreBounded == \A c \in Calls : StepsLeft(c) \in 0 .. 9
BY DEF StepsLeft, StepsFrom, Calls

\* The steps of the holder itself.
LEMMA HolderSteps ==
    ASSUME Conn, NEW u \in Users, client_mutex = u, StepsOfUser(u)
    PROVE  GetsOn(u)
<1>0. call \in [Users -> Calls] /\ u # Nobody /\ call[u] \in Calls
  BY NobodyIsNoUser DEF Conn, SystemTypeOK, ClientTypeOK
<1>1. call[u].at \in Holding \cup {"locking"}
  BY DEF Conn, MutexOwner
<1>2. CASE ClearEvents(u) \/ DetachReader(u) \/ OpenWriter(u) \/ OpenReader(u)
  <2>1. PICK place \in {"detaching", "closed", "subscribing", "attached"} :
          /\ Go(u, place) /\ client_mutex' = u
          /\ \/ call[u].at = "locking" /\ place = "detaching"
             \/ call[u].at = "detaching" /\ place = "closed"
             \/ call[u].at = "opening" /\ place = "subscribing"
             \/ call[u].at = "subscribing" /\ place = "attached"
    BY <1>2 DEF ClearEvents, DetachReader, OpenWriter, OpenReader
  <2>2. call'[u] = [call[u] EXCEPT !.at = place]
    BY <1>0, <2>1, Moves DEF CallStates
  <2>3. call'[u].at = place /\ call'[u].after = call[u].after
    BY <1>0, <2>2 DEF Calls
  <2>4. StepsLeft(call'[u]) < StepsLeft(call[u])
    BY <2>1, <2>3 DEF StepsLeft, StepsFrom
  <2> QED  BY <2>1, <2>4 DEF GetsOn
<1>3. CASE Closed(u)
  <2>1. CASE call[u].after = "open"
    <3>1. call'[u] = [call[u] EXCEPT !.at = "opening"] /\ client_mutex' = u
      BY <1>0, <1>3, <2>1, Moves DEF Closed, CallStates
    <3>2. call'[u].at = "opening" /\ call[u].at = "closed"
      BY <1>0, <1>3, <3>1 DEF Calls, Closed
    <3>3. StepsLeft(call'[u]) < StepsLeft(call[u])
      BY <2>1, <3>2 DEF StepsLeft, StepsFrom
    <3> QED  BY <3>1, <3>3 DEF GetsOn
  <2>2. CASE call[u].after # "open"
    <3>1. call'[u] = NoCall /\ call[u].at = "closed"
      BY <1>0, <1>3, <2>2, Ends DEF Closed
    <3> QED  BY <3>1 DEF GetsOn, StepsLeft, StepsFrom, NoCall
  <2> QED  BY <2>1, <2>2
<1>4. CASE Connected(u) \/ Register(u)
  <2>1. call'[u] = NoCall /\ call[u].at \in {"attached", "written"}
    BY <1>0, <1>4, Ends DEF Connected, Register
  <2> QED  BY <2>1 DEF GetsOn, StepsLeft, StepsFrom, NoCall
<1>5. CASE ConnectFails(u)
  <2>1. call'[u] = [call[u] EXCEPT !.at = "locking", !.after = "return"]
        /\ client_mutex' = u /\ call[u].at \in {"opening", "subscribing"}
    BY <1>0, <1>5 DEF ConnectFails
  <2>2. call'[u].at = "locking" /\ call'[u].after = "return"
    BY <1>0, <2>1 DEF Calls
  <2>3. StepsLeft(call'[u]) < StepsLeft(call[u])
    BY <2>1, <2>2 DEF StepsLeft, StepsFrom
  <2> QED  BY <2>1, <2>3 DEF GetsOn
<1>6. ASSUME NEW id, Deactivate(u, id) \/ GetEvent(u, id) \/ GetNextEvent(u, id)
      PROVE  FALSE
  BY <1>0, <1>6 DEF Deactivate, GetEvent, GetNextEvent, BeginWait
<1>7. ~(Disconnect(u) \/ Connect(u) \/ Wake(u) \/ TimeOut(u) \/ ReturnNothing(u) \/ Obtains(u))
  BY <1>0, <1>1 DEF Disconnect, Connect, Wake, TimeOut, ReturnNothing, Obtains, ReturnEvent,
                    Holding
<1>8. (\A mode : ~Activate(u, mode)) /\ (\A blocking : ~Blocking(u, blocking))
  BY <1>0 DEF Activate, Blocking
<1> QED  BY <1>2, <1>3, <1>4, <1>5, <1>6, <1>7, <1>8 DEF StepsOfUser

\* Every step of the holder brings it closer to the end of its call, where it lets go of
\* the mutex, and nobody takes it further away: but for an upcall that it waits for, a call
\* that changes the connection ends after at most nine steps of its thread.
THEOREM HolderGetsOn == Spec => [][\A u \in Users : client_mutex = u => GetsOn(u)]_vars
<1>1. Conn /\ [Next]_vars => \A u \in Users : client_mutex = u => GetsOn(u)
  <2> SUFFICES ASSUME Conn, [Next]_vars, NEW u \in Users, client_mutex = u
               PROVE  GetsOn(u)
    OBVIOUS
  <2>0. u # Nobody
    BY NobodyIsNoUser
  <2>1. ASSUME NEW v \in Users, StepsOfUser(v) PROVE GetsOn(u)
    BY <2>1, HolderSteps, OtherThreads DEF GetsOn
  <2>2. CASE Listens
    BY <2>0, <2>2 DEF Listens, Listen, OnLivelinessChanged, OnDataAvailable, TakeEvent, GetsOn
  <2>3. CASE Arrives \/ ServerStep \/ \E due \in SUBSET event_activations : SystemPut(due)
    BY <2>3 DEF Arrives, ServerStep, SystemPut, clientVars, GetsOn
  <2>4. CASE UNCHANGED vars
    BY <2>4 DEF vars, clientVars, GetsOn
  <2> QED  BY <2>1, <2>2, <2>3, <2>4, StepCases
<1> QED  BY <1>1, ConnInvariant, PTL DEF Spec
=============================================================================
