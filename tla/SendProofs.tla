----------------------------- MODULE SendProofs ------------------------------
(***************************************************************************)
(* What the send pattern, a task and the shutdown of a component keep for  *)
(* every number of threads, connections, commands and restarts, and that   *)
(* the send pattern implements SendService.                                *)
(***************************************************************************)
EXTENDS SendSystem, WellFoundedInduction, TLAPS

\* connection_mutex is held from the reset to the end of connect() and disconnect().
Holding == {"resetting", "opening", "matching", "matched"}

MutexOwner ==
    \A u \in Users :
        /\ call[u].at \in Holding => connection_mutex = u
        /\ connection_mutex = u => call[u].at \in Holding

\* A connect() that has not opened its writer may; one that has, holds it.
Writers ==
    /\ \A u \in Users :
          /\ call[u].at = "opening" => call[u].after = "open"
          /\ call[u].at \in {"resetting", "opening"} /\ call[u].after = "open" =>
               sessions < MaxSessions
          /\ call[u].at \in {"resetting", "opening"} => writer = 0
          /\ call[u].at \in {"matching", "matched"} => writer # 0
    /\ listener # "none" => writer # 0
    /\ ConnectedHasWriter

ClientInv == ClientTypeOK /\ TopicTypeOK /\ MutexOwner /\ Writers

\* The shutdown: announced, then the reader goes; the listener's loop looks at the flag
\* after each command.
ServersGone == {"timers", "stopping", "joining", "returned"}
Quiet ==
    /\ run \in {"disconnecting"} \cup ServersGone => is_shutting_down
    /\ server_up <=> run \notin ServersGone
    /\ ~server_up => upcall = "quiet" /\ commands = {}
    /\ upcall \in {"quiet", "taking"} => batch = {}
    /\ ~is_shutting_down => late = 0
    /\ upcall \in {"taking", "looping"} => late = 0
    /\ late <= 1

\* Commands are numbered, and none left in the reader precedes one that was taken.
Order ==
    /\ \A c \in commands \cup batch \cup handled : c.number <= sent /\ c.session <= sessions
    /\ \A c \in batch : c \notin commands /\ \A d \in commands : ~Before(d, c)

\* getEvent's waits are counted.
Rounds == thread = "waiting" /\ program = "observer" => round < MaxRounds

ServerInv == ServerTypeOK /\ ComponentTypeOK /\ Quiet /\ Order
OthersInv ==
    /\ TaskTypeOK /\ OneThread
    /\ ApplicationTypeOK /\ Rounds /\ MutexTypeOK
    /\ main \in {"running", "destroying", "caught", "ended"}
    /\ restarts \in 0 .. MaxRestarts
IInv == ClientInv /\ ServerInv /\ OthersInv

-----------------------------------------------------------------------------
LEMMA CallTypes ==
    /\ NoCall \in Calls /\ NoCall.at = "idle"
    /\ \A c \in Calls, place \in {"opening", "matching", "matched", "sending", "idle"} :
         LET d == [c EXCEPT !.at = place]
         IN  d \in Calls /\ d.at = place /\ d.after = c.after
    /\ \A after \in {"open", "return"} : [at |-> "resetting", after |-> after] \in Calls
BY DEF Calls, NoCall

LEMMA CallBecomes ==
    ASSUME call \in [Users -> Calls], NEW u \in Users, NEW c \in Calls,
           call' = [call EXCEPT ![u] = c]
    PROVE  /\ call' \in [Users -> Calls]
           /\ call'[u] = c
           /\ \A v \in Users \ {u} : call'[v] = call[v]
OBVIOUS

LEMMA Moved ==
    ASSUME call \in [Users -> Calls], NEW u \in Users,
           NEW place \in {"opening", "matching", "matched", "sending", "idle"}, Go(u, place)
    PROVE  /\ call' \in [Users -> Calls]
           /\ call'[u].at = place /\ call'[u].after = call[u].after
           /\ \A v \in Users \ {u} : call'[v] = call[v]
<1> DEFINE c == [call[u] EXCEPT !.at = place]
<1>1. c \in Calls /\ c.at = place /\ c.after = call[u].after
  BY CallTypes
<1>2. call' = [call EXCEPT ![u] = c]
  BY DEF Go
<1> HIDE DEF c
<1>3. QED BY <1>1, <1>2, CallBecomes

LEMMA Ended ==
    ASSUME call \in [Users -> Calls], NEW u \in Users, Return(u)
    PROVE  /\ call' \in [Users -> Calls]
           /\ call'[u] = NoCall /\ call'[u].at = "idle" /\ connection_mutex' = Nobody
           /\ \A v \in Users \ {u} : call'[v] = call[v]
BY CallTypes, CallBecomes DEF Return

LEMMA PrefixIsPart == \A S, T : T \in Prefixes(S) => T \subseteq S
BY DEF Prefixes

LEMMA InitIInv == Init => IInv
<1> SUFFICES ASSUME Init PROVE IInv
  OBVIOUS
<1>1. ClientInv
  <2>1. ClientTypeOK
    <3>1. /\ writer \in 0 .. sessions /\ sessions \in 0 .. MaxSessions
          /\ sent \in 0 .. MaxCommands
      BY SendBounds DEF Init, ClientInit
    <3>2. call \in [Users -> Calls]
      BY CallTypes DEF Init, ClientInit
    <3>3. /\ connection_guard = FALSE /\ matched_guard = FALSE /\ matched = FALSE
          /\ report = FALSE
      BY DEF Init, ClientInit
    <3>4. connection_mutex = Nobody /\ listener = "none"
      BY DEF Init, ClientInit
    <3>5. QED BY <3>1, <3>2, <3>3, <3>4 DEF ClientTypeOK
  <2>2. TopicTypeOK
    BY DEF Init, TopicInit, TopicTypeOK
  <2>3. MutexOwner /\ Writers
    BY NobodyIsNoUser
       DEF Init, ClientInit, NoCall, MutexOwner, Holding, Writers, ConnectedHasWriter
  <2>4. QED BY <2>1, <2>2, <2>3 DEF ClientInv
<1>2. ServerInv
  <2>1. /\ is_shutting_down = FALSE /\ upcall = "quiet" /\ batch = {} /\ handled = {}
        /\ late = 0 /\ commands = {} /\ server_up = TRUE
    BY DEF Init, ServerInit, TopicInit
  <2>2. /\ cancelled = FALSE /\ run = "starting" /\ signal = [s \in Signallers |-> "quiet"]
        /\ timer_running = FALSE /\ timer_thread = "none"
    BY DEF Init, ComponentInit
  <2>3. ServerTypeOK
    <3>1. is_shutting_down \in BOOLEAN /\ batch \subseteq Commands /\ handled \subseteq Commands
      BY <2>1
    <3>2. late \in 0 .. MaxCommands
      BY <2>1, SendBounds
    <3>3. QED BY <2>1, <3>1, <3>2 DEF ServerTypeOK
  <2>4. ComponentTypeOK
    <3>1. signal \in [Signallers -> {"quiet", "stored", "done"}]
      BY <2>2
    <3>2. run \in RunStates /\ timer_thread \in TimerPlaces
      BY <2>2 DEF RunStates, TimerPlaces
    <3>3. cancelled \in BOOLEAN /\ timer_running \in BOOLEAN
      BY <2>2
    <3>4. QED BY <3>1, <3>2, <3>3 DEF ComponentTypeOK
  <2>5. Quiet /\ Order
    BY <2>1, <2>2 DEF Quiet, ServersGone, Order
  <2>6. QED BY <2>3, <2>4, <2>5 DEF ServerInv
<1>3. OthersInv
  <2>1. TaskTypeOK /\ OneThread
    <3>1. /\ kind \in Kinds /\ async_handle = (kind # "none") /\ task_cancelled = FALSE
          /\ stop_signal = FALSE /\ busy = FALSE /\ stopping = FALSE
      BY DEF Init, TaskInit
    <3>2. async_handle \in BOOLEAN /\ (kind # "none" => async_handle)
      BY <3>1
    <3>3. /\ queue = 0 /\ alive = started
          /\ (kind = "none" /\ started = 0) \/ (kind # "none" /\ started = 1)
      BY DEF Init, TaskInit
    <3>4. /\ queue \in 0 .. MaxQueue /\ started \in 0 .. MaxThreads /\ alive \in 0 .. started
      BY <3>3, TaskBounds
    <3>5. OneThread
      BY <3>2, <3>3 DEF OneThread
    <3>6. QED BY <3>1, <3>2, <3>4, <3>5 DEF TaskTypeOK
  <2>2. ApplicationTypeOK /\ Rounds
    <3>1. /\ program \in Programs \cup {"none"} /\ thread \in {"none", "testing"}
          /\ round = 0
      BY DEF Init, ApplicationInit, Starts
    <3>2. cancelled_flag = FALSE /\ status_ok = TRUE /\ connected = FALSE /\ opened = FALSE
      BY DEF Init, ApplicationInit, Starts
    <3>3. thread \in Places /\ round \in 0 .. MaxRounds /\ thread # "waiting"
      BY <3>1, RoundsAssumption DEF Places
    <3>4. /\ cancelled_flag \in BOOLEAN /\ status_ok \in BOOLEAN /\ connected \in BOOLEAN
          /\ opened \in BOOLEAN
      BY <3>2
    <3>5. QED BY <3>1, <3>3, <3>4 DEF ApplicationTypeOK, Rounds
  <2>3. /\ main \in {"running", "destroying", "caught", "ended"}
        /\ restarts \in 0 .. MaxRestarts /\ MutexTypeOK
    BY RestartBound DEF Init, MutexInit, MutexTypeOK
  <2>4. QED BY <2>1, <2>2, <2>3 DEF OthersInv
<1>4. QED BY <1>1, <1>2, <1>3 DEF IInv

-----------------------------------------------------------------------------
\* The client's calls that hold the mutex.
LEMMA ResetClient ==
    ASSUME ClientInv, NEW u \in Users, Connect(u) \/ Disconnect(u) \/ ConnectFails(u)
    PROVE  ClientInv'
<1>0. /\ ClientTypeOK /\ TopicTypeOK /\ MutexOwner /\ Writers /\ call \in [Users -> Calls]
  BY DEF ClientInv, ClientTypeOK
<1>1. PICK after \in {"open", "return"} :
          /\ call' = [call EXCEPT ![u] = [at |-> "resetting", after |-> after]]
          /\ after = "open" => sessions < MaxSessions
  BY DEF Connect, Disconnect, Reset, ConnectFails
<1>2. /\ listener' = "none" /\ writer' = 0 /\ matched' = FALSE
      /\ commands' \in Prefixes(commands)
      /\ connection_mutex' = u
      /\ \A v \in Users \ {u} : call[v].at \notin Holding
      /\ UNCHANGED <<connection_guard, matched_guard, report, sessions, sent, server_up>>
  <2>1. CASE Connect(u) \/ Disconnect(u)
    BY <1>0, <2>1, NobodyIsNoUser DEF Connect, Disconnect, Reset, DropWriter, MutexOwner
  <2>2. CASE ConnectFails(u)
    BY <1>0, <2>2, NobodyIsNoUser DEF ConnectFails, DropWriter, MutexOwner, Holding
  <2>3. QED BY <2>1, <2>2
<1>3. /\ call' \in [Users -> Calls] /\ call'[u] = [at |-> "resetting", after |-> after]
      /\ call'[u].at = "resetting" /\ call'[u].after = after
      /\ \A v \in Users \ {u} : call'[v] = call[v]
  BY <1>0, <1>1, CallTypes, CallBecomes
<1>4. ClientTypeOK'
  <2>1. writer' \in 0 .. sessions' /\ sessions' \in 0 .. MaxSessions
    BY <1>0, <1>2, SendBounds DEF ClientTypeOK
  <2>2. QED BY <1>0, <1>2, <1>3, <2>1 DEF ClientTypeOK
<1>5. TopicTypeOK'
  BY <1>0, <1>2, PrefixIsPart DEF TopicTypeOK
<1>6. MutexOwner'
  BY <1>0, <1>2, <1>3 DEF MutexOwner, Holding
<1>7. Writers'
  BY <1>0, <1>1, <1>2, <1>3 DEF Writers, ConnectedHasWriter, Holding
<1>8. QED BY <1>4, <1>5, <1>6, <1>7 DEF ClientInv

LEMMA OpenClient ==
    ASSUME ClientInv, NEW u \in Users,
           Disconnected(u) \/ OpenWriter(u) \/ WriterMatched(u) \/ Connected(u)
    PROVE  ClientInv'
<1>0. /\ ClientTypeOK /\ TopicTypeOK /\ MutexOwner /\ Writers /\ call \in [Users -> Calls]
      /\ call[u].at \in Holding
  BY DEF ClientInv, ClientTypeOK, Disconnected, OpenWriter, WriterMatched, Connected, Holding
<1>1. connection_mutex = u /\ \A v \in Users \ {u} : call[v].at \notin Holding
  BY <1>0 DEF MutexOwner
<1>2. TopicTypeOK'
  BY <1>0 DEF Disconnected, OpenWriter, WriterMatched, Connected, topic, TopicTypeOK
<1>3. CASE Disconnected(u)
  <2>1. /\ call' \in [Users -> Calls] /\ \A v \in Users \ {u} : call'[v] = call[v]
        /\ \/ /\ call'[u].at = "opening" /\ call'[u].after = "open" /\ call[u].after = "open"
              /\ connection_mutex' = u
           \/ call'[u].at = "idle" /\ connection_mutex' = Nobody
    BY <1>0, <1>1, <1>3, Moved, Ended DEF Disconnected
  <2>2. /\ connection_guard' = FALSE /\ call[u].at = "resetting"
        /\ UNCHANGED <<matched_guard, writer, listener, matched, report, sessions, sent>>
    BY <1>3 DEF Disconnected, GuardReset
  <2>3. ClientTypeOK'
    BY <1>0, <2>1, <2>2 DEF ClientTypeOK
  <2>4. MutexOwner'
    BY <1>0, <1>1, <2>1, NobodyIsNoUser DEF MutexOwner, Holding
  <2>5. Writers'
    BY <1>0, <1>1, <2>1, <2>2 DEF Writers, ConnectedHasWriter, Holding
  <2>6. QED BY <1>2, <2>3, <2>4, <2>5 DEF ClientInv
<1>4. CASE OpenWriter(u)
  <2>1. /\ call' \in [Users -> Calls] /\ \A v \in Users \ {u} : call'[v] = call[v]
        /\ call'[u].at = "matching" /\ call[u].at = "opening"
    BY <1>0, <1>4, Moved DEF OpenWriter
  <2>2. /\ sessions' = sessions + 1 /\ writer' = sessions + 1 /\ listener' = "connector"
        /\ report' = FALSE /\ matched_guard' = FALSE
        /\ UNCHANGED <<connection_guard, connection_mutex, matched, sent>>
    BY <1>4 DEF OpenWriter, NewWriter
  <2>3. sessions < MaxSessions /\ sessions \in Nat
    BY <1>0, <2>1, SendBounds DEF Writers, ClientTypeOK
  <2>4. writer' \in 0 .. sessions' /\ sessions' \in 0 .. MaxSessions /\ writer' # 0
    BY <2>2, <2>3, SendBounds
  <2>5. ClientTypeOK'
    BY <1>0, <2>1, <2>2, <2>4 DEF ClientTypeOK
  <2>6. MutexOwner'
    BY <1>0, <1>1, <2>1, <2>2 DEF MutexOwner, Holding
  <2>7. Writers'
    BY <1>0, <1>1, <2>1, <2>2, <2>4 DEF Writers, ConnectedHasWriter, Holding
  <2>8. QED BY <1>2, <2>5, <2>6, <2>7 DEF ClientInv
<1>5. CASE WriterMatched(u)
  <2>1. /\ call' \in [Users -> Calls] /\ \A v \in Users \ {u} : call'[v] = call[v]
        /\ call'[u].at = "matched" /\ call[u].at = "matching"
    BY <1>0, <1>5, Moved DEF WriterMatched
  <2>2. /\ listener' = "client" /\ writer # 0
        /\ UNCHANGED <<connection_guard, matched_guard, connection_mutex, writer, matched,
                       report, sessions, sent>>
    BY <1>0, <1>5 DEF WriterMatched, Writers
  <2>3. ClientTypeOK'
    BY <1>0, <2>1, <2>2 DEF ClientTypeOK
  <2>4. MutexOwner'
    BY <1>0, <1>1, <2>1, <2>2 DEF MutexOwner, Holding
  <2>5. Writers'
    BY <1>0, <1>1, <2>1, <2>2 DEF Writers, ConnectedHasWriter, Holding
  <2>6. QED BY <1>2, <2>3, <2>4, <2>5 DEF ClientInv
<1>6. CASE Connected(u)
  <2>1. /\ call' \in [Users -> Calls] /\ \A v \in Users \ {u} : call'[v] = call[v]
        /\ call'[u].at = "idle" /\ connection_mutex' = Nobody
    BY <1>0, <1>6, Ended DEF Connected
  <2>2. /\ connection_guard' = TRUE /\ writer # 0
        /\ UNCHANGED <<matched_guard, writer, listener, matched, report, sessions, sent>>
    BY <1>0, <1>6 DEF Connected, Writers
  <2>3. ClientTypeOK'
    BY <1>0, <2>1, <2>2 DEF ClientTypeOK
  <2>4. MutexOwner'
    BY <1>0, <1>1, <2>1, NobodyIsNoUser DEF MutexOwner, Holding
  <2>5. Writers'
    BY <1>0, <1>1, <2>1, <2>2 DEF Writers, ConnectedHasWriter, Holding
  <2>6. QED BY <1>2, <2>3, <2>4, <2>5 DEF ClientInv
<1>7. QED BY <1>3, <1>4, <1>5, <1>6

\* send(), and the upcalls of the writer's listener.
LEMMA SendClientStep ==
    ASSUME ClientInv, NEW u \in Users, Send(u) \/ Write(u)
    PROVE  ClientInv'
<1>0. /\ ClientTypeOK /\ TopicTypeOK /\ MutexOwner /\ Writers /\ call \in [Users -> Calls]
  BY DEF ClientInv, ClientTypeOK
<1>1. /\ call' \in [Users -> Calls] /\ \A v \in Users \ {u} : call'[v] = call[v]
      /\ call[u].at \in {"idle", "sending"} /\ call'[u].at \in {"idle", "sending"}
  BY <1>0, Moved DEF Send, Write
<1>2. /\ UNCHANGED <<connection_guard, matched_guard, connection_mutex, writer, listener,
                     matched, report, sessions, server_up>>
      /\ \/ UNCHANGED <<sent, commands>>
         \/ /\ writer # 0 /\ sent < MaxCommands /\ sent' = sent + 1
            /\ commands' \in {commands,
                              commands \cup {[session |-> writer, number |-> sent + 1]}}
  BY DEF Send, Write, topic
<1>3. sent' \in 0 .. MaxCommands /\ commands' \subseteq Commands
  <2>1. CASE UNCHANGED <<sent, commands>>
    BY <1>0, <2>1 DEF ClientTypeOK, TopicTypeOK
  <2>2. CASE writer # 0 /\ sent < MaxCommands /\ sent' = sent + 1
    <3>1. sent \in Nat /\ writer \in Nat /\ sessions \in 0 .. MaxSessions
      BY <1>0, SendBounds DEF ClientTypeOK
    <3>2. writer \in 1 .. MaxSessions
      BY <1>0, <2>2, <3>1, SendBounds DEF ClientTypeOK
    <3>3. [session |-> writer, number |-> sent + 1] \in Commands /\ sent' \in 0 .. MaxCommands
      BY <2>2, <3>1, <3>2, SendBounds DEF Commands, Sessions
    <3>4. QED BY <1>0, <1>2, <3>3 DEF TopicTypeOK
  <2>3. QED BY <1>2, <2>1, <2>2
<1>4. ClientTypeOK' /\ TopicTypeOK'
  BY <1>0, <1>1, <1>2, <1>3 DEF ClientTypeOK, TopicTypeOK
<1>5. MutexOwner' /\ Writers'
  BY <1>0, <1>1, <1>2 DEF MutexOwner, Writers, ConnectedHasWriter, Holding
<1>6. QED BY <1>4, <1>5 DEF ClientInv

LEMMA HearClient ==
    ASSUME ClientInv, MatchChanges \/ OnPublicationMatched
    PROVE  ClientInv'
<1>0. /\ ClientTypeOK /\ TopicTypeOK /\ MutexOwner /\ Writers
  BY DEF ClientInv
<1>1. /\ UNCHANGED <<connection_mutex, writer, listener, call, sessions, sent, topic>>
      /\ connection_guard' \in {connection_guard, matched}
      /\ connection_guard' # connection_guard => listener = "client"
      /\ matched_guard' \in BOOLEAN /\ matched' \in BOOLEAN /\ report' \in BOOLEAN
  BY <1>0 DEF MatchChanges, OnPublicationMatched, ConnectorHears, ClientHears, ClientTypeOK,
              TopicTypeOK
<1>2. connection_guard' \in BOOLEAN
  BY <1>0, <1>1 DEF ClientTypeOK
<1>3. ClientTypeOK' /\ TopicTypeOK'
  BY <1>0, <1>1, <1>2 DEF ClientTypeOK, TopicTypeOK, topic
<1>4. MutexOwner' /\ Writers'
  BY <1>0, <1>1 DEF MutexOwner, Writers, ConnectedHasWriter
<1>5. QED BY <1>3, <1>4 DEF ClientInv

-----------------------------------------------------------------------------
\* Steps of the others leave the client, the server and the rest as they are.
LEMMA ClientKept ==
    ASSUME ClientInv, UNCHANGED clientVars, TopicTypeOK'
    PROVE  ClientInv'
BY DEF ClientInv, ClientTypeOK, clientVars, MutexOwner, Writers, ConnectedHasWriter

LEMMA OthersKept ==
    ASSUME OthersInv, UNCHANGED <<mutexVars, taskVars, programVars>>
    PROVE  OthersInv'
BY DEF OthersInv, TaskTypeOK, OneThread, ApplicationTypeOK, Rounds, MutexTypeOK, taskVars,
       programVars, applicationVars, mutexVars

LEMMA ServerKept ==
    ASSUME ServerInv, UNCHANGED <<serverVars, componentVars, server_up>>, TopicTypeOK,
           sent \in Nat, sessions \in Nat,
           \/ UNCHANGED <<sent, sessions>> /\ commands' \subseteq commands
           \/ UNCHANGED <<sent, commands>> /\ sessions' = sessions + 1
           \/ /\ UNCHANGED sessions /\ sent' = sent + 1 /\ writer \in 0 .. sessions
              /\ \/ commands' = commands
                 \/ /\ commands' = commands \cup {[session |-> writer, number |-> sent + 1]}
                    /\ server_up
    PROVE  ServerInv'
<1>1. /\ UNCHANGED <<is_shutting_down, upcall, batch, handled, late, cancelled, run, signal,
                     timer_running, timer_thread, server_up>>
      /\ ServerTypeOK /\ ComponentTypeOK /\ Quiet /\ Order
  BY DEF serverVars, upcallVars, componentVars, timerVars, ServerInv
<1>2. ServerTypeOK' /\ ComponentTypeOK'
  BY <1>1 DEF ServerTypeOK, ComponentTypeOK
<1>3. Quiet'
  BY <1>1 DEF Quiet
<1>4. /\ \A c \in commands \cup batch \cup handled :
            c.number \in Nat /\ c.session \in Nat /\ c.number <= sent /\ c.session <= sessions
      /\ batch \subseteq Commands
  BY <1>1, SendBounds DEF Order, ServerTypeOK, TopicTypeOK, Commands, Sessions
<1>5. Order'
  <2>1. CASE UNCHANGED <<sent, sessions>> /\ commands' \subseteq commands
    BY <1>1, <2>1 DEF Order
  <2>2. CASE UNCHANGED <<sent, commands>> /\ sessions' = sessions + 1
    <3>1. \A c \in commands \cup batch \cup handled : c.number <= sent /\ c.session <= sessions + 1
      BY <1>4
    <3>2. QED BY <1>1, <2>2, <3>1 DEF Order
  <2>3. CASE /\ UNCHANGED sessions /\ sent' = sent + 1 /\ writer \in 0 .. sessions
             /\ commands' \subseteq commands \cup {[session |-> writer, number |-> sent + 1]}
    <3> DEFINE new == [session |-> writer, number |-> sent + 1]
    <3>1. new.session = writer /\ new.number = sent + 1 /\ writer <= sessions
      BY <2>3
    <3>2. commands' \subseteq commands \cup {new}
      BY <2>3
    <3> HIDE DEF new
    <3>3. \A c \in commands \cup batch \cup handled : c.number <= sent + 1
      BY <1>4
    <3>4. \A c \in batch : c # new /\ ~Before(new, c)
      BY <1>4, <3>1 DEF Before
    <3>5. \A c \in commands' \cup batch \cup handled :
            c.number <= sent + 1 /\ c.session <= sessions
      BY <1>4, <2>3, <3>1, <3>2, <3>3
    <3>6. \A c \in batch : c \notin commands' /\ \A d \in commands' : ~Before(d, c)
      BY <1>1, <3>2, <3>4 DEF Order
    <3>7. QED BY <1>1, <2>3, <3>5, <3>6 DEF Order
  <2>4. QED BY <2>1, <2>2, <2>3
<1>6. QED BY <1>1, <1>2, <1>3, <1>5 DEF ServerInv

LEMMA ClientTyped ==
    ASSUME ClientInv
    PROVE  /\ sent \in Nat /\ sessions \in Nat /\ sessions \in 0 .. MaxSessions
           /\ writer \in 0 .. sessions /\ sent \in 0 .. MaxCommands
           /\ TopicTypeOK /\ commands \subseteq Commands
BY SendBounds DEF ClientInv, ClientTypeOK, TopicTypeOK

\* The steps of the client.
LEMMA ClientStep ==
    ASSUME IInv, \/ \E u \in Users : UserCalls(u) \/ Proceeds(u)
                 \/ Discovers \/ Reports
    PROVE  IInv'
<1>0. ClientInv /\ ServerInv /\ OthersInv
  BY DEF IInv
<1>1. UNCHANGED <<serverVars, mutexVars, componentVars, taskVars, programVars>>
  BY DEF UserCalls, Proceeds, Discovers, Reports, Quietly, serverSide
<1>2. OthersInv'
  BY <1>0, <1>1, OthersKept
<1>3. ASSUME NEW u \in Users,
             \/ Connect(u) \/ Disconnect(u) \/ ConnectFails(u)
             \/ Disconnected(u) \/ OpenWriter(u) \/ WriterMatched(u) \/ Connected(u)
             \/ Send(u) \/ Write(u)
      PROVE  ClientInv' /\ ServerInv'
  <2>1. ClientInv'
    BY <1>0, <1>3, ResetClient, OpenClient, SendClientStep
  <2>2. CASE Connect(u) \/ Disconnect(u) \/ ConnectFails(u)
    <3>1. /\ UNCHANGED <<sent, sessions, server_up>> /\ commands' \subseteq commands
      BY <2>2, PrefixIsPart DEF Connect, Disconnect, Reset, ConnectFails, DropWriter
    <3>2. QED BY <1>0, <1>1, <2>1, <3>1, ClientTyped, ServerKept
  <2>3. CASE Disconnected(u) \/ WriterMatched(u) \/ Connected(u) \/ Send(u)
    <3>1. UNCHANGED <<sent, sessions, server_up, commands>>
      BY <2>3 DEF Disconnected, WriterMatched, Connected, Send, topic
    <3>2. QED BY <1>0, <1>1, <2>1, <3>1, ClientTyped, ServerKept
  <2>4. CASE OpenWriter(u)
    <3>1. UNCHANGED <<sent, commands, server_up>> /\ sessions' = sessions + 1
      BY <2>4 DEF OpenWriter, NewWriter, topic
    <3>2. QED BY <1>0, <1>1, <2>1, <3>1, ClientTyped, ServerKept
  <2>5. CASE Write(u)
    <3>1. /\ UNCHANGED <<sessions, server_up>>
          /\ \/ UNCHANGED <<sent, commands>>
             \/ /\ sent' = sent + 1
                /\ \/ commands' = commands
                   \/ /\ commands' = commands \cup {[session |-> writer, number |-> sent + 1]}
                      /\ server_up
      BY <2>5 DEF Write
    <3>2. QED BY <1>0, <1>1, <2>1, <3>1, ClientTyped, ServerKept
  <2>6. QED BY <1>3, <2>1, <2>2, <2>3, <2>4, <2>5
<1>4. ASSUME MatchChanges \/ OnPublicationMatched
      PROVE  ClientInv' /\ ServerInv'
  <2>1. ClientInv'
    BY <1>0, <1>4, HearClient
  <2>2. UNCHANGED <<sent, sessions, server_up, commands>>
    BY <1>4 DEF MatchChanges, OnPublicationMatched, topic
  <2>3. QED BY <1>0, <1>1, <2>1, <2>2, ClientTyped, ServerKept
<1>5. ClientInv' /\ ServerInv'
  BY <1>3, <1>4 DEF UserCalls, Proceeds, Discovers, Reports
<1>6. QED BY <1>2, <1>5 DEF IInv

\* The listener thread of the server.
LEMMA ListenStep ==
    ASSUME IInv, Listens
    PROVE  IInv'
<1>0. /\ ClientInv /\ ServerInv /\ OthersInv /\ TopicTypeOK
      /\ ServerTypeOK /\ ComponentTypeOK /\ Quiet /\ Order
      /\ UNCHANGED <<clientVars, mutexVars, componentVars, taskVars, programVars>>
  BY DEF IInv, ClientInv, ServerInv, Listens
<1>1. OthersInv'
  BY <1>0, OthersKept
<1>2. UNCHANGED <<sent, sessions, run, is_shutting_down, server_up>> /\ ComponentTypeOK'
  BY <1>0 DEF clientVars, componentVars, timerVars, Listens, ServerUpcall, OnDataAvailable,
              Take, HandleSend, HandlerReturns, topic, ComponentTypeOK
<1>3. TopicTypeOK'
  BY <1>0 DEF Listens, ServerUpcall, OnDataAvailable, Take, RemovedFromReader, HandleSend,
              HandlerReturns, topic, TopicTypeOK
<1>4. CASE OnDataAvailable
  <2>1. /\ UNCHANGED <<batch, handled, late, commands>> /\ upcall' = "taking"
        /\ upcall = "quiet" /\ ~is_shutting_down /\ server_up
    BY <1>4 DEF OnDataAvailable, topic
  <2>2. ServerTypeOK' /\ Quiet' /\ Order'
    BY <1>0, <1>2, <2>1 DEF ServerTypeOK, Quiet, Order
  <2>3. QED BY <1>0, <1>1, <1>2, <1>3, <2>2, ClientKept DEF IInv, ServerInv
<1>5. CASE Take
  <2>1. PICK taken \in Prefixes(commands) :
            /\ batch' = taken /\ commands' = commands \ taken
            /\ upcall' = IF taken = {} THEN "quiet" ELSE "looping"
    BY <1>5 DEF Take, RemovedFromReader
  <2>2. /\ UNCHANGED <<handled, late>> /\ upcall = "taking"
        /\ upcall' \in {"quiet", "looping"} /\ (upcall' = "quiet" => batch' = {})
    BY <1>5, <2>1 DEF Take
  <2>3. taken \subseteq commands /\ \A d \in taken, c \in commands : Before(c, d) => c \in taken
    BY <2>1 DEF Prefixes
  <2>4. ServerTypeOK'
    BY <1>0, <1>2, <2>1, <2>2, <2>3 DEF ServerTypeOK, TopicTypeOK
  <2>5. Quiet'
    BY <1>0, <1>2, <2>1, <2>2, <2>3 DEF Quiet
  <2>6. Order'
    BY <1>0, <1>2, <2>1, <2>2, <2>3 DEF Order
  <2>7. QED BY <1>0, <1>1, <1>2, <1>3, <2>4, <2>5, <2>6, ClientKept DEF IInv, ServerInv
<1>6. ASSUME NEW c \in batch, HandleSend(c)
      PROVE  IInv'
  <2>1. /\ batch' = batch \ {c} /\ handled' = handled \cup {c} /\ upcall' = "handling"
        /\ late' = IF is_shutting_down THEN late + 1 ELSE late
        /\ upcall = "looping" /\ commands' = commands
    BY <1>6 DEF HandleSend, topic
  <2>2. late = 0 /\ late' \in {0, 1} /\ (~is_shutting_down => late' = 0)
    BY <1>0, <2>1 DEF Quiet
  <2>3. c \in Commands
    BY <1>0 DEF ServerTypeOK
  <2>4. 1 \in 0 .. MaxCommands /\ 0 \in 0 .. MaxCommands
    BY <2>3, SendBounds DEF Commands
  <2>5. ServerTypeOK'
    BY <1>0, <1>2, <2>1, <2>2, <2>3, <2>4 DEF ServerTypeOK
  <2>6. Quiet'
    BY <1>0, <1>2, <2>1, <2>2 DEF Quiet
  <2>7. Order'
    BY <1>0, <1>2, <2>1 DEF Order
  <2>8. QED BY <1>0, <1>1, <1>2, <1>3, <2>5, <2>6, <2>7, ClientKept DEF IInv, ServerInv
<1>7. CASE HandlerReturns
  <2>1. /\ UNCHANGED <<handled, late, commands>> /\ upcall = "handling"
        /\ \/ upcall' = "quiet" /\ batch' = {}
           \/ upcall' = "looping" /\ batch' = batch /\ ~is_shutting_down
    BY <1>7 DEF HandlerReturns, LoopStops, topic
  <2>2. ServerTypeOK' /\ Quiet' /\ Order'
    BY <1>0, <1>2, <2>1 DEF ServerTypeOK, Quiet, Order
  <2>3. QED BY <1>0, <1>1, <1>2, <1>3, <2>2, ClientKept DEF IInv, ServerInv
<1>8. QED BY <1>4, <1>5, <1>6, <1>7 DEF Listens, ServerUpcall

-----------------------------------------------------------------------------
\* The task.
LEMMA TaskInvStep ==
    ASSUME TaskTypeOK, OneThread,
           \/ Works \/ HasWorked \/ Returns \/ Start \/ Stopped \/ Enqueue
           \/ \E wait \in BOOLEAN : Stop(wait)
    PROVE  TaskTypeOK' /\ OneThread'
<1>0. /\ kind \in Kinds /\ async_handle \in BOOLEAN /\ task_cancelled \in BOOLEAN
      /\ stop_signal \in BOOLEAN /\ busy \in BOOLEAN /\ stopping \in BOOLEAN
      /\ queue \in 0 .. MaxQueue /\ started \in 0 .. MaxThreads /\ alive \in 0 .. started
      /\ alive <= 1 /\ (~async_handle => alive = 0)
  BY DEF TaskTypeOK, OneThread
<1>1. CASE Works
  <2>1. /\ UNCHANGED <<kind, async_handle, task_cancelled, stop_signal, started, alive, stopping>>
        /\ busy' = TRUE
        /\ queue' = queue \/ (queue > 0 /\ queue' = queue - 1)
    BY <1>1 DEF Works, QueryWaits
  <2>2. queue' \in 0 .. MaxQueue
    BY <1>0, <2>1, TaskBounds
  <2>3. QED BY <1>0, <2>1, <2>2 DEF TaskTypeOK, OneThread
<1>2. CASE HasWorked
  BY <1>0, <1>2 DEF HasWorked, TaskTypeOK, OneThread
<1>3. CASE Returns
  <2>1. /\ UNCHANGED <<kind, async_handle, task_cancelled, stop_signal, queue, started, busy,
                       stopping>>
        /\ alive > 0 /\ alive' = alive - 1
    BY <1>3 DEF Returns
  <2>2. alive' \in 0 .. started' /\ alive' = 0
    BY <1>0, <2>1, TaskBounds
  <2>3. QED BY <1>0, <2>1, <2>2 DEF TaskTypeOK, OneThread
<1>4. CASE Start
  <2>1. /\ UNCHANGED <<kind, queue, busy, stopping>>
        /\ ~async_handle /\ async_handle' = TRUE /\ task_cancelled' = FALSE
        /\ started < MaxThreads /\ started' = started + 1 /\ alive' = alive + 1
    BY <1>4 DEF Start, Startable
  <2>2. stop_signal' \in BOOLEAN
    BY <1>4 DEF Start
  <2>3. alive' = 1 /\ started' \in 0 .. MaxThreads /\ alive' \in 0 .. started'
    BY <1>0, <2>1, TaskBounds
  <2>4. async_handle' \in BOOLEAN /\ task_cancelled' \in BOOLEAN
    BY <2>1
  <2>5. OneThread'
    BY <2>1, <2>3 DEF OneThread
  <2>6. QED BY <1>0, <2>1, <2>2, <2>3, <2>4, <2>5 DEF TaskTypeOK
<1>5. CASE Stopped
  <2>1. /\ UNCHANGED <<kind, task_cancelled, stop_signal, queue, started, alive, busy>>
        /\ alive = 0 /\ async_handle' = FALSE /\ stopping' = FALSE
    BY <1>5 DEF Stopped, ThreadReturned
  <2>2. async_handle' \in BOOLEAN /\ stopping' \in BOOLEAN
    BY <2>1
  <2>3. OneThread'
    BY <2>1 DEF OneThread
  <2>4. QED BY <1>0, <2>1, <2>2, <2>3 DEF TaskTypeOK
<1>6. CASE Enqueue
  <2>1. /\ UNCHANGED <<kind, async_handle, task_cancelled, stop_signal, started, alive, busy,
                       stopping>>
        /\ queue < MaxQueue /\ queue' = queue + 1
    BY <1>6 DEF Enqueue
  <2>2. queue' \in 0 .. MaxQueue
    BY <1>0, <2>1, TaskBounds
  <2>3. QED BY <1>0, <2>1, <2>2 DEF TaskTypeOK, OneThread
<1>7. CASE \E wait \in BOOLEAN : Stop(wait)
  <2> PICK wait \in BOOLEAN : Stop(wait)
    BY <1>7
  <2>1. /\ UNCHANGED <<kind, async_handle, queue, started, alive, busy>>
        /\ task_cancelled' = TRUE /\ stop_signal' \in BOOLEAN /\ stopping' \in BOOLEAN
    BY <1>0 DEF Stop, SignalToStop, TaskStop
  <2>2. QED BY <1>0, <2>1 DEF TaskTypeOK, OneThread
<1>8. QED BY <1>1, <1>2, <1>3, <1>4, <1>5, <1>6, <1>7

\* The listener of a query or event server, its handler and its mutex.
LEMMA MutexInvStep ==
    ASSUME MutexTypeOK, UpcallBegins \/ RequestHandled \/ LockForDisconnect \/ DetachesQuietly
    PROVE  MutexTypeOK'
BY DEF MutexTypeOK, UpcallBegins, RequestHandled, UpcallLocks, HandlerGoesOn,
       LockForDisconnect, DetachesQuietly

LEMMA TaskStep ==
    ASSUME IInv, \/ RequestArrives \/ HandlesRequest \/ QueryArrives
                 \/ TaskWorks \/ TaskIsUsed \/ TaskStopped
    PROVE  IInv'
<1>0. /\ ClientInv /\ ServerInv /\ OthersInv
      /\ UNCHANGED <<clientVars, topic, serverVars, componentVars, programVars>>
  BY DEF IInv, RequestArrives, HandlesRequest, QueryArrives, TaskWorks, TaskIsUsed, TaskStopped
<1>1. TaskTypeOK' /\ OneThread'
  <2>1. CASE RequestArrives \/ HandlesRequest
    BY <1>0, <2>1 DEF RequestArrives, HandlesRequest, OthersInv, TaskTypeOK, OneThread, taskVars
  <2>2. CASE QueryArrives \/ TaskWorks \/ TaskIsUsed \/ TaskStopped
    BY <1>0, <2>2, TaskInvStep
       DEF OthersInv, TaskWorks, TaskIsUsed, TaskStopped, QueryArrives
  <2>3. QED BY <2>1, <2>2
<1>2. MutexTypeOK'
  <2>1. CASE RequestArrives \/ HandlesRequest \/ QueryArrives
    BY <1>0, <2>1, MutexInvStep
       DEF OthersInv, RequestArrives, HandlesRequest, QueryArrives, RequestHandled
  <2>2. CASE TaskWorks \/ TaskIsUsed \/ TaskStopped
    BY <1>0, <2>2 DEF OthersInv, TaskWorks, TaskIsUsed, TaskStopped, MutexTypeOK, mutexVars
  <2>3. QED BY <2>1, <2>2
<1>3. OthersInv'
  BY <1>0, <1>1, <1>2 DEF OthersInv, ApplicationTypeOK, Rounds, programVars, applicationVars
<1>4. ClientInv'
  BY <1>0, ClientKept DEF ClientInv, TopicTypeOK, topic
<1>5. ServerInv'
  BY <1>0, ClientTyped, ServerKept DEF topic, clientVars
<1>6. QED BY <1>3, <1>4, <1>5 DEF IInv

-----------------------------------------------------------------------------
\* The application thread and its peers.
LEMMA ApplicationInvStep ==
    ASSUME ApplicationTypeOK, Rounds,
           \/ ThreadSteps \/ SetsFlag \/ WaitFulfilled \/ PeerChanges
           \/ \E ok \in BOOLEAN : Publishes(ok)
    PROVE  ApplicationTypeOK' /\ Rounds'
<1>0. /\ program \in Programs \cup {"none"} /\ cancelled_flag \in BOOLEAN
      /\ status_ok \in BOOLEAN /\ opened \in BOOLEAN /\ connected \in BOOLEAN
      /\ thread \in Places
      /\ round \in 0 .. MaxRounds
      /\ thread = "waiting" /\ program = "observer" => round < MaxRounds
  BY DEF ApplicationTypeOK, Rounds
<1>1. ASSUME NEW ok \in BOOLEAN, WaitReturns(ok)
      PROVE  ApplicationTypeOK' /\ Rounds'
  <2>1. /\ thread = "waiting" /\ thread' = Waited(ok)
        /\ round' = IF program = "observer" THEN round + 1 ELSE round
        /\ UNCHANGED <<program, cancelled_flag, status_ok, opened, connected>>
    BY <1>1 DEF WaitReturns, Moves
  <2>2. CASE program = "observer"
    <3>1. thread' = IF round + 1 < MaxRounds THEN "waiting" ELSE "testing"
      BY <2>1, <2>2 DEF Waited
    <3>2. round' \in 0 .. MaxRounds /\ (thread' = "waiting" => round' < MaxRounds)
      BY <1>0, <2>1, <2>2, <3>1, RoundsAssumption
    <3>3. QED BY <1>0, <2>1, <3>1, <3>2 DEF ApplicationTypeOK, Rounds, Places
  <2>3. CASE program # "observer"
    <3>1. thread' \in {"testing", "connecting", "waiting"}
      BY <2>1, <2>3 DEF Waited
    <3>2. QED BY <1>0, <2>1, <2>3, <3>1 DEF ApplicationTypeOK, Rounds, Places
  <2>4. QED BY <2>2, <2>3
<1>2. CASE Asks \/ Activates
  <2>1. /\ UNCHANGED <<program, cancelled_flag, status_ok, opened, connected>>
        /\ thread' \in {"waiting", "connecting"}
        /\ \/ program \in {"querier", "subscriber"} /\ round' = round
           \/ round' = 0
    BY <1>2 DEF Asks, Activates, Moves, Keeps
  <2>2. round' \in 0 .. MaxRounds /\ (program' = "observer" => round' < MaxRounds)
    BY <1>0, <2>1, RoundsAssumption
  <2>3. QED BY <1>0, <2>1, <2>2 DEF ApplicationTypeOK, Rounds, Places
<1>3. CASE \/ TestsFlag \/ Sends \/ Connects \/ ConnectIsCaught \/ Subscribes
           \/ \E ok \in BOOLEAN : Publishes(ok)
  <2>1. /\ UNCHANGED <<program, cancelled_flag, round>>
        /\ status_ok' \in BOOLEAN /\ opened' \in BOOLEAN /\ connected' \in BOOLEAN
        /\ thread' \in {"calling", "left", "testing", "connecting", "subscribing", "caught"}
    BY <1>0, <1>3 DEF TestsFlag, Sends, Connects, ConnectIsCaught, Subscribes, Publishes, Moves,
                      Keeps
  <2>2. QED BY <1>0, <2>1 DEF ApplicationTypeOK, Rounds, Places
<1>4. CASE SetsFlag \/ PeerChanges
  <2>1. /\ UNCHANGED <<program, thread, status_ok, opened, round>>
        /\ cancelled_flag' \in BOOLEAN /\ connected' \in BOOLEAN
    BY <1>0, <1>4 DEF SetsFlag, PeerChanges
  <2>2. QED BY <1>0, <2>1 DEF ApplicationTypeOK, Rounds
<1>5. QED BY <1>1, <1>2, <1>3, <1>4 DEF ThreadSteps, WaitAborted, WaitFulfilled

LEMMA ApplicationStep ==
    ASSUME IInv, ApplicationSteps \/ PeerSteps \/ Joins
    PROVE  IInv'
<1>0. /\ ClientInv /\ ServerInv /\ OthersInv
      /\ UNCHANGED <<clientVars, topic, serverVars, mutexVars, componentVars, taskVars, main,
                     restarts>>
  BY DEF IInv, ApplicationSteps, PeerSteps, Joins
<1>1. ApplicationTypeOK' /\ Rounds'
  <2>1. (server_up /\ ~is_shutting_down) \in BOOLEAN
    OBVIOUS
  <2>2. QED BY <1>0, <2>1, ApplicationInvStep DEF OthersInv, ApplicationSteps, PeerSteps, Joins
<1>2. OthersInv'
  BY <1>0, <1>1 DEF OthersInv, TaskTypeOK, OneThread, taskVars, MutexTypeOK, mutexVars
<1>3. ClientInv'
  BY <1>0, ClientKept DEF ClientInv, TopicTypeOK, topic
<1>4. ServerInv'
  BY <1>0, ClientTyped, ServerKept DEF topic, clientVars
<1>5. QED BY <1>2, <1>3, <1>4 DEF IInv

-----------------------------------------------------------------------------
\* The component.
\* The server does not notice how run() comes to its shutdown, nor the timer thread.
LEMMA ServerGoesOn ==
    ASSUME ServerInv, UNCHANGED <<clientVars, topic, serverVars>>, ComponentTypeOK',
           run' = "disconnecting" <=> run = "disconnecting",
           run' \in ServersGone <=> run \in ServersGone
    PROVE  ServerInv'
<1>1. UNCHANGED <<is_shutting_down, upcall, batch, handled, late, commands, server_up, sent,
                  sessions>>
  BY DEF serverVars, upcallVars, topic, clientVars
<1>2. ServerTypeOK /\ Quiet /\ Order
  BY DEF ServerInv
<1>3. Quiet'
  BY <1>1, <1>2 DEF Quiet
<1>4. QED BY <1>1, <1>2, <1>3 DEF ServerInv, ServerTypeOK, Order

LEMMA ComponentStep ==
    ASSUME IInv, AsksForShutdown \/ Notifies \/ WakesForNothing \/ TimerRuns \/ Runs
    PROVE  IInv'
<1>0. /\ ClientInv /\ ServerInv /\ OthersInv
      /\ ServerTypeOK /\ ComponentTypeOK /\ Quiet /\ Order
      /\ UNCHANGED <<clientVars, topic, serverVars, mutexVars, taskVars, programVars>>
  BY DEF IInv, ServerInv, AsksForShutdown, Notifies, WakesForNothing, TimerRuns, Runs
<1>1. OthersInv' /\ ClientInv'
  BY <1>0, OthersKept, ClientKept DEF ClientInv, TopicTypeOK, topic
<1> USE DEF RunGoes, RunMoves, TimerMoves
<1>2. CASE Runs
  <2>1. /\ run' \in RunStates
        /\ run' = "disconnecting" <=> run = "disconnecting"
        /\ run' \in ServersGone <=> run \in ServersGone
    BY <1>2 DEF RunStates, ServersGone, Runs, StartTimerThread, TestCancelled,
                BlockOnCondition, DeleteAllTimers, StopTimerThread, JoinTimerThread
  <2>2. /\ UNCHANGED <<cancelled, signal>>
        /\ timer_running' \in BOOLEAN /\ timer_thread' \in TimerPlaces
    BY <1>0, <1>2 DEF ComponentTypeOK, TimerPlaces, Runs, StartTimerThread, TestCancelled,
                      BlockOnCondition, DeleteAllTimers, StopTimerThread, JoinTimerThread,
                      TimerNotified, timerVars
  <2>3. ComponentTypeOK'
    BY <1>0, <2>1, <2>2 DEF ComponentTypeOK
  <2>4. QED BY <1>0, <1>1, <2>1, <2>3, ServerGoesOn DEF IInv
<1>3. CASE AsksForShutdown \/ Notifies
  <2>1. /\ run' \in {run, "woken"} /\ (run' # run => run = "waiting")
        /\ cancelled' \in BOOLEAN /\ signal' \in [Signallers -> {"quiet", "stored", "done"}]
        /\ UNCHANGED <<timer_running, timer_thread>>
    BY <1>0, <1>3 DEF ComponentTypeOK, AsksForShutdown, SignalShutdown, Notifies, NotifyAll,
                      WakesTheWaiting, timerVars
  <2>2. ComponentTypeOK'
    BY <1>0, <2>1 DEF ComponentTypeOK, RunStates
  <2>3. QED BY <1>0, <1>1, <2>1, <2>2, ServerGoesOn DEF IInv, ServersGone
<1>4. CASE WakesForNothing \/ TimerRuns
  <2>1. /\ run' \in {run, "woken"} /\ (run' # run => run = "waiting")
        /\ UNCHANGED <<cancelled, signal, timer_running>> /\ timer_thread' \in TimerPlaces
    BY <1>0, <1>4 DEF ComponentTypeOK, WakesForNothing, WakesSpuriously, TimerWakes, TimerRuns,
                      TimerLoops, TimerPlaces, timerVars
  <2>2. ComponentTypeOK'
    BY <1>0, <2>1 DEF ComponentTypeOK, RunStates
  <2>3. QED BY <1>0, <1>1, <2>1, <2>2, ServerGoesOn DEF IInv, ServersGone
<1>5. QED BY <1>2, <1>3, <1>4

LEMMA ShutdownStep ==
    ASSUME IInv, Announces \/ LocksServer \/ Disconnects
    PROVE  IInv'
<1>0. /\ ClientInv /\ ServerInv /\ OthersInv /\ TopicTypeOK
      /\ ServerTypeOK /\ ComponentTypeOK /\ Quiet /\ Order
      /\ UNCHANGED <<clientVars, taskVars, programVars>>
  BY DEF IInv, ClientInv, ServerInv, Announces, LocksServer, Disconnects
<1>1. OthersInv' /\ sent' = sent /\ sessions' = sessions
  <2>1. MutexTypeOK'
    BY <1>0, MutexInvStep
       DEF OthersInv, Announces, LocksServer, Disconnects, MutexTypeOK, mutexVars
  <2>2. QED BY <1>0, <2>1 DEF OthersInv, TaskTypeOK, OneThread, ApplicationTypeOK, Rounds,
                              taskVars, programVars, applicationVars, clientVars
<1>2. UNCHANGED <<upcall, batch, handled, late>> /\ is_shutting_down' \in BOOLEAN
  BY <1>0 DEF Announces, AnnounceShutdown, LocksServer, Disconnects, ServerDisconnects,
              serverVars, upcallVars, ServerTypeOK
<1>3. /\ ComponentTypeOK' /\ ServerTypeOK'
  BY <1>0, <1>2 DEF Announces, NotifyShutdown, LocksServer, Disconnects, ServersDisconnected,
                    RunGoes, RunMoves, componentVars, timerVars, ComponentTypeOK, RunStates,
                    ServerTypeOK
<1>4. CASE Announces
  <2>1. /\ run' = "disconnecting" /\ is_shutting_down' = TRUE
        /\ run = "woken" /\ commands' = commands /\ server_up' = server_up
    BY <1>4 DEF Announces, NotifyShutdown, RunGoes, RunMoves, AnnounceShutdown, topic
  <2>2. TopicTypeOK' /\ Quiet' /\ Order'
    BY <1>0, <1>1, <1>2, <2>1 DEF TopicTypeOK, Quiet, ServersGone, Order
  <2>3. QED BY <1>0, <1>1, <1>3, <2>2, ClientKept DEF IInv, ServerInv
<1>5. CASE Disconnects
  <2>1. /\ run' = "timers" /\ is_shutting_down' = is_shutting_down /\ upcall = "quiet"
        /\ run = "disconnecting" /\ commands' = {} /\ server_up' = FALSE
    BY <1>5 DEF Disconnects, ServersDisconnected, RunGoes, RunMoves, ServerDisconnects,
                UpcallEnded, serverVars
  <2>2. TopicTypeOK' /\ Quiet' /\ Order'
    BY <1>0, <1>1, <1>2, <2>1 DEF TopicTypeOK, Quiet, ServersGone, Order
  <2>3. QED BY <1>0, <1>1, <1>3, <2>2, ClientKept DEF IInv, ServerInv
<1>6. CASE LocksServer
  <2>1. UNCHANGED <<run, topic, serverVars>>
    BY <1>6 DEF LocksServer, componentVars
  <2>2. ServerInv'
    BY <1>0, <1>3, <2>1, ServerGoesOn
  <2>3. QED BY <1>0, <1>1, <2>1, <2>2, ClientKept DEF IInv, TopicTypeOK, topic
<1>7. QED BY <1>4, <1>5, <1>6

LEMMA EndStep ==
    ASSUME IInv, Destroys \/ Ends
    PROVE  IInv'
<1>0. /\ ClientInv /\ ServerInv /\ OthersInv
      /\ UNCHANGED <<clientVars, topic, serverVars, mutexVars, componentVars, applicationVars,
                     restarts>>
      /\ main' \in {"running", "destroying", "caught", "ended"}
  BY DEF IInv, Destroys, Ends
<1>1. TaskTypeOK' /\ OneThread'
  <2>1. UNCHANGED taskVars \/ Stop(TRUE)
    BY DEF Destroys, Ends
  <2>2. CASE UNCHANGED taskVars
    BY <1>0, <2>2 DEF OthersInv, TaskTypeOK, OneThread, taskVars
  <2>3. CASE Stop(TRUE)
    BY <1>0, <2>3, TaskInvStep DEF OthersInv
  <2>4. QED BY <2>1, <2>2, <2>3
<1>2. OthersInv'
  BY <1>0, <1>1 DEF OthersInv, ApplicationTypeOK, Rounds, MutexTypeOK, applicationVars,
                    mutexVars
<1>3. ClientInv'
  BY <1>0, ClientKept DEF ClientInv, TopicTypeOK, topic
<1>4. ServerInv'
  BY <1>0, ClientTyped, ServerKept DEF topic, clientVars
<1>5. QED BY <1>2, <1>3, <1>4 DEF IInv

LEMMA RestartStep ==
    ASSUME IInv, StartsAgain
    PROVE  IInv'
<1>0. /\ ClientInv /\ ServerInv /\ OthersInv /\ TopicTypeOK /\ Order
  BY DEF IInv, ClientInv, ServerInv
<1>1. ClientInv' /\ sent' = sent /\ sessions' = sessions
  BY <1>0, ClientKept DEF StartsAgain, TopicTypeOK, clientVars
<1>2. ServerInv'
  <2>1. /\ is_shutting_down' = FALSE /\ upcall' = "quiet" /\ batch' = {} /\ handled' = {}
        /\ late' = 0 /\ commands' = commands /\ server_up' = TRUE /\ run' = "starting"
        /\ cancelled' = FALSE /\ signal' = [s \in Signallers |-> "quiet"]
        /\ timer_running' = FALSE /\ timer_thread' = "none"
    BY DEF StartsAgain
  <2>2. ServerTypeOK' /\ Quiet' /\ Order'
    <3>1. is_shutting_down' \in BOOLEAN
      BY <2>1
    <3>2. late' \in 0 .. MaxCommands /\ late' <= 1
      BY <2>1, SendBounds
    <3>3. ServerTypeOK'
      BY <2>1, <3>1, <3>2 DEF ServerTypeOK
    <3>4. Quiet'
      BY <2>1, <3>2 DEF Quiet, ServersGone
    <3>5. Order'
      BY <1>0, <1>1, <2>1 DEF Order
    <3>6. QED BY <3>3, <3>4, <3>5
  <2>3. ComponentTypeOK'
    <3>1. signal' \in [Signallers -> {"quiet", "stored", "done"}]
      BY <2>1
    <3>2. timer_running' \in BOOLEAN
      BY <2>1
    <3>3. QED BY <2>1, <3>1, <3>2 DEF ComponentTypeOK, RunStates, TimerPlaces
  <2>4. QED BY <2>2, <2>3 DEF ServerInv
<1>3. OthersInv'
  <2>1. TaskTypeOK' /\ OneThread'
    <3>1. /\ kind' = kind /\ kind \in Kinds /\ async_handle' = (kind # "none")
          /\ task_cancelled' = FALSE /\ stop_signal' = FALSE /\ busy' = FALSE
          /\ stopping' = FALSE /\ queue' = 0 /\ alive' = started'
          /\ (kind = "none" /\ started' = 0) \/ (kind # "none" /\ started' = 1)
      BY <1>0 DEF StartsAgain, OthersInv, TaskTypeOK
    <3>2. async_handle' \in BOOLEAN /\ (kind # "none" => async_handle')
      BY <3>1
    <3>3. /\ queue' \in 0 .. MaxQueue /\ started' \in 0 .. MaxThreads
          /\ alive' \in 0 .. started'
      BY <3>1, TaskBounds
    <3>4. OneThread'
      BY <3>1, <3>2 DEF OneThread
    <3>5. QED BY <3>1, <3>2, <3>3, <3>4 DEF TaskTypeOK
  <2>2. ApplicationTypeOK' /\ Rounds'
    <3>1. /\ program' = program /\ program \in Programs \cup {"none"}
          /\ thread' \in {"none", "testing"} /\ round' = 0
          /\ cancelled_flag' = FALSE /\ status_ok' = TRUE /\ connected' = FALSE
          /\ opened' = FALSE
      BY <1>0 DEF StartsAgain, StartsAnew, OthersInv, ApplicationTypeOK
    <3>2. thread' \in Places /\ round' \in 0 .. MaxRounds /\ thread' # "waiting"
      BY <3>1, RoundsAssumption DEF Places
    <3>3. QED BY <3>1, <3>2 DEF ApplicationTypeOK, Rounds
  <2>3. main' = "running" /\ restarts' \in 0 .. MaxRestarts /\ MutexTypeOK'
    BY <1>0, RestartBound DEF StartsAgain, OthersInv, MutexTypeOK
  <2>4. QED BY <2>1, <2>2, <2>3 DEF OthersInv
<1>4. QED BY <1>1, <1>2, <1>3 DEF IInv

-----------------------------------------------------------------------------
LEMMA StepIInv ==
    ASSUME IInv, [Next]_vars
    PROVE  IInv'
<1>1. CASE Next
  BY <1>1, ClientStep, ListenStep, TaskStep, ApplicationStep, ComponentStep, ShutdownStep,
     EndStep, RestartStep DEF Next, MainProceeds
<1>2. CASE UNCHANGED vars
  <2>1. /\ ClientInv /\ ServerInv /\ OthersInv
        /\ UNCHANGED <<clientVars, topic, serverVars, mutexVars, componentVars, taskVars,
                       programVars>>
    BY <1>2 DEF IInv, vars, serverSide
  <2>2. ClientInv'
    BY <2>1, ClientKept DEF ClientInv, TopicTypeOK, topic
  <2>3. ServerInv'
    BY <2>1, ClientTyped, ServerKept DEF topic, clientVars
  <2>4. QED BY <2>1, <2>2, <2>3, OthersKept DEF IInv
<1>3. QED BY <1>1, <1>2

\* The owner of connection_mutex, the writer and its listener, the shutdown and the
\* listener's loop, the order of the commands and the task's thread fit together.
THEOREM WholeInvariant == Spec => []IInv
BY InitIInv, StepIInv, PTL DEF Spec

\* Every variable keeps the type of the member it models.
THEOREM TypeCorrect == Spec => []TypeOK
<1>1. IInv => TypeOK
  BY DEF IInv, ClientInv, ServerInv, OthersInv, TypeOK
<1>2. QED BY <1>1, WholeInvariant, PTL

\* A send client that reports itself connected has a writer, whatever upcall of the
\* listener it has detached overlaps the disconnect.
THEOREM ConnectedMeansWriter == Spec => []ConnectedHasWriter
<1>1. IInv => ConnectedHasWriter
  BY DEF IInv, ClientInv, Writers
<1>2. QED BY <1>1, WholeInvariant, PTL

\* After the announcement of the shutdown at most the command whose turn had come is
\* handled; once the server has disconnected the listener is silent.
THEOREM ServerFallsSilent == Spec => []QuietAfterShutdown
<1>1. IInv => QuietAfterShutdown
  BY DEF IInv, ServerInv, Quiet, QuietAfterShutdown
<1>2. QED BY <1>1, WholeInvariant, PTL

\* A task never has two threads, and none once stop() has waited for it.
THEOREM TaskHasOneThread == Spec => []OneThread
<1>1. IInv => OneThread
  BY DEF IInv, OthersInv
<1>2. QED BY <1>1, WholeInvariant, PTL

-----------------------------------------------------------------------------
\* The component's run() has returned when its objects are destroyed.
Ending == main # "running" => run = "returned"

LEMMA EndingStep ==
    ASSUME Ending, [Next]_vars
    PROVE  Ending'
<1>1. CASE AsksForShutdown \/ Notifies \/ WakesForNothing \/ TimerRuns \/ Runs
  <2>1. main' = main /\ (run = "returned" => run' = "returned")
    BY <1>1 DEF programVars, AsksForShutdown, SignalShutdown, Notifies, NotifyAll,
                WakesTheWaiting, WakesForNothing, WakesSpuriously, TimerWakes, TimerRuns,
                TimerLoops, TimerMoves, Runs, StartTimerThread, TestCancelled,
                BlockOnCondition, DeleteAllTimers, StopTimerThread, JoinTimerThread, RunGoes,
                RunMoves
  <2>2. QED BY <2>1 DEF Ending
<1>2. CASE Announces \/ LocksServer \/ Disconnects
  <2>1. main' = main /\ run # "returned"
    BY <1>2 DEF Announces, NotifyShutdown, LocksServer, Disconnects, ServersDisconnected,
                RunGoes, RunMoves, programVars
  <2>2. QED BY <2>1 DEF Ending
<1>3. CASE Destroys \/ Ends
  <2>1. run' = run /\ (run = "returned" \/ main # "running")
    BY <1>3 DEF Destroys, Ends, componentVars
  <2>2. QED BY <2>1 DEF Ending
<1>4. CASE StartsAgain
  BY <1>4 DEF StartsAgain, Ending
<1>5. CASE \/ \E u \in Users : UserCalls(u) \/ Proceeds(u)
           \/ Discovers \/ Reports \/ Listens
           \/ RequestArrives \/ HandlesRequest \/ QueryArrives
           \/ TaskWorks \/ TaskIsUsed \/ TaskStopped
           \/ ApplicationSteps \/ PeerSteps \/ Joins \/ UNCHANGED vars
  <2>1. main' = main /\ run' = run
    BY <1>5 DEF UserCalls, Proceeds, Discovers, Reports, Quietly, Listens, RequestArrives,
                HandlesRequest, QueryArrives, TaskWorks, TaskIsUsed, TaskStopped,
                ApplicationSteps, PeerSteps, Joins, vars, serverSide, programVars,
                componentVars
  <2>2. QED BY <2>1 DEF Ending
<1>6. QED BY <1>1, <1>2, <1>3, <1>4, <1>5 DEF Next, MainProceeds

LEMMA EndingInvariant == Spec => []Ending
<1>1. Init => Ending
  BY DEF Init, Ending
<1>2. QED BY <1>1, EndingStep, PTL DEF Spec

-----------------------------------------------------------------------------
\* The refinement: the connection, what is on its way and what was handled, as the
\* service sees them.
Connection == IF Accepting THEN writer ELSE 0
OnTheWay == batch \cup (IF Accepting THEN commands ELSE {})
Served == [Service!Next]_(Service!vars)

\* A step the service does not see.
LEMMA Unseen ==
    ASSUME Connection' = Connection, OnTheWay' = OnTheWay, handled' = handled
    PROVE  Served
BY DEF Served, Service!vars, Connection, OnTheWay

LEMMA UnseenVars ==
    ASSUME UNCHANGED <<server_up, is_shutting_down, upcall, writer, batch, commands, handled>>
    PROVE  Served
BY Unseen DEF Connection, OnTheWay, Accepting

\* What leaves the way to the server with a connection that is closed is the end of it.
LEMMA Closes ==
    ASSUME Connection' = 0, handled' = handled, OnTheWay' \subseteq OnTheWay,
           \A d \in OnTheWay', c \in OnTheWay : Before(c, d) => c \in OnTheWay'
    PROVE  Served
<1>1. Service!Close
  BY DEF Service!Close, Service!Earlier, Before, Connection, OnTheWay
<1>2. QED BY <1>1 DEF Served, Service!Next

LEMMA InitService == Init => Service!Init
BY DEF Init, ClientInit, TopicInit, ServerInit, Service!Init, Accepting

LEMMA OrderTyped ==
    ASSUME IInv
    PROVE  /\ OnTheWay \cup handled \subseteq Commands
           /\ Commands = Service!Commands /\ Sessions = Service!Sessions
           /\ \A c \in OnTheWay \cup handled :
                c.number \in Nat /\ c.session \in Nat /\ c.number <= sent /\ c.session <= sessions
           /\ \A c \in batch : c \notin commands /\ \A d \in commands : ~Before(d, c)
           /\ Quiet
<1>1. ServerTypeOK /\ TopicTypeOK /\ Order /\ Quiet
  BY DEF IInv, ServerInv, ClientInv
<1>2. OnTheWay \cup handled \subseteq commands \cup batch \cup handled
  BY DEF OnTheWay
<1>3. commands \cup batch \cup handled \subseteq Commands
  BY <1>1 DEF ServerTypeOK, TopicTypeOK
<1>4. Commands = Service!Commands /\ Sessions = Service!Sessions
  BY DEF Commands, Sessions, Service!Commands, Service!Sessions
<1>5. \A c \in Commands : c.number \in Nat /\ c.session \in Nat
  BY SendBounds DEF Commands, Sessions
<1>6. QED BY <1>1, <1>2, <1>3, <1>4, <1>5 DEF Order

\* The client drops its writer and closes the connection.
LEMMA DropServes ==
    ASSUME IInv, DropWriter, UNCHANGED <<server_up, is_shutting_down, upcall, batch, handled>>
    PROVE  Served
<1>1. /\ writer' = 0 /\ commands' \subseteq commands
      /\ \A d \in commands', c \in commands : Before(c, d) => c \in commands'
  BY DEF DropWriter, Prefixes
<1>2. Accepting' = Accepting
  BY DEF Accepting
<1>3. Connection' = 0 /\ OnTheWay' \subseteq OnTheWay
  BY <1>1, <1>2 DEF Connection, OnTheWay
<1>4. \A d \in OnTheWay', c \in OnTheWay : Before(c, d) => c \in OnTheWay'
  BY <1>1, <1>2, OrderTyped DEF OnTheWay
<1>5. QED BY <1>3, <1>4, Closes

\* The client opens its writer: the service's connection, if the server accepts one.
LEMMA OpenServes ==
    ASSUME IInv, NEW u \in Users, OpenWriter(u),
           UNCHANGED <<server_up, is_shutting_down, upcall, batch, handled>>
    PROVE  Served
<1>1. writer' = sessions + 1 /\ commands' = commands /\ Accepting' = Accepting
  BY DEF OpenWriter, NewWriter, topic, Accepting
<1>2. CASE ~Accepting
  BY <1>1, <1>2, Unseen DEF Connection, OnTheWay
<1>3. CASE Accepting
  <2>1. sessions < MaxSessions /\ sessions \in Nat /\ writer = 0
    BY SendBounds DEF IInv, ClientInv, ClientTypeOK, Writers, OpenWriter
  <2>2. sessions + 1 \in Service!Sessions
    BY <2>1, SendBounds DEF Service!Sessions
  <2>3. \A c \in OnTheWay \cup handled : c.session # sessions + 1
    BY <2>1, OrderTyped
  <2>4. Service!Open(sessions + 1)
    BY <1>1, <1>3, <2>1, <2>3 DEF Service!Open, OnTheWay
  <2>5. QED BY <2>2, <2>4 DEF Served, Service!Next
<1>4. QED BY <1>2, <1>3

\* A command is written: it is the last of its connection.
LEMMA WriteServes ==
    ASSUME IInv, NEW u \in Users, Write(u),
           UNCHANGED <<server_up, is_shutting_down, upcall, batch, handled>>
    PROVE  Served
<1> DEFINE new == [session |-> writer, number |-> sent + 1]
<1>1. /\ writer' = writer /\ Accepting' = Accepting
      /\ \/ commands' = commands
         \/ /\ commands' = commands \cup {new}
            /\ writer # 0 /\ sent < MaxCommands
  BY DEF Write, Accepting
<1>2. CASE commands' = commands \/ ~Accepting
  BY <1>1, <1>2, Unseen DEF Connection, OnTheWay
<1>3. CASE Accepting /\ commands' = commands \cup {new} /\ writer # 0 /\ sent < MaxCommands
  <2>1. sent \in Nat /\ writer \in 1 .. MaxSessions
    BY <1>3, ClientTyped, SendBounds DEF IInv
  <2>2. new \in Service!Commands /\ new.session = writer /\ new.number = sent + 1
    BY <1>3, <2>1, SendBounds DEF Service!Commands, Service!Sessions
  <2> HIDE DEF new
  <2>3. \A d \in OnTheWay \cup handled :
           d.session = new.session => d.session = new.session /\ d.number < new.number
    BY <2>1, <2>2, OrderTyped
  <2>4. Connection' = Connection /\ Connection = writer /\ OnTheWay' = OnTheWay \cup {new}
    BY <1>1, <1>3 DEF Connection, OnTheWay
  <2>5. Service!Send(new)
    BY <2>2, <2>3, <2>4 DEF Service!Send, Service!Earlier, Connection, OnTheWay
  <2>6. QED BY <2>2, <2>5 DEF Served, Service!Next
<1>4. QED BY <1>1, <1>2, <1>3

LEMMA ClientServes ==
    ASSUME IInv, \/ \E u \in Users : UserCalls(u) \/ Proceeds(u)
                 \/ Discovers \/ Reports
    PROVE  Served
<1>1. UNCHANGED <<is_shutting_down, upcall, batch, handled>>
  BY DEF UserCalls, Proceeds, Discovers, Reports, Quietly, serverSide, serverVars, upcallVars
<1>2. ASSUME NEW u \in Users, Connect(u) \/ Disconnect(u) \/ ConnectFails(u)
      PROVE  Served
  <2>1. DropWriter /\ server_up' = server_up
    BY <1>2 DEF Connect, Disconnect, Reset, ConnectFails
  <2>2. QED BY <1>1, <2>1, DropServes
<1>3. ASSUME NEW u \in Users, OpenWriter(u) PROVE Served
  BY <1>1, <1>3, OpenServes DEF OpenWriter, topic
<1>4. ASSUME NEW u \in Users, Write(u) PROVE Served
  BY <1>1, <1>4, WriteServes DEF Write
<1>5. ASSUME NEW u \in Users, Disconnected(u) \/ WriterMatched(u) \/ Connected(u) \/ Send(u)
      PROVE  Served
  BY <1>1, <1>5, UnseenVars DEF Disconnected, WriterMatched, Connected, Send, topic
<1>6. ASSUME MatchChanges \/ OnPublicationMatched PROVE Served
  BY <1>1, <1>6, UnseenVars DEF MatchChanges, OnPublicationMatched, topic
<1>7. QED BY <1>2, <1>3, <1>4, <1>5, <1>6 DEF UserCalls, Proceeds, Discovers, Reports

\* The server's upcall takes what is there and hands it out in order.
LEMMA ListenServes ==
    ASSUME IInv, Listens
    PROVE  Served
<1>0. UNCHANGED <<writer, is_shutting_down, server_up>>
  BY DEF Listens, clientVars, ServerUpcall, OnDataAvailable, Take, HandleSend, HandlerReturns,
         topic
<1>1. CASE OnDataAvailable
  <2>1. UNCHANGED <<batch, handled, commands>> /\ ~is_shutting_down
    BY <1>1 DEF OnDataAvailable, topic
  <2>2. QED BY <1>0, <2>1, Unseen DEF Connection, OnTheWay, Accepting
<1>2. CASE Take
  <2>1. PICK taken \in Prefixes(commands) : batch' = taken /\ commands' = commands \ taken
    BY <1>2 DEF Take, RemovedFromReader
  <2>2. /\ handled' = handled /\ upcall = "taking" /\ upcall' # "taking"
    BY <1>2 DEF Take
  <2>3. /\ taken \subseteq commands
        /\ \A d \in taken, c \in commands : Before(c, d) => c \in taken
    BY <2>1 DEF Prefixes
  <2>4. batch = {} /\ Accepting
    BY <2>2, OrderTyped DEF Quiet, Accepting
  <2>5. CASE is_shutting_down
    <3>1. ~Accepting'
      BY <1>0, <2>2, <2>5 DEF Accepting
    <3>2. Connection' = 0 /\ OnTheWay' = taken /\ OnTheWay = commands
      BY <2>1, <2>4, <3>1 DEF Connection, OnTheWay
    <3>3. QED BY <2>2, <2>3, <3>2, Closes
  <2>6. CASE ~is_shutting_down
    <3>1. Accepting'
      BY <1>0, <2>4, <2>6 DEF Accepting
    <3>2. Connection' = Connection /\ OnTheWay' = OnTheWay
      BY <1>0, <2>1, <2>3, <2>4, <3>1 DEF Connection, OnTheWay
    <3>3. QED BY <2>2, <3>2, Unseen
  <2>7. QED BY <2>5, <2>6
<1>3. ASSUME NEW c \in batch, HandleSend(c) PROVE Served
  <2>1. /\ batch' = batch \ {c} /\ handled' = handled \cup {c} /\ commands' = commands
        /\ Accepting' = Accepting /\ \A d \in batch : ~Before(d, c)
    BY <1>0, <1>3 DEF HandleSend, topic, Accepting
  <2>2. c \notin commands /\ \A d \in commands : ~Before(d, c)
    BY OrderTyped
  <2>3. /\ OnTheWay' = OnTheWay \ {c} /\ c \in OnTheWay /\ Connection' = Connection
        /\ \A d \in OnTheWay : ~Before(d, c)
    BY <1>0, <2>1, <2>2 DEF OnTheWay, Connection
  <2>4. Service!Handle(c)
    BY <2>1, <2>3 DEF Service!Handle, Service!Earlier, Before, OnTheWay, Connection
  <2>5. c \in Service!Commands
    BY <2>3, OrderTyped
  <2>6. QED BY <2>4, <2>5 DEF Served, Service!Next
<1>4. CASE HandlerReturns
  <2>1. /\ handled' = handled /\ commands' = commands /\ upcall = "handling"
        /\ upcall' \in {"quiet", "looping"}
        /\ \/ batch' = batch
           \/ is_shutting_down /\ batch' = {}
    BY <1>4 DEF HandlerReturns, LoopStops, topic
  <2>2. Accepting' = Accepting /\ (is_shutting_down => ~Accepting)
    BY <1>0, <2>1 DEF Accepting
  <2>3. CASE batch' = batch
    BY <1>0, <2>1, <2>2, <2>3, Unseen DEF Connection, OnTheWay
  <2>4. CASE is_shutting_down /\ batch' = {}
    <3>1. Connection' = 0 /\ OnTheWay' = {}
      BY <2>2, <2>4 DEF Connection, OnTheWay
    <3>2. QED BY <2>1, <3>1, Closes
  <2>5. QED BY <2>1, <2>3, <2>4
<1>5. QED BY <1>1, <1>2, <1>3, <1>4 DEF Listens, ServerUpcall

\* The shutdown, which closes the connection when it is announced, and the restart.
LEMMA ShutdownServes ==
    ASSUME IInv, Announces \/ LocksServer \/ Disconnects
    PROVE  Served
<1>1. UNCHANGED <<writer, upcall, batch, handled>>
  BY DEF Announces, AnnounceShutdown, LocksServer, Disconnects, ServerDisconnects, clientVars,
         serverVars, upcallVars
<1>2. CASE Announces
  <2>1. is_shutting_down' = TRUE /\ UNCHANGED <<commands, server_up>>
    BY <1>2 DEF Announces, AnnounceShutdown, topic
  <2>2. Accepting' => Accepting
    BY <1>1, <2>1 DEF Accepting
  <2>3. CASE Accepting' = Accepting
    BY <1>1, <2>1, <2>3, Unseen DEF Connection, OnTheWay
  <2>4. CASE ~Accepting'
    <3>1. Connection' = 0 /\ OnTheWay' = batch
      BY <1>1, <2>4 DEF Connection, OnTheWay
    <3>2. \A d \in batch, c \in OnTheWay : Before(c, d) => c \in batch
      BY OrderTyped DEF OnTheWay
    <3>3. batch \subseteq OnTheWay
      BY DEF OnTheWay
    <3>4. QED BY <1>1, <3>1, <3>2, <3>3, Closes
  <2>5. QED BY <2>2, <2>3, <2>4 DEF Accepting
<1>3. CASE Disconnects
  <2>1. /\ is_shutting_down /\ upcall = "quiet" /\ is_shutting_down' = is_shutting_down
        /\ server_up' = FALSE
    BY <1>3, OrderTyped DEF Disconnects, ServersDisconnected, RunGoes, RunMoves,
                            ServerDisconnects, UpcallEnded, Quiet, serverVars
  <2>2. ~Accepting /\ ~Accepting'
    BY <2>1 DEF Accepting
  <2>3. QED BY <1>1, <2>2, Unseen DEF Connection, OnTheWay
<1>4. CASE LocksServer
  BY <1>1, <1>4, UnseenVars DEF LocksServer, topic, serverVars
<1>5. QED BY <1>2, <1>3, <1>4

LEMMA RestartServes ==
    ASSUME IInv, Ending, StartsAgain
    PROVE  Served
<1>1. /\ batch' = {} /\ handled' = {} /\ commands' = commands /\ writer' = writer
      /\ main = "ended"
  BY DEF StartsAgain, clientVars
<1>2. ~server_up
  BY <1>1, OrderTyped DEF Ending, Quiet, ServersGone
<1>3. OnTheWay' = {}
  BY <1>1, <1>2, OrderTyped DEF Quiet, OnTheWay
<1>4. writer \in Service!Sessions \cup {0}
  BY ClientTyped, SendBounds DEF IInv, Service!Sessions
<1>5. Connection' \in Service!Sessions \cup {0}
  BY <1>1, <1>4 DEF Connection
<1>6. Service!Restart
  BY <1>1, <1>3, <1>5 DEF Service!Restart, Connection, OnTheWay
<1>7. QED BY <1>6 DEF Served, Service!Next

LEMMA NextServes ==
    ASSUME IInv, Ending, [Next]_vars
    PROVE  Served
<1>1. CASE \/ RequestArrives \/ HandlesRequest \/ QueryArrives
           \/ TaskWorks \/ TaskIsUsed \/ TaskStopped
           \/ ApplicationSteps \/ PeerSteps \/ Joins \/ Destroys \/ Ends
           \/ AsksForShutdown \/ Notifies \/ WakesForNothing \/ TimerRuns \/ Runs
           \/ UNCHANGED vars
  <2>1. UNCHANGED <<clientVars, topic, serverVars>>
    BY <1>1 DEF RequestArrives, HandlesRequest, QueryArrives, TaskWorks, TaskIsUsed,
                TaskStopped, ApplicationSteps, PeerSteps, Joins, Destroys, Ends,
                AsksForShutdown, Notifies, WakesForNothing, TimerRuns, Runs, vars, serverSide
  <2>2. QED BY <2>1, UnseenVars DEF clientVars, topic, serverVars, upcallVars
<1>2. CASE Announces \/ LocksServer \/ Disconnects
  BY <1>2, ShutdownServes
<1>3. CASE StartsAgain
  BY <1>3, RestartServes
<1>4. CASE Listens
  BY <1>4, ListenServes
<1>5. CASE \/ \E u \in Users : UserCalls(u) \/ Proceeds(u)
           \/ Discovers \/ Reports
  BY <1>5, ClientServes
<1>6. QED BY <1>1, <1>2, <1>3, <1>4, <1>5 DEF Next, MainProceeds

\* The send pattern implements the service through reconnects, lost matches, the shutdown
\* and the restart of the server: a command is handled at most once, in the order of its
\* connection and without a gap, and a server that shuts down loses the end of it only.
THEOREM SendServiceIsImplemented == Spec => ImplementsService
<1>1. IInv /\ Ending /\ [Next]_vars => Served
  BY NextServes
<1>2. QED BY <1>1, InitService, WholeInvariant, EndingInvariant, PTL
          DEF Spec, ImplementsService, Service!Spec, Served
-----------------------------------------------------------------------------
\* What ShutdownEnds rests on, fairness aside: from the announcement of the shutdown on,
\* the main thread stands in one of the named deadlocks, or what it waits for is a thread
\* that has a step to take, or the peer of a client; every such step leaves them fewer to
\* take, and the deadlocks last.

\* A thread of a task works only while it is there, and is told of the stop that is waited
\* for: the queue's by its signal, the others by the flag.
TaskEnds ==
    /\ busy => alive > 0
    /\ stopping => task_cancelled /\ (kind = "queue" => stop_signal)
    /\ kind = "none" => alive = 0 /\ ~stopping

\* The destructors run when the application thread is gone and the task is told to stop.
Joined == main # "running" => Joinable /\ (~stopping => alive = 0)

LoopHasBatch == upcall = "looping" => batch # {}
HasThread ==
    /\ program # "none" <=> thread # "none"
    /\ thread = "waiting" => program \in {"querier", "subscriber", "observer"}

\* server_mutex is taken for the disconnect only, and by servers that have one.
MutexHeld ==
    /\ server_mutex = "disconnect" => run = "disconnecting"
    /\ request_upcall # "quiet" => HasMutex

TimerStarted == run # "starting" => timer_thread # "none"

EndInv ==
    /\ Ending /\ TaskEnds /\ Joined /\ LoopHasBatch /\ HasThread
    /\ MutexHeld /\ TimerStarted

-----------------------------------------------------------------------------
LEMMA InitEnd == Init => EndInv
<1> SUFFICES ASSUME Init PROVE EndInv
  OBVIOUS
<1>1. Ending /\ Joined /\ LoopHasBatch /\ HasThread
  BY DEF Init, ServerInit, ApplicationInit, Starts, Ending, Joined, LoopHasBatch, HasThread
<1>2. TaskEnds
  BY DEF Init, TaskInit, TaskEnds
<1>3. MutexHeld /\ TimerStarted
  BY DEF Init, MutexInit, ComponentInit, MutexHeld, TimerStarted
<1>4. QED BY <1>1, <1>2, <1>3 DEF EndInv

\* The steps of the mutex and of the timer thread, which all the others leave alone.
LEMMA MutexEndStep ==
    ASSUME EndInv, [Next]_vars
    PROVE  MutexHeld' /\ TimerStarted'
<1> USE DEF RunGoes, RunMoves, TimerMoves
<1>0. /\ server_mutex = "disconnect" => run = "disconnecting"
      /\ request_upcall # "quiet" => HasMutex
      /\ run # "starting" => timer_thread # "none"
  BY DEF EndInv, MutexHeld, TimerStarted
<1>1. CASE RequestArrives \/ HandlesRequest \/ QueryArrives
  <2>1. /\ server_mutex' = server_mutex /\ run' = run /\ timer_thread' = timer_thread
        /\ program' = program /\ kind' = kind
        /\ request_upcall' # "quiet" => HasMutex
    BY <1>0, <1>1 DEF RequestArrives, UpcallBegins, HandlesRequest, RequestHandled,
                      UpcallLocks, HandlerGoesOn, QueryArrives, Enqueue, componentVars,
                      timerVars, programVars, applicationVars, taskVars
  <2>2. QED BY <1>0, <2>1 DEF MutexHeld, TimerStarted, HasMutex, ServesQueries
<1>2. CASE LocksServer \/ Disconnects
  <2>1. /\ request_upcall' = request_upcall /\ timer_thread' = timer_thread
        /\ program' = program /\ kind' = kind /\ run # "starting"
        /\ \/ run = "disconnecting" /\ run' = run
           \/ server_mutex' = "free" /\ run' = "timers"
    BY <1>2 DEF LocksServer, LockForDisconnect, Disconnects, ServersDisconnected,
                DetachesQuietly, componentVars, timerVars, programVars, applicationVars,
                taskVars
  <2>2. QED BY <1>0, <2>1 DEF MutexHeld, TimerStarted, HasMutex, ServesQueries
<1>3. CASE \/ AsksForShutdown \/ Notifies \/ WakesForNothing \/ TimerRuns
           \/ Runs \/ Announces
  <2>1. /\ UNCHANGED mutexVars
        /\ program' = program /\ kind' = kind
    BY <1>3 DEF AsksForShutdown, Notifies, WakesForNothing, TimerRuns, Runs, Announces,
                programVars, applicationVars, taskVars
  <2>2. run = "disconnecting" => run' = "disconnecting"
    BY <1>3 DEF AsksForShutdown, SignalShutdown, Notifies, NotifyAll, WakesTheWaiting,
                WakesForNothing, WakesSpuriously, TimerWakes, TimerRuns, TimerLoops, Runs,
                StartTimerThread, TestCancelled, BlockOnCondition, DeleteAllTimers,
                StopTimerThread, JoinTimerThread, Announces, NotifyShutdown
  <2>3. run' # "starting" => timer_thread' # "none"
    BY <1>0, <1>3
       DEF AsksForShutdown, SignalShutdown, Notifies, NotifyAll, WakesTheWaiting,
           WakesForNothing, WakesSpuriously, TimerWakes, TimerRuns, TimerLoops, Runs,
           StartTimerThread, TestCancelled, BlockOnCondition, DeleteAllTimers,
           StopTimerThread, JoinTimerThread, TimerNotified, Announces, NotifyShutdown,
           timerVars
  <2>4. QED BY <1>0, <2>1, <2>2, <2>3
            DEF MutexHeld, TimerStarted, HasMutex, ServesQueries, mutexVars
<1>4. CASE StartsAgain
  BY <1>4 DEF StartsAgain, MutexHeld, TimerStarted
<1>5. CASE \/ \E u \in Users : UserCalls(u) \/ Proceeds(u)
           \/ Discovers \/ Reports \/ Listens
           \/ TaskWorks \/ TaskIsUsed \/ TaskStopped
           \/ ApplicationSteps \/ PeerSteps \/ Joins \/ Destroys \/ Ends
           \/ UNCHANGED vars
  <2>1. UNCHANGED <<mutexVars, componentVars>>
    BY <1>5 DEF UserCalls, Proceeds, Discovers, Reports, Quietly, Listens, TaskWorks,
                TaskIsUsed, TaskStopped, ApplicationSteps, PeerSteps, Joins, Destroys, Ends,
                vars, serverSide
  <2>2. program' = program /\ kind' = kind
    <3>1. CASE TaskWorks \/ TaskIsUsed \/ TaskStopped
      BY <3>1 DEF TaskWorks, Works, HasWorked, Returns, TaskIsUsed, Start, Stop, TaskStopped,
                  Stopped, programVars, applicationVars
    <3>2. CASE ApplicationSteps \/ PeerSteps \/ Joins
      BY <3>2 DEF ApplicationSteps, PeerSteps, Joins, taskVars, ThreadSteps, TestsFlag, Sends,
                  Asks, Activates, WaitAborted, WaitFulfilled, WaitReturns, Connects,
                  ConnectIsCaught, Subscribes, Publishes, PeerChanges, SetsFlag, Keeps
    <3>3. CASE Destroys \/ Ends
      BY <3>3 DEF Destroys, Ends, Stop, taskVars, applicationVars
    <3>4. CASE \/ \E u \in Users : UserCalls(u) \/ Proceeds(u)
               \/ Discovers \/ Reports \/ Listens \/ UNCHANGED vars
      BY <3>4 DEF UserCalls, Proceeds, Discovers, Reports, Quietly, Listens, vars, serverSide,
                  programVars, applicationVars, taskVars
    <3>5. QED BY <1>5, <3>1, <3>2, <3>3, <3>4
  <2>3. QED BY <1>0, <2>1, <2>2 DEF MutexHeld, TimerStarted, HasMutex, ServesQueries,
                                    mutexVars, componentVars, timerVars
<1>6. QED BY <1>1, <1>2, <1>3, <1>4, <1>5 DEF Next, MainProceeds

\* The steps that leave the task, the application thread and the main thread alone.
LEMMA EndKept ==
    ASSUME EndInv, Ending', MutexHeld', TimerStarted',
           UNCHANGED <<taskVars, applicationVars, main>>, LoopHasBatch'
    PROVE  EndInv'
<1>1. TaskEnds'
  BY DEF EndInv, TaskEnds, taskVars
<1>2. Joined' /\ HasThread'
  BY DEF EndInv, Joined, HasThread, Joinable, taskVars, applicationVars
<1>3. QED BY <1>1, <1>2 DEF EndInv

LEMMA TaskEndStep ==
    ASSUME IInv, EndInv, TaskWorks \/ TaskIsUsed \/ TaskStopped \/ QueryArrives
    PROVE  TaskEnds' /\ Joined'
<1>0. /\ kind \in Kinds /\ alive \in Nat /\ started \in Nat /\ alive <= 1
      /\ (~async_handle => alive = 0) /\ main' = main
      /\ UNCHANGED applicationVars
  <2>1. alive <= 1 /\ (~async_handle => alive = 0)
    BY DEF IInv, OthersInv, OneThread, TaskTypeOK
  <2>2. started \in Nat /\ alive \in Nat
    BY TaskBounds DEF IInv, OthersInv, TaskTypeOK
  <2>3. QED BY <2>1, <2>2 DEF IInv, OthersInv, TaskTypeOK, TaskWorks, TaskIsUsed, TaskStopped,
                              QueryArrives, programVars
<1>1. TaskEnds'
  <2>1. CASE Works
    BY <1>0, <2>1 DEF Works, EndInv, TaskEnds
  <2>2. CASE HasWorked \/ Stopped \/ Enqueue
    BY <1>0, <2>2 DEF HasWorked, Stopped, Enqueue, EndInv, TaskEnds
  <2>3. CASE Returns
    BY <1>0, <2>3 DEF Returns, EndInv, TaskEnds
  <2>4. CASE Start
    BY <1>0, <2>4 DEF Start, EndInv, TaskEnds
  <2>5. ASSUME NEW wait \in BOOLEAN, Stop(wait), kind # "none" PROVE TaskEnds'
    BY <1>0, <2>5 DEF Stop, SignalToStop, TaskStop, EndInv, TaskEnds
  <2>6. QED BY <2>1, <2>2, <2>3, <2>4, <2>5
            DEF TaskWorks, TaskIsUsed, TaskStopped, QueryArrives
<1>2. Joined'
  <2>1. CASE main = "running"
    BY <1>0, <2>1 DEF Joined
  <2>2. CASE main # "running"
    <3>1. Joinable' /\ (~stopping => alive = 0)
      BY <1>0, <2>2 DEF EndInv, Joined, Joinable, applicationVars
    <3>2. ~TaskIsUsed
      BY <2>2 DEF TaskIsUsed
    <3>3. ~stopping' => alive' = 0
      BY <1>0, <3>1, <3>2 DEF TaskWorks, TaskStopped, QueryArrives, Works, HasWorked, Returns,
                              Stopped, ThreadReturned, Enqueue
    <3>4. QED BY <3>1, <3>3 DEF Joined
  <2>3. QED BY <2>1, <2>2
<1>3. QED BY <1>1, <1>2

LEMMA ThreadEndStep ==
    ASSUME EndInv, ApplicationSteps \/ PeerSteps \/ Joins
    PROVE  Joined' /\ HasThread'
<1>1. /\ main' = main /\ alive' = alive /\ stopping' = stopping /\ program' = program
      /\ cancelled_flag => cancelled_flag'
      /\ thread \in {"none", "left"} => thread' = thread
      /\ thread' = "none" => thread = "none"
      /\ thread' = "waiting" =>
           thread = "waiting" \/ program \in {"querier", "subscriber", "observer"}
  BY DEF ApplicationSteps, PeerSteps, Joins, taskVars, ThreadSteps, TestsFlag, Sends, Asks,
         Activates, WaitAborted, WaitFulfilled, WaitReturns, Waited, Connects,
         ConnectIsCaught, Subscribes, Publishes, PeerChanges, SetsFlag, Moves, Keeps
<1>2. QED BY <1>1 DEF EndInv, Joined, HasThread, Joinable

LEMMA EndStepInv ==
    ASSUME IInv, EndInv, [Next]_vars
    PROVE  EndInv'
<1>0. Ending' /\ MutexHeld' /\ TimerStarted'
  BY EndingStep, MutexEndStep DEF EndInv
<1>1. CASE \/ \E u \in Users : UserCalls(u) \/ Proceeds(u)
           \/ Discovers \/ Reports
           \/ RequestArrives \/ HandlesRequest
           \/ AsksForShutdown \/ Notifies \/ WakesForNothing \/ TimerRuns \/ Runs
           \/ Announces \/ LocksServer \/ Disconnects \/ UNCHANGED vars
  <2>1. /\ UNCHANGED <<taskVars, applicationVars, main>>
        /\ UNCHANGED <<upcall, batch>>
    BY <1>1 DEF UserCalls, Proceeds, Discovers, Reports, Quietly, serverSide, programVars,
                RequestArrives, HandlesRequest, AsksForShutdown, Notifies, WakesForNothing,
                TimerRuns, Runs, Announces, LocksServer, Disconnects, AnnounceShutdown,
                ServerDisconnects, serverVars, upcallVars, vars
  <2>2. LoopHasBatch'
    BY <2>1 DEF EndInv, LoopHasBatch
  <2>3. QED BY <1>0, <2>1, <2>2, EndKept
<1>2. CASE Listens
  <2>1. UNCHANGED <<taskVars, applicationVars, main>>
    BY <1>2 DEF Listens, programVars
  <2>2. LoopHasBatch'
    BY <1>2 DEF Listens, ServerUpcall, OnDataAvailable, Take, HandleSend, HandlerReturns,
                LoopHasBatch
  <2>3. QED BY <1>0, <2>1, <2>2, EndKept
<1>3. CASE TaskWorks \/ TaskIsUsed \/ TaskStopped \/ QueryArrives
  <2>1. TaskEnds' /\ Joined'
    BY <1>3, TaskEndStep
  <2>2. UNCHANGED <<upcall, batch, program, thread>>
    BY <1>3 DEF TaskWorks, TaskIsUsed, TaskStopped, QueryArrives, serverVars, upcallVars,
                programVars, applicationVars
  <2>3. QED BY <1>0, <2>1, <2>2 DEF EndInv, LoopHasBatch, HasThread
<1>4. CASE ApplicationSteps \/ PeerSteps \/ Joins
  <2>1. Joined' /\ HasThread'
    BY <1>4, ThreadEndStep
  <2>2. UNCHANGED <<taskVars, serverVars>>
    BY <1>4 DEF ApplicationSteps, PeerSteps, Joins
  <2>3. TaskEnds' /\ LoopHasBatch'
    BY <2>2 DEF EndInv, TaskEnds, LoopHasBatch, taskVars, serverVars, upcallVars
  <2>4. QED BY <1>0, <2>1, <2>3 DEF EndInv
<1>5. CASE Destroys
  <2>1. /\ UNCHANGED <<serverVars, applicationVars>> /\ Joinable
        /\ IF kind = "none" THEN UNCHANGED taskVars ELSE Stop(TRUE)
    BY <1>5 DEF Destroys
  <2>2. LoopHasBatch' /\ HasThread' /\ Joinable'
    BY <2>1 DEF EndInv, LoopHasBatch, HasThread, Joinable, serverVars, upcallVars,
                applicationVars
  <2>3. /\ kind \in Kinds /\ (~async_handle => alive = 0)
    BY DEF IInv, OthersInv, TaskTypeOK, OneThread
  <2>4. CASE kind = "none"
    <3>1. UNCHANGED taskVars
      BY <2>1, <2>4
    <3>2. QED BY <1>0, <2>2, <2>4, <3>1 DEF EndInv, TaskEnds, Joined, taskVars
  <2>5. CASE kind # "none"
    <3>1. Stop(TRUE)
      BY <2>1, <2>5
    <3>2. /\ UNCHANGED <<kind, alive, busy, async_handle>> /\ task_cancelled' = TRUE
          /\ kind = "queue" => stop_signal' = TRUE
          /\ async_handle => stopping'
      BY <3>1 DEF Stop, SignalToStop, TaskStop
    <3>3. TaskEnds' /\ Joined'
      BY <2>2, <2>3, <2>5, <3>2 DEF EndInv, TaskEnds, Joined
    <3>4. QED BY <1>0, <2>2, <3>3 DEF EndInv
  <2>6. QED BY <2>4, <2>5
<1>6. CASE Ends
  <2>1. /\ UNCHANGED <<serverVars, taskVars, applicationVars>>
        /\ main = "destroying" /\ ~stopping
    BY <1>6 DEF Ends
  <2>2. QED BY <1>0, <2>1 DEF EndInv, TaskEnds, Joined, LoopHasBatch, HasThread, Joinable,
                              serverVars, upcallVars, taskVars, applicationVars
<1>7. CASE StartsAgain
  <2>1. /\ main' = "running" /\ upcall' = "quiet" /\ busy' = FALSE /\ stopping' = FALSE
        /\ kind' = kind /\ (kind = "none" => alive' = 0)
        /\ program' = program /\ thread' = (IF program = "none" THEN "none" ELSE "testing")
    BY <1>7 DEF StartsAgain, StartsAnew
  <2>2. QED BY <1>0, <2>1 DEF EndInv, TaskEnds, Joined, LoopHasBatch, HasThread
<1>8. QED BY <1>1, <1>2, <1>3, <1>4, <1>5, <1>6, <1>7 DEF Next, MainProceeds

LEMMA EndInvariant == Spec => []EndInv
BY InitEnd, EndStepInv, WholeInvariant, PTL DEF Spec

-----------------------------------------------------------------------------
\* The guards of the steps of the main thread, of the listeners' upcalls, of the timer
\* thread, of the thread of a task that is waited for and of the application thread.
MainCanStep ==
    \/ run \in {"starting", "testing", "blocking", "woken", "timers", "stopping"}
    \/ run = "disconnecting" /\ HasMutex /\ server_mutex = "free"
    \/ /\ run = "disconnecting" /\ UpcallEnded /\ request_upcall = "quiet"
       /\ HasMutex => server_mutex = "disconnect"
    \/ run = "joining" /\ timer_thread = "exited"
    \/ /\ main = "running" /\ run = "returned"
       /\ \/ program # "none" /\ ~cancelled_flag
          \/ Joinable /\ (kind # "none" => ~stopping)
    \/ main = "destroying" /\ ~stopping

UpcallCanStep ==
    \/ upcall \in {"taking", "handling"}
    \/ upcall = "looping" /\ \E c \in batch : \A d \in batch : ~Before(d, c)

RequestCanStep == request_upcall = "handling"
TimerCanStep == timer_thread \in {"looping", "testing"}

TaskCanStep == stopping /\ (ThreadReturned \/ busy \/ (kind = "queue" => stop_signal))

WaitsForPeer == thread = "waiting" /\ connected
ThreadCanStep ==
    \/ thread \in {"testing", "calling", "connecting", "subscribing"}
    \/ thread = "waiting" /\ ~connected

Deadlocked == JoinerForgotten \/ DisconnectCaught \/ ClientCaught

\* The main thread has a step to take, or waits for a notification, for the upcall in
\* progress, for the timer thread, for the application thread that it has told to leave,
\* or for a task that it has told to stop; those have a step to take, except a client that
\* waits for its peer, or it is one of the deadlocks.
NotStuck ==
    \/ main = "ended"
    \/ MainCanStep
    \/ run = "waiting"
    \/ run = "disconnecting" /\ (UpcallCanStep \/ RequestCanStep)
    \/ run = "joining" /\ TimerCanStep
    \/ run = "returned" /\ cancelled_flag /\ (ThreadCanStep \/ WaitsForPeer)
    \/ run = "returned" /\ TaskCanStep
    \/ Deadlocked

\* The command of the batch whose turn it is.
LEMMA FirstCommand ==
    ASSUME batch \subseteq Commands, batch # {}
    PROVE  \E c \in batch : \A d \in batch : ~Before(d, c)
<1> DEFINE T == {c.number : c \in batch}
           R == OpToRel(<, Nat)
<1>1. IsWellFoundedOn(R, Nat)
  BY NatLessThanWellFounded
<1>2. \A i, j \in Nat : <<j, i>> \in R <=> j < i
  BY DEF OpToRel
<1>3. T \subseteq Nat /\ T # {}
  BY SendBounds DEF Commands
<1> HIDE DEF R
<1>4. PICK i \in T : \A j \in T : ~(<<j, i>> \in R)
  <2> HIDE DEF T
  <2>1. QED BY <1>1, <1>3, WFMin
<1>5. PICK c \in batch : c.number = i
  BY <1>4
<1>6. ASSUME NEW d \in batch PROVE ~Before(d, c)
  <2>1. d.number \in T /\ d.number \in Nat /\ i \in Nat
    BY <1>3, <1>4
  <2>2. ~(d.number < i)
    BY <1>2, <1>4, <2>1
  <2>3. QED BY <1>5, <2>2 DEF Before
<1>7. QED BY <1>6

\* A shutdown that stands still stands in one of three deadlocks: the join of a timer
\* thread that missed its notification, the disconnect of a query or event server that has
\* the mutex its upcall waits for, an event client that waits for its upcall. Otherwise the
\* thread that run() or the destructors wait for has a step to take, or is a client that
\* waits for its peer.
THEOREM ShutdownNotStuck == Spec => []NotStuck
<1>1. IInv /\ EndInv => NotStuck
  <2> SUFFICES ASSUME IInv, EndInv, main # "ended" PROVE NotStuck
    BY DEF NotStuck
  <2>0. /\ run \in RunStates /\ main \in {"running", "destroying", "caught", "ended"}
        /\ kind \in Kinds /\ program \in Programs \cup {"none"} /\ thread \in Places
        /\ upcall \in {"quiet", "taking", "looping", "handling"} /\ batch \subseteq Commands
        /\ timer_thread \in TimerPlaces /\ MutexTypeOK
    BY DEF IInv, ServerInv, OthersInv, ServerTypeOK, ComponentTypeOK, TaskTypeOK,
           ApplicationTypeOK
  <2>1. CASE run \notin {"disconnecting", "joining", "returned"}
    BY <2>0, <2>1 DEF NotStuck, MainCanStep, RunStates
  <2>2. CASE run = "disconnecting"
    <3>1. upcall = "looping" => UpcallCanStep
      BY <2>0, FirstCommand DEF EndInv, LoopHasBatch, UpcallCanStep
    <3>2. CASE upcall # "quiet"
      BY <2>0, <2>2, <3>1, <3>2 DEF NotStuck, UpcallCanStep
    <3>3. CASE upcall = "quiet"
      <4>1. request_upcall # "quiet" => HasMutex
        BY DEF EndInv, MutexHeld
      <4>2. QED BY <2>0, <2>2, <3>3, <4>1
                DEF NotStuck, MainCanStep, UpcallEnded, RequestCanStep, MutexTypeOK, Deadlocked,
                    DisconnectCaught
    <3>4. QED BY <3>2, <3>3
  <2>3. CASE run = "joining"
    <3>1. timer_thread \in {"looping", "waiting", "testing", "exited"}
      BY <2>0, <2>3 DEF EndInv, TimerStarted, TimerPlaces
    <3>2. QED BY <2>3, <3>1
              DEF NotStuck, MainCanStep, TimerCanStep, Deadlocked, JoinerForgotten
  <2>4. CASE run = "returned" /\ main = "running"
    <3>1. CASE ~Joinable
      <4>1. program # "none" /\ (cancelled_flag => thread # "left") /\ thread # "none"
        BY <3>1 DEF Joinable, EndInv, HasThread
      <4>2. thread # "left" => ThreadCanStep \/ WaitsForPeer \/ Deadlocked
        BY <2>0, <4>1 DEF Places, ThreadCanStep, WaitsForPeer, Deadlocked, ClientCaught
      <4>3. QED BY <2>4, <4>1, <4>2 DEF NotStuck, MainCanStep
    <3>2. CASE Joinable /\ (kind # "none" => ~stopping)
      BY <2>4, <3>2 DEF NotStuck, MainCanStep
    <3>3. CASE kind # "none" /\ stopping
      BY <2>4, <3>3 DEF NotStuck, TaskCanStep, EndInv, TaskEnds
    <3>4. QED BY <3>1, <3>2, <3>3
  <2>5. CASE run = "returned" /\ main = "destroying"
    <3>1. CASE stopping
      BY <2>5, <3>1 DEF NotStuck, TaskCanStep, EndInv, TaskEnds
    <3>2. CASE ~stopping
      BY <2>0, <2>5, <3>2 DEF NotStuck, MainCanStep
    <3>3. QED BY <3>1, <3>2
  <2>6. CASE main = "caught"
    BY <2>6 DEF NotStuck, Deadlocked, ClientCaught
  <2>7. QED BY <2>0, <2>1, <2>2, <2>3, <2>4, <2>5, <2>6
<1>2. QED BY <1>1, WholeInvariant, EndInvariant, PTL

-----------------------------------------------------------------------------
\* The steps that are left to each of them at most. What the application thread, the timer
\* thread and a task do is counted from the step on that tells them to end.
MainLeft ==
    CASE run = "disconnecting" -> IF server_mutex = "free" THEN 8 ELSE 7
      [] run = "timers" -> 6
      [] run = "stopping" -> 5
      [] run = "joining" -> 4
      [] run = "returned" /\ main = "running" ->
            IF program # "none" /\ ~cancelled_flag THEN 3 ELSE 2
      [] main = "destroying" -> 1
      [] OTHER -> 0

UpcallLeft ==
    CASE upcall = "taking" -> 3
      [] upcall = "looping" -> 2
      [] upcall = "handling" -> 1
      [] OTHER -> 0

RequestLeft ==
    CASE request_upcall = "locking" -> 2
      [] request_upcall = "handling" -> 1
      [] OTHER -> 0

RoundLeft ==
    CASE timer_thread = "looping" -> 3
      [] timer_thread = "waiting" -> 2
      [] timer_thread = "testing" -> 1
      [] OTHER -> 0
TimerLeft == IF timer_running THEN 3 ELSE RoundLeft

PlaceLeft ==
    CASE thread = "calling" -> 5 + MaxRounds
      [] thread = "waiting" -> 4 + (MaxRounds - round)
      [] thread = "connecting" -> 3
      [] thread = "subscribing" -> 2
      [] thread = "testing" -> 1
      [] OTHER -> 0
ThreadLeft == IF cancelled_flag THEN PlaceLeft ELSE 5 + MaxRounds

StopLeft == IF stopping THEN 1 + (IF busy THEN 1 ELSE 0) + (IF alive > 0 THEN 2 ELSE 0) ELSE 0
TaskLeft == IF main = "running" THEN 4 ELSE StopLeft

Left == MainLeft + UpcallLeft + RequestLeft + TimerLeft + ThreadLeft + TaskLeft

Announced == run \in {"disconnecting"} \cup ServersGone /\ main # "ended"

\* The steps of the component's own threads that the shutdown is about.
OwnSteps ==
    \/ MainProceeds
    \/ Listens \/ HandlesRequest \/ QueryArrives
    \/ ~timer_running /\ TimerRuns
    \/ cancelled_flag /\ ApplicationSteps
    \/ main # "running" /\ (TaskWorks \/ TaskStopped)

LeftTypes ==
    /\ MainLeft \in 0 .. 8 /\ UpcallLeft \in 0 .. 3 /\ RequestLeft \in 0 .. 2
    /\ TimerLeft \in 0 .. 3 /\ TaskLeft \in 0 .. 4
    /\ ThreadLeft \in 0 .. 5 + MaxRounds

LEMMA LeftTyped ==
    ASSUME IInv, IInv'
    PROVE  LeftTypes /\ LeftTypes'
<1>1. MaxRounds \in Nat /\ round \in 0 .. MaxRounds /\ round' \in 0 .. MaxRounds
  BY RoundsAssumption DEF IInv, OthersInv, ApplicationTypeOK
<1>2. MainLeft \in 0 .. 8 /\ MainLeft' \in 0 .. 8
  BY DEF MainLeft
<1>3. UpcallLeft \in 0 .. 3 /\ UpcallLeft' \in 0 .. 3
  BY DEF UpcallLeft
<1>4. RequestLeft \in 0 .. 2 /\ RequestLeft' \in 0 .. 2
  BY DEF RequestLeft
<1>5. TimerLeft \in 0 .. 3 /\ TimerLeft' \in 0 .. 3
  BY DEF TimerLeft, RoundLeft
<1>6. TaskLeft \in 0 .. 4 /\ TaskLeft' \in 0 .. 4
  BY DEF TaskLeft, StopLeft
<1>7. PlaceLeft \in 0 .. 5 + MaxRounds /\ PlaceLeft' \in 0 .. 5 + MaxRounds
  BY <1>1 DEF PlaceLeft
<1>8. ThreadLeft \in 0 .. 5 + MaxRounds /\ ThreadLeft' \in 0 .. 5 + MaxRounds
  BY <1>1, <1>7 DEF ThreadLeft
<1>9. QED BY <1>2, <1>3, <1>4, <1>5, <1>6, <1>8 DEF LeftTypes

\* What each of the numbers depends on.
LEMMA LeftKept ==
    /\ run' = run /\ UNCHANGED <<mutexVars, programVars>> => MainLeft' = MainLeft
    /\ UNCHANGED upcallVars => UpcallLeft' = UpcallLeft
    /\ UNCHANGED mutexVars => RequestLeft' = RequestLeft
    /\ UNCHANGED timerVars => TimerLeft' = TimerLeft
    /\ UNCHANGED applicationVars => ThreadLeft' = ThreadLeft
    /\ main' = main /\ UNCHANGED taskVars => TaskLeft' = TaskLeft
<1>1. ASSUME run' = run, UNCHANGED <<mutexVars, programVars>> PROVE MainLeft' = MainLeft
  BY <1>1 DEF MainLeft, mutexVars, programVars, applicationVars
<1>2. ASSUME UNCHANGED upcallVars PROVE UpcallLeft' = UpcallLeft
  BY <1>2 DEF UpcallLeft, upcallVars
<1>3. ASSUME UNCHANGED mutexVars PROVE RequestLeft' = RequestLeft
  BY <1>3 DEF RequestLeft, mutexVars
<1>4. ASSUME UNCHANGED timerVars PROVE TimerLeft' = TimerLeft
  BY <1>4 DEF TimerLeft, RoundLeft, timerVars
<1>5. ASSUME UNCHANGED applicationVars PROVE ThreadLeft' = ThreadLeft
  BY <1>5 DEF ThreadLeft, PlaceLeft, applicationVars
<1>6. ASSUME main' = main, UNCHANGED taskVars PROVE TaskLeft' = TaskLeft
  BY <1>6 DEF TaskLeft, StopLeft, taskVars
<1>7. QED BY <1>1, <1>2, <1>3, <1>4, <1>5, <1>6

NotMore(now, before) == now = before \/ now < before

\* One of the numbers gets smaller, the other does not get greater.
LEMMA SmallerSum ==
    \A a, b, p, q \in Nat :
        NotMore(p, a) /\ NotMore(q, b) =>
            /\ a + b \in Nat /\ p + q \in Nat /\ NotMore(p + q, a + b)
            /\ p < a \/ q < b => p + q < a + b
BY DEF NotMore

LEMMA Fewer ==
    ASSUME IInv, IInv',
           NotMore(MainLeft', MainLeft), NotMore(UpcallLeft', UpcallLeft),
           NotMore(RequestLeft', RequestLeft), NotMore(TimerLeft', TimerLeft),
           NotMore(ThreadLeft', ThreadLeft), NotMore(TaskLeft', TaskLeft)
    PROVE  /\ Left' <= Left
           /\ \/ MainLeft' < MainLeft \/ UpcallLeft' < UpcallLeft
              \/ RequestLeft' < RequestLeft \/ TimerLeft' < TimerLeft
              \/ ThreadLeft' < ThreadLeft \/ TaskLeft' < TaskLeft
              => Left' < Left
<1>1. MaxRounds \in Nat
  BY RoundsAssumption
<1>2. /\ MainLeft \in Nat /\ UpcallLeft \in Nat /\ RequestLeft \in Nat
      /\ TimerLeft \in Nat /\ ThreadLeft \in Nat /\ TaskLeft \in Nat
      /\ MainLeft' \in Nat /\ UpcallLeft' \in Nat /\ RequestLeft' \in Nat
      /\ TimerLeft' \in Nat /\ ThreadLeft' \in Nat /\ TaskLeft' \in Nat
  BY <1>1, LeftTyped DEF LeftTypes
<1> DEFINE Two == MainLeft + UpcallLeft
           Three == Two + RequestLeft
           Four == Three + TimerLeft
           Five == Four + ThreadLeft
           Six == Five + TaskLeft
<1>3. /\ Two \in Nat /\ Two' \in Nat /\ NotMore(Two', Two)
      /\ MainLeft' < MainLeft \/ UpcallLeft' < UpcallLeft => Two' < Two
  BY <1>2, SmallerSum
<1> HIDE DEF Two
<1>4. /\ Three \in Nat /\ Three' \in Nat /\ NotMore(Three', Three)
      /\ Two' < Two \/ RequestLeft' < RequestLeft => Three' < Three
  BY <1>2, <1>3, SmallerSum
<1> HIDE DEF Three
<1>5. /\ Four \in Nat /\ Four' \in Nat /\ NotMore(Four', Four)
      /\ Three' < Three \/ TimerLeft' < TimerLeft => Four' < Four
  BY <1>2, <1>4, SmallerSum
<1> HIDE DEF Four
<1>6. /\ Five \in Nat /\ Five' \in Nat /\ NotMore(Five', Five)
      /\ Four' < Four \/ ThreadLeft' < ThreadLeft => Five' < Five
  BY <1>2, <1>5, SmallerSum
<1> HIDE DEF Five
<1>7. /\ Six \in Nat /\ Six' \in Nat /\ NotMore(Six', Six)
      /\ Five' < Five \/ TaskLeft' < TaskLeft => Six' < Six
  BY <1>2, <1>6, SmallerSum
<1> HIDE DEF Six
<1>8. Left = Six /\ Left' = Six'
  BY DEF Left, Two, Three, Four, Five, Six
<1>9. Six' <= Six
  BY <1>7 DEF NotMore
<1>10. QED BY <1>3, <1>4, <1>5, <1>6, <1>7, <1>8, <1>9

\* The main thread.
LEMMA MainGetsOn ==
    ASSUME IInv, IInv', EndInv, Announced, MainProceeds
    PROVE  Left' < Left
<1>0. /\ main # "running" => run = "returned"
      /\ server_mutex \in {"free", "disconnect"} /\ MaxRounds \in Nat
      /\ LeftTypes /\ LeftTypes'
  BY RoundsAssumption, LeftTyped DEF IInv, OthersInv, EndInv, Ending, MutexTypeOK
<1>1. CASE Runs \/ LocksServer \/ Disconnects
  <2>1. /\ \/ run = "disconnecting" /\ run' = "timers"
           \/ /\ run = "disconnecting" /\ server_mutex = "free"
              /\ run' = "disconnecting" /\ server_mutex' = "disconnect"
           \/ run = "timers" /\ run' = "stopping"
           \/ run = "stopping" /\ run' = "joining"
           \/ run = "joining" /\ run' = "returned"
        /\ UNCHANGED <<taskVars, programVars>>
    BY <1>1 DEF Runs, StartTimerThread, TestCancelled, BlockOnCondition, DeleteAllTimers,
                StopTimerThread, JoinTimerThread, RunGoes, RunMoves, LocksServer,
                LockForDisconnect, componentVars, Disconnects, ServersDisconnected, Announced,
                ServersGone
  <2>2. /\ UNCHANGED upcallVars /\ request_upcall' = request_upcall
        /\ \/ UNCHANGED timerVars
           \/ timer_thread' = TimerNotified /\ (timer_running' => timer_running)
    BY <1>1, <2>1
       DEF Runs, StartTimerThread, TestCancelled, BlockOnCondition, DeleteAllTimers,
           StopTimerThread, JoinTimerThread, RunGoes, RunMoves, LocksServer,
           LockForDisconnect, componentVars, Disconnects, ServersDisconnected,
           ServerDisconnects, DetachesQuietly, serverVars, mutexVars
  <2>3. main' = main /\ main = "running" /\ UNCHANGED applicationVars
    BY <1>0, <2>1 DEF programVars
  <2>4. MainLeft' < MainLeft
    BY <1>0, <2>1, <2>3 DEF MainLeft
  <2>5. UpcallLeft' = UpcallLeft /\ ThreadLeft' = ThreadLeft /\ TaskLeft' = TaskLeft
    BY <2>1, <2>2, <2>3, LeftKept
  <2>6. RequestLeft' = RequestLeft
    BY <2>2 DEF RequestLeft
  <2>7. TimerLeft' = TimerLeft \/ TimerLeft' < TimerLeft
    <3>1. CASE UNCHANGED timerVars
      BY <3>1, LeftKept
    <3>2. CASE timer_thread' = TimerNotified /\ (timer_running' => timer_running)
      <4>1. RoundLeft \in 0 .. 3 /\ (RoundLeft' = RoundLeft \/ RoundLeft' < RoundLeft)
        BY <3>2 DEF TimerNotified, RoundLeft
      <4>2. RoundLeft' \in 0 .. 3
        BY DEF RoundLeft
      <4>3. QED BY <3>2, <4>1, <4>2 DEF TimerLeft
    <3>3. QED BY <2>2, <3>1, <3>2
  <2>8. QED BY <2>4, <2>5, <2>6, <2>7, Fewer DEF NotMore
<1>2. ~Announces
  BY DEF Announces, NotifyShutdown, RunGoes, RunMoves, Announced, ServersGone
<1>3. CASE Joins
  <2>1. /\ UNCHANGED <<serverVars, mutexVars, componentVars, taskVars, main>>
        /\ main = "running" /\ ~cancelled_flag /\ cancelled_flag' = TRUE
        /\ run = "returned" /\ program # "none"
    BY <1>3 DEF Joins, SetsFlag
  <2>2. MainLeft' < MainLeft
    BY <2>1 DEF MainLeft, componentVars
  <2>3. /\ UpcallLeft' = UpcallLeft /\ RequestLeft' = RequestLeft
        /\ TimerLeft' = TimerLeft /\ TaskLeft' = TaskLeft
    BY <2>1, LeftKept DEF serverVars, componentVars
  <2>4. ThreadLeft' = ThreadLeft \/ ThreadLeft' < ThreadLeft
    <3>1. ThreadLeft' \in 0 .. 5 + MaxRounds
      BY <1>0 DEF LeftTypes
    <3>2. ThreadLeft = 5 + MaxRounds
      BY <2>1 DEF ThreadLeft
    <3>3. QED BY <1>0, <3>1, <3>2
  <2>5. QED BY <2>2, <2>3, <2>4, Fewer DEF NotMore
<1>4. CASE Destroys
  <2>1. /\ UNCHANGED <<serverVars, mutexVars, componentVars, applicationVars>>
        /\ main = "running" /\ main' \in {"destroying", "caught"}
        /\ run = "returned" /\ Joinable
    BY <1>4 DEF Destroys
  <2>2. MainLeft' < MainLeft
    BY <2>1 DEF MainLeft, componentVars, Joinable
  <2>3. /\ UpcallLeft' = UpcallLeft /\ RequestLeft' = RequestLeft
        /\ TimerLeft' = TimerLeft /\ ThreadLeft' = ThreadLeft
    BY <2>1, LeftKept DEF serverVars, componentVars
  <2>4. TaskLeft' = TaskLeft \/ TaskLeft' < TaskLeft
    <3>1. TaskLeft' \in 0 .. 4 /\ TaskLeft = 4
      BY <1>0, <2>1 DEF LeftTypes, TaskLeft
    <3>2. QED BY <3>1
  <2>5. QED BY <2>2, <2>3, <2>4, Fewer DEF NotMore
<1>5. CASE Ends
  <2>1. /\ UNCHANGED <<serverVars, mutexVars, componentVars, taskVars, applicationVars>>
        /\ main = "destroying" /\ main' = "ended" /\ run = "returned"
    BY <1>0, <1>5 DEF Ends
  <2>2. MainLeft' < MainLeft
    BY <2>1 DEF MainLeft, componentVars
  <2>3. /\ UpcallLeft' = UpcallLeft /\ RequestLeft' = RequestLeft
        /\ TimerLeft' = TimerLeft /\ ThreadLeft' = ThreadLeft
    BY <2>1, LeftKept DEF serverVars, componentVars
  <2>4. TaskLeft' = TaskLeft
    BY <2>1 DEF TaskLeft, StopLeft, taskVars
  <2>5. QED BY <2>2, <2>3, <2>4, Fewer DEF NotMore
<1>6. QED BY <1>1, <1>2, <1>3, <1>4, <1>5 DEF MainProceeds

\* The upcall of a send server in progress: the loop ends with the command at hand.
LEMMA UpcallGetsOn ==
    ASSUME IInv, IInv', EndInv, Announced, Listens
    PROVE  Left' < Left
<1>0. /\ UNCHANGED <<mutexVars, componentVars, taskVars, programVars>>
      /\ is_shutting_down
  BY DEF Listens, IInv, ServerInv, Quiet, Announced
<1>1. \/ upcall = "taking" /\ upcall' \in {"quiet", "looping"}
      \/ upcall = "looping" /\ upcall' = "handling"
      \/ upcall = "handling" /\ upcall' = "quiet"
  BY <1>0 DEF Listens, ServerUpcall, OnDataAvailable, Take, HandleSend, HandlerReturns, LoopStops
<1>2. UpcallLeft' < UpcallLeft
  BY <1>1 DEF UpcallLeft
<1>3. /\ MainLeft' = MainLeft /\ RequestLeft' = RequestLeft /\ TimerLeft' = TimerLeft
      /\ ThreadLeft' = ThreadLeft /\ TaskLeft' = TaskLeft
  BY <1>0, LeftKept DEF componentVars, programVars
<1>4. QED BY <1>2, <1>3, Fewer DEF NotMore

\* The upcall of a query or event server: none begins, and it takes the mutex once more at
\* most.
LEMMA RequestGetsOn ==
    ASSUME IInv, IInv', EndInv, Announced, RequestArrives \/ HandlesRequest \/ QueryArrives
    PROVE  Left' < Left
<1>0. /\ UNCHANGED <<serverVars, componentVars, programVars>>
      /\ server_mutex' = server_mutex /\ is_shutting_down
  BY DEF RequestArrives, UpcallBegins, HandlesRequest, RequestHandled, UpcallLocks,
         QueryArrives, HandlerGoesOn, IInv, ServerInv, Quiet, Announced
<1>1. \/ request_upcall = "locking" /\ request_upcall' \in {"quiet", "handling"}
      \/ request_upcall = "handling" /\ request_upcall' = "quiet"
  BY <1>0 DEF RequestArrives, UpcallBegins, HandlesRequest, RequestHandled, UpcallLocks,
              QueryArrives, HandlerGoesOn
<1>2. RequestLeft' < RequestLeft
  BY <1>1 DEF RequestLeft
<1>3. MainLeft' = MainLeft
  BY <1>0 DEF MainLeft, componentVars, programVars, applicationVars
<1>4. UpcallLeft' = UpcallLeft /\ TimerLeft' = TimerLeft /\ ThreadLeft' = ThreadLeft
  BY <1>0, LeftKept DEF serverVars, componentVars, programVars
<1>5. TaskLeft' = TaskLeft
  BY <1>0 DEF RequestArrives, HandlesRequest, QueryArrives, Enqueue, TaskLeft, StopLeft,
              taskVars, programVars
<1>6. QED BY <1>2, <1>3, <1>4, <1>5, Fewer DEF NotMore

\* The timer thread: once running is reset it only goes on to the next test of it.
LEMMA TimerGetsOn ==
    ASSUME IInv, IInv', TimerLoops \/ TimerWakes,
           UNCHANGED <<serverVars, mutexVars, taskVars, programVars>>
    PROVE  Left' <= Left /\ (~timer_running => Left' < Left)
<1>1. /\ run' = run /\ timer_running' = timer_running
      /\ \/ timer_thread = "looping" /\ timer_thread' \in {"waiting", "testing"}
         \/ timer_thread = "waiting" /\ timer_thread' = "testing"
         \/ timer_thread = "testing" /\ (~timer_running => timer_thread' = "exited")
  BY DEF TimerLoops, TimerWakes, TimerMoves
<1>2. /\ MainLeft' = MainLeft /\ UpcallLeft' = UpcallLeft /\ RequestLeft' = RequestLeft
      /\ ThreadLeft' = ThreadLeft /\ TaskLeft' = TaskLeft
  BY <1>1, LeftKept DEF serverVars, programVars
<1>3. CASE timer_running
  <2>1. TimerLeft' = TimerLeft
    BY <1>1, <1>3 DEF TimerLeft
  <2>2. QED BY <1>2, <1>3, <2>1, Fewer DEF NotMore
<1>4. CASE ~timer_running
  <2>1. TimerLeft' < TimerLeft
    BY <1>1, <1>4 DEF TimerLeft, RoundLeft
  <2>2. QED BY <1>2, <1>4, <2>1, Fewer DEF NotMore
<1>5. QED BY <1>3, <1>4

\* The application thread: once the flag is set it only goes on to the next test of it.
LEMMA ThreadGetsOn ==
    ASSUME IInv, EndInv, cancelled_flag,
           ThreadSteps \/ WaitFulfilled \/ \E ok \in BOOLEAN : Publishes(ok)
    PROVE  PlaceLeft' < PlaceLeft
<1>0. /\ MaxRounds \in Nat \ {0} /\ round \in 0 .. MaxRounds
      /\ thread = "waiting" => program \in {"querier", "subscriber", "observer"}
  BY RoundsAssumption DEF IInv, OthersInv, ApplicationTypeOK, EndInv, HasThread
<1>1. CASE TestsFlag
  BY <1>0, <1>1 DEF TestsFlag, Moves, GoesOn, PlaceLeft
<1>2. CASE Sends \/ \E ok \in BOOLEAN : Publishes(ok)
  <2>1. thread = "calling" /\ thread' \in {"testing", "connecting"}
    BY <1>2 DEF Sends, Publishes, Moves
  <2>2. QED BY <1>0, <2>1 DEF PlaceLeft
<1>3. CASE Asks \/ Activates
  <2>1. thread = "calling" /\ thread' \in {"waiting", "connecting"}
    BY <1>3 DEF Asks, Activates, Moves
  <2>2. round' = round \/ round' = 0
    BY <1>3 DEF Asks, Activates, Keeps
  <2>3. QED BY <1>0, <2>1, <2>2 DEF PlaceLeft
<1>4. ASSUME NEW ok \in BOOLEAN, WaitReturns(ok)
      PROVE  PlaceLeft' < PlaceLeft
  <2>1. /\ thread = "waiting" /\ thread' = Waited(ok)
        /\ round' = IF program = "observer" THEN round + 1 ELSE round
    BY <1>4 DEF WaitReturns, Moves
  <2>2. CASE program = "observer"
    <3>1. \/ thread' = "waiting" /\ round + 1 < MaxRounds
          \/ thread' = "testing"
      BY <2>1, <2>2 DEF Waited
    <3>2. QED BY <1>0, <2>1, <2>2, <3>1 DEF PlaceLeft
  <2>3. CASE program # "observer"
    <3>1. thread' \in {"testing", "connecting"}
      BY <1>0, <2>1, <2>3 DEF Waited
    <3>2. QED BY <1>0, <2>1, <3>1 DEF PlaceLeft
  <2>4. QED BY <2>2, <2>3
<1>5. CASE Connects \/ ConnectIsCaught \/ Subscribes
  <2>1. \/ thread = "connecting" /\ thread' \in {"testing", "subscribing", "caught"}
        \/ thread = "subscribing" /\ thread' = "testing"
    BY <1>5 DEF Connects, ConnectIsCaught, Subscribes, Moves
  <2>2. QED BY <2>1 DEF PlaceLeft
<1>6. QED BY <1>1, <1>2, <1>3, <1>4, <1>5 DEF ThreadSteps, WaitAborted, WaitFulfilled

\* The application thread and its peers, before and after the flag is set.
LEMMA ProgramGetsOn ==
    ASSUME IInv, IInv', EndInv, ApplicationSteps \/ PeerSteps
    PROVE  Left' <= Left /\ (cancelled_flag /\ ApplicationSteps => Left' < Left)
<1>1. UNCHANGED <<serverVars, mutexVars, componentVars, taskVars, main>>
  BY DEF ApplicationSteps, PeerSteps
<1>2. program' = program /\ cancelled_flag' = cancelled_flag
  <2>1. \/ TestsFlag \/ Sends \/ Asks \/ Activates \/ Connects \/ ConnectIsCaught
        \/ Subscribes \/ PeerChanges
        \/ \E ok \in BOOLEAN : WaitReturns(ok) \/ Publishes(ok)
    BY DEF ApplicationSteps, PeerSteps, ThreadSteps, WaitAborted, WaitFulfilled
  <2>2. CASE TestsFlag \/ Sends \/ Asks \/ Subscribes \/ ConnectIsCaught
    BY <2>2 DEF TestsFlag, Sends, Asks, Subscribes, ConnectIsCaught, Keeps
  <2>3. CASE Activates \/ Connects \/ PeerChanges
    BY <2>3 DEF Activates, Connects, PeerChanges
  <2>4. ASSUME NEW ok \in BOOLEAN, WaitReturns(ok) \/ Publishes(ok)
        PROVE  program' = program /\ cancelled_flag' = cancelled_flag
    BY <2>4 DEF WaitReturns, Publishes
  <2>5. QED BY <2>1, <2>2, <2>3, <2>4
<1>3. MainLeft' = MainLeft
  BY <1>1, <1>2 DEF MainLeft, componentVars, mutexVars
<1>4. /\ UpcallLeft' = UpcallLeft /\ RequestLeft' = RequestLeft
      /\ TimerLeft' = TimerLeft /\ TaskLeft' = TaskLeft
  BY <1>1, LeftKept DEF serverVars, componentVars
<1>5. CASE ~cancelled_flag
  <2>1. ThreadLeft' = ThreadLeft
    BY <1>2, <1>5 DEF ThreadLeft
  <2>2. QED BY <1>3, <1>4, <1>5, <2>1, Fewer DEF NotMore
<1>6. CASE cancelled_flag /\ (ApplicationSteps \/ WaitFulfilled)
  <2>1. (server_up /\ ~is_shutting_down) \in BOOLEAN
    OBVIOUS
  <2>2. PlaceLeft' < PlaceLeft
    BY <1>6, <2>1, ThreadGetsOn DEF ApplicationSteps
  <2>3. ThreadLeft' < ThreadLeft
    BY <1>2, <1>6, <2>2 DEF ThreadLeft
  <2>4. QED BY <1>3, <1>4, <2>3, Fewer DEF NotMore
<1>7. CASE cancelled_flag /\ PeerChanges /\ ~ApplicationSteps
  <2>1. ThreadLeft' = ThreadLeft
    BY <1>2, <1>7 DEF PeerChanges, ThreadLeft, PlaceLeft
  <2>2. QED BY <1>3, <1>4, <1>7, <2>1, Fewer DEF NotMore
<1>8. QED BY <1>5, <1>6, <1>7 DEF PeerSteps

\* The task: once it is told to stop it begins nothing new.
LEMMA TaskGetsOn ==
    ASSUME IInv, IInv', EndInv, TaskWorks \/ TaskIsUsed \/ TaskStopped
    PROVE  /\ Left' <= Left
           /\ main # "running" /\ (TaskWorks \/ TaskStopped) => Left' < Left
<1>0. /\ UNCHANGED <<serverVars, mutexVars, componentVars, programVars>>
      /\ alive \in Nat /\ alive <= 1
  <2>1. alive \in Nat /\ alive <= 1
    BY TaskBounds DEF IInv, OthersInv, TaskTypeOK, OneThread
  <2>2. QED BY <2>1 DEF TaskWorks, TaskIsUsed, TaskStopped
<1>1. /\ MainLeft' = MainLeft /\ UpcallLeft' = UpcallLeft /\ RequestLeft' = RequestLeft
      /\ TimerLeft' = TimerLeft /\ ThreadLeft' = ThreadLeft
  BY <1>0, LeftKept DEF serverVars, componentVars, programVars
<1>2. main' = main
  BY <1>0 DEF programVars
<1>3. CASE main = "running"
  <2>1. TaskLeft' = TaskLeft
    BY <1>2, <1>3 DEF TaskLeft
  <2>2. QED BY <1>1, <1>3, <2>1, Fewer DEF NotMore
<1>4. CASE main # "running" /\ (TaskWorks \/ TaskStopped)
  <2>0. /\ busy => alive > 0
        /\ stopping => task_cancelled /\ (kind = "queue" => stop_signal)
        /\ ~stopping => alive = 0
    BY <1>4 DEF EndInv, TaskEnds, Joined
  <2>1. StopLeft' < StopLeft
    <3>1. ~Works
      BY <1>0, <2>0 DEF Works
    <3>2. CASE HasWorked
      <4>1. stopping /\ busy /\ ~busy' /\ stopping' = stopping /\ alive' = alive
        BY <1>0, <2>0, <3>2 DEF HasWorked
      <4>2. QED BY <1>0, <4>1 DEF StopLeft
    <3>3. CASE Returns
      <4>1. /\ stopping /\ ~busy /\ ~busy' /\ stopping' = stopping /\ alive > 0
            /\ ~(alive' > 0)
        BY <1>0, <2>0, <3>3 DEF Returns
      <4>2. QED BY <1>0, <4>1 DEF StopLeft
    <3>4. CASE Stopped
      <4>1. stopping /\ ~stopping' /\ ~(alive > 0)
        BY <1>0, <3>4 DEF Stopped, ThreadReturned
      <4>2. ~busy
        BY <2>0, <4>1
      <4>3. QED BY <4>1, <4>2 DEF StopLeft
    <3>5. QED BY <1>4, <3>1, <3>2, <3>3, <3>4 DEF TaskWorks, TaskStopped
  <2>2. TaskLeft' < TaskLeft
    BY <1>2, <1>4, <2>1 DEF TaskLeft
  <2>3. QED BY <1>1, <2>2, Fewer DEF NotMore
<1>5. CASE main # "running" /\ TaskIsUsed
  BY <1>5 DEF TaskIsUsed
<1>6. QED BY <1>3, <1>4, <1>5

\* The steps that are not of these threads take nothing of the shutdown back.
LEMMA OthersKeepLeft ==
    ASSUME IInv, IInv', Announced,
           \/ \E u \in Users : UserCalls(u) \/ Proceeds(u)
           \/ Discovers \/ Reports \/ AsksForShutdown \/ Notifies \/ WakesForNothing
           \/ UNCHANGED vars
    PROVE  Left' <= Left
<1>1. CASE WakesForNothing /\ TimerWakes
  <2>1. UNCHANGED <<serverVars, mutexVars, taskVars, programVars>>
    BY <1>1 DEF WakesForNothing
  <2>2. QED BY <1>1, <2>1, TimerGetsOn
<1>2. CASE ~(WakesForNothing /\ TimerWakes)
  <2>1. UNCHANGED <<upcallVars, mutexVars, taskVars, programVars>>
    BY DEF UserCalls, Proceeds, Discovers, Reports, Quietly, serverSide, vars, serverVars,
           AsksForShutdown, Notifies, WakesForNothing
  <2>2. run' = run /\ UNCHANGED timerVars
    BY <1>2 DEF UserCalls, Proceeds, Discovers, Reports, Quietly, serverSide, vars,
                componentVars, AsksForShutdown, SignalShutdown, Notifies, NotifyAll,
                WakesTheWaiting, WakesForNothing, WakesSpuriously, RunGoes, RunMoves,
                Announced, ServersGone
  <2>3. /\ MainLeft' = MainLeft /\ UpcallLeft' = UpcallLeft /\ RequestLeft' = RequestLeft
        /\ TimerLeft' = TimerLeft /\ ThreadLeft' = ThreadLeft /\ TaskLeft' = TaskLeft
    BY <2>1, <2>2, LeftKept DEF programVars
  <2>4. QED BY <2>3, Fewer DEF NotMore
<1>3. QED BY <1>1, <1>2

LEMMA LeftIsNatural ==
    \A k \in Nat : \A a \in 0 .. 8, b \in 0 .. 3, c \in 0 .. 2, d \in 0 .. 3,
        e \in 0 .. 5 + k, f \in 0 .. 4 : a + b + c + d + e + f \in Nat
OBVIOUS

\* From its announcement on the shutdown of a component comes nearer to its end, or to one
\* of the deadlocks, with every step of the threads it waits for, and no step of a client,
\* a peer, or a thread that asks for the shutdown once more takes it further away.
THEOREM ShutdownGetsOn ==
    Spec => [][Announced => Left' <= Left /\ (OwnSteps => Left' < Left)]_vars
<1>1. ASSUME IInv, EndInv, [Next]_vars, Announced
      PROVE  Left' <= Left /\ (OwnSteps => Left' < Left)
  <2>0. IInv' /\ LeftTypes /\ LeftTypes' /\ MaxRounds \in Nat
    BY <1>1, StepIInv, LeftTyped, RoundsAssumption
  <2>1. ASSUME Left' < Left PROVE Left' <= Left
    <3>1. Left \in Nat /\ Left' \in Nat
      BY <2>0, LeftIsNatural DEF LeftTypes, Left
    <3>2. QED BY <2>1, <3>1
  <2>2. CASE TimerRuns
    <3>1. Left' <= Left /\ (~timer_running => Left' < Left)
      BY <1>1, <2>0, <2>2, TimerGetsOn DEF TimerRuns
    <3>2. QED BY <1>1, <2>0, <2>1, <2>2, <3>1, MainGetsOn, UpcallGetsOn, RequestGetsOn,
                 ProgramGetsOn, TaskGetsOn DEF OwnSteps
  <2>3. CASE OwnSteps /\ ~TimerRuns
    BY <1>1, <2>0, <2>1, <2>3, MainGetsOn, UpcallGetsOn, RequestGetsOn, ProgramGetsOn,
       TaskGetsOn DEF OwnSteps
  <2>4. CASE ~OwnSteps /\ ~TimerRuns
    <3>1. ~StartsAgain
      BY <1>1 DEF StartsAgain, Announced
    <3>2. QED BY <1>1, <2>0, <2>1, <2>4, <3>1, RequestGetsOn, ProgramGetsOn, TaskGetsOn,
                 OthersKeepLeft DEF Next, OwnSteps
  <2>5. QED BY <2>2, <2>3, <2>4
<1>2. QED BY <1>1, WholeInvariant, EndInvariant, PTL DEF Spec

-----------------------------------------------------------------------------
\* The deadlock of the disconnect: neither its thread nor the upcall gets on.
LEMMA CaughtStays ==
    ASSUME IInv, EndInv, [Next]_vars, DisconnectCaught
    PROVE  DisconnectCaught'
<1>0. /\ server_mutex = "disconnect" /\ request_upcall = "locking"
      /\ run = "disconnecting" /\ main = "running"
  BY DEF IInv, OthersInv, EndInv, Ending, MutexHeld, DisconnectCaught
<1>1. ~StartsAgain
  BY <1>0 DEF StartsAgain
<1>2. /\ ~RequestArrives /\ ~HandlesRequest /\ ~QueryArrives
      /\ ~LocksServer /\ ~Disconnects
  BY <1>0 DEF RequestArrives, UpcallBegins, HandlesRequest, RequestHandled, UpcallLocks,
              HandlerGoesOn, QueryArrives, LocksServer, LockForDisconnect, Disconnects,
              DetachesQuietly
<1>3. UNCHANGED mutexVars
  BY <1>1, <1>2 DEF Next, MainProceeds, UserCalls, Proceeds, Discovers, Reports, Quietly,
              serverSide, Listens, TaskWorks, TaskIsUsed, TaskStopped, ApplicationSteps,
              PeerSteps, AsksForShutdown, Notifies, WakesForNothing, TimerRuns, Runs,
              Announces, Joins, Destroys, Ends, vars
<1>4. QED BY <1>0, <1>3 DEF DisconnectCaught, mutexVars

\* The deadlock of an event client: nobody wakes its thread.
LEMMA ClientStaysCaught ==
    ASSUME IInv, EndInv, [Next]_vars, ClientCaught
    PROVE  ClientCaught'
<1>0. main # "ended"
  BY DEF EndInv, Joined, Joinable, HasThread, ClientCaught
<1>1. CASE Joins \/ ApplicationSteps \/ PeerSteps
  <2>1. main' = main /\ (thread = "caught" => thread' = "caught")
    BY <1>1 DEF Joins, SetsFlag, ApplicationSteps, PeerSteps, ThreadSteps, TestsFlag, Sends,
                Asks, Activates, WaitAborted, WaitFulfilled, WaitReturns, Connects,
                ConnectIsCaught, Subscribes, Publishes, PeerChanges, Moves
  <2>2. QED BY <2>1 DEF ClientCaught
<1>2. CASE Destroys \/ Ends \/ StartsAgain
  <2>1. thread' = thread /\ main # "caught"
    BY <1>0, <1>2 DEF Destroys, Ends, StartsAgain, applicationVars
  <2>2. QED BY <2>1 DEF ClientCaught
<1>3. CASE ~(Joins \/ ApplicationSteps \/ PeerSteps \/ Destroys \/ Ends \/ StartsAgain)
  <2>1. UNCHANGED programVars
    BY <1>3 DEF Next, MainProceeds, UserCalls, Proceeds, Discovers, Reports, Quietly,
                serverSide, Listens, TaskWorks, TaskIsUsed, TaskStopped, AsksForShutdown,
                Notifies, WakesForNothing, TimerRuns, Runs, Announces, RequestArrives,
                HandlesRequest, QueryArrives, LocksServer, Disconnects, vars
  <2>2. QED BY <2>1 DEF ClientCaught, programVars, applicationVars
<1>4. QED BY <1>1, <1>2, <1>3

\* The join of the timer thread: only a wake-up that nobody owes it ends the
\* wait.
LEMMA JoinerStaysForgotten ==
    ASSUME IInv, EndInv, [Next]_vars, JoinerForgotten, ~TimerWakes
    PROVE  JoinerForgotten'
<1> USE DEF RunGoes, RunMoves, TimerMoves
<1>0. run = "joining" /\ timer_thread = "waiting" /\ main = "running"
  BY DEF IInv, OthersInv, EndInv, Ending, JoinerForgotten
<1>1. ~StartsAgain
  BY <1>0 DEF StartsAgain
<1>2. ~Runs /\ ~Announces /\ ~Disconnects /\ ~TimerRuns /\ ~WakesForNothing
  BY <1>0 DEF Runs, StartTimerThread, TestCancelled, BlockOnCondition, DeleteAllTimers,
              StopTimerThread, JoinTimerThread, Announces, NotifyShutdown, Disconnects,
              ServersDisconnected, TimerRuns, TimerLoops, WakesForNothing, WakesSpuriously
<1>3. CASE AsksForShutdown \/ Notifies
  BY <1>0, <1>3 DEF AsksForShutdown, SignalShutdown, Notifies, NotifyAll, WakesTheWaiting,
                    timerVars, JoinerForgotten
<1>4. CASE ~(AsksForShutdown \/ Notifies)
  <2>1. UNCHANGED componentVars
    BY <1>1, <1>2, <1>4
       DEF Next, MainProceeds, UserCalls, Proceeds, Discovers, Reports, Quietly, serverSide,
           Listens, TaskWorks, TaskIsUsed, TaskStopped, ApplicationSteps, PeerSteps,
           RequestArrives, HandlesRequest, QueryArrives, LocksServer, Joins, Destroys, Ends,
           vars
  <2>2. QED BY <1>0, <2>1 DEF JoinerForgotten, componentVars, timerVars
<1>5. QED BY <1>3, <1>4

\* What ShutdownEnds exempts are deadlocks: no step of any thread, client, peer or listener
\* ends one, except that of the join, which a wake-up of the timer thread may end that nobody
\* owes it, and the application has not ended in any of them.
THEOREM DeadlocksLast ==
    Spec => [][/\ DisconnectCaught => DisconnectCaught'
               /\ ClientCaught => ClientCaught'
               /\ JoinerForgotten => JoinerForgotten' \/ TimerWakes
               /\ Deadlocked => main # "ended"]_vars
<1>1. ASSUME IInv, EndInv, [Next]_vars
      PROVE  /\ DisconnectCaught => DisconnectCaught'
             /\ ClientCaught => ClientCaught'
             /\ JoinerForgotten => JoinerForgotten' \/ TimerWakes
  BY <1>1, CaughtStays, ClientStaysCaught, JoinerStaysForgotten
<1>2. ASSUME IInv, EndInv PROVE Deadlocked => main # "ended"
  BY <1>2 DEF IInv, OthersInv, EndInv, Ending, MutexHeld, Joined, Joinable, HasThread,
              Deadlocked, DisconnectCaught, ClientCaught, JoinerForgotten
<1>3. QED BY <1>1, <1>2, WholeInvariant, EndInvariant, PTL DEF Spec

-----------------------------------------------------------------------------
\* run() tests the flag and blocks in two steps, and nobody who sets the flag and notifies
\* takes its mutex. A request is lost when run() waits and no one is left to notify it.
Lost == run = "waiting" /\ cancelled /\ \A s \in Signallers : signal[s] # "stored"

\* The signalling steps wake a run() that waits, or leave one who will.
LEMMA SignalsKeep ==
    ASSUME IInv, AsksForShutdown \/ Notifies
    PROVE  ~Lost'
<1>1. signal \in [Signallers -> {"quiet", "stored", "done"}]
  BY DEF IInv, ServerInv, ComponentTypeOK
<1>2. CASE AsksForShutdown
  BY <1>1, <1>2 DEF AsksForShutdown, SignalShutdown, Lost
<1>3. CASE Notifies
  BY <1>3 DEF Notifies, NotifyAll, WakesTheWaiting, Lost
<1> QED  BY <1>2, <1>3

\* The request to shut down is lost in one place only: when run() blocks after a test that
\* found no request. One that finds run() waiting never is, whatever the clients, the task
\* and the application do at that time, and however many requests overlap.
THEOREM LostOnlyInTheWindow ==
    Spec => [][~Lost /\ Lost' => run = "blocking"]_vars
<1>1. ASSUME IInv, [Next]_vars, ~Lost, Lost' PROVE run = "blocking"
  <2> USE DEF serverSide, componentVars
  <2>1. ~(AsksForShutdown \/ Notifies)
    BY <1>1, SignalsKeep
  <2>2. CASE UNCHANGED componentVars
    BY <1>1, <2>2 DEF Lost
  <2>3. CASE MainProceeds \/ WakesForNothing \/ TimerRuns
    <3>1. \/ UNCHANGED <<cancelled, run, signal>>
          \/ run' # "waiting"
          \/ run = "blocking"
      BY <2>3 DEF MainProceeds, Runs, Announces, LocksServer, Disconnects, Joins, Destroys,
                  Ends, WakesForNothing, TimerRuns, StartTimerThread, TestCancelled,
                  BlockOnCondition, DeleteAllTimers, StopTimerThread, JoinTimerThread,
                  NotifyShutdown, ServersDisconnected, WakesSpuriously, TimerWakes,
                  TimerLoops, TimerMoves, RunGoes, RunMoves
    <3> QED  BY <1>1, <3>1 DEF Lost
  <2>4. CASE StartsAgain
    BY <1>1, <2>4 DEF StartsAgain, Lost
  <2>5. CASE \/ \E u \in Users : UserCalls(u) \/ Proceeds(u)
             \/ Discovers \/ Reports \/ Listens
             \/ RequestArrives \/ HandlesRequest \/ QueryArrives
             \/ TaskWorks \/ TaskIsUsed \/ TaskStopped
             \/ ApplicationSteps \/ PeerSteps \/ UNCHANGED vars
    <3>1. UNCHANGED componentVars
      BY <2>5 DEF UserCalls, Proceeds, Quietly, Discovers, Reports, Listens, RequestArrives,
                  HandlesRequest, QueryArrives, TaskWorks, TaskIsUsed, TaskStopped,
                  ApplicationSteps, PeerSteps, vars
    <3> QED  BY <2>2, <3>1
  <2> QED  BY <1>1, <2>1, <2>3, <2>4, <2>5 DEF Next
<1> QED  BY <1>1, WholeInvariant, PTL DEF Spec
=============================================================================
