----------------------------- MODULE SendSystem -----------------------------
(***************************************************************************)
(* A send client, and the application of a component: its main thread runs *)
(* the component, which disconnects the server when it is asked to shut    *)
(* down, joins the application thread and destroys the objects; it may be  *)
(* started again. The application serves commands, serves queries with a   *)
(* task, or is one of the example programs with a thread of their own. Its *)
(* server is a send server, or has a mutex (MutexServer), or is a push     *)
(* server, of which server_up and is_shutting_down are all that is seen.   *)
(***************************************************************************)
EXTENDS SendClient, Component, MutexServer

CONSTANT MaxRestarts   \* bound on the times the server's component is started again
ASSUME RestartBound == MaxRestarts \in Nat

VARIABLES
    main,              \* the main thread: "running", "destroying", "caught" or "ended"
    restarts

programVars == <<main, restarts, applicationVars>>
serverSide == <<serverVars, mutexVars, componentVars, taskVars, programVars>>
vars == <<clientVars, topic, serverSide>>

Init ==
    /\ ClientInit /\ TopicInit /\ ServerInit /\ ComponentInit /\ TaskInit
    /\ ApplicationInit /\ MutexInit
    /\ program # "none" => kind = "none"
    /\ main = "running" /\ restarts = 0

\* The steps of the client, of the listener thread and of the task.
Quietly == UNCHANGED serverSide
UserCalls(u) ==
    /\ kind = "none" /\ program = "none"
    /\ Connect(u) \/ Disconnect(u) \/ Send(u)
    /\ Quietly
Proceeds(u) ==
    /\ \/ Disconnected(u) \/ OpenWriter(u) \/ WriterMatched(u) \/ Connected(u)
       \/ ConnectFails(u) \/ Write(u)
    /\ Quietly

Discovers == MatchChanges /\ Quietly
Reports == OnPublicationMatched /\ Quietly

Listens ==
    /\ ServerUpcall
    /\ UNCHANGED <<clientVars, mutexVars, componentVars, taskVars, programVars>>

TaskWorks ==
    /\ Works \/ HasWorked \/ Returns
    /\ UNCHANGED <<clientVars, topic, serverVars, mutexVars, componentVars, programVars>>

\* Another thread of the application restarts the task, or waits for it to stop.
TaskIsUsed ==
    /\ main = "running"
    /\ kind # "none"
    /\ Start \/ \E wait \in BOOLEAN : Stop(wait)
    /\ UNCHANGED <<clientVars, topic, serverVars, mutexVars, componentVars, programVars>>

TaskStopped ==
    /\ Stopped
    /\ UNCHANGED <<clientVars, topic, serverVars, mutexVars, componentVars, programVars>>

\* The listener of a query or event server. An active handler, the decorated one that
\* ThreadQueueQueryHandler documents, puts the query into its queue.
RequestArrives ==
    /\ UpcallBegins
    /\ UNCHANGED <<clientVars, topic, serverVars, componentVars, taskVars, programVars>>

HandlesRequest ==
    /\ RequestHandled
    /\ UNCHANGED <<clientVars, topic, serverVars, componentVars, taskVars, programVars>>

QueryArrives ==
    /\ HandlerGoesOn
    /\ Enqueue
    /\ UNCHANGED <<clientVars, topic, serverVars, componentVars, programVars>>

\* The application thread: put() fails once its server is told of the shutdown.
ApplicationSteps ==
    /\ ThreadSteps \/ Publishes(server_up /\ ~is_shutting_down)
    /\ UNCHANGED <<clientVars, topic, serverVars, mutexVars, componentVars, taskVars, main,
                   restarts>>

PeerSteps ==
    /\ WaitFulfilled \/ PeerChanges
    /\ UNCHANGED <<clientVars, topic, serverVars, mutexVars, componentVars, taskVars, main,
                   restarts>>

\* Somebody asks for the shutdown.
AsksForShutdown ==
    /\ \E s \in Signallers : SignalShutdown(s)
    /\ UNCHANGED <<clientVars, topic, serverVars, mutexVars, taskVars, programVars>>

Notifies ==
    /\ \E s \in Signallers : NotifyAll(s)
    /\ UNCHANGED <<clientVars, topic, serverVars, mutexVars, taskVars, programVars>>

WakesForNothing ==
    /\ WakesSpuriously \/ TimerWakes
    /\ UNCHANGED <<clientVars, topic, serverVars, mutexVars, taskVars, programVars>>

\* The timer thread of the component.
TimerRuns ==
    /\ TimerLoops
    /\ UNCHANGED <<clientVars, topic, serverVars, mutexVars, taskVars, programVars>>

-----------------------------------------------------------------------------
\* The main thread: run() of the component ...
Runs ==
    /\ \/ StartTimerThread \/ TestCancelled \/ BlockOnCondition
       \/ DeleteAllTimers \/ StopTimerThread \/ JoinTimerThread
    /\ UNCHANGED <<clientVars, topic, serverVars, mutexVars, taskVars, programVars>>

Announces ==
    /\ NotifyShutdown
    /\ AnnounceShutdown
    /\ UNCHANGED <<clientVars, mutexVars, taskVars, programVars>>

LocksServer ==
    /\ run = "disconnecting"
    /\ LockForDisconnect
    /\ UNCHANGED <<clientVars, topic, serverVars, componentVars, taskVars, programVars>>

Disconnects ==
    /\ ServersDisconnected
    /\ ServerDisconnects
    /\ DetachesQuietly
    /\ UNCHANGED <<clientVars, taskVars, programVars>>

\* ... then an application thread is told and joined, and the destructors run: the server
\* has no reader left, the task is stopped, and a client disconnects, an event client as
\* in connect().
Joins ==
    /\ main = "running"
    /\ run = "returned"
    /\ program # "none"
    /\ SetsFlag
    /\ UNCHANGED <<clientVars, topic, serverVars, mutexVars, componentVars, taskVars, main,
                   restarts>>

Destroys ==
    /\ main = "running"
    /\ run = "returned"
    /\ Joinable
    /\ IF kind = "none" THEN UNCHANGED taskVars ELSE Stop(TRUE)
    /\ \/ main' = "destroying"
       \/ CanBeCaught /\ main' = "caught"
    /\ UNCHANGED <<clientVars, topic, serverVars, mutexVars, componentVars, applicationVars,
                   restarts>>

Ends ==
    /\ main = "destroying"
    /\ ~stopping
    /\ main' = "ended"
    /\ UNCHANGED <<clientVars, topic, serverVars, mutexVars, componentVars, taskVars,
                   applicationVars, restarts>>

MainProceeds == Runs \/ Announces \/ LocksServer \/ Disconnects \/ Joins \/ Destroys \/ Ends

StartsAgain ==
    /\ main = "ended"
    /\ restarts < MaxRestarts
    /\ restarts' = restarts + 1
    /\ main' = "running"
    /\ server_up' = TRUE
    /\ is_shutting_down' = FALSE /\ upcall' = "quiet"
    /\ batch' = {} /\ handled' = {} /\ late' = 0
    /\ cancelled' = FALSE /\ run' = "starting"
    /\ signal' = [s \in Signallers |-> "quiet"]
    /\ timer_running' = FALSE /\ timer_thread' = "none"
    /\ server_mutex' = "free" /\ request_upcall' = "quiet"
    /\ async_handle' = (kind # "none") /\ task_cancelled' = FALSE /\ stop_signal' = FALSE
    /\ started' = (IF kind = "none" THEN 0 ELSE 1) /\ alive' = started'
    /\ queue' = 0 /\ busy' = FALSE /\ stopping' = FALSE
    /\ StartsAnew
    /\ UNCHANGED <<clientVars, commands, kind>>

Next ==
    \/ \E u \in Users : UserCalls(u) \/ Proceeds(u)
    \/ Discovers \/ Reports
    \/ Listens
    \/ RequestArrives \/ HandlesRequest \/ QueryArrives
    \/ TaskWorks \/ TaskIsUsed \/ TaskStopped
    \/ ApplicationSteps \/ PeerSteps
    \/ AsksForShutdown \/ Notifies \/ WakesForNothing \/ TimerRuns
    \/ MainProceeds \/ StartsAgain

\* The threads of the server's component get to run: its main thread, the listeners (the
\* user's handler returns), the timer thread (its handlers return), the task, the
\* application thread, and a thread that has begun to ask for a shutdown.
Spec == Init /\ [][Next]_vars
FairSpec ==
    /\ Spec
    /\ WF_vars(MainProceeds) /\ WF_vars(Listens) /\ WF_vars(HandlesRequest)
    /\ WF_vars(TimerRuns)
    /\ WF_vars(TaskWorks) /\ WF_vars(TaskStopped)
    /\ WF_vars(ApplicationSteps)
    /\ WF_vars(Notifies)

-----------------------------------------------------------------------------
TypeOK ==
    /\ ClientTypeOK /\ TopicTypeOK /\ ServerTypeOK /\ ComponentTypeOK /\ TaskTypeOK
    /\ ApplicationTypeOK /\ MutexTypeOK
    /\ main \in {"running", "destroying", "caught", "ended"}
    /\ restarts \in 0 .. MaxRestarts

\* An event client whose connect() or destructor waits for an upcall that waits for it.
ClientCaught == thread = "caught" \/ main = "caught"

\* Once a thread that asks for the shutdown is about to notify a main thread that waits,
\* the application ends, or stands in one of three deadlocks: the join of a timer thread
\* that missed its notification, the disconnect of a query or event server whose upcall
\* waits for server_mutex, an event client caught by its upcall. Nothing else keeps it: the
\* listener finishes its command, the task its work, the timer thread its round, the
\* application thread its loop, but for a call of a client that waits for its peer, and
\* that one ends when the peer has gone.
ShutdownEnds ==
    <>[]~connected \/ []<>(thread # "waiting") =>
        (run = "waiting" /\ \E s \in Signallers : signal[s] = "stored")
            ~> (main = "ended" \/ JoinerForgotten \/ DisconnectCaught \/ ClientCaught)

\* Commands are handled as the service promises. A server that shuts down accepts no
\* command, but those an upcall that has begun will take.
Accepting == server_up /\ (is_shutting_down => upcall = "taking")
Service == INSTANCE SendService WITH
    connection <- IF Accepting THEN writer ELSE 0,
    pending <- batch \cup (IF Accepting THEN commands ELSE {}),
    finished <- handled
ImplementsService == Service!Spec
=============================================================================
