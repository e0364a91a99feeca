# RTI-DDS-SmartSoft in TLA+

RTI-DDS-SmartSoft maps the SmartSoft communication patterns (send, push, query,
event) and component services (timers, tasks, component life cycle) to RTI
Connext DDS. This directory holds TLA+ models of it, TLC configurations that
check them on small instances, and TLAPS proofs for instances of any size.
`PROJECT.json` lists the runs, the source lines of each definition, the hazards
and the theorems. Paths below are relative to `src/RTI-DDS-SmartSoft/`.

## 1. Inventory

| Component | State | Operations | Talks to |
|---|---|---|---|
| `TimerManagerThread` | `running`, `timers`, `timer_events`, `next_timer_id`, one thread | start, shutdown, schedule, reset interval, cancel (one, all of a handler), delete all | user handlers, called without the mutex; condition variable; clock |
| `QueryClientPattern`, `QueryClientAnswerTrigger` | guards, request writer, reply reader, `answer_cache` with two guards per entry | connect, disconnect, blocking, queryRequest, queryReceive, queryReceiveWait, queryDiscard, query | server over two topics; DDS listener upcalls |
| `QueryServerPattern`, `QueryServerHandler` | `request_cache`, `connected_clients`, reader, writer | upcalls, answer, server-initiated disconnect | clients over the topics; handler objects that may answer from other threads |
| `PushClientPattern` | three guards, subscription reader, read condition | connect, disconnect, blocking, subscribe, unsubscribe, getUpdate, getUpdateWait | server over one topic with a filter per subscription |
| `PushServerPattern`, `CorrelationIdFilter` | writer; per reader a prescale counter or an identity | put, disconnect; compile, evaluate, finalize | subscribers |
| `EventClientPattern`, `EventResult` | two guards, a recursive mutex, writer, filtered reader, `event_cache`; per activation the event, its guard, the guards of the `getNextEvent` calls | connect, disconnect, blocking, activate, deactivate, tryEvent, getEvent, getNextEvent | server over an activation and an event topic |
| `EventServerPattern`, `EventActivation` | `event_activations`, per activation the mode and whether it fired; reader, writer | upcall, put, disconnect | clients; the user's `testEvent` |
| `SendClientPattern`, `SendServerPattern` | guard, writer; reader, handler | connect, disconnect, send; upcall, disconnect | one topic |
| `DDSReaderConnector`, `DDSWriterConnector` | two guards, the QoS | reconnect (create, wait for a match), reset | DDS discovery |
| `Component` | `cancelled`, timer manager, DDS infrastructure | run, signal_shutdown, the signal handler | all servers of the component |
| `Task`, `ThreadQueueQueryHandler` | `cancelled`, a future; a queue | start, stop, test_canceled; enqueue | the user's code |
| `ConnectionId`, `CorrelationId`, decorators | none | conversions, comparison | samples of all patterns |
| `DDSInfrastructure` | participant, filter | find or create topics, filtered topics | RTI DDS |
| example programs (`../examples`) | a flag, a thread | main, the thread's loop | one pattern each, `Component` |

Where it is hard, and what makes each part correct:

* **Timers.** Handlers run without the mutex, and meanwhile other threads reset,
  cancel and delete the very timer that is being handled. Correct means: the two
  tables agree, due timers expire in order, never early and without drift, a
  removed timer is reported once, a periodic one is never lost, and shutdown ends
  the thread.
* **Query.** A call spans the user's thread, the listener thread of either
  side and a server that may leave. Guards are read without the mutexes,
  disconnect takes them one after the other, and a wait keeps an iterator across
  it. Correct means: an answer goes to its query, once; no wait is forgotten; a
  client that reports itself connected has its end points.
* **Push.** Subscribing replaces the reader under the feet of threads that wait
  for updates. Correct means: no update from before an unsubscription is
  returned, guards, reader and read condition agree, updates do not go back, and
  every n-th passes.
* **Event.** Several threads wait for one activation, for the current or the
  next event; activations, events and entries travel in different threads; both
  sides detach listeners with a mutex held that the upcall needs; the server may
  be restarted. Correct means: an event finds its entry, a removed activation wakes
  its waiters, a client gets the events of its own present connection, a single
  event fires once, `getNextEvent` returns an event that is new, and both sides
  agree on what is activated.
* **Send, component, tasks.** A shutdown arrives while a batch of commands is
  being handled, a client writes and a task works; the main thread then waits for
  each of them in turn, and for the timer thread and the upcalls of its servers.
  Correct means: commands are handled once, in order and without a gap, none after
  the server disconnected, a task has one thread, and the shutdown ends. In three
  places it need not; correct then means that there is no fourth.

## 2. Modules

| Module | Models | Composed with |
|---|---|---|
| `TimerService` | promise of a timer manager (abstract) | |
| `TimerManager` | `TimerManagerThread` | refines `TimerService` |
| `QueryTopics` | the request and reply topics, sample identities | |
| `QueryClient` | `QueryClientPattern` with an abstract server | `QueryTopics` |
| `QueryServer` | `QueryServerPattern` with abstract clients | `QueryTopics` |
| `QueryService` | promise of the query pattern (abstract) | |
| `QuerySystem` | client and server on the same topics | instances of both; refines `QueryService` |
| `PushService` | promise of the push pattern (abstract) | |
| `PushServer` | `PushServerPattern` and the prescale filter | |
| `PushClient` | `PushClientPattern` | extends `PushServer`; refines `PushService` |
| `Identities` | `ConnectionId`, `CorrelationId` and their conversions: pure operators | |
| `EventTopics` | the activation topic, the event topic, the identity filter | extends `Identities` |
| `EventClient` | `EventClientPattern`, `EventResult` | extends `EventTopics` |
| `EventServer` | `EventServerPattern`, `EventActivation` | extends `EventTopics` |
| `EventService` | promise of the event pattern (abstract) | |
| `EventSystem` | client and server on the same topics | extends both; refines `EventService` |
| `SendTopic`, `SendClient`, `SendServer` | the send pattern | |
| `Component` | `run`, the requests to shut down, and the timer thread as far as the end of `run` depends on it | |
| `Task` | `Task` and `ThreadQueueQueryHandler` | |
| `Applications` | the application threads of the example programs | |
| `MutexServer` | `server_mutex` of a query or event server and its upcalls, as a shutdown sees them | extends `SendServer`, `Task`, `Applications` |
| `SendService` | promise of the send pattern (abstract) | |
| `SendSystem` | a send client against a server's whole program: listener, main thread, task or application thread | extends the seven before `SendService`; refines it |
| `TimerManagerProofs`, `QueryClientProofs`, `QueryServerProofs`, `QuerySystemProofs`, `PushProofs`, `IdentitiesProofs`, `EventProofs`, `SendProofs` | theorems about them | |
| `MC*` | what TLC needs: symmetry sets, the GUIDs of two sessions | |

**How steps are cut.** What the code does under a mutex that is never held
across a wait is one action. A mutex that is held across waits or upcalls
(`connection_mutex`, `client_mutex`, `server_mutex`) is a variable with its owner.
Guards (`GuardCondition`) are read and written in an action of their own wherever
the code does so outside a mutex, since other threads see them at once. Calls of
user code (handlers) happen between two actions.

**TimerManager.** `pc` is the place of `timerRunnable`: `top` with the lock,
`wait`, `waitUntil`, `expired` (entry copied, lock released), `handler`, `test`
(the unlocked read of `running`) and `exited`. `caller[c]` says what a caller does
after it released the lock: the timers it still has to report (`owed`), or that
it joins the thread. `timer_events` is the multimap: a set of records with
`rank`, the position among the events of one time. Cancelling uses `RemoveTimers`,
deleting `ClearTimers`; both are what happens inside the lock. A spurious
wake-up is an action. The unsynchronized accesses to `running` are steps of
their own, so each outcome of that race is a behaviour.

**QueryTopics, QueryClient.** A query identifier is a session (the request
writer of one connection) and a number. `at[u]` is the place of a thread in its
call; `disconnect` has the steps the code has: guard, entries under
`answer_mutex`, end points under `connection_mutex`, guard again. `writer`
and `reader` hold the session of the end points. `has_answer` and
`request_discarded` are the guards of `QueryClientAnswerTrigger`, kept apart from
`answer_cache` because a waiter holds on to them when the entry is gone. Which of
several active conditions ends a wait is open, as it is for a `WaitSet`. Erasing
through an iterator whose entry is gone is undefined: the call is taken to end
in `undefined`. Each thread holds one identifier at a time; the documentation
forbids concurrent calls with the same one.

**QueryServer.** `upcall` is the listener thread with the batch of requests it
has taken. The handler may answer at once or leave that to any thread:
`answering[w]` is a thread between the check of `is_shutting_down` and the mutex.
The disconnect is two actions with `server_mutex` held in between, the second
waits for the upcall in progress, as detaching a listener does. A client's writer may
come while the server is not there: nothing in the client keeps it from that.

**QuerySystem** instantiates both with the topics as shared variables; the
server's detach tells the client's listener. `answers` and `results` count what
was written and obtained, per query; `sent` is the set of requests ever written. Both
component modules suppose something of the other side; that the composition does no
more than they suppose is proved (section 4).

**PushServer, PushClient.** Updates are numbered by `put`. A reader holds one
update (`KeepLast(1)`) and whether it was read; a filter has the counter of
`CompiledReaderData`. `call[u]` has the place of a thread, the goal that brought it
there (connect, subscribe, unsubscribe, or the unsubscribe inside a disconnect),
and the reader whose read condition it waits on: that may be one the client
has replaced. Whether a plain update passes the filter of the empty identifier
depends on DDS and is left open. `PushService` sees a client as a place in the
sequence of updates (`next`), whether the update there is handed out (`shown`), and
what the server knows of the subscription (`rhythm`). A client counts as subscribed
from the moment its call has opened the reader of the subscription, so that an update
which arrives before `subscribe` returns is one of this subscription. The place only
moves forward, to updates that are due, and past everything published while the client
was not subscribed; a place whose update the topic overwrites, the filter loses or the
server takes along is skipped.

**Identities, EventTopics.** A GUID is a sequence of bytes, its text a sequence of
digits, two per byte, computed both ways as `toString` and the constructors do. The
filtered topic of a connection compares the identity parsed from the text with
that of the sample, so that a wrong conversion shows as an event delivered to
the wrong client. Event types have no key and the reader keeps one sample: `Deliver`
overwrites whatever the reader has not yet handed out.

**EventClient.** `call[u].at` follows a thread through `disconnect` (`locking` the
mutex, `detaching`, `closed`), `connect` (`opening`, `subscribing`, `attached`),
`activate` (`written`, the request is out and the entry not made) and a wait
(`waiting`, `woken`). `client_mutex` is the recursive mutex, which `connect` holds
while it calls `disconnect`. `results[n]` is the `EventResult` of activation `n`;
it outlives its entry in `event_cache`, as the shared pointer in a waiting
thread does. `next_event_guard` belongs to one `getNextEvent` call, `has_event_guard`
to all `getEvent` calls. Each thread that is woken records which guards were active,
and looks at them in any order.

**EventServer.** The upcall reads `is_shutting_down`, then takes the mutex; `put` may
have read the flag long before. Which activations a put fires is the user's
choice (`testEvent`). The disconnect holds `server_mutex` while it detaches.
`RestartServer` is a new process with an empty list. **EventSystem** adds the
history of what fired and what was obtained.

**SendClient, SendServer, Component, Task, Applications, MutexServer, SendSystem.** `matched` is
what DDS knows of the match, `report` that the listener is still to be told;
`listener` says whether that is the connector or the client itself. The server's
upcall takes a batch and hands out one command at a time, with the test of
`is_shutting_down` after each. `run` is the place of `Component::run`: testing the
flag and blocking are two steps, storing it and notifying are two more of another
thread. `shutdownTimerThread` is three steps, as it takes `timer_mutex` twice and then joins:
`timer_thread` says whether the thread is `looping` with the mutex, `waiting`, or
`testing` the flag without it; what it does in its loop is in `TimerManager`. The task's
thread works and polls, or takes from a queue; `stop` and `start` come in any order. An
application thread is reduced to its loop: where it tests its flag, and which of its calls
may wait. The `connect` of an event client, and its destructor, may also be `caught`: that
it never returns is what `EventClient` calls `UpcallCaught`. It happens only to a client
that has end points (`opened`), since the first `disconnect` finds no listener.

A query or event server detaches its listener with `server_mutex` held
(`QueryServerPattern.h:148`, `EventServerPattern.h:134`); a send or push server has no
mutex: `MutexServer` has the mutex, and the upcall between the test of
`is_shutting_down` and its last use of the mutex. A query server's handler may go on to
`answer`, or the loop to the next request; both test the flag first and then take the
mutex. `SendSystem` chooses at the start which program it is, so one instance covers a
command server, a query server with a task, the publishers and the client programs;
`StartsAgain` is the next run of the program. The query server with a queue is the one that
`ProcessingPatterns.h:37-39` describes, in which the server gets the decorated handler;
`../examples/example_query_server.cpp:97` makes one and hands over the plain handler, so that
nothing reaches the queue there. That is a behaviour of the model too: nothing assumes that
queries arrive.

**Outside.** RTI DDS and the Smart base classes are not part of the repository;
they are modelled from how the code uses them: reliable topics lose and duplicate
nothing between existing end points; detaching a listener waits for the upcall in
progress; liveliness is reported before data of a writer; the use of a nil writer
or reader throws, which the patterns turn into an error code.

## 3. Runs

| Run | Instance | Shows |
|---|---|---|
| `TimerManager_safety` | 2 callers, 2 handlers, 2 timers, periods 0 to 2, 3 ticks, no resets; symmetry; 300 000 states | `TypeOK`, `EventsRegistered`, `RemovedOnce`, `OneJoiner`, and `ImplementsService`: the refinement of `TimerService` |
| `TimerManager_reset` | 1 caller, 2 timers, resets at any moment, fair; 81 000 states | `PeriodicNeverLost`, `OnlyResetsDouble`, `DueTimerExpires` |
| `TimerManager_shutdown` | 2 callers, 1 timer, fair | violates `ShutdownReturns` |
| `QueryClient_safety` | 2 threads, 2 sessions, 1 query, 1 outage, fair; 92 000 states | `TypeOK`, `ConnectedHasEndpoints`, `RegisteredInSession`, `NoForgottenWaiter`, `WaitsEnd` |
| `QueryClient_lost_answer` | 1 thread, 1 session, 1 query, fair | violates `AnsweredWaitReturns` |
| `QueryServer_safety` | 2 sessions, 2 requests, 2 workers, fair; 58 000 states | `TypeOK`, `AnsweredOnce`, `DownIsClean`, `KnowsItsClients`, `RequestsAreHandled` |
| `QueryServer_disconnect` | 1 session, 1 request, 1 worker, fair | violates `DisconnectCompletes` |
| `QuerySystem_service` | 1 thread, 1 worker, 2 sessions, 2 queries; 915 000 states | `ImplementsService`: the refinement of `QueryService` |
| `PushClient_safety` | 2 threads, 3 readers, 2 updates, factor 2, 1 outage, fair; 700 000 states | `TypeOK`, `SubscriptionHasReader`, `FreshUpdates`, `MutexReleased`, and `ImplementsService`: the refinement of `PushService` |
| `PushClient_resubscribe` | 1 thread, 3 readers | violates `NotSubscribedAfterConnect` |
| `EventSystem_service` | 2 threads, 2 sessions, 1 activation, 2 puts, 1 restart, GUIDs of two bytes of two binary digits; symmetry; 2 110 000 states | `TypeOK`, `ConnectedHasEndpoints`, `OwnEventsOnly`, `EventHasEntry`, `GuardTellsEvent`, `ActivationsAgree`, `NoForgottenWaiter`, `HolderProceeds`, `NextEventIsNew`, and `ImplementsService`: the refinement of `EventService` |
| `SendSystem_shutdown` | 2 threads, 2 sessions, 2 commands, 1 signaller, a queue of 2, 3 task threads, 2 rounds of the observer, 1 restart, fair; 546 000 states | `TypeOK`, `ConnectedHasWriter`, `QuietAfterShutdown`, `OneThread`, `ShutdownEnds`, and `ImplementsService`: the refinement of `SendService` |

`CHECK_DEADLOCK FALSE` everywhere: an idle client, a finished shutdown or used-up
bounds are legitimate ends. Deadlocks of threads are looked for by the liveness
properties (`DisconnectCompletes`, `MutexReleased`, `WaitsEnd`, `ShutdownEnds`) and by
`HolderProceeds` instead. Two of these are about code that does deadlock, and say that it
does so nowhere else. `HolderProceeds` exempts `UpcallCaught`, the deadlock of the event
client's listener (`EventClientPattern.h:119`), so it does not speak about that one.
`ShutdownEnds` exempts three states, each of which the run reaches and without any one of
which it fails: `JoinerForgotten` (the join of `ShutdownReturns` below), `DisconnectCaught`
(the mutex of `DisconnectCompletes` below, and the same in the event server) and
`ClientCaught` (an event client in `UpcallCaught`).

**Bounds.** `MaxTime`, `MaxTimers`, `MaxSessions`, `MaxQueries`, `MaxOutages`,
`MaxReaders`, `MaxPuts`, `MaxActivations`, `MaxRestarts`, `MaxCommands`, `MaxQueue`,
`MaxThreads`, `MaxRounds` cap counters in the guards of the actions that count.
Two callers are enough for the races between two operations, and the listener,
timer or main thread makes a third; two sessions give one reconnect, after which
nothing depends on the number of sessions; two timers give an earlier one and a
simultaneous one; three ticks let a periodic timer come round twice; three readers
are a connection, a subscription and a reconnection; two updates with factor 2 are
one that passes and one that does not. One activation meets all that can happen to
its entry, with two events so that one can overwrite or follow the other; two
activations would only share the place in the reader, which two events of one
do as well. The digits of the second session's GUID, read one place off, give the
first, so that a wrong conversion mixes up the two connections. Two commands
are a batch that a shutdown can cut; three task threads two restarts of a task.
Every safety property and every refinement is also proved for all values, one
invariant apart (section 4).

**Fairness.** `TimerManager`: the timer thread, callers that have begun and the
clock go on (threads are scheduled, handlers return). `QueryClient`: threads in a
call and the listener go on, the server answers what it gets; no timeout is
assumed to happen, since the default is to wait without one. `QueryServer`: upcalls
and a disconnect that began go on. `PushClient`: calls that change the connection
and the listener go on. `SendSystem`: the main thread, the listeners (the user's handlers
return), the timer thread but for its waits, the task, the end of `stop`, the application
thread and a thread between the store of the flag and its notification go on; nothing is
assumed of the clients, of a peer that is asked to answer, of queries that might arrive, or
of spurious wake-ups. Nothing assumes that anyone calls anything.
All are weak fairness; a mutex is never assumed to be handed out fairly.
`EventSystem` is checked for safety only: its waits end by a put or a timeout that
nobody promises, and what remains (a holder of the mutex that is stuck, a waiter
without an active guard) is stated by invariants.

**What the violations mean.**

* `ShutdownReturns`: `running` is tested between two critical sections of the
  loop (`TimerManagerThread.cpp:133`). A shutdown between the test and the wait of
  the next round notifies nobody; the caller joins a thread that waits forever.
* `AnsweredWaitReturns`: the entry for an answer is made after the request was
  written (`QueryClientPattern.h:389`); an answer taken before finds no entry and
  is dropped.
* `DisconnectCompletes`: `serverInitiatedDisconnect` detaches the listener with
  `server_mutex` held (`QueryServerPattern.h:148`), the upcall in progress needs it.
* `NotSubscribedAfterConnect`: `disconnect` sets `disconnected_guard` first, so the
  `unsubscribe` inside it does nothing (`PushClientPattern.h:256`).

**Other behaviours** the models have and a reader of the code may not expect.

* *All clients.* `blocking(false)` resets the guard that cancels waits and
  `blocking(true)` sets it (the send client's is never read). `connect` overwrites a
  liveliness change reported since its listener was attached. The flag `cancelled` and
  the like are plain booleans in some classes and atomic in others; the models read and
  write them in one step.
* *Timers.* A timer scheduled between the two halves of `shutdownTimerThread` survives
  it; a handler may be called after `cancelTimer` returned; a reset while the handler
  runs leaves two events of one timer, so that it expires at two rates until it is reset
  again or cancelled (`TimerManagerThread.cpp:185`). `OnlyResetsDouble` says that nothing
  else does this; the refinement is stated without resets.
* *Query.* `queryReceiveWait` erases through an iterator found before the wait
  (`QueryClientPattern.h:544`): when a disconnect in between has erased the entry,
  the call ends in `undefined`. A query registered after disconnect cleared the
  entries stays pending in the next connection. A server that is told of the shutdown in the
  middle of a batch drops the rest of it (`QueryServerPattern.h:130`): those queries have
  left the reader and are never handled, and the clients wait until they lose the server;
  `RequestsAreHandled` promises nothing once a server shuts down. A discarded wait returns
  `SMART_CANCELLED` when a reconnect comes before its return.
* *Push.* `unsubscribe` ignores a failed reconnect: the client stays connected without a
  reader. No read reaches the missing reader (`GetUpdateFindsReader`, section 4), but the
  client learns nothing of it until it subscribes.
* *Event client.* The upcall reads the guard without the mutex
  (`EventClientPattern.h:116`), so that it can be caught by a disconnect that sets
  the guard, holds the mutex and waits for the upcall: `UpcallCaught`, the only way
  in which the holder of the mutex is stuck. Of several threads in `getEvent` or
  `getNextEvent` one obtains the event and the others return `SMART_ERROR` (or
  `SMART_PASSIVE`), where the comments of both calls
  (`EventClientPattern.h:505-507`, `638-640`) say that each returns it. `EventService` lets
  every caller of one activation obtain the event, as the comments have it; the code, which
  implements it, uses less of this than it may.
  An event that arrives while the guard is set stays in the reader until the next
  one. A deactivation while the guard is set is not sent.
* *Event server.* Activations of vanished clients are never removed (their
  events pass nobody's filter). A restart forgets all activations, while the client
  is told that the server is alive again and waits. A single event that is
  overwritten in the reader is lost, and its activation does not fire again. The
  disconnect has the deadlock of the query server's.
* *Component and tasks.* A notification between the test of `cancelled` in `run` and
  its wait is lost (`Component.cpp:86`), and nowhere else (`LostOnlyInTheWindow`); a
  spurious wake-up ends `run`. A task
  stopped without waiting cannot be started again until somebody waits, although its thread
  may have returned (`Task.cpp:61`): `OneThread` says that there are never two, not that a
  start which could be granted is.
  `ThreadQueueQueryHandler::stop` waits whatever its argument says. `start` returns -1
  for a thread that has been started, where `Task.h:87` says 0. A shutdown may stand in one of
  the three deadlocks that `ShutdownEnds` names, and then for good (`DeadlocksLast`). The
  example programs join
  a thread that may be in a wait without a timeout: they end once the peer is gone or
  answers.

## 4. Proofs

All theorems hold for every value of the constants under the named assumptions:
`DurationsAssumption`, `BoundsAssumption`, `QueryBounds`, `OutageBound`, `PushBounds`,
`PrescalesAssumption`, `EventBounds`, `SendBounds`, `TaskBounds`, `RestartBound`,
`RoundsAssumption` (the bounds are numbers), `FreeIsNoUser`, `NobodyIsNoUser` (the value of
a free mutex is no thread), `IdentityAssumption` (at least one digit and one byte) and
`GuidsAreUnique` (as the standard requires of DDS). Each proof has one step per action
and below it one per part of the invariant.

**TimerManagerProofs.** `EventsAreRegistered`, `TimersAreRemovedOnce`, `JoinedOnce`,
`TypeCorrect` from the inductive invariant `IInv`, which adds to the checked
invariants that timers owed to a handler have identifiers already issued (so a
new timer is never among them) and that a thread that runs was started.
`PeriodicTimersStay` allows resets: a periodic timer has an event, or the thread that
handles it has copied an interval with which it puts one back (`PeriodicServed`).
`OnlyResetsDoubleTimers` (`OnlyResetsDouble`) allows them too: a timer that has one wake-up
to come, an event or the one its handler's thread will put back, gets a second one in the
step in which its interval is reset while its handler runs, and in no other step.
`TimerServiceIsImplemented` assumes `ResetIntervals = {}`, and so that no timer is ever
doubled (`OneInv`). With one event per timer the abstract due time of a timer is that of
its event, and each operation on the multimap is one on a function.

**QueryClientProofs.** `ConnectedMeansEndpoints`, `RegisteredInItsSession`,
`NobodyIsForgotten`, `TypeCorrect`. `IInv` ties each place of a thread to the owner
of `connection_mutex` (`MutexOwner`), each opening step to the end points it has
made (`MayOpen`, `Endpoints`), the listener to its reader (`ListenerHasReader`) and
each waiter to its entry or its discard guard (`OwnQueries`, `Waiters`). Without
the mutex ownership none of the three is inductive: they hold because no other
thread changes the end points in between.

**QueryServerProofs.** `RequestsAnsweredOnce`, `CleanWhenDown`, `ClientsAreKnown`,
`TypeCorrect`. `IInv` adds that an upcall is about a session (`AboutASession`), that
the mutex is held exactly by a disconnect between its two steps
(`DisconnectState`), that what was received had been sent (`ReceivedWasSent`), and
what an upcall in progress is about to report (`ReportedClients`).

**QuerySystemProofs.** `QueryServiceIsImplemented`. `SInv` follows a query through the
system: on its way through the server it is in one place and has no answer
(`Pending`), an answer on its way was given (`Answered`), and only one thread
holds an identifier whose answer was not obtained (`Holders`, `WokenWithAnswer`).
`ClientPartConforms` and `ServerPartConforms` close the argument for the two modules that
are checked alone: every behaviour of the composition is one of `QueryClient` (the
server being what it supposes of it) and one of `QueryServer`. Hence their theorems hold of
the composition: `ClientKeepsItsPromises` and `ServerKeepsItsPromises`. The server's half needs
that the client's writer is one of the topic's (`WriterSeen`) and that a session is opened
once (`SessionsKnown`); the client's half, already proved, provides the second.

**PushProofs.** `SubscriptionsHaveReaders`, `UpdatesAreFresh`, `EveryNthUpdate`,
`TypeCorrect`. `IInv` says what the reader is at each stage of a call (`Stages`), that an
update in the reader or on its way to one that is, or is about to be, subscribed came
after the last unsubscription (`Fresh`), and that the filter's counter is the number of
updates since it was compiled (`Counted`). `UpdatesNeverGoBack` follows an update through time: once the reader held
update n, it never hands out an earlier one, to any thread, through any number of
disconnects, resubscriptions and outages (`NotBefore` is preserved by every step, and
holds from the moment the reader has n on because what is on its way is `Newer`).
`PushServiceIsImplemented` needs, beyond `IInv` and `Newer`, that an update is on its way
only if it passed the filter of the reader there is (`InFlight`): with the counter of
`Counted` that makes it due. A step of a thread either opens or closes a reader, which is a
new beginning, or leaves it as it is, which shows or hides what is there (`ClientSteps`);
`put`, the compilation of the filter, the arrival of an update and the end of the server's
writer each have an action of their own in `PushService`. `EveryNthUpdate` says the same of
the filter alone, also for an update that nobody may read (`PrescaleKept`).
`GetUpdateFindsReader` (`NeverWithoutReader`) is about the client that a failed
`unsubscribe` leaves without a reader. It rests on `Listening`: only a reader that is there
and is not being replaced has the client as its listener, so that no late liveliness
upcall resets `disconnected_guard` of a client without one.

**IdentitiesProofs.** `TextRoundTrip`: the text of a GUID parsed is the GUID, for every
base and length (hence different GUIDs have different texts); `DecoratorRoundTrip`; and
`IdentitiesAreOrdered`: `less_than` is a strict order that is total up to `equals_to`, which the
caches keyed by it need. Two GUIDs that differ have a first byte in which they do: the
set of such bytes has a least member, a number below which there is none by a
well-founded descent (`LeastNatural`, `FirstDifference`).

**EventProofs.** Four inductive invariants, each on top of the one before. `Conn` (the
owner of the recursive mutex, the end points at each stage) gives `TypeCorrect` and
`ConnectedMeansEndpoints`. `Own` adds that the reader's filter is made from its session
and rests on `TextRoundTrip`: `OwnEvents`. `Order` and `Entries` number the activations and
order their events: all that travels or is known to the server has an entry, was
deactivated or is about to get its entry (`Registered`), a waiter's activation has an entry
or was deactivated (`Awaited`), guards agree with events (`Consistent`, `NextGuards`):
`EventsHaveEntries`, `GuardsTellEvents`, `NoWaiterForgotten`, `NextEventsAreNew`. `Firing`
relates the server's marks, the events on their way and the entries to what fired
and was obtained: `EventServiceIsImplemented`. Apart from these, `Agree` gives
`DeactivatedIsForgotten` (`ActivationsAgree`): what the server knows of the present
connection has an entry, or its deactivation is under way; the point is that a
client whose guard is set, and which therefore tells the server nothing, is about to
disconnect or has a server that knows nothing of it (`Told`).

**SendProofs.** `ConnectedMeansWriter`, `ServerFallsSilent`, `TaskHasOneThread`,
`TypeCorrect`, `SendServiceIsImplemented`, `LostOnlyInTheWindow`, `ShutdownNotStuck`,
`ShutdownGetsOn`, `DeadlocksLast`. `IInv` has the owner of the mutex and the writer
at each stage (`MutexOwner`, `Writers`), the steps of the shutdown against those of the
listener's loop (`Quiet`), and that no command left in the reader precedes one
that was taken (`Order`), from which the refinement follows with `Ending`.
`LostOnlyInTheWindow` follows the request to shut down: it is lost (`Lost`) when `run` waits
and nobody is left to notify it, and the only step that can bring this about is the one in
which `run` blocks; a request that finds it waiting wakes it.

**The safety half of liveness.** A call or a shutdown ends if someone it waits for can
always take a step, if every such step brings it nearer to its end, and if whoever can
take a step does. The first two are proved for every value of the constants; only the
third, which is the fairness of the specification, is left to TLC.

| Checked by TLC | Never stuck | Gets on |
|---|---|---|
| `DueTimerExpires` | `NoWakeupIsLost`, `DueTimerKeepsThreadAwake` | `DueTimersAreNotOvertaken` |
| `WaitsEnd` (query client) | `HolderNotStuck` | `HolderGetsOn`: at most 10 steps |
| `MutexReleased` (push client) | `HolderNotStuck` | `HolderGetsOn`: at most 22 steps |
| `HolderProceeds` (event client) | `HolderNotStuck`, `CaughtForGood` | `HolderGetsOn`: at most 9 steps |
| `RequestsAreHandled` (query server) | `ListenerNotStuck` | `RequestsAreKept` |
| `ShutdownEnds` | `ShutdownNotStuck`, `DeadlocksLast` | `ShutdownGetsOn`: at most 20 steps, and those of the application thread |

`CanStep` lists the guards of the steps of the thread that holds the mutex, where
`HolderProceeds` has `ENABLED`; `GetsOn` compares a number of steps left (`StepsLeft`,
`Left`) before and after a step. `WaitsEnd` also needs `NobodyIsForgotten`: who waits has an
entry or an active guard. `NoWakeupIsLost` says that the timer thread never sleeps past the
earliest wake-up time, that is, that each operation which puts an event first also
notifies. `DueTimersAreNotOvertaken`: what is scheduled or reset, with however short a
delay, goes behind all that is due; only a periodic timer that is behind in its own
period comes before it again, each time later than before. `CaughtForGood` shows that the deadlock of the event client is final.
`ShutdownNotStuck` names whom the main thread waits for at each place: the notification
(`run` has not been told), the upcall in progress, the timer thread, the application thread
that was told to end, or a task that was told to stop. Each has a step to take, unless the
shutdown stands in one of the three deadlocks, or a client waits for its peer
(`WaitsForPeer`), which the fairness leaves open too. `DeadlocksLast` shows that the three
are deadlocks indeed: no step of any thread, client or peer ends one, but for a wake-up of
the timer thread that nobody owes it. `Left` counts the steps that are left to the main
thread, both kinds of upcall, the timer thread (three more at most, once `running` is reset),
the application thread and the task. The invariant `EndInv` says what is left of the task
and the application thread at each stage of the destructors, that `server_mutex` is held
for the disconnect only (`MutexHeld`), and that a component that runs has its timer thread
(`TimerStarted`).

**Only model-checked:** the liveness properties themselves (`DueTimerExpires`, `WaitsEnd`,
`RequestsAreHandled`, `MutexReleased`, `ShutdownEnds`) and the wording of `HolderProceeds`,
since fairness and `ENABLED` are outside the prover. How many steps a due timer is from its
turn is not stated as a number: that would be a sum over all timers, which needs
induction.

## 5. Not modelled

* Conversion of user data to and from DDS samples, find-or-create of topics, QoS beyond its
  effect on loss and order, the accessors of the connectors, communication objects.
* The flag `is_shutting_down` of the clients, which refuses new calls once their own
  component shuts down; the servers' is modelled. DDS failing to create a topic.
* Starting a timer thread twice, a handler that shuts its own manager down; one task
  started and stopped by several threads at once, which is undefined, as its future is
  not protected. Destruction of objects that are still in use.
* `notify_input` handlers of the event client and `sleep_for` of a task have no state.
* Several event or send clients of one server: a server keeps no state that one client
  shares with another but the list of activations, whose entries are independent. The query
  server, which keeps a set of clients, is modelled with two.
* An event server whose liveliness is lost and comes back without a restart (a network that
  fails for a while): the event client's listener hears of the server's end and return only.
* The event pattern's liveness: the composed system is too large for TLC's liveness
  checking.
* What is left to do: split `EventSystem` so that a client alone, with the fairness of
  its own threads, can be checked for the end of its calls; a model of the connectors apart
  from their clients.
