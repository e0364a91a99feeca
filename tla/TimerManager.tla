---------------------------- MODULE TimerManager ----------------------------
(***************************************************************************)
(* TimerManagerThread: the timer thread of a component, its table of       *)
(* timers, its queue of wake-up events, and the threads that schedule,     *)
(* reset, cancel and delete timers or shut the thread down.                *)
(*                                                                         *)
(* Everything the code does while it holds timer_mutex is one step; what   *)
(* it does after unlocking (the calls of the user's handler, the test of   *)
(* the flag running, join) are steps of their own.                         *)
(***************************************************************************)
EXTENDS Naturals, FiniteSets, Functions

CONSTANTS Callers,         \* the threads that use the timer manager
          Handlers,        \* the ITimerHandler objects
          Delays,          \* values of the argument oneshot_time
          Intervals,       \* values of interval for scheduleTimer, 0: one-shot
          ResetIntervals,  \* values of interval for resetTimerInterval
          MaxTimers,       \* bound on the timers scheduled in a behaviour
          MaxTime          \* bound on the clock

ASSUME DurationsAssumption ==
    /\ Delays \subseteq Nat
    /\ Intervals \subseteq Nat
    /\ ResetIntervals \subseteq Nat
ASSUME BoundsAssumption == MaxTimers \in Nat /\ MaxTime \in Nat

VARIABLES
    now,            \* Smart::Clock::now()
    running,        \* the flag running
    next_timer_id,  \* the identifier the next timer gets
    timers,         \* the map from identifiers to [handler, interval]
    timer_events,   \* the multimap of wake-up times, see Emplace
    pc,             \* where the timer thread is
    current,        \* its locals currentWakeupTime, currentTimerId, timerEntry
    caller          \* per caller: where it is, the timers it has yet to report

vars == <<now, running, next_timer_id, timers, timer_events, pc, current, caller>>
tables == <<next_timer_id, timers, timer_events>>

(***************************************************************************)
(* The timer thread is not started, at the top of its loop, in wait or in  *)
(* wait_until, has popped an event, is in the handler, is about to test    *)
(* running, or has left the loop.                                          *)
(***************************************************************************)
ThreadStates ==
    {"none", "top", "wait", "waitUntil", "expired", "handler", "test", "exited"}
CallerStates == {"idle", "cancelled", "deleted", "shutdown", "joining"}

Idle == [at |-> "idle", owed |-> {}]
NoTimers == [id \in {} |-> 0]

-----------------------------------------------------------------------------
\* The multimap: rank is an event's position among those of the same time, which
\* keep their insertion order.
Position(events, e) == Cardinality({f \in events : f.time = e.time /\ f.rank < e.rank})
Renumber(events) ==
    {[time |-> e.time, id |-> e.id, rank |-> Position(events, e)] : e \in events}

LastPosition(events, time) == Cardinality({e \in events : e.time = time})
Emplace(events, time, id) ==
    events \cup {[time |-> time, id |-> id, rank |-> LastPosition(events, time)]}

EraseNone(events, ids) == events
EraseEvents(events, ids) == Renumber({e \in events : e.id \notin ids})

\* cbegin() of the multimap.
Earliest(e) ==
    \A f \in timer_events :
        e.time < f.time \/ (e.time = f.time /\ e.rank <= f.rank)

\* timer_cond.notify_all(): a waiting thread goes on to the test of running.
NotifyNobody(state) == state
Notified(state) == IF state \in {"wait", "waitUntil"} THEN "test" ELSE state

Init ==
    /\ now = 0
    /\ running = FALSE
    /\ next_timer_id = 0
    /\ timers = NoTimers
    /\ timer_events = {}
    /\ pc = "none"
    /\ current = [time |-> 0, id |-> 0, interval |-> 0]
    /\ caller = [c \in Callers |-> Idle]

-----------------------------------------------------------------------------
\* The callers.

\* next_timer_id++
IdReused == next_timer_id
IdIncremented == next_timer_id + 1

\* The events after resetTimerInterval: one, counted from now.
ResetErasesOnly(id, interval) == EraseEvents(timer_events, {id})
ResetEvents(id, interval) ==
    Emplace(EraseEvents(timer_events, {id}), now + interval, id)

\* Component::run starts the thread once; running is set before the thread
\* gets timer_mutex.
StartTimerThread(c) ==
    /\ caller[c].at = "idle"
    /\ pc = "none"
    /\ pc' = "top"
    /\ running' = TRUE
    /\ UNCHANGED <<now, tables, current, caller>>

ScheduleTimer(c, handler, delay, interval) ==
    LET id == next_timer_id IN
    /\ caller[c].at = "idle"
    /\ id < MaxTimers
    /\ next_timer_id' = IdIncremented
    /\ timer_events' = Emplace(timer_events, now + delay, id)
    /\ timers' = [i \in DOMAIN timers \cup {id} |->
                    IF i = id THEN [handler |-> handler, interval |-> interval]
                              ELSE timers[i]]
    /\ pc' = Notified(pc)
    /\ UNCHANGED <<now, running, current, caller>>

ResetTimerInterval(c, id, interval) ==
    /\ caller[c].at = "idle"
    /\ timers' = [timers EXCEPT ![id].interval = interval]
    /\ timer_events' = ResetEvents(id, interval)
    /\ pc' = Notified(pc)
    /\ UNCHANGED <<now, running, next_timer_id, current, caller>>

\* Drop the timers of the set gone and let caller c report them to their handlers.
RemoveTimersKept(c, gone, at) ==
    /\ caller[c].at = "idle"
    /\ timer_events' = EraseEvents(timer_events, gone)
    /\ pc' = Notified(pc)
    /\ caller' = [caller EXCEPT ![c] = [at |-> at, owed |-> gone]]
    /\ UNCHANGED <<now, running, next_timer_id, timers, current>>
RemoveTimers(c, gone, at) ==
    /\ caller[c].at = "idle"
    /\ timers' = Restrict(timers, DOMAIN timers \ gone)
    /\ timer_events' = EraseEvents(timer_events, gone)
    /\ pc' = Notified(pc)
    /\ caller' = [caller EXCEPT ![c] = [at |-> at, owed |-> gone]]
    /\ UNCHANGED <<now, running, next_timer_id, current>>

CancelTimer(c, id) == RemoveTimers(c, {id}, "cancelled")

\* Without a timer of this handler nobody is notified, but the handler is still
\* called.
TimersOf(handler) == {id \in DOMAIN timers : timers[id].handler = handler}
CancelTimersOf(c, handler) ==
    IF TimersOf(handler) = {}
      THEN /\ caller[c].at = "idle"
           /\ caller' = [caller EXCEPT ![c] = [at |-> "cancelled", owed |-> {}]]
           /\ UNCHANGED <<now, running, tables, pc, current>>
      ELSE RemoveTimers(c, TimersOf(handler), "cancelled")

\* deleteAllTimers() clears both tables.
ClearTimers(c, at) ==
    /\ caller[c].at = "idle"
    /\ timers' = NoTimers
    /\ timer_events' = {}
    /\ pc' = Notified(pc)
    /\ caller' = [caller EXCEPT ![c] = [at |-> at, owed |-> DOMAIN timers]]
    /\ UNCHANGED <<now, running, next_timer_id, current>>

DeleteAllTimers(c) == ClearTimers(c, "deleted")

\* The first half of shutdownTimerThread, before it takes timer_mutex itself.
BeginShutdown(c) == ClearTimers(c, "shutdown")

\* timerCancelled(), one call for all the timers removed.
TimerCancelled(c) ==
    /\ caller[c].at = "cancelled"
    /\ caller' = [caller EXCEPT ![c] = Idle]
    /\ UNCHANGED <<now, running, tables, pc, current>>

\* timerDeleted(), one call per timer in the order of the identifiers.
TimerDeleted(c) ==
    /\ caller[c].at \in {"deleted", "shutdown"}
    /\ caller[c].owed # {}
    /\ \E id \in caller[c].owed :
         /\ \A other \in caller[c].owed : id <= other
         /\ caller' = [caller EXCEPT ![c].owed = @ \ {id}]
    /\ UNCHANGED <<now, running, tables, pc, current>>

DeletedAll(c) ==
    /\ caller[c] = [at |-> "deleted", owed |-> {}]
    /\ caller' = [caller EXCEPT ![c] = Idle]
    /\ UNCHANGED <<now, running, tables, pc, current>>

\* The second half of shutdownTimerThread; nothing to stop when not running.
StopThreadUnchecked(c, wait) ==
    /\ caller[c] = [at |-> "shutdown", owed |-> {}]
    /\ running' = FALSE
    /\ pc' = Notified(pc)
    /\ caller' = [caller EXCEPT ![c] = IF wait THEN [Idle EXCEPT !.at = "joining"] ELSE Idle]
    /\ UNCHANGED <<now, tables, current>>
StopThread(c, wait) ==
    /\ caller[c] = [at |-> "shutdown", owed |-> {}]
    /\ IF running
         THEN /\ running' = FALSE
              /\ pc' = Notified(pc)
              /\ caller' = [caller EXCEPT ![c] =
                              IF wait THEN [at |-> "joining", owed |-> {}] ELSE Idle]
         ELSE /\ caller' = [caller EXCEPT ![c] = Idle]
              /\ UNCHANGED <<running, pc>>
    /\ UNCHANGED <<now, tables, current>>

\* timer_thread.join() returns.
Joined(c) ==
    /\ caller[c].at = "joining"
    /\ pc = "exited"
    /\ caller' = [caller EXCEPT ![c] = Idle]
    /\ UNCHANGED <<now, running, tables, pc, current>>

-----------------------------------------------------------------------------
\* The timer thread, timerRunnable().

WaitForFirst ==
    /\ pc = "top"
    /\ timer_events = {}
    /\ pc' = "wait"
    /\ UNCHANGED <<now, running, tables, current, caller>>

WaitForNext ==
    /\ pc = "top"
    /\ \E e \in timer_events :
         /\ Earliest(e)
         /\ e.time > now
         /\ current' = [current EXCEPT !.time = e.time]
    /\ pc' = "waitUntil"
    /\ UNCHANGED <<now, running, tables, caller>>

Popped(e) == Renumber(timer_events \ {e})

\* Pop the expired event, copy the timer's entry and unlock.
PopExpired ==
    /\ pc = "top"
    /\ \E e \in timer_events :
         /\ Earliest(e)
         /\ e.time <= now
         /\ timer_events' = Popped(e)
         /\ current' = [time |-> e.time, id |-> e.id, interval |-> timers[e.id].interval]
    /\ pc' = "expired"
    /\ UNCHANGED <<now, running, next_timer_id, timers, caller>>

\* handler->timerExpired(currentWakeupTime, act) is entered without the lock.
TimerExpired ==
    /\ pc = "expired"
    /\ pc' = "handler"
    /\ UNCHANGED <<now, running, tables, current, caller>>

\* The handler returns; the lock is taken again and a periodic timer that is
\* still registered gets its next event, at the interval of the copied entry.
Requeues(id) == id \in DOMAIN timers /\ current.interval > 0

NextWakeupFromNow == now + current.interval
NextWakeup == current.time + current.interval

HandlerReturned ==
    /\ pc = "handler"
    /\ IF Requeues(current.id)
         THEN timer_events' = Emplace(timer_events, NextWakeup, current.id)
         ELSE UNCHANGED timer_events
    /\ pc' = "test"
    /\ UNCHANGED <<now, running, next_timer_id, timers, current, caller>>

WaitTimedOut ==
    /\ pc = "waitUntil"
    /\ current.time <= now
    /\ pc' = "test"
    /\ UNCHANGED <<now, running, tables, current, caller>>

\* A condition variable may wake without a notification.
SpuriousWakeup ==
    /\ pc \in {"wait", "waitUntil"}
    /\ pc' = "test"
    /\ UNCHANGED <<now, running, tables, current, caller>>

\* while(running == true), read after the lock of the iteration is released.
TestRunning ==
    /\ pc = "test"
    /\ pc' = IF running THEN "top" ELSE "exited"
    /\ UNCHANGED <<now, running, tables, current, caller>>

Tick ==
    /\ now < MaxTime
    /\ now' = now + 1
    /\ UNCHANGED <<running, tables, pc, current, caller>>

-----------------------------------------------------------------------------
Thread ==
    \/ WaitForFirst \/ WaitForNext \/ PopExpired \/ TimerExpired
    \/ HandlerReturned \/ WaitTimedOut \/ TestRunning

Call(c) ==
    \/ StartTimerThread(c)
    \/ \E handler \in Handlers, delay \in Delays, interval \in Intervals :
         ScheduleTimer(c, handler, delay, interval)
    \/ \E id \in DOMAIN timers, interval \in ResetIntervals :
         ResetTimerInterval(c, id, interval)
    \/ \E id \in DOMAIN timers : CancelTimer(c, id)
    \/ \E handler \in Handlers : CancelTimersOf(c, handler)
    \/ DeleteAllTimers(c)
    \/ BeginShutdown(c)

\* What a caller goes on to do once it has released the lock.
Proceed(c) ==
    \/ TimerCancelled(c) \/ TimerDeleted(c) \/ DeletedAll(c)
    \/ \E wait \in BOOLEAN : StopThread(c, wait)
    \/ Joined(c)

Next ==
    \/ Thread
    \/ SpuriousWakeup
    \/ \E c \in Callers : Call(c) \/ Proceed(c)
    \/ Tick

Spec == Init /\ [][Next]_vars

\* The scheduler runs the timer thread and the callers, handlers return, and the
\* clock advances; nothing promises a spurious wake-up or that anyone calls.
Fairness ==
    /\ WF_vars(Thread)
    /\ \A c \in Callers : WF_vars(Proceed(c))
    /\ WF_vars(Tick)

FairSpec == Spec /\ Fairness

-----------------------------------------------------------------------------
\* Types of all variables; the rank of an event is left out, only Earliest reads it.
TypeOK ==
    /\ now \in Nat
    /\ running \in BOOLEAN
    /\ next_timer_id \in Nat
    /\ timers \in [DOMAIN timers -> [handler : Handlers, interval : Nat]]
    /\ DOMAIN timers \subseteq 0 .. next_timer_id - 1
    /\ \A e \in timer_events : e.time \in Nat /\ e.id \in Nat
    /\ pc \in ThreadStates
    /\ current \in [time : Nat, id : Nat, interval : Nat]
    /\ caller \in [Callers -> [at : CallerStates, owed : SUBSET Nat]]

\* Every wake-up event belongs to a registered timer, so timers[currentTimerId] in
\* timerRunnable never inserts an entry with a null handler: every way to remove a
\* timer removes its events, and an event is put back only for a timer that is
\* still registered after its handler ran without the lock.
EventsRegistered == \A e \in timer_events : e.id \in DOMAIN timers

Handling(id) == pc \in {"expired", "handler"} /\ current.id = id

\* A periodic timer that nobody has removed never falls silent: it has a wake-up
\* event, or the thread is busy with it and will put its next event back. Resets
\* of the interval while the handler runs included.
PeriodicNeverLost ==
    \A id \in DOMAIN timers :
        timers[id].interval > 0 =>
            (\E e \in timer_events : e.id = id) \/ Handling(id)

\* A timer removed from the table is reported to its handler by one caller only:
\* two cancellations, or a cancellation and a deletion, never both get its act.
RemovedOnce ==
    /\ \A c \in Callers : caller[c].owed \cap DOMAIN timers = {}
    /\ \A c, d \in Callers : c # d => caller[c].owed \cap caller[d].owed = {}

\* At most one caller joins the timer thread (joining it twice is undefined), and
\* a thread somebody joins has been told to stop.
OneJoiner ==
    /\ \A c, d \in Callers :
         caller[c].at = "joining" /\ caller[d].at = "joining" => c = d
    /\ (\E c \in Callers : caller[c].at = "joining") => ~running

\* While the thread runs, a due timer is handed to its handler or removed.
DueTimerExpires ==
    \A id \in 0 .. MaxTimers - 1 :
        LET Due == \E e \in timer_events : e.id = id /\ e.time <= now
        IN  (running /\ Due) ~> (~running \/ ~Due)

\* Two wake-ups are to come for the timer: two events, or one beside the event its
\* handler's return puts back. From then on it expires at two rates.
PendingIds == {e.id : e \in timer_events}
DueAgain == {id \in DOMAIN timers : Handling(id) /\ current.interval > 0}
Doubled(id) ==
    \/ \E e, f \in timer_events : e # f /\ e.id = id /\ f.id = id
    \/ id \in PendingIds \cap DueAgain

\* The one way to such a timer is a reset of its interval while its handler runs; no
\* other order of schedules, resets, cancellations and iterations doubles a timer.
OnlyResetsDouble ==
    [][\A id \in 0 .. MaxTimers - 1 :
          ~Doubled(id) /\ Doubled(id)' =>
              /\ id \in DueAgain
              /\ \E c \in Callers, interval \in ResetIntervals :
                    ResetTimerInterval(c, id, interval)]_vars

-----------------------------------------------------------------------------
\* A statement of the documentation that the code does not keep.

\* shutdownTimerThread documents that it blocks until the timer is down: whoever
\* calls it returns.
ShutdownReturns == \A c \in Callers : caller[c].at = "joining" ~> caller[c].at = "idle"

-----------------------------------------------------------------------------
\* The timer manager implements the promise of TimerService as long as nobody
\* resets an interval. A periodic timer in its handler is due at its next wake-up.
dueBar ==
    [id \in PendingIds \cup DueAgain |->
        IF id \in DueAgain THEN current.time + current.interval
                           ELSE (CHOOSE e \in timer_events : e.id = id).time]

periodBar == [id \in PendingIds \cup DueAgain |-> timers[id].interval]

deliveringBar ==
    IF pc \in {"expired", "handler"}
      THEN [id |-> current.id, time |-> current.time, busy |-> TRUE]
      ELSE [id |-> 0, time |-> 0, busy |-> FALSE]

Service == INSTANCE TimerService WITH
    Periods <- Intervals,
    issued <- next_timer_id,
    due <- dueBar,
    period <- periodBar,
    delivering <- deliveringBar

\* Delivery in order of the due times, never early, without drift, at most one due
\* time per timer, nothing popped after its removal.
ImplementsService == Service!Spec
=============================================================================
