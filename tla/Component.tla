----------------------------- MODULE Component ------------------------------
(***************************************************************************)
(* Component: the thread that calls run(), and the threads and signal      *)
(* handlers that ask it to shut down. The store of cancelled and the       *)
(* notification are two steps, and neither takes signal_mutex. Of the      *)
(* timer thread only what the end of run() depends on is seen: its loop,   *)
(* its wait and its test of running (TimerManager has the rest).           *)
(***************************************************************************)
EXTENDS Naturals

CONSTANT Signallers    \* the threads and signals that ask for the shutdown, each once

VARIABLES
    cancelled,
    run,               \* how far run() is
    signal,            \* per signaller: "quiet", "stored" the flag, or "done"
    timer_running,     \* TimerManagerThread::running
    timer_thread       \* where the timer thread is

timerVars == <<timer_running, timer_thread>>
componentVars == <<cancelled, run, signal, timerVars>>

RunStates == {"starting", "testing", "blocking", "waiting", "woken", "disconnecting",
              "timers", "stopping", "joining", "returned"}

\* Not started; in its loop, up to the next wait or test; in a wait of timer_cond; between
\* the wait, or an event, and the test of running, without timer_mutex; gone.
TimerPlaces == {"none", "looping", "waiting", "testing", "exited"}

\* The constructor resets the flag.
ComponentInit ==
    /\ cancelled = FALSE
    /\ run = "starting"
    /\ signal = [s \in Signallers |-> "quiet"]
    /\ timer_running = FALSE /\ timer_thread = "none"

RunMoves(from, to) == run = from /\ run' = to /\ UNCHANGED <<cancelled, signal>>
RunGoes(from, to) == RunMoves(from, to) /\ UNCHANGED timerVars

\* startTimerThread() has timer_mutex until running is set.
StartTimerThread ==
    /\ RunMoves("starting", "testing")
    /\ timer_running' = TRUE
    /\ timer_thread' = "looping"

\* With signal_mutex: the flag is tested ...
TestCancelled == RunGoes("testing", IF cancelled THEN "woken" ELSE "blocking")

\* ... and the thread blocks, in a later step.
BlockOnCondition == RunGoes("blocking", "waiting")

\* wait() may return without a notification, and is not called again.
WakesSpuriously == RunGoes("waiting", "woken")

\* notify_shutdown() announces the shutdown to the servers, then disconnects each.
NotifyShutdown == RunGoes("woken", "disconnecting")
ServersDisconnected == RunGoes("disconnecting", "timers")

\* timer_cond.notify_all() ends a wait that has begun.
TimerNotified == IF timer_thread = "waiting" THEN "testing" ELSE timer_thread

\* shutdownTimerThread(): deleteAllTimers() notifies, ...
DeleteAllTimers ==
    /\ RunMoves("timers", "stopping")
    /\ timer_thread' = TimerNotified
    /\ UNCHANGED timer_running

\* ... running is reset, with a notification, in a later critical section, ...
StopTimerThread ==
    /\ RunMoves("stopping", "joining")
    /\ timer_running' = FALSE
    /\ timer_thread' = TimerNotified

\* ... and join() waits for the thread to leave its loop.
JoinTimerThread == timer_thread = "exited" /\ RunGoes("joining", "returned")

TimerMoves(from, to) ==
    /\ timer_thread = from
    /\ timer_thread' = to
    /\ UNCHANGED <<cancelled, run, signal, timer_running>>

\* Round the loop: an event is handled or a wait begins, with the lock; the test of
\* running is made without it.
TimerLoops ==
    \/ TimerMoves("looping", "waiting")
    \/ TimerMoves("looping", "testing")
    \/ TimerMoves("testing", IF timer_running THEN "looping" ELSE "exited")

\* The wait ends spuriously, with its time, or for a timer that somebody schedules.
TimerWakes == TimerMoves("waiting", "testing")

\* signal_shutdown() and handle_signal().
SignalShutdown(s) ==
    /\ signal[s] = "quiet"
    /\ cancelled' = TRUE
    /\ signal' = [signal EXCEPT ![s] = "stored"]
    /\ UNCHANGED <<run, timerVars>>

\* notify_all() wakes a thread that waits already.
WakesTheWaiting == run' = IF run = "waiting" THEN "woken" ELSE run

NotifyAll(s) ==
    /\ signal[s] = "stored"
    /\ WakesTheWaiting
    /\ signal' = [signal EXCEPT ![s] = "done"]
    /\ UNCHANGED <<cancelled, timerVars>>

ComponentTypeOK ==
    /\ cancelled \in BOOLEAN
    /\ run \in RunStates
    /\ signal \in [Signallers -> {"quiet", "stored", "done"}]
    /\ timer_running \in BOOLEAN
    /\ timer_thread \in TimerPlaces

\* The timer thread tested running before it was reset and began its wait after the
\* notification: only a wake-up that nobody owes it ends the join.
JoinerForgotten == run = "joining" /\ timer_thread = "waiting"
=============================================================================
