-------------------------------- MODULE Task --------------------------------
(***************************************************************************)
(* Task, and ThreadQueueQueryHandler, the task whose thread takes queries  *)
(* from a queue (process_fifo_queue and signal_to_stop belong to the       *)
(* framework). A plain task runs user code that polls test_canceled().     *)
(* One thread at a time starts and stops a task: its future is not         *)
(* protected.                                                              *)
(***************************************************************************)
EXTENDS Naturals

CONSTANTS MaxQueue,    \* bound on the queries that wait in the queue
          MaxThreads   \* bound on the threads ever started

ASSUME TaskBounds == MaxQueue \in Nat /\ MaxThreads \in Nat \ {0}

VARIABLES
    kind,              \* "queue", "polling", or "none": the application has no task
    async_handle,      \* whether the future is valid
    task_cancelled,    \* Task::cancelled
    stop_signal,       \* the queue's thread was signalled to stop
    queue,             \* the queries in the queue
    started, alive,    \* threads started so far, threads that have not returned
    busy,              \* a thread is in the inner handler or in user code
    stopping           \* stop() waits for the thread

taskVars == <<kind, async_handle, task_cancelled, stop_signal, queue, started, alive, busy,
              stopping>>

Kinds == {"queue", "polling", "none"}

\* ThreadQueueQueryHandler's constructor starts the thread; the user starts a task.
TaskInit ==
    /\ kind \in Kinds
    /\ async_handle = (kind # "none")
    /\ task_cancelled = FALSE
    /\ stop_signal = FALSE
    /\ queue = 0
    /\ started = (IF kind = "none" THEN 0 ELSE 1) /\ alive = started
    /\ busy = FALSE
    /\ stopping = FALSE

-----------------------------------------------------------------------------
\* start(): -1 when there is a future already, also one whose thread has returned.
StartableAlways == TRUE
Startable == ~async_handle

Start ==
    /\ kind # "none"
    /\ ~stopping
    /\ Startable
    /\ started < MaxThreads
    /\ task_cancelled' = FALSE
    /\ async_handle' = TRUE
    /\ started' = started + 1
    /\ alive' = alive + 1
    \* Whether a queue that was stopped can be used again is the framework's choice.
    /\ stop_signal' \in (IF kind = "queue" THEN BOOLEAN ELSE {FALSE})
    /\ UNCHANGED <<kind, queue, busy, stopping>>

\* Task::stop(wait_till_stopped).
TaskStop(wait) ==
    /\ task_cancelled' = TRUE
    /\ stopping' = (async_handle /\ wait)

\* signal_to_stop(): the queue's thread wakes and leaves its loop.
NoSignal == UNCHANGED stop_signal
SignalToStop == stop_signal' = TRUE

\* stop(): that of ThreadQueueQueryHandler waits whatever its argument.
Stop(wait) ==
    /\ ~stopping
    /\ IF kind = "queue" THEN SignalToStop /\ TaskStop(TRUE)
                         ELSE UNCHANGED stop_signal /\ TaskStop(wait)
    /\ UNCHANGED <<kind, async_handle, queue, started, alive, busy>>

\* async_handle.get() returns when the thread has, and invalidates the future.
ThreadReturned == alive = 0

Stopped ==
    /\ stopping
    /\ ThreadReturned
    /\ async_handle' = FALSE
    /\ stopping' = FALSE
    /\ UNCHANGED <<kind, task_cancelled, stop_signal, queue, started, alive, busy>>

-----------------------------------------------------------------------------
\* A query handed to the decorated handler waits in the queue.
Enqueue ==
    /\ kind = "queue"
    /\ queue < MaxQueue
    /\ queue' = queue + 1
    /\ UNCHANGED <<kind, async_handle, task_cancelled, stop_signal, started, alive, busy,
                   stopping>>

QueryAssumed == TRUE
QueryWaits == queue > 0

Works ==
    /\ alive > 0 /\ ~busy
    /\ busy' = TRUE
    /\ IF kind = "queue"
         THEN QueryWaits /\ ~stop_signal /\ queue' = queue - 1
         ELSE ~task_cancelled /\ UNCHANGED queue
    /\ UNCHANGED <<kind, async_handle, task_cancelled, stop_signal, started, alive, stopping>>

HasWorked ==
    /\ busy
    /\ busy' = FALSE
    /\ UNCHANGED <<kind, async_handle, task_cancelled, stop_signal, queue, started, alive,
                   stopping>>

\* A waiting queue thread learns of the stop by the signal only. User code may return
\* at any time.
Returns ==
    /\ alive > 0 /\ ~busy
    /\ kind = "queue" => stop_signal
    /\ alive' = alive - 1
    /\ UNCHANGED <<kind, async_handle, task_cancelled, stop_signal, queue, started, busy,
                   stopping>>

TaskTypeOK ==
    /\ kind \in Kinds
    /\ async_handle \in BOOLEAN /\ task_cancelled \in BOOLEAN /\ stop_signal \in BOOLEAN
    /\ queue \in 0 .. MaxQueue
    /\ started \in 0 .. MaxThreads /\ alive \in 0 .. started
    /\ busy \in BOOLEAN /\ stopping \in BOOLEAN

\* A task has one thread, however often and in whatever order it is started and stopped,
\* and none once stop() has waited for it.
OneThread == alive <= IF async_handle THEN 1 ELSE 0
=============================================================================
