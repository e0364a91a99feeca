---------------------------- MODULE MutexServer -----------------------------
(***************************************************************************)
(* The query server of an application with a task that serves queries, and *)
(* the event server of the program that publishes events, as their         *)
(* shutdown sees them: server_mutex and the upcall of their listener. What *)
(* the servers do with their data is in QueryServer and EventServer.       *)
(***************************************************************************)
EXTENDS SendServer, Task, Applications

VARIABLES
    server_mutex,      \* its owner: "free", or the "disconnect"
    request_upcall     \* the listener thread: "quiet", "locking", "handling"

mutexVars == <<server_mutex, request_upcall>>

ServesQueries == kind = "queue"
HasMutex == ServesQueries \/ program = "event publisher"

MutexInit == server_mutex = "free" /\ request_upcall = "quiet"

\* The upcalls test the flag before they take the mutex.
UpcallBegins ==
    /\ HasMutex
    /\ request_upcall = "quiet"
    /\ server_up
    /\ ~is_shutting_down
    /\ request_upcall' = "locking"
    /\ UNCHANGED server_mutex

\* What an upcall does with the mutex is one step. The query server's goes on without it
\* to the handler, if there is a request; the event server's is then over.
UpcallLocks ==
    /\ request_upcall = "locking"
    /\ server_mutex = "free"
    /\ request_upcall' \in {"quiet"} \cup (IF ServesQueries THEN {"handling"} ELSE {})
    /\ UNCHANGED server_mutex

\* answer() in the handler, and the loop after it, test the flag before they take the
\* mutex again; otherwise the upcall is over.
HandlerGoesOn ==
    /\ request_upcall = "handling"
    /\ request_upcall' \in {"quiet"} \cup (IF is_shutting_down THEN {} ELSE {"locking"})
    /\ UNCHANGED server_mutex

RequestHandled == UpcallLocks \/ HandlerGoesOn

\* serverInitiatedDisconnect() takes the mutex ...
LockForDisconnect ==
    /\ HasMutex
    /\ server_mutex = "free"
    /\ server_mutex' = "disconnect"
    /\ UNCHANGED request_upcall

\* ... and has it while the detached listener's upcall ends. The others have no mutex.
DetachesQuietly ==
    /\ HasMutex => server_mutex = "disconnect"
    /\ request_upcall = "quiet"
    /\ server_mutex' = "free"
    /\ UNCHANGED request_upcall

MutexTypeOK ==
    /\ server_mutex \in {"free", "disconnect"}
    /\ request_upcall \in {"quiet", "locking", "handling"}

\* An upcall that found no shutdown waits for the mutex of the disconnect, which waits for
\* the upcall.
DisconnectCaught == server_mutex = "disconnect" /\ request_upcall = "locking"
=============================================================================
