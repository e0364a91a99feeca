----------------------------- MODULE SendServer -----------------------------
(***************************************************************************)
(* SendServerPattern: the DDS listener thread takes the commands and hands *)
(* them one by one to the user's handler, until the server is told of a    *)
(* shutdown.                                                               *)
(***************************************************************************)
EXTENDS SendTopic

VARIABLES
    is_shutting_down,  \* the flag of the base class
    upcall,            \* the listener thread: "quiet", "taking", "looping", "handling"
    batch,             \* the samples it has taken and not yet handed out
    handled,           \* history: the commands handed to the handler
    late               \* history: how many of them since the shutdown was announced

upcallVars == <<upcall, batch, handled, late>>
serverVars == <<is_shutting_down, upcallVars>>

ServerInit ==
    /\ is_shutting_down = FALSE
    /\ upcall = "quiet"
    /\ batch = {} /\ handled = {} /\ late = 0

OnDataAvailable ==
    /\ upcall = "quiet"
    /\ server_up /\ commands # {}
    /\ ~is_shutting_down
    /\ upcall' = "taking"
    /\ UNCHANGED <<is_shutting_down, batch, handled, late, topic>>

\* read() in place of take().
LeftInReader(taken) == UNCHANGED commands
RemovedFromReader(taken) == commands' = commands \ taken

Take ==
    /\ upcall = "taking"
    /\ \E taken \in Prefixes(commands) :
          /\ batch' = taken
          /\ RemovedFromReader(taken)
          /\ upcall' = IF taken = {} THEN "quiet" ELSE "looping"
    /\ UNCHANGED <<is_shutting_down, handled, late, server_up>>

\* handleSend() is called ...
HandleSend(c) ==
    /\ upcall = "looping"
    /\ c \in batch
    /\ \A d \in batch : ~Before(d, c)
    /\ batch' = batch \ {c}
    /\ handled' = handled \cup {c}
    /\ late' = IF is_shutting_down THEN late + 1 ELSE late
    /\ upcall' = "handling"
    /\ UNCHANGED <<is_shutting_down, topic>>

\* ... and returns. Once the server is shutting down the rest of the batch is dropped.
LoopGoesOn == FALSE
LoopStops == is_shutting_down

HandlerReturns ==
    /\ upcall = "handling"
    /\ IF LoopStops \/ batch = {} THEN upcall' = "quiet" /\ batch' = {}
                                  ELSE upcall' = "looping" /\ UNCHANGED batch
    /\ UNCHANGED <<is_shutting_down, handled, late, topic>>

AnnounceShutdown ==
    /\ is_shutting_down' = TRUE
    /\ UNCHANGED <<upcallVars, topic>>

\* serverInitiatedDisconnect(): detaching the listener waits for an upcall in progress,
\* then the reader goes, with the samples it holds.
UpcallEnded == upcall = "quiet"

ServerDisconnects ==
    /\ UpcallEnded
    /\ server_up' = FALSE
    /\ commands' = {}
    /\ UNCHANGED serverVars

ServerUpcall ==
    \/ OnDataAvailable \/ Take \/ HandlerReturns
    \/ \E c \in batch : HandleSend(c)

ServerTypeOK ==
    /\ is_shutting_down \in BOOLEAN
    /\ upcall \in {"quiet", "taking", "looping", "handling"}
    /\ batch \subseteq Commands /\ handled \subseteq Commands
    /\ late \in 0 .. MaxCommands

\* A handler that is called when the server shuts down is the last: at most the command
\* whose turn had come follows the announcement, and none the disconnect.
QuietAfterShutdown ==
    /\ late <= 1
    /\ ~server_up => upcall = "quiet"
=============================================================================
