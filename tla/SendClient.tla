----------------------------- MODULE SendClient -----------------------------
(***************************************************************************)
(* SendClientPattern: threads that connect, disconnect and send, and the   *)
(* listener thread that reports whether a server matches the writer.       *)
(* blocking() sets a guard that nothing reads and is left out.             *)
(***************************************************************************)
EXTENDS SendTopic

CONSTANT Users         \* the threads that use the client

VARIABLES
    connection_guard,  \* of the client: connected
    matched_guard,     \* connection_guard of DDSWriterConnector
    connection_mutex,  \* its owner, or "free"
    writer,            \* the session of the writer, 0 when it is nil
    listener,          \* who listens at the writer: "none", "connector" or "client"
    matched,           \* the writer matches the server's reader
    report,            \* a change of matched the listener is still to be told
    call,              \* per user thread, the call it is in
    sessions, sent     \* the connections opened and the commands sent so far

clientVars == <<connection_guard, matched_guard, connection_mutex, writer, listener, matched,
                report, call, sessions, sent>>

Nobody == "free"
ASSUME NobodyIsNoUser == Nobody \notin Users

Calls == [at : {"idle", "resetting", "opening", "matching", "matched", "sending"},
          after : {"open", "return"}]
NoCall == [at |-> "idle", after |-> "return"]

\* The guards of a client start out reset: not connected.
ClientInit ==
    /\ connection_guard = FALSE /\ matched_guard = FALSE
    /\ connection_mutex = Nobody
    /\ writer = 0
    /\ listener = "none"
    /\ matched = FALSE /\ report = FALSE
    /\ call = [u \in Users |-> NoCall]
    /\ sessions = 0 /\ sent = 0

Go(u, place) == call' = [call EXCEPT ![u].at = place]
Return(u) == call' = [call EXCEPT ![u] = NoCall] /\ connection_mutex' = Nobody

-----------------------------------------------------------------------------
\* DDSWriterConnector::reset(): detach the listener, drop the writer with the commands
\* that have not reached the server.
DropWriter ==
    /\ listener' = "none"
    /\ writer' = 0
    /\ matched' = FALSE
    /\ commands' \in Prefixes(commands)

\* disconnect(), or connect(), which disconnects first.
Reset(u, after) ==
    /\ call[u].at = "idle"
    /\ connection_mutex = Nobody
    /\ connection_mutex' = u
    /\ DropWriter
    /\ call' = [call EXCEPT ![u] = [at |-> "resetting", after |-> after]]
    /\ UNCHANGED <<connection_guard, matched_guard, report, sessions, sent, server_up>>

Disconnect(u) == Reset(u, "return")
Connect(u) == sessions < MaxSessions /\ Reset(u, "open")

\* The guard is reset when no upcall can set it any more.
GuardKept == UNCHANGED connection_guard
GuardReset == connection_guard' = FALSE

Disconnected(u) ==
    /\ call[u].at = "resetting"
    /\ GuardReset
    /\ IF call[u].after = "open"
         THEN Go(u, "opening") /\ UNCHANGED connection_mutex
         ELSE Return(u)
    /\ UNCHANGED <<matched_guard, writer, listener, matched, report, sessions, sent, topic>>

\* DDSWriterConnector::create_new_writer(): the connector is its listener.
NewWriter ==
    /\ sessions' = sessions + 1
    /\ writer' = sessions + 1
    /\ listener' = "connector"
    /\ report' = FALSE

\* DDSWriterConnector::reconnect() resets its guard before the new writer can set it.
OpenWriter(u) ==
    /\ call[u].at = "opening"
    /\ matched_guard' = FALSE
    /\ NewWriter
    /\ Go(u, "matching")
    /\ UNCHANGED <<connection_guard, connection_mutex, matched, sent, topic>>

\* The writer matched within the timeout: the client takes over its listener, ...
WriterMatched(u) ==
    /\ call[u].at = "matching"
    /\ matched_guard
    /\ listener' = "client"
    /\ Go(u, "matched")
    /\ UNCHANGED <<connection_guard, matched_guard, connection_mutex, writer, matched, report,
                   sessions, sent, topic>>

\* ... and sets its guard, whatever the listener has reported since.
Connected(u) ==
    /\ call[u].at = "matched"
    /\ connection_guard' = TRUE
    /\ Return(u)
    /\ UNCHANGED <<matched_guard, writer, listener, matched, report, sessions, sent, topic>>

\* The match timed out or DDS reported an error.
ConnectFails(u) ==
    /\ call[u].at \in {"opening", "matching"}
    /\ DropWriter
    /\ call' = [call EXCEPT ![u] = [at |-> "resetting", after |-> "return"]]
    /\ UNCHANGED <<connection_guard, matched_guard, connection_mutex, report, sessions, sent,
                   server_up>>

-----------------------------------------------------------------------------
\* send(): the guard is read before the mutex is taken.
Send(u) ==
    /\ call[u].at = "idle"
    /\ connection_guard
    /\ sent < MaxCommands
    /\ Go(u, "sending")
    /\ UNCHANGED <<connection_guard, matched_guard, connection_mutex, writer, listener, matched,
                   report, sessions, sent, topic>>

\* SMART_OK, whether or not a server is there to take the command; on a writer that is
\* nil by now SMART_ERROR_COMMUNICATION.
Write(u) ==
    /\ call[u].at = "sending"
    /\ connection_mutex = Nobody
    /\ sent < MaxCommands
    /\ IF writer # 0
         THEN /\ sent' = sent + 1
              /\ commands' = IF matched /\ server_up
                               THEN commands \cup {[session |-> writer, number |-> sent']}
                               ELSE commands
         ELSE UNCHANGED <<sent, commands>>
    /\ Go(u, "idle")
    /\ UNCHANGED <<connection_guard, matched_guard, connection_mutex, writer, listener, matched,
                   report, sessions, server_up>>

-----------------------------------------------------------------------------
\* DDS finds out that the server's reader came or went.
MatchChanges ==
    /\ writer # 0
    /\ matched # server_up
    /\ matched' = server_up
    /\ report' = TRUE
    /\ UNCHANGED <<connection_guard, matched_guard, connection_mutex, writer, listener, call,
                   sessions, sent, topic>>

\* on_publication_matched() of the connector, whose guard stays set, and of the client.
ConnectorHears == matched_guard' = (matched_guard \/ (listener = "connector" /\ matched))
ClientHears == connection_guard' = IF listener = "client" THEN matched ELSE connection_guard

OnPublicationMatched ==
    /\ report
    /\ listener # "none"
    /\ report' = FALSE
    /\ ConnectorHears
    /\ ClientHears
    /\ UNCHANGED <<connection_mutex, writer, listener, matched, call, sessions, sent, topic>>

ClientNext ==
    \/ \E u \in Users :
          \/ Connect(u) \/ Disconnect(u) \/ Send(u)
          \/ Disconnected(u) \/ OpenWriter(u) \/ WriterMatched(u) \/ Connected(u)
          \/ ConnectFails(u) \/ Write(u)
    \/ MatchChanges \/ OnPublicationMatched

ClientTypeOK ==
    /\ connection_guard \in BOOLEAN /\ matched_guard \in BOOLEAN
    /\ connection_mutex \in Users \cup {Nobody}
    /\ writer \in 0 .. sessions
    /\ listener \in {"none", "connector", "client"}
    /\ matched \in BOOLEAN /\ report \in BOOLEAN
    /\ call \in [Users -> Calls]
    /\ sessions \in 0 .. MaxSessions /\ sent \in 0 .. MaxCommands

\* A client that reports itself connected has a writer, unless a thread that disconnects
\* is about to say otherwise: no late upcall connects it again.
ConnectedHasWriter ==
    connection_guard => writer # 0 \/ \E u \in Users : call[u].at = "resetting"
=============================================================================
