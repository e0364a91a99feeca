---------------------------- MODULE EventTopics -----------------------------
(***************************************************************************)
(* The two DDS topics between an event client and an event server. The     *)
(* activation topic is reliable and keeps all samples. The event topic     *)
(* keeps the last one (the event types have no key): an event not yet      *)
(* taken is overwritten by the next, whatever activation that belongs to.  *)
(*                                                                         *)
(* An activation is identified by the writer that wrote it, one per        *)
(* connection (session) of the client, and its number.                     *)
(***************************************************************************)
EXTENDS Identities

CONSTANTS MaxSessions,      \* bound on the connections a client opens
          MaxActivations,   \* bound on the activations it makes
          MaxPuts,          \* bound on the puts that fire an event
          VirtualGuid       \* the GUID of each session's writer

Sessions == 1 .. MaxSessions
Numbers == 1 .. MaxActivations

ASSUME EventBounds ==
    MaxSessions \in Nat \ {0} /\ MaxActivations \in Nat \ {0} /\ MaxPuts \in Nat

ASSUME GuidsAreUnique ==
    /\ VirtualGuid \in [Sessions -> Guids]
    /\ \A s, t \in Sessions : VirtualGuid[s] = VirtualGuid[t] => s = t

VARIABLES requests,    \* activations and deactivations not yet taken by the server
          events,      \* events on their way to the client's reader
          reader,      \* the client's event reader
          server_up    \* the server's reader and writer exist

topics == <<requests, events, reader, server_up>>

Modes == {"single", "continuous"}
EventIds == [session : Sessions, number : Numbers]
Requests == [mode : Modes \cup {"deactivate"}, id : EventIds]
Events == [id : EventIds, put : 1 .. MaxPuts]
NoEvent == [id |-> [session |-> 0, number |-> 0], put |-> 0]

\* A reader: its session, the expression of its filtered topic, the sample it keeps
\* and whether its listener is still to be told.
NoText == [k \in 1 .. 2 * LENGTH |-> 0]
NoReader == [session |-> 0, expression |-> NoText, sample |-> NoEvent, notified |-> FALSE]

\* findOrCreateClientFilteredTopic: a topic named after the connection, whose filter
\* has the connection's text as its expression.
FilteredReader(s) == [NoReader EXCEPT !.session = s, !.expression = toString(VirtualGuid[s])]

\* CorrelationIdFilter without a prescale factor: the sample's related identity is
\* that of the connection in the compiled expression.
Passes(expression, id) == FromString(expression) = VirtualGuid[id.session]

\* What of a set of written events is sent to the client.
Sent(written) ==
    {e \in written : reader.session # 0 /\ Passes(reader.expression, e.id)}

\* One put writes its events in the order of the activations.
Older(e, f) == e.put < f.put \/ (e.put = f.put /\ e.id.number < f.id.number)

\* A sample reaches the reader, in place of those written before.
Deliver(e) ==
    /\ e \in events
    /\ events' = {f \in events : Older(e, f)}
    /\ reader' = [reader EXCEPT !.sample = e, !.notified = TRUE]
    /\ UNCHANGED <<requests, server_up>>

TopicsInit ==
    /\ requests = {} /\ events = {}
    /\ reader = NoReader
    /\ server_up = TRUE

TopicsTypeOK ==
    /\ requests \subseteq Requests
    /\ events \subseteq Events
    /\ reader \in [session : Sessions \cup {0}, expression : HexTexts,
                   sample : Events \cup {NoEvent}, notified : BOOLEAN]
    /\ server_up \in BOOLEAN
=============================================================================
