---------------------------- MODULE SendService -----------------------------
(***************************************************************************)
(* What the send pattern promises: a command reaches the handler at most   *)
(* once, in the order of its connection and without a gap. What is lost is *)
(* the end of a connection that was closed, by the client or the server.   *)
(***************************************************************************)
EXTENDS Naturals

CONSTANTS MaxSessions, MaxCommands

VARIABLES connection,  \* the connection that is open, 0 if there is none
          pending,     \* commands on their way to the server
          finished     \* commands its handler was called with

vars == <<connection, pending, finished>>
Sessions == 1 .. MaxSessions
Commands == [session : Sessions, number : 1 .. MaxCommands]
Earlier(c, d) == c.session = d.session /\ c.number < d.number

Init == connection = 0 /\ pending = {} /\ finished = {}

Open(s) ==
    /\ connection = 0
    /\ \A c \in pending \cup finished : c.session # s
    /\ connection' = s
    /\ UNCHANGED <<pending, finished>>

\* A command comes after all its connection has sent.
Send(c) ==
    /\ c.session = connection
    /\ \A d \in pending \cup finished : d.session = c.session => Earlier(d, c)
    /\ pending' = pending \cup {c}
    /\ UNCHANGED <<connection, finished>>

Handle(c) ==
    /\ c \in pending
    /\ \A d \in pending : ~Earlier(d, c)
    /\ pending' = pending \ {c}
    /\ finished' = finished \cup {c}
    /\ UNCHANGED connection

\* With the connection the last of what is pending may be lost.
Close ==
    /\ connection' = 0
    /\ \E kept \in SUBSET pending :
          /\ \A d \in kept, c \in pending : Earlier(c, d) => c \in kept
          /\ pending' = kept
    /\ UNCHANGED finished

\* A new server, to which the client's writer, if it has one, is connected.
Restart == connection' \in Sessions \cup {0} /\ pending' = {} /\ finished' = {}

Next ==
    \/ \E s \in Sessions : Open(s)
    \/ \E c \in Commands : Send(c) \/ Handle(c)
    \/ Close \/ Restart

Spec == Init /\ [][Next]_vars
=============================================================================
