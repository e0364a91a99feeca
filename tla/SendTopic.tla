----------------------------- MODULE SendTopic ------------------------------
(***************************************************************************)
(* The DDS topic between a send client and a send server: reliable, keeps  *)
(* all samples, not durable. The commands of one writer, that is of one    *)
(* connection (session) of the client, arrive in the order written.        *)
(***************************************************************************)
EXTENDS Naturals

CONSTANTS MaxSessions,     \* bound on the connections the client opens
          MaxCommands      \* bound on the commands it sends

ASSUME SendBounds == MaxSessions \in Nat /\ MaxCommands \in Nat

Sessions == 1 .. MaxSessions
Commands == [session : Sessions, number : 1 .. MaxCommands]

VARIABLES commands,        \* written for the server's present reader, not yet taken
          server_up        \* the server's reader exists

topic == <<commands, server_up>>

\* Sets that hold, with a command of S, those of S its writer wrote before.
Before(c, d) == c.session = d.session /\ c.number < d.number
Prefixes(S) == {T \in SUBSET S : \A d \in T, c \in S : Before(c, d) => c \in T}

TopicInit == commands = {} /\ server_up = TRUE
TopicTypeOK == commands \subseteq Commands /\ server_up \in BOOLEAN
=============================================================================
