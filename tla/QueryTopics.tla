---------------------------- MODULE QueryTopics -----------------------------
(***************************************************************************)
(* The two DDS topics between a query client and a query server. Both are  *)
(* reliable and volatile: a sample is neither lost nor duplicated while    *)
(* its reader and its writer exist, and gone with its reader. Samples of   *)
(* different queries are independent, so their order is left open.         *)
(*                                                                         *)
(* A query is identified by the request's sample identity: the writer that *)
(* wrote it, one per connection (session) of the client, and its number.   *)
(***************************************************************************)
EXTENDS Naturals

CONSTANTS MaxSessions,   \* bound on the connections a client opens
          MaxQueries     \* bound on the requests it writes

ASSUME QueryBounds == MaxSessions \in Nat \ {0} /\ MaxQueries \in Nat \ {0}

VARIABLES requests,         \* requests written and not yet taken by the server
          replies,          \* answers written and not yet received by the client
          request_writers,  \* the sessions whose request writer exists
          server_up         \* the server's reader and writer exist

topics == <<requests, replies, request_writers, server_up>>

Sessions == 1 .. MaxSessions
QueryIds == [session : Sessions, number : 1 .. MaxQueries]
NoQuery == [session |-> 0, number |-> 0]

TopicsInit ==
    /\ requests = {} /\ replies = {}
    /\ request_writers = {}
    /\ server_up = TRUE

TopicsTypeOK ==
    /\ requests \subseteq QueryIds
    /\ replies \subseteq QueryIds
    /\ request_writers \subseteq Sessions
    /\ server_up \in BOOLEAN
=============================================================================
