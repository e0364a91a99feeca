---------------------------- MODULE QuerySystem -----------------------------
(***************************************************************************)
(* A query client and a query server on the same two topics: the client's  *)
(* writer is what the server's reader sees come and go, and the server's   *)
(* disconnect is what the client's listener is told of.                    *)
(***************************************************************************)
EXTENDS QueryTopics, FiniteSets

CONSTANTS Users, Workers

VARIABLES
    disconnected_guard, nonblocking_guard, connection_mutex, writer, reader,
    answer_cache, has_answer, request_discarded, at, after, query, cause, listener,
    inbox, notified, sessions, written,
    request_cache, connected_clients, is_shutting_down, server_mutex, disconnecting,
    upcall, matched, handed, answering,
    answers,    \* history: how often the server wrote an answer to each request
    results,    \* history: how often a caller obtained it
    sent        \* history: the requests written while the server was there

Client == INSTANCE QueryClient WITH MaxOutages <- 0, outages <- 0
Server == INSTANCE QueryServer WITH opened <- {}, sent <- {}

ASSUME FreeIsNoUser == Client!Free \notin Users

clientState == <<disconnected_guard, nonblocking_guard, connection_mutex,
                 writer, reader, answer_cache, has_answer, request_discarded, at, after,
                 query, cause, inbox, notified, sessions, written>>
serverState == <<request_cache, connected_clients, is_shutting_down, server_mutex,
                 disconnecting, upcall, matched, handed, answering>>
history == <<answers, results, sent>>
vars == <<clientState, listener, serverState, topics, history>>

Numbers == 1 .. MaxQueries

Init ==
    /\ Client!ClientInit
    /\ Server!ServerInit
    /\ TopicsInit
    /\ answers = [n \in Numbers |-> 0]
    /\ results = [n \in Numbers |-> 0]
    /\ sent = {}

\* The user's call returns SMART_OK with the answer.
Obtains(u) ==
    \/ at[u] = "woken" /\ cause[u] = "result" /\ at'[u] # "woken"
    \/ /\ at[u] = "receiving" /\ at'[u] = "idle"
       /\ query[u] \in answer_cache /\ query'[u] = NoQuery

ClientStep ==
    /\ Client!ClientNext
    /\ results' = [n \in Numbers |->
                     results[n] + Cardinality({u \in Users : Obtains(u) /\ query[u].number = n})]
    /\ sent' = sent \cup requests'
    /\ UNCHANGED <<serverState, answers>>

ServerAnswers ==
    \E w \in Workers :
        /\ Server!WriteAnswer(w)
        /\ answers' = [answers EXCEPT ![answering[w].number] = @ + 1]
        /\ UNCHANGED <<clientState, listener, results, sent>>

ServerStep ==
    /\ \/ Server!Upcall
       \/ \E w \in Workers :
            Server!RefuseAnswer(w) \/ \E id \in handed : Server!BeginAnswer(w, id)
       \/ Server!BeginShutdown
       \/ Server!ClearServer
    /\ UNCHANGED <<clientState, listener, history>>

\* The server's end points go; the client's reader notices.
ServerGoes ==
    /\ Server!DetachServer
    /\ Client!TellListener("gone")
    /\ UNCHANGED <<clientState, history>>

Next == ClientStep \/ ServerAnswers \/ ServerStep \/ ServerGoes
Spec == Init /\ [][Next]_vars

-----------------------------------------------------------------------------
\* Every answer a caller obtains was written by the server for its request, once.
Service == INSTANCE QueryService WITH asked <- 1 .. written
ImplementsService == Service!Spec
=============================================================================
