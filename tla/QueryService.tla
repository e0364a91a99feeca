---------------------------- MODULE QueryService ----------------------------
(***************************************************************************)
(* What the query pattern promises end to end: a request is answered at    *)
(* most once, only after it was made, and an answer is handed to a caller  *)
(* at most once, only after the server gave it. Queries may stay           *)
(* unanswered, and answers unread.                                         *)
(***************************************************************************)
EXTENDS Naturals

CONSTANT MaxQueries    \* the number of queries

VARIABLES asked,       \* the requests made
          answers,     \* how often the server answered each
          results      \* how often a caller obtained its answer

vars == <<asked, answers, results>>
Queries == 1 .. MaxQueries

Init ==
    /\ asked = {}
    /\ answers = [q \in Queries |-> 0]
    /\ results = [q \in Queries |-> 0]

Ask(q) ==
    /\ q \notin asked
    /\ asked' = asked \cup {q}
    /\ UNCHANGED <<answers, results>>

Answer(q) ==
    /\ q \in asked
    /\ answers[q] = 0
    /\ answers' = [answers EXCEPT ![q] = 1]
    /\ UNCHANGED <<asked, results>>

Obtain(q) ==
    /\ answers[q] = 1
    /\ results[q] = 0
    /\ results' = [results EXCEPT ![q] = 1]
    /\ UNCHANGED <<asked, answers>>

Next == \E q \in Queries : Ask(q) \/ Answer(q) \/ Obtain(q)
Spec == Init /\ [][Next]_vars
=============================================================================
