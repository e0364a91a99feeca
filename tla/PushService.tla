---------------------------- MODULE PushService ----------------------------
(***************************************************************************)
(* What the push pattern promises a client: a place in the sequence of     *)
(* updates that only moves forward, and past all that were published       *)
(* whenever it is not subscribed; what getUpdate hands out is the update   *)
(* at that place or nothing. With a prescale factor the place moves to     *)
(* every n-th update only, counted from the one at which the server        *)
(* learned of the subscription. Updates may be skipped and hidden.         *)
(***************************************************************************)
EXTENDS Naturals

CONSTANTS MaxPuts,     \* the number of updates
          Factors      \* prescale factors, 0: plain updates, which pass or not

VARIABLES published,   \* the number of the last update
          subscribed,
          rhythm,      \* what the server knows of the subscription
          next,        \* the update the client is at, or the next one it waits for
          shown        \* what getUpdate hands out, 0: nothing

vars == <<published, subscribed, rhythm, next, shown>>

Unknown == [known |-> FALSE, factor |-> 0, since |-> 0]
Known(factor, since) == [known |-> TRUE, factor |-> factor, since |-> since]

Due(update) ==
    /\ rhythm.known
    /\ update > rhythm.since
    /\ rhythm.factor > 0 => (update - rhythm.since - 1) % rhythm.factor = 0

Init ==
    /\ published = 0
    /\ subscribed = FALSE
    /\ rhythm = Unknown
    /\ next = 1
    /\ shown = 0

\* Nothing from before, neither from before the subscription nor of another one.
Anew(now) ==
    /\ subscribed' = now
    /\ rhythm' = Unknown
    /\ next' = published + 1
    /\ shown' = 0
    /\ UNCHANGED published

Subscribe == Anew(TRUE)
Unsubscribe == Anew(FALSE)

\* The server learns of the subscription, or goes away and takes along what it has sent.
Match(factor) ==
    /\ subscribed /\ ~rhythm.known
    /\ rhythm' = Known(factor, published)
    /\ UNCHANGED <<published, subscribed, next, shown>>

Lose ==
    /\ rhythm' = Unknown
    /\ next' \in {next, published + 1}
    /\ shown # 0 => next' = next
    /\ UNCHANGED <<published, subscribed, shown>>

\* An update is one to wait for if it is due. It may be lost, but not once it is shown.
Put ==
    /\ published < MaxPuts
    /\ published' = published + 1
    /\ next' \in {next, published + 1, published + 2}
    /\ next' >= next
    /\ next' = published + 1 => subscribed /\ Due(published + 1)
    /\ shown # 0 => next' = next
    /\ UNCHANGED <<subscribed, rhythm, shown>>

\* A later update replaces the one that is there.
Arrive(update) ==
    /\ update > next /\ update <= published
    /\ Due(update)
    /\ next' = update
    /\ shown' \in IF shown = 0 THEN {0, update} ELSE {update}
    /\ UNCHANGED <<published, subscribed, rhythm>>

\* The update arrives, or the client looks again: while a call changes the connection
\* and while the server is away nothing is handed out.
Show ==
    /\ subscribed /\ next <= published
    /\ shown' = next
    /\ UNCHANGED <<published, subscribed, rhythm, next>>

Hide == shown' = 0 /\ UNCHANGED <<published, subscribed, rhythm, next>>

Next ==
    \/ Subscribe \/ Unsubscribe \/ Lose \/ Put \/ Show \/ Hide
    \/ \E factor \in Factors : Match(factor)
    \/ \E update \in 1 .. published : Arrive(update)

Spec == Init /\ [][Next]_vars
=============================================================================
