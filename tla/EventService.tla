---------------------------- MODULE EventService ----------------------------
(***************************************************************************)
(* What the event pattern promises end to end: an activation fires only    *)
(* after it was made, in single mode once; events are obtained only after  *)
(* they fired, and in order. An event that one call consumes may be        *)
(* returned by the calls that are in progress then, as many as there are,  *)
(* and by no call that begins later. Events may be missed.                 *)
(***************************************************************************)
EXTENDS Naturals

CONSTANTS Users, MaxActivations, MaxPuts

VARIABLES mode,        \* the mode of each activation, "none" before it is made
          fires,       \* the puts that fired it
          obtained,    \* the last of them a call obtained, 0 if there is none
          calls        \* per thread: the activation it waits for, and what obtained
                       \* was when its call began

vars == <<mode, fires, obtained, calls>>
Numbers == 1 .. MaxActivations
NoCall == [number |-> 0, seen |-> 0]

Init ==
    /\ mode = [n \in Numbers |-> "none"]
    /\ fires = [n \in Numbers |-> {}]
    /\ obtained = [n \in Numbers |-> 0]
    /\ calls = [u \in Users |-> NoCall]

Activate(n, m) ==
    /\ mode[n] = "none"
    /\ mode' = [mode EXCEPT ![n] = m]
    /\ UNCHANGED <<fires, obtained, calls>>

MayFire(n) == mode[n] = "continuous" \/ (mode[n] = "single" /\ fires[n] = {})

\* One put fires some of the activations.
Fire(due, put) ==
    /\ \A n \in due : MayFire(n) /\ \A k \in fires[n] : k < put
    /\ fires' = [n \in Numbers |-> IF n \in due THEN fires[n] \cup {put} ELSE fires[n]]
    /\ UNCHANGED <<mode, obtained, calls>>

Begin(u, n) ==
    /\ calls[u] = NoCall
    /\ calls' = [calls EXCEPT ![u] = [number |-> n, seen |-> obtained[n]]]
    /\ UNCHANGED <<mode, fires, obtained>>

Obtain(u, put) ==
    LET n == calls[u].number IN
    /\ calls[u] # NoCall
    /\ put \in fires[n]
    /\ calls[u].seen < put /\ obtained[n] <= put
    /\ obtained' = [obtained EXCEPT ![n] = put]
    /\ calls' = [calls EXCEPT ![u] = NoCall]
    /\ UNCHANGED <<mode, fires>>

\* A call may return without an event.
Return(u) ==
    /\ calls' = [calls EXCEPT ![u] = NoCall]
    /\ UNCHANGED <<mode, fires, obtained>>

Next ==
    \/ \E n \in Numbers, m \in {"single", "continuous"} : Activate(n, m)
    \/ \E due \in SUBSET Numbers, put \in 1 .. MaxPuts : Fire(due, put)
    \/ \E u \in Users : \/ \E n \in Numbers : Begin(u, n)
                        \/ \E put \in 1 .. MaxPuts : Obtain(u, put)
                        \/ Return(u)

Spec == Init /\ [][Next]_vars
=============================================================================
