---------------------------- MODULE TimerService ----------------------------
(***************************************************************************)
(* What Smart::ITimerManager promises its callers: every live timer has    *)
(* exactly one due time; timers are delivered one at a time, the earliest  *)
(* due time first and never before it is reached; a periodic timer's next  *)
(* due time is its last one plus its period (it does not drift with the    *)
(* time its handler takes); a removed timer is not delivered any more.     *)
(***************************************************************************)
EXTENDS Naturals, Functions

CONSTANTS Delays,    \* the first delays a timer may be scheduled with
          Periods    \* its periods, 0 for a timer that expires once

VARIABLES now,         \* the clock
          issued,      \* the number of timer identifiers handed out
          due,         \* the due time of each live timer
          period,      \* its period
          delivering   \* the expiry being delivered, or None

vars == <<now, issued, due, period, delivering>>

None == [id |-> 0, time |-> 0, busy |-> FALSE]
Delivery(id) == [id |-> id, time |-> due[id], busy |-> TRUE]

Init ==
    /\ now = 0
    /\ issued = 0
    /\ due = [id \in {} |-> 0]
    /\ period = [id \in {} |-> 0]
    /\ delivering = None

Schedule(delay, interval) ==
    LET live == DOMAIN due \cup {issued} IN
    /\ issued' = issued + 1
    /\ due' = [id \in live |-> IF id = issued THEN now + delay ELSE due[id]]
    /\ period' = [id \in live |-> IF id = issued THEN interval ELSE period[id]]
    /\ UNCHANGED <<now, delivering>>

Remove(gone) ==
    /\ due' = Restrict(due, DOMAIN due \ gone)
    /\ period' = Restrict(period, DOMAIN due \ gone)
    /\ UNCHANGED <<now, issued, delivering>>

Deliver(id) ==
    /\ ~delivering.busy
    /\ due[id] <= now
    /\ \A other \in DOMAIN due : due[id] <= due[other]
    /\ delivering' = Delivery(id)
    /\ IF period[id] = 0
         THEN /\ due' = Restrict(due, DOMAIN due \ {id})
              /\ period' = Restrict(period, DOMAIN due \ {id})
         ELSE /\ due' = [due EXCEPT ![id] = @ + period[id]]
              /\ UNCHANGED period
    /\ UNCHANGED <<now, issued>>

Delivered ==
    /\ delivering.busy
    /\ delivering' = None
    /\ UNCHANGED <<now, issued, due, period>>

Tick == now' = now + 1 /\ UNCHANGED <<issued, due, period, delivering>>

Next ==
    \/ \E delay \in Delays, interval \in Periods : Schedule(delay, interval)
    \/ \E gone \in SUBSET DOMAIN due : Remove(gone)
    \/ \E id \in DOMAIN due : Deliver(id)
    \/ Delivered
    \/ Tick

Spec == Init /\ [][Next]_vars
=============================================================================
