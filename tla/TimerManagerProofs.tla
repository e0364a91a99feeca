------------------------- MODULE TimerManagerProofs -------------------------
(***************************************************************************)
(* What the timer manager keeps for every number of callers, handlers and  *)
(* timers: each wake-up event belongs to a registered timer, a removed     *)
(* timer is reported once, the thread is joined once, only a reset in the  *)
(* handler doubles a timer, and a due timer keeps the thread awake.        *)
(***************************************************************************)
EXTENDS TimerManager, FiniteSetTheorems, WellFoundedInduction, TLAPS

\* Timers still to be reported were issued before.
OwedIssued == \A c \in Callers : caller[c].owed \subseteq 0 .. next_timer_id - 1

\* The thread is running, or being joined, only once it was started.
StartedFirst ==
    /\ running => pc # "none"
    /\ \A c \in Callers : caller[c].at = "joining" => pc # "none"

IInv == TypeOK /\ EventsRegistered /\ RemovedOnce /\ OwedIssued /\ OneJoiner /\ StartedFirst

-----------------------------------------------------------------------------
\* What the operations on the multimap do to its members.
LEMMA EmplaceMembers ==
    ASSUME NEW E, NEW t, NEW id, NEW e \in Emplace(E, t, id)
    PROVE  e \in E \/ (e.time = t /\ e.id = id)
BY DEF Emplace

LEMMA RenumberMembers ==
    ASSUME NEW E, NEW e \in Renumber(E)
    PROVE  \E f \in E : e.time = f.time /\ e.id = f.id
BY DEF Renumber

LEMMA EraseMembers ==
    ASSUME NEW E, NEW ids, NEW e \in EraseEvents(E, ids)
    PROVE  e.id \notin ids /\ \E f \in E : e.time = f.time /\ e.id = f.id
<1> DEFINE K == {f \in E : f.id \notin ids}
<1>1. \E f \in K : e.time = f.time /\ e.id = f.id
  BY RenumberMembers DEF EraseEvents
<1> QED  BY <1>1

LEMMA PoppedMembers ==
    ASSUME NEW p, NEW e \in Popped(p)
    PROVE  \E f \in timer_events : e.time = f.time /\ e.id = f.id
BY DEF Popped, Renumber

LEMMA NotifiedState ==
    ASSUME NEW s \in ThreadStates
    PROVE  Notified(s) \in ThreadStates /\ (Notified(s) = "none" <=> s = "none")
BY DEF Notified, ThreadStates

-----------------------------------------------------------------------------
LEMMA InitIInv == Init => IInv
<1> SUFFICES ASSUME Init PROVE IInv  OBVIOUS
<1>1. DOMAIN timers = {} /\ timers = [id \in {} |-> 0]
  BY DEF Init, NoTimers
<1>2. timers \in [DOMAIN timers -> [handler : Handlers, interval : Nat]]
  BY <1>1
<1>3. TypeOK
  BY <1>1, <1>2 DEF Init, TypeOK, Idle, ThreadStates, CallerStates
<1>4. EventsRegistered /\ RemovedOnce /\ OwedIssued /\ OneJoiner /\ StartedFirst
  BY DEF Init, EventsRegistered, RemovedOnce, OwedIssued, OneJoiner, StartedFirst, Idle
<1> QED  BY <1>3, <1>4 DEF IInv

\* One event more for a registered timer keeps the events registered and typed.
LEMMA EmplaceRegistered ==
    ASSUME NEW E, NEW D, NEW t \in Nat, NEW id \in D, D \subseteq Nat,
           \A e \in E : e.time \in Nat /\ e.id \in D
    PROVE  \A e \in Emplace(E, t, id) : e.time \in Nat /\ e.id \in Nat /\ e.id \in D
<1> SUFFICES ASSUME NEW e \in Emplace(E, t, id)
             PROVE  e.time \in Nat /\ e.id \in Nat /\ e.id \in D
  OBVIOUS
<1>1. e \in E \/ (e.time = t /\ e.id = id)  BY EmplaceMembers
<1> QED  BY <1>1

LEMMA ScheduleIInv ==
    ASSUME IInv, NEW c \in Callers, NEW h \in Handlers, NEW d \in Delays,
           NEW i \in Intervals, ScheduleTimer(c, h, d, i)
    PROVE  IInv'
<1> USE DEF IInv
<1> DEFINE D == DOMAIN timers \cup {next_timer_id}
<1>1. D \subseteq Nat /\ D \subseteq 0 .. next_timer_id' - 1 /\ DOMAIN timers' = D
  BY DEF ScheduleTimer, TypeOK, IdIncremented
<1>2. /\ timers' \in [D -> [handler : Handlers, interval : Nat]]
      /\ next_timer_id' \in Nat
  BY DurationsAssumption DEF ScheduleTimer, TypeOK, IdIncremented
<1>3. \A e \in timer_events' : e.time \in Nat /\ e.id \in Nat /\ e.id \in D
  <2>1. now + d \in Nat  BY DurationsAssumption DEF TypeOK
  <2>2. \A e \in timer_events : e.time \in Nat /\ e.id \in D
    BY DEF TypeOK, EventsRegistered
  <2>3. timer_events' = Emplace(timer_events, now + d, next_timer_id)
    BY DEF ScheduleTimer
  <2> QED  BY <1>1, <2>1, <2>2, <2>3, EmplaceRegistered
<1>4. pc' \in ThreadStates /\ (pc' = "none" <=> pc = "none")
  BY NotifiedState DEF ScheduleTimer, TypeOK
<1>5. TypeOK' /\ EventsRegistered'
  BY <1>1, <1>2, <1>3, <1>4 DEF ScheduleTimer, TypeOK, EventsRegistered
<1>6. RemovedOnce' /\ OwedIssued'
  BY <1>1 DEF ScheduleTimer, RemovedOnce, OwedIssued, TypeOK, IdIncremented
<1>7. OneJoiner' /\ StartedFirst'
  BY <1>4 DEF ScheduleTimer, OneJoiner, StartedFirst
<1> QED  BY <1>5, <1>6, <1>7

LEMMA ResetIInv ==
    ASSUME IInv, NEW c \in Callers, NEW id \in DOMAIN timers,
           NEW i \in ResetIntervals, ResetTimerInterval(c, id, i)
    PROVE  IInv'
<1> USE DEF IInv
<1>1. DOMAIN timers' = DOMAIN timers
  BY DEF ResetTimerInterval
<1>2. timers' \in [DOMAIN timers -> [handler : Handlers, interval : Nat]]
  BY DurationsAssumption DEF ResetTimerInterval, TypeOK
<1>3. \A e \in timer_events' : e.time \in Nat /\ e.id \in Nat /\ e.id \in DOMAIN timers
  <2>1. now + i \in Nat /\ DOMAIN timers \subseteq Nat
    BY DurationsAssumption DEF TypeOK
  <2>2. \A e \in EraseEvents(timer_events, {id}) : e.time \in Nat /\ e.id \in DOMAIN timers
    BY EraseMembers DEF TypeOK, EventsRegistered
  <2>3. timer_events' = Emplace(EraseEvents(timer_events, {id}), now + i, id)
    BY DEF ResetTimerInterval, ResetEvents
  <2> QED  BY <2>1, <2>2, <2>3, EmplaceRegistered
<1>4. pc' \in ThreadStates /\ (pc' = "none" <=> pc = "none")
  BY NotifiedState DEF ResetTimerInterval, TypeOK
<1>5. TypeOK' /\ EventsRegistered'
  BY <1>1, <1>2, <1>3, <1>4 DEF ResetTimerInterval, TypeOK, EventsRegistered
<1>6. RemovedOnce' /\ OwedIssued' /\ OneJoiner' /\ StartedFirst'
  BY <1>1, <1>4 DEF ResetTimerInterval, RemovedOnce, OwedIssued, OneJoiner, StartedFirst
<1> QED  BY <1>5, <1>6

LEMMA RemoveIInv ==
    ASSUME IInv, NEW c \in Callers, NEW gone \in SUBSET DOMAIN timers,
           NEW at \in CallerStates \ {"joining"}, RemoveTimers(c, gone, at)
    PROVE  IInv'
<1> USE DEF IInv
<1>1. /\ DOMAIN timers' = DOMAIN timers \ gone
      /\ timers' \in [DOMAIN timers \ gone -> [handler : Handlers, interval : Nat]]
  BY DEF RemoveTimers, Restrict, TypeOK
<1>2. \A e \in timer_events' :
        e.time \in Nat /\ e.id \in Nat /\ e.id \in DOMAIN timers \ gone
  BY EraseMembers DEF RemoveTimers, TypeOK, EventsRegistered
<1>3. pc' \in ThreadStates /\ (pc' = "none" <=> pc = "none")
  BY NotifiedState DEF RemoveTimers, TypeOK
<1>4. /\ gone \subseteq 0 .. next_timer_id - 1
      /\ gone \in SUBSET Nat
  BY DEF TypeOK
<1>5. caller' = [caller EXCEPT ![c] = [at |-> at, owed |-> gone]]
  BY DEF RemoveTimers
<1>6. TypeOK' /\ EventsRegistered'
  <2>1. caller' \in [Callers -> [at : CallerStates, owed : SUBSET Nat]]
    BY <1>4, <1>5 DEF TypeOK
  <2> QED  BY <1>1, <1>2, <1>3, <2>1 DEF RemoveTimers, TypeOK, EventsRegistered
<1>7. \A d \in Callers : caller'[d] = IF d = c THEN [at |-> at, owed |-> gone] ELSE caller[d]
  BY <1>5 DEF TypeOK
<1>8. RemovedOnce' /\ OwedIssued'
  BY <1>1, <1>4, <1>7 DEF RemoveTimers, RemovedOnce, OwedIssued
<1>9. OneJoiner' /\ StartedFirst'
  BY <1>3, <1>7 DEF RemoveTimers, OneJoiner, StartedFirst
<1> QED  BY <1>6, <1>8, <1>9

LEMMA ClearIInv ==
    ASSUME IInv, NEW c \in Callers, NEW at \in CallerStates \ {"joining"}, ClearTimers(c, at)
    PROVE  IInv'
<1> USE DEF IInv
<1>1. /\ DOMAIN timers' = {} /\ timer_events' = {}
      /\ timers' \in [{} -> [handler : Handlers, interval : Nat]]
  BY DEF ClearTimers, NoTimers
<1>2. pc' \in ThreadStates /\ (pc' = "none" <=> pc = "none")
  BY NotifiedState DEF ClearTimers, TypeOK
<1>3. caller' = [caller EXCEPT ![c] = [at |-> at, owed |-> DOMAIN timers]]
  BY DEF ClearTimers
<1>4. DOMAIN timers \in SUBSET Nat
  BY DEF TypeOK
<1>5. caller' \in [Callers -> [at : CallerStates, owed : SUBSET Nat]]
  BY <1>3, <1>4 DEF TypeOK
<1>6. TypeOK' /\ EventsRegistered'
  BY <1>1, <1>2, <1>5 DEF ClearTimers, TypeOK, EventsRegistered
<1>7. \A d \in Callers :
        caller'[d] = IF d = c THEN [at |-> at, owed |-> DOMAIN timers] ELSE caller[d]
  BY <1>3 DEF TypeOK
<1>8. RemovedOnce' /\ OwedIssued'
  BY <1>1, <1>7 DEF ClearTimers, RemovedOnce, OwedIssued, TypeOK
<1>9. OneJoiner' /\ StartedFirst'
  BY <1>2, <1>7 DEF ClearTimers, OneJoiner, StartedFirst
<1> QED  BY <1>6, <1>8, <1>9
-----------------------------------------------------------------------------
\* The steps of a caller after it released the lock change no table.
LEMMA ProceedIInv ==
    ASSUME IInv, NEW c \in Callers, Proceed(c)
    PROVE  IInv'
<1> USE DEF IInv
<1>1. UNCHANGED <<now, tables, current>>
  BY DEF Proceed, TimerCancelled, TimerDeleted, DeletedAll, StopThread, Joined
<1>2. EventsRegistered'
  BY <1>1 DEF tables, EventsRegistered
<1>3. /\ pc' \in ThreadStates /\ (pc' = "none" <=> pc = "none")
      /\ running' \in BOOLEAN
  BY NotifiedState
     DEF Proceed, TimerCancelled, TimerDeleted, DeletedAll, StopThread, Joined, TypeOK
<1>4. /\ caller' \in [Callers -> [at : CallerStates, owed : SUBSET Nat]]
      /\ \A d \in Callers : d # c => caller'[d] = caller[d]
      /\ caller'[c].owed \subseteq caller[c].owed
      /\ caller'[c].at = "joining" => running /\ ~running'
      /\ running' => running
  <2> USE DEF TypeOK
  <2>1. CASE TimerCancelled(c)
    BY <2>1 DEF TimerCancelled, Idle, CallerStates
  <2>2. CASE TimerDeleted(c)
    BY <2>2 DEF TimerDeleted
  <2>3. CASE DeletedAll(c)
    BY <2>3 DEF DeletedAll, Idle, CallerStates
  <2>4. CASE \E wait \in BOOLEAN : StopThread(c, wait)
    BY <2>4 DEF StopThread, Idle, CallerStates
  <2>5. CASE Joined(c)
    BY <2>5 DEF Joined, Idle, CallerStates
  <2> QED  BY <2>1, <2>2, <2>3, <2>4, <2>5 DEF Proceed
<1>5. TypeOK'
  BY <1>1, <1>3, <1>4 DEF TypeOK, tables
<1>6. RemovedOnce' /\ OwedIssued'
  BY <1>1, <1>4 DEF RemovedOnce, OwedIssued, tables
<1>7. OneJoiner' /\ StartedFirst'
  BY <1>3, <1>4 DEF OneJoiner, StartedFirst
<1> QED  BY <1>2, <1>5, <1>6, <1>7

\* The timer thread never leaves the set of registered timers.
LEMMA ThreadIInv ==
    ASSUME IInv, Thread \/ SpuriousWakeup
    PROVE  IInv'
<1> USE DEF IInv
<1>1. UNCHANGED <<now, running, next_timer_id, timers, caller>>
  BY DEF Thread, SpuriousWakeup, WaitForFirst, WaitForNext, PopExpired, TimerExpired,
         HandlerReturned, WaitTimedOut, TestRunning, tables
<1>2. pc' \in ThreadStates /\ pc' # "none" /\ pc # "none"
  BY DEF Thread, SpuriousWakeup, WaitForFirst, WaitForNext, PopExpired, TimerExpired,
         HandlerReturned, WaitTimedOut, TestRunning, ThreadStates
<1>3. /\ \A e \in timer_events' : e.time \in Nat /\ e.id \in Nat /\ e.id \in DOMAIN timers
      /\ current' \in [time : Nat, id : Nat, interval : Nat]
  <2>0. \A e \in timer_events : e.time \in Nat /\ e.id \in Nat /\ e.id \in DOMAIN timers
    BY DEF TypeOK, EventsRegistered
  <2>1. CASE WaitForNext
    BY <2>0, <2>1 DEF WaitForNext, TypeOK, tables
  <2>2. CASE PopExpired
    <3>1. PICK p \in timer_events :
             /\ timer_events' = Popped(p)
             /\ current' = [time |-> p.time, id |-> p.id, interval |-> timers[p.id].interval]
      BY <2>2 DEF PopExpired
    <3>2. timers[p.id].interval \in Nat
      BY <2>0 DEF TypeOK
    <3> QED  BY <2>0, <3>1, <3>2, PoppedMembers
  <2>3. CASE HandlerReturned
    <3>1. current' = current  BY <2>3 DEF HandlerReturned
    <3>2. CASE Requeues(current.id)
      <4>1. NextWakeup \in Nat  BY DEF NextWakeup, TypeOK
      <4>2. timer_events' = Emplace(timer_events, NextWakeup, current.id)
        BY <2>3, <3>2 DEF HandlerReturned
      <4>3. current.id \in DOMAIN timers /\ DOMAIN timers \subseteq Nat
        BY <3>2 DEF Requeues, TypeOK
      <4> QED  BY <2>0, <3>1, <4>1, <4>2, <4>3, EmplaceRegistered DEF TypeOK
    <3>3. CASE ~Requeues(current.id)
      BY <2>0, <2>3, <3>1, <3>3 DEF HandlerReturned, TypeOK
    <3> QED  BY <3>2, <3>3
  <2>4. CASE UNCHANGED <<tables, current>>
    BY <2>0, <2>4 DEF tables, TypeOK
  <2> QED
    BY <2>1, <2>2, <2>3, <2>4
       DEF Thread, SpuriousWakeup, WaitForFirst, TimerExpired, WaitTimedOut, TestRunning
<1>4. TypeOK' /\ EventsRegistered'
  BY <1>1, <1>2, <1>3 DEF TypeOK, EventsRegistered
<1>5. RemovedOnce' /\ OwedIssued' /\ OneJoiner' /\ StartedFirst'
  BY <1>1, <1>2 DEF RemovedOnce, OwedIssued, OneJoiner, StartedFirst
<1> QED  BY <1>4, <1>5

LEMMA CallIInv ==
    ASSUME IInv, NEW c \in Callers, Call(c)
    PROVE  IInv'
<1>1. CASE StartTimerThread(c)
  BY <1>1 DEF StartTimerThread, IInv, TypeOK, EventsRegistered, RemovedOnce, OwedIssued,
              OneJoiner, StartedFirst, ThreadStates, tables
<1>2. CASE \E h \in Handlers, d \in Delays, i \in Intervals : ScheduleTimer(c, h, d, i)
  BY <1>2, ScheduleIInv
<1>3. CASE \E id \in DOMAIN timers, i \in ResetIntervals : ResetTimerInterval(c, id, i)
  BY <1>3, ResetIInv
<1>4. CASE \E id \in DOMAIN timers : CancelTimer(c, id)
  <2>1. PICK id \in DOMAIN timers : RemoveTimers(c, {id}, "cancelled")
    BY <1>4 DEF CancelTimer
  <2>2. {id} \in SUBSET DOMAIN timers /\ "cancelled" \in CallerStates \ {"joining"}
    BY DEF CallerStates
  <2> QED  BY <2>1, <2>2, RemoveIInv
<1>5. CASE \E h \in Handlers : CancelTimersOf(c, h)
  <2>1. PICK h \in Handlers : CancelTimersOf(c, h)  BY <1>5
  <2>2. CASE TimersOf(h) = {}
    <3>1. caller' = [caller EXCEPT ![c] = [at |-> "cancelled", owed |-> {}]]
      BY <2>1, <2>2 DEF CancelTimersOf
    <3>2. UNCHANGED <<now, running, tables, pc, current>>
      BY <2>1, <2>2 DEF CancelTimersOf
    <3>3. \A d \in Callers :
            caller'[d] = IF d = c THEN [at |-> "cancelled", owed |-> {}] ELSE caller[d]
      BY <3>1 DEF IInv, TypeOK
    <3>4. caller' \in [Callers -> [at : CallerStates, owed : SUBSET Nat]]
      BY <3>1 DEF IInv, TypeOK, CallerStates
    <3>5. TypeOK' /\ EventsRegistered'
      BY <3>2, <3>4 DEF IInv, TypeOK, EventsRegistered, tables
    <3>6. RemovedOnce' /\ OwedIssued' /\ OneJoiner' /\ StartedFirst'
      BY <3>2, <3>3 DEF IInv, RemovedOnce, OwedIssued, OneJoiner, StartedFirst, tables
    <3> QED  BY <3>5, <3>6 DEF IInv
  <2>3. CASE TimersOf(h) # {}
    <3>1. RemoveTimers(c, TimersOf(h), "cancelled")
      BY <2>1, <2>3 DEF CancelTimersOf
    <3>2. TimersOf(h) \in SUBSET DOMAIN timers /\ "cancelled" \in CallerStates \ {"joining"}
      BY DEF CallerStates, TimersOf
    <3> QED  BY <3>1, <3>2, RemoveIInv
  <2> QED  BY <2>2, <2>3
<1>6. CASE DeleteAllTimers(c) \/ BeginShutdown(c)
  <2>1. PICK at \in {"deleted", "shutdown"} : ClearTimers(c, at)
    BY <1>6 DEF DeleteAllTimers, BeginShutdown
  <2>2. at \in CallerStates \ {"joining"}
    BY DEF CallerStates
  <2> QED  BY <2>1, <2>2, ClearIInv
<1> QED  BY <1>1, <1>2, <1>3, <1>4, <1>5, <1>6 DEF Call

LEMMA NextIInv == IInv /\ [Next]_vars => IInv'
<1> SUFFICES ASSUME IInv, [Next]_vars PROVE IInv'  OBVIOUS
<1>1. CASE Thread \/ SpuriousWakeup
  BY <1>1, ThreadIInv
<1>2. CASE \E c \in Callers : Call(c)
  BY <1>2, CallIInv
<1>3. CASE \E c \in Callers : Proceed(c)
  BY <1>3, ProceedIInv
<1>4. CASE Tick
  BY <1>4 DEF Tick, IInv, TypeOK, EventsRegistered, RemovedOnce, OwedIssued, OneJoiner,
              StartedFirst, tables
<1>5. CASE UNCHANGED vars
  BY <1>5 DEF vars, IInv, TypeOK, EventsRegistered, RemovedOnce, OwedIssued, OneJoiner,
              StartedFirst
<1> QED  BY <1>1, <1>2, <1>3, <1>4, <1>5 DEF Next

\* The inductive invariant holds in every reachable state.
THEOREM Invariance == Spec => []IInv
<1>1. Init => IInv  BY InitIInv
<1>2. IInv /\ [Next]_vars => IInv'  BY NextIInv
<1> QED  BY <1>1, <1>2, PTL DEF Spec

\* All variables keep their types, the timers' identifiers below the counter that
\* issues them.
THEOREM TypeCorrect == Spec => []TypeOK
<1>1. IInv => TypeOK  BY DEF IInv
<1> QED  BY <1>1, Invariance, PTL

\* timers[currentTimerId] in timerRunnable always finds a registered timer.
THEOREM EventsAreRegistered == Spec => []EventsRegistered
<1>1. IInv => EventsRegistered  BY DEF IInv
<1> QED  BY <1>1, Invariance, PTL

\* No timer is handed back twice by concurrent cancellations and deletions.
THEOREM TimersAreRemovedOnce == Spec => []RemovedOnce
<1>1. IInv => RemovedOnce  BY DEF IInv
<1> QED  BY <1>1, Invariance, PTL

\* The timer thread is joined by one caller at most, after it was told to stop.
THEOREM JoinedOnce == Spec => []OneJoiner
<1>1. IInv => OneJoiner  BY DEF IInv
<1> QED  BY <1>1, Invariance, PTL

-----------------------------------------------------------------------------
\* A periodic timer has an event, or the thread handles it and has copied an interval
\* that makes it put the next event back: the copy may be older than a reset.
HasEvent(id) == \E e \in timer_events : e.id = id
Served(id) == HasEvent(id) \/ (Handling(id) /\ current.interval > 0)
PeriodicServed == \A id \in DOMAIN timers : timers[id].interval > 0 => Served(id)

\* The operations on the multimap lose no event but those they are told to.
LEMMA RenumberKeeps ==
    ASSUME NEW E, NEW f \in E
    PROVE  \E e \in Renumber(E) : e.id = f.id /\ e.time = f.time
<1> DEFINE e == [time |-> f.time, id |-> f.id, rank |-> Position(E, f)]
<1>1. e \in Renumber(E)  BY DEF Renumber
<1>2. e.id = f.id /\ e.time = f.time  OBVIOUS
<1> QED  BY <1>1, <1>2

LEMMA EraseKeeps ==
    ASSUME NEW E, NEW ids, NEW f \in E, f.id \notin ids
    PROVE  \E e \in EraseEvents(E, ids) : e.id = f.id /\ e.time = f.time
<1>1. f \in {g \in E : g.id \notin ids}  OBVIOUS
<1> QED  BY <1>1, RenumberKeeps DEF EraseEvents

LEMMA EmplaceKeeps ==
    ASSUME NEW E, NEW t, NEW id
    PROVE  /\ E \subseteq Emplace(E, t, id)
           /\ \E e \in Emplace(E, t, id) : e.id = id
<1> DEFINE e == [time |-> t, id |-> id, rank |-> LastPosition(E, t)]
<1>1. e \in Emplace(E, t, id) /\ E \subseteq Emplace(E, t, id)  BY DEF Emplace
<1>2. e.id = id  OBVIOUS
<1> QED  BY <1>1, <1>2

\* A notification interrupts no handler.
LEMMA NotifiedHandling ==
    ASSUME pc' = Notified(pc), UNCHANGED current, NEW id
    PROVE  Handling(id) /\ current.interval > 0 => Handling(id)' /\ current'.interval > 0
BY DEF Handling, Notified

LEMMA PeriodicCall ==
    ASSUME IInv, PeriodicServed, NEW c \in Callers, Call(c)
    PROVE  PeriodicServed'
<1>1. CASE StartTimerThread(c)
  BY <1>1 DEF StartTimerThread, PeriodicServed, Served, HasEvent, Handling, tables
<1>2. ASSUME NEW h \in Handlers, NEW d \in Delays, NEW i \in Intervals,
             ScheduleTimer(c, h, d, i)
      PROVE  PeriodicServed'
  <2> SUFFICES ASSUME NEW id \in DOMAIN timers', timers'[id].interval > 0
               PROVE  Served(id)'
    BY DEF PeriodicServed
  <2>1. timer_events' = Emplace(timer_events, now + d, next_timer_id)
    BY <1>2 DEF ScheduleTimer
  <2>2. CASE id = next_timer_id
    BY <2>1, <2>2, EmplaceKeeps DEF Served, HasEvent
  <2>3. CASE id # next_timer_id
    <3>1. id \in DOMAIN timers /\ timers'[id] = timers[id]
      BY <1>2, <2>3 DEF ScheduleTimer
    <3>2. Served(id)
      BY <3>1 DEF PeriodicServed
    <3>3. pc' = Notified(pc) /\ UNCHANGED current
      BY <1>2 DEF ScheduleTimer
    <3> QED  BY <2>1, <3>2, <3>3, EmplaceKeeps, NotifiedHandling DEF Served, HasEvent
  <2> QED  BY <2>2, <2>3
<1>3. ASSUME NEW i \in ResetIntervals, NEW reset \in DOMAIN timers,
             ResetTimerInterval(c, reset, i)
      PROVE  PeriodicServed'
  <2> SUFFICES ASSUME NEW id \in DOMAIN timers', timers'[id].interval > 0
               PROVE  Served(id)'
    BY DEF PeriodicServed
  <2> DEFINE kept == EraseEvents(timer_events, {reset})
  <2>1. timer_events' = Emplace(kept, now + i, reset)
    BY <1>3 DEF ResetTimerInterval, ResetEvents
  <2>2. CASE id = reset
    BY <2>1, <2>2, EmplaceKeeps DEF Served, HasEvent
  <2>3. CASE id # reset
    <3>1. id \in DOMAIN timers /\ timers'[id] = timers[id]
      BY <1>3, <2>3 DEF ResetTimerInterval
    <3>2. Served(id)
      BY <3>1 DEF PeriodicServed
    <3>3. HasEvent(id) => \E e \in kept : e.id = id
      BY <2>3, EraseKeeps DEF HasEvent
    <3>4. pc' = Notified(pc) /\ UNCHANGED current
      BY <1>3 DEF ResetTimerInterval
    <3> QED  BY <2>1, <3>2, <3>3, <3>4, EmplaceKeeps, NotifiedHandling DEF Served, HasEvent
  <2> QED  BY <2>2, <2>3
<1>4. ASSUME NEW gone, NEW at, RemoveTimers(c, gone, at)
      PROVE  PeriodicServed'
  <2> SUFFICES ASSUME NEW id \in DOMAIN timers', timers'[id].interval > 0
               PROVE  Served(id)'
    BY DEF PeriodicServed
  <2>1. id \in DOMAIN timers /\ id \notin gone /\ timers'[id] = timers[id]
    BY <1>4 DEF RemoveTimers, Restrict
  <2>2. Served(id)
    BY <2>1 DEF PeriodicServed
  <2>3. /\ timer_events' = EraseEvents(timer_events, gone)
        /\ pc' = Notified(pc)
        /\ UNCHANGED current
    BY <1>4 DEF RemoveTimers
  <2>4. HasEvent(id) => HasEvent(id)'
    BY <2>1, <2>3, EraseKeeps DEF HasEvent
  <2> QED  BY <2>2, <2>3, <2>4, NotifiedHandling DEF Served
<1>5. ASSUME NEW at, ClearTimers(c, at)
      PROVE  PeriodicServed'
  <2>1. DOMAIN timers' = {}
    BY <1>5 DEF ClearTimers, NoTimers
  <2> QED  BY <2>1 DEF PeriodicServed
<1>6. CASE \E id \in DOMAIN timers : CancelTimer(c, id)
  BY <1>4, <1>6 DEF CancelTimer
<1>7. CASE \E h \in Handlers : CancelTimersOf(c, h)
  <2>1. PICK h \in Handlers : CancelTimersOf(c, h)  BY <1>7
  <2>2. CASE TimersOf(h) = {}
    BY <2>1, <2>2
       DEF CancelTimersOf, PeriodicServed, Served, HasEvent, Handling, tables
  <2>3. CASE TimersOf(h) # {}
    <3>1. RemoveTimers(c, TimersOf(h), "cancelled")
      BY <2>1, <2>3 DEF CancelTimersOf
    <3> QED  BY <1>4, <3>1
  <2> QED  BY <2>2, <2>3
<1>8. CASE DeleteAllTimers(c) \/ BeginShutdown(c)
  BY <1>5, <1>8 DEF DeleteAllTimers, BeginShutdown
<1> QED  BY <1>1, <1>2, <1>3, <1>6, <1>7, <1>8 DEF Call

LEMMA PeriodicThread ==
    ASSUME IInv, PeriodicServed, Thread \/ SpuriousWakeup
    PROVE  PeriodicServed'
<1> SUFFICES ASSUME NEW id \in DOMAIN timers', timers'[id].interval > 0
             PROVE  Served(id)'
  BY DEF PeriodicServed
<1>1. timers' = timers
  BY DEF Thread, SpuriousWakeup, WaitForFirst, WaitForNext, PopExpired, TimerExpired,
         HandlerReturned, WaitTimedOut, TestRunning, tables
<1>2. Served(id)
  BY <1>1 DEF PeriodicServed
<1>3. CASE PopExpired
  <2>1. PICK p \in timer_events :
           /\ timer_events' = Popped(p)
           /\ current' = [time |-> p.time, id |-> p.id, interval |-> timers[p.id].interval]
    BY <1>3 DEF PopExpired
  <2>2. CASE id = p.id
    BY <1>1, <1>3, <2>1, <2>2 DEF PopExpired, Served, Handling
  <2>3. CASE id # p.id
    <3>1. PICK f \in timer_events : f.id = id
      BY <1>2, <1>3 DEF PopExpired, Served, HasEvent, Handling
    <3>2. f \in timer_events \ {p}
      BY <2>3, <3>1
    <3> QED  BY <2>1, <3>1, <3>2, RenumberKeeps DEF Popped, Served, HasEvent
  <2> QED  BY <2>2, <2>3
<1>4. CASE HandlerReturned
  <2>1. CASE HasEvent(id)
    <3>1. timer_events \subseteq timer_events'
      BY <1>4, EmplaceKeeps DEF HandlerReturned
    <3> QED  BY <2>1, <3>1 DEF HasEvent, Served
  <2>2. CASE Handling(id) /\ current.interval > 0
    <3>1. Requeues(current.id) /\ current.id = id
      BY <1>1, <2>2 DEF Requeues, Handling
    <3>2. timer_events' = Emplace(timer_events, NextWakeup, id)
      BY <1>4, <3>1 DEF HandlerReturned
    <3> QED  BY <3>2, EmplaceKeeps DEF HasEvent, Served
  <2> QED  BY <1>2, <2>1, <2>2 DEF Served
<1>5. CASE TimerExpired
  BY <1>2, <1>5 DEF TimerExpired, Served, HasEvent, Handling, tables
<1>6. CASE WaitForFirst \/ WaitForNext \/ WaitTimedOut \/ TestRunning \/ SpuriousWakeup
  <2>1. timer_events' = timer_events /\ pc \notin {"expired", "handler"}
    BY <1>6 DEF WaitForFirst, WaitForNext, WaitTimedOut, TestRunning, SpuriousWakeup, tables
  <2> QED  BY <1>2, <2>1 DEF Served, HasEvent, Handling
<1> QED  BY <1>3, <1>4, <1>5, <1>6 DEF Thread

LEMMA PeriodicStep == IInv /\ PeriodicServed /\ [Next]_vars => PeriodicServed'
<1> SUFFICES ASSUME IInv, PeriodicServed, [Next]_vars PROVE PeriodicServed'  OBVIOUS
<1>1. CASE \E c \in Callers : Proceed(c)
  <2>1. UNCHANGED <<tables, current>> /\ (pc' = pc \/ pc' = Notified(pc))
    BY <1>1 DEF Proceed, TimerCancelled, TimerDeleted, DeletedAll, StopThread, Joined
  <2> QED  BY <2>1 DEF PeriodicServed, Served, HasEvent, Handling, Notified, tables
<1>2. CASE Tick \/ UNCHANGED vars
  BY <1>2 DEF Tick, vars, PeriodicServed, Served, HasEvent, Handling, tables
<1> QED  BY <1>1, <1>2, PeriodicCall, PeriodicThread DEF Next

\* A periodic timer that nobody has removed never falls silent, whatever resets of
\* its interval overlap its handler.
THEOREM PeriodicTimersStay == Spec => []PeriodicNeverLost
<1>1. Init => PeriodicServed
  <2>1. Init => DOMAIN timers = {}  BY DEF Init, NoTimers
  <2> QED  BY <2>1 DEF PeriodicServed
<1>2. PeriodicServed => PeriodicNeverLost
  BY DEF PeriodicServed, Served, HasEvent, PeriodicNeverLost
<1> QED  BY <1>1, <1>2, PeriodicStep, Invariance, PTL DEF Spec

-----------------------------------------------------------------------------
\* Without resets a timer has one event at most: in its handler it has none, so the event
\* put back afterwards is its only one.
OneEventPerTimer == \A e, f \in timer_events : e.id = f.id => e = f
OneInv ==
    /\ OneEventPerTimer
    /\ \A e \in timer_events : ~Handling(e.id)
    /\ pc \in {"expired", "handler"} => current.id < next_timer_id

\* An event for a timer that has none keeps the events distinct.
LEMMA EmplaceDistinct ==
    ASSUME NEW E, NEW t, NEW id,
           \A e \in E : e.id # id,
           \A e, f \in E : e.id = f.id => e = f
    PROVE  \A e, f \in Emplace(E, t, id) : e.id = f.id => e = f
BY DEF Emplace

LEMMA RenumberDistinct ==
    ASSUME NEW E, \A e, f \in E : e.id = f.id => e = f
    PROVE  \A e, f \in Renumber(E) : e.id = f.id => e = f
BY DEF Renumber

LEMMA EraseDistinct ==
    ASSUME NEW E, NEW ids, \A e, f \in E : e.id = f.id => e = f
    PROVE  \A e, f \in EraseEvents(E, ids) : e.id = f.id => e = f
BY RenumberDistinct DEF EraseEvents

\* Callers that only erase events, and leave the thread where it is in a handler.
LEMMA EraseOneInv ==
    ASSUME OneInv, NEW ids,
           \/ timer_events' = EraseEvents(timer_events, ids)
           \/ timer_events' \in {{}, timer_events},
           pc' \in {pc, "none", "top", "test", "wait", "waitUntil", "exited"},
           UNCHANGED <<next_timer_id, current>>
    PROVE  OneInv'
<1>1. \A e, f \in timer_events' : e.id = f.id => e = f
  BY EraseDistinct DEF OneInv, OneEventPerTimer
<1>2. \A e \in timer_events' : \E f \in timer_events : e.id = f.id
  BY EraseMembers
<1>3. \A id : Handling(id)' => Handling(id)
  BY DEF Handling
<1> QED  BY <1>1, <1>2, <1>3 DEF OneInv, OneEventPerTimer

LEMMA OneInvStep ==
    ASSUME ResetIntervals = {}, IInv, OneInv, [Next]_vars
    PROVE  OneInv'
<1>1. CASE \E c \in Callers, h \in Handlers, d \in Delays, i \in Intervals :
              ScheduleTimer(c, h, d, i)
  <2>1. PICK d \in Delays : timer_events' = Emplace(timer_events, now + d, next_timer_id)
    BY <1>1 DEF ScheduleTimer
  <2>2. \A e \in timer_events : e.id # next_timer_id
    BY DEF IInv, TypeOK, EventsRegistered
  <2>3. OneEventPerTimer'
    BY <2>1, <2>2, EmplaceDistinct DEF OneInv, OneEventPerTimer
  <2>4. /\ pc' \in {"expired", "handler"} => pc \in {"expired", "handler"}
        /\ current' = current
        /\ next_timer_id' = next_timer_id + 1
        /\ next_timer_id \in Nat
        /\ current.id \in Nat
    BY <1>1 DEF ScheduleTimer, Notified, IdIncremented, IInv, TypeOK
  <2>5. \A e \in timer_events' : ~Handling(e.id)'
    <3> SUFFICES ASSUME NEW e \in timer_events', Handling(e.id)' PROVE FALSE
      OBVIOUS
    <3>1. Handling(e.id)
      BY <2>4 DEF Handling
    <3>2. e.id = next_timer_id
      BY <2>1, <3>1, EmplaceMembers DEF OneInv
    <3> QED  BY <2>4, <3>1, <3>2 DEF Handling, OneInv
  <2>6. (pc \in {"expired", "handler"} => current.id < next_timer_id)'
    BY <2>4 DEF OneInv
  <2> QED  BY <2>3, <2>5, <2>6 DEF OneInv
<1>2. CASE \E c \in Callers : Call(c) /\ next_timer_id' = next_timer_id
  <2>1. PICK c \in Callers : Call(c) /\ next_timer_id' = next_timer_id
    BY <1>2
  <2>2. ~\E h \in Handlers, d \in Delays, i \in Intervals : ScheduleTimer(c, h, d, i)
    BY <2>1 DEF ScheduleTimer, IdIncremented, IInv, TypeOK
  <2>3. /\ current' = current
        /\ pc' \in {pc, "top", "test"}
        /\ \E ids : \/ timer_events' = EraseEvents(timer_events, ids)
                   \/ timer_events' \in {{}, timer_events}
    BY <2>1, <2>2
       DEF Call, StartTimerThread, CancelTimer, CancelTimersOf, DeleteAllTimers,
           BeginShutdown, RemoveTimers, ClearTimers, Notified, tables
  <2> QED  BY <2>1, <2>3, EraseOneInv
<1>3. CASE \E c \in Callers : Proceed(c)
  <2>1. UNCHANGED <<tables, current>> /\ pc' \in {pc, "test"}
    BY <1>3 DEF Proceed, TimerCancelled, TimerDeleted, DeletedAll, StopThread, Joined, Notified
  <2> QED  BY <2>1, EraseOneInv DEF tables
<1>4. CASE PopExpired
  <2>1. PICK p \in timer_events :
           /\ timer_events' = Popped(p)
           /\ current'.id = p.id
    BY <1>4 DEF PopExpired
  <2> DEFINE rest == timer_events \ {p}
  <2>2. \A e \in rest : e.id # p.id
    BY DEF OneInv, OneEventPerTimer
  <2>3. OneEventPerTimer'
    BY <2>1, RenumberDistinct DEF OneInv, OneEventPerTimer, Popped
  <2>4. \A e \in timer_events' : \E f \in rest : e.id = f.id
    BY <2>1, RenumberMembers DEF Popped
  <2>5. \A e \in timer_events' : ~Handling(e.id)'
    BY <2>1, <2>2, <2>4 DEF Handling
  <2>6. p.id < next_timer_id /\ next_timer_id' = next_timer_id
    BY <1>4 DEF PopExpired, IInv, TypeOK, EventsRegistered
  <2> QED  BY <2>1, <2>3, <2>5, <2>6 DEF OneInv
<1>5. CASE HandlerReturned
  <2>1. \A e \in timer_events : e.id # current.id
    BY <1>5 DEF HandlerReturned, OneInv, Handling
  <2>2. \/ timer_events' = Emplace(timer_events, NextWakeup, current.id)
        \/ timer_events' = timer_events
    BY <1>5 DEF HandlerReturned
  <2>3. OneEventPerTimer'
    BY <2>1, <2>2, EmplaceDistinct DEF OneInv, OneEventPerTimer
  <2> QED  BY <1>5, <2>3 DEF HandlerReturned, OneInv, Handling
<1>6. CASE WaitForFirst \/ WaitForNext \/ WaitTimedOut \/ TestRunning \/ SpuriousWakeup
  <2>1. timer_events' = timer_events /\ pc' \notin {"expired", "handler"}
    BY <1>6 DEF WaitForFirst, WaitForNext, WaitTimedOut, TestRunning, SpuriousWakeup, tables
  <2> QED  BY <2>1 DEF OneInv, OneEventPerTimer, Handling
<1>7. CASE TimerExpired
  BY <1>7 DEF TimerExpired, OneInv, OneEventPerTimer, Handling, tables
<1>8. CASE Tick \/ UNCHANGED vars
  BY <1>8 DEF Tick, vars, OneInv, OneEventPerTimer, Handling, tables
<1>9. ASSUME NEW c \in Callers, Call(c)
      PROVE  \/ \E h \in Handlers, d \in Delays, i \in Intervals : ScheduleTimer(c, h, d, i)
             \/ next_timer_id' = next_timer_id
  BY <1>9 DEF Call, StartTimerThread, CancelTimer, CancelTimersOf, DeleteAllTimers,
             BeginShutdown, RemoveTimers, ClearTimers, tables
<1> QED  BY <1>1, <1>2, <1>3, <1>4, <1>5, <1>6, <1>7, <1>8, <1>9 DEF Next, Thread

-----------------------------------------------------------------------------
\* What doubles a timer, whatever is scheduled, reset and cancelled.
Two(E, id) == \E e, f \in E : e # f /\ e.id = id /\ f.id = id

\* The timer in its handler was issued before, so no new timer takes its identifier.
HandledIssued == pc \in {"expired", "handler"} => current.id < next_timer_id

LEMMA RenumberDoublesNone ==
    ASSUME NEW E, NEW id, Two(Renumber(E), id)
    PROVE  Two(E, id)
<1>1. PICK e, f \in Renumber(E) : e # f /\ e.id = id /\ f.id = id
  BY DEF Two
<1>2. PICK g \in E : e = [time |-> g.time, id |-> g.id, rank |-> Position(E, g)]
  BY <1>1 DEF Renumber
<1>3. PICK h \in E : f = [time |-> h.time, id |-> h.id, rank |-> Position(E, h)]
  BY <1>1 DEF Renumber
<1>4. g # h /\ g.id = id /\ h.id = id
  BY <1>1, <1>2, <1>3
<1> QED  BY <1>4 DEF Two

LEMMA EraseDoublesNone ==
    ASSUME NEW E, NEW ids, NEW id, Two(EraseEvents(E, ids), id)
    PROVE  Two(E, id)
<1>1. Two({e \in E : e.id \notin ids}, id)
  BY RenumberDoublesNone DEF EraseEvents
<1> QED  BY <1>1 DEF Two

\* A new event doubles the timer it is for, if that has one.
LEMMA EmplaceDoubles ==
    ASSUME NEW E, NEW t, NEW id, NEW other, Two(Emplace(E, t, id), other)
    PROVE  Two(E, other) \/ (other = id /\ \E e \in E : e.id = id)
BY DEF Two, Emplace

LEMMA NextHandledIssued == IInv /\ HandledIssued /\ [Next]_vars => HandledIssued'
<1> SUFFICES ASSUME IInv, HandledIssued, [Next]_vars PROVE HandledIssued'
  OBVIOUS
<1>0. next_timer_id \in Nat /\ current.id \in Nat
  BY DEF IInv, TypeOK
<1>1. CASE PopExpired
  <2>1. PICK p \in timer_events : current'.id = p.id
    BY <1>1 DEF PopExpired
  <2>2. p.id \in DOMAIN timers /\ DOMAIN timers \subseteq 0 .. next_timer_id - 1
    BY DEF IInv, TypeOK, EventsRegistered
  <2>3. p.id < next_timer_id
    BY <1>0, <2>2
  <2>4. next_timer_id' = next_timer_id
    BY <1>1 DEF PopExpired
  <2> QED  BY <2>1, <2>3, <2>4 DEF HandledIssued
<1>2. CASE \E c \in Callers : Call(c) \/ Proceed(c)
  <2>1. /\ current' = current /\ next_timer_id' \in {next_timer_id, next_timer_id + 1}
        /\ pc' \in {pc, "top", "test"}
    BY <1>2 DEF Call, Proceed, StartTimerThread, ScheduleTimer, IdIncremented,
                ResetTimerInterval, CancelTimer, CancelTimersOf, DeleteAllTimers, BeginShutdown,
                RemoveTimers, ClearTimers, TimerCancelled, TimerDeleted, DeletedAll, StopThread,
                Joined, Notified, tables
  <2> QED  BY <1>0, <2>1 DEF HandledIssued
<1>3. CASE (Thread /\ ~PopExpired) \/ SpuriousWakeup \/ Tick \/ UNCHANGED vars
  <2>1. /\ next_timer_id' = next_timer_id
        /\ pc' \in {"expired", "handler"} => pc \in {"expired", "handler"} /\ current' = current
    BY <1>3 DEF Thread, WaitForFirst, WaitForNext, TimerExpired, HandlerReturned, WaitTimedOut,
                TestRunning, SpuriousWakeup, Tick, vars, tables
  <2> QED  BY <2>1 DEF HandledIssued
<1> QED  BY <1>1, <1>2, <1>3 DEF Next

\* Only a reset while the handler runs doubles a timer.
LEMMA StepDoubles ==
    ASSUME IInv, HandledIssued, [Next]_vars, NEW id \in 0 .. MaxTimers - 1,
           ~Doubled(id), Doubled(id)'
    PROVE  id \in DueAgain /\ \E c \in Callers, interval \in ResetIntervals :
                                ResetTimerInterval(c, id, interval)
<1>0. ~Two(timer_events, id) /\ ~(id \in PendingIds /\ id \in DueAgain)
  BY DEF Doubled, Two
<1>1. Two(timer_events', id) \/ (id \in PendingIds' /\ id \in DueAgain')
  BY DEF Doubled, Two
<1>2. /\ \A e \in timer_events : e.id \in DOMAIN timers
      /\ DOMAIN timers \subseteq 0 .. next_timer_id - 1 /\ next_timer_id \in Nat
      /\ current.id \in Nat
  BY DEF IInv, TypeOK, EventsRegistered
\* It takes an event more, or a pop.
<1>3. ASSUME \A other \in timer_events' : \E e \in timer_events : e.id = other.id,
             ~Two(timer_events', id), id \in DueAgain' => id \in DueAgain
      PROVE  FALSE
  <2>1. id \in PendingIds' => id \in PendingIds
    BY <1>3 DEF PendingIds
  <2> QED  BY <1>0, <1>1, <1>3, <2>1
\* Callers and waits leave the handled timer as it is, or drop it.
<1>4. ASSUME current' = current, pc' \in {"expired", "handler"} => pc \in {"expired", "handler"},
             id \in DOMAIN timers' => id \in DOMAIN timers
      PROVE  id \in DueAgain' => id \in DueAgain
  BY <1>4 DEF DueAgain, Handling
<1>5. CASE \E c \in Callers, h \in Handlers, d \in Delays, i \in Intervals :
              ScheduleTimer(c, h, d, i)
  <2>1. PICK d \in Delays : timer_events' = Emplace(timer_events, now + d, next_timer_id)
    BY <1>5 DEF ScheduleTimer
  <2>2. /\ current' = current
        /\ pc' \in {"expired", "handler"} => pc \in {"expired", "handler"}
        /\ DOMAIN timers' = DOMAIN timers \cup {next_timer_id}
    BY <1>5 DEF ScheduleTimer, Notified
  <2>3. \A e \in timer_events : e.id # next_timer_id
    BY <1>2
  <2>4. ~Two(timer_events', id)
    BY <1>0, <2>1, <2>3, EmplaceDoubles
  <2>5. CASE id = next_timer_id
    <3>1. id \notin DueAgain'
      BY <1>2, <2>2, <2>5 DEF DueAgain, Handling, HandledIssued
    <3> QED  BY <1>1, <2>4, <3>1
  <2>6. CASE id # next_timer_id
    <3>1. id \in DueAgain' => id \in DueAgain
      BY <2>2, <2>6 DEF DueAgain, Handling
    <3>2. id \in PendingIds' => id \in PendingIds
      BY <2>1, <2>6, EmplaceMembers DEF PendingIds
    <3> QED  BY <1>0, <1>1, <2>4, <3>1, <3>2
  <2> QED  BY <2>5, <2>6
<1>6. CASE \E c \in Callers : \E other \in DOMAIN timers, i \in ResetIntervals :
              ResetTimerInterval(c, other, i)
  <2> PICK c \in Callers, other \in DOMAIN timers, i \in ResetIntervals :
              ResetTimerInterval(c, other, i)
    BY <1>6
  <2>1. /\ timer_events' = Emplace(EraseEvents(timer_events, {other}), now + i, other)
        /\ current' = current
        /\ pc' \in {"expired", "handler"} => pc \in {"expired", "handler"}
        /\ DOMAIN timers' = DOMAIN timers
    BY DEF ResetTimerInterval, ResetEvents, Notified
  <2>2. \A e \in EraseEvents(timer_events, {other}) : e.id # other
    BY EraseMembers
  <2>3. ~Two(timer_events', id)
    BY <1>0, <2>1, <2>2, EmplaceDoubles, EraseDoublesNone
  <2>4. id \in PendingIds' /\ id \in DueAgain' /\ id \in DueAgain
    BY <1>1, <1>4, <2>1, <2>3
  <2>5. CASE id = other
    BY <2>4, <2>5
  <2>6. CASE id # other
    <3>1. id \in PendingIds
      <4>1. PICK e \in timer_events' : e.id = id
        BY <2>4 DEF PendingIds
      <4>2. e \in EraseEvents(timer_events, {other})
        BY <2>1, <2>6, <4>1, EmplaceMembers
      <4> QED  BY <4>1, <4>2, EraseMembers DEF PendingIds
    <3> QED  BY <1>0, <2>4, <3>1
  <2> QED  BY <2>5, <2>6
<1>7. CASE \/ \E c \in Callers :
                \/ StartTimerThread(c) \/ DeleteAllTimers(c) \/ BeginShutdown(c) \/ Proceed(c)
                \/ \E other \in DOMAIN timers : CancelTimer(c, other)
                \/ \E h \in Handlers : CancelTimersOf(c, h)
           \/ WaitForFirst \/ TimerExpired \/ WaitTimedOut \/ TestRunning \/ SpuriousWakeup
           \/ Tick \/ UNCHANGED vars
  <2>1. /\ current' = current
        /\ pc' \in {"expired", "handler"} => pc \in {"expired", "handler"}
        /\ DOMAIN timers' \subseteq DOMAIN timers
        /\ \/ timer_events' \in {timer_events, {}}
           \/ \E ids : timer_events' = EraseEvents(timer_events, ids)
    <3>1. DOMAIN NoTimers = {}
      BY DEF NoTimers
    <3>2. \A gone : DOMAIN Restrict(timers, DOMAIN timers \ gone) \subseteq DOMAIN timers
      BY DEF Restrict
    <3> QED  BY <1>7, <3>1, <3>2
             DEF Proceed, StartTimerThread, CancelTimer, CancelTimersOf, DeleteAllTimers,
                 BeginShutdown, RemoveTimers, ClearTimers, TimerCancelled, TimerDeleted,
                 DeletedAll, StopThread, Joined, WaitForFirst, TimerExpired, WaitTimedOut,
                 TestRunning, SpuriousWakeup, Tick, vars, tables, Notified
  <2>2. \A e \in timer_events' : \E f \in timer_events : f.id = e.id
    BY <2>1, EraseMembers
  <2>3. ~Two(timer_events', id)
    <3>1. CASE timer_events' \in {timer_events, {}}
      BY <1>0, <3>1 DEF Two
    <3>2. CASE \E ids : timer_events' = EraseEvents(timer_events, ids)
      BY <1>0, <3>2, EraseDoublesNone
    <3> QED  BY <2>1, <3>1, <3>2
  <2>4. id \in DueAgain' => id \in DueAgain
    BY <1>4, <2>1
  <2> QED  BY <1>3, <2>2, <2>3, <2>4
<1>8. CASE WaitForNext
  <2>1. timer_events' = timer_events /\ id \notin DueAgain'
    BY <1>8 DEF WaitForNext, tables, DueAgain, Handling
  <2> QED  BY <1>0, <1>1, <2>1
<1>9. CASE PopExpired
  <2>1. PICK p \in timer_events : timer_events' = Popped(p) /\ current'.id = p.id
    BY <1>9 DEF PopExpired
  <2>2. \A e \in timer_events' : \E f \in timer_events \ {p} : f.id = e.id
    BY <2>1, RenumberMembers DEF Popped
  <2>3. ~Two(timer_events', id)
    <3>1. ~Two(timer_events \ {p}, id)
      BY <1>0 DEF Two
    <3> QED  BY <2>1, <3>1, RenumberDoublesNone DEF Popped
  <2>4. id \in PendingIds' /\ id = p.id
    BY <1>1, <2>1, <2>3 DEF DueAgain, Handling
  <2>5. \E f \in timer_events \ {p} : f.id = id
    BY <2>2, <2>4 DEF PendingIds
  <2>6. Two(timer_events, id)
    BY <2>4, <2>5 DEF Two
  <2> QED  BY <1>0, <2>6
<1>10. CASE HandlerReturned
  <2>1. id \notin DueAgain'
    BY <1>10 DEF HandlerReturned, DueAgain, Handling
  <2>2. Requeues(current.id) /\ timer_events' = Emplace(timer_events, NextWakeup, current.id)
    BY <1>0, <1>1, <1>10, <2>1 DEF HandlerReturned
  <2>3. id = current.id /\ id \in PendingIds
    BY <1>0, <1>1, <2>1, <2>2, EmplaceDoubles DEF PendingIds
  <2>4. id \in DueAgain
    BY <1>10, <2>2, <2>3 DEF Requeues, HandlerReturned, DueAgain, Handling
  <2> QED  BY <1>0, <2>3, <2>4
<1> QED  BY <1>5, <1>6, <1>7, <1>8, <1>9, <1>10 DEF Next, Thread, Call

\* A timer that expires at two rates had its interval reset while its handler ran:
\* neither schedules, cancellations and deletions of any threads nor the thread's own
\* iterations give a timer a second wake-up to come.
THEOREM OnlyResetsDoubleTimers == Spec => OnlyResetsDouble
<1>1. Init => HandledIssued
  BY DEF Init, HandledIssued
<1>2. IInv /\ HandledIssued /\ [Next]_vars =>
        [\A id \in 0 .. MaxTimers - 1 :
           ~Doubled(id) /\ Doubled(id)' =>
              /\ id \in DueAgain
              /\ \E c \in Callers, interval \in ResetIntervals :
                    ResetTimerInterval(c, id, interval)]_vars
  BY StepDoubles
<1> QED  BY <1>1, <1>2, NextHandledIssued, Invariance, PTL DEF Spec, OnlyResetsDouble

-----------------------------------------------------------------------------
\* The refinement of TimerService. Live are the timers it has a due time for.
Live == PendingIds \cup DueAgain

\* Which event CHOOSE finds when a timer has only one.
LEMMA TheEvent ==
    ASSUME NEW E, NEW e \in E, \A f, g \in E : f.id = g.id => f = g
    PROVE  (CHOOSE f \in E : f.id = e.id) = e
OBVIOUS

\* What the mapped due times are, in a state and in the next one.
LEMMA DueValues ==
    ASSUME OneInv
    PROVE  /\ DOMAIN dueBar = Live
           /\ \A e \in timer_events : dueBar[e.id] = e.time /\ e.id \notin DueAgain
           /\ \A id \in DueAgain : dueBar[id] = NextWakeup
<1>1. DOMAIN dueBar = Live
  BY DEF dueBar, Live
<1>2. ASSUME NEW e \in timer_events
      PROVE  dueBar[e.id] = e.time /\ e.id \notin DueAgain
  <2>1. e.id \notin DueAgain
    BY DEF OneInv, DueAgain
  <2>2. e.id \in PendingIds
    BY DEF PendingIds
  <2>3. (CHOOSE f \in timer_events : f.id = e.id) = e
    BY TheEvent DEF OneInv, OneEventPerTimer
  <2> QED  BY <2>1, <2>2, <2>3 DEF dueBar
<1>3. ASSUME NEW id \in DueAgain
      PROVE  dueBar[id] = NextWakeup
  BY DEF dueBar, NextWakeup
<1> QED  BY <1>1, <1>2, <1>3

LEMMA DueValuesNext ==
    ASSUME OneInv'
    PROVE  /\ DOMAIN dueBar' = Live'
           /\ \A e \in timer_events' : dueBar'[e.id] = e.time /\ e.id \notin DueAgain'
           /\ \A id \in DueAgain' : dueBar'[id] = NextWakeup'
<1>1. DOMAIN dueBar' = Live'
  BY DEF dueBar, Live
<1>2. ASSUME NEW e \in timer_events'
      PROVE  dueBar'[e.id] = e.time /\ e.id \notin DueAgain'
  <2>1. e.id \notin DueAgain'
    BY DEF OneInv, DueAgain
  <2>2. e.id \in PendingIds'
    BY DEF PendingIds
  <2>3. (CHOOSE f \in timer_events' : f.id = e.id) = e
    BY TheEvent DEF OneInv, OneEventPerTimer
  <2> QED  BY <2>1, <2>2, <2>3 DEF dueBar
<1>3. ASSUME NEW id \in DueAgain'
      PROVE  dueBar'[id] = NextWakeup'
  BY DEF dueBar, NextWakeup
<1> QED  BY <1>1, <1>2, <1>3

\* A live timer is registered.
LEMMA LiveRegistered == IInv => Live \subseteq DOMAIN timers
BY DEF IInv, EventsRegistered, Live, PendingIds, DueAgain

\* A step that leaves the tables, and the delivery in progress, as they are.
LEMMA QuietStep ==
    ASSUME UNCHANGED <<now, tables>>,
           \/ UNCHANGED current /\ pc' \in {"expired", "handler"} /\ pc \in {"expired", "handler"}
           \/ UNCHANGED current /\ pc' = pc
           \/ pc' \notin {"expired", "handler"} /\ pc \notin {"expired", "handler"}
    PROVE  UNCHANGED Service!vars
<1>1. /\ PendingIds' = PendingIds /\ DueAgain' = DueAgain /\ deliveringBar' = deliveringBar
      /\ (DueAgain # {} => current' = current)
  BY DEF PendingIds, DueAgain, Handling, deliveringBar, tables
<1>2. dueBar' = dueBar
  <2>1. CASE DueAgain = {}
    BY <1>1, <2>1 DEF dueBar, tables
  <2>2. CASE DueAgain # {}
    BY <1>1, <2>2 DEF dueBar, tables
  <2> QED  BY <2>1, <2>2
<1>3. periodBar' = periodBar
  BY <1>1 DEF periodBar, tables
<1> QED  BY <1>1, <1>2, <1>3 DEF Service!vars, tables

\* Taking away the timers of the set gone, with their events, removes them there.
LEMMA RemovalServes ==
    ASSUME IInv, OneInv, OneInv', NEW gone,
           DOMAIN timers' = DOMAIN timers \ gone,
           \A id \in DOMAIN timers' : timers'[id] = timers[id],
           \A e \in timer_events' :
               e.id \notin gone /\ \E f \in timer_events : e.id = f.id /\ e.time = f.time,
           \A f \in timer_events : f.id \notin gone =>
               \E e \in timer_events' : e.id = f.id /\ e.time = f.time,
           pc' = Notified(pc), UNCHANGED <<now, next_timer_id, current>>
    PROVE  Service!Next
<1>1. Live \subseteq DOMAIN timers
  BY LiveRegistered
<1>2. /\ \A id : Handling(id)' <=> Handling(id)
      /\ deliveringBar' = deliveringBar
      /\ NextWakeup' = NextWakeup
  BY DEF Handling, Notified, deliveringBar, NextWakeup
<1>3. DueAgain' = DueAgain \ gone
  BY <1>2 DEF DueAgain
<1>4. PendingIds' = PendingIds \ gone
  BY DEF PendingIds
<1>5. Live' = Live \ gone
  BY <1>3, <1>4 DEF Live
<1>6. ASSUME NEW id \in Live'
      PROVE  dueBar'[id] = dueBar[id]
  <2>1. CASE id \in DueAgain'
    BY <1>2, <1>3, <2>1, DueValues, DueValuesNext
  <2>2. CASE id \notin DueAgain'
    <3>1. PICK e \in timer_events' : e.id = id
      BY <2>2 DEF Live, PendingIds
    <3>2. PICK f \in timer_events : e.id = f.id /\ e.time = f.time
      BY <3>1
    <3> QED  BY <3>1, <3>2, DueValues, DueValuesNext
  <2> QED  BY <2>1, <2>2
<1>7. dueBar' = Restrict(dueBar, DOMAIN dueBar \ gone)
  <2>1. DOMAIN dueBar = Live /\ DOMAIN dueBar' = Live'
    BY DueValues, DueValuesNext
  <2>2. dueBar' = [id \in DOMAIN dueBar' |-> dueBar'[id]]
    BY DEF dueBar
  <2> QED  BY <1>5, <1>6, <2>1, <2>2 DEF Restrict
<1>8. periodBar' = Restrict(periodBar, DOMAIN dueBar \ gone)
  <2>1. periodBar = [id \in Live |-> timers[id].interval]
    BY DEF periodBar, Live
  <2>2. periodBar' = [id \in Live' |-> timers'[id].interval]
    BY DEF periodBar, Live
  <2>3. \A id \in Live' : timers'[id] = timers[id]
    BY <1>1, <1>5
  <2>4. DOMAIN dueBar = Live
    BY DueValues
  <2> QED  BY <1>5, <2>1, <2>2, <2>3, <2>4 DEF Restrict
<1>9. DOMAIN dueBar \ gone = DOMAIN dueBar \ (gone \cap DOMAIN dueBar)
  OBVIOUS
<1>10. Service!Remove(gone \cap DOMAIN dueBar)
  BY <1>2, <1>7, <1>8, <1>9 DEF Service!Remove, Service!Restrict, Restrict
<1> QED  BY <1>10 DEF Service!Next

LEMMA ScheduleServes ==
    ASSUME IInv, OneInv, OneInv', NEW c \in Callers, NEW h \in Handlers, NEW d \in Delays,
           NEW i \in Intervals, ScheduleTimer(c, h, d, i)
    PROVE  Service!Next
<1>1. Live \subseteq DOMAIN timers /\ next_timer_id \notin DOMAIN timers
  BY LiveRegistered DEF IInv, TypeOK
<1>2. /\ timer_events' = Emplace(timer_events, now + d, next_timer_id)
      /\ next_timer_id' = next_timer_id + 1
      /\ pc' = Notified(pc)
      /\ UNCHANGED <<now, current>>
      /\ DOMAIN timers' = DOMAIN timers \cup {next_timer_id}
      /\ \A id \in DOMAIN timers : timers'[id] = timers[id]
      /\ timers'[next_timer_id].interval = i
  BY <1>1 DEF ScheduleTimer, IdIncremented
<1>3. /\ \A id : Handling(id)' <=> Handling(id)
      /\ deliveringBar' = deliveringBar
      /\ NextWakeup' = NextWakeup
  BY <1>2 DEF Handling, Notified, deliveringBar, NextWakeup
<1>4. ~Handling(next_timer_id)
  BY DEF Handling, OneInv, IInv, TypeOK
<1>5. DueAgain' = DueAgain
  BY <1>2, <1>3, <1>4 DEF DueAgain
<1>6. PICK new \in timer_events' : new.id = next_timer_id
  BY <1>2, EmplaceKeeps
<1>7. /\ timer_events \subseteq timer_events'
      /\ \A e \in timer_events' :
            e \in timer_events \/ (e.time = now + d /\ e.id = next_timer_id)
  BY <1>2, EmplaceKeeps, EmplaceMembers
<1>8. new.time = now + d
  <2>1. new \notin timer_events
    BY <1>1, <1>6 DEF IInv, EventsRegistered
  <2> QED  BY <1>7, <2>1
<1>9. PendingIds' = PendingIds \cup {next_timer_id}
  BY <1>6, <1>7 DEF PendingIds
<1>10. Live' = Live \cup {next_timer_id}
  BY <1>5, <1>9 DEF Live
<1>11. \A id \in Live' : dueBar'[id] = IF id = next_timer_id THEN now + d ELSE dueBar[id]
  <2> SUFFICES ASSUME NEW id \in Live'
               PROVE  dueBar'[id] = IF id = next_timer_id THEN now + d ELSE dueBar[id]
    OBVIOUS
  <2>1. CASE id = next_timer_id
    BY <1>6, <1>8, <2>1, DueValuesNext
  <2>2. CASE id \in DueAgain
    BY <1>1, <1>3, <1>5, <2>2, DueValues, DueValuesNext DEF Live
  <2>3. CASE id # next_timer_id /\ id \notin DueAgain
    <3>1. PICK e \in timer_events : e.id = id
      BY <1>10, <2>3 DEF Live, PendingIds
    <3> QED  BY <1>7, <2>3, <3>1, DueValues, DueValuesNext
  <2> QED  BY <2>1, <2>2, <2>3
<1>12. dueBar' = [id \in Live' |-> IF id = next_timer_id THEN now + d ELSE dueBar[id]]
  <2>1. DOMAIN dueBar' = Live' /\ dueBar' = [id \in DOMAIN dueBar' |-> dueBar'[id]]
    BY DueValuesNext DEF dueBar
  <2> QED  BY <1>11, <2>1
<1>13. periodBar' = [id \in Live' |-> IF id = next_timer_id THEN i ELSE periodBar[id]]
  <2>1. periodBar = [id \in Live |-> timers[id].interval]
    BY DEF periodBar, Live
  <2>2. periodBar' = [id \in Live' |-> timers'[id].interval]
    BY DEF periodBar, Live
  <2> QED  BY <1>1, <1>2, <1>10, <2>1, <2>2
<1>14. DOMAIN dueBar = Live
  BY DueValues
<1>15. Service!Schedule(d, i)
  BY <1>2, <1>3, <1>10, <1>12, <1>13, <1>14 DEF Service!Schedule
<1> QED  BY <1>15 DEF Service!Next

\* Popping an event delivers its timer; a periodic one is due again at once.
LEMMA PopServes ==
    ASSUME IInv, OneInv, OneInv', PopExpired
    PROVE  Service!Next
<1>1. PICK p \in timer_events :
         /\ Earliest(p)
         /\ p.time <= now
         /\ timer_events' = Popped(p)
         /\ current' = [time |-> p.time, id |-> p.id, interval |-> timers[p.id].interval]
  BY DEF PopExpired
<1>2. pc = "top" /\ pc' = "expired" /\ UNCHANGED <<now, next_timer_id, timers>>
  BY DEF PopExpired
<1>3. /\ DueAgain = {} /\ Live = PendingIds
      /\ p.id \in Live /\ p.id \in DOMAIN timers
      /\ timers[p.id].interval \in Nat
  BY <1>2, LiveRegistered
     DEF DueAgain, Handling, Live, PendingIds, IInv, TypeOK, EventsRegistered
<1>4. \A e \in timer_events : e.id = p.id => e = p
  BY DEF OneInv, OneEventPerTimer
<1>5. /\ \A e \in timer_events' :
            e.id # p.id /\ \E f \in timer_events : e.id = f.id /\ e.time = f.time
      /\ \A f \in timer_events : f.id # p.id =>
            \E e \in timer_events' : e.id = f.id /\ e.time = f.time
  <2> DEFINE rest == timer_events \ {p}
  <2>1. timer_events' = Renumber(rest)
    BY <1>1 DEF Popped
  <2>2. \A e \in timer_events' : \E f \in rest : e.time = f.time /\ e.id = f.id
    BY <2>1, RenumberMembers
  <2>3. \A f \in rest : \E e \in timer_events' : e.id = f.id /\ e.time = f.time
    BY <2>1, RenumberKeeps
  <2> QED  BY <1>4, <2>2, <2>3
<1>6. PendingIds' = PendingIds \ {p.id}
  BY <1>5 DEF PendingIds
<1>7. DueAgain' = IF timers[p.id].interval > 0 THEN {p.id} ELSE {}
  <2>1. DueAgain' = {id \in DOMAIN timers : id = p.id /\ timers[p.id].interval > 0}
    <3>1. current'.id = p.id /\ current'.interval = timers[p.id].interval
      BY <1>1
    <3> QED  BY <1>2, <3>1 DEF DueAgain, Handling
  <2> QED  BY <1>3, <2>1
<1>8. NextWakeup' = p.time + timers[p.id].interval
  BY <1>1 DEF NextWakeup
<1>9. /\ DOMAIN dueBar = Live /\ DOMAIN dueBar' = Live'
      /\ dueBar = [id \in Live |-> dueBar[id]]
      /\ dueBar' = [id \in Live' |-> dueBar'[id]]
      /\ dueBar[p.id] = p.time
      /\ periodBar = [id \in Live |-> timers[id].interval]
      /\ periodBar' = [id \in Live' |-> timers[id].interval]
  <2>1. /\ DOMAIN dueBar = Live /\ DOMAIN dueBar' = Live' /\ dueBar[p.id] = p.time
    BY DueValues, DueValuesNext
  <2>2. /\ dueBar = [id \in DOMAIN dueBar |-> dueBar[id]]
        /\ dueBar' = [id \in DOMAIN dueBar' |-> dueBar'[id]]
    BY DEF dueBar
  <2>3. /\ periodBar = [id \in Live |-> timers[id].interval]
        /\ periodBar' = [id \in Live' |-> timers[id].interval]
    BY <1>2 DEF periodBar, Live
  <2> QED  BY <2>1, <2>2, <2>3
<1>10. ASSUME NEW id \in Live, id # p.id
       PROVE  dueBar[p.id] <= dueBar[id] /\ dueBar'[id] = dueBar[id]
  <2>1. PICK f \in timer_events : f.id = id
    BY <1>3 DEF PendingIds
  <2>2. PICK e \in timer_events' : e.id = f.id /\ e.time = f.time
    BY <1>5, <1>10, <2>1
  <2>3. p.time <= f.time
    BY <1>1 DEF Earliest, IInv, TypeOK
  <2> QED  BY <1>9, <2>1, <2>2, <2>3, DueValues, DueValuesNext
<1>11. /\ ~deliveringBar.busy
       /\ deliveringBar' = Service!Delivery(p.id)
  BY <1>1, <1>2, <1>9 DEF deliveringBar, Service!Delivery
<1>12. /\ dueBar[p.id] <= now
       /\ \A other \in DOMAIN dueBar : dueBar[p.id] <= dueBar[other]
  <2>1. p.time <= p.time
    BY DEF IInv, TypeOK
  <2> QED  BY <1>1, <1>9, <1>10, <2>1
<1>13. CASE timers[p.id].interval = 0
  <2>1. Live' = Live \ {p.id}
    BY <1>3, <1>6, <1>7, <1>13 DEF Live
  <2>2. dueBar' = Restrict(dueBar, DOMAIN dueBar \ {p.id})
    BY <1>9, <1>10, <2>1 DEF Restrict
  <2>3. periodBar' = Restrict(periodBar, DOMAIN dueBar \ {p.id})
    BY <1>9, <2>1 DEF Restrict
  <2>4. periodBar[p.id] = 0
    BY <1>3, <1>9, <1>13
  <2>5. Service!Deliver(p.id)
    BY <1>2, <1>11, <1>12, <2>2, <2>3, <2>4
       DEF Service!Deliver, Service!Restrict, Restrict
  <2> QED  BY <1>3, <1>9, <2>5 DEF Service!Next
<1>14. CASE timers[p.id].interval > 0
  <2>1. Live' = Live
    BY <1>3, <1>6, <1>7, <1>14 DEF Live
  <2>2. dueBar'[p.id] = p.time + timers[p.id].interval
    BY <1>7, <1>8, <1>14, DueValuesNext
  <2>3. periodBar' = periodBar /\ periodBar[p.id] = timers[p.id].interval
    BY <1>3, <1>9, <2>1
  <2>4. dueBar' = [dueBar EXCEPT ![p.id] = @ + periodBar[p.id]]
    BY <1>9, <1>10, <2>1, <2>2, <2>3
  <2>5. periodBar[p.id] # 0
    BY <1>14, <2>3
  <2>6. Service!Deliver(p.id)
    BY <1>2, <1>11, <1>12, <2>3, <2>4, <2>5 DEF Service!Deliver
  <2> QED  BY <1>3, <1>9, <2>6 DEF Service!Next
<1> QED  BY <1>3, <1>13, <1>14

\* After the handler a periodic timer that is still registered has the event of the
\* due time it had meanwhile.
LEMMA ReturnServes ==
    ASSUME IInv, OneInv, OneInv', HandlerReturned
    PROVE  Service!Next
<1>1. /\ pc = "handler" /\ pc' = "test"
      /\ UNCHANGED <<now, next_timer_id, timers, current>>
  BY DEF HandlerReturned
<1>2. DueAgain' = {} /\ DueAgain = IF Requeues(current.id) THEN {current.id} ELSE {}
  BY <1>1 DEF DueAgain, Handling, Requeues
<1>3. /\ \A e \in timer_events : e \in timer_events'
      /\ \A e \in timer_events' :
            \/ e \in timer_events
            \/ e.id \in DueAgain /\ e.time = NextWakeup
      /\ \A id \in DueAgain : \E e \in timer_events' : e.id = id
  <2>1. CASE Requeues(current.id)
    <3>1. timer_events' = Emplace(timer_events, NextWakeup, current.id)
      BY <2>1 DEF HandlerReturned
    <3> QED  BY <1>2, <2>1, <3>1, EmplaceKeeps, EmplaceMembers
  <2>2. CASE ~Requeues(current.id)
    BY <1>2, <2>2 DEF HandlerReturned
  <2> QED  BY <2>1, <2>2
<1>4. Live' = Live
  BY <1>2, <1>3 DEF Live, PendingIds
<1>5. \A id \in Live : dueBar'[id] = dueBar[id]
  <2> SUFFICES ASSUME NEW id \in Live PROVE dueBar'[id] = dueBar[id]
    OBVIOUS
  <2>1. PICK e \in timer_events' : e.id = id
    BY <1>2, <1>4 DEF Live, PendingIds
  <2> QED  BY <1>3, <2>1, DueValues, DueValuesNext
<1>6. dueBar' = dueBar
  <2>1. /\ dueBar = [id \in Live |-> dueBar[id]]
        /\ dueBar' = [id \in Live' |-> dueBar'[id]]
    BY DueValues, DueValuesNext DEF dueBar, Live
  <2> QED  BY <1>4, <1>5, <2>1
<1>7. periodBar' = periodBar
  BY <1>1, <1>4 DEF periodBar, Live
<1>8. deliveringBar.busy /\ deliveringBar' = Service!None
  BY <1>1 DEF deliveringBar, Service!None
<1>9. Service!Delivered
  BY <1>1, <1>6, <1>7, <1>8 DEF Service!Delivered
<1> QED  BY <1>9 DEF Service!Next

LEMMA CallServes ==
    ASSUME ResetIntervals = {}, IInv, OneInv, OneInv', NEW c \in Callers, Call(c)
    PROVE  [Service!Next]_(Service!vars)
<1>1. CASE StartTimerThread(c)
  BY <1>1, QuietStep DEF StartTimerThread
<1>2. CASE \E h \in Handlers, d \in Delays, i \in Intervals : ScheduleTimer(c, h, d, i)
  BY <1>2, ScheduleServes
<1>3. ASSUME NEW gone, NEW at, RemoveTimers(c, gone, at)
      PROVE  Service!Next
  <2>1. /\ DOMAIN timers' = DOMAIN timers \ gone
        /\ \A id \in DOMAIN timers' : timers'[id] = timers[id]
    BY <1>3 DEF RemoveTimers, Restrict
  <2>2. timer_events' = EraseEvents(timer_events, gone)
    BY <1>3 DEF RemoveTimers
  <2>3. /\ \A e \in timer_events' :
              e.id \notin gone /\ \E f \in timer_events : e.id = f.id /\ e.time = f.time
        /\ \A f \in timer_events : f.id \notin gone =>
              \E e \in timer_events' : e.id = f.id /\ e.time = f.time
    <3>1. ASSUME NEW e \in timer_events'
          PROVE  e.id \notin gone /\ \E f \in timer_events : e.id = f.id /\ e.time = f.time
      BY <2>2, EraseMembers
    <3>2. ASSUME NEW f \in timer_events, f.id \notin gone
          PROVE  \E e \in timer_events' : e.id = f.id /\ e.time = f.time
      BY <2>2, <3>2, EraseKeeps
    <3> QED  BY <3>1, <3>2
  <2>4. pc' = Notified(pc) /\ UNCHANGED <<now, next_timer_id, current>>
    BY <1>3 DEF RemoveTimers
  <2> QED  BY <2>1, <2>3, <2>4, RemovalServes
<1>4. ASSUME NEW at, ClearTimers(c, at)
      PROVE  Service!Next
  <2>1. DOMAIN timers' = {} /\ timer_events' = {}
    BY <1>4 DEF ClearTimers, NoTimers
  <2>2. \A f \in timer_events : f.id \in DOMAIN timers
    BY DEF IInv, EventsRegistered
  <2>3. pc' = Notified(pc) /\ UNCHANGED <<now, next_timer_id, current>>
    BY <1>4 DEF ClearTimers
  <2>4. DOMAIN timers' = DOMAIN timers \ DOMAIN timers
    BY <2>1
  <2> QED  BY <2>1, <2>2, <2>3, <2>4, RemovalServes
<1>5. CASE \E id \in DOMAIN timers : CancelTimer(c, id)
  BY <1>3, <1>5 DEF CancelTimer
<1>6. CASE \E h \in Handlers : CancelTimersOf(c, h)
  <2>1. PICK h \in Handlers : CancelTimersOf(c, h)  BY <1>6
  <2>2. CASE TimersOf(h) = {}
    BY <2>1, <2>2, QuietStep DEF CancelTimersOf
  <2>3. CASE TimersOf(h) # {}
    BY <1>3, <2>1, <2>3 DEF CancelTimersOf
  <2> QED  BY <2>2, <2>3
<1>7. CASE DeleteAllTimers(c) \/ BeginShutdown(c)
  BY <1>4, <1>7 DEF DeleteAllTimers, BeginShutdown
<1> QED  BY <1>1, <1>2, <1>5, <1>6, <1>7 DEF Call

LEMMA NextServes ==
    ASSUME ResetIntervals = {}, IInv, OneInv, OneInv', [Next]_vars
    PROVE  [Service!Next]_(Service!vars)
<1>1. CASE \E c \in Callers : Call(c)
  BY <1>1, CallServes
<1>2. CASE \E c \in Callers : Proceed(c)
  <2>1. /\ UNCHANGED <<now, tables, current>>
        /\ pc' = pc \/ (pc' \notin {"expired", "handler"} /\ pc \notin {"expired", "handler"})
    BY <1>2 DEF Proceed, TimerCancelled, TimerDeleted, DeletedAll, StopThread, Joined, Notified
  <2> QED  BY <2>1, QuietStep
<1>3. CASE PopExpired
  BY <1>3, PopServes
<1>4. CASE HandlerReturned
  BY <1>4, ReturnServes
<1>5. CASE TimerExpired
  BY <1>5, QuietStep DEF TimerExpired
<1>6. CASE WaitForFirst \/ WaitForNext \/ WaitTimedOut \/ TestRunning \/ SpuriousWakeup
  <2>1. /\ UNCHANGED <<now, tables>>
        /\ pc \notin {"expired", "handler"} /\ pc' \notin {"expired", "handler"}
    BY <1>6 DEF WaitForFirst, WaitForNext, WaitTimedOut, TestRunning, SpuriousWakeup
  <2> QED  BY <2>1, QuietStep
<1>7. CASE Tick
  <2>1. UNCHANGED <<tables, pc, current>> /\ now' = now + 1
    BY <1>7 DEF Tick
  <2>2. PendingIds' = PendingIds /\ DueAgain' = DueAgain
    BY <2>1 DEF PendingIds, DueAgain, Handling, tables
  <2>3. dueBar' = dueBar /\ periodBar' = periodBar /\ deliveringBar' = deliveringBar
    BY <2>1, <2>2 DEF dueBar, periodBar, deliveringBar, tables
  <2>4. Service!Tick
    BY <2>1, <2>3 DEF Service!Tick, tables
  <2> QED  BY <2>4 DEF Service!Next
<1>8. CASE UNCHANGED vars
  BY <1>8, QuietStep DEF vars, tables
<1> QED  BY <1>1, <1>2, <1>3, <1>4, <1>5, <1>6, <1>7, <1>8 DEF Next, Thread

LEMMA InitService == Init => Service!Init
<1> SUFFICES ASSUME Init PROVE Service!Init  OBVIOUS
<1>1. PendingIds = {} /\ DueAgain = {}
  BY DEF Init, NoTimers, PendingIds, DueAgain
<1>2. dueBar = [id \in {} |-> 0] /\ periodBar = [id \in {} |-> 0]
  BY <1>1 DEF dueBar, periodBar
<1>3. deliveringBar = Service!None
  BY DEF Init, deliveringBar, Service!None
<1> QED  BY <1>2, <1>3 DEF Init, Service!Init

\* If nobody resets an interval, the timer manager keeps the promise of TimerService:
\* timers are delivered in the order of their due times, never early, without drift,
\* and not after they were removed.
THEOREM TimerServiceIsImplemented ==
    ASSUME ResetIntervals = {}
    PROVE  Spec => ImplementsService
<1>1. Init => OneInv
  BY DEF Init, OneInv, OneEventPerTimer
<1>2. IInv /\ OneInv /\ [Next]_vars => OneInv'
  BY OneInvStep
<1>3. IInv /\ OneInv /\ OneInv' /\ [Next]_vars => [Service!Next]_(Service!vars)
  BY NextServes
<1> QED  BY <1>1, <1>2, <1>3, InitService, Invariance, PTL
         DEF Spec, ImplementsService, Service!Spec

-----------------------------------------------------------------------------
\* The ranks of the events of one time tell them apart and count from 0, so that the
\* multimap has a first event: cbegin().
Ranked(events) ==
    /\ IsFiniteSet(events)
    /\ \A e \in events : e.rank \in Nat
    /\ \A e, f \in events : e.time = f.time /\ e.rank = f.rank => e = f

Multimap(events) ==
    /\ Ranked(events)
    /\ \A e \in events : e.rank < LastPosition(events, e.time)

\* What a new event and the events that remain are in the multimap.
LEMMA LastPositionCounts ==
    ASSUME NEW E, IsFiniteSet(E), NEW t
    PROVE  /\ IsFiniteSet({e \in E : e.time = t})
           /\ LastPosition(E, t) \in Nat
<1>1. {e \in E : e.time = t} \in SUBSET E
  OBVIOUS
<1>2. IsFiniteSet({e \in E : e.time = t})
  BY <1>1, FS_Subset
<1> QED  BY <1>2, FS_CardinalityType DEF LastPosition

\* emplace() puts an event after those of the same time.
LEMMA EmplaceMultimap ==
    ASSUME NEW E, Multimap(E), NEW t, NEW id
    PROVE  /\ Multimap(Emplace(E, t, id))
           /\ \A e \in E : e.time = t => e.rank < LastPosition(E, t)
<1> DEFINE n == LastPosition(E, t)
           new == [time |-> t, id |-> id, rank |-> n]
           F == E \cup {new}
<1>0. IsFiniteSet(E) /\ Ranked(E)
  BY DEF Multimap, Ranked
<1>1. n \in Nat /\ IsFiniteSet({e \in E : e.time = t})
  BY <1>0, LastPositionCounts
<1>2. \A e \in E : e.time = t => e.rank < n /\ e.rank \in Nat
  BY DEF Multimap, Ranked
<1>3. new \notin E
  BY <1>1, <1>2
<1>4. IsFiniteSet(F)
  BY <1>0, FS_AddElement
<1>5. Ranked(F)
  BY <1>0, <1>1, <1>2, <1>4 DEF Ranked
<1>6. LastPosition(F, t) = n + 1
  <2>1. {e \in F : e.time = t} = {e \in E : e.time = t} \cup {new}
    OBVIOUS
  <2>2. Cardinality({e \in E : e.time = t} \cup {new}) = Cardinality({e \in E : e.time = t}) + 1
    BY <1>1, <1>3, FS_AddElement
  <2> QED  BY <2>1, <2>2 DEF LastPosition
<1>7. \A s : s # t => LastPosition(F, s) = LastPosition(E, s)
  <2> SUFFICES ASSUME NEW s, s # t PROVE LastPosition(F, s) = LastPosition(E, s)
    OBVIOUS
  <2>1. {e \in F : e.time = s} = {e \in E : e.time = s}
    OBVIOUS
  <2> QED  BY <2>1 DEF LastPosition
<1>8. ASSUME NEW e \in F PROVE e.rank < LastPosition(F, e.time)
  <2>1. CASE e.time = t
    <3>1. e.rank < n + 1
      BY <1>1, <1>2, <2>1
    <3> QED  BY <1>6, <2>1, <3>1
  <2>2. CASE e.time # t
    <3>1. e \in E
      BY <2>2
    <3> QED  BY <1>7, <2>2, <3>1 DEF Multimap
  <2> QED  BY <2>1, <2>2
<1> QED  BY <1>2, <1>5, <1>8 DEF Emplace, Multimap

\* Erasing keeps the order of the events that remain.
LEMMA PositionOrder ==
    ASSUME NEW E, Ranked(E), NEW e \in E
    PROVE  /\ Position(E, e) \in Nat
           /\ Position(E, e) < LastPosition(E, e.time)
           /\ \A f \in E : f.time = e.time /\ e.rank < f.rank => Position(E, e) < Position(E, f)
<1> DEFINE Below(f) == {g \in E : g.time = f.time /\ g.rank < f.rank}
<1>1. \A f \in E : Below(f) \in SUBSET E
  OBVIOUS
<1>2. \A f \in E : IsFiniteSet(Below(f)) /\ Cardinality(Below(f)) \in Nat
  BY <1>1, FS_Subset, FS_CardinalityType DEF Ranked
<1>3. e \notin Below(e)
  BY DEF Ranked
<1>4. IsFiniteSet(Below(e) \cup {e}) /\ Cardinality(Below(e) \cup {e}) = Cardinality(Below(e)) + 1
  BY <1>2, <1>3, FS_AddElement
<1>5. ASSUME NEW S, IsFiniteSet(S), Below(e) \cup {e} \subseteq S
      PROVE  Cardinality(Below(e)) < Cardinality(S)
  <2>1. Cardinality(Below(e) \cup {e}) <= Cardinality(S)
    BY <1>5, FS_Subset
  <2>2. Cardinality(S) \in Nat
    BY <1>5, FS_CardinalityType
  <2>3. Cardinality(Below(e)) \in Nat
    BY <1>2
  <2> HIDE DEF Below
  <2> QED  BY <1>4, <2>1, <2>2, <2>3
<1>6. Cardinality(Below(e)) < Cardinality({f \in E : f.time = e.time})
  <2>1. Below(e) \cup {e} \subseteq {f \in E : f.time = e.time}
    OBVIOUS
  <2> QED  BY <1>5, <2>1, LastPositionCounts DEF Ranked
<1>7. ASSUME NEW f \in E, f.time = e.time, e.rank < f.rank
      PROVE  Cardinality(Below(e)) < Cardinality(Below(f))
  <2>1. Below(e) \cup {e} \subseteq Below(f)
    BY <1>7 DEF Ranked
  <2> QED  BY <1>2, <1>5, <2>1
<1> QED  BY <1>2, <1>6, <1>7 DEF Position, LastPosition

LEMMA RenumberMultimap ==
    ASSUME NEW E, Ranked(E)
    PROVE  Multimap(Renumber(E))
<1> DEFINE m == [e \in E |-> [time |-> e.time, id |-> e.id, rank |-> Position(E, e)]]
           At(t) == {e \in E : e.time = t}
<1>1. Renumber(E) = {m[e] : e \in E}
  BY DEF Renumber
<1>2. \A e \in E : m[e].time = e.time /\ m[e].rank = Position(E, e)
  OBVIOUS
<1>3. ASSUME NEW e \in E, NEW f \in E, m[e].time = m[f].time, m[e].rank = m[f].rank
      PROVE  e = f
  <2>1. e.time = f.time /\ Position(E, e) = Position(E, f) /\ Position(E, e) \in Nat
    BY <1>2, <1>3, PositionOrder
  <2>2. ~(e.rank < f.rank) /\ ~(f.rank < e.rank)
    BY <2>1, PositionOrder
  <2>3. e.rank = f.rank
    BY <2>2 DEF Ranked
  <2> QED  BY <2>1, <2>3 DEF Ranked
<1> HIDE DEF m
<1>4. IsFiniteSet(Renumber(E))
  <2>1. m \in Surjection(E, Renumber(E))
    BY <1>1 DEF Surjection, m
  <2> QED  BY <2>1, FS_Surjection DEF Ranked
<1>5. Ranked(Renumber(E))
  BY <1>1, <1>2, <1>3, <1>4, PositionOrder DEF Ranked
<1>6. ASSUME NEW t PROVE LastPosition(Renumber(E), t) = LastPosition(E, t)
  <2> DEFINE k == [e \in At(t) |-> m[e]]
             T == {g \in Renumber(E) : g.time = t}
  <2>1. k \in Surjection(At(t), T)
    BY <1>1, <1>2 DEF Surjection
  <2>2. k \in Injection(At(t), T)
    BY <1>1, <1>2, <1>3 DEF Injection, IsInjective
  <2>3. IsFiniteSet(At(t))
    BY LastPositionCounts DEF Ranked
  <2>4. Cardinality(T) = Cardinality(At(t))
    BY <2>1, <2>2, <2>3, FS_Surjection
  <2> QED  BY <2>4 DEF LastPosition
<1>7. ASSUME NEW g \in Renumber(E) PROVE g.rank < LastPosition(Renumber(E), g.time)
  BY <1>1, <1>2, <1>6, PositionOrder
<1> QED  BY <1>5, <1>7 DEF Multimap

\* Erasing leaves the events that remain in the order they had: expiring together, they
\* are handled in the order they were scheduled in.
LEMMA RenumberKeepsOrder ==
    ASSUME NEW E, Ranked(E), NEW e \in E, NEW f \in E, e.time = f.time
    PROVE  e.rank < f.rank <=> Position(E, e) < Position(E, f)
<1>1. e.rank \in Nat /\ f.rank \in Nat /\ Position(E, e) \in Nat /\ Position(E, f) \in Nat
  BY PositionOrder DEF Ranked
<1>2. CASE e.rank < f.rank
  BY <1>2, PositionOrder
<1>3. CASE f.rank < e.rank
  <2>1. Position(E, f) < Position(E, e)
    BY <1>3, PositionOrder
  <2> QED  BY <1>1, <1>3, <2>1
<1>4. CASE e.rank = f.rank
  <2>1. e = f
    BY <1>4 DEF Ranked
  <2> QED  BY <1>1, <2>1
<1> QED  BY <1>1, <1>2, <1>3, <1>4

LEMMA PartMultimap ==
    ASSUME NEW E, Multimap(E), NEW D, D \subseteq E
    PROVE  Multimap(Renumber(D))
<1>1. Ranked(D)
  BY FS_Subset DEF Multimap, Ranked
<1> QED  BY <1>1, RenumberMultimap

LEMMA EraseMultimap ==
    ASSUME NEW E, Multimap(E), NEW ids
    PROVE  Multimap(EraseEvents(E, ids))
<1>1. {e \in E : e.id \notin ids} \subseteq E
  OBVIOUS
<1> QED  BY <1>1, PartMultimap DEF EraseEvents

\* A set of natural numbers has a least one.
LEMMA LeastNatural ==
    ASSUME NEW T, T \subseteq Nat, T # {}
    PROVE  \E i \in T : \A j \in T : i <= j
<1> DEFINE R == OpToRel(<, Nat)
<1>1. IsWellFoundedOn(R, Nat)
  BY NatLessThanWellFounded
<1>2. \A i, j \in Nat : <<j, i>> \in R <=> j < i
  BY DEF OpToRel
<1> HIDE DEF R
<1>3. PICK i \in T : \A j \in T : ~(<<j, i>> \in R)
  BY <1>1, WFMin
<1>4. ASSUME NEW j \in T PROVE i <= j
  <2>1. i \in Nat /\ j \in Nat /\ ~(j < i)
    BY <1>2, <1>3
  <2> QED  BY <2>1
<1> QED  BY <1>4

\* A multimap with events has one first event.
LEMMA OneEarliest ==
    ASSUME Multimap(timer_events), \A e \in timer_events : e.time \in Nat, timer_events # {}
    PROVE  \E e \in timer_events : Earliest(e) /\ \A f \in timer_events : Earliest(f) => f = e
<1>1. PICK first \in {e.time : e \in timer_events} :
        \A t \in {e.time : e \in timer_events} : first <= t
  <2>1. {e.time : e \in timer_events} \subseteq Nat /\ {e.time : e \in timer_events} # {}
    OBVIOUS
  <2> QED  BY <2>1, LeastNatural
<1> DEFINE Together == {e \in timer_events : e.time = first}
<1>2. PICK rank \in {e.rank : e \in Together} : \A r \in {e.rank : e \in Together} : rank <= r
  <2>1. {e.rank : e \in Together} \subseteq Nat /\ {e.rank : e \in Together} # {}
    BY DEF Multimap, Ranked
  <2> QED  BY <2>1, LeastNatural
<1>3. PICK e \in timer_events : e.time = first /\ e.rank = rank
  OBVIOUS
<1>4. \A f \in timer_events : first <= f.time /\ (f.time = first => rank <= f.rank)
  BY <1>1, <1>2
<1>5. Earliest(e)
  <2> SUFFICES ASSUME NEW f \in timer_events
               PROVE  e.time < f.time \/ (e.time = f.time /\ e.rank <= f.rank)
    BY DEF Earliest
  <2>1. e.time \in Nat /\ f.time \in Nat /\ e.time <= f.time
    BY <1>3, <1>4
  <2> QED  BY <1>3, <1>4, <2>1
<1>6. ASSUME NEW f \in timer_events, Earliest(f) PROVE f = e
  <2>1. e.time \in Nat /\ f.time \in Nat /\ e.rank \in Nat /\ f.rank \in Nat
    BY DEF Multimap, Ranked
  <2>2. \/ f.time < e.time
        \/ f.time = e.time /\ f.rank <= e.rank
    BY <1>6 DEF Earliest
  <2>3. \/ e.time < f.time
        \/ e.time = f.time /\ e.rank <= f.rank
    BY <1>5 DEF Earliest
  <2>4. e.time = f.time /\ e.rank = f.rank
    BY <2>1, <2>2, <2>3
  <2> QED  BY <2>4 DEF Multimap, Ranked
<1> QED  BY <1>5, <1>6

-----------------------------------------------------------------------------
\* A thread that waits without a bound has no event to wait for, one that waits for a
\* time has none before it.
SleepsInTime ==
    /\ pc = "wait" => timer_events = {}
    /\ pc = "waitUntil" => \A e \in timer_events : current.time <= e.time

QueueInv == Multimap(timer_events) /\ SleepsInTime

Sleeping == {"wait", "waitUntil"}

LEMMA InitQueue == Init => QueueInv
BY FS_EmptySet DEF Init, QueueInv, Multimap, Ranked, SleepsInTime

\* Whoever changes the events while the thread waits wakes it.
LEMMA CallQueue ==
    ASSUME QueueInv, NEW c \in Callers, Call(c)
    PROVE  /\ Multimap(timer_events')
           /\ \/ UNCHANGED <<pc, timer_events, current>>
              \/ pc' \notin Sleeping
<1>0. \A s : Notified(s) \notin Sleeping
  BY DEF Notified, Sleeping
<1>1. CASE StartTimerThread(c)
  BY <1>1 DEF StartTimerThread, tables, QueueInv, Sleeping
<1>2. ASSUME NEW h \in Handlers, NEW d \in Delays, NEW i \in Intervals, ScheduleTimer(c, h, d, i)
      PROVE  Multimap(timer_events') /\ pc' \notin Sleeping
  <2>1. timer_events' = Emplace(timer_events, now + d, next_timer_id)
    BY <1>2 DEF ScheduleTimer
  <2> QED  BY <1>0, <1>2, <2>1, EmplaceMultimap DEF ScheduleTimer, QueueInv
<1>3. ASSUME NEW id \in DOMAIN timers, NEW i \in ResetIntervals, ResetTimerInterval(c, id, i)
      PROVE  Multimap(timer_events') /\ pc' \notin Sleeping
  <2>1. timer_events' = Emplace(EraseEvents(timer_events, {id}), now + i, id)
    BY <1>3 DEF ResetTimerInterval, ResetEvents
  <2> QED
    BY <1>0, <1>3, <2>1, EmplaceMultimap, EraseMultimap DEF ResetTimerInterval, QueueInv
<1>4. ASSUME NEW gone, NEW at, RemoveTimers(c, gone, at)
      PROVE  Multimap(timer_events') /\ pc' \notin Sleeping
  BY <1>0, <1>4, EraseMultimap DEF RemoveTimers, QueueInv
<1>5. ASSUME NEW at, ClearTimers(c, at)
      PROVE  Multimap(timer_events') /\ pc' \notin Sleeping
  BY <1>0, <1>5, FS_EmptySet DEF ClearTimers, Multimap, Ranked
<1>6. ASSUME NEW h \in Handlers, CancelTimersOf(c, h)
      PROVE  /\ Multimap(timer_events')
             /\ \/ UNCHANGED <<pc, timer_events, current>>
                \/ pc' \notin Sleeping
  BY <1>4, <1>6 DEF CancelTimersOf, tables, QueueInv
<1> QED
  BY <1>1, <1>2, <1>3, <1>4, <1>5, <1>6 DEF Call, CancelTimer, DeleteAllTimers, BeginShutdown

LEMMA ThreadQueue ==
    ASSUME IInv, QueueInv, Thread \/ SpuriousWakeup
    PROVE  QueueInv'
<1>1. CASE WaitForFirst
  BY <1>1 DEF WaitForFirst, tables, QueueInv, SleepsInTime
<1>2. CASE WaitForNext
  <2>1. PICK e \in timer_events :
          Earliest(e) /\ current' = [current EXCEPT !.time = e.time]
    BY <1>2 DEF WaitForNext
  <2>2. current'.time = e.time
    BY <2>1 DEF IInv, TypeOK
  <2>3. \A f \in timer_events : e.time <= f.time
    <3>1. \A f \in timer_events : f.time \in Nat
      BY DEF IInv, TypeOK
    <3> QED  BY <2>1, <3>1 DEF Earliest
  <2> QED  BY <1>2, <2>2, <2>3 DEF WaitForNext, tables, QueueInv, SleepsInTime
<1>3. CASE PopExpired
  <2>1. PICK e \in timer_events : timer_events' = Renumber(timer_events \ {e})
    BY <1>3 DEF PopExpired, Popped
  <2>2. timer_events \ {e} \subseteq timer_events
    OBVIOUS
  <2>3. Multimap(timer_events')
    BY <2>1, <2>2, PartMultimap DEF QueueInv
  <2> QED  BY <1>3, <2>3 DEF PopExpired, QueueInv, SleepsInTime
<1>4. CASE HandlerReturned
  <2>1. Multimap(timer_events')
    BY <1>4, EmplaceMultimap DEF HandlerReturned, QueueInv
  <2> QED  BY <1>4, <2>1 DEF HandlerReturned, QueueInv, SleepsInTime
<1>5. CASE TimerExpired \/ WaitTimedOut \/ SpuriousWakeup \/ TestRunning
  BY <1>5 DEF TimerExpired, WaitTimedOut, SpuriousWakeup, TestRunning, tables, QueueInv,
              SleepsInTime
<1> QED  BY <1>1, <1>2, <1>3, <1>4, <1>5 DEF Thread

LEMMA NextQueue == IInv /\ QueueInv /\ [Next]_vars => QueueInv'
<1> SUFFICES ASSUME IInv, QueueInv, [Next]_vars PROVE QueueInv'  OBVIOUS
<1>1. CASE Thread \/ SpuriousWakeup
  BY <1>1, ThreadQueue
<1>2. ASSUME NEW c \in Callers, Call(c) PROVE QueueInv'
  BY <1>2, CallQueue DEF QueueInv, SleepsInTime, Sleeping
<1>3. ASSUME NEW c \in Callers, Proceed(c) PROVE QueueInv'
  BY <1>3 DEF Proceed, TimerCancelled, TimerDeleted, DeletedAll, StopThread, Joined, tables,
              Notified, QueueInv, SleepsInTime
<1>4. CASE Tick \/ UNCHANGED vars
  BY <1>4 DEF Tick, vars, tables, QueueInv, SleepsInTime
<1> QED  BY <1>1, <1>2, <1>3, <1>4 DEF Next

LEMMA QueueInvariance == Spec => []QueueInv
<1> QED  BY InitQueue, NextQueue, Invariance, PTL DEF Spec

\* No wake-up is lost: a timer scheduled, reset or removed while the timer thread waits,
\* or just before it does, never leaves it asleep past the earliest wake-up time.
THEOREM NoWakeupIsLost == Spec => []SleepsInTime
<1>1. QueueInv => SleepsInTime
  BY DEF QueueInv
<1> QED  BY <1>1, QueueInvariance, PTL

\* The guards of the steps of the timer thread.
ThreadReady ==
    \/ pc = "top" /\ (timer_events = {} \/ \E e \in timer_events : Earliest(e))
    \/ pc \in {"expired", "handler", "test"}
    \/ pc = "waitUntil" /\ current.time <= now

ExitedLast == pc = "exited" => ~running

LEMMA ExitedInvariance == Spec => []ExitedLast
<1>1. Init => ExitedLast
  BY DEF Init, ExitedLast
<1>2. ExitedLast /\ [Next]_vars => ExitedLast'
  <2> SUFFICES ASSUME ExitedLast, [Next]_vars PROVE ExitedLast'  OBVIOUS
  <2> USE DEF ExitedLast, Notified
  <2>1. CASE Thread \/ SpuriousWakeup
    BY <2>1 DEF Thread, SpuriousWakeup, WaitForFirst, WaitForNext, PopExpired, TimerExpired,
                HandlerReturned, WaitTimedOut, TestRunning
  <2>2. ASSUME NEW c \in Callers, Call(c) PROVE ExitedLast'
    BY <2>2 DEF Call, StartTimerThread, ScheduleTimer, ResetTimerInterval, CancelTimer,
                CancelTimersOf, RemoveTimers, DeleteAllTimers, BeginShutdown, ClearTimers
  <2>3. ASSUME NEW c \in Callers, Proceed(c) PROVE ExitedLast'
    BY <2>3 DEF Proceed, TimerCancelled, TimerDeleted, DeletedAll, StopThread, Joined
  <2>4. CASE Tick \/ UNCHANGED vars
    BY <2>4 DEF Tick, vars
  <2> QED  BY <2>1, <2>2, <2>3, <2>4 DEF Next
<1> QED  BY <1>1, <1>2, PTL DEF Spec

\* What a due timer needs to be handled in the end: from the moment it is due the thread
\* is never blocked, until it was told to stop, however often it was woken for nothing.
THEOREM DueTimerKeepsThreadAwake ==
    Spec => [](running /\ (\E e \in timer_events : e.time <= now) => ThreadReady)
<1>1. IInv /\ QueueInv /\ ExitedLast =>
        (running /\ (\E e \in timer_events : e.time <= now) => ThreadReady)
  <2> SUFFICES ASSUME IInv, QueueInv, ExitedLast, running,
                      NEW e \in timer_events, e.time <= now
               PROVE  ThreadReady
    OBVIOUS
  <2>1. pc \in ThreadStates /\ pc \notin {"none", "exited"}
    BY DEF IInv, TypeOK, StartedFirst, ExitedLast
  <2>2. CASE pc = "top"
    <3>1. \E f \in timer_events : Earliest(f)
      BY OneEarliest DEF QueueInv, IInv, TypeOK
    <3> QED  BY <2>2, <3>1 DEF ThreadReady
  <2>3. CASE pc = "waitUntil"
    <3>1. current.time <= e.time /\ current.time \in Nat /\ e.time \in Nat /\ now \in Nat
      BY <2>3 DEF QueueInv, SleepsInTime, IInv, TypeOK
    <3> QED  BY <2>3, <3>1 DEF ThreadReady
  <2>4. pc # "wait"
    BY DEF QueueInv, SleepsInTime
  <2> QED  BY <2>1, <2>2, <2>3, <2>4 DEF ThreadReady, ThreadStates
<1> QED  BY <1>1, QueueInvariance, Invariance, ExitedInvariance, PTL

\* An event after a step: one of the events before it, one that is behind whatever is due,
\* or the next one of the periodic timer whose handler returned.
Stays(f) == \E e \in timer_events : e.time = f.time /\ e.id = f.id
BehindDue(f) ==
    \A e \in timer_events' : e.time <= now =>
        e.time < f.time \/ (e.time = f.time /\ e.rank <= f.rank)
PutBack(f) == pc = "handler" /\ f.id = current.id /\ f.time = NextWakeup /\ f.time > current.time
InTurn == \A f \in timer_events' : Stays(f) \/ BehindDue(f) \/ PutBack(f)

LEMMA EmplacedInTurn ==
    ASSUME NEW E, Multimap(E), \A e \in E : Stays(e) /\ e.time \in Nat, now \in Nat,
           NEW d \in Nat, NEW id, timer_events' = Emplace(E, now + d, id)
    PROVE  InTurn
<1> DEFINE new == [time |-> now + d, id |-> id, rank |-> LastPosition(E, now + d)]
<1>1. LastPosition(E, now + d) \in Nat
  BY LastPositionCounts DEF Multimap, Ranked
<1>2. \A e \in E : e.rank \in Nat /\ (e.time = now + d => e.rank < LastPosition(E, now + d))
  BY EmplaceMultimap DEF Multimap, Ranked
<1>3. \A e \in E : e.time <= now => e.time < new.time \/ (e.time = new.time /\ e.rank <= new.rank)
  BY <1>1, <1>2
<1>4. BehindDue(new)
  BY <1>1, <1>3 DEF BehindDue, Emplace
<1>5. \A f \in timer_events' : f \in E \/ f = new
  BY DEF Emplace
<1> QED  BY <1>4, <1>5 DEF InTurn

\* Nobody delays a due timer by scheduling or resetting others, with however short a delay:
\* only the periodic timers that are behind in their own periods come before it again,
\* each time at a later wake-up time, so that its turn comes.
THEOREM DueTimersAreNotOvertaken == Spec => [][InTurn]_vars
<1>1. ASSUME IInv, QueueInv, [Next]_vars PROVE InTurn
  <2>0. /\ now \in Nat /\ current.time \in Nat /\ current.interval \in Nat
        /\ \A e \in timer_events : e.time \in Nat
    BY <1>1 DEF IInv, TypeOK
  <2>1. \A e \in timer_events : Stays(e)
    BY DEF Stays
  <2>2. CASE timer_events' = timer_events
    BY <2>1, <2>2 DEF InTurn
  <2>3. ASSUME NEW c \in Callers, NEW h \in Handlers, NEW d \in Delays, NEW i \in Intervals,
               ScheduleTimer(c, h, d, i)
        PROVE  InTurn
    <3>1. timer_events' = Emplace(timer_events, now + d, next_timer_id) /\ d \in Nat
      BY <2>3, DurationsAssumption DEF ScheduleTimer
    <3> QED  BY <1>1, <2>0, <2>1, <3>1, EmplacedInTurn DEF QueueInv
  <2>4. ASSUME NEW c \in Callers, NEW id \in DOMAIN timers, NEW i \in ResetIntervals,
               ResetTimerInterval(c, id, i)
        PROVE  InTurn
    <3> DEFINE E == EraseEvents(timer_events, {id})
    <3>1. timer_events' = Emplace(E, now + i, id) /\ i \in Nat
      BY <2>4, DurationsAssumption DEF ResetTimerInterval, ResetEvents
    <3>2. Multimap(E)
      BY <1>1, EraseMultimap DEF QueueInv
    <3>3. \A e \in E : \E f \in timer_events : e.time = f.time /\ e.id = f.id
      BY EraseMembers
    <3>4. \A e \in E : Stays(e) /\ e.time \in Nat
      BY <2>0, <3>3 DEF Stays
    <3> HIDE DEF E
    <3> QED  BY <2>0, <3>1, <3>2, <3>4, EmplacedInTurn
  <2>5. ASSUME NEW gone, timer_events' = EraseEvents(timer_events, gone) PROVE InTurn
    BY <2>5, EraseMembers DEF InTurn, Stays
  <2>6. ASSUME timer_events' = {} PROVE InTurn
    BY <2>6 DEF InTurn
  <2>7. ASSUME NEW c \in Callers, Call(c) PROVE InTurn
    BY <2>2, <2>3, <2>4, <2>5, <2>6, <2>7
    DEF Call, StartTimerThread, CancelTimer, CancelTimersOf, RemoveTimers, DeleteAllTimers,
        BeginShutdown, ClearTimers, tables
  <2>8. CASE PopExpired
    <3>1. PICK p \in timer_events : timer_events' = Popped(p)
      BY <2>8 DEF PopExpired
    <3> QED  BY <3>1, PoppedMembers DEF InTurn, Stays
  <2>9. CASE HandlerReturned
    <3>1. CASE Requeues(current.id)
      <4>1. pc = "handler" /\ timer_events' = Emplace(timer_events, NextWakeup, current.id)
        BY <2>9, <3>1 DEF HandlerReturned
      <4>2. NextWakeup > current.time
        BY <2>0, <3>1 DEF NextWakeup, Requeues
      <4>3. \A f \in timer_events' :
              f \in timer_events \/ (f.time = NextWakeup /\ f.id = current.id)
        BY <4>1, EmplaceMembers
      <4> QED  BY <2>1, <4>1, <4>2, <4>3 DEF InTurn, PutBack
    <3> QED  BY <2>2, <2>9, <3>1 DEF HandlerReturned
  <2>10. CASE \/ WaitForFirst \/ WaitForNext \/ TimerExpired \/ WaitTimedOut \/ SpuriousWakeup
              \/ TestRunning \/ Tick \/ UNCHANGED vars
    BY <2>2, <2>10 DEF WaitForFirst, WaitForNext, TimerExpired, WaitTimedOut, SpuriousWakeup,
                       TestRunning, Tick, vars, tables
  <2>11. ASSUME NEW c \in Callers, Proceed(c) PROVE InTurn
    BY <2>2, <2>11 DEF Proceed, TimerCancelled, TimerDeleted, DeletedAll, StopThread, Joined,
                       tables
  <2> QED  BY <1>1, <2>7, <2>8, <2>9, <2>10, <2>11 DEF Next, Thread
<1> QED  BY <1>1, QueueInvariance, Invariance, PTL DEF Spec
=============================================================================
