----------------------------- MODULE PushProofs ------------------------------
(***************************************************************************)
(* What the push pattern keeps for every number of threads, readers,       *)
(* updates and outages and every prescale factor.                          *)
(***************************************************************************)
EXTENDS PushClient, TLAPS

\* connection_mutex is held by a thread in one of these places; a disconnect that is
\* part of connect() holds it from its first step on.
Holding == {"closing", "closed", "detaching", "opening", "matching", "matched"}

MutexOwner ==
    \A u \in Users :
        /\ call[u].at \in Holding => connection_mutex = u
        /\ connection_mutex = u => call[u].at \in Holding \cup {"disconnecting"}

\* The reader at each stage: the new one has the factor its call asked for.
Stages ==
    \A u \in Users :
        /\ call[u].goal # "subscribe" => call[u].prescale = 0
        /\ call[u].at \in {"matching", "matched"} =>
             reader.id # 0 /\ reader.prescale = call[u].prescale
        /\ call[u].at \in {"idle", "disconnecting"} => call[u].goal = "none"
        /\ call[u].at = "closed" =>
             reader.id = 0 /\ reader.prescale = 0 /\ reader.data = 0 /\ pending = 0
        /\ call[u].goal \in {"unsubscribe", "leave"} /\ call[u].at \in Holding \ {"closing", "closed"} =>
             unsubscribed_guard

\* Subscriptions and the condition they wait on.
Subscriptions ==
    /\ reader.id = 0 => reader.prescale = 0
    /\ SubscriptionHasReader

\* A subscribed client, and one about to be, hold updates from after the barrier only.
Fresh ==
    /\ barrier <= published /\ reader.data <= published /\ pending <= published
    /\ Subscribing =>
         /\ reader.data # 0 => reader.data > barrier
         /\ pending # 0 => pending > barrier

\* The filter's counter is the number of updates since it was compiled.
Due(put) == (put - filter.since - 1) % reader.prescale = 0
Counted ==
    filter.reader = reader.id /\ reader.prescale > 0 =>
        /\ filter.count = published - filter.since
        /\ pending # 0 => pending > filter.since /\ Due(pending)
        /\ reader.data > filter.since => Due(reader.data)

IInv == TypeOK /\ MutexOwner /\ Stages /\ Subscriptions /\ Fresh /\ Counted

-----------------------------------------------------------------------------
Calls == [at : Places, goal : Goals, prescale : Prescales \cup {0},
          after : {"open", "return"}, watches : Nat]
Readers(n) == [id : 0 .. n, prescale : Prescales \cup {0}, data : Nat, unread : BOOLEAN]

LEMMA SmallFacts ==
    /\ Idle \in Calls
    /\ \A n \in Nat : NoReader \in Readers(n)
    /\ NoFilter \in [reader : Nat, count : Nat, since : Nat]
    /\ NoReader.id = 0 /\ NoReader.prescale = 0 /\ NoReader.data = 0
    /\ NoFilter.reader = 0 /\ NoFilter.count = 0 /\ NoFilter.since = 0
BY DEF Idle, Calls, Places, Goals, NoReader, Readers, NoFilter

LEMMA TypeParts ==
    TypeOK <=>
      /\ call \in [Users -> Calls]
      /\ \A u \in Users : call[u].goal = "subscribe" => call[u].prescale > 0
      /\ opened \in Nat /\ reader \in Readers(opened) /\ new_data_guard \in 0 .. opened
      /\ disconnected_guard \in BOOLEAN /\ unsubscribed_guard \in BOOLEAN
      /\ nonblocking_guard \in BOOLEAN
      /\ connection_mutex \in Users \cup {Free}
      /\ connection_guard \in BOOLEAN /\ incompatible_qos_guard \in BOOLEAN
      /\ attached \in BOOLEAN
      /\ listener \in {"quiet", "alive", "gone"} /\ notified \in BOOLEAN
      /\ barrier \in Nat /\ server_up \in BOOLEAN
      /\ outages \in 0 .. MaxOutages /\ published \in 0 .. MaxPuts
      /\ filter \in [reader : Nat, count : Nat, since : Nat] /\ pending \in Nat
BY DEF TypeOK, Calls, Readers

LEMMA InitIInv == Init => IInv
<1> SUFFICES ASSUME Init PROVE IInv
  OBVIOUS
<1> USE PushBounds, PrescalesAssumption, FreeIsNoUser
<1>1. TypeOK
  <2>1. call \in [Users -> Calls] /\ \A u \in Users : call[u].goal # "subscribe"
    BY SmallFacts DEF Init, ClientInit, Idle
  <2>2. reader \in Readers(opened) /\ filter \in [reader : Nat, count : Nat, since : Nat]
    BY SmallFacts DEF Init, ServerInit, ClientInit
  <2>3. outages \in 0 .. MaxOutages /\ published \in 0 .. MaxPuts
    BY DEF Init, ServerInit
  <2>4. /\ disconnected_guard \in BOOLEAN /\ unsubscribed_guard \in BOOLEAN
        /\ nonblocking_guard \in BOOLEAN /\ connection_guard \in BOOLEAN
        /\ incompatible_qos_guard \in BOOLEAN /\ attached \in BOOLEAN
        /\ notified \in BOOLEAN /\ server_up \in BOOLEAN
    BY DEF Init, ServerInit, ClientInit
  <2>5. opened \in Nat /\ new_data_guard \in 0 .. opened /\ barrier \in Nat /\ pending \in Nat
    BY DEF Init, ServerInit, ClientInit
  <2>6. connection_mutex \in Users \cup {Free} /\ listener \in {"quiet", "alive", "gone"}
    BY DEF Init, ClientInit
  <2>7. QED BY <2>1, <2>2, <2>3, <2>4, <2>5, <2>6, TypeParts
<1>2. MutexOwner /\ Stages /\ Subscriptions /\ Fresh /\ Counted
  BY DEF Init, ServerInit, ClientInit, Idle, NoReader, NoFilter, MutexOwner, Holding, Stages,
         Subscriptions, SubscriptionHasReader, Fresh, Counted
<1>3. QED BY <1>1, <1>2 DEF IInv

-----------------------------------------------------------------------------
\* The steps of a thread that change its call only.
LEMMA CallStep ==
    ASSUME call \in [Users -> Calls], NEW u \in Users, NEW place \in Places
    PROVE  /\ Go(u, place) =>
                /\ call' \in [Users -> Calls]
                /\ call'[u].at = place /\ call'[u].goal = call[u].goal
                /\ call'[u].prescale = call[u].prescale /\ call'[u].after = call[u].after
                /\ \A v \in Users \ {u} : call'[v] = call[v]
           /\ Return(u) =>
                /\ call' \in [Users -> Calls]
                /\ call'[u] = Idle /\ connection_mutex' = Free
                /\ \A v \in Users \ {u} : call'[v] = call[v]
<1>1. ASSUME NEW c \in Calls, NEW d, d = [c EXCEPT !.at = place]
      PROVE  /\ d \in Calls /\ d.at = place /\ d.goal = c.goal /\ d.prescale = c.prescale
             /\ d.after = c.after
  BY <1>1 DEF Calls
<1>3. ASSUME Go(u, place)
      PROVE  /\ call' \in [Users -> Calls]
             /\ call'[u].at = place /\ call'[u].goal = call[u].goal
             /\ call'[u].prescale = call[u].prescale /\ call'[u].after = call[u].after
             /\ \A v \in Users \ {u} : call'[v] = call[v]
  <2> DEFINE d == [call[u] EXCEPT !.at = place]
  <2>1. /\ d \in Calls /\ d.at = place /\ d.goal = call[u].goal /\ d.prescale = call[u].prescale
        /\ d.after = call[u].after
    BY <1>1
  <2>2. call' = [call EXCEPT ![u] = d]
    BY <1>3 DEF Go
  <2> HIDE DEF d
  <2>3. QED BY <2>1, <2>2
<1>4. ASSUME Return(u)
      PROVE  /\ call' \in [Users -> Calls]
             /\ call'[u] = Idle /\ connection_mutex' = Free
             /\ \A v \in Users \ {u} : call'[v] = call[v]
  BY <1>4, SmallFacts DEF Return
<1>5. QED BY <1>3, <1>4

LEMMA CallBecomes ==
    ASSUME call \in [Users -> Calls], NEW u \in Users, NEW c \in Calls,
           call' = [call EXCEPT ![u] = c]
    PROVE  /\ call' \in [Users -> Calls] /\ call'[u] = c
           /\ \A v \in Users \ {u} : call'[v] = call[v]
OBVIOUS

\* The types the steps start from.
LEMMA Typed ==
    ASSUME TypeOK
    PROVE  /\ call \in [Users -> Calls] /\ opened \in Nat /\ reader \in Readers(opened)
           /\ new_data_guard \in 0 .. opened
           /\ filter \in [reader : Nat, count : Nat, since : Nat] /\ pending \in Nat
           /\ barrier \in Nat /\ published \in Nat /\ published \in 0 .. MaxPuts
BY PushBounds, TypeParts

-----------------------------------------------------------------------------
\* disconnect(), on its own or as the first part of connect().
LEMMA DisconnectStep ==
    ASSUME IInv, NEW u \in Users, Disconnect(u) \/ Connect(u)
    PROVE  IInv'
<1> USE DEF guards, connector, serverVars
<1>0. /\ TypeOK /\ MutexOwner /\ Stages /\ Subscriptions /\ Fresh /\ Counted
      /\ call \in [Users -> Calls] /\ call[u].at = "idle"
  BY Typed DEF IInv, Disconnect, Connect, Begins
<1>1. /\ call' \in [Users -> Calls] /\ call'[u].at = "disconnecting"
      /\ call'[u].goal = "none" /\ call'[u].prescale = 0
      /\ \A v \in Users \ {u} : call'[v] = call[v]
  <2>1. CASE Disconnect(u)
    BY <1>0, <2>1, CallStep DEF Disconnect, Places, Stages
  <2>2. CASE Connect(u)
    <3> DEFINE c == [Idle EXCEPT !.at = "disconnecting", !.after = "open"]
    <3>1. c \in Calls /\ c.at = "disconnecting" /\ c.goal = "none" /\ c.prescale = 0
      BY DEF Idle, Calls, Places, Goals
    <3>2. call' = [call EXCEPT ![u] = c]
      BY <2>2 DEF Connect
    <3> HIDE DEF c
    <3>3. QED BY <1>0, <3>1, <3>2, CallBecomes
  <2>3. QED BY <2>1, <2>2
<1>2. /\ UNCHANGED <<connector, unsubscribed_guard, nonblocking_guard, attached, new_data_guard,
                     opened, listener, notified, barrier, reader, serverVars>>
      /\ disconnected_guard' = TRUE
      /\ connection_mutex' = connection_mutex
         \/ (connection_mutex = Free /\ connection_mutex' = u)
  BY DEF Disconnect, Connect, Begins
<1>3. TypeOK'
  BY <1>0, <1>1, <1>2 DEF TypeOK, Calls
<1>4. MutexOwner'
  BY <1>0, <1>1, <1>2, FreeIsNoUser DEF MutexOwner, Holding
<1>5. Stages'
  BY <1>0, <1>1, <1>2 DEF Stages, Holding
<1>6. Subscriptions' /\ Fresh' /\ Counted'
  BY <1>0, <1>1, <1>2 DEF Subscriptions, SubscriptionHasReader, Fresh, Subscribing, Counted, Due
<1>7. QED BY <1>3, <1>4, <1>5, <1>6 DEF IInv

LEMMA LeaveStep ==
    ASSUME IInv, NEW u \in Users, LeaveServer(u)
    PROVE  IInv'
<1> USE DEF guards, connector, serverVars
<1>0. /\ TypeOK /\ MutexOwner /\ Stages /\ Subscriptions /\ Fresh /\ Counted
      /\ call \in [Users -> Calls] /\ call[u].at = "disconnecting"
  BY Typed DEF IInv, LeaveServer
<1>1. /\ call' \in [Users -> Calls]
      /\ \A v \in Users \ {u} : call'[v] = call[v]
      /\ call'[u].prescale = 0
      /\ \/ /\ call'[u].at = "closing" /\ call'[u].goal = "none"
            /\ UNCHANGED <<unsubscribed_guard, new_data_guard>>
         \/ /\ call'[u].at = "detaching" /\ call'[u].goal = "leave"
            /\ unsubscribed_guard' = TRUE /\ new_data_guard' = 0
  <2>0. call[u].goal = "none" /\ call[u].prescale = 0
    BY <1>0 DEF Stages
  <2>1. CASE disconnected_guard
    <3>1. Go(u, "closing") /\ UNCHANGED <<unsubscribed_guard, new_data_guard>> /\ "closing" \in Places
      BY <2>1 DEF LeaveServer, Places
    <3>2. QED BY <1>0, <2>0, <3>1, CallStep
  <2>2. CASE ~disconnected_guard
    <3> DEFINE c == [call[u] EXCEPT !.at = "detaching", !.goal = "leave"]
    <3>1. c \in Calls /\ c.at = "detaching" /\ c.goal = "leave" /\ c.prescale = call[u].prescale
      <4>1. call[u] \in Calls
        BY <1>0
      <4>2. QED BY <4>1 DEF Calls, Places, Goals
    <3>2. /\ call' = [call EXCEPT ![u] = c]
          /\ unsubscribed_guard' = TRUE /\ new_data_guard' = 0
      BY <1>0, <2>2 DEF LeaveServer
    <3> HIDE DEF c
    <3>3. QED BY <1>0, <2>0, <3>1, <3>2, CallBecomes
  <2>3. QED BY <2>1, <2>2
<1>2. /\ UNCHANGED <<connector, disconnected_guard, nonblocking_guard, attached,
                     opened, listener, notified, barrier, reader, serverVars>>
      /\ connection_mutex \in {Free, u} /\ connection_mutex' = u
  BY DEF LeaveServer
<1>3. TypeOK'
  <2>1. new_data_guard' \in 0 .. opened'
    BY <1>0, <1>1, <1>2 DEF TypeOK
  <2>2. unsubscribed_guard' \in BOOLEAN
    BY <1>0, <1>1 DEF TypeOK
  <2>3. QED BY <1>0, <1>1, <1>2, <2>1, <2>2 DEF TypeOK, Calls
<1>4. MutexOwner'
  BY <1>0, <1>1, <1>2, FreeIsNoUser DEF MutexOwner, Holding
<1>5. Stages'
  BY <1>0, <1>1, <1>2, FreeIsNoUser DEF Stages, MutexOwner, Holding
<1>6. Subscriptions' /\ Fresh' /\ Counted'
  BY <1>0, <1>1, <1>2, FreeIsNoUser
     DEF Subscriptions, SubscriptionHasReader, Fresh, Subscribing, Counted, Due
<1>7. QED BY <1>3, <1>4, <1>5, <1>6 DEF IInv

LEMMA CloseStep ==
    ASSUME IInv, NEW u \in Users, Close(u) \/ CloseDone(u)
    PROVE  IInv'
<1> USE DEF guards, connector, serverVars
<1>0. /\ TypeOK /\ MutexOwner /\ Stages /\ Subscriptions /\ Fresh /\ Counted
      /\ call \in [Users -> Calls] /\ opened \in Nat /\ published \in Nat /\ barrier \in Nat
  BY Typed DEF IInv
<1>1. CASE Close(u)
  <2>1. /\ call' \in [Users -> Calls] /\ call[u].at = "closing"
        /\ call'[u].at = "closed" /\ call'[u].goal = call[u].goal
        /\ call'[u].prescale = call[u].prescale
        /\ \A v \in Users \ {u} : call'[v] = call[v]
    BY <1>0, <1>1, CallStep DEF Close, Places
  <2>2. /\ UNCHANGED <<connector, guards, connection_mutex, new_data_guard, opened, listener,
                       barrier, server_up, outages, published>>
        /\ reader' = NoReader /\ filter' = NoFilter /\ pending' = 0
        /\ attached' = FALSE /\ notified' = FALSE
    BY <1>1 DEF Close, Detached
  <2>3. connection_mutex = u /\ \A v \in Users \ {u} : call[v].at \notin Holding
    BY <1>0, <2>1 DEF MutexOwner, Holding
  <2>4. TypeOK'
    BY <1>0, <2>1, <2>2, SmallFacts DEF TypeOK, Calls, Readers
  <2>5. MutexOwner'
    BY <1>0, <2>1, <2>2, <2>3 DEF MutexOwner, Holding
  <2>6. Stages'
    BY <1>0, <2>1, <2>2, <2>3, SmallFacts DEF Stages, Holding
  <2>7. Subscriptions'
    BY <1>0, <2>2, SmallFacts DEF Subscriptions, SubscriptionHasReader
  <2>8. Fresh' /\ Counted'
    BY <1>0, <2>2, SmallFacts DEF Fresh, Counted
  <2>9. QED BY <2>4, <2>5, <2>6, <2>7, <2>8 DEF IInv
<1>2. CASE CloseDone(u)
  <2> DEFINE c == [Idle EXCEPT !.at = "opening", !.goal = "connect"]
  <2>1. /\ c \in Calls /\ c.at = "opening" /\ c.goal = "connect" /\ c.prescale = 0
        /\ Idle.at = "idle" /\ Idle.goal = "none" /\ Idle.prescale = 0
    BY DEF Idle, Calls, Places, Goals
  <2>2. \/ call' = [call EXCEPT ![u] = c] /\ connection_mutex' = connection_mutex
        \/ call' = [call EXCEPT ![u] = Idle] /\ connection_mutex' = Free
    BY <1>2 DEF CloseDone, Return
  <2> HIDE DEF c
  <2>3. /\ UNCHANGED <<connector, unsubscribed_guard, nonblocking_guard, attached,
                       new_data_guard, opened, listener, notified, reader, serverVars>>
        /\ disconnected_guard' = TRUE /\ barrier' = published /\ call[u].at = "closed"
    BY <1>2 DEF CloseDone
  <2>4. /\ connection_mutex = u /\ \A v \in Users \ {u} : call[v].at \notin Holding
        /\ \A v \in Users \ {u} : connection_mutex # v
    BY <1>0, <2>3 DEF MutexOwner, Holding
  <2>5. /\ call' \in [Users -> Calls] /\ call'[u] \in {c, Idle}
        /\ call'[u] = c => connection_mutex' = u
        /\ call'[u] = Idle => connection_mutex' = Free
        /\ \A v \in Users \ {u} : call'[v] = call[v]
    BY <1>0, <2>1, <2>2, <2>4, CallBecomes, SmallFacts
  <2>6. reader.id = 0 /\ reader.prescale = 0 /\ reader.data = 0 /\ pending = 0
    BY <1>0, <2>3 DEF Stages
  <2>7. TypeOK'
    <3>1. connection_mutex' \in Users \cup {Free}
      BY <2>1, <2>5
    <3>2. \A v \in Users : call'[v].goal = "subscribe" => call'[v].prescale > 0
      BY <1>0, <2>1, <2>5 DEF TypeOK
    <3>3. QED BY <1>0, <2>3, <2>5, <3>1, <3>2 DEF TypeOK, Calls
  <2>8. MutexOwner'
    BY <1>0, <2>1, <2>4, <2>5, FreeIsNoUser DEF MutexOwner, Holding
  <2>9. Stages'
    BY <1>0, <2>1, <2>3, <2>4, <2>5 DEF Stages, Holding
  <2>10. Subscriptions'
    BY <1>0, <2>3, <2>6 DEF Subscriptions, SubscriptionHasReader
  <2>11. Fresh' /\ Counted'
    BY <1>0, <2>3, <2>6 DEF Fresh, Counted
  <2>12. QED BY <2>7, <2>8, <2>9, <2>10, <2>11 DEF IInv
<1>3. QED BY <1>1, <1>2

-----------------------------------------------------------------------------
\* subscribe() and unsubscribe().
LEMMA BeginStep ==
    ASSUME IInv, NEW u \in Users,
           Unsubscribe(u) \/ \E prescale \in Prescales : Subscribe(u, prescale)
    PROVE  IInv'
<1> USE DEF guards, connector, serverVars
<1>0. /\ TypeOK /\ MutexOwner /\ Stages /\ Subscriptions /\ Fresh /\ Counted
      /\ call \in [Users -> Calls]
  BY Typed DEF IInv
<1>1. /\ UNCHANGED <<connector, disconnected_guard, nonblocking_guard, attached, opened,
                     listener, notified, barrier, reader, serverVars>>
      /\ call[u].at = "idle" /\ connection_mutex = Free /\ connection_mutex' = u
  BY DEF Unsubscribe, Subscribe, Begins
<1>2. \E c \in Calls :
        /\ call' = [call EXCEPT ![u] = c]
        /\ c.at = "detaching"
        /\ \/ /\ c.goal = "unsubscribe" /\ c.prescale = 0
              /\ unsubscribed_guard' = TRUE /\ new_data_guard' = 0
           \/ /\ c.goal = "subscribe" /\ c.prescale > 0
              /\ UNCHANGED <<unsubscribed_guard, new_data_guard>>
  <2>1. CASE Unsubscribe(u)
    <3> DEFINE c == [Idle EXCEPT !.at = "detaching", !.goal = "unsubscribe"]
    <3>1. c \in Calls /\ c.at = "detaching" /\ c.goal = "unsubscribe" /\ c.prescale = 0
      BY DEF Idle, Calls, Places, Goals
    <3>2. call' = [call EXCEPT ![u] = c] /\ unsubscribed_guard' = TRUE /\ new_data_guard' = 0
      BY <2>1 DEF Unsubscribe
    <3> HIDE DEF c
    <3>3. QED BY <3>1, <3>2
  <2>2. CASE \E prescale \in Prescales : Subscribe(u, prescale)
    <3> PICK prescale \in Prescales : Subscribe(u, prescale)
      BY <2>2
    <3> DEFINE c == [Idle EXCEPT !.at = "detaching", !.goal = "subscribe", !.prescale = prescale]
    <3>1. c \in Calls /\ c.at = "detaching" /\ c.goal = "subscribe" /\ c.prescale = prescale
      BY DEF Idle, Calls, Places, Goals
    <3>2. /\ call' = [call EXCEPT ![u] = c] /\ UNCHANGED <<unsubscribed_guard, new_data_guard>>
          /\ prescale >= 1 /\ prescale \in Nat
      BY PrescalesAssumption DEF Subscribe, Accepted
    <3> HIDE DEF c
    <3>3. c.prescale > 0
      BY <3>1, <3>2
    <3>4. QED BY <3>1, <3>2, <3>3
  <2>3. QED BY <2>1, <2>2
<1> PICK c \in Calls :
        /\ call' = [call EXCEPT ![u] = c]
        /\ c.at = "detaching"
        /\ \/ /\ c.goal = "unsubscribe" /\ c.prescale = 0
              /\ unsubscribed_guard' = TRUE /\ new_data_guard' = 0
           \/ /\ c.goal = "subscribe" /\ c.prescale > 0
              /\ UNCHANGED <<unsubscribed_guard, new_data_guard>>
  BY <1>2
<1>3. /\ call' \in [Users -> Calls] /\ call'[u] = c /\ \A v \in Users \ {u} : call'[v] = call[v]
  BY <1>0, CallBecomes
<1>4. \A v \in Users : call[v].at \notin Holding
  BY <1>0, <1>1, FreeIsNoUser DEF MutexOwner
<1>5. TypeOK'
  <2>0. new_data_guard' = 0 \/ new_data_guard' = new_data_guard
    OBVIOUS
  <2>1. new_data_guard' \in 0 .. opened' /\ unsubscribed_guard' \in BOOLEAN
    <3>1. unsubscribed_guard' = TRUE \/ unsubscribed_guard' = unsubscribed_guard
      OBVIOUS
    <3>2. unsubscribed_guard' \in BOOLEAN
      BY <1>0, <3>1 DEF TypeOK
    <3>3. QED BY <1>0, <1>1, <2>0, <3>2 DEF TypeOK
  <2>2. \A v \in Users : call'[v].goal = "subscribe" => call'[v].prescale > 0
    BY <1>0, <1>3 DEF TypeOK
  <2>3. QED BY <1>0, <1>1, <1>3, <2>1, <2>2 DEF TypeOK, Calls
<1>6. MutexOwner'
  BY <1>0, <1>1, <1>3, <1>4, FreeIsNoUser DEF MutexOwner, Holding
<1>7. Stages'
  BY <1>0, <1>1, <1>3, <1>4 DEF Stages, Holding
<1>8. Subscriptions'
  BY <1>0, <1>1, FreeIsNoUser DEF Subscriptions, SubscriptionHasReader
<1>9. Fresh' /\ Counted'
  BY <1>0, <1>1, <1>3, <1>4 DEF Fresh, Subscribing, Counted, Due, Holding
<1>10. QED BY <1>5, <1>6, <1>7, <1>8, <1>9 DEF IInv

\* Opening the new reader and waiting for a match.
LEMMA OpenStep ==
    ASSUME IInv, NEW u \in Users, Detach(u) \/ OpenReader(u) \/ ReaderMatched(u)
    PROVE  IInv'
<1> USE DEF guards, connector, serverVars
<1>0. /\ TypeOK /\ MutexOwner /\ Stages /\ Subscriptions /\ Fresh /\ Counted
      /\ call \in [Users -> Calls] /\ opened \in Nat /\ published \in Nat /\ barrier \in Nat
      /\ call[u].at \in Holding
  BY Typed DEF IInv, Detach, OpenReader, ReaderMatched, Holding
<1>1. connection_mutex = u /\ connection_mutex # Free /\ \A v \in Users \ {u} : call[v].at \notin Holding
  BY <1>0, FreeIsNoUser DEF MutexOwner
<1>2. CASE Detach(u) \/ ReaderMatched(u)
  <2>1. /\ UNCHANGED <<connector, guards, connection_mutex, new_data_guard, opened, listener,
                       barrier, reader, serverVars>>
        /\ attached' \in BOOLEAN /\ notified' \in BOOLEAN
    BY <1>0, <1>2 DEF Detach, ReaderMatched, Detached, TypeOK
  <2>2. \/ call[u].at = "detaching" /\ Go(u, "opening")
        \/ call[u].at = "matching" /\ Go(u, "matched")
    BY <1>2 DEF Detach, ReaderMatched
  <2>3. /\ call' \in [Users -> Calls] /\ call'[u].goal = call[u].goal
        /\ call'[u].prescale = call[u].prescale
        /\ \A v \in Users \ {u} : call'[v] = call[v]
        /\ \/ call[u].at = "detaching" /\ call'[u].at = "opening"
           \/ call[u].at = "matching" /\ call'[u].at = "matched"
    BY <1>0, <2>2, CallStep DEF Places
  <2>4. TypeOK'
    BY <1>0, <2>1, <2>3 DEF TypeOK, Calls
  <2>5. MutexOwner' /\ Stages'
    BY <1>0, <1>1, <2>1, <2>3 DEF MutexOwner, Stages, Holding
  <2>6. Subscriptions'
    BY <1>0, <2>1 DEF Subscriptions, SubscriptionHasReader
  <2>7. Fresh' /\ Counted'
    BY <1>0, <1>1, <2>1, <2>3 DEF Fresh, Subscribing, Counted, Due
  <2>8. QED BY <2>4, <2>5, <2>6, <2>7 DEF IInv
<1>3. CASE OpenReader(u)
  <2>1. /\ UNCHANGED <<guards, connection_mutex, attached, new_data_guard, listener, notified,
                       barrier, server_up, outages, published>>
        /\ opened' = opened + 1 /\ filter' = NoFilter /\ pending' = 0
        /\ connection_guard' = FALSE /\ incompatible_qos_guard' = FALSE
        /\ call[u].at = "opening"
    BY <1>3 DEF OpenReader
  <2>2. /\ call' \in [Users -> Calls] /\ call'[u].goal = call[u].goal /\ call'[u].at = "matching"
        /\ call'[u].prescale = call[u].prescale
        /\ \A v \in Users \ {u} : call'[v] = call[v]
    BY <1>0, <1>3, CallStep DEF OpenReader, Places
  <2>3. /\ reader' = [id |-> opened + 1, prescale |-> call[u].prescale, data |-> 0, unread |-> FALSE]
    BY <1>3 DEF OpenReader, FreshReader, NewReader, NoReader
  <2>4. /\ reader'.id = opened + 1 /\ reader'.id # 0 /\ reader'.data = 0
        /\ reader'.prescale = call[u].prescale /\ reader' \in Readers(opened')
        /\ filter'.reader = 0
    <3>1. call[u].prescale \in Prescales \cup {0}
      BY <1>0 DEF Calls
    <3>2. QED BY <1>0, <2>1, <2>3, <3>1, SmallFacts DEF Readers
  <2> HIDE DEF guards
  <2>5. TypeOK'
    <3>1. new_data_guard' \in 0 .. opened' /\ opened' \in Nat
      BY <1>0, <2>1 DEF TypeOK
    <3>2. filter' \in [reader : Nat, count : Nat, since : Nat] /\ pending' \in Nat
      BY <2>1, SmallFacts
    <3>3. QED BY <1>0, <2>1, <2>2, <2>4, <3>1, <3>2 DEF TypeOK, Calls, Readers, guards
  <2>6. MutexOwner'
    BY <1>0, <1>1, <2>1, <2>2 DEF MutexOwner, Holding
  <2>7. Stages'
    BY <1>0, <1>1, <2>1, <2>2, <2>4 DEF Stages, Holding, guards
  <2>8. Subscriptions'
    BY <1>0, <1>1, <2>1, <2>4 DEF Subscriptions, SubscriptionHasReader, guards
  <2>9. Fresh' /\ Counted'
    BY <1>0, <2>1, <2>4 DEF Fresh, Counted
  <2>10. QED BY <2>5, <2>6, <2>7, <2>8, <2>9 DEF IInv
<1>4. QED BY <1>2, <1>3

\* The call has its reader.
LEMMA DoneStep ==
    ASSUME IInv, NEW u \in Users, Connected(u) \/ Subscribed(u) \/ Unsubscribed(u)
    PROVE  IInv'
<1> USE DEF guards, connector, serverVars
<1>0. /\ TypeOK /\ MutexOwner /\ Stages /\ Subscriptions /\ Fresh /\ Counted
      /\ call \in [Users -> Calls] /\ opened \in Nat /\ published \in Nat /\ barrier \in Nat
      /\ call[u].at = "matched" /\ reader \in Readers(opened) /\ pending \in Nat
  BY Typed DEF IInv, Connected, Subscribed, Unsubscribed
<1>1. /\ connection_mutex = u /\ connection_mutex # Free
      /\ \A v \in Users \ {u} : call[v].at \notin Holding
  BY <1>0, FreeIsNoUser DEF MutexOwner, Holding
<1>2. /\ reader.id # 0 /\ reader.prescale = call[u].prescale /\ reader.id \in 0 .. opened
      /\ call[u].goal # "subscribe" => reader.prescale = 0
      /\ call[u].goal \in {"unsubscribe", "leave"} => unsubscribed_guard
  BY <1>0 DEF Stages, Holding, Readers
<1>3. Idle.at = "idle" /\ Idle.goal = "none" /\ Idle.prescale = 0
  BY DEF Idle
<1>4. CASE Connected(u)
  <2>1. /\ UNCHANGED <<connector, unsubscribed_guard, nonblocking_guard, attached,
                       new_data_guard, opened, listener, notified, barrier, reader, serverVars>>
        /\ disconnected_guard' = FALSE /\ call[u].goal = "connect"
    BY <1>4 DEF Connected
  <2>2. /\ call' \in [Users -> Calls] /\ call'[u] = Idle /\ connection_mutex' = Free
        /\ \A v \in Users \ {u} : call'[v] = call[v]
    BY <1>0, <1>4, CallStep DEF Connected, Places
  <2>3. TypeOK'
    BY <1>0, <1>3, <2>1, <2>2 DEF TypeOK, Calls
  <2>4. MutexOwner' /\ Stages'
    BY <1>0, <1>1, <1>3, <2>1, <2>2, FreeIsNoUser DEF MutexOwner, Stages, Holding
  <2>5. Subscriptions'
    BY <1>0, <1>2, <2>1 DEF Subscriptions, SubscriptionHasReader
  <2>6. Fresh' /\ Counted'
    BY <1>0, <1>1, <1>3, <2>1, <2>2 DEF Fresh, Subscribing, Counted, Due, Holding
  <2>7. QED BY <2>3, <2>4, <2>5, <2>6 DEF IInv
<1>5. CASE Subscribed(u)
  <2>1. /\ UNCHANGED <<connector, disconnected_guard, nonblocking_guard, attached, opened,
                       listener, notified, barrier, reader, serverVars>>
        /\ unsubscribed_guard' = FALSE /\ new_data_guard' = reader.id
        /\ call[u].goal = "subscribe"
    BY <1>5 DEF Subscribed, ConditionMoved
  <2>2. /\ call' \in [Users -> Calls] /\ call'[u] = Idle /\ connection_mutex' = Free
        /\ \A v \in Users \ {u} : call'[v] = call[v]
    BY <1>0, <1>5, CallStep DEF Subscribed, Places
  <2>3. TypeOK'
    BY <1>0, <1>2, <1>3, <2>1, <2>2 DEF TypeOK, Calls
  <2>4. MutexOwner' /\ Stages'
    BY <1>0, <1>1, <1>3, <2>1, <2>2, FreeIsNoUser DEF MutexOwner, Stages, Holding
  <2>5. Subscriptions'
    BY <1>0, <1>2, <2>1 DEF Subscriptions, SubscriptionHasReader
  <2>6. Subscribing
    BY <1>0, <2>1 DEF Subscribing
  <2>7. Fresh' /\ Counted'
    BY <1>0, <2>1, <2>6 DEF Fresh, Counted, Due
  <2>8. QED BY <2>3, <2>4, <2>5, <2>7 DEF IInv
<1>6. CASE Unsubscribed(u)
  <2>1. /\ UNCHANGED <<connector, guards, attached, new_data_guard, opened, listener, notified,
                       reader, serverVars>>
        /\ barrier' = published /\ call[u].goal \in {"unsubscribe", "leave"}
    BY <1>6 DEF Unsubscribed
  <2>2. /\ call' \in [Users -> Calls]
        /\ \A v \in Users \ {u} : call'[v] = call[v]
        /\ \/ /\ call'[u].at = "closing" /\ call'[u].goal = call[u].goal
              /\ call'[u].prescale = call[u].prescale /\ connection_mutex' = connection_mutex
           \/ call'[u] = Idle /\ connection_mutex' = Free
    <3>1. \/ Go(u, "closing") /\ connection_mutex' = connection_mutex
          \/ Return(u)
      BY <1>6 DEF Unsubscribed
    <3>2. "closing" \in Places
      BY DEF Places
    <3>3. QED BY <1>0, <3>1, <3>2, CallStep
  <2>3. TypeOK'
    <3>1. connection_mutex' \in Users \cup {Free} /\ barrier' \in Nat
      BY <1>0, <1>1, <2>1, <2>2
    <3>2. \A v \in Users : call'[v].goal = "subscribe" => call'[v].prescale > 0
      BY <1>0, <1>3, <2>2 DEF TypeOK
    <3>3. QED BY <1>0, <2>1, <2>2, <3>1, <3>2 DEF TypeOK, Calls
  <2>4. MutexOwner'
    BY <1>0, <1>1, <1>3, <2>1, <2>2, FreeIsNoUser DEF MutexOwner, Holding
  <2>5. Stages'
    BY <1>0, <1>1, <1>3, <2>1, <2>2, FreeIsNoUser DEF Stages, Holding
  <2>6. Subscriptions'
    BY <1>0, <1>2, <2>1 DEF Subscriptions, SubscriptionHasReader
  <2>7. ~Subscribing'
    BY <1>1, <1>2, <1>3, <2>1, <2>2 DEF Subscribing, Holding
  <2>8. Fresh' /\ Counted'
    BY <1>0, <2>1, <2>7 DEF Fresh, Counted, Due
  <2>9. QED BY <2>3, <2>4, <2>5, <2>6, <2>8 DEF IInv
<1>7. QED BY <1>4, <1>5, <1>6
\* The new reader is not found or not made.
LEMMA FailStep ==
    ASSUME IInv, NEW u \in Users, MatchFails(u)
    PROVE  IInv'
<1> USE DEF connector
<1>0. /\ TypeOK /\ MutexOwner /\ Stages /\ Subscriptions /\ Fresh /\ Counted
      /\ call \in [Users -> Calls] /\ opened \in Nat /\ published \in Nat /\ barrier \in Nat
      /\ call[u].at \in {"opening", "matching"}
  BY Typed DEF IInv, MatchFails
<1>1. /\ connection_mutex = u /\ connection_mutex # Free
      /\ \A v \in Users \ {u} : call[v].at \notin Holding
      /\ \A v \in Users \ {u} : connection_mutex # v
  BY <1>0, FreeIsNoUser DEF MutexOwner, Holding
<1>2. /\ UNCHANGED <<connector, nonblocking_guard, attached, opened, listener, notified,
                     server_up, outages, published>>
      /\ reader' = NoReader /\ filter' = NoFilter /\ pending' = 0
  BY DEF MatchFails
<1> DEFINE dc == [Idle EXCEPT !.at = "disconnecting"]
           un == [Idle EXCEPT !.at = "detaching", !.goal = "unsubscribe"]
           cl == [call[u] EXCEPT !.at = "closing"]
<1>3. /\ dc \in Calls /\ dc.at = "disconnecting" /\ dc.goal = "none" /\ dc.prescale = 0
      /\ un \in Calls /\ un.at = "detaching" /\ un.goal = "unsubscribe" /\ un.prescale = 0
      /\ Idle \in Calls /\ Idle.at = "idle" /\ Idle.goal = "none" /\ Idle.prescale = 0
  BY DEF Idle, Calls, Places, Goals
<1>4. /\ cl \in Calls /\ cl.at = "closing" /\ cl.goal = call[u].goal
      /\ cl.prescale = call[u].prescale
  <2>1. call[u] \in Calls
    BY <1>0
  <2>2. QED BY <2>1 DEF Calls, Places
<1>5. \/ /\ call' = [call EXCEPT ![u] = dc] /\ disconnected_guard' = TRUE
         /\ UNCHANGED <<unsubscribed_guard, new_data_guard, connection_mutex, barrier>>
      \/ /\ call' = [call EXCEPT ![u] = un] /\ unsubscribed_guard' = TRUE
         /\ new_data_guard' = 0
         /\ UNCHANGED <<disconnected_guard, connection_mutex, barrier>>
      \/ /\ call' = [call EXCEPT ![u] = cl] /\ barrier' = published /\ call[u].goal = "leave"
         /\ UNCHANGED <<disconnected_guard, unsubscribed_guard, new_data_guard,
                        connection_mutex>>
      \/ /\ call' = [call EXCEPT ![u] = Idle] /\ connection_mutex' = Free
         /\ barrier' = published
         /\ UNCHANGED <<disconnected_guard, unsubscribed_guard, new_data_guard>>
  BY DEF MatchFails, Go, Return
<1> HIDE DEF dc, un, cl
<1>6. PICK c \in {dc, un, cl, Idle} : call' = [call EXCEPT ![u] = c]
  BY <1>5
<1>7. /\ call' \in [Users -> Calls] /\ call'[u] = c
      /\ \A v \in Users \ {u} : call'[v] = call[v]
  BY <1>0, <1>3, <1>4, <1>6, CallBecomes
<1>8. /\ call'[u] # Idle => connection_mutex' = connection_mutex
      /\ connection_mutex' \in {connection_mutex, Free}
      /\ connection_mutex' = Free => call'[u] = Idle
      /\ barrier' \in {barrier, published}
      /\ disconnected_guard' \in {disconnected_guard, TRUE}
  <2>1. \A d : call' = [call EXCEPT ![u] = d] => call'[u] = d
    BY <1>0
  <2>2. QED BY <1>1, <1>5, <2>1
<1>9. \/ unsubscribed_guard' = unsubscribed_guard /\ new_data_guard' = new_data_guard
      \/ unsubscribed_guard' = TRUE /\ new_data_guard' = 0
  BY <1>5
<1>10. TypeOK'
  <2>1. connection_mutex' \in Users \cup {Free} /\ barrier' \in Nat
    BY <1>0, <1>1, <1>8
  <2>2. disconnected_guard' \in BOOLEAN
    BY <1>0, <1>8 DEF TypeOK
  <2>3. unsubscribed_guard' \in BOOLEAN
    BY <1>0, <1>9 DEF TypeOK
  <2>4. new_data_guard' \in 0 .. opened'
    BY <1>0, <1>2, <1>9 DEF TypeOK
  <2>5. \A v \in Users : call'[v].goal = "subscribe" => call'[v].prescale > 0
    BY <1>0, <1>3, <1>4, <1>7 DEF TypeOK
  <2>6. reader' \in Readers(opened') /\ filter' \in [reader : Nat, count : Nat, since : Nat]
    BY <1>0, <1>2, SmallFacts
  <2>7. QED BY <1>0, <1>2, <1>7, <2>1, <2>2, <2>3, <2>4, <2>5, <2>6 DEF TypeOK, Calls, Readers
<1>11. MutexOwner'
  <2>1. dc # Idle /\ un # Idle /\ cl # Idle
    BY <1>3, <1>4
  <2>2. call'[u] = Idle => connection_mutex' = Free
    <3>1. /\ call' = [call EXCEPT ![u] = dc] => call'[u] # Idle
          /\ call' = [call EXCEPT ![u] = un] => call'[u] # Idle
          /\ call' = [call EXCEPT ![u] = cl] => call'[u] # Idle
      BY <1>0, <2>1
    <3>2. QED BY <1>5, <3>1
  <2>3. c = Idle \/ (c.at \in Holding \cup {"disconnecting"} /\ c # Idle)
    BY <1>3, <1>4, <2>1 DEF Holding
  <2>4. call'[u].at \in Holding => connection_mutex' = u
    BY <1>1, <1>3, <1>7, <1>8, <2>3 DEF Holding
  <2>5. connection_mutex' = u => call'[u].at \in Holding \cup {"disconnecting"}
    BY <1>7, <2>2, <2>3, FreeIsNoUser
  <2>6. \A v \in Users \ {u} : call'[v].at \notin Holding /\ connection_mutex' # v
    BY <1>1, <1>7, <1>8, FreeIsNoUser
  <2>7. QED BY <2>4, <2>5, <2>6 DEF MutexOwner
<1>12. Stages'
  <2>1. \A v \in Users \ {u} : call'[v].at \notin Holding /\ call'[v] = call[v]
    BY <1>1, <1>7
  <2>2. call'[u] = un => unsubscribed_guard'
    <3>1. un # dc /\ un # Idle /\ (call[u].goal = "leave" => un # cl)
      BY <1>3, <1>4
    <3>2. \A d : call' = [call EXCEPT ![u] = d] => call'[u] = d
      BY <1>0
    <3>3. QED BY <1>5, <3>1, <3>2
  <2>3. call'[u].goal # "subscribe" => call'[u].prescale = 0
    BY <1>0, <1>3, <1>4, <1>7 DEF Stages
  <2>4. /\ call'[u].at \notin {"matching", "matched", "closed"}
        /\ call'[u].at \in {"idle", "disconnecting"} => call'[u].goal = "none"
        /\ call'[u].at \in Holding \ {"closing", "closed"} => call'[u] = un
    BY <1>3, <1>4, <1>7 DEF Holding
  <2>5. \A v \in Users \ {u} :
          /\ call'[v].goal # "subscribe" => call'[v].prescale = 0
          /\ call'[v].at \in {"idle", "disconnecting"} => call'[v].goal = "none"
          /\ call'[v].at \notin {"matching", "matched", "closed"}
    BY <1>0, <2>1 DEF Stages, Holding
  <2>6. QED BY <2>1, <2>2, <2>3, <2>4, <2>5 DEF Stages
<1>13. Subscriptions'
  BY <1>0, <1>2, <1>9, SmallFacts DEF Subscriptions, SubscriptionHasReader
<1>14. Fresh' /\ Counted'
  BY <1>0, <1>2, <1>8, SmallFacts DEF Fresh, Counted
<1>15. QED BY <1>10, <1>11, <1>12, <1>13, <1>14 DEF IInv

-----------------------------------------------------------------------------
\* blocking(), and the steps of getUpdate() and getUpdateWait().
LEMMA ReadStep ==
    ASSUME IInv, NEW u \in Users,
           \/ \E blocking \in BOOLEAN : Blocking(u, blocking)
           \/ GetUpdate(u) \/ GetUpdateWait(u) \/ Wake(u) \/ WaitTimesOut(u)
    PROVE  IInv'
<1> USE DEF connector, serverVars
<1>0. /\ TypeOK /\ MutexOwner /\ Stages /\ Subscriptions /\ Fresh /\ Counted
      /\ call \in [Users -> Calls] /\ opened \in Nat /\ reader \in Readers(opened)
      /\ new_data_guard \in 0 .. opened
  BY Typed DEF IInv
<1>1. /\ UNCHANGED <<connector, disconnected_guard, unsubscribed_guard, connection_mutex,
                     attached, new_data_guard, opened, listener, notified, barrier, serverVars>>
      /\ nonblocking_guard' \in BOOLEAN
      /\ reader' = reader \/ reader' = [reader EXCEPT !.unread = FALSE]
  BY <1>0 DEF Blocking, GetUpdate, GetUpdateWait, Wake, WaitTimesOut, guards, TypeOK
<1>2. /\ reader'.id = reader.id /\ reader'.prescale = reader.prescale
      /\ reader'.data = reader.data /\ reader' \in Readers(opened')
  <2>1. ASSUME NEW r \in Readers(opened), NEW s, s = [r EXCEPT !.unread = FALSE]
        PROVE  /\ s.id = r.id /\ s.prescale = r.prescale /\ s.data = r.data
               /\ s \in Readers(opened)
    BY <2>1 DEF Readers
  <2>2. QED BY <1>0, <1>1, <2>1
<1> DEFINE Quiet(c) == /\ c \in Calls /\ c.at \in {"idle", "waiting", "woken"}
                       /\ c.goal = "none" /\ c.prescale = 0
<1>3. \/ call' = call
      \/ /\ call[u].at \in {"idle", "waiting", "woken"}
         /\ \E c \in Calls : call' = [call EXCEPT ![u] = c] /\ Quiet(c)
  <2>1. Quiet(Idle)
    BY DEF Idle, Calls, Places, Goals
  <2>2. Quiet([Idle EXCEPT !.at = "woken"])
    BY DEF Idle, Calls, Places, Goals
  <2>3. Quiet([Idle EXCEPT !.at = "waiting", !.watches = new_data_guard])
    <3>1. new_data_guard \in Nat
      BY <1>0
    <3>2. ASSUME NEW n \in Nat, NEW c, c = [Idle EXCEPT !.at = "waiting", !.watches = n]
          PROVE  /\ c \in Calls /\ c.at = "waiting" /\ c.goal = "none" /\ c.prescale = 0
      BY <3>2 DEF Idle, Calls, Places, Goals
    <3>3. QED BY <3>1, <3>2
  <2> HIDE DEF Quiet
  <2>4. \A c : Quiet(c) => c \in Calls
    BY DEF Quiet
  <2>5. CASE \E blocking \in BOOLEAN : Blocking(u, blocking)
    BY <2>5 DEF Blocking
  <2>6. CASE GetUpdate(u)
    BY <2>1, <2>4, <2>6 DEF GetUpdate, UpdateNow
  <2>7. CASE GetUpdateWait(u)
    BY <2>3, <2>4, <2>7 DEF GetUpdateWait, Begins
  <2>8. CASE Wake(u)
    BY <2>1, <2>2, <2>4, <2>8 DEF Wake
  <2>9. CASE WaitTimesOut(u)
    BY <2>1, <2>4, <2>9 DEF WaitTimesOut
  <2>10. QED BY <2>5, <2>6, <2>7, <2>8, <2>9
<1>4. /\ call' \in [Users -> Calls]
      /\ \A v \in Users :
           \/ call'[v] = call[v]
           \/ call[v].at \in {"idle", "waiting", "woken"} /\ Quiet(call'[v])
  <2>1. CASE call' = call
    BY <1>0, <2>1
  <2>2. CASE /\ call[u].at \in {"idle", "waiting", "woken"}
             /\ \E c \in Calls : call' = [call EXCEPT ![u] = c] /\ Quiet(c)
    <3> HIDE DEF Quiet
    <3> PICK c \in Calls : call' = [call EXCEPT ![u] = c] /\ Quiet(c)
      BY <2>2
    <3>1. call' \in [Users -> Calls] /\ call'[u] = c /\ \A v \in Users \ {u} : call'[v] = call[v]
      BY <1>0, CallBecomes
    <3>2. QED BY <2>2, <3>1
  <2>3. QED BY <1>3, <2>1, <2>2
<1>5. TypeOK'
  <2>1. \A v \in Users : call'[v].goal = "subscribe" => call'[v].prescale > 0
    BY <1>0, <1>4 DEF TypeOK
  <2>2. QED BY <1>0, <1>1, <1>2, <1>4, <2>1 DEF TypeOK, Calls, Readers
<1>6. MutexOwner'
  BY <1>0, <1>1, <1>4 DEF MutexOwner, Holding
<1>7. Stages'
  BY <1>0, <1>1, <1>2, <1>4 DEF Stages, Holding
<1>8. Subscriptions'
  BY <1>0, <1>1, <1>2 DEF Subscriptions, SubscriptionHasReader
<1>9. Fresh'
  <2>1. Subscribing' => Subscribing
    BY <1>1, <1>4 DEF Subscribing
  <2>2. QED BY <1>0, <1>1, <1>2, <2>1 DEF Fresh
<1>10. Counted'
  BY <1>0, <1>1, <1>2 DEF Counted, Due
<1>11. QED BY <1>5, <1>6, <1>7, <1>8, <1>9, <1>10 DEF IInv

-----------------------------------------------------------------------------
\* DDS and the listener.
LEMMA ListenStep ==
    ASSUME IInv, Listen \/ Deliver
    PROVE  IInv'
<1> USE DEF connector, guards, serverVars
<1>0. /\ TypeOK /\ MutexOwner /\ Stages /\ Subscriptions /\ Fresh /\ Counted
      /\ call \in [Users -> Calls] /\ opened \in Nat /\ reader \in Readers(opened)
      /\ pending \in Nat /\ barrier \in Nat /\ published \in Nat
  BY Typed DEF IInv
<1>1. CASE Listen
  <2>1. /\ UNCHANGED <<unsubscribed_guard, nonblocking_guard, connection_mutex, attached,
                       new_data_guard, opened, call, barrier, serverVars>>
        /\ reader' = reader \/ reader' = [reader EXCEPT !.unread = FALSE]
    BY <1>1 DEF Listen, OnDataAvailable, OnLivelinessChanged, OnSubscriptionMatched,
                OnRequestedIncompatibleQos
  <2>2. /\ disconnected_guard' \in BOOLEAN /\ connection_guard' \in BOOLEAN
        /\ incompatible_qos_guard' \in BOOLEAN
        /\ listener' \in {"quiet", "alive", "gone"} /\ notified' \in BOOLEAN
    <3>1. CASE OnDataAvailable
      BY <1>0, <3>1 DEF OnDataAvailable, TypeOK
    <3>2. CASE OnLivelinessChanged
      BY <1>0, <3>2 DEF OnLivelinessChanged, TypeOK
    <3>3. CASE OnSubscriptionMatched
      BY <1>0, <3>3 DEF OnSubscriptionMatched, TypeOK
    <3>4. CASE OnRequestedIncompatibleQos
      BY <1>0, <3>4 DEF OnRequestedIncompatibleQos, TypeOK
    <3>5. QED BY <1>1, <3>1, <3>2, <3>3, <3>4 DEF Listen
  <2>3. /\ reader'.id = reader.id /\ reader'.prescale = reader.prescale
        /\ reader'.data = reader.data /\ reader' \in Readers(opened)
    <3>1. ASSUME NEW r \in Readers(opened), NEW s, s = [r EXCEPT !.unread = FALSE]
          PROVE  /\ s.id = r.id /\ s.prescale = r.prescale /\ s.data = r.data
                 /\ s \in Readers(opened)
      BY <3>1 DEF Readers
    <3>2. QED BY <1>0, <2>1, <3>1
  <2>4. TypeOK'
    BY <1>0, <2>1, <2>2, <2>3 DEF TypeOK, Readers
  <2>5. MutexOwner' /\ Stages'
    BY <1>0, <2>1, <2>3 DEF MutexOwner, Stages
  <2>6. Subscriptions' /\ Fresh' /\ Counted'
    BY <1>0, <2>1, <2>3
       DEF Subscriptions, SubscriptionHasReader, Fresh, Subscribing, Counted, Due
  <2>7. QED BY <2>4, <2>5, <2>6 DEF IInv
<1>2. CASE Deliver
  <2>1. /\ UNCHANGED <<connector, guards, connection_mutex, attached, new_data_guard, opened,
                       call, listener, barrier, server_up, outages, published, filter>>
        /\ pending # 0 /\ pending' = 0 /\ notified' = attached
        /\ reader' = [reader EXCEPT !.data = pending, !.unread = TRUE]
    BY <1>2 DEF Deliver
  <2>2. /\ reader'.id = reader.id /\ reader'.prescale = reader.prescale
        /\ reader'.data = pending /\ reader' \in Readers(opened)
    <3> DEFINE s == [reader EXCEPT !.data = pending, !.unread = TRUE]
    <3>1. /\ s.id = reader.id /\ s.prescale = reader.prescale /\ s.data = pending
          /\ s \in Readers(opened)
      BY <1>0 DEF Readers
    <3>2. reader' = s /\ opened' = opened
      BY <2>1
    <3> HIDE DEF s
    <3>3. QED BY <3>1, <3>2
  <2>3. TypeOK'
    BY <1>0, <2>1, <2>2 DEF TypeOK, Readers
  <2>4. MutexOwner'
    BY <1>0, <2>1 DEF MutexOwner
  <2>5. Stages'
    <3>1. \A v \in Users : call[v].at # "closed"
      BY <1>0, <2>1 DEF Stages
    <3>2. QED BY <1>0, <2>1, <2>2, <3>1 DEF Stages
  <2>6. Subscriptions' /\ Fresh' /\ Counted'
    BY <1>0, <2>1, <2>2
       DEF Subscriptions, SubscriptionHasReader, Fresh, Subscribing, Counted, Due
  <2>7. QED BY <2>3, <2>4, <2>5, <2>6 DEF IInv
<1>3. QED BY <1>1, <1>2

\* The server's writer comes, goes, compiles the reader's filter and writes.
LEMMA ServerStep ==
    ASSUME IInv, ServerVanishes \/ ServerReturns \/ ServerWrites
    PROVE  IInv'
<1> USE PushBounds DEF connector, guards
<1>0. /\ TypeOK /\ MutexOwner /\ Stages /\ Subscriptions /\ Fresh /\ Counted
      /\ opened \in Nat /\ reader \in Readers(opened) /\ pending \in Nat /\ barrier \in Nat
      /\ published \in Nat /\ published \in 0 .. MaxPuts
      /\ filter \in [reader : Nat, count : Nat, since : Nat]
  BY Typed DEF IInv
<1>1. /\ UNCHANGED <<connector, guards, connection_mutex, attached, new_data_guard, opened,
                     call, notified, barrier, reader>>
      /\ listener' \in {"quiet", "alive", "gone"}
  BY <1>0 DEF ServerVanishes, ServerReturns, ServerWrites, TellListener, WriterGoes,
              WriterReturns, Put, Compile, TypeOK
<1>2. ASSUME /\ server_up' \in BOOLEAN /\ outages' \in 0 .. MaxOutages
             /\ published' \in 0 .. MaxPuts /\ pending' \in Nat
             /\ filter' \in [reader : Nat, count : Nat, since : Nat],
             pending = 0 /\ reader.id = 0 => pending' = 0,
             published <= published', pending' = 0 \/ pending' = pending \/ pending' > published,
             pending' <= published', Counted'
      PROVE  IInv'
  <2>1. TypeOK'
    BY <1>0, <1>1, <1>2 DEF TypeOK
  <2>2. MutexOwner'
    BY <1>0, <1>1 DEF MutexOwner
  <2>3. Stages'
    BY <1>0, <1>1, <1>2 DEF Stages
  <2>4. Subscriptions'
    BY <1>0, <1>1 DEF Subscriptions, SubscriptionHasReader
  <2>5. Fresh'
    <3>1. Subscribing' = Subscribing
      BY <1>1 DEF Subscribing
    <3>2. reader.data \in Nat /\ published' \in Nat /\ reader' = reader /\ barrier' = barrier
      BY <1>0, <1>1, <1>2 DEF Readers
    <3>3. /\ barrier <= published /\ reader.data <= published /\ pending <= published
          /\ Subscribing => /\ reader.data # 0 => reader.data > barrier
                            /\ pending # 0 => pending > barrier
      BY <1>0 DEF Fresh
    <3>4. barrier' <= published' /\ reader'.data <= published'
      BY <1>0, <1>2, <3>2, <3>3
    <3>5. Subscribing /\ pending' # 0 => pending' > barrier
      BY <1>0, <1>2, <3>3
    <3>6. QED BY <1>2, <3>1, <3>2, <3>3, <3>4, <3>5 DEF Fresh
  <2>6. QED BY <1>2, <2>1, <2>2, <2>3, <2>4, <2>5 DEF IInv
<1>3. CASE ServerVanishes
  <2>1. /\ server_up' = FALSE /\ outages < MaxOutages /\ outages' = outages + 1
        /\ filter' = NoFilter /\ pending' = 0 /\ published' = published
    BY <1>3 DEF ServerVanishes, WriterGoes
  <2>2. Counted'
    BY <1>0, <1>1, <2>1, SmallFacts DEF Counted, Subscriptions
  <2>3. /\ outages' \in 0 .. MaxOutages
        /\ filter' \in [reader : Nat, count : Nat, since : Nat]
    <3>1. outages \in 0 .. MaxOutages
      BY <1>0 DEF TypeOK
    <3>2. outages' \in 0 .. MaxOutages
      BY <2>1, <3>1
    <3>3. QED BY <2>1, <3>2, SmallFacts
  <2>4. server_up' \in BOOLEAN /\ pending' \in Nat /\ pending' <= published'
    <3>1. server_up' \in BOOLEAN
      BY <2>1
    <3>2. pending' = 0 /\ published' = published
      BY <2>1
    <3>3. QED BY <1>0, <3>1, <3>2
  <2>5. published <= published' /\ published' \in 0 .. MaxPuts
    BY <1>0, <2>1
  <2>6. QED BY <1>2, <2>1, <2>2, <2>3, <2>4, <2>5
<1>4. CASE ServerReturns
  <2>1. server_up' = TRUE /\ UNCHANGED <<outages, published, filter, pending>>
    BY <1>4 DEF ServerReturns, WriterReturns
  <2>2. Counted'
    BY <1>0, <1>1, <2>1 DEF Counted, Due
  <2>3. outages' \in 0 .. MaxOutages /\ pending <= published
    BY <1>0, <2>1 DEF TypeOK, Fresh
  <2>4. QED BY <1>0, <1>2, <2>1, <2>2, <2>3
<1>5. CASE Compile
  <2>1. /\ filter' = [reader |-> reader.id, count |-> 0, since |-> published]
        /\ pending' = 0 /\ UNCHANGED <<server_up, outages, published>>
    BY <1>5 DEF Compile
  <2>2. /\ filter' \in [reader : Nat, count : Nat, since : Nat]
        /\ filter'.reader = reader.id /\ filter'.count = 0 /\ filter'.since = published
    BY <1>0, <2>1 DEF Readers
  <2>3. Counted'
    <3>1. reader.data <= published
      BY <1>0 DEF Fresh
    <3>2. reader.data \in Nat
      BY <1>0 DEF Readers
    <3>3. QED BY <1>0, <1>1, <2>1, <2>2, <3>1, <3>2 DEF Counted
  <2>4. server_up' \in BOOLEAN /\ outages' \in 0 .. MaxOutages
    BY <1>0, <2>1 DEF TypeOK
  <2>5. QED BY <1>0, <1>2, <2>1, <2>2, <2>3, <2>4
<1>6. CASE Put
  <2>1. /\ published < MaxPuts /\ published' = published + 1
        /\ UNCHANGED <<server_up, outages>>
    BY <1>6 DEF Put
  <2>2. /\ published' \in 0 .. MaxPuts /\ published <= published'
        /\ server_up' \in BOOLEAN /\ outages' \in 0 .. MaxOutages
    BY <1>0, <2>1 DEF TypeOK
  <2>3. CASE filter.reader = reader.id /\ reader.id # 0
    <3>1. PICK pass \in Passes : pending' \in OnItsWay(pass)
      BY <1>6, <2>3 DEF Put
    <3>2. \/ pending' = published + 1 /\ pass
          \/ pending' \in {pending, 0}
      BY <3>1 DEF OnItsWay
    <3>3. pending' \in Nat /\ pending' <= published'
      BY <1>0, <2>1, <3>2 DEF Fresh
    <3>4. CASE reader.prescale = 0
      <4>1. filter' = filter
        BY <1>6, <2>3, <3>4 DEF Put
      <4>2. Counted'
        BY <1>0, <1>1, <3>4 DEF Counted, Readers
      <4>3. QED BY <1>0, <1>2, <2>1, <2>2, <2>3, <3>2, <3>3, <4>1, <4>2
    <3>5. CASE reader.prescale # 0
      <4>1. filter' = [filter EXCEPT !.count = filter.count + 1]
        BY <1>6, <2>3, <3>5 DEF Put, CountUpdates
      <4>2. /\ filter' \in [reader : Nat, count : Nat, since : Nat]
            /\ filter'.reader = filter.reader /\ filter'.since = filter.since
            /\ filter'.count = filter.count + 1
        <5>1. ASSUME NEW f \in [reader : Nat, count : Nat, since : Nat], NEW g,
                     g = [f EXCEPT !.count = f.count + 1]
              PROVE  /\ g \in [reader : Nat, count : Nat, since : Nat]
                     /\ g.reader = f.reader /\ g.since = f.since /\ g.count = f.count + 1
          BY <5>1
        <5>2. QED BY <1>0, <4>1, <5>1
      <4>3. /\ reader.prescale \in Nat /\ reader.prescale > 0 /\ reader.data \in Nat
            /\ filter.count \in Nat /\ filter.since \in Nat
        <5>1. reader.prescale \in Prescales \cup {0} /\ reader.data \in Nat
          BY <1>0 DEF Readers
        <5>2. reader.prescale \in Nat
          <6>1. \A prescale \in Prescales : prescale \in Nat
            BY PrescalesAssumption
          <6>2. QED BY <5>1, <6>1
        <5>3. QED BY <1>0, <3>5, <5>1, <5>2
      <4>4. /\ filter.count = published - filter.since
            /\ pending # 0 => pending > filter.since /\ Due(pending)
            /\ reader.data > filter.since => Due(reader.data)
        BY <1>0, <2>3, <4>3 DEF Counted
      <4>5. pass => filter.count % reader.prescale = 0
        BY <3>1, <3>5 DEF Passes
      <4>6. filter.count = (published + 1) - filter.since - 1
        BY <1>0, <4>3, <4>4
      <4>7. pass => Due(published + 1)
        BY <4>5, <4>6 DEF Due
      <4>8. published + 1 > filter.since
        BY <1>0, <4>3, <4>4
      <4>9. pending' # 0 => pending' > filter.since /\ Due(pending')
        BY <3>2, <4>4, <4>7, <4>8
      <4>10. filter'.count = published' - filter'.since
        BY <1>0, <2>1, <4>2, <4>3, <4>4
      <4>11. Counted'
        BY <1>1, <4>2, <4>4, <4>9, <4>10 DEF Counted, Due
      <4>12. QED BY <1>0, <1>2, <2>1, <2>2, <2>3, <3>2, <3>3, <4>2, <4>11
    <3>6. QED BY <3>4, <3>5
  <2>4. CASE ~(filter.reader = reader.id /\ reader.id # 0)
    <3>1. UNCHANGED <<filter, pending>>
      BY <1>6, <2>4 DEF Put
    <3>2. pending' <= published'
      BY <1>0, <2>1, <3>1 DEF Fresh
    <3>3. Counted'
      BY <1>0, <1>1, <2>4, <3>1 DEF Counted, Subscriptions
    <3>4. QED BY <1>0, <1>2, <2>2, <3>1, <3>2, <3>3
  <2>5. QED BY <2>3, <2>4
<1>7. QED BY <1>3, <1>4, <1>5, <1>6 DEF ServerWrites

-----------------------------------------------------------------------------
LEMMA StutterStep == IInv /\ UNCHANGED vars => IInv'
BY DEF IInv, vars, guards, connector, serverVars, TypeOK, MutexOwner, Stages, Subscriptions,
       SubscriptionHasReader, Fresh, Subscribing, Counted, Due

\* Every thread's place fits the owner of connection_mutex, and the reader, its filter and
\* the update on its way fit the places: connect, disconnect, subscribe and unsubscribe of
\* any number of threads, interleaved with the listener and the server, keep it so.
THEOREM WholeInvariant == Spec => []IInv
<1>1. ASSUME IInv, Next
      PROVE  IInv'
  <2>1. ASSUME NEW u \in Users, Call(u) \/ Proceed(u) \/ Wake(u) \/ WaitTimesOut(u)
        PROVE  IInv'
    BY <1>1, <2>1, DisconnectStep, LeaveStep, CloseStep, BeginStep, OpenStep, DoneStep,
       FailStep, ReadStep DEF Call, Proceed
  <2>2. ASSUME Listen \/ Deliver PROVE IInv'
    BY <1>1, <2>2, ListenStep
  <2>3. ASSUME ServerVanishes \/ ServerReturns \/ ServerWrites PROVE IInv'
    BY <1>1, <2>3, ServerStep
  <2>4. QED BY <1>1, <2>1, <2>2, <2>3 DEF Next
<1>2. QED BY <1>1, InitIInv, StutterStep, PTL DEF Spec

\* Every variable of the client and the server keeps the type of the member it models.
THEOREM TypeCorrect == Spec => []TypeOK
BY WholeInvariant, PTL DEF IInv

\* Whatever the threads' calls overtake, a reader with a prescale factor is the one the
\* client reports itself subscribed with and waits on, and a subscribed client always has
\* a read condition to wait on.
THEOREM SubscriptionsHaveReaders == Spec => []SubscriptionHasReader
<1>1. IInv => SubscriptionHasReader
  BY DEF IInv, Subscriptions
<1>2. QED BY <1>1, WholeInvariant, PTL

\* What getUpdate() would return was published after the last unsubscription: each
\* subscription opens a reader of its own, so that no update of the one before stays.
THEOREM UpdatesAreFresh == Spec => []FreshUpdates
<1>1. IInv => FreshUpdates
  BY DEF IInv, Fresh, Subscribing, FreshUpdates
<1>2. QED BY <1>1, WholeInvariant, PTL

\* The prescale filter of CorrelationIdFilter counts every update, read or not: what the
\* subscriber holds is the first update after its filter was compiled or a whole number of
\* factors later.
THEOREM EveryNthUpdate == Spec => []PrescaleKept
<1>1. IInv => PrescaleKept
  BY DEF IInv, Counted, Due, PrescaleKept
<1>2. QED BY <1>1, WholeInvariant, PTL

-----------------------------------------------------------------------------
\* What MutexReleased rests on, fairness aside: the thread that holds connection_mutex
\* has a step to take, or waits for an upcall that needs no mutex, and each of its steps
\* leaves it fewer to take.

\* The guards of the steps of a thread that changes the connection.
CanStep(u) ==
    \/ call[u].at \in {"disconnecting", "closed", "opening", "matching", "matched"}
    \/ call[u].at \in {"closing", "detaching"} /\ (attached => listener = "quiet")

UpcallEnds == listener \in {"alive", "gone"} /\ UpcallRuns

\* The steps before a call ends at most: disconnect() from each place, more of them when
\* the new reader of connect() or subscribe() may fail, or is still to come.
StepsFrom(place) ==
    CASE place = "disconnecting" -> 7
      [] place = "detaching" -> 6
      [] place = "opening" -> 5
      [] place = "matching" -> 4
      [] place = "matched" -> 3
      [] place = "closing" -> 2
      [] place = "closed" -> 1
      [] OTHER -> 0

StepsLeft(c) ==
    StepsFrom(c.at) + (IF c.goal \in {"connect", "subscribe"} THEN 5 ELSE 0)
                    + (IF c.after = "open" THEN 10 ELSE 0)

\* A step of a call is one of the calls that are left with fewer steps.
GetsOn(u) ==
    /\ call'[u] = call[u] \/ StepsLeft(call'[u]) < StepsLeft(call[u])
    /\ connection_mutex' = u \/ call'[u] = Idle

\* The mutex is not held for ever behind an upcall or another call.
THEOREM HolderNotStuck ==
    Spec => [](\A u \in Users : connection_mutex = u => CanStep(u) \/ UpcallEnds)
<1>1. IInv => \A u \in Users : connection_mutex = u => CanStep(u) \/ UpcallEnds
  <2> SUFFICES ASSUME IInv, NEW u \in Users, connection_mutex = u
               PROVE  CanStep(u) \/ UpcallEnds
    OBVIOUS
  <2>1. call[u].at \in Holding \cup {"disconnecting"} /\ listener \in {"quiet", "alive", "gone"}
    BY DEF IInv, MutexOwner, TypeOK
  <2> QED  BY <2>1 DEF CanStep, UpcallEnds, UpcallRuns, Holding
<1> QED  BY <1>1, WholeInvariant, PTL

\* The steps of the holder of the mutex itself.
LEMMA HolderSteps ==
    ASSUME IInv, NEW u \in Users, connection_mutex = u, Proceed(u)
    PROVE  GetsOn(u)
<1>0. call \in [Users -> Calls] /\ Idle \in Calls
  BY SmallFacts, TypeParts DEF IInv
<1>1. call[u] \in Calls
  BY <1>0
<1>2. ASSUME NEW c \in Calls, call' = [call EXCEPT ![u] = c] PROVE call'[u] = c
  BY <1>0, <1>2
<1>3. CASE LeaveServer(u)
  <2>1. call'[u].at \in {"closing", "detaching"} /\ call[u].at = "disconnecting"
        /\ call'[u].after = call[u].after /\ call'[u].goal \in {"leave", call[u].goal}
        /\ connection_mutex' = u
    BY <1>0, <1>1, <1>3 DEF LeaveServer, Go, Calls
  <2> QED  BY <1>1, <2>1 DEF GetsOn, StepsLeft, StepsFrom, IInv, Stages
<1>4. CASE Close(u) \/ Detach(u) \/ OpenReader(u) \/ ReaderMatched(u)
  <2>1. /\ \/ call[u].at = "closing" /\ call'[u].at = "closed"
           \/ call[u].at = "detaching" /\ call'[u].at = "opening"
           \/ call[u].at = "opening" /\ call'[u].at = "matching"
           \/ call[u].at = "matching" /\ call'[u].at = "matched"
        /\ call'[u].after = call[u].after /\ call'[u].goal = call[u].goal
        /\ connection_mutex' = u
    BY <1>0, <1>1, <1>4 DEF Close, Detach, OpenReader, ReaderMatched, Go, Calls
  <2> QED  BY <2>1 DEF GetsOn, StepsLeft, StepsFrom
<1>5. CASE CloseDone(u) \/ Connected(u) \/ Subscribed(u) \/ Unsubscribed(u)
  <2>1. CASE call'[u] = Idle
    BY <1>5, <2>1 DEF CloseDone, Connected, Subscribed, Unsubscribed, GetsOn, StepsLeft,
                      StepsFrom, Idle
  <2>2. CASE call'[u] # Idle
    <3>1. \/ /\ call[u].at = "closed" /\ call[u].after = "open"
             /\ call'[u] = [Idle EXCEPT !.at = "opening", !.goal = "connect"]
          \/ /\ call[u].at = "matched" /\ call[u].goal = "leave"
             /\ call'[u] = [call[u] EXCEPT !.at = "closing"]
      BY <1>0, <1>5, <2>2 DEF CloseDone, Connected, Subscribed, Unsubscribed, Return, Go
    <3>2. connection_mutex' = u
      BY <1>0, <1>5, <2>2 DEF CloseDone, Connected, Subscribed, Unsubscribed, Return
    <3>3. \/ /\ call[u].at = "closed" /\ call[u].after = "open"
             /\ call'[u].at = "opening" /\ call'[u].goal = "connect" /\ call'[u].after = "return"
          \/ /\ call[u].at = "matched" /\ call'[u].at = "closing"
             /\ call'[u].goal = call[u].goal /\ call'[u].after = call[u].after
      BY <1>1, <3>1 DEF Idle, Calls
    <3>4. StepsLeft(call'[u]) < StepsLeft(call[u])
      BY <3>3 DEF StepsLeft, StepsFrom
    <3> QED  BY <3>2, <3>4 DEF GetsOn
  <2> QED  BY <2>1, <2>2
<1>6. CASE MatchFails(u)
  <2>1. \/ call[u].goal = "connect" /\ call'[u] = [Idle EXCEPT !.at = "disconnecting"]
           /\ connection_mutex' = u
        \/ call[u].goal = "subscribe" /\ connection_mutex' = u
           /\ call'[u] = [Idle EXCEPT !.at = "detaching", !.goal = "unsubscribe"]
        \/ call[u].goal = "leave" /\ call'[u] = [call[u] EXCEPT !.at = "closing"]
           /\ connection_mutex' = u
        \/ call'[u] = Idle
    BY <1>0, <1>6 DEF MatchFails, Return, Go
  <2>2. call[u].at \in {"opening", "matching"}
    BY <1>6 DEF MatchFails
  <2>3. \/ /\ call[u].goal \in {"connect", "subscribe"} /\ call'[u].goal \notin {"connect", "subscribe"}
           /\ call'[u].at \in {"disconnecting", "detaching"} /\ call'[u].after = "return"
           /\ connection_mutex' = u
        \/ /\ call'[u].at = "closing" /\ call'[u].goal = call[u].goal
           /\ call'[u].after = call[u].after /\ connection_mutex' = u
        \/ call'[u] = Idle
    BY <1>1, <2>1 DEF Idle, Calls
  <2>4. StepsLeft(call'[u]) < StepsLeft(call[u])
    BY <2>2, <2>3 DEF StepsLeft, StepsFrom, Idle
  <2> QED  BY <2>3, <2>4 DEF GetsOn
<1> QED  BY <1>3, <1>4, <1>5, <1>6 DEF Proceed

\* Nothing else that happens meanwhile changes its call.
LEMMA OthersStand ==
    ASSUME IInv, NEW u \in Users, connection_mutex = u, [Next]_vars, ~Proceed(u)
    PROVE  GetsOn(u)
<1>0. call \in [Users -> Calls] /\ u # Free
  BY TypeParts, FreeIsNoUser DEF IInv
<1>1. call[u].at \notin {"idle", "waiting", "woken"}
  BY DEF IInv, MutexOwner, Holding
<1>2. ASSUME NEW v \in Users, Call(v) \/ Proceed(v) \/ Wake(v) \/ WaitTimesOut(v)
      PROVE  call'[u] = call[u] /\ connection_mutex' = u
  <2>1. u # v
    BY <1>0, <1>1, <1>2
    DEF Call, Connect, Disconnect, Unsubscribe, GetUpdate, GetUpdateWait, Subscribe, Blocking,
        Begins, Wake, WaitTimesOut
  <2>2. call[v].at \notin Holding
    BY <2>1 DEF IInv, MutexOwner
  <2>3. connection_mutex' = u
    BY <1>0, <1>2, <2>1, <2>2
    DEF Call, Connect, Disconnect, Unsubscribe, GetUpdate, GetUpdateWait, Subscribe, Blocking,
        Begins, Wake, WaitTimesOut, Proceed, LeaveServer, Close, CloseDone, Detach, OpenReader,
        ReaderMatched, MatchFails, Connected, Subscribed, Unsubscribed, Holding
  <2>4. \A c : call' = [call EXCEPT ![v] = c] => call'[u] = call[u]
    BY <1>0, <2>1
  <2>5. call'[u] = call[u]
    BY <1>0, <1>2, <2>1, <2>2, <2>4
    DEF Call, Connect, Disconnect, Unsubscribe, GetUpdate, GetUpdateWait, Subscribe, Blocking,
        Begins, Wake, WaitTimesOut, Proceed, LeaveServer, Close, CloseDone, Detach, OpenReader,
        ReaderMatched, MatchFails, Connected, Subscribed, Unsubscribed, Holding, Go
  <2> QED  BY <2>3, <2>5
<1>3. CASE Listen \/ Deliver \/ ServerVanishes \/ ServerReturns \/ ServerWrites \/ UNCHANGED vars
  BY <1>3 DEF Listen, OnDataAvailable, OnLivelinessChanged, OnSubscriptionMatched,
              OnRequestedIncompatibleQos, Deliver, ServerVanishes, ServerReturns, ServerWrites,
              vars, GetsOn
<1> QED  BY <1>2, <1>3 DEF Next, GetsOn

\* A call never needs more of them than this.
LEMMA StepsAreBounded == \A c \in Calls : StepsLeft(c) \in 0 .. 22
BY DEF StepsLeft, StepsFrom, Calls

\* Every step of the holder brings it closer to the end of its call, where it lets go of
\* the mutex, and nobody takes it further away.
THEOREM HolderGetsOn ==
    Spec => [][\A u \in Users : connection_mutex = u => GetsOn(u)]_vars
<1>1. IInv /\ [Next]_vars => \A u \in Users : connection_mutex = u => GetsOn(u)
  BY HolderSteps, OthersStand
<1> QED  BY <1>1, WholeInvariant, PTL DEF Spec

-----------------------------------------------------------------------------
\* An update on its way is newer than the one the reader holds.
Newer == pending # 0 => pending > reader.data

\* Neither holds one from before update n.
NotBefore(n) ==
    /\ published >= n
    /\ reader.data = 0 \/ reader.data >= n
    /\ pending = 0 \/ pending >= n

\* What a step may do to the reader and to the update on its way.
Updates ==
    \/ reader'.data = reader.data /\ pending' \in {pending, 0}
    \/ reader'.data = 0 /\ pending' = 0
    \/ reader'.data = pending /\ pending' = 0
    \/ reader'.data = reader.data /\ pending' = published' /\ published' = published + 1

LEMMA UpdatesStep ==
    ASSUME IInv, [Next]_vars
    PROVE  Updates /\ published' \in Nat /\ published' >= published
<1>0. /\ published \in Nat
      /\ reader \in [id : 0 .. opened, prescale : Prescales \cup {0}, data : Nat,
                     unread : BOOLEAN]
  BY DEF IInv, TypeOK
<1> USE DEF Updates
<1>1. ASSUME UNCHANGED <<reader, pending, published>>
      PROVE  Updates /\ published' \in Nat /\ published' >= published
  BY <1>0, <1>1
<1>2. ASSUME NEW u \in Users, Call(u) \/ Proceed(u) \/ Wake(u) \/ WaitTimesOut(u)
      PROVE  Updates /\ published' \in Nat /\ published' >= published
  <2>1. CASE GetUpdate(u)
    BY <1>0, <2>1 DEF GetUpdate, serverVars
  <2>2. CASE Close(u)
    BY <1>0, <2>2 DEF Close, NoReader
  <2>3. CASE OpenReader(u)
    BY <1>0, <2>3 DEF OpenReader, FreshReader, NewReader, NoReader
  <2>4. CASE MatchFails(u)
    BY <1>0, <2>4 DEF MatchFails, NoReader
  <2>5. CASE Wake(u) \/ WaitTimesOut(u)
    BY <1>1, <2>5 DEF Wake, WaitTimesOut, serverVars
  <2>6. CASE \/ Connect(u) \/ Disconnect(u) \/ Unsubscribe(u) \/ GetUpdateWait(u)
             \/ \E prescale \in Prescales : Subscribe(u, prescale)
             \/ \E blocking \in BOOLEAN : Blocking(u, blocking)
    BY <1>1, <2>6 DEF Connect, Disconnect, Unsubscribe, GetUpdateWait, Subscribe, Blocking,
                      serverVars
  <2>7. CASE \/ LeaveServer(u) \/ CloseDone(u) \/ Detach(u) \/ ReaderMatched(u)
             \/ Connected(u) \/ Subscribed(u) \/ Unsubscribed(u)
    BY <1>1, <2>7 DEF LeaveServer, CloseDone, Detach, ReaderMatched, Connected, Subscribed,
                      Unsubscribed, serverVars
  <2> QED  BY <1>2, <2>1, <2>2, <2>3, <2>4, <2>5, <2>6, <2>7 DEF Call, Proceed
<1>3. CASE Listen
  BY <1>0, <1>3 DEF Listen, OnDataAvailable, OnLivelinessChanged, OnSubscriptionMatched,
                    OnRequestedIncompatibleQos, serverVars
<1>4. CASE Deliver
  BY <1>0, <1>4 DEF Deliver
<1>5. CASE ServerVanishes \/ ServerReturns
  BY <1>0, <1>5 DEF ServerVanishes, ServerReturns, WriterGoes, WriterReturns
<1>6. CASE ServerWrites
  <2>1. CASE Compile
    BY <1>0, <2>1 DEF Compile
  <2>2. CASE Put
    <3>1. reader' = reader /\ published' = published + 1
      BY <2>2 DEF Put
    <3>2. pending' \in {published + 1, pending, 0}
      BY <2>2 DEF Put, OnItsWay
    <3> QED  BY <1>0, <3>1, <3>2
  <2> QED  BY <1>6, <2>1, <2>2 DEF ServerWrites
<1>7. CASE UNCHANGED vars
  BY <1>1, <1>7 DEF vars, serverVars
<1> QED  BY <1>2, <1>3, <1>4, <1>5, <1>6, <1>7 DEF Next

LEMMA UpdateNumbers ==
    IInv => /\ published \in Nat /\ pending \in Nat /\ reader.data \in Nat
            /\ reader.data <= published /\ pending <= published
BY DEF IInv, TypeOK, Fresh

LEMMA NewerStep ==
    ASSUME IInv, Newer, [Next]_vars
    PROVE  Newer'
<1>1. /\ Updates
      /\ published \in Nat /\ pending \in Nat /\ reader.data \in Nat
      /\ reader.data <= published
  BY UpdatesStep, UpdateNumbers
<1> QED  BY <1>1 DEF Newer, Updates

\* The updates a client obtains never go back: once its reader holds update n it never
\* again hands out an earlier one, to no thread, after however many disconnects,
\* resubscriptions with other factors and outages of the server.
THEOREM UpdatesNeverGoBack ==
    ASSUME NEW n \in Nat \ {0}
    PROVE  Spec => [](reader.data = n => [](reader.data = 0 \/ reader.data >= n))
<1>1. Init => Newer
  BY DEF Init, ServerInit, Newer
<1>2. IInv /\ Newer /\ [Next]_vars => Newer'
  BY NewerStep
<1>3. ASSUME IInv, NotBefore(n), [Next]_vars PROVE NotBefore(n)'
  <2>1. /\ Updates /\ published' >= published /\ published' \in Nat
        /\ published \in Nat /\ pending \in Nat /\ reader.data \in Nat
    BY <1>3, UpdatesStep, UpdateNumbers
  <2> QED  BY <1>3, <2>1 DEF NotBefore, Updates
<1>4. IInv /\ Newer /\ reader.data = n => NotBefore(n)
  BY UpdateNumbers DEF Newer, NotBefore
<1>5. NotBefore(n) => reader.data = 0 \/ reader.data >= n
  BY DEF NotBefore
<1> QED  BY <1>1, <1>2, <1>3, <1>4, <1>5, WholeInvariant, PTL DEF Spec

-----------------------------------------------------------------------------
\* The push pattern implements PushService.

\* The update on its way passed the filter of the reader there is.
InFlight ==
    /\ filter.since <= published
    /\ reader.id = 0 => filter.reader = 0
    /\ pending # 0 => filter.reader = reader.id /\ reader.id # 0 /\ pending > filter.since

\* A new reader, or none: nothing is left of what the old one held.
Renewed == /\ UNCHANGED published
           /\ reader'.data = 0 /\ pending' = 0 /\ filter' = NoFilter

\* The reader and its filter stay, and no subscription begins.
Kept ==
    /\ UNCHANGED <<published, filter, pending>>
    /\ reader'.id = reader.id /\ reader'.prescale = reader.prescale
    /\ reader'.data = reader.data
    /\ Subscribing' => Subscribing

ServiceStep == [Service!Next]_(Service!vars)

LEMMA PushTypes ==
    IInv => /\ call \in [Users -> Calls] /\ reader \in Readers(opened) /\ opened \in Nat
            /\ reader.id \in Nat /\ reader.data \in Nat /\ reader.prescale \in Prescales \cup {0}
            /\ filter \in [reader : Nat, count : Nat, since : Nat]
            /\ pending \in Nat /\ published \in Nat
            /\ reader.data <= published /\ pending <= published
BY Typed DEF IInv, Readers, Fresh

\* What is handed out is what the reader holds, to a client that reports itself subscribed.
LEMMA ShownIs ==
    /\ shownBar \in {0, reader.data}
    /\ ~Subscribing => shownBar = 0
BY DEF shownBar, UpdateNow, Subscribing

LEMMA ShownNext ==
    /\ shownBar' \in {0, reader'.data}
    /\ ~Subscribing' => shownBar' = 0
BY DEF shownBar, UpdateNow, Subscribing

\* A call that gives up the subscription or its reader begins anew.
LEMMA RenewedServes ==
    ASSUME UNCHANGED published, Renewed \/ ~Subscribing'
    PROVE  ServiceStep
<1>1. rhythmBar' = Service!Unknown
  <2>1. CASE ~Subscribing'
    BY <2>1 DEF rhythmBar, Service!Unknown
  <2>2. CASE Renewed
    <3>1. filter'.reader = 0
      BY <2>2, SmallFacts DEF Renewed
    <3> QED  BY <3>1 DEF rhythmBar, Service!Unknown
  <2> QED  BY <2>1, <2>2
<1>2. nextBar' = published + 1
  BY DEF nextBar, Renewed
<1>3. shownBar' = 0
  BY ShownNext DEF Renewed
<1>4. Service!Anew(Subscribing')
  BY <1>1, <1>2, <1>3 DEF Service!Anew
<1>5. CASE Subscribing'
  BY <1>4, <1>5 DEF Service!Anew, Service!Subscribe, Service!Next, ServiceStep
<1>6. CASE ~Subscribing'
  BY <1>4, <1>6 DEF Service!Anew, Service!Unsubscribe, Service!Next, ServiceStep
<1> QED  BY <1>5, <1>6

\* What is left is hidden or shown again.
LEMMA KeptServes ==
    ASSUME IInv, Kept
    PROVE  ServiceStep
<1>1. CASE ~Subscribing'
  BY <1>1, RenewedServes DEF Kept
<1>2. CASE Subscribing'
  <2>1. Subscribing
    BY <1>2 DEF Kept
  <2>2. UNCHANGED <<published, rhythmBar, nextBar>>
    <3>1. rhythmBar' = rhythmBar
      BY <1>2, <2>1 DEF Kept, rhythmBar
    <3>2. nextBar' = nextBar
      BY <1>2, <2>1 DEF Kept, nextBar
    <3> QED  BY <3>1, <3>2 DEF Kept
  <2>3. shownBar' \in {0, reader.data}
    BY ShownNext DEF Kept
  <2>4. CASE shownBar' = 0
    BY <1>2, <2>1, <2>2, <2>4 DEF Service!Hide, Service!Next, ServiceStep
  <2>5. CASE shownBar' # 0
    <3>1. nextBar = reader.data /\ nextBar <= published
      BY <2>1, <2>3, <2>5, PushTypes DEF nextBar
    <3> QED  BY <1>2, <2>1, <2>2, <2>3, <2>5, <3>1 DEF Service!Show, Service!Next, ServiceStep
  <2> QED  BY <2>4, <2>5
<1> QED  BY <1>1, <1>2

-----------------------------------------------------------------------------
\* A thread's step that leaves the guards of a subscription as they are.
LEMMA NoneBegins ==
    ASSUME call \in [Users -> Calls], NEW u \in Users,
           \A v \in Users \ {u} : call'[v] = call[v],
           call'[u].at \in {"matching", "matched"} /\ call'[u].goal = "subscribe" =>
               call[u].at \in {"matching", "matched"} /\ call[u].goal = "subscribe",
           ~unsubscribed_guard' => Subscribing
    PROVE  Subscribing' => Subscribing
BY DEF Subscribing

\* A step of a thread either opens or closes a reader or leaves it as it is.
LEMMA ClientSteps ==
    ASSUME IInv, NEW u \in Users, Call(u) \/ Proceed(u) \/ Wake(u) \/ WaitTimesOut(u)
    PROVE  Renewed \/ Kept
<1> USE DEF serverVars, guards, connector
<1>0. call \in [Users -> Calls] /\ call[u] \in Calls /\ Idle \in Calls
      /\ Idle.at = "idle" /\ reader \in Readers(opened)
  BY PushTypes, SmallFacts DEF Idle
<1>1. CASE Close(u) \/ OpenReader(u) \/ MatchFails(u)
  BY <1>1, SmallFacts DEF Close, OpenReader, MatchFails, FreshReader, NewReader, NoReader, Renewed
<1>2. ASSUME UNCHANGED <<published, filter, pending>>, UNCHANGED reader, Subscribing' => Subscribing
      PROVE  Kept
  BY <1>2 DEF Kept
<1>3. ASSUME NEW c, c.at \notin {"matching", "matched"}, call' = [call EXCEPT ![u] = c],
             ~unsubscribed_guard' => ~unsubscribed_guard
      PROVE  Subscribing' => Subscribing
  <2>1. call'[u] = c /\ \A v \in Users \ {u} : call'[v] = call[v]
    BY <1>0, <1>3
  <2> QED  BY <1>0, <1>3, <2>1, NoneBegins DEF Subscribing
<1>4. ASSUME NEW place \in Places \ {"matching", "matched"}, Go(u, place),
             ~unsubscribed_guard' => ~unsubscribed_guard
      PROVE  Subscribing' => Subscribing
  BY <1>0, <1>4, CallStep, NoneBegins DEF Subscribing
<1>5. ASSUME Return(u), ~unsubscribed_guard' => Subscribing
      PROVE  Subscribing' => Subscribing
  <2>1. call'[u] = Idle /\ \A v \in Users \ {u} : call'[v] = call[v]
    BY <1>0, <1>5 DEF Return
  <2> QED  BY <1>0, <1>5, <2>1, NoneBegins
<1>6. ASSUME Go(u, "matched"), call[u].at = "matching", UNCHANGED unsubscribed_guard
      PROVE  Subscribing' => Subscribing
  <2>1. call'[u].goal = call[u].goal /\ \A v \in Users \ {u} : call'[v] = call[v]
    BY <1>0, <1>6, CallStep DEF Places
  <2> QED  BY <1>0, <1>6, <2>1, NoneBegins DEF Subscribing
<1>7. CASE Disconnect(u)
  BY <1>2, <1>4, <1>7 DEF Disconnect, Places
<1>8. CASE Connect(u)
  <2> DEFINE c == [Idle EXCEPT !.at = "disconnecting", !.after = "open"]
  <2>1. c.at = "disconnecting"
    BY DEF Idle
  <2> QED  BY <1>2, <1>3, <1>8, <2>1 DEF Connect
<1>9. CASE LeaveServer(u)
  <2>1. CASE disconnected_guard
    BY <1>2, <1>4, <1>9, <2>1 DEF LeaveServer, Places
  <2>2. CASE ~disconnected_guard
    <3> DEFINE c == [call[u] EXCEPT !.at = "detaching", !.goal = "leave"]
    <3>1. c.at = "detaching"
      BY <1>0 DEF Calls
    <3>2. call' = [call EXCEPT ![u] = c]
      BY <1>0, <1>9, <2>2 DEF LeaveServer
    <3> HIDE DEF c
    <3> QED  BY <1>2, <1>3, <1>9, <2>2, <3>1, <3>2 DEF LeaveServer
  <2> QED  BY <2>1, <2>2
<1>10. CASE CloseDone(u)
  <2>1. CASE call[u].after = "open"
    <3> DEFINE c == [Idle EXCEPT !.at = "opening", !.goal = "connect"]
    <3>1. c.at = "opening"
      BY DEF Idle
    <3> QED  BY <1>2, <1>3, <1>10, <2>1, <3>1 DEF CloseDone
  <2>2. CASE call[u].after # "open"
    BY <1>2, <1>5, <1>10, <2>2 DEF CloseDone, Subscribing
  <2> QED  BY <2>1, <2>2
<1>11. ASSUME NEW prescale \in Prescales, Subscribe(u, prescale) PROVE Kept
  <2> DEFINE c == [Idle EXCEPT !.at = "detaching", !.goal = "subscribe", !.prescale = prescale]
  <2>1. c.at = "detaching"
    BY DEF Idle
  <2> QED  BY <1>2, <1>3, <1>11, <2>1 DEF Subscribe
<1>12. CASE Unsubscribe(u)
  <2> DEFINE c == [Idle EXCEPT !.at = "detaching", !.goal = "unsubscribe"]
  <2>1. c.at = "detaching"
    BY DEF Idle
  <2> QED  BY <1>2, <1>3, <1>12, <2>1 DEF Unsubscribe
<1>13. CASE Detach(u)
  BY <1>2, <1>4, <1>13 DEF Detach, Places
<1>14. CASE ReaderMatched(u)
  BY <1>2, <1>6, <1>14 DEF ReaderMatched
<1>15. CASE Connected(u)
  BY <1>2, <1>5, <1>15 DEF Connected, Subscribing
<1>16. CASE Subscribed(u)
  BY <1>2, <1>5, <1>16 DEF Subscribed, Subscribing
<1>17. CASE Unsubscribed(u)
  <2>1. CASE call[u].goal = "leave"
    BY <1>2, <1>4, <1>17, <2>1 DEF Unsubscribed, Places
  <2>2. CASE call[u].goal # "leave"
    BY <1>2, <1>5, <1>17, <2>2 DEF Unsubscribed, Subscribing
  <2> QED  BY <2>1, <2>2
<1>18. ASSUME NEW blocking \in BOOLEAN, Blocking(u, blocking) PROVE Kept
  BY <1>2, <1>18 DEF Blocking, Subscribing
<1>19. CASE GetUpdate(u)
  <2>1. Subscribing' => Subscribing
    BY <1>0, <1>3, <1>19 DEF GetUpdate
  <2>2. /\ reader'.id = reader.id /\ reader'.prescale = reader.prescale
        /\ reader'.data = reader.data
    BY <1>0, <1>19 DEF GetUpdate, Readers
  <2> QED  BY <1>19, <2>1, <2>2 DEF GetUpdate, Kept
<1>20. CASE GetUpdateWait(u)
  <2> DEFINE c == [Idle EXCEPT !.at = "waiting", !.watches = new_data_guard]
  <2>1. c.at = "waiting"
    BY DEF Idle
  <2> QED  BY <1>2, <1>3, <1>20, <2>1 DEF GetUpdateWait
<1>21. CASE Wake(u)
  <2> DEFINE c == IF nonblocking_guard THEN Idle ELSE [Idle EXCEPT !.at = "woken"]
  <2>1. c.at \in {"idle", "woken"}
    BY DEF Idle
  <2>2. call' = [call EXCEPT ![u] = c]
    BY <1>21 DEF Wake
  <2> HIDE DEF c
  <2> QED  BY <1>2, <1>3, <1>21, <2>1, <2>2 DEF Wake
<1>22. CASE WaitTimesOut(u)
  BY <1>0, <1>2, <1>3, <1>22 DEF WaitTimesOut
<1> QED
  BY <1>1, <1>7, <1>8, <1>9, <1>10, <1>11, <1>12, <1>13, <1>14, <1>15, <1>16, <1>17, <1>18,
     <1>19, <1>20, <1>21, <1>22 DEF Call, Proceed

-----------------------------------------------------------------------------
\* What DDS and the server do leaves the client's view of itself as it is.
ClientStays == UNCHANGED <<call, disconnected_guard, unsubscribed_guard, connection_mutex>>

LEMMA StaysSubscribed ==
    ASSUME ClientStays
    PROVE  /\ Subscribing' <=> Subscribing
           /\ shownBar # 0 => shownBar' = reader'.data
           /\ shownBar = 0 /\ reader.data # 0 => shownBar' = 0
           /\ reader'.data = reader.data => shownBar' = shownBar
BY DEF ClientStays, Subscribing, shownBar, UpdateNow

\* An update passes the filter only when its turn has come.
LEMMA PassesDue ==
    ASSUME IInv, InFlight, Subscribing, reader.id # 0, filter.reader = reader.id,
           NEW n \in Nat, n > filter.since,
           reader.prescale > 0 => (n - filter.since - 1) % reader.prescale = 0
    PROVE  Service!Due(n)
BY DEF Service!Due, rhythmBar

LEMMA PutServes ==
    ASSUME IInv, InFlight, Put, ClientStays
    PROVE  ServiceStep
<1> DEFINE n == published + 1
<1>0. /\ reader' = reader /\ published' = n /\ published < MaxPuts /\ n \in Nat
      /\ pending' \in {n, pending, 0}
  BY PushTypes DEF Put, OnItsWay
<1>1. (Subscribing' <=> Subscribing) /\ shownBar' = shownBar
  BY <1>0, StaysSubscribed
<1>2. rhythmBar' = rhythmBar
  <2>1. filter'.reader = filter.reader /\ filter'.since = filter.since
    <3>1. filter' \in {filter, [filter EXCEPT !.count = CountUpdates]}
      BY DEF Put
    <3> QED  BY <3>1, PushTypes
  <2> QED  BY <1>0, <1>1, <2>1 DEF rhythmBar
<1>3. CASE ~Subscribing
  <2>1. nextBar = n /\ nextBar' = published + 2 /\ shownBar = 0
    BY <1>0, <1>1, <1>3, ShownIs, PushTypes DEF nextBar
  <2>2. nextBar' >= nextBar /\ nextBar' # n
    BY <2>1, PushTypes
  <2>3. Service!Put
    BY <1>0, <1>1, <1>2, <1>3, <2>1, <2>2 DEF Service!Put
  <2> QED  BY <2>3 DEF Service!Next, ServiceStep
<1>4. CASE Subscribing
  <2>1. pending' = n => Service!Due(n)
    <3> SUFFICES ASSUME pending' = n PROVE Service!Due(n)
      OBVIOUS
    <3>0. n # pending /\ n # 0
      BY PushTypes
    <3>1. filter.reader = reader.id /\ reader.id # 0
      BY <3>0 DEF Put
    <3>2. PICK pass \in Passes : pending' \in OnItsWay(pass)
      BY <3>1 DEF Put
    <3>3. pass
      BY <3>0, <3>2 DEF OnItsWay
    <3>4. reader.prescale > 0 => (n - filter.since - 1) % reader.prescale = 0
      <4>0. SUFFICES ASSUME reader.prescale > 0
                     PROVE  (n - filter.since - 1) % reader.prescale = 0
        OBVIOUS
      <4>1. filter.count % reader.prescale = 0
        <5>1. reader.prescale # 0
          BY <4>0, PushTypes, PrescalesAssumption
        <5>2. pass = (filter.count % reader.prescale = 0)
          BY <3>2, <5>1, Zenon DEF Passes
        <5> QED  BY <3>3, <5>2, Zenon
      <4>2. filter.count = published - filter.since
        BY <3>1, <4>0 DEF IInv, Counted
      <4>3. n - filter.since - 1 = filter.count
        BY <4>2, PushTypes
      <4> QED  BY <4>1, <4>3
    <3>5. n > filter.since
      BY PushTypes DEF InFlight
    <3> QED  BY <1>0, <1>4, <3>1, <3>4, <3>5, PassesDue
  <2>2. shownBar # 0 => reader.data # 0
    BY ShownIs
  <2>3. CASE reader.data # 0
    <3>1. nextBar' = reader.data /\ nextBar = reader.data /\ nextBar' # n /\ nextBar' >= nextBar
      BY <1>0, <1>1, <1>4, <2>3, PushTypes DEF nextBar
    <3>2. Service!Put
      BY <1>0, <1>1, <1>2, <3>1 DEF Service!Put
    <3> QED  BY <3>2 DEF Service!Next, ServiceStep
  <2>4. CASE reader.data = 0
    <3>1. shownBar = 0 /\ nextBar \in 1 .. n
      BY <1>4, <2>2, <2>4, PushTypes DEF nextBar
    <3>2. \/ pending' = n /\ nextBar' = n
          \/ pending' = pending /\ pending # 0 /\ nextBar' = nextBar /\ nextBar' # n
          \/ pending' = 0 /\ nextBar' = published + 2 /\ nextBar' # n
      <4>1. CASE pending' = n
        BY <1>0, <1>1, <1>4, <2>4, <4>1, PushTypes DEF nextBar
      <4>2. CASE pending' = pending /\ pending # 0
        BY <1>0, <1>1, <1>4, <2>4, <4>2, PushTypes DEF nextBar
      <4>3. CASE pending' = 0
        <5>1. nextBar' = published' + 1
          BY <1>0, <1>1, <1>4, <2>4, <4>3 DEF nextBar
        <5> QED  BY <1>0, <4>3, <5>1, PushTypes
      <4> QED  BY <1>0, <4>1, <4>2, <4>3
    <3>3. /\ nextBar' \in {nextBar, n, published + 2} /\ nextBar' >= nextBar
          /\ nextBar' = n => Service!Due(n)
      BY <2>1, <3>1, <3>2, PushTypes
    <3>4. Service!Put
      BY <1>0, <1>1, <1>2, <1>4, <3>1, <3>3 DEF Service!Put
    <3> QED  BY <3>4 DEF Service!Next, ServiceStep
  <2> QED  BY <2>3, <2>4
<1> QED  BY <1>3, <1>4

\* The server compiles the filter of the reader.
LEMMA CompileServes ==
    ASSUME IInv, InFlight, Compile, ClientStays
    PROVE  ServiceStep
<1>0. /\ reader' = reader /\ published' = published /\ reader.id # filter.reader
      /\ pending = 0 /\ pending' = 0 /\ reader.id # 0
      /\ filter' = [reader |-> reader.id, count |-> 0, since |-> published]
  BY DEF Compile, InFlight
<1>1. (Subscribing' <=> Subscribing) /\ shownBar' = shownBar
  BY <1>0, StaysSubscribed
<1>2. nextBar' = nextBar
  BY <1>0, <1>1 DEF nextBar
<1>3. CASE ~Subscribing
  <2>1. rhythmBar' = rhythmBar
    BY <1>1, <1>3 DEF rhythmBar
  <2> QED  BY <1>0, <1>1, <1>2, <2>1 DEF ServiceStep, Service!vars
<1>4. CASE Subscribing
  <2>1. rhythmBar.known = FALSE
    BY <1>0 DEF rhythmBar
  <2>2. rhythmBar' = Service!Known(reader.prescale, published)
    BY <1>0, <1>1, <1>4 DEF rhythmBar, Service!Known
  <2>3. Service!Match(reader.prescale)
    BY <1>0, <1>1, <1>2, <1>4, <2>1, <2>2 DEF Service!Match
  <2>4. reader.prescale \in Prescales \cup {0}
    BY PushTypes
  <2> QED  BY <2>3, <2>4 DEF Service!Next, ServiceStep
<1> QED  BY <1>3, <1>4

\* The server goes and what is on its way is lost.
LEMMA WriterGoesServes ==
    ASSUME IInv, InFlight, WriterGoes, ClientStays
    PROVE  ServiceStep
<1>0. /\ reader' = reader /\ published' = published /\ pending' = 0 /\ filter'.reader = 0
  BY SmallFacts DEF WriterGoes
<1>1. (Subscribing' <=> Subscribing) /\ shownBar' = shownBar
  BY <1>0, StaysSubscribed
<1>2. rhythmBar' = Service!Unknown
  BY <1>0 DEF rhythmBar, Service!Unknown
<1>3. nextBar' \in {nextBar, published + 1} /\ (shownBar # 0 => nextBar' = nextBar)
  <2>1. CASE reader.data # 0 \/ ~Subscribing
    BY <1>0, <1>1, <2>1 DEF nextBar
  <2>2. CASE reader.data = 0
    BY <1>0, <1>1, <2>2, ShownIs DEF nextBar
  <2> QED  BY <2>1, <2>2
<1>4. Service!Lose
  BY <1>0, <1>1, <1>2, <1>3 DEF Service!Lose
<1> QED  BY <1>4 DEF Service!Next, ServiceStep

\* The update on its way takes the place of the one in the reader.
LEMMA DeliverServes ==
    ASSUME IInv, InFlight, Newer, Deliver
    PROVE  ServiceStep
<1>0. /\ reader'.id = reader.id /\ reader'.prescale = reader.prescale
      /\ reader'.data = pending /\ pending # 0 /\ pending' = 0
      /\ UNCHANGED <<published, filter>> /\ ClientStays
  BY PushTypes DEF Deliver, Readers, guards, ClientStays
<1>1. Subscribing' <=> Subscribing
  BY <1>0, StaysSubscribed
<1>2. rhythmBar' = rhythmBar
  BY <1>0, <1>1 DEF rhythmBar
<1>3. CASE ~Subscribing
  BY <1>0, <1>1, <1>3, RenewedServes
<1>4. CASE Subscribing /\ reader.data = 0
  <2>1. nextBar = pending /\ nextBar' = pending /\ shownBar = 0 /\ pending <= published
    BY <1>0, <1>1, <1>4, ShownIs, PushTypes DEF nextBar
  <2>2. shownBar' \in {0, pending}
    BY <1>0, ShownNext
  <2>3. CASE shownBar' = 0
    BY <1>0, <1>1, <1>2, <2>1, <2>3 DEF Service!vars, ServiceStep
  <2>4. CASE shownBar' = pending
    <3>1. Service!Show
      BY <1>0, <1>1, <1>2, <1>4, <2>1, <2>4 DEF Service!Show
    <3> QED  BY <3>1 DEF Service!Next, ServiceStep
  <2> QED  BY <2>2, <2>3, <2>4
<1>5. CASE Subscribing /\ reader.data # 0
  <2>1. nextBar = reader.data /\ nextBar' = pending /\ pending > nextBar /\ pending <= published
    BY <1>0, <1>1, <1>5, PushTypes DEF nextBar, Newer
  <2>2. shownBar' \in IF shownBar = 0 THEN {0, pending} ELSE {pending}
    BY <1>0, <1>5, StaysSubscribed
  <2>3. Service!Due(pending)
    <3>1. reader.prescale > 0 => (pending - filter.since - 1) % reader.prescale = 0
      BY <1>0 DEF IInv, Counted, Due, InFlight
    <3> QED  BY <1>0, <1>5, <3>1, PushTypes, PassesDue DEF InFlight
  <2>4. Service!Arrive(pending)
    BY <1>0, <1>1, <1>2, <2>1, <2>2, <2>3 DEF Service!Arrive
  <2>5. pending \in 1 .. published
    BY <1>0, <2>1, PushTypes
  <2> QED  BY <2>4, <2>5 DEF Service!Next, ServiceStep
<1> QED  BY <1>3, <1>4, <1>5

LEMMA NextServes ==
    ASSUME IInv, InFlight, Newer, [Next]_vars
    PROVE  ServiceStep
<1> USE DEF serverVars, guards
<1>1. ASSUME NEW u \in Users, Call(u) \/ Proceed(u) \/ Wake(u) \/ WaitTimesOut(u)
      PROVE  ServiceStep
  BY <1>1, ClientSteps, KeptServes, RenewedServes DEF Renewed
<1>2. CASE OnDataAvailable
  <2>1. /\ reader'.id = reader.id /\ reader'.prescale = reader.prescale
        /\ reader'.data = reader.data
    BY <1>2, PushTypes DEF OnDataAvailable, Readers
  <2>2. Kept
    BY <1>2, <2>1 DEF OnDataAvailable, Kept, Subscribing
  <2> QED  BY <2>2, KeptServes
<1>3. CASE \/ OnLivelinessChanged \/ OnSubscriptionMatched \/ OnRequestedIncompatibleQos
           \/ ServerReturns \/ UNCHANGED vars
  <2>1. Kept
    BY <1>3 DEF OnLivelinessChanged, OnSubscriptionMatched, OnRequestedIncompatibleQos,
                ServerReturns, WriterReturns, vars, Kept, Subscribing
  <2> QED  BY <2>1, KeptServes
<1>4. CASE Deliver
  BY <1>4, DeliverServes
<1>5. CASE ServerVanishes
  BY <1>5, WriterGoesServes DEF ServerVanishes, ClientStays
<1>6. CASE ServerWrites
  BY <1>6, PutServes, CompileServes DEF ServerWrites, ClientStays
<1> QED  BY <1>1, <1>2, <1>3, <1>4, <1>5, <1>6 DEF Next, Listen

LEMMA InitServes == Init => Service!Init /\ InFlight /\ Newer
<1> SUFFICES ASSUME Init PROVE Service!Init /\ InFlight /\ Newer
  OBVIOUS
<1>1. /\ published = 0 /\ pending = 0 /\ reader = NoReader /\ filter = NoFilter
      /\ disconnected_guard = TRUE /\ unsubscribed_guard = TRUE
      /\ \A u \in Users : call[u] = Idle
  BY DEF Init, ServerInit, ClientInit
<1>2. ~Subscribing
  BY <1>1 DEF Subscribing, Idle
<1>3. rhythmBar = Service!Unknown /\ nextBar = 1 /\ shownBar = 0
  BY <1>1, <1>2, ShownIs DEF rhythmBar, nextBar, Service!Unknown
<1> QED  BY <1>1, <1>2, <1>3 DEF Service!Init, InFlight, Newer, NoFilter, NoReader
-----------------------------------------------------------------------------
\* An update is let on its way by the filter of the reader there is, and it is lost with
\* either of them.
LEMMA InFlightStep ==
    ASSUME IInv, InFlight, [Next]_vars
    PROVE  InFlight'
<1> USE DEF serverVars, guards
<1>0. /\ reader \in Readers(opened) /\ opened \in Nat /\ reader.id \in Nat
      /\ filter \in [reader : Nat, count : Nat, since : Nat]
      /\ pending \in Nat /\ published \in Nat
  BY PushTypes
<1>1. ASSUME NEW u \in Users, Call(u) \/ Proceed(u) \/ Wake(u) \/ WaitTimesOut(u)
      PROVE  InFlight'
  <2>1. CASE Renewed
    BY <1>0, <2>1, SmallFacts DEF Renewed, InFlight, NoFilter
  <2>2. CASE Kept
    BY <1>0, <2>2 DEF Kept, InFlight
  <2> QED  BY <1>1, <2>1, <2>2, ClientSteps
<1>2. CASE OnDataAvailable
  <2>1. reader'.id = reader.id /\ UNCHANGED <<published, filter, pending>>
    BY <1>0, <1>2 DEF OnDataAvailable, Readers
  <2> QED  BY <1>0, <2>1 DEF InFlight
<1>3. CASE \/ OnLivelinessChanged \/ OnSubscriptionMatched \/ OnRequestedIncompatibleQos
           \/ ServerReturns \/ UNCHANGED vars
  <2>1. UNCHANGED <<published, filter, pending, reader>>
    BY <1>3 DEF OnLivelinessChanged, OnSubscriptionMatched, OnRequestedIncompatibleQos,
                ServerReturns, WriterReturns, vars
  <2> QED  BY <1>0, <2>1 DEF InFlight
<1>4. CASE Deliver
  <2>1. reader'.id = reader.id /\ UNCHANGED <<published, filter>> /\ pending' = 0
    BY <1>0, <1>4 DEF Deliver, Readers
  <2> QED  BY <1>0, <2>1 DEF InFlight
<1>5. CASE ServerVanishes
  BY <1>0, <1>5, SmallFacts DEF ServerVanishes, WriterGoes, NoFilter, InFlight
<1>6. CASE Compile
  <2>1. /\ UNCHANGED <<published, reader>> /\ pending' = 0
        /\ filter'.reader = reader.id /\ filter'.since = published
    BY <1>6 DEF Compile
  <2> QED  BY <1>0, <2>1 DEF InFlight
<1>7. CASE Put
  <2>1. reader' = reader /\ published' = published + 1
    BY <1>7 DEF Put
  <2>2. filter'.reader = filter.reader /\ filter'.since = filter.since
    <3>1. filter' \in {filter, [filter EXCEPT !.count = CountUpdates]}
      BY <1>7 DEF Put
    <3> QED  BY <1>0, <3>1
  <2>3. CASE filter.reader = reader.id /\ reader.id # 0
    <3>1. pending' \in {published + 1, pending, 0}
      BY <1>7, <2>3 DEF Put, OnItsWay
    <3> QED  BY <1>0, <2>1, <2>2, <2>3, <3>1 DEF InFlight
  <2>4. CASE ~(filter.reader = reader.id /\ reader.id # 0)
    <3>1. pending' = pending
      BY <1>7, <2>4 DEF Put
    <3> QED  BY <1>0, <2>1, <2>2, <2>4, <3>1 DEF InFlight
  <2> QED  BY <2>3, <2>4
<1> QED  BY <1>1, <1>2, <1>3, <1>4, <1>5, <1>6, <1>7 DEF Next, Listen, ServerWrites

\* The push pattern keeps its promise to the client, see PushService: through every
\* disconnect, resubscription and outage of the server, with any number of users, what
\* getUpdate hands out is the update at a place that only moves forward, to updates that
\* are due by the prescale of the subscription and past all that were published while
\* the client was not subscribed.
THEOREM PushServiceIsImplemented == Spec => ImplementsService
<1>1. IInv /\ InFlight /\ Newer /\ [Next]_vars
          => InFlight' /\ Newer' /\ [Service!Next]_(Service!vars)
  BY InFlightStep, NewerStep, NextServes DEF ServiceStep
<1> QED
  BY <1>1, InitServes, WholeInvariant, PTL DEF Spec, ImplementsService, Service!Spec

-----------------------------------------------------------------------------
\* The reader of a client that was left without one.

\* A getUpdate or getUpdateWait that passes its guards finds a reader.
NeverWithoutReader ==
    connection_mutex = Free /\ ~disconnected_guard /\ ~unsubscribed_guard => reader.id # 0

\* Only a reader there is has the client as its listener, none that is being replaced.
Listening ==
    /\ ~attached => listener = "quiet"
    /\ reader.id = 0 => ~attached
    /\ \A u \in Users :
         /\ call[u].at \in {"closed", "opening", "matching"} => ~attached
         /\ call[u].at \in {"detaching", "opening", "matching"} => call[u].goal # "none"

\* One thread's call goes to the place of c; no other thread's does.
Moves(u, place, goal) ==
    /\ call'[u].at = place /\ call'[u].goal = goal
    /\ \A v \in Users \ {u} : call'[v] = call[v]

LEMMA MovesKeep ==
    ASSUME Listening, NEW u \in Users, NEW place, NEW goal, Moves(u, place, goal),
           attached' => attached, listener' = listener \/ listener' = "quiet",
           attached' = attached \/ listener = "quiet",
           reader'.id = reader.id \/ reader'.id # 0 \/ ~attached',
           place \in {"closed", "opening", "matching"} => ~attached',
           place \in {"detaching", "opening", "matching"} => goal # "none"
    PROVE  Listening'
BY DEF Listening, Moves

\* The thread's steps that neither open nor close a reader.
LEMMA CallsListen ==
    ASSUME IInv, Listening, NeverWithoutReader, NEW u \in Users,
           \/ Connect(u) \/ Disconnect(u) \/ LeaveServer(u) \/ CloseDone(u)
           \/ Unsubscribe(u) \/ (\E prescale \in Prescales : Subscribe(u, prescale))
    PROVE  Listening' /\ NeverWithoutReader'
<1> USE DEF serverVars, connector
<1>0. /\ call \in [Users -> Calls] /\ u # Free
      /\ UNCHANGED <<reader, attached, listener>>
  BY PushTypes, FreeIsNoUser DEF Connect, Disconnect, LeaveServer, CloseDone, Unsubscribe,
                                 Subscribe
<1>1. CASE Disconnect(u)
  <2>1. Moves(u, "disconnecting", call[u].goal)
    BY <1>0, <1>1, CallStep DEF Disconnect, Moves, Places
  <2>2. NeverWithoutReader'
    BY <1>1 DEF Disconnect, NeverWithoutReader
  <2> QED  BY <1>0, <2>1, <2>2, MovesKeep
<1>2. CASE Connect(u)
  <2> DEFINE c == [Idle EXCEPT !.at = "disconnecting", !.after = "open"]
  <2>1. c.at = "disconnecting" /\ c.goal = "none"
    BY DEF Idle
  <2>2. call' = [call EXCEPT ![u] = c] /\ disconnected_guard'
    BY <1>2 DEF Connect
  <2> HIDE DEF c
  <2>3. Moves(u, "disconnecting", "none")
    BY <1>0, <2>1, <2>2 DEF Moves
  <2> QED  BY <1>0, <2>2, <2>3, MovesKeep DEF NeverWithoutReader
<1>3. CASE LeaveServer(u)
  <2>0. connection_mutex' = u
    BY <1>3 DEF LeaveServer
  <2>1. CASE disconnected_guard
    <3>1. Moves(u, "closing", call[u].goal)
      BY <1>0, <1>3, <2>1, CallStep DEF LeaveServer, Moves, Places
    <3> QED  BY <1>0, <2>0, <3>1, MovesKeep DEF NeverWithoutReader
  <2>2. CASE ~disconnected_guard
    <3> DEFINE c == [call[u] EXCEPT !.at = "detaching", !.goal = "leave"]
    <3>1. c.at = "detaching" /\ c.goal = "leave"
      BY <1>0 DEF Calls
    <3>2. call' = [call EXCEPT ![u] = c]
      BY <1>0, <1>3, <2>2 DEF LeaveServer
    <3> HIDE DEF c
    <3>3. Moves(u, "detaching", "leave")
      BY <1>0, <3>1, <3>2 DEF Moves
    <3> QED  BY <1>0, <2>0, <3>3, MovesKeep DEF NeverWithoutReader
  <2> QED  BY <2>1, <2>2
<1>4. CASE CloseDone(u)
  <2>0. disconnected_guard' /\ ~attached
    BY <1>4 DEF CloseDone, Listening
  <2>1. CASE call[u].after = "open"
    <3> DEFINE c == [Idle EXCEPT !.at = "opening", !.goal = "connect"]
    <3>1. c.at = "opening" /\ c.goal = "connect"
      BY DEF Idle
    <3>2. call' = [call EXCEPT ![u] = c]
      BY <1>4, <2>1 DEF CloseDone
    <3> HIDE DEF c
    <3>3. Moves(u, "opening", "connect")
      BY <1>0, <3>1, <3>2 DEF Moves
    <3> QED  BY <1>0, <2>0, <3>3, MovesKeep DEF NeverWithoutReader
  <2>2. CASE call[u].after # "open"
    <3>1. Moves(u, "idle", "none")
      BY <1>0, <1>4, <2>2, CallStep DEF CloseDone, Moves, Idle, Places
    <3> QED  BY <1>0, <2>0, <3>1, MovesKeep DEF NeverWithoutReader
  <2> QED  BY <2>1, <2>2
<1>5. CASE Unsubscribe(u)
  <2> DEFINE c == [Idle EXCEPT !.at = "detaching", !.goal = "unsubscribe"]
  <2>1. c.at = "detaching" /\ c.goal = "unsubscribe"
    BY DEF Idle
  <2>2. call' = [call EXCEPT ![u] = c] /\ connection_mutex' = u
    BY <1>5 DEF Unsubscribe
  <2> HIDE DEF c
  <2>3. Moves(u, "detaching", "unsubscribe")
    BY <1>0, <2>1, <2>2 DEF Moves
  <2> QED  BY <1>0, <2>2, <2>3, MovesKeep DEF NeverWithoutReader
<1>6. ASSUME NEW prescale \in Prescales, Subscribe(u, prescale)
      PROVE  Listening' /\ NeverWithoutReader'
  <2> DEFINE c == [Idle EXCEPT !.at = "detaching", !.goal = "subscribe", !.prescale = prescale]
  <2>1. c.at = "detaching" /\ c.goal = "subscribe"
    BY DEF Idle
  <2>2. call' = [call EXCEPT ![u] = c] /\ connection_mutex' = u
    BY <1>6 DEF Subscribe
  <2> HIDE DEF c
  <2>3. Moves(u, "detaching", "subscribe")
    BY <1>0, <2>1, <2>2 DEF Moves
  <2> QED  BY <1>0, <2>2, <2>3, MovesKeep DEF NeverWithoutReader
<1> QED  BY <1>1, <1>2, <1>3, <1>4, <1>5, <1>6

\* The thread's steps that open, match or close a reader.
LEMMA ReadersListen ==
    ASSUME IInv, Listening, NeverWithoutReader, NEW u \in Users,
           \/ Close(u) \/ Detach(u) \/ OpenReader(u) \/ MatchFails(u)
           \/ ReaderMatched(u) \/ Connected(u) \/ Subscribed(u) \/ Unsubscribed(u)
    PROVE  Listening' /\ NeverWithoutReader'
<1> USE DEF serverVars, connector, guards
<1>0. /\ call \in [Users -> Calls] /\ u # Free /\ connection_mutex = u
      /\ \A v \in Users \ {u} : call[v].at \notin Holding
      /\ listener' = listener
  BY PushTypes, FreeIsNoUser
     DEF IInv, MutexOwner, Holding, Close, Detach, OpenReader, MatchFails, ReaderMatched,
         Connected, Subscribed, Unsubscribed
<1>1. CASE Close(u)
  <2>1. Moves(u, "closed", call[u].goal)
    BY <1>0, <1>1, CallStep DEF Close, Moves, Places
  <2>2. ~attached' /\ connection_mutex' = u /\ (attached => listener = "quiet")
    BY <1>0, <1>1 DEF Close, Detached
  <2> QED  BY <1>0, <2>1, <2>2, MovesKeep DEF NeverWithoutReader, Listening
<1>2. CASE Detach(u)
  <2>1. Moves(u, "opening", call[u].goal) /\ call[u].goal # "none"
    BY <1>0, <1>2, CallStep DEF Detach, Moves, Places, Listening
  <2>2. /\ ~attached' /\ connection_mutex' = u /\ (attached => listener = "quiet")
        /\ reader' = reader
    BY <1>0, <1>2 DEF Detach, Detached
  <2> QED  BY <1>0, <2>1, <2>2, MovesKeep DEF NeverWithoutReader, Listening
<1>3. CASE OpenReader(u)
  <2>1. Moves(u, "matching", call[u].goal) /\ call[u].goal # "none" /\ ~attached
    BY <1>0, <1>3, CallStep DEF OpenReader, Moves, Places, Listening
  <2>2. attached' = attached /\ connection_mutex' = u
    BY <1>0, <1>3 DEF OpenReader
  <2> QED  BY <1>0, <2>1, <2>2, MovesKeep DEF NeverWithoutReader
<1>4. CASE ReaderMatched(u)
  <2>1. Moves(u, "matched", call[u].goal) /\ reader.id # 0
    BY <1>0, <1>4, CallStep DEF ReaderMatched, Moves, Places, IInv, Stages
  <2>2. attached' = TRUE /\ connection_mutex' = u /\ reader' = reader
    BY <1>0, <1>4 DEF ReaderMatched
  <2> QED  BY <1>0, <2>1, <2>2 DEF NeverWithoutReader, Listening, Moves, Holding
<1>5. CASE Connected(u) \/ Subscribed(u)
  <2>1. Moves(u, "idle", "none") /\ reader.id # 0
    BY <1>0, <1>5, CallStep DEF Connected, Subscribed, Moves, Idle, Places, IInv, Stages
  <2>2. UNCHANGED <<attached, reader>>
    BY <1>5 DEF Connected, Subscribed
  <2> QED  BY <1>0, <2>1, <2>2, MovesKeep DEF NeverWithoutReader
<1>6. CASE Unsubscribed(u)
  <2>1. Moves(u, IF call[u].goal = "leave" THEN "closing" ELSE "idle",
              IF call[u].goal = "leave" THEN "leave" ELSE "none")
    <3>1. CASE call[u].goal = "leave"
      BY <1>0, <1>6, <3>1, CallStep DEF Unsubscribed, Moves, Places
    <3>2. CASE call[u].goal # "leave"
      BY <1>0, <1>6, <3>2, CallStep DEF Unsubscribed, Moves, Places, Idle
    <3> QED  BY <3>1, <3>2
  <2>2. UNCHANGED <<attached, reader>> /\ reader.id # 0
    BY <1>6 DEF Unsubscribed, IInv, Stages
  <2> QED  BY <1>0, <2>1, <2>2, MovesKeep DEF NeverWithoutReader
<1>7. CASE MatchFails(u)
  <2>0. /\ reader'.id = 0 /\ attached' = attached /\ ~attached
        /\ call[u].goal # "none"
    BY <1>7, SmallFacts DEF MatchFails, Listening
  <2>1. CASE call[u].goal = "connect"
    <3> DEFINE c == [Idle EXCEPT !.at = "disconnecting"]
    <3>1. c.at = "disconnecting" /\ c.goal = "none"
      BY DEF Idle
    <3>2. call' = [call EXCEPT ![u] = c] /\ disconnected_guard'
      BY <1>7, <2>1 DEF MatchFails
    <3> HIDE DEF c
    <3>3. Moves(u, "disconnecting", "none")
      BY <1>0, <3>1, <3>2 DEF Moves
    <3> QED  BY <1>0, <2>0, <3>2, <3>3, MovesKeep DEF NeverWithoutReader
  <2>2. CASE call[u].goal = "subscribe" /\ ~disconnected_guard
    <3> DEFINE c == [Idle EXCEPT !.at = "detaching", !.goal = "unsubscribe"]
    <3>1. c.at = "detaching" /\ c.goal = "unsubscribe"
      BY DEF Idle
    <3>2. call' = [call EXCEPT ![u] = c] /\ connection_mutex' = connection_mutex
      BY <1>7, <2>2 DEF MatchFails
    <3> HIDE DEF c
    <3>3. Moves(u, "detaching", "unsubscribe")
      BY <1>0, <3>1, <3>2 DEF Moves
    <3> QED  BY <1>0, <2>0, <3>2, <3>3, MovesKeep DEF NeverWithoutReader
  <2>3. CASE call[u].goal = "leave"
    <3>1. Moves(u, "closing", "leave") /\ connection_mutex' = connection_mutex
      BY <1>0, <1>7, <2>3, CallStep DEF MatchFails, Moves, Places
    <3> QED  BY <1>0, <2>0, <3>1, MovesKeep DEF NeverWithoutReader
  <2>4. CASE \/ call[u].goal = "subscribe" /\ disconnected_guard
             \/ call[u].goal = "unsubscribe"
    <3>1. Return(u) /\ UNCHANGED <<disconnected_guard, unsubscribed_guard>>
      BY <1>7, <2>4 DEF MatchFails
    <3>2. Moves(u, "idle", "none")
      BY <1>0, <3>1, CallStep DEF Moves, Idle, Places
    <3>3. disconnected_guard \/ unsubscribed_guard
      BY <1>7, <2>4 DEF MatchFails, IInv, Stages, Holding
    <3> QED  BY <1>0, <2>0, <3>1, <3>2, <3>3, MovesKeep DEF NeverWithoutReader
  <2>5. call[u].goal \in {"connect", "subscribe", "unsubscribe", "leave"}
    BY <1>0, <2>0 DEF Calls, Goals
  <2> QED  BY <2>1, <2>2, <2>3, <2>4, <2>5
<1> QED  BY <1>1, <1>2, <1>3, <1>4, <1>5, <1>6, <1>7

\* What reads, waits or answers leaves the connection as it is; the listener resets
\* disconnected_guard only for a reader there is.
LEMMA OthersListen ==
    ASSUME IInv, Listening, NeverWithoutReader,
           \/ \E u \in Users :
                \/ \E blocking \in BOOLEAN : Blocking(u, blocking)
                \/ GetUpdate(u) \/ GetUpdateWait(u) \/ Wake(u) \/ WaitTimesOut(u)
           \/ Listen \/ Deliver \/ ServerVanishes \/ ServerReturns \/ ServerWrites
           \/ UNCHANGED vars
    PROVE  Listening' /\ NeverWithoutReader'
<1> USE DEF serverVars, connector, guards
<1>0. /\ call \in [Users -> Calls] /\ reader \in Readers(opened)
      /\ attached \in BOOLEAN /\ listener \in {"quiet", "alive", "gone"}
  BY PushTypes DEF IInv, TypeOK
<1> DEFINE Rest == UNCHANGED <<disconnected_guard, unsubscribed_guard, connection_mutex,
                               attached, listener>>
<1> HIDE DEF Rest
<1>1. ASSUME NEW u \in Users, NEW place \in {"idle", "waiting", "woken"},
             Moves(u, place, "none"), reader'.id = reader.id, Rest
      PROVE  Listening' /\ NeverWithoutReader'
  BY <1>1, MovesKeep DEF NeverWithoutReader, Rest
<1>2. ASSUME NEW u \in Users,
             \/ \E blocking \in BOOLEAN : Blocking(u, blocking)
             \/ GetUpdate(u) \/ GetUpdateWait(u) \/ Wake(u) \/ WaitTimesOut(u)
      PROVE  Listening' /\ NeverWithoutReader'
  <2>1. Idle.at = "idle" /\ Idle.goal = "none"
    BY DEF Idle
  <2>2. CASE \E blocking \in BOOLEAN : Blocking(u, blocking)
    BY <2>2 DEF Blocking, Listening, NeverWithoutReader
  <2>3. CASE GetUpdate(u)
    <3>1. reader'.id = reader.id
      BY <1>0, <2>3 DEF GetUpdate, Readers
    <3>2. Moves(u, "idle", "none") /\ Rest
      BY <1>0, <2>1, <2>3 DEF GetUpdate, Moves, Rest
    <3> QED  BY <1>1, <3>1, <3>2
  <2>4. CASE GetUpdateWait(u)
    <3> DEFINE c == [Idle EXCEPT !.at = "waiting", !.watches = new_data_guard]
    <3>1. c.at = "waiting" /\ c.goal = "none"
      BY DEF Idle
    <3>2. call' = [call EXCEPT ![u] = c] /\ Rest /\ reader' = reader
      BY <2>4 DEF GetUpdateWait, Rest
    <3> HIDE DEF c
    <3>3. Moves(u, "waiting", "none")
      BY <1>0, <3>1, <3>2 DEF Moves
    <3> QED  BY <1>1, <3>2, <3>3
  <2>5. CASE Wake(u)
    <3> DEFINE c == IF nonblocking_guard THEN Idle ELSE [Idle EXCEPT !.at = "woken"]
    <3>1. c.at \in {"idle", "woken"} /\ c.goal = "none"
      BY DEF Idle
    <3>2. call' = [call EXCEPT ![u] = c] /\ Rest /\ reader' = reader
      BY <2>5 DEF Wake, Rest
    <3> HIDE DEF c
    <3>3. Moves(u, c.at, "none")
      BY <1>0, <3>1, <3>2 DEF Moves
    <3> QED  BY <1>1, <3>1, <3>2, <3>3
  <2>6. CASE WaitTimesOut(u)
    <3>1. Moves(u, "idle", "none") /\ Rest /\ reader' = reader
      BY <1>0, <2>1, <2>6 DEF WaitTimesOut, Moves, Rest
    <3> QED  BY <1>1, <3>1
  <2> QED  BY <1>2, <2>2, <2>3, <2>4, <2>5, <2>6
<1>3. ASSUME UNCHANGED <<call, disconnected_guard, unsubscribed_guard, connection_mutex,
                         attached>>,
             reader'.id = reader.id, listener' # "quiet" => attached
      PROVE  Listening' /\ NeverWithoutReader'
  BY <1>3 DEF Listening, NeverWithoutReader
<1>4. CASE OnLivelinessChanged
  <2>1. listener # "quiet" /\ attached /\ reader.id # 0
    BY <1>0, <1>4 DEF OnLivelinessChanged, Listening
  <2> QED  BY <1>4, <2>1 DEF OnLivelinessChanged, Listening, NeverWithoutReader
<1>5. CASE OnDataAvailable
  <2>1. reader'.id = reader.id /\ listener' = listener
    BY <1>0, <1>5 DEF OnDataAvailable, Readers
  <2> QED  BY <1>3, <1>5, <2>1 DEF OnDataAvailable, Listening
<1>6. CASE OnSubscriptionMatched \/ OnRequestedIncompatibleQos
  BY <1>3, <1>6 DEF OnSubscriptionMatched, OnRequestedIncompatibleQos, Listening
<1>7. CASE Deliver
  <2>1. reader'.id = reader.id
    BY <1>0, <1>7 DEF Deliver, Readers
  <2> QED  BY <1>3, <1>7, <2>1 DEF Deliver, Listening
<1>8. CASE ServerVanishes \/ ServerReturns
  BY <1>3, <1>8 DEF ServerVanishes, ServerReturns, WriterGoes, WriterReturns, TellListener,
                    Listening
<1>9. CASE ServerWrites
  BY <1>3, <1>9 DEF ServerWrites, Put, Compile, Listening
<1>10. CASE UNCHANGED vars
  BY <1>3, <1>10 DEF vars, Listening
<1> QED  BY <1>2, <1>4, <1>5, <1>6, <1>7, <1>8, <1>9, <1>10 DEF Listen

\* unsubscribe ignores a reconnect that failed and leaves a connected client without a
\* reader, but getUpdate and getUpdateWait, which would use it, never pass their guards
\* then: the client reports itself unsubscribed, and no late upcall, failed subscribe or
\* disconnect that skipped the unsubscription changes that.
THEOREM GetUpdateFindsReader == Spec => []NeverWithoutReader
<1>1. Init => Listening /\ NeverWithoutReader
  BY DEF Init, ClientInit, Idle, Listening, NeverWithoutReader
<1>2. IInv /\ Listening /\ NeverWithoutReader /\ [Next]_vars
          => Listening' /\ NeverWithoutReader'
  BY CallsListen, ReadersListen, OthersListen DEF Next, Call, Proceed
<1> QED  BY <1>1, <1>2, WholeInvariant, PTL DEF Spec
=============================================================================
