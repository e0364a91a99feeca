----------------------------- MODULE PushServer -----------------------------
(***************************************************************************)
(* PushServerPattern and CorrelationIdFilter: the server numbers its       *)
(* updates here by the calls of put(); the filter passes to a subscriber   *)
(* each n-th of them. One client is looked at, with at most one reader at  *)
(* a time; the topic keeps the last sample only, so an update still on its *)
(* way may be replaced by the next.                                        *)
(***************************************************************************)
EXTENDS Naturals

CONSTANTS MaxPuts,      \* bound on the updates published
          MaxReaders,   \* bound on the readers the client opens
          MaxOutages,   \* bound on the times the server goes away
          Prescales     \* the arguments of subscribe()

ASSUME PushBounds ==
    MaxPuts \in Nat /\ MaxReaders \in Nat /\ MaxOutages \in Nat
ASSUME PrescalesAssumption == Prescales \subseteq Nat

VARIABLES
    server_up,   \* the server's writer exists
    outages,     \* the times it went away
    published,   \* the number of the last update
    reader,      \* the client's reader, see NewReader, or NoReader
    filter,      \* CompiledReaderData of the reader at the writer, or NoFilter
    pending      \* the update on its way to the reader, 0: none

serverVars == <<server_up, outages, published, filter, pending>>

\* A reader holds one update (0: none) and whether it was read. Its filter has the
\* prescale factor of a subscription, or 0: the filter of the empty connection id.
NoReader == [id |-> 0, prescale |-> 0, data |-> 0, unread |-> FALSE]
NewReader(id, prescale) == [NoReader EXCEPT !.id = id, !.prescale = prescale]

\* The sequence counter of the filter, and the last update before it was compiled.
NoFilter == [reader |-> 0, count |-> 0, since |-> 0]

ServerInit ==
    /\ server_up = TRUE
    /\ outages = 0
    /\ published = 0
    /\ reader = NoReader
    /\ filter = NoFilter
    /\ pending = 0

\* The writer matches the reader and compiles its filter.
Compile ==
    /\ server_up
    /\ reader.id # filter.reader
    /\ filter' = [reader |-> reader.id, count |-> 0, since |-> published]
    /\ pending' = 0
    /\ UNCHANGED <<server_up, outages, published, reader>>

\* evaluate(): the current count decides, then it is incremented for every update.
CountPassed == IF filter.count % reader.prescale = 0 THEN filter.count ELSE filter.count + 1
CountUpdates == filter.count + 1

\* Whether a plain update passes the filter of the empty identifier, which compares
\* it with the update's unset related identity, is left open.
Passes ==
    IF reader.prescale = 0 THEN BOOLEAN ELSE {filter.count % reader.prescale = 0}

\* The topic keeps the last sample (History), nothing for readers to come (Durability):
\* an update replaces the one still on its way; one that is filtered out may.
OnItsWay(pass) == IF pass THEN {published + 1} ELSE {pending, 0}

\* put(): nothing is written without a writer (SMART_CANCELLED).
Put ==
    /\ server_up
    /\ published < MaxPuts
    /\ published' = published + 1
    /\ IF filter.reader = reader.id /\ reader.id # 0
         THEN /\ filter' = IF reader.prescale = 0 THEN filter
                           ELSE [filter EXCEPT !.count = CountUpdates]
              /\ \E pass \in Passes : pending' \in OnItsWay(pass)
         ELSE UNCHANGED <<filter, pending>>
    /\ UNCHANGED <<server_up, outages, reader>>

\* serverInitiatedDisconnect, or the end of the server's component.
WriterGoes ==
    /\ server_up
    /\ outages < MaxOutages
    /\ server_up' = FALSE
    /\ outages' = outages + 1
    /\ filter' = NoFilter
    /\ pending' = 0
    /\ UNCHANGED <<published, reader>>

\* A component that starts again has a new writer.
WriterReturns ==
    /\ ~server_up
    /\ server_up' = TRUE
    /\ UNCHANGED <<outages, published, reader, filter, pending>>
=============================================================================
