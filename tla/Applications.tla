---------------------------- MODULE Applications ----------------------------
(***************************************************************************)
(* The application threads of the example programs. Each runs a loop until *)
(* the flag cancelled of its application is set: a publisher (of the push  *)
(* server, or of the event server) puts, a sender sends, a querier asks, a *)
(* subscriber waits for updates, an observer activates an event and waits  *)
(* for it. A call of a pattern is known here by its outcome only; that of  *)
(* an event client's connect() may be none, see EventClient.               *)
(***************************************************************************)
EXTENDS Naturals

CONSTANT MaxRounds     \* how often the observer waits for one activation: 10
ASSUME RoundsAssumption == MaxRounds \in Nat \ {0}

VARIABLES
    program,           \* the program that runs, or "none" of these
    cancelled_flag,    \* cancelled of the application
    thread,            \* where the application thread is
    status_ok,         \* the last put returned SMART_OK
    opened,            \* the client has the end points of a connection
    connected,         \* the client is connected
    round              \* the observer's calls of getEvent

applicationVars == <<program, cancelled_flag, thread, status_ok, opened, connected, round>>

Publishers == {"publisher", "event publisher"}
Programs == Publishers \cup {"sender", "querier", "subscriber", "observer"}
Places == {"none", "testing", "calling", "waiting", "connecting", "subscribing", "left",
           "caught"}

Starts ==
    /\ cancelled_flag = FALSE
    /\ thread = (IF program = "none" THEN "none" ELSE "testing")
    /\ status_ok = TRUE /\ opened = FALSE /\ connected = FALSE /\ round = 0

ApplicationInit == program \in Programs \cup {"none"} /\ Starts

StartsAnew ==
    /\ cancelled_flag' = FALSE
    /\ thread' = (IF program = "none" THEN "none" ELSE "testing")
    /\ status_ok' = TRUE /\ opened' = FALSE /\ connected' = FALSE /\ round' = 0
    /\ UNCHANGED program

Moves(from, to) == thread = from /\ thread' = to
Keeps == UNCHANGED <<program, cancelled_flag, status_ok, opened, connected, round>>

\* while(!cancelled), for a publisher as long as the last put succeeded. The flag is a
\* plain bool in most of the programs; the calls of the loop make it read anew.
GoesOn == ~cancelled_flag /\ status_ok
TestsFlag == Moves("testing", IF GoesOn THEN "calling" ELSE "left") /\ Keeps

\* put(), then a second's sleep. That of the event server waits for server_mutex, which
\* keeps it behind a disconnect that has the mutex for good.
Publishes(ok) ==
    /\ program \in Publishers
    /\ Moves("calling", "testing")
    /\ status_ok' = ok
    /\ UNCHANGED <<program, cancelled_flag, opened, connected, round>>

\* send() never waits; unless it succeeded the client connects.
Sends ==
    /\ program = "sender"
    /\ \E sent \in BOOLEAN :
          /\ sent => connected
          /\ Moves("calling", IF sent THEN "testing" ELSE "connecting")
    /\ Keeps

\* query() and getUpdateWait() have no timeout: a connected client waits.
Asks ==
    /\ program \in {"querier", "subscriber"}
    /\ Moves("calling", IF connected THEN "waiting" ELSE "connecting")
    /\ Keeps

\* activate(), which never waits, begins ten calls of getEvent().
Activates ==
    /\ program = "observer"
    /\ Moves("calling", IF connected THEN "waiting" ELSE "connecting")
    /\ round' = 0
    /\ UNCHANGED <<program, cancelled_flag, status_ok, opened, connected>>

\* After a wait: the next call, or the test of the flag.
Waited(ok) ==
    CASE program = "querier" -> IF ok THEN "testing" ELSE "connecting"
      [] program = "subscriber" -> IF ok THEN "testing" ELSE "connecting"
      [] OTHER -> IF round + 1 < MaxRounds THEN "waiting" ELSE "testing"

WaitReturns(ok) ==
    /\ Moves("waiting", Waited(ok))
    /\ round' = IF program = "observer" THEN round + 1 ELSE round
    /\ UNCHANGED <<program, cancelled_flag, status_ok, opened, connected>>

\* The wait of a client that was disconnected ends with SMART_DISCONNECTED; that of a
\* connected one ends when the peer answers, writes or fires, or with an error.
WaitAborted == ~connected /\ WaitReturns(FALSE)
WaitFulfilled == connected /\ \E ok \in BOOLEAN : WaitReturns(ok)

\* connect() succeeds or fails within its timeouts. A subscriber goes on to subscribe.
Connects ==
    /\ Moves("connecting", IF program = "subscriber" THEN "subscribing" ELSE "testing")
    /\ connected' \in BOOLEAN
    /\ opened' = connected'
    /\ UNCHANGED <<program, cancelled_flag, status_ok, round>>

\* The connect() of an event client first disconnects with client_mutex held: it never
\* returns when an upcall of the reader it has is past its test of the guard.
CanBeCaught == program = "observer" /\ opened
ConnectIsCaught == CanBeCaught /\ Moves("connecting", "caught") /\ Keeps

Subscribes == Moves("subscribing", "testing") /\ Keeps

\* The peer of a client that has end points comes or goes, which its listener hears.
PeerChanges ==
    /\ opened
    /\ connected' = ~connected
    /\ UNCHANGED <<program, cancelled_flag, thread, status_ok, opened, round>>

\* run(): once the component's run has returned the flag is set, the thread joined.
SetsFlag ==
    /\ ~cancelled_flag
    /\ cancelled_flag' = TRUE
    /\ UNCHANGED <<program, thread, status_ok, opened, connected, round>>

Joinable == program # "none" => cancelled_flag /\ thread = "left"

\* The steps of the thread that depend on nobody else.
ThreadSteps ==
    \/ TestsFlag \/ Sends \/ Asks \/ Activates \/ WaitAborted
    \/ Connects \/ ConnectIsCaught \/ Subscribes

ApplicationTypeOK ==
    /\ program \in Programs \cup {"none"}
    /\ cancelled_flag \in BOOLEAN /\ status_ok \in BOOLEAN
    /\ opened \in BOOLEAN /\ connected \in BOOLEAN
    /\ thread \in Places
    /\ round \in 0 .. MaxRounds
=============================================================================
