------------------------------ MODULE RpcClient ------------------------------
(***************************************************************************)
(* The client library (holyrig-client) and the view the radio application  *)
(* (holyrig-radio) keeps of the rigs, at the other end of RpcServer.       *)
(*                                                                         *)
(* A connection starts with a fixed sequence of requests, one at a time:   *)
(* list_rigs, then get_capabilities, subscribe_status and get_status for   *)
(* each rig.  Any response is taken for the answer to the request waited   *)
(* for, a notification that arrives meanwhile is discarded, and a wait of  *)
(* two seconds gives the request up.  Then a loop applies notifications to *)
(* the view.  When the server ends, everything starts again.               *)
(***************************************************************************)
EXTENDS RpcServer, FiniteSets

CONSTANTS
  MaxExits,     \* bound: the times the server process ends
  MaxConnects   \* bound: connections

VARIABLES
  phase,     \* "away", what init asks for ("list", "caps", "sub", "status"), "ready"
  waiting,   \* whether init waits for a response
  todo,      \* the rigs init still has to ask about, with their listed connection
  cur,       \* the one it asks about
  caps,      \* its status fields
  infos,     \* client.rigs: the connection and the status of the rigs asked about
  inView,    \* the rigs that have a tab
  shown,     \* RadioState: what is shown of each item
  \* history and bound
  late,      \* a request of this connection was given up
  dropped,   \* items whose newest news init discarded
  exits, connects

initVars == <<todo, cur, caps, infos>>
viewVars == <<inView, shown>>
clientVars == <<phase, waiting, initVars, viewVars, late, dropped>>
runBounds == <<exits, connects>>
allVars == <<vars, clientVars, runBounds>>

InitPhases == {"list", "caps", "sub", "status"}
NoEntries == [r \in {} |-> FALSE]
NoStatus == [f \in Fields |-> None]
NothingShown == [x \in Items |-> IF x = Connection THEN FALSE ELSE None]

ClientInit ==
  /\ RpcInit
  /\ phase = "away" /\ waiting = FALSE
  /\ todo = NoEntries /\ cur = None
  /\ caps = {} /\ infos = NoEntries
  /\ inView = {} /\ shown = [r \in Rigs |-> NothingShown]
  /\ late = FALSE /\ dropped = {} /\ exits = 0 /\ connects = 0

-----------------------------------------------------------------------------
(* Connecting and asking.                                                  *)

\* The requests of a whole init, which the bound leaves to every connection.
InitRequests ==
  1 + 2 * Cardinality(Listed) + Cardinality({r \in Listed : Implemented[r] # {}})

\* TcpClient::connect.
Connect ==
  /\ phase = "away" /\ Accept
  /\ connects < MaxConnects /\ connects' = connects + 1
  /\ requests + InitRequests <= MaxRequests
  /\ phase' = "list"
  /\ UNCHANGED <<waiting, initVars, viewVars, late, dropped, exits>>

\* The request of the phase.
Asked ==
  LET ask(method, rig, fields) ==
        [method |-> method, rig |-> rig, fields |-> fields, params |-> "good"]
  IN CASE phase = "list" -> ask("list_rigs", None, {})
       [] phase = "caps" -> ask("get_capabilities", cur, {})
       [] phase = "sub" -> ask("subscribe_status", cur, caps)
       [] OTHER -> ask("get_status", cur, {})

\* A mistake: the answer to the subscription is not waited for.
SendAhead ==
  /\ phase \in InitPhases /\ ~waiting
  /\ ClientSend(Asked)
  /\ waiting' = (phase # "sub")
  /\ phase' = IF phase = "sub" THEN "status" ELSE phase
  /\ UNCHANGED <<initVars, viewVars, late, dropped, runBounds>>

SendRequest ==
  /\ phase \in InitPhases /\ ~waiting
  /\ ClientSend(Asked)
  /\ waiting' = TRUE
  /\ UNCHANGED <<phase, initVars, viewVars, late, dropped, runBounds>>

-----------------------------------------------------------------------------
(* What init does with a response, or without one.                         *)

Unread == UNCHANGED <<deviceVars, serverVars, bus, busLagged, publishing, sessionVars, notices,
                      lagged, half, toServer, known, bounds, runBounds>>
Receives == ClientReceive /\ UNCHANGED runBounds

\* What init keeps is gone when it ends.
InitLeft == todo' = NoEntries /\ cur' = None /\ caps' = {} /\ infos' = NoEntries

\* init fails: the connection is dropped, and made again three seconds later.
Fail ==
  /\ phase' = "away" /\ waiting' = FALSE /\ hung' = TRUE
  /\ late' = FALSE /\ dropped' = {}
  /\ InitLeft /\ UNCHANGED viewVars

\* The tabs at the end of init: new ones, and those of an earlier connection renewed.
ShowRigs(f) ==
  /\ inView' = inView \cup DOMAIN f
  /\ shown' = [r \in Rigs |-> IF r \in DOMAIN f THEN f[r] ELSE shown[r]]

\* On to one of the rigs left, or to the loop when there is none.
AskNext(left, done) ==
  \/ /\ phase' = "caps" /\ cur' \in DOMAIN left
     /\ todo' = left /\ infos' = done /\ UNCHANGED <<caps, viewVars>>
  \/ DOMAIN left = {} /\ phase' = "ready" /\ ShowRigs(done) /\ InitLeft

Listing(m) ==
  /\ phase = "list" /\ m.what = "rigs" /\ Listed # {}
  /\ waiting' = FALSE /\ dropped' = dropped \ (Listed \X {Connection})
  /\ UNCHANGED late
  /\ AskNext(m.rigs, infos)

\* A rig of which no field is known is not subscribed.
Capabilities(m) ==
  /\ phase = "caps"
  /\ caps' = (IF m.what = "capabilities" THEN m.fields ELSE {})
  /\ phase' = (IF caps' = {} THEN "status" ELSE "sub") /\ waiting' = FALSE
  /\ UNCHANGED <<todo, cur, infos, viewVars, late, dropped>>

Subscribed ==
  /\ phase = "sub" /\ phase' = "status" /\ waiting' = FALSE
  /\ UNCHANGED <<initVars, viewVars, late, dropped>>

\* The rig is done, with the status that came.
AddRig(values) ==
  /\ phase = "status"
  /\ waiting' = FALSE
  /\ AskNext([r \in DOMAIN todo \ {cur} |-> todo[r]],
             [r \in DOMAIN infos \cup {cur} |->
                IF r \in DOMAIN infos THEN infos[r] ELSE
                  [x \in Items |-> IF x = Connection THEN todo[cur] ELSE values[x]]])

StatusTaken(m) ==
  /\ AddRig(IF m.what = "values" THEN m.values ELSE NoStatus)
  /\ dropped' = IF m.what = "values" THEN dropped \ ({cur} \X Fields) ELSE dropped
  /\ UNCHANGED late

\* A response arrives while init waits, be it the answer or not.
TakeResponse ==
  /\ waiting /\ Receives
  /\ LET m == Head(toClient) IN
       /\ m.what # "news"
       /\ Listing(m) \/ Capabilities(m) \/ Subscribed \/ StatusTaken(m)

\* The answer to list_rigs is no list of rigs, or an empty one: an error.
ListingFails ==
  /\ phase = "list" /\ waiting /\ toClient # <<>>
  /\ LET m == Head(toClient) IN m.what = "error" \/ (m.what = "rigs" /\ Listed = {})
  /\ toClient' = Tail(toClient) /\ Fail
  /\ Unread

\* The items that news m is about.
Told(m) == {p \in Rigs \X Items : Tells(m, p[1], p[2])}

\* A notification arrives while init waits for a response.
Discard ==
  /\ phase \in InitPhases /\ waiting /\ Receives
  /\ Head(toClient).what = "news"
  /\ dropped' = dropped \cup Told(Head(toClient))
  /\ UNCHANGED <<phase, waiting, initVars, viewVars, late>>

\* A mistake: only the end of the file ends a wait.
GivesUpAtEnd == toClient = <<>> /\ ~Live

\* Two seconds without a line, the end of the file, or a write that fails.
GivesUp == (waiting /\ toClient = <<>>) \/ (~waiting /\ ~Live)

\* Without the list or capabilities init fails; the other requests are passed over.
GiveUp ==
  /\ phase \in InitPhases /\ GivesUp
  /\ \/ phase \in {"list", "caps"} /\ Fail
     \/ /\ phase = "sub" /\ phase' = "status" /\ waiting' = FALSE /\ late' = TRUE
        /\ UNCHANGED <<initVars, viewVars, dropped, hung>>
     \/ AddRig(NoStatus) /\ late' = TRUE /\ UNCHANGED <<dropped, hung>>
  /\ UNCHANGED toClient /\ Unread

-----------------------------------------------------------------------------
(* The loop: TcpReceiver::run, the channel, and the radio's task.          *)

\* A mistake: only what was not known yet is taken.
AppliedOnce(old, news) == [x \in Items |-> IF old[x] = None THEN news[x] ELSE old[x]]

Applied(old, news) == [x \in Items |-> IF news[x] = None THEN old[x] ELSE news[x]]

Apply ==
  /\ phase = "ready" /\ Receives
  /\ LET m == Head(toClient) IN
       IF m.what = "news"
       THEN /\ shown' = IF m.rig \in inView
                        THEN [shown EXCEPT ![m.rig] = Applied(@, m.news)] ELSE shown
            /\ dropped' = dropped \ Told(m)
       ELSE UNCHANGED <<shown, dropped>>
  /\ UNCHANGED <<phase, waiting, initVars, inView, late>>

\* The user operates a rig; the answer is not waited for.  The bound leaves the
\* requests of another init.
Command(r) ==
  /\ phase = "ready" /\ r \in inView
  /\ requests + InitRequests < MaxRequests
  /\ ClientSend([method |-> "execute_command", rig |-> r, fields |-> {}, params |-> "good"])
  /\ UNCHANGED <<clientVars, runBounds>>

\* A mistake: what was shown stays.
ShownAsBefore == shown

\* What is shown once the connection is lost.
ShownWhenLost ==
  [r \in Rigs |-> [x \in Items |-> IF x = Connection THEN FALSE ELSE shown[r][x]]]

\* The end of the file: AppMessage::Disconnected.
Disconnect ==
  /\ phase = "ready" /\ toClient = <<>> /\ ~Live
  /\ phase' = "away" /\ hung' = TRUE
  /\ shown' = ShownWhenLost
  /\ late' = FALSE /\ dropped' = {}
  /\ UNCHANGED <<waiting, initVars, inView, toClient>>
  /\ Unread

-----------------------------------------------------------------------------
\* The server process ends and is started again; what it sent can still be read.
ServerExit ==
  /\ exits < MaxExits /\ exits' = exits + 1
  /\ conn' = [r \in Rigs |-> FALSE] /\ cache' = [r \in Rigs |-> NoStatus]
  /\ telling' = [r \in Rigs |-> NoNews]
  /\ serving' = TRUE /\ bus' = <<>> /\ busLagged' = FALSE
  /\ rigsState' = [r \in Listed |-> FALSE] /\ publishing' = <<>>
  /\ session' = "closed" /\ notices' = <<>> /\ lagged' = FALSE
  /\ subs' = [r \in Rigs |-> {}] /\ half' = FALSE /\ executing' = NoRequest
  /\ toServer' = <<>> /\ known' = NothingKnown
  /\ UNCHANGED <<toClient, hung, bounds, clientVars, connects>>

\* A rig that is switched off is told of again and again, without limit.  Bound: this is
\* left to the last connection, to a wait of init, and to when nothing else is under way.
TellAgain(r) ==
  /\ waiting /\ ~conn[r] /\ connects = MaxConnects
  /\ bus \o publishing \o notices \o toClient \o toServer = <<>>
  /\ SetStatus(r, FALSE)
  /\ UNCHANGED <<changes, clientVars, runBounds>>

Client ==
  \/ SendRequest \/ TakeResponse \/ ListingFails \/ Discard \/ GiveUp
  \/ Apply \/ Disconnect

Environment ==
  \/ (Devices \/ Server \/ Session) /\ UNCHANGED <<clientVars, runBounds>>
  \/ Connect \/ ServerExit
  \/ \E r \in Rigs : Command(r) \/ TellAgain(r)

ClientNext == Client \/ Environment

\* The client's tasks run and the timer of a wait expires.  Nothing else has to
\* happen: neither the server nor the network has to answer.
Fairness == WF_allVars(Client)

ClientSpec == ClientInit /\ [][ClientNext]_allVars
FairClientSpec == ClientSpec /\ Fairness

-----------------------------------------------------------------------------
(* Properties.                                                             *)

\* As long as no request was given up, a response on its way is the answer to the
\* request init waits for, and the only one: so init may take it for that without
\* comparing ids (net.rs:33-53), and a rig gets its own capabilities.
ResponsesPair ==
  phase \in InitPhases /\ ~late =>
    /\ \A j, k \in 1..Len(toClient) :
         toClient[j].what # "news" /\ toClient[k].what # "news" => j = k
    /\ \A k \in 1..Len(toClient) :
         toClient[k].what # "news" => waiting /\ toClient[k].id \in {0, requests}

\* Message j in the socket is the last there with news of item x of rig r.
Brings(m, r, x) == m.what = "news" /\ Tells(m, r, x)
Newest(r, x, j) ==
  /\ Brings(toClient[j], r, x)
  /\ \A k \in 1..Len(toClient) : k > j => ~Brings(toClient[k], r, x)

\* The view becomes what the session told, once the notifications in the socket are
\* applied, but for items whose newest news init discarded, and connections with a
\* request given up: answers, notifications and the moment init ends are in step
\* (radio lib.rs:64-100, client.rs:92-165).
ViewFollows ==
  phase = "ready" /\ Live /\ ~late =>
    \A r \in inView : \A x \in Items :
      known[r][x] # Unknown /\ <<r, x>> \notin dropped =>
        /\ \A j \in 1..Len(toClient) : Newest(r, x, j) => toClient[j].news[x] = known[r][x]
        /\ (\A j \in 1..Len(toClient) : ~Brings(toClient[j], r, x))
             => shown[r][x] = known[r][x]

\* Until init succeeds again, no rig is shown as connected (radio app.rs:124-131).
LostShown == phase # "ready" => \A r \in inView : ~shown[r][Connection]

\* The session has nothing more to notify.
NewsEnd == <>[][~ Notify]_allVars

\* The init sequence comes to an end, whatever else the server and the network do, if the
\* notifications do: every line, of whatever kind, starts the two seconds anew
\* (net.rs:36-49), so that a request that was lost is waited for as long as notifications
\* keep coming.
InitEnds == NewsEnd => (phase \in InitPhases ~> phase \notin InitPhases)
=============================================================================
