--------------------------- MODULE RpcClientProofs ---------------------------
(***************************************************************************)
(* Proofs about RpcClient.                                                 *)
(***************************************************************************)
EXTENDS RpcClientInvariant, RpcServerProofs

USE DEF deviceVars, serverVars, sessionVars, bounds, vars,
        initVars, viewVars, clientVars, runBounds, allVars

-----------------------------------------------------------------------------
(* The server under this client.                                           *)

\* What init asks for is a request.
LEMMA AskedType == ClientTypeOK => Asked \in Ask
<1> SUFFICES ASSUME ClientTypeOK PROVE Asked \in Ask
  OBVIOUS
<1> DEFINE ask(method, rig, fields) ==
             [method |-> method, rig |-> rig, fields |-> fields, params |-> "good"]
<1>1. \A method \in {"list_rigs", "get_capabilities", "subscribe_status", "get_status"} :
      \A rig \in Rigs \cup {None} : \A fields \in SUBSET Fields :
        ask(method, rig, fields) \in Ask
  BY DEF Ask, Methods
<1>2. cur \in Rigs \cup {None} /\ None \in Rigs \cup {None} /\ caps \in SUBSET Fields
      /\ {} \in SUBSET Fields
  BY ConstantFacts DEF ClientTypeOK
<1> QED BY <1>1, <1>2 DEF Asked

\* An operation is a request too.
LEMMA CommandType ==
  \A r \in Rigs : [method |-> "execute_command", rig |-> r, fields |-> {},
                   params |-> "good"] \in Ask
BY DEF Ask, Methods

\* A step of the client that sends nothing: it may take a message and hang up.
ClientOnly ==
  /\ UNCHANGED <<deviceVars, serverVars, bus, busLagged, publishing, sessionVars, notices,
                 lagged, half, toServer, known, bounds>>
  /\ toClient' = toClient \/ (toClient # <<>> /\ toClient' = Tail(toClient))
  /\ hung' \in {TRUE, hung}

\* What each step of the client and its server is to the server.
LEMMA ServerSteps ==
  ASSUME ClientTypeOK, [ClientNext]_allVars
  PROVE  \/ (Devices \/ Server \/ Session) /\ UNCHANGED <<clientVars, runBounds>>
         \/ \E r \in Rigs : TellAgain(r)
         \/ Accept /\ Connect
         \/ \E ask \in Ask : ClientSend(ask)
         \/ ClientOnly
         \/ ServerExit
<1>1. CASE SendRequest
  BY <1>1, AskedType DEF SendRequest
<1>2. CASE TakeResponse \/ Discard \/ Apply
  BY <1>2 DEF TakeResponse, Discard, Apply, Receives, ClientReceive, ClientOnly
<1>3. CASE ListingFails
  BY <1>3 DEF ListingFails, Fail, Unread, ClientOnly
<1>4. CASE GiveUp
  BY <1>4 DEF GiveUp, Fail, Unread, ClientOnly
<1>5. CASE Disconnect
  BY <1>5 DEF Disconnect, Unread, ClientOnly
<1>6. CASE Environment
  <2>1. ASSUME NEW r \in Rigs, Command(r) PROVE \E ask \in Ask : ClientSend(ask)
    BY <2>1, CommandType DEF Command
  <2> QED BY <1>6, <2>1 DEF Environment, Connect
<1>7. CASE UNCHANGED allVars
  BY <1>7 DEF ClientOnly
<1> QED BY <1>1, <1>2, <1>3, <1>4, <1>5, <1>6, <1>7 DEF ClientNext, Client

\* A server that starts again has the types of one that starts.
LEMMA ExitStep ==
  ASSUME TypeOK, ServerExit
  PROVE  TypeOK' /\ Follows'
<1>1. /\ known' \in [Rigs -> [Items -> Values \cup BOOLEAN \cup {None, Unknown}]]
      /\ \A r \in Rigs : \A x \in Items : known'[r][x] = Unknown
  BY DEF ServerExit, NothingKnown
<1>2. telling' \in [Rigs -> News] /\ cache' \in [Rigs -> [Fields -> Values \cup {None}]]
  BY NewsType DEF ServerExit, NoStatus
<1>3. /\ Len(bus') <= BusCap /\ Len(notices') <= NoticeCap /\ bus' \in Seq(Message)
      /\ notices' \in Seq(Message) /\ publishing' \in Seq(Message) /\ toServer' \in Seq(Line)
      /\ Len(publishing') <= 1
  BY ConstantFacts, EmptySeq DEF ServerExit
<1>4. /\ conn' \in [Rigs -> BOOLEAN] /\ rigsState' \in [Listed -> BOOLEAN]
      /\ subs' \in [Rigs -> SUBSET Fields]
  BY DEF ServerExit
<1>5. TypeOK'
  BY <1>1, <1>2, <1>3, <1>4 DEF ServerExit, TypeOK
<1>6. ~Live' /\ \A r, x, d : Latest(bus', r, x, d) = d /\ Latest(publishing', r, x, d) = d
  BY LatestEmpty DEF ServerExit, Live
<1>7. TellingConsistent'
  <2>1. \A r \in Rigs : \A x \in Items : telling'[r][x] = None
    BY DEF ServerExit, NoNews
  <2> QED BY <2>1 DEF TellingConsistent
<1>8. KnownSubscribed'
  BY <1>1, ConstantFacts DEF KnownSubscribed
<1>9. StateIsNewest'
  BY <1>6 DEF StateIsNewest
<1>10. StateFollows'
  <2>1. \A r \in Listed : conn'[r] = FALSE /\ rigsState'[r] = FALSE
    BY ConstantFacts DEF ServerExit
  <2>2. ASSUME NEW r \in Listed PROVE Latest(bus', r, Connection, rigsState'[r]) = conn'[r]
    <3>1. Latest(bus', r, Connection, rigsState'[r]) = rigsState'[r]
      BY <1>6
    <3> QED BY <2>1, <3>1
  <2> QED BY <2>2 DEF StateFollows
<1>11. TruthIsNewest' /\ SessionFollows'
  BY <1>6 DEF TruthIsNewest, SessionFollows
<1> QED BY <1>5, <1>7, <1>8, <1>9, <1>10, <1>11 DEF Follows

\* The server's invariant also holds with this client, and when the server starts again.
LEMMA ServerKept ==
  ASSUME TypeOK, Follows, ClientTypeOK, [ClientNext]_allVars
  PROVE  TypeOK' /\ Follows'
<1>1. CASE (Devices \/ Server \/ Session) \/ Accept
  BY <1>1, TypeStep, FollowsStep DEF RpcNext, IInv
<1>5. ASSUME NEW r \in Rigs, TellAgain(r) PROVE TypeOK' /\ Follows'
  <2>1. SetStatus(r, FALSE) /\ changes' \in Nat
    BY <1>5 DEF TellAgain, TypeOK
  <2> QED BY <2>1, SetStatusType, ConnectionStep DEF IInv
<1>2. CASE \E ask \in Ask : ClientSend(ask)
  <2>1. TypeOK'
    BY <1>2, SendType
  <2>2. Follows'
    BY <1>2, QuietStep DEF ClientSend, Live
  <2> QED BY <2>1, <2>2
<1>3. CASE ClientOnly
  <2>1. toClient' \in Seq(Reply \cup Notification) /\ Len(toClient') <= SocketCap
    <3>1. toClient \in Seq(Reply \cup Notification) /\ Len(toClient) <= SocketCap
          /\ SocketCap \in Nat
      BY ConstantFacts DEF TypeOK
    <3>2. CASE toClient' = toClient
      BY <3>1, <3>2
    <3>3. CASE toClient # <<>> /\ toClient' = Tail(toClient)
      <4>1. toClient' \in Seq(Reply \cup Notification) /\ Len(toClient') = Len(toClient) - 1
        BY <3>1, <3>3
      <4> QED BY <3>1, <4>1
    <3> QED BY <1>3, <3>2, <3>3 DEF ClientOnly
  <2>2. TypeOK'
    BY <1>3, <2>1 DEF ClientOnly, TypeOK
  <2>3. Follows'
    BY <1>3, QuietStep DEF ClientOnly, Live
  <2> QED BY <2>2, <2>3
<1>4. CASE ServerExit
  BY <1>4, ExitStep
<1> QED BY <1>1, <1>2, <1>3, <1>4, <1>5, ServerSteps

-----------------------------------------------------------------------------
(* The types of the client, and where init is.                             *)

Copies == Values \cup BOOLEAN \cup {None}

\* What a message has, by its kind.
LEMMA MessageShape ==
  ASSUME NEW m \in Reply \cup Notification
  PROVE  /\ m.what = "news" => m.rig \in Rigs /\ m.news \in News
                               /\ \A x \in Items : m.news[x] \in Copies
         /\ m.what = "rigs" => m.rigs \in [Listed -> BOOLEAN]
         /\ m.what = "values" => m.values \in [Fields -> Values \cup {None}]
         /\ m.what = "capabilities" => m.fields \in SUBSET Fields
         /\ IsResponse(m) => m \in Reply
<1>1. CASE m \in Notification
  <2>1. m.what = "news" /\ m.rig \in Rigs /\ m.news \in News
    BY <1>1 DEF Notification
  <2> QED BY <2>1, NewsShape DEF IsResponse, Copies
<1>2. CASE m \in Reply
  BY <1>2 DEF Reply
<1> QED BY <1>1, <1>2

\* The message at the head, and what is left in the socket.
LEMMA HeadType ==
  ASSUME TypeOK, toClient # <<>>
  PROVE  /\ Head(toClient) \in Reply \cup Notification
         /\ Head(toClient) = toClient[1] /\ 1 \in Replies
BY DEF TypeOK, Replies

LEMMA EmptyEntries ==
  /\ \A V : NoEntries \in [{} -> V] /\ DOMAIN NoEntries = {}
  /\ {} \in SomeRigs
BY DEF NoEntries, SomeRigs

Shape == ClientTypeOK /\ InitConsistent /\ LostShown

\* Where init is, after it took up the next rig or ended.
LEMMA AskNextShape ==
  ASSUME Shape, NEW left, NEW done, left \in [DOMAIN left -> BOOLEAN],
         done \in [DOMAIN done -> [Items -> Copies]],
         DOMAIN left \cup DOMAIN done = Listed, DOMAIN left \cap DOMAIN done = {},
         phase \in {"list", "status"}, AskNext(left, done),
         waiting' = FALSE, late' \in BOOLEAN, dropped' \in SUBSET (Rigs \X Items)
  PROVE  Shape'
<1>1. DOMAIN left \in SomeRigs /\ DOMAIN done \in SomeRigs
  BY DEF SomeRigs
<1>2. CASE /\ phase' = "caps" /\ cur' \in DOMAIN left
           /\ todo' = left /\ infos' = done /\ UNCHANGED <<caps, viewVars>>
  <2>1. ClientTypeOK'
    BY <1>1, <1>2 DEF Shape, ClientTypeOK, InitPhases, SomeRigs, Copies
  <2>2. InitConsistent'
    BY <1>2 DEF Shape, InitConsistent
  <2>3. LostShown'
    BY <1>2 DEF Shape, LostShown
  <2> QED BY <2>1, <2>2, <2>3 DEF Shape
<1>3. CASE DOMAIN left = {} /\ phase' = "ready" /\ ShowRigs(done) /\ InitLeft
  <2>1. DOMAIN done = Listed /\ Listed \subseteq Rigs /\ inView \subseteq Listed
    BY <1>3, ConstantFacts DEF Shape, ClientTypeOK, SomeRigs
  <2>2. inView' = Listed /\ shown' \in [Rigs -> [Items -> Copies]]
    <3>1. inView' = inView \cup DOMAIN done
          /\ shown' = [r \in Rigs |-> IF r \in DOMAIN done THEN done[r] ELSE shown[r]]
      BY <1>3 DEF ShowRigs
    <3>2. shown \in [Rigs -> [Items -> Copies]]
      BY DEF Shape, ClientTypeOK, Copies
    <3> QED BY <2>1, <3>1, <3>2
  <2>3. todo' = NoEntries /\ infos' = NoEntries /\ cur' = None /\ caps' = {}
    BY <1>3 DEF InitLeft
  <2>4. ClientTypeOK'
    BY <1>3, <2>2, <2>3, EmptyEntries DEF ClientTypeOK, SomeRigs, Copies
  <2>5. InitConsistent'
    BY <1>3, <2>2, <2>3 DEF InitConsistent
  <2>6. LostShown'
    BY <1>3 DEF LostShown
  <2> QED BY <2>4, <2>5, <2>6 DEF Shape
<1> QED BY <1>2, <1>3 DEF AskNext

\* The rig asked about is done.
LEMMA AddRigShape ==
  ASSUME Shape, NEW values \in [Fields -> Values \cup {None}], AddRig(values),
         late' \in BOOLEAN, dropped' \in SUBSET (Rigs \X Items)
  PROVE  Shape'
<1> DEFINE left == [r \in DOMAIN todo \ {cur} |-> todo[r]]
           done == [r \in DOMAIN infos \cup {cur} |->
                IF r \in DOMAIN infos THEN infos[r] ELSE
                  [x \in Items |-> IF x = Connection THEN todo[cur] ELSE values[x]]]
<1>1. /\ DOMAIN todo \cup DOMAIN infos = Listed /\ DOMAIN todo \cap DOMAIN infos = {}
      /\ cur \in DOMAIN todo /\ phase = "status"
  BY DEF Shape, InitConsistent, AddRig
<1>2. /\ todo \in [DOMAIN todo -> BOOLEAN]
      /\ infos \in [DOMAIN infos -> [Items -> Copies]]
  BY DEF Shape, ClientTypeOK, Copies
<1>3. DOMAIN left = DOMAIN todo \ {cur} /\ left \in [DOMAIN left -> BOOLEAN]
  BY <1>2
<1>4. DOMAIN done = DOMAIN infos \cup {cur} /\ done \in [DOMAIN done -> [Items -> Copies]]
  <2>1. [x \in Items |-> IF x = Connection THEN todo[cur] ELSE values[x]] \in [Items -> Copies]
    BY <1>1, <1>2 DEF Items, Copies
  <2> QED BY <1>2, <2>1
<1>5. DOMAIN left \cup DOMAIN done = Listed /\ DOMAIN left \cap DOMAIN done = {}
  BY <1>1, <1>3, <1>4
<1>6. AskNext(left, done) /\ waiting' = FALSE
  BY DEF AddRig
<1> HIDE DEF left, done
<1> QED BY <1>1, <1>3, <1>4, <1>5, <1>6, AskNextShape

\* Init fails.
LEMMA FailShape ==
  ASSUME Shape, phase \in InitPhases, Fail
  PROVE  Shape'
<1>1. phase' = "away" /\ waiting' = FALSE /\ late' = FALSE /\ dropped' = {}
      /\ todo' = NoEntries /\ cur' = None /\ caps' = {} /\ infos' = NoEntries
      /\ UNCHANGED viewVars
  BY DEF Fail, InitLeft
<1>2. ClientTypeOK'
  BY <1>1, EmptyEntries DEF Shape, ClientTypeOK
<1>3. InitConsistent'
  BY <1>1 DEF InitConsistent
<1>4. LostShown'
  BY <1>1 DEF Shape, LostShown, InitPhases
<1> QED BY <1>2, <1>3, <1>4 DEF Shape

\* No variable of the shape changes but the phase within init, or what is asked about.
LEMMA ResponseShape ==
  ASSUME TypeOK, Shape, TakeResponse
  PROVE  Shape'
<1> DEFINE m == Head(toClient)
<1>1. m \in Reply \cup Notification
  BY HeadType DEF TakeResponse, Receives, ClientReceive
<1> HIDE DEF m
<1>2. CASE Listing(m)
  <2>1. m.rigs \in [Listed -> BOOLEAN] /\ phase = "list" /\ infos = NoEntries
        /\ AskNext(m.rigs, infos) /\ waiting' = FALSE /\ late' = late
        /\ dropped' \in SUBSET (Rigs \X Items)
    BY <1>1, <1>2, MessageShape DEF Listing, Shape, InitConsistent, ClientTypeOK
  <2>2. infos \in [DOMAIN infos -> [Items -> Copies]] /\ DOMAIN infos = {}
    BY <2>1, EmptyEntries
  <2>3. DOMAIN m.rigs = Listed /\ late' \in BOOLEAN
    BY <2>1 DEF Shape, ClientTypeOK
  <2> QED BY <2>1, <2>2, <2>3, AskNextShape
<1>3. CASE Capabilities(m)
  <2>1. caps' \in SUBSET Fields
    BY <1>1, <1>3, MessageShape DEF Capabilities
  <2> QED BY <1>3, <2>1 DEF Capabilities, Shape, ClientTypeOK, InitConsistent, LostShown,
                           InitPhases
<1>4. CASE Subscribed
  BY <1>4 DEF Subscribed, Shape, ClientTypeOK, InitConsistent, LostShown, InitPhases
<1>5. CASE StatusTaken(m)
  <2> DEFINE values == IF m.what = "values" THEN m.values ELSE NoStatus
  <2>1. values \in [Fields -> Values \cup {None}]
    BY <1>1, MessageShape DEF NoStatus
  <2>2. AddRig(values) /\ late' \in BOOLEAN /\ dropped' \in SUBSET (Rigs \X Items)
    BY <1>5 DEF StatusTaken, Shape, ClientTypeOK
  <2> HIDE DEF values
  <2> QED BY <2>1, <2>2, AddRigShape
<1> QED BY <1>2, <1>3, <1>4, <1>5 DEF TakeResponse, m

\* The types and the shape at the start.
LEMMA ShapeInit == ClientInit => Shape
<1> SUFFICES ASSUME ClientInit PROVE Shape
  OBVIOUS
<1>1. NothingShown \in [Items -> Copies] /\ NothingShown[Connection] = FALSE
  BY ConstantFacts DEF NothingShown, Copies
<1>2. shown \in [Rigs -> [Items -> Copies]]
  BY <1>1 DEF ClientInit
<1>3. ClientTypeOK
  BY <1>2, EmptyEntries DEF ClientInit, ClientTypeOK, Copies
<1>4. InitConsistent /\ LostShown
  BY DEF ClientInit, InitConsistent, LostShown
<1> QED BY <1>3, <1>4 DEF Shape

\* Every step keeps the shape.
LEMMA ShapeStep ==
  ASSUME TypeOK, Shape, [ClientNext]_allVars
  PROVE  Shape'
<1>1. CASE UNCHANGED clientVars
  BY <1>1 DEF Shape, ClientTypeOK, InitConsistent, LostShown
<1>2. CASE SendRequest
  BY <1>2 DEF SendRequest, Shape, ClientTypeOK, InitConsistent, LostShown, InitPhases
<1>3. CASE TakeResponse
  BY <1>3, ResponseShape
<1>4. CASE ListingFails
  BY <1>4, FailShape DEF ListingFails, InitPhases
<1>5. CASE Discard
  <2>1. dropped' \in SUBSET (Rigs \X Items)
    BY <1>5 DEF Discard, Told, Shape, ClientTypeOK
  <2> QED BY <1>5, <2>1 DEF Discard, Shape, ClientTypeOK, InitConsistent, LostShown
<1>6. CASE GiveUp
  <2>1. CASE phase \in {"list", "caps"} /\ Fail
    BY <1>6, <2>1, FailShape DEF GiveUp
  <2>2. CASE /\ phase = "sub" /\ phase' = "status" /\ waiting' = FALSE /\ late' = TRUE
             /\ UNCHANGED <<initVars, viewVars, dropped, hung>>
    BY <2>2 DEF Shape, ClientTypeOK, InitConsistent, LostShown, InitPhases
  <2>3. CASE AddRig(NoStatus) /\ late' = TRUE /\ UNCHANGED <<dropped, hung>>
    <3>1. NoStatus \in [Fields -> Values \cup {None}] /\ late' \in BOOLEAN
          /\ dropped' \in SUBSET (Rigs \X Items)
      BY <2>3 DEF NoStatus, Shape, ClientTypeOK
    <3> QED BY <2>3, <3>1, AddRigShape
  <2> QED BY <1>6, <2>1, <2>2, <2>3 DEF GiveUp
<1>7. CASE Apply
  <2> DEFINE m == Head(toClient)
  <2>1. m \in Reply \cup Notification
    BY <1>7, HeadType DEF Apply, Receives, ClientReceive
  <2>2. /\ UNCHANGED <<phase, waiting, initVars, inView, late>> /\ phase = "ready"
        /\ dropped' \in SUBSET dropped
        /\ shown' \in {shown, [shown EXCEPT ![m.rig] = Applied(@, m.news)]}
        /\ shown' # shown => m.what = "news"
    BY <1>7 DEF Apply
  <2> HIDE DEF m
  <2>3. shown' \in [Rigs -> [Items -> Copies]]
    <3>1. shown \in [Rigs -> [Items -> Copies]]
      BY DEF Shape, ClientTypeOK, Copies
    <3>2. CASE m.what = "news"
      <4>1. m.rig \in Rigs /\ \A x \in Items : m.news[x] \in Copies
        BY <2>1, <3>2, MessageShape
      <4>2. Applied(shown[m.rig], m.news) \in [Items -> Copies]
        BY <3>1, <4>1 DEF Applied
      <4> QED BY <2>2, <3>1, <4>2
    <3> QED BY <2>2, <3>1, <3>2
  <2> QED BY <2>2, <2>3 DEF Shape, ClientTypeOK, InitConsistent, LostShown, Copies
<1>8. CASE Disconnect
  <2>1. ShownWhenLost \in [Rigs -> [Items -> Copies]]
        /\ \A r \in Rigs : ShownWhenLost[r][Connection] = FALSE
    BY ConstantFacts DEF ShownWhenLost, Shape, ClientTypeOK, Copies
  <2>2. /\ phase = "ready" /\ phase' = "away" /\ shown' = ShownWhenLost /\ late' = FALSE
        /\ dropped' = {} /\ UNCHANGED <<waiting, todo, cur, caps, infos, inView>>
    BY <1>8 DEF Disconnect
  <2>3. ClientTypeOK'
    BY <2>1, <2>2 DEF Shape, ClientTypeOK, Copies
  <2>4. InitConsistent' /\ LostShown'
    BY <2>1, <2>2, ConstantFacts DEF Shape, ClientTypeOK, InitConsistent, LostShown, SomeRigs
  <2> QED BY <2>3, <2>4 DEF Shape
<1>9. CASE Connect
  BY <1>9 DEF Connect, Shape, ClientTypeOK, InitConsistent, LostShown, InitPhases
<1> QED BY <1>1, <1>2, <1>3, <1>4, <1>5, <1>6, <1>7, <1>8, <1>9
        DEF ClientNext, Client, Environment, ServerExit, Command, TellAgain

-----------------------------------------------------------------------------
(* One request at a time, and its response.                                *)

Pairs == OneAtATime /\ AnswersFit

\* What is left in the socket when its first message is taken.
LEMMA TakenPlaces ==
  ASSUME TypeOK, toClient # <<>>, toClient' = Tail(toClient)
  PROVE  \A k \in Replies' : k + 1 \in Replies /\ k + 1 > 1 /\ toClient'[k] = toClient[k + 1]
<1>1. \A k \in Replies' : k + 1 > 1
  BY DEF Replies
<1> QED BY <1>1, TailKeeps DEF Replies

\* A message written comes after those in the socket.
LEMMA WrittenPlaces ==
  ASSUME TypeOK, NEW m, Write(m)
  PROVE  /\ Len(toClient) + 1 \in Replies' /\ toClient'[Len(toClient) + 1] = m
         /\ \A k \in Replies : k \in Replies' /\ k < Len(toClient) + 1 /\ toClient'[k] = toClient[k]
         /\ \A k \in Replies' : k \in Replies \/ k = Len(toClient) + 1
BY TurnTypes DEF Write, Replies

\* What a session does with a request that it reads.
LEMMA Answering ==
  ASSUME TypeOK, KnownSubscribed, HandleRequest
  PROVE  /\ toServer # <<>> /\ toServer' = Tail(toServer) /\ requests' = requests
         /\ Head(toServer).part \in {"whole", "tail"}
         /\ \/ /\ UNCHANGED <<toClient, known>>
               /\ Head(toServer).request.ask.method = "execute_command"
            \/ \E m \in Reply :
                 /\ Write(m) /\ UNCHANGED executing
                 /\ m.id \in {0, Head(toServer).request.id}
                 /\ m.what = "rigs" => Head(toServer).request.ask.method = "list_rigs"
                 /\ m.what = "values" => Head(toServer).request.ask.method = "get_status"
                 /\ \A r \in Listed : \A x \in Items : known'[r][x] # Unknown =>
                      known'[r][x] =
                        IF m.what = "rigs" /\ x = Connection THEN m.rigs[r]
                        ELSE IF m.what = "values" /\ r = Head(toServer).request.ask.rig
                                  /\ x \in Fields
                             THEN m.values[x]
                             ELSE known[r][x]
<1> DEFINE q == Head(toServer).request
           ToldBy(m) == \A r \in Listed : \A x \in Items : known'[r][x] # Unknown =>
                        known'[r][x] =
                          IF m.what = "rigs" /\ x = Connection THEN m.rigs[r]
                          ELSE IF m.what = "values" /\ r = q.ask.rig /\ x \in Fields
                               THEN m.values[x]
                               ELSE known[r][x]
           Answers == \E m \in Reply :
                        /\ Write(m) /\ UNCHANGED executing /\ m.id \in {0, q.id}
                        /\ m.what = "rigs" => q.ask.method = "list_rigs"
                        /\ m.what = "values" => q.ask.method = "get_status"
                        /\ ToldBy(m)
           Runs == UNCHANGED <<toClient, known>> /\ q.ask.method = "execute_command"
<1>1. Reads
  BY DEF HandleRequest, ListRigs, GetStatus, Subscribe, Unsubscribe, GetCapabilities,
         Refuse, Execute, ExecutePanics
<1>2. /\ toServer # <<>> /\ toServer' = Tail(toServer) /\ requests' = requests
      /\ Head(toServer).part \in {"whole", "tail"}
  BY <1>1 DEF Reads
<1>3. q \in Request /\ q.id \in Ids
  BY <1>1, LineType DEF Request
<1>4. /\ known \in [Rigs -> [Items -> Values \cup BOOLEAN \cup {None, Unknown}]]
      /\ Listed \subseteq Rigs /\ \A r \in Rigs : subs[r] \subseteq Fields
  BY ConstantFacts DEF TypeOK
<1> HIDE DEF q
<1>a. ASSUME NEW m \in Reply, Write(m), UNCHANGED executing, m.id \in {0, q.id},
             m.what = "rigs" => q.ask.method = "list_rigs",
             m.what = "values" => q.ask.method = "get_status", ToldBy(m)
      PROVE  Answers
  <2> HIDE DEF ToldBy
  <2> QED BY <1>a
<1>5. ASSUME ListRigs(q) PROVE Answers
  <2> DEFINE m == [what |-> "rigs", id |-> q.id, rigs |-> rigsState]
  <2>1. m \in Reply
    BY <1>3 DEF Reply, TypeOK
  <2>2. Write(m) /\ UNCHANGED executing /\ q.ask.method = "list_rigs"
        /\ known' = [r \in Rigs |->
             IF r \in Listed THEN [known[r] EXCEPT ![Connection] = rigsState[r]] ELSE known[r]]
    BY <1>5 DEF ListRigs
  <2>3. m.what = "rigs" /\ m.rigs = rigsState /\ m.id = q.id
    OBVIOUS
  <2> HIDE DEF m
  <2>4. ToldBy(m)
    BY <1>4, <2>2, <2>3
  <2> HIDE DEF ToldBy, Answers
  <2> QED BY <1>a, <2>1, <2>2, <2>3, <2>4
<1>6. ASSUME GetStatus(q) PROVE Answers
  <2> DEFINE m == [what |-> "values", id |-> q.id, values |-> cache[q.ask.rig]]
  <2>1. q.ask.rig \in Rigs
    BY <1>3, <1>6 DEF GetStatus, Request, Ask
  <2>2. m \in Reply
    BY <1>3, <2>1 DEF Reply, TypeOK
  <2>3. Write(m) /\ UNCHANGED executing /\ q.ask.method = "get_status"
        /\ known' = [known EXCEPT ![q.ask.rig] = Answered(q.ask.rig)]
    BY <1>6 DEF GetStatus
  <2>4. m.what = "values" /\ m.values = cache[q.ask.rig] /\ m.id = q.id
    OBVIOUS
  <2> HIDE DEF m
  <2>5. ASSUME NEW r \in Listed, NEW x \in Items, known'[r][x] # Unknown
        PROVE  known'[r][x] = IF r = q.ask.rig /\ x \in Fields THEN m.values[x] ELSE known[r][x]
    <3>1. CASE r # q.ask.rig
      BY <1>4, <2>1, <2>3, <3>1
    <3>2. CASE r = q.ask.rig
      <4>1. known'[r][x] = IF x \in subs[r] THEN cache[r][x] ELSE known[r][x]
        BY <1>4, <2>1, <2>3, <3>2 DEF Answered
      <4>2. CASE x \in subs[r]
        BY <1>4, <2>1, <2>4, <3>2, <4>1, <4>2
      <4>3. CASE x \notin subs[r]
        <5>1. x \notin Fields
          BY <1>4, <2>5, <4>1, <4>3 DEF KnownSubscribed
        <5> QED BY <4>1, <4>3, <5>1
      <4> QED BY <4>2, <4>3
    <3> QED BY <3>1, <3>2
  <2>6. ToldBy(m)
    BY <2>4, <2>5
  <2> HIDE DEF ToldBy, Answers
  <2> QED BY <1>a, <2>2, <2>3, <2>4, <2>6
<1>7. ASSUME NEW m \in Reply, Write(m), m.id \in {0, q.id}, UNCHANGED executing,
             m.what \notin {"rigs", "values"},
             \A r \in Rigs : \A x \in Items : known'[r][x] \in {known[r][x], Unknown}
      PROVE  Answers
  <2>1. ToldBy(m)
    BY <1>4, <1>7
  <2> HIDE DEF ToldBy, Answers
  <2> QED BY <1>a, <1>7, <2>1
<1>8. \A what \in {"success", "error"}, i \in {0, q.id} :
        Plain(what, i) \in Reply /\ Plain(what, i).id = i /\ Plain(what, i).what = what
  BY <1>3 DEF Reply, Plain
<1> HIDE DEF Answers
<1>9. ASSUME Subscribe(q) \/ Unsubscribe(q) PROVE Answers
  <2>1. Write(Plain("success", q.id)) /\ UNCHANGED executing
    BY <1>9 DEF Subscribe, Unsubscribe
  <2>2. \A r \in Rigs : \A x \in Items : known'[r][x] \in {known[r][x], Unknown}
    BY <1>4, <1>9 DEF Subscribe, Unsubscribe
  <2> QED BY <1>7, <1>8, <2>1, <2>2
<1>10. ASSUME GetCapabilities(q) PROVE Answers
  <2> DEFINE m == [what |-> "capabilities", id |-> q.id, fields |-> Implemented[q.ask.rig]]
  <2>1. Implemented[q.ask.rig] \in SUBSET Fields
    BY <1>10, ConstantFacts DEF GetCapabilities, Served
  <2>2. m \in Reply
    BY <1>3, <2>1 DEF Reply
  <2>3. Write(m) /\ UNCHANGED <<executing, known>>
    BY <1>10 DEF GetCapabilities
  <2>4. m.what = "capabilities" /\ m.id = q.id
    OBVIOUS
  <2> HIDE DEF m
  <2> QED BY <1>7, <2>2, <2>3, <2>4
<1>11. ASSUME Refuse(q) PROVE Answers
  <2>1. UNCHANGED <<executing, known>> /\ \E i \in {0, q.id} : Write(Plain("error", i))
    BY <1>11 DEF Refuse
  <2> QED BY <1>7, <1>8, <2>1
<1>12. ASSUME Execute(q) \/ ExecutePanics(q) PROVE Runs
  BY <1>12 DEF Execute, ExecutePanics
<1>13. Answers \/ Runs
  BY <1>5, <1>6, <1>9, <1>10, <1>11, <1>12 DEF HandleRequest, q, Answers
<1> QED BY <1>2, <1>13 DEF Answers, q

\* The session reads the line of init's request.
LEMMA RequestLeft ==
  ASSUME RequestUnread, toServer' = Tail(toServer)
  PROVE  /\ Head(toServer).request = TheRequest
         /\ Head(toServer).part # "head" => toServer' = <<>>
         /\ Head(toServer).part = "head" => toServer' = <<ThePart("tail")>>
<1>1. \A part : ThePart(part).part = part /\ ThePart(part).request = TheRequest
  BY DEF ThePart
<1>2. \A a, b : Head(<<a>>) = a /\ Tail(<<a>>) = <<>> /\ Head(<<a, b>>) = a
                /\ Tail(<<a, b>>) = <<b>>
  OBVIOUS
<1>3. "whole" # "head" /\ "tail" # "head"
  OBVIOUS
<1>4. CASE toServer = <<ThePart("whole")>> \/ toServer = <<ThePart("tail")>>
  BY SMTT(30), <1>1, <1>2, <1>3, <1>4
<1>5. CASE toServer = <<ThePart("head"), ThePart("tail")>>
  BY <1>1, <1>2, <1>5
<1> QED BY <1>4, <1>5 DEF RequestUnread

\* The lines left are lines that were there.
LEMMA LinesLeft ==
  ASSUME TypeOK,
         toServer' = toServer \/ toServer' = <<>> \/ (toServer # <<>> /\ toServer' = Tail(toServer))
  PROVE  \A k \in Lines' : \E j \in Lines : toServer'[k] = toServer[j]
<1>1. CASE toServer' = <<>>
  BY <1>1 DEF Lines
<1>2. CASE toServer' = toServer
  BY <1>2 DEF Lines
<1>3. CASE toServer # <<>> /\ toServer' = Tail(toServer)
  BY <1>3, TailKeeps DEF Lines
<1> QED BY <1>1, <1>2, <1>3

\* What init asks for in which phase.
LEMMA AskedFacts ==
  ASSUME phase \in InitPhases
  PROVE  /\ Asked.method # "execute_command"
         /\ Asked.method = "list_rigs" => phase = "list"
         /\ Asked.method = "get_status" => phase = "status" /\ Asked.rig = cur
BY DEF Asked, InitPhases

SameInit == UNCHANGED <<phase, waiting, cur, caps, late, requests>>

LEMMA SameRequest ==
  ASSUME SameInit
  PROVE  TheRequest' = TheRequest /\ \A part : ThePart(part)' = ThePart(part)
BY DEF SameInit, TheRequest, ThePart, Asked

\* Nothing is written: lines are read, or lost.
LEMMA ReadPairs ==
  ASSUME TypeOK, Pairs, SameInit, toClient' = toClient, executing' \in {executing, NoRequest},
         \/ toServer' = toServer \/ toServer' = <<>>
         \/ toServer # <<>> /\ toServer' = Tail(toServer)
  PROVE  Pairs'
<1>1. AnswersFit'
  BY LinesLeft DEF Pairs, AnswersFit, SameInit, Replies
<1>2. OneAtATime'
  <2> SUFFICES ASSUME phase \in InitPhases, ~late PROVE OneAtATime'
    BY DEF SameInit, OneAtATime
  <2>1. /\ executing = NoRequest
        /\ toServer = <<>> \/ (waiting /\ RequestUnread)
        /\ \A j, k \in Replies : IsResponse(toClient[j]) /\ IsResponse(toClient[k]) => j = k
        /\ \A j \in Replies : IsResponse(toClient[j]) =>
             waiting /\ toServer = <<>> /\ toClient[j].id \in {0, requests}
    BY DEF Pairs, OneAtATime
  <2>2. toServer' = <<>> \/ (waiting /\ RequestUnread')
    <3>1. CASE toServer' \in {toServer, <<>>}
      BY <2>1, <3>1, SameRequest DEF RequestUnread
    <3>2. CASE toServer # <<>> /\ toServer' = Tail(toServer)
      BY <2>1, <3>2, RequestLeft, SameRequest DEF RequestUnread
    <3> QED BY <3>1, <3>2
  <2>3. toServer = <<>> => toServer' = <<>>
    OBVIOUS
  <2> QED BY <2>1, <2>2, <2>3 DEF OneAtATime, SameInit, Replies
<1> QED BY <1>1, <1>2 DEF Pairs

\* A message is written: news, or a response to the request that was unread.
LEMMA WritePairs ==
  ASSUME TypeOK, Pairs, SameInit, NEW m, Write(m), executing' \in {executing, NoRequest},
         toServer' = toServer \/ (toServer # <<>> /\ toServer' = Tail(toServer)),
         IsResponse(m) =>
           /\ phase \in InitPhases /\ ~late =>
                /\ toServer # <<>> /\ toServer' = Tail(toServer) /\ Head(toServer).part # "head"
                /\ m.id \in {0, requests}
           /\ phase # "away" /\ ~late =>
                (m.what = "rigs" => phase = "list") /\ (m.what = "values" => phase = "status")
  PROVE  Pairs'
<1> DEFINE n == Len(toClient) + 1
<1>1. /\ n \in Replies' /\ toClient'[n] = m
      /\ \A k \in Replies : k \in Replies' /\ k < n /\ toClient'[k] = toClient[k]
      /\ \A k \in Replies' : k \in Replies \/ k = n
  BY WrittenPlaces
<1> HIDE DEF n
<1>2. AnswersFit'
  <2> SUFFICES ASSUME phase # "away", ~late PROVE AnswersFit'
    BY DEF SameInit, AnswersFit
  <2>1. phase = "ready" => \A k \in Lines' : toServer'[k].request.ask.method = "execute_command"
    BY LinesLeft DEF Pairs, AnswersFit
  <2>2. \A j \in Replies' : /\ toClient'[j].what = "rigs" => phase = "list"
                            /\ toClient'[j].what = "values" => phase = "status"
    BY <1>1 DEF Pairs, AnswersFit, IsResponse
  <2> QED BY <2>1, <2>2 DEF SameInit, AnswersFit
<1>3. OneAtATime'
  <2> SUFFICES ASSUME phase \in InitPhases, ~late PROVE OneAtATime'
    BY DEF SameInit, OneAtATime
  <2>1. /\ executing = NoRequest
        /\ toServer = <<>> \/ (waiting /\ RequestUnread)
        /\ \A j, k \in Replies : IsResponse(toClient[j]) /\ IsResponse(toClient[k]) => j = k
        /\ \A j \in Replies : IsResponse(toClient[j]) =>
             waiting /\ toServer = <<>> /\ toClient[j].id \in {0, requests}
    BY DEF Pairs, OneAtATime
  <2>2. toServer' = <<>> \/ (waiting /\ RequestUnread')
    <3>1. CASE toServer' = toServer
      BY <2>1, <3>1, SameRequest DEF RequestUnread
    <3>2. CASE toServer # <<>> /\ toServer' = Tail(toServer)
      BY <2>1, <3>2, RequestLeft, SameRequest DEF RequestUnread
    <3> QED BY <3>1, <3>2
  <2>3. CASE ~IsResponse(m)
    <3>1. \A k \in Replies' : IsResponse(toClient'[k]) => k \in Replies /\ toClient'[k] = toClient[k]
      BY <1>1, <2>3
    <3>2. toServer = <<>> => toServer' = <<>>
      OBVIOUS
    <3> QED BY <2>1, <2>2, <3>1, <3>2 DEF OneAtATime, SameInit
  <2>4. CASE IsResponse(m)
    <3>1. toServer # <<>> /\ waiting /\ toServer' = <<>> /\ m.id \in {0, requests}
      BY <2>1, <2>4, RequestLeft
    <3>2. \A k \in Replies' : IsResponse(toClient'[k]) => k = n
      BY <1>1, <2>1, <3>1
    <3> QED BY <1>1, <2>1, <3>1, <3>2 DEF OneAtATime, SameInit
  <2> QED BY <2>3, <2>4
<1> QED BY <1>2, <1>3 DEF Pairs

\* The client takes a message.
LEMMA TakePairs ==
  ASSUME TypeOK, Pairs, toClient # <<>>, toClient' = Tail(toClient),
         UNCHANGED <<toServer, executing, requests>>,
         \/ SameInit
         \/ /\ phase \in InitPhases /\ waiting /\ IsResponse(Head(toClient)) /\ late' = late
            /\ phase' \in InitPhases \cup {"ready"}
  PROVE  Pairs'
<1>1. \A k \in Replies' : k + 1 \in Replies /\ k + 1 > 1 /\ toClient'[k] = toClient[k + 1]
  BY TakenPlaces
<1>2. 1 \in Replies /\ Head(toClient) = toClient[1]
  BY HeadType
<1>3. CASE SameInit
  <2>1. AnswersFit'
    BY <1>1, <1>3 DEF Pairs, AnswersFit, SameInit, Lines
  <2>2. OneAtATime'
    <3> SUFFICES ASSUME phase \in InitPhases, ~late PROVE OneAtATime'
      BY <1>3 DEF SameInit, OneAtATime
    <3>1. \A j, k \in Replies' : j + 1 = k + 1 => j = k
      BY DEF Replies
    <3>2. RequestUnread' <=> RequestUnread
      BY <1>3, SameRequest DEF RequestUnread
    <3> QED BY <1>1, <1>3, <3>1, <3>2 DEF Pairs, OneAtATime, SameInit
  <2> QED BY <2>1, <2>2 DEF Pairs
<1>4. CASE /\ phase \in InitPhases /\ waiting /\ IsResponse(Head(toClient)) /\ late' = late
           /\ phase' \in InitPhases \cup {"ready"}
  <2> SUFFICES ASSUME ~late PROVE Pairs'
    BY <1>4 DEF Pairs, OneAtATime, AnswersFit
  <2>1. executing' = NoRequest /\ toServer' = <<>>
    BY <1>2, <1>4 DEF Pairs, OneAtATime
  <2>2. \A k \in Replies' : ~IsResponse(toClient'[k])
    <3> SUFFICES ASSUME NEW k \in Replies', IsResponse(toClient'[k]) PROVE FALSE
      OBVIOUS
    <3>0. k + 1 # 1
      BY DEF Replies
    <3>1. IsResponse(toClient[k + 1]) /\ IsResponse(toClient[1]) /\ k + 1 # 1
          /\ k + 1 \in Replies /\ 1 \in Replies
      BY <1>1, <1>2, <1>4, <3>0
    <3> QED BY <1>4, <3>1 DEF Pairs, OneAtATime
  <2>3. Lines' = {}
    BY <2>1 DEF Lines
  <2> QED BY <2>1, <2>2, <2>3 DEF Pairs, OneAtATime, AnswersFit, IsResponse
<1> QED BY <1>3, <1>4

\* A line sent comes after those that are there.
LEMMA SentPlaces ==
  ASSUME TypeOK, NEW ask \in Ask, ClientSend(ask)
  PROVE  \A k \in Lines' : (k \in Lines /\ toServer'[k] = toServer[k])
                           \/ toServer'[k].request.ask = ask
<1> DEFINE q == [id |-> requests', ask |-> ask]
           line(part) == [part |-> part, request |-> q]
<1>1. PICK p \in Parts(q) : toServer' = toServer \o p
  BY DEF ClientSend
<1>2. p = <<line("whole")>> \/ p = <<line("head"), line("tail")>>
  BY <1>1 DEF Parts
<1>3. \A part : line(part).request.ask = ask
  OBVIOUS
<1>4. toServer \in Seq(Line) /\ Len(toServer) \in Nat
  BY TurnTypes
<1> HIDE DEF q, line
<1>5. CASE p = <<line("whole")>>
  <2>1. /\ Len(toServer') = Len(toServer) + 1 /\ toServer'[Len(toServer) + 1] = line("whole")
        /\ \A k \in 1..Len(toServer) : toServer'[k] = toServer[k]
    BY <1>1, <1>4, <1>5
  <2> QED BY <1>3, <1>4, <2>1 DEF Lines
<1>6. CASE p = <<line("head"), line("tail")>>
  <2>1. /\ Len(toServer') = Len(toServer) + 2 /\ toServer'[Len(toServer) + 1] = line("head")
        /\ toServer'[Len(toServer) + 2] = line("tail")
        /\ \A k \in 1..Len(toServer) : toServer'[k] = toServer[k]
    BY <1>1, <1>4, <1>6
  <2> QED BY <1>3, <1>4, <2>1 DEF Lines
<1> QED BY <1>2, <1>5, <1>6

\* Every step keeps the pairing.
LEMMA PairsStep ==
  ASSUME TypeOK, TypeOK', KnownSubscribed, Shape, Pairs, [ClientNext]_allVars
  PROVE  Pairs'
<1>1. ASSUME SameInit, UNCHANGED <<toClient, toServer, executing>> PROVE Pairs'
  BY <1>1, ReadPairs
<1>14. ASSUME NEW r \in Rigs, TellAgain(r) PROVE Pairs'
  BY <1>1, <1>14 DEF TellAgain, SetStatus, SameInit
<1>2. CASE (Devices \/ Server \/ Session) /\ UNCHANGED <<clientVars, runBounds>>
  <2>1. SameInit
    BY <1>2 DEF SameInit, Devices, ConnectionChange, SetStatus, StatusChange, StatusTell, Server, TakeMessage,
                Publish, FallBehind, Session, ReadHead, ReadRemainder, HandleRequest, Reads,
                ListRigs, GetStatus, Subscribe, Unsubscribe, GetCapabilities, Refuse, Execute,
                ExecutePanics, ExecuteDone, Notify, Skip, SessionEnd
  <2>2. CASE Devices
    BY <1>1, <2>1, <2>2 DEF Devices, ConnectionChange, SetStatus, StatusChange, StatusTell
  <2>3. CASE Server
    BY <1>1, <2>1, <2>3 DEF Server, TakeMessage, Publish, FallBehind
  <2>4. CASE ReadHead
    BY <2>1, <2>4, ReadPairs DEF ReadHead
  <2>5. CASE ReadRemainder
    <3>1. CASE UNCHANGED toClient
      BY <2>1, <2>5, <3>1, ReadPairs DEF ReadRemainder
    <3>2. CASE Write(Plain("error", 0))
      <4> DEFINE m == Plain("error", 0)
      <4>1. m.what = "error" /\ m.id = 0
        BY DEF Plain
      <4>2. /\ toServer # <<>> /\ toServer' = Tail(toServer) /\ Head(toServer).part # "head"
            /\ UNCHANGED executing
        BY <2>5 DEF ReadRemainder
      <4> HIDE DEF m
      <4> QED BY <2>1, <3>2, <4>1, <4>2, WritePairs DEF m
    <3> QED BY <2>5, <3>1, <3>2 DEF ReadRemainder
  <2>6. CASE HandleRequest
    <3>1. /\ toServer # <<>> /\ toServer' = Tail(toServer) /\ requests' = requests
          /\ Head(toServer).part # "head"
      BY <2>6, Answering
    <3>2. Head(toServer) = toServer[1] /\ 1 \in Lines
      BY <3>1, TailKeeps
    <3>3. CASE UNCHANGED toClient /\ Head(toServer).request.ask.method = "execute_command"
      <4>1. phase \notin InitPhases \/ late
        <5> SUFFICES ASSUME phase \in InitPhases, ~late PROVE FALSE
          OBVIOUS
        <5>1. Head(toServer).request = TheRequest
          BY <3>1, RequestLeft DEF Pairs, OneAtATime
        <5> QED BY <3>3, <5>1, AskedFacts DEF TheRequest
      <4>2. AnswersFit'
        BY <2>1, <3>1, <3>3, LinesLeft DEF Pairs, AnswersFit, SameInit, Replies
      <4> QED BY <2>1, <4>1, <4>2 DEF Pairs, OneAtATime, SameInit
    <3>4. ASSUME NEW m \in Reply, Write(m), UNCHANGED executing,
                 m.id \in {0, Head(toServer).request.id},
                 m.what = "rigs" => Head(toServer).request.ask.method = "list_rigs",
                 m.what = "values" => Head(toServer).request.ask.method = "get_status"
          PROVE  Pairs'
      <4>1. ASSUME phase \in InitPhases, ~late
            PROVE  /\ m.id \in {0, requests}
                   /\ m.what = "rigs" => phase = "list"
                   /\ m.what = "values" => phase = "status"
        <5>1. Head(toServer).request = TheRequest
          BY <3>1, <4>1, RequestLeft DEF Pairs, OneAtATime
        <5> QED BY <3>4, <4>1, <5>1, AskedFacts DEF TheRequest
      <4>2. ASSUME phase = "ready", ~late PROVE m.what \notin {"rigs", "values"}
        <5>1. Head(toServer).request.ask.method = "execute_command"
          BY <3>2, <4>2 DEF Pairs, AnswersFit
        <5> QED BY <3>4, <5>1
      <4>3. phase \in InitPhases \/ phase = "ready" \/ phase = "away"
        BY DEF Shape, ClientTypeOK
      <4> QED BY <2>1, <3>1, <3>4, <4>1, <4>2, <4>3, WritePairs
    <3> QED BY <2>6, <3>3, <3>4, Answering
  <2>7. CASE ExecuteDone
    <3>1. PICK what \in {"result", "error"} : Write(Plain(what, executing.id))
      BY <2>7 DEF ExecuteDone
    <3> DEFINE m == Plain(what, executing.id)
    <3>2. m.what \in {"result", "error"} /\ Write(m)
      BY <3>1 DEF Plain
    <3>3. executing # NoRequest /\ executing' = NoRequest /\ toServer' = toServer
      BY <2>7 DEF ExecuteDone
    <3>4. phase \notin InitPhases \/ late
      BY <3>3 DEF Pairs, OneAtATime
    <3> HIDE DEF m
    <3> QED BY <2>1, <3>2, <3>3, <3>4, WritePairs
  <2>8. CASE Notify
    <3>1. CASE UNCHANGED toClient
      BY <1>1, <2>1, <2>8, <3>1 DEF Notify
    <3>2. CASE toClient' # toClient
      <4> DEFINE n == [what |-> "news", rig |-> Head(notices).rig,
                       news |-> Filtered(Head(notices))]
      <4>1. Write(n) /\ UNCHANGED <<toServer, executing>>
        BY <2>8, <3>2 DEF Notify
      <4>2. ~IsResponse(n)
        BY DEF IsResponse
      <4> HIDE DEF n
      <4> QED BY <2>1, <4>1, <4>2, WritePairs
    <3> QED BY <3>1, <3>2
  <2>9. CASE Skip
    BY <1>1, <2>1, <2>9 DEF Skip
  <2>10. CASE SessionEnd
    BY <2>1, <2>10, ReadPairs DEF SessionEnd
  <2> QED BY <1>2, <2>2, <2>3, <2>4, <2>5, <2>6, <2>7, <2>8, <2>9, <2>10 DEF Session
<1>3. CASE ServerExit
  BY <1>3, ReadPairs DEF ServerExit, SameInit
<1>4. CASE Connect
  <2>1. executing' = NoRequest /\ toServer' = <<>> /\ toClient' = <<>> /\ phase' = "list"
    BY <1>4 DEF Connect, Accept
  <2>2. Replies' = {} /\ Lines' = {}
    BY <2>1, EmptySeq DEF Replies, Lines
  <2> QED BY <2>1, <2>2 DEF Pairs, OneAtATime, AnswersFit
<1>5. CASE SendRequest
  <2>1. /\ phase \in InitPhases /\ ~waiting /\ waiting' = TRUE /\ requests' = requests + 1
        /\ UNCHANGED <<phase, cur, caps, late, toClient, executing>>
        /\ \E p \in Parts([id |-> requests', ask |-> Asked]) : toServer' = toServer \o p
    BY <1>5 DEF SendRequest, ClientSend
  <2> SUFFICES ASSUME ~late PROVE Pairs'
    BY <2>1 DEF Pairs, OneAtATime, AnswersFit
  <2>2. toServer = <<>> /\ executing = NoRequest /\ \A k \in Replies : ~IsResponse(toClient[k])
    BY <2>1 DEF Pairs, OneAtATime
  <2>3. TheRequest' = [id |-> requests', ask |-> Asked]
    BY <2>1 DEF TheRequest, Asked
  <2>4. RequestUnread'
    <3>1. PICK p \in Parts([id |-> requests', ask |-> Asked]) : toServer' = <<>> \o p
      BY <2>1, <2>2
    <3>2. \A a, b : <<>> \o <<a>> = <<a>> /\ <<>> \o <<a, b>> = <<a, b>>
      OBVIOUS
    <3>3. \/ p = <<ThePart("whole")'>>
          \/ p = <<ThePart("head")', ThePart("tail")'>>
      BY <3>1, <2>3 DEF Parts, ThePart
    <3> QED BY <3>1, <3>2, <3>3 DEF RequestUnread
  <2>5. OneAtATime'
    BY <2>1, <2>2, <2>4 DEF OneAtATime, Replies
  <2>6. AnswersFit'
    BY <2>1, <2>2 DEF AnswersFit, IsResponse, Replies, InitPhases
  <2> QED BY <2>5, <2>6 DEF Pairs
<1>6. CASE \E r \in Rigs : Command(r)
  <2>1. PICK r \in Rigs : Command(r)
    BY <1>6
  <2> DEFINE ask == [method |-> "execute_command", rig |-> r, fields |-> {}, params |-> "good"]
  <2>2. ask.method = "execute_command"
    OBVIOUS
  <2>3. phase = "ready" /\ ClientSend(ask) /\ UNCHANGED clientVars
    BY <2>1 DEF Command
  <2> HIDE DEF ask
  <2>4. phase' = "ready" /\ late' = late /\ toClient' = toClient
    BY <2>3 DEF ClientSend
  <2>5. \A k \in Lines' : (k \in Lines /\ toServer'[k] = toServer[k])
                          \/ toServer'[k].request.ask = ask
    BY <2>3, CommandType, SentPlaces DEF ask
  <2>6. AnswersFit'
    BY <2>2, <2>3, <2>4, <2>5 DEF Pairs, AnswersFit, Replies
  <2> QED BY <2>4, <2>6 DEF Pairs, OneAtATime, InitPhases
<1>7. CASE TakeResponse
  <2>1. /\ phase \in InitPhases /\ waiting /\ late' = late /\ IsResponse(Head(toClient))
        /\ phase' \in InitPhases \cup {"ready"}
    BY <1>7 DEF TakeResponse, Listing, Capabilities, Subscribed, StatusTaken, AddRig, AskNext,
                InitPhases, IsResponse
  <2>2. /\ toClient # <<>> /\ toClient' = Tail(toClient)
        /\ UNCHANGED <<toServer, executing, requests>>
    BY <1>7 DEF TakeResponse, Receives, ClientReceive
  <2> QED BY <2>1, <2>2, TakePairs
<1>8. CASE Discard \/ Apply
  BY <1>8, TakePairs DEF Discard, Apply, Receives, ClientReceive, SameInit
<1>9. CASE phase' = "away" \/ (late' /\ phase' # "away")
  BY <1>9 DEF Pairs, OneAtATime, AnswersFit, InitPhases
<1>10. CASE ListingFails
  BY <1>9, <1>10 DEF ListingFails, Fail
<1>11. CASE GiveUp
  BY <1>9, <1>11 DEF GiveUp, Fail, AddRig, AskNext
<1>12. CASE Disconnect
  BY <1>9, <1>12 DEF Disconnect
<1>13. CASE UNCHANGED allVars
  BY <1>1, <1>13 DEF SameInit
<1> QED BY <1>2, <1>3, <1>4, <1>5, <1>6, <1>7, <1>8, <1>10, <1>11, <1>12, <1>13, <1>14
        DEF ClientNext, Client, Environment

\* A response on its way is the answer to the request init waits for: ResponsesPair.
LEMMA PairsEnough == Pairs => ResponsesPair
<1> SUFFICES ASSUME Pairs, phase \in InitPhases, ~late PROVE ResponsesPair
  BY DEF ResponsesPair
<1> QED BY DEF Pairs, OneAtATime, ResponsesPair, Replies, IsResponse

-----------------------------------------------------------------------------
(* What the client has, what is in the socket and what the session told.   *)

\* What the client has and what messages bear does not change.
SameClient == UNCHANGED <<phase, cur, todo, infos, shown, late, dropped>>

LEMMA SameBears ==
  ASSUME cur' = cur
  PROVE  \A m, r, x : Bears(m, r, x)' <=> Bears(m, r, x)
BY DEF Bears, Brings

LEMMA SameCopy ==
  ASSUME SameClient
  PROVE  \A r, x : Copy(r, x)' = Copy(r, x)
BY DEF SameClient, Copy

\* The session wrote nothing, and told nothing new.
LEMMA QuietCopy ==
  ASSUME CopyFollows, SameClient, toClient' = toClient, Live' => Live,
         \A r \in Listed : \A x \in Items : known'[r][x] \in {known[r][x], Unknown}
  PROVE  CopyFollows'
<1> SUFFICES ASSUME phase # "away", Live, ~late, NEW r \in Listed, NEW x \in Items,
                    known'[r][x] # Unknown
             PROVE  /\ \A j \in Replies' :
                         LastBears(r, x, j)' => Borne(toClient'[j], r, x) = known'[r][x]
                    /\ (\A j \in Replies' : ~Bears(toClient[j], r, x)')
                         /\ <<r, x>> \notin dropped' => Copy(r, x)' = known'[r][x]
  BY DEF CopyFollows, SameClient
<1>1. known'[r][x] = known[r][x] /\ known[r][x] # Unknown
  OBVIOUS
<1>2. /\ \A j \in Replies : LastBears(r, x, j) => Borne(toClient[j], r, x) = known[r][x]
      /\ (\A j \in Replies : ~Bears(toClient[j], r, x)) /\ <<r, x>> \notin dropped
           => Copy(r, x) = known[r][x]
  BY <1>1 DEF CopyFollows
<1>3. Replies' = Replies /\ \A j : LastBears(r, x, j)' <=> LastBears(r, x, j)
  BY SameBears DEF SameClient, LastBears, Replies, Bears, Brings
<1> QED BY <1>1, <1>2, <1>3, SameBears, SameCopy DEF SameClient

\* The session wrote a message, and told what it bears.
LEMMA WriteCopy ==
  ASSUME TypeOK, CopyFollows, SameClient, NEW m, Write(m), Live' => Live,
         phase # "away" /\ Live /\ ~late =>
           \A r \in Listed : \A x \in Items : known'[r][x] # Unknown =>
             known'[r][x] = IF Bears(m, r, x) THEN Borne(m, r, x) ELSE known[r][x]
  PROVE  CopyFollows'
<1> SUFFICES ASSUME phase # "away", Live, ~late, NEW r \in Listed, NEW x \in Items,
                    known'[r][x] # Unknown
             PROVE  /\ \A j \in Replies' :
                         LastBears(r, x, j)' => Borne(toClient'[j], r, x) = known'[r][x]
                    /\ (\A j \in Replies' : ~Bears(toClient[j], r, x)')
                         /\ <<r, x>> \notin dropped' => Copy(r, x)' = known'[r][x]
  BY DEF CopyFollows, SameClient
<1> DEFINE n == Len(toClient) + 1
<1>1. /\ n \in Replies' /\ toClient'[n] = m
      /\ \A k \in Replies : k \in Replies' /\ k < n /\ toClient'[k] = toClient[k]
      /\ \A k \in Replies' : k \in Replies \/ k = n
  BY WrittenPlaces
<1>2. n \in Nat /\ \A k \in Replies : ~(k > n)
  BY TurnTypes DEF Replies
<1> HIDE DEF n
<1>3. \A j \in Replies' : Bears(toClient[j], r, x)' <=> Bears(toClient'[j], r, x)
  BY SameBears DEF SameClient, Bears, Brings
<1>4. \A j : LastBears(r, x, j)' <=>
             /\ Bears(toClient'[j], r, x)
             /\ \A k \in Replies' : k > j => ~Bears(toClient'[k], r, x)
  BY DEF SameClient, LastBears, Bears, Brings
<1>5. CASE Bears(m, r, x)
  <2>1. known'[r][x] = Borne(m, r, x)
    BY <1>5
  <2>2. ASSUME NEW j \in Replies', LastBears(r, x, j)' PROVE j = n
    <3>1. CASE j \in Replies
      <4>1. n > j
        BY <1>1, <1>2, <3>1 DEF Replies
      <4> QED BY <1>1, <1>4, <1>5, <2>2, <4>1
    <3> QED BY <1>1, <3>1
  <2> QED BY <1>1, <1>3, <1>5, <2>1, <2>2
<1>6. CASE ~Bears(m, r, x)
  <2>1. known'[r][x] = known[r][x] /\ known[r][x] # Unknown
    BY <1>6
  <2>2. /\ \A j \in Replies : LastBears(r, x, j) => Borne(toClient[j], r, x) = known[r][x]
        /\ (\A j \in Replies : ~Bears(toClient[j], r, x)) /\ <<r, x>> \notin dropped
             => Copy(r, x) = known[r][x]
    BY <2>1 DEF CopyFollows
  <2>3. ASSUME NEW j \in Replies', LastBears(r, x, j)'
        PROVE  Borne(toClient'[j], r, x) = known'[r][x]
    <3>1. j \in Replies /\ toClient'[j] = toClient[j]
      BY <1>1, <1>4, <1>6, <2>3
    <3>2. LastBears(r, x, j)
      BY <1>1, <1>4, <2>3, <3>1 DEF LastBears
    <3> QED BY <2>1, <2>2, <3>1, <3>2
  <2>4. (\A j \in Replies' : ~Bears(toClient[j], r, x)')
          => \A j \in Replies : ~Bears(toClient[j], r, x)
    BY <1>1, <1>3
  <2> QED BY <2>1, <2>2, <2>3, <2>4, SameCopy DEF SameClient
<1> QED BY <1>5, <1>6

\* The client takes a message, and has what it bears or drops that.
LEMMA TakeCopy ==
  ASSUME TypeOK, CopyFollows, toClient # <<>>, toClient' = Tail(toClient),
         UNCHANGED <<known, session>>, phase # "away", late' = late,
         cur' = cur \/ \A k \in Replies' : toClient'[k].what = "news",
         \A r \in Listed : \A x \in Items :
           \/ <<r, x>> \in dropped'
           \/ /\ Bears(Head(toClient), r, x)
              /\ Copy(r, x)' = Borne(Head(toClient), r, x)
           \/ /\ ~Bears(Head(toClient), r, x) /\ <<r, x>> \notin dropped
              /\ Copy(r, x)' = Copy(r, x) \/ Copy(r, x) = Unknown
  PROVE  CopyFollows'
<1> SUFFICES ASSUME Live, ~late, NEW r \in Listed, NEW x \in Items, known[r][x] # Unknown
             PROVE  /\ \A j \in Replies' :
                         LastBears(r, x, j)' => Borne(toClient'[j], r, x) = known[r][x]
                    /\ (\A j \in Replies' : ~Bears(toClient[j], r, x)')
                         /\ <<r, x>> \notin dropped' => Copy(r, x)' = known[r][x]
  BY DEF CopyFollows, Live
<1>1. \A k \in Replies' : k + 1 \in Replies /\ k + 1 > 1 /\ toClient'[k] = toClient[k + 1]
  BY TakenPlaces
<1>2. 1 \in Replies /\ Head(toClient) = toClient[1]
  BY HeadType
<1>3. /\ \A j \in Replies : LastBears(r, x, j) => Borne(toClient[j], r, x) = known[r][x]
      /\ (\A j \in Replies : ~Bears(toClient[j], r, x)) /\ <<r, x>> \notin dropped
           => Copy(r, x) = known[r][x]
  BY DEF CopyFollows
<1>4. \A j \in Replies' : Bears(toClient[j], r, x)' <=> Bears(toClient'[j], r, x)
  <2>1. CASE cur' = cur
    BY <2>1 DEF Bears, Brings
  <2>2. CASE \A k \in Replies' : toClient'[k].what = "news"
    BY <2>2 DEF Bears, Brings
  <2> QED BY <2>1, <2>2
<1>5. \A k \in Replies : k = 1 \/ (k > 1 /\ k - 1 \in Replies' /\ toClient'[k - 1] = toClient[k])
  <2> SUFFICES ASSUME NEW k \in Replies, k # 1
               PROVE  k > 1 /\ k - 1 \in Replies' /\ toClient'[k - 1] = toClient[k]
    OBVIOUS
  <2>1. k \in 1..Len(toClient) /\ Len(toClient) \in Nat /\ Len(toClient') = Len(toClient) - 1
    BY TurnTypes, TailKeeps DEF Replies
  <2>2. k > 1 /\ k - 1 \in Replies' /\ (k - 1) + 1 = k
    BY <2>1 DEF Replies
  <2> QED BY <1>1, <2>2
<1>6. ASSUME NEW j \in Replies', LastBears(r, x, j)'
      PROVE  Borne(toClient'[j], r, x) = known[r][x]
  <2>1. Bears(toClient'[j], r, x) /\ \A k \in Replies' : k > j => ~Bears(toClient'[k], r, x)
    BY <1>4, <1>6 DEF LastBears
  <2>2. ASSUME NEW k \in Replies, k > j + 1 PROVE ~Bears(toClient[k], r, x)
    <3>1. k # 1 /\ k - 1 > j
      BY <2>2 DEF Replies
    <3> QED BY <1>5, <2>1, <3>1
  <2>3. LastBears(r, x, j + 1) /\ j + 1 \in Replies
    BY <1>1, <2>1, <2>2 DEF LastBears
  <2> QED BY <1>1, <1>3, <2>3
<1>7. ASSUME \A j \in Replies' : ~Bears(toClient[j], r, x)', <<r, x>> \notin dropped'
      PROVE  Copy(r, x)' = known[r][x]
  <2>1. \A k \in Replies : k # 1 => ~Bears(toClient[k], r, x)
    BY <1>4, <1>5, <1>7
  <2>2. CASE Bears(toClient[1], r, x)
    <3>1. LastBears(r, x, 1)
      BY <2>1, <2>2 DEF LastBears, Replies
    <3>2. Borne(toClient[1], r, x) = known[r][x]
      BY <1>2, <1>3, <3>1
    <3> QED BY <1>2, <1>7, <2>2, <3>2
  <2>3. CASE ~Bears(toClient[1], r, x)
    <3>1. /\ Copy(r, x)' = Copy(r, x) \/ Copy(r, x) = Unknown
          /\ <<r, x>> \notin dropped
      BY <1>2, <1>7, <2>3
    <3>2. Copy(r, x) = known[r][x]
      BY <1>3, <2>1, <2>3, <3>1
    <3> QED BY <3>1, <3>2
  <2> QED BY <2>2, <2>3
<1> QED BY <1>6, <1>7

\* What the session does to the socket and to what it told goes together.
LEMMA SessionCopy ==
  ASSUME TypeOK, TypeOK', KnownSubscribed, Shape, Pairs, CopyFollows, SameClient, Session
  PROVE  CopyFollows'
<1>1. CASE ReadHead \/ Skip
  BY <1>1, QuietCopy DEF ReadHead, Skip, Live
<1>2. \A what \in {"result", "error"} : \A i : \A r, x : ~Bears(Plain(what, i), r, x)
  BY DEF Bears, Brings, Plain
<1>3. CASE ReadRemainder
  <2>1. UNCHANGED known /\ Live' = Live /\ (Write(Plain("error", 0)) \/ UNCHANGED toClient)
    BY <1>3 DEF ReadRemainder, Live
  <2> QED BY <1>2, <2>1, QuietCopy, WriteCopy
<1>4. CASE HandleRequest
  <2>1. Live
    BY <1>4 DEF Live, HandleRequest, Reads, ListRigs, GetStatus, Subscribe, Unsubscribe,
                GetCapabilities, Refuse, Execute, ExecutePanics
  <2>2. CASE UNCHANGED <<toClient, known>>
    BY <2>1, <2>2, QuietCopy
  <2>3. ASSUME NEW m \in Reply, Write(m),
               m.what = "rigs" => Head(toServer).request.ask.method = "list_rigs",
               m.what = "values" => Head(toServer).request.ask.method = "get_status",
               \A r \in Listed : \A x \in Items : known'[r][x] # Unknown =>
                 known'[r][x] =
                   IF m.what = "rigs" /\ x = Connection THEN m.rigs[r]
                   ELSE IF m.what = "values" /\ r = Head(toServer).request.ask.rig /\ x \in Fields
                        THEN m.values[x]
                        ELSE known[r][x]
        PROVE  CopyFollows'
    <3>1. ASSUME phase # "away", ~late, m.what = "values"
          PROVE  Head(toServer).request.ask.rig = cur
      <4>1. toServer # <<>> /\ toServer' = Tail(toServer) /\ Head(toServer) = toServer[1]
            /\ 1 \in Lines
        BY <1>4, Answering, TailKeeps
      <4>2. phase # "ready"
        BY <2>3, <3>1, <4>1 DEF Pairs, AnswersFit
      <4>3. phase \in InitPhases
        BY <3>1, <4>2 DEF Shape, ClientTypeOK
      <4>4. Head(toServer).request = TheRequest
        BY <3>1, <4>1, <4>3, RequestLeft DEF Pairs, OneAtATime
      <4> QED BY <2>3, <3>1, <4>3, <4>4, AskedFacts DEF TheRequest
    <3>2. m.what # "news"
      BY DEF Reply
    <3>3. \A r \in Listed : \A x \in Items :
            /\ Bears(m, r, x) <=> \/ m.what = "rigs" /\ x = Connection
                                  \/ m.what = "values" /\ r = cur /\ x \in Fields
            /\ Borne(m, r, x) = IF m.what = "rigs" THEN m.rigs[r] ELSE m.values[x]
      BY <3>2 DEF Bears, Brings, Borne
    <3>4. phase # "away" /\ Live /\ ~late =>
            \A r \in Listed : \A x \in Items : known'[r][x] # Unknown =>
              known'[r][x] = IF Bears(m, r, x) THEN Borne(m, r, x) ELSE known[r][x]
      BY <2>3, <3>1, <3>3
    <3> QED BY <2>1, <2>3, <3>4, WriteCopy
  <2> QED BY <1>4, <2>2, <2>3, Answering
<1>5. CASE ExecuteDone
  <2>1. UNCHANGED known /\ Live
        /\ \E what \in {"result", "error"} : Write(Plain(what, executing.id))
    BY <1>5 DEF ExecuteDone
  <2> QED BY <1>2, <2>1, WriteCopy
<1>6. CASE Notify
  <2> DEFINE h == Head(notices)
             n == [what |-> "news", rig |-> h.rig, news |-> Filtered(h)]
  <2>1. Live /\ Live'
    BY <1>6 DEF Notify, Live
  <2>2. CASE Filtered(h) = NoNews
    BY <1>6, <2>1, <2>2, QuietCopy DEF Notify
  <2>3. CASE Filtered(h) # NoNews
    <3>1. /\ Write(n) /\ n.what = "news" /\ n.rig = h.rig /\ n.news = Filtered(h)
          /\ known' = [known EXCEPT ![h.rig] = [x \in Items |->
               IF Filtered(h)[x] = None THEN @[x] ELSE Filtered(h)[x]]]
      BY <1>6, <2>3 DEF Notify
    <3>2. h.rig \in Rigs
      <4>1. notices \in Seq(Message) /\ notices # <<>>
        BY <1>6 DEF Notify, TypeOK
      <4>2. h \in Message
        BY <4>1
      <4> HIDE DEF h
      <4> QED BY <4>2 DEF Message
    <3> HIDE DEF h, n
    <3>3. \A r \in Rigs : \A x \in Items :
            known'[r][x] = IF r = h.rig /\ Filtered(h)[x] # None THEN Filtered(h)[x]
                           ELSE known[r][x]
      BY <3>1, <3>2 DEF TypeOK
    <3>4. \A r, x : /\ Bears(n, r, x) <=> h.rig = r /\ Filtered(h)[x] # None
                    /\ Borne(n, r, x) = Filtered(h)[x]
      BY <3>1 DEF Bears, Brings, Tells, Borne
    <3>5. \A r \in Listed : \A x \in Items : known'[r][x] # Unknown =>
            known'[r][x] = IF Bears(n, r, x) THEN Borne(n, r, x) ELSE known[r][x]
      BY <3>3, <3>4, ConstantFacts
    <3> QED BY <2>1, <3>1, <3>5, WriteCopy
  <2> QED BY <2>2, <2>3
<1>7. CASE SessionEnd
  BY <1>7 DEF SessionEnd, CopyFollows, Live
<1> QED BY <1>1, <1>3, <1>4, <1>5, <1>6, <1>7 DEF Session

\* What the client has once a rig is done.
LEMMA AddRigCopy ==
  ASSUME Shape, NEW values, AddRig(values), NEW r \in Listed, NEW x \in Items
  PROVE  /\ Copy(r, x)' = IF r = cur /\ x \in Fields THEN values[x] ELSE Copy(r, x)
         /\ x \in Fields => Copy(cur, x) = Unknown
<1> DEFINE left == [i \in DOMAIN todo \ {cur} |-> todo[i]]
           done == [i \in DOMAIN infos \cup {cur} |->
                IF i \in DOMAIN infos THEN infos[i] ELSE
                  [y \in Items |-> IF y = Connection THEN todo[cur] ELSE values[y]]]
<1>1. /\ DOMAIN todo \cup DOMAIN infos = Listed /\ DOMAIN todo \cap DOMAIN infos = {}
      /\ cur \in DOMAIN todo /\ phase = "status" /\ Listed \subseteq Rigs
  BY ConstantFacts DEF Shape, InitConsistent, AddRig
<1>2. x \in Fields <=> x # Connection
  BY ConstantFacts DEF Items
<1>3. Copy(r, x) = IF r \in DOMAIN infos THEN infos[r][x]
                   ELSE IF x = Connection THEN todo[r] ELSE Unknown
  BY <1>1 DEF Copy
<1>4. x \in Fields => Copy(cur, x) = Unknown
  BY <1>1, <1>2 DEF Copy
<1>5. /\ DOMAIN left = DOMAIN todo \ {cur} /\ \A i \in DOMAIN left : left[i] = todo[i]
      /\ DOMAIN done = DOMAIN infos \cup {cur}
      /\ \A i \in DOMAIN infos : done[i] = infos[i]
      /\ done[cur][x] = IF x = Connection THEN todo[cur] ELSE values[x]
  BY <1>1
<1>6. AskNext(left, done)
  BY DEF AddRig
<1> HIDE DEF left, done
<1>7. CASE phase' = "caps" /\ todo' = left /\ infos' = done
  <2>1. Copy(r, x)' = IF r \in DOMAIN done THEN done[r][x]
                      ELSE IF r \in DOMAIN left /\ x = Connection THEN left[r] ELSE Unknown
    BY <1>7 DEF Copy
  <2>2. CASE r = cur
    BY <1>1, <1>2, <1>3, <1>4, <1>5, <2>1, <2>2
  <2>3. CASE r \in DOMAIN infos
    BY <1>1, <1>3, <1>4, <1>5, <2>1, <2>3
  <2>4. CASE r \in DOMAIN todo /\ r # cur
    BY <1>1, <1>3, <1>4, <1>5, <2>1, <2>4
  <2> QED BY <1>1, <2>2, <2>3, <2>4
<1>8. CASE DOMAIN left = {} /\ phase' = "ready" /\ ShowRigs(done)
  <2>1. DOMAIN done = Listed /\ DOMAIN todo = {cur}
    BY <1>1, <1>5, <1>8
  <2>2. Copy(r, x)' = done[r][x]
    BY <1>1, <1>8, <2>1 DEF Copy, ShowRigs
  <2> QED BY <1>1, <1>2, <1>3, <1>4, <1>5, <2>1, <2>2
<1> QED BY <1>6, <1>7, <1>8 DEF AskNext

\* Init takes a response.
LEMMA ResponseCopy ==
  ASSUME TypeOK, Shape, Pairs, CopyFollows, TakeResponse
  PROVE  CopyFollows'
<1> DEFINE m == Head(toClient)
<1>1. /\ toClient # <<>> /\ toClient' = Tail(toClient) /\ UNCHANGED <<known, session>>
      /\ m.what # "news" /\ phase # "away" /\ late' = late /\ phase \in InitPhases
  BY DEF TakeResponse, Receives, ClientReceive, Listing, Capabilities, Subscribed, StatusTaken,
         AddRig, InitPhases
<1> SUFFICES ASSUME ~late PROVE CopyFollows'
  BY <1>1 DEF CopyFollows
<1>2. m \in Reply \cup Notification /\ m = toClient[1] /\ 1 \in Replies
  BY <1>1, HeadType
<1>3. \A k \in Replies' : toClient'[k].what = "news"
  <2> SUFFICES ASSUME NEW k \in Replies', toClient'[k].what # "news" PROVE FALSE
    OBVIOUS
  <2>1. k + 1 \in Replies /\ toClient[k + 1].what # "news"
    BY <1>1, TakenPlaces
  <2>2. k + 1 # 1
    BY DEF Replies
  <2> QED BY <1>1, <1>2, <2>1, <2>2 DEF Pairs, OneAtATime, IsResponse
<1>4. /\ m.what = "rigs" => phase = "list"
      /\ m.what = "values" => phase = "status"
  BY <1>1, <1>2 DEF Pairs, AnswersFit
<1>5. \A r \in Listed : \A x \in Items :
        /\ Bears(m, r, x) <=> \/ m.what = "rigs" /\ x = Connection
                              \/ m.what = "values" /\ r = cur /\ x \in Fields
        /\ Borne(m, r, x) = IF m.what = "rigs" THEN m.rigs[r] ELSE m.values[x]
  BY <1>1 DEF Bears, Brings, Borne
<1> HIDE DEF m
<1>6. ASSUME \A r \in Listed : \A x \in Items :
               \/ <<r, x>> \in dropped'
               \/ Bears(m, r, x) /\ Copy(r, x)' = Borne(m, r, x)
               \/ /\ ~Bears(m, r, x) /\ <<r, x>> \notin dropped
                  /\ Copy(r, x)' = Copy(r, x) \/ Copy(r, x) = Unknown
      PROVE  CopyFollows'
  BY <1>1, <1>3, <1>6, TakeCopy DEF m
<1>7. CASE Listing(m)
  <2>1. /\ phase = "list" /\ m.what = "rigs" /\ m.rigs \in [Listed -> BOOLEAN] /\ Listed # {}
        /\ todo = NoEntries /\ infos = NoEntries
        /\ dropped' = dropped \ (Listed \X {Connection})
    BY <1>2, <1>7, MessageShape DEF Listing, Shape, InitConsistent
  <2>2. phase' = "caps" /\ todo' = m.rigs /\ infos' = NoEntries
    BY <1>7, <2>1 DEF Listing, AskNext
  <2>3. ASSUME NEW r \in Listed, NEW x \in Items
        PROVE  /\ Copy(r, x)' = IF x = Connection THEN m.rigs[r] ELSE Unknown
               /\ Copy(r, x) = Unknown
    BY <2>1, <2>2, EmptyEntries DEF Copy
  <2>4. ASSUME NEW r \in Listed, NEW x \in Items
        PROVE  \/ <<r, x>> \in dropped'
               \/ Bears(m, r, x) /\ Copy(r, x)' = Borne(m, r, x)
               \/ /\ ~Bears(m, r, x) /\ <<r, x>> \notin dropped
                  /\ Copy(r, x)' = Copy(r, x) \/ Copy(r, x) = Unknown
    BY <1>5, <2>1, <2>3
  <2> QED BY <1>6, <2>4
<1>8. CASE Capabilities(m) \/ Subscribed
  <2>1. phase \in {"caps", "sub"} /\ phase' \in {"status", "sub"}
        /\ UNCHANGED <<todo, infos, dropped>>
    BY <1>8 DEF Capabilities, Subscribed
  <2>2. \A r \in Listed : \A x \in Items : ~Bears(m, r, x) /\ Copy(r, x)' = Copy(r, x)
    BY <1>4, <1>5, <2>1 DEF Copy
  <2> QED BY <1>6, <2>1, <2>2
<1>9. CASE StatusTaken(m)
  <2> DEFINE values == IF m.what = "values" THEN m.values ELSE NoStatus
  <2>1. phase = "status" /\ AddRig(values)
    BY <1>9 DEF StatusTaken, AddRig
  <2>2. dropped' = IF m.what = "values" THEN dropped \ ({cur} \X Fields) ELSE dropped
    BY <1>9 DEF StatusTaken
  <2>3. m.what = "values" => values = m.values
    OBVIOUS
  <2> HIDE DEF values
  <2>4. ASSUME NEW r \in Listed, NEW x \in Items
        PROVE  \/ <<r, x>> \in dropped'
               \/ Bears(m, r, x) /\ Copy(r, x)' = Borne(m, r, x)
               \/ /\ ~Bears(m, r, x) /\ <<r, x>> \notin dropped
                  /\ Copy(r, x)' = Copy(r, x) \/ Copy(r, x) = Unknown
    <3>1. /\ Copy(r, x)' = IF r = cur /\ x \in Fields THEN values[x] ELSE Copy(r, x)
          /\ x \in Fields => Copy(cur, x) = Unknown
      BY <2>1, AddRigCopy
    <3>2. Bears(m, r, x) <=> m.what = "values" /\ r = cur /\ x \in Fields
      BY <1>4, <1>5, <2>1
    <3>3. CASE Bears(m, r, x)
      BY <1>5, <2>3, <3>1, <3>2, <3>3
    <3>4. CASE ~Bears(m, r, x)
      BY <2>2, <3>1, <3>2, <3>4
    <3> QED BY <3>3, <3>4
  <2> QED BY <1>6, <2>4
<1> QED BY <1>7, <1>8, <1>9 DEF TakeResponse, m

\* Every step keeps the copy.
LEMMA CopyStep ==
  ASSUME TypeOK, TypeOK', KnownSubscribed, Shape, Pairs, CopyFollows, [ClientNext]_allVars
  PROVE  CopyFollows'
<1>11. ASSUME NEW r \in Rigs, TellAgain(r) PROVE CopyFollows'
  <2>1. SameClient
    BY <1>11 DEF TellAgain, SameClient
  <2> QED BY <1>11, <2>1, QuietCopy DEF TellAgain, SetStatus, Live
<1>1. CASE (Devices \/ Server \/ Session) /\ UNCHANGED <<clientVars, runBounds>>
  <2>1. SameClient
    BY <1>1 DEF SameClient
  <2>2. CASE Devices \/ TakeMessage \/ FallBehind
    BY <2>1, <2>2, QuietCopy DEF Devices, ConnectionChange, SetStatus, StatusChange, StatusTell, TakeMessage,
                                 FallBehind, Live
  <2>3. CASE Publish
    <3>1. /\ \A r \in Rigs : \A x \in Items : known'[r][x] \in {known[r][x], Unknown}
          /\ UNCHANGED <<toClient, session>>
      BY <2>3 DEF Publish, TypeOK
    <3> QED BY <2>1, <3>1, QuietCopy, ConstantFacts DEF Live
  <2> QED BY <1>1, <2>1, <2>2, <2>3, SessionCopy DEF Server
<1>2. CASE ServerExit
  BY <1>2 DEF ServerExit, CopyFollows, Live
<1>3. CASE Connect
  <2>1. \A r \in Rigs : \A x \in Items : known'[r][x] = Unknown
    BY <1>3 DEF Connect, Accept, NothingKnown
  <2> QED BY <2>1, ConstantFacts DEF CopyFollows
<1>4. CASE SendRequest \/ \E r \in Rigs : Command(r)
  BY <1>4, QuietCopy DEF SendRequest, Command, ClientSend, SameClient, Live
<1>5. CASE TakeResponse
  BY <1>5, ResponseCopy
<1>6. CASE Discard
  <2> DEFINE m == Head(toClient)
  <2>1. /\ toClient # <<>> /\ toClient' = Tail(toClient) /\ m.what = "news"
        /\ UNCHANGED <<known, session, phase, cur, todo, infos, shown, late>> /\ phase # "away"
        /\ dropped' = dropped \cup Told(m)
    BY <1>6 DEF Discard, Receives, ClientReceive, InitPhases
  <2> HIDE DEF m
  <2>2. ASSUME NEW r \in Listed, NEW x \in Items
        PROVE  <<r, x>> \in dropped' \/ (~Bears(m, r, x) /\ Copy(r, x)' = Copy(r, x)
                                         /\ <<r, x>> \notin dropped)
    BY <2>1, ConstantFacts DEF Told, Bears, Brings, Copy
  <2> QED BY <2>1, <2>2, TakeCopy DEF m
<1>7. CASE Apply
  <2> DEFINE m == Head(toClient)
  <2>1. /\ toClient # <<>> /\ toClient' = Tail(toClient) /\ phase = "ready"
        /\ UNCHANGED <<known, session, phase, cur, late>>
        /\ IF m.what = "news"
           THEN /\ shown' = IF m.rig \in inView
                            THEN [shown EXCEPT ![m.rig] = Applied(@, m.news)] ELSE shown
                /\ dropped' = dropped \ Told(m)
           ELSE UNCHANGED <<shown, dropped>>
    BY <1>7 DEF Apply, Receives, ClientReceive
  <2> SUFFICES ASSUME ~late PROVE CopyFollows'
    BY <2>1 DEF CopyFollows
  <2>2. m = toClient[1] /\ 1 \in Replies
    BY <2>1, HeadType
  <2>3. m.what \notin {"rigs", "values"} /\ inView = Listed
    BY <2>1, <2>2 DEF Pairs, AnswersFit, Shape, InitConsistent
  <2> HIDE DEF m
  <2>4. ASSUME NEW r \in Listed, NEW x \in Items
        PROVE  \/ <<r, x>> \in dropped'
               \/ Bears(m, r, x) /\ Copy(r, x)' = Borne(m, r, x)
               \/ ~Bears(m, r, x) /\ Copy(r, x)' = Copy(r, x) /\ <<r, x>> \notin dropped
    <3>1. Copy(r, x) = shown[r][x] /\ Copy(r, x)' = shown'[r][x]
      BY <2>1 DEF Copy
    <3>2. Bears(m, r, x) <=> m.what = "news" /\ Tells(m, r, x)
      BY <2>3 DEF Bears, Brings
    <3>3. CASE m.what # "news"
      BY <2>1, <3>1, <3>2, <3>3
    <3>4. CASE m.what = "news"
      <4>1. r \in Rigs /\ x \in Items /\ shown \in [Rigs -> [Items -> Copies]]
        BY ConstantFacts DEF Shape, ClientTypeOK, Copies
      <4>2. shown'[r][x] = IF Tells(m, r, x) THEN m.news[x] ELSE shown[r][x]
        BY <2>1, <2>3, <3>4, <4>1 DEF Tells, Applied
      <4>3. <<r, x>> \in dropped' <=> <<r, x>> \in dropped /\ ~Tells(m, r, x)
        BY <2>1, <3>4, <4>1 DEF Told
      <4> QED BY <3>1, <3>2, <3>4, <4>2, <4>3 DEF Borne
    <3> QED BY <3>3, <3>4
  <2> QED BY <2>1, <2>4, TakeCopy DEF m
<1>8. CASE phase' = "away" \/ late'
  BY <1>8 DEF CopyFollows
<1>9. CASE ListingFails \/ GiveUp \/ Disconnect
  BY <1>8, <1>9 DEF ListingFails, GiveUp, Fail, AddRig, Disconnect
<1>10. CASE UNCHANGED allVars
  BY <1>10, QuietCopy DEF SameClient, Live
<1> QED BY <1>1, <1>2, <1>3, <1>4, <1>5, <1>6, <1>7, <1>9, <1>10, <1>11
        DEF ClientNext, Client, Environment

\* In the loop only notifications bear an item: ViewFollows.
LEMMA CopyEnough == Shape /\ Pairs /\ CopyFollows => ViewFollows
<1> SUFFICES ASSUME Shape, Pairs, CopyFollows, phase = "ready", Live, ~late,
                    NEW r \in inView, NEW x \in Items,
                    known[r][x] # Unknown, <<r, x>> \notin dropped
             PROVE  /\ \A j \in 1..Len(toClient) :
                         Newest(r, x, j) => toClient[j].news[x] = known[r][x]
                    /\ (\A j \in 1..Len(toClient) : ~Brings(toClient[j], r, x))
                         => shown[r][x] = known[r][x]
  BY DEF ViewFollows
<1>1. r \in Listed
  BY DEF Shape, InitConsistent
<1>2. \A j \in Replies : Bears(toClient[j], r, x) <=> Brings(toClient[j], r, x)
  BY DEF Pairs, AnswersFit, Bears
<1>3. \A j \in Replies : LastBears(r, x, j) <=> Newest(r, x, j)
  BY <1>2 DEF LastBears, Newest, Replies
<1>4. \A j \in Replies : Newest(r, x, j) => Borne(toClient[j], r, x) = toClient[j].news[x]
  BY DEF Newest, Brings, Borne
<1>5. Copy(r, x) = shown[r][x]
  BY DEF Copy
<1> QED BY <1>1, <1>2, <1>3, <1>4, <1>5 DEF CopyFollows, Replies

-----------------------------------------------------------------------------
(* The theorems.                                                           *)

\* The start, and every step, satisfy the invariant.
LEMMA ClientInvInit == ClientInit => ClientInv
<1> SUFFICES ASSUME ClientInit PROVE ClientInv
  OBVIOUS
<1>1. TypeOK /\ Follows
  BY TypeInit, FollowsInit DEF ClientInit
<1>2. phase = "away" /\ InitPhases = {"list", "caps", "sub", "status"}
  BY DEF ClientInit, InitPhases
<1>3. OneAtATime /\ AnswersFit /\ CopyFollows
  BY <1>2 DEF OneAtATime, AnswersFit, CopyFollows
<1> QED BY <1>1, <1>3, ShapeInit DEF ClientInv, Shape

LEMMA ClientInvStep == ClientInv /\ [ClientNext]_allVars => ClientInv'
<1> SUFFICES ASSUME ClientInv, [ClientNext]_allVars PROVE ClientInv'
  OBVIOUS
<1>1. TypeOK /\ Follows /\ Shape /\ Pairs /\ CopyFollows /\ ClientTypeOK /\ KnownSubscribed
  BY DEF ClientInv, Shape, Pairs, Follows
<1>2. TypeOK' /\ Follows'
  BY <1>1, ServerKept
<1>3. Shape'
  BY <1>1, ShapeStep
<1>4. Pairs'
  BY <1>1, <1>2, PairsStep
<1>5. CopyFollows'
  BY <1>1, <1>2, CopyStep
<1> QED BY <1>2, <1>3, <1>4, <1>5 DEF ClientInv, Shape, Pairs

LEMMA ClientInvariant == ClientSpec => []ClientInv
<1> QED BY ClientInvInit, ClientInvStep, PTL DEF ClientSpec

\* Every variable of the client and of its server keeps its type.
THEOREM ClientTypes == ClientSpec => [](TypeOK /\ ClientTypeOK)
<1>1. ClientInv => TypeOK /\ ClientTypeOK
  BY DEF ClientInv
<1> QED BY <1>1, ClientInvariant, PTL

\* As long as no request was given up, a response on its way is the one to the request
\* init waits for, for any rigs, fields and bounds: ResponsesPair.
THEOREM ClientResponsesPair == ClientSpec => []ResponsesPair
<1>1. ClientInv => ResponsesPair
  BY PairsEnough DEF ClientInv, Pairs
<1> QED BY <1>1, ClientInvariant, PTL

\* The view becomes what the session told once the notifications in the socket are
\* applied, but for items whose newest news init discarded: ViewFollows.
THEOREM ClientViewFollows == ClientSpec => []ViewFollows
<1>1. ClientInv => ViewFollows
  BY CopyEnough DEF ClientInv, Shape, Pairs
<1> QED BY <1>1, ClientInvariant, PTL

\* No rig is shown as connected until init succeeds again: LostShown.
THEOREM ClientLostShown == ClientSpec => []LostShown
<1>1. ClientInv => LostShown
  BY DEF ClientInv
<1> QED BY <1>1, ClientInvariant, PTL

\* What the session told this client becomes what the devices last said, also when the
\* server process ends and starts again: SessionFollows under ClientSpec.
THEOREM ClientSessionFollows == ClientSpec => []SessionFollows
<1>1. ClientInv => SessionFollows
  BY DEF ClientInv, Follows
<1> QED BY <1>1, ClientInvariant, PTL
=============================================================================
