------------------------- MODULE RpcClientInvariant -------------------------
(***************************************************************************)
(* The inductive invariant of RpcClient, in the parts its proofs use.      *)
(***************************************************************************)
EXTENDS RpcClient, RpcServerInvariant

SomeRigs == SUBSET Listed

ClientTypeOK ==
  /\ phase \in InitPhases \cup {"away", "ready"} /\ waiting \in BOOLEAN
  /\ \E S \in SomeRigs : todo \in [S -> BOOLEAN]
  /\ \E S \in SomeRigs : infos \in [S -> [Items -> Values \cup BOOLEAN \cup {None}]]
  /\ cur \in Listed \cup {None} /\ caps \in SUBSET Fields
  /\ inView \in SomeRigs
  /\ shown \in [Rigs -> [Items -> Values \cup BOOLEAN \cup {None}]]
  /\ late \in BOOLEAN /\ dropped \in SUBSET (Rigs \X Items)

\* The rigs init still has to ask about and those it is done with are the listed ones;
\* in the loop all of them have a tab.
InitConsistent ==
  /\ phase \in {"caps", "sub", "status"} =>
       /\ DOMAIN todo \cup DOMAIN infos = Listed /\ DOMAIN todo \cap DOMAIN infos = {}
       /\ cur \in DOMAIN todo
  /\ phase \in {"away", "list", "ready"} => todo = NoEntries /\ infos = NoEntries
  /\ phase \in {"away", "ready"} => ~waiting
  /\ phase = "ready" => inView = Listed

IsResponse(m) == m.what # "news"

\* The line of the request init waits for, in one piece or two, or what is left of it.
TheRequest == [id |-> requests, ask |-> Asked]
ThePart(part) == [part |-> part, request |-> TheRequest]
RequestUnread ==
  toServer \in {<<ThePart("whole")>>, <<ThePart("head"), ThePart("tail")>>, <<ThePart("tail")>>}

\* Init has one request under way, and it has not been read or its response may be
\* on its way.
OneAtATime ==
  phase \in InitPhases /\ ~late =>
    /\ executing = NoRequest
    /\ toServer = <<>> \/ (waiting /\ RequestUnread)
    /\ \A j, k \in Replies : IsResponse(toClient[j]) /\ IsResponse(toClient[k]) => j = k
    /\ \A j \in Replies : IsResponse(toClient[j]) =>
         waiting /\ toServer = <<>> /\ toClient[j].id \in {0, requests}

\* What a response that has something to say is the answer to.
AnswersFit ==
  (phase # "away" /\ ~late) =>
    /\ phase = "ready" => \A k \in Lines : toServer[k].request.ask.method = "execute_command"
    /\ \A j \in Replies :
         /\ toClient[j].what = "rigs" => phase = "list"
         /\ toClient[j].what = "values" => phase = "status"

\* Message m has a value of item x of rig r.
Bears(m, r, x) ==
  \/ Brings(m, r, x)
  \/ m.what = "rigs" /\ r \in Listed /\ x = Connection
  \/ m.what = "values" /\ r = cur /\ x \in Fields
Borne(m, r, x) ==
  IF m.what = "news" THEN m.news[x] ELSE IF m.what = "rigs" THEN m.rigs[r] ELSE m.values[x]
LastBears(r, x, j) ==
  /\ Bears(toClient[j], r, x)
  /\ \A k \in Replies : k > j => ~Bears(toClient[k], r, x)

\* What the client has of an item.
Copy(r, x) ==
  IF phase = "ready" THEN shown[r][x]
  ELSE IF r \in DOMAIN infos THEN infos[r][x]
  ELSE IF r \in DOMAIN todo /\ x = Connection THEN todo[r] ELSE Unknown

\* The last message in the socket that bears an item has what the session told of it;
\* where there is none the client has that already, or dropped it.
CopyFollows ==
  phase # "away" /\ Live /\ ~late =>
    \A r \in Listed : \A x \in Items :
      known[r][x] # Unknown =>
        /\ \A j \in Replies : LastBears(r, x, j) => Borne(toClient[j], r, x) = known[r][x]
        /\ (\A j \in Replies : ~Bears(toClient[j], r, x)) /\ <<r, x>> \notin dropped
             => Copy(r, x) = known[r][x]

ClientInv ==
  /\ TypeOK /\ Follows
  /\ ClientTypeOK /\ InitConsistent /\ OneAtATime /\ AnswersFit /\ CopyFollows /\ LostShown
=============================================================================
