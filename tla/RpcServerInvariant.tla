------------------------- MODULE RpcServerInvariant -------------------------
(***************************************************************************)
(* The inductive invariant of RpcServer, in the parts its proofs use.      *)
(***************************************************************************)
EXTENDS RpcServer

\* A connection message says only that, and of the items a device announces only
\* those of its own kind.
TellingConsistent ==
  \A r \in Rigs : \A x \in Items :
    telling[r][x] # None => x # Connection /\ telling[r][x] = Truth(r, x)

\* A field of which something was told is subscribed.
KnownSubscribed ==
  \A r \in Rigs : \A f \in Fields : known[r][f] # Unknown => f \in subs[r]

\* The messages in hand and on their way to the session end with rigs_state.
StateIsNewest ==
  \A r \in Listed :
    /\ Latest(publishing, r, Connection, rigsState[r]) = rigsState[r]
    /\ Live => Latest(publishing, r, Connection,
                 Latest(notices, r, Connection, rigsState[r])) = rigsState[r]

\* What is on its way ends with what the devices last said.
TruthIsNewest ==
  KeepsUp =>
    \A r \in Rigs : \A x \in Items :
      telling[r][x] = None =>
        /\ Latest(bus, r, x, Latest(publishing, r, x, Truth(r, x))) = Truth(r, x)
        /\ Live => Arriving(r, x, Truth(r, x)) = Truth(r, x)

Follows ==
  /\ TellingConsistent
  /\ KnownSubscribed
  /\ StateIsNewest
  /\ StateFollows
  /\ TruthIsNewest
  /\ SessionFollows

IInv == TypeOK /\ Follows

-----------------------------------------------------------------------------
(* The order of the answers, place by place                                *)

Replies == 1..Len(toClient)
Lines == 1..Len(toServer)

\* Ids are given in turn, and only one that executes does not read the next.
IdsGiven ==
  /\ \A j \in Replies : AnswerId(toClient[j]) <= requests
  /\ executing.id <= requests
  /\ \A k \in Lines : toServer[k].request.id <= requests
  /\ session = "open" => executing = NoRequest

RepliesInTurn ==
  \A j \in Replies :
    /\ \A k \in Replies : j < k => Before(AnswerId(toClient[j]), AnswerId(toClient[k]))
    /\ Before(AnswerId(toClient[j]), executing.id)
    /\ \A k \in Lines : Before(AnswerId(toClient[j]), LineId(toServer[k]))

LinesInTurn ==
  \A k \in Lines :
    /\ Before(executing.id, LineId(toServer[k]))
    /\ \A j \in Lines : j < k => Before(LineId(toServer[j]), LineId(toServer[k]))

InTurn == IdsGiven /\ RepliesInTurn /\ LinesInTurn
=============================================================================
