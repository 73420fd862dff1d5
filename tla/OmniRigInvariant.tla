--------------------------- MODULE OmniRigInvariant ---------------------------
(***************************************************************************)
(* Why a slot follows its rig, and a client its slot: what is on its way   *)
(* to the provider, and where the event is that tells a client of a change.*)
(***************************************************************************)
EXTENDS OmniRig

-----------------------------------------------------------------------------
(* From the rigs to the slots                                              *)

Places == 1..Len(bus)

\* The k-th message on its way has a new value of the variable of the rig.
Has(k, r, f) == bus[k].rig = r /\ bus[k].what = "values" /\ f \in DOMAIN bus[k].values

IsNewest(k, r, f) == Has(k, r, f) /\ \A j \in Places : j > k => ~ Has(j, r, f)

Heard(r, f) == \E k \in Places : Has(k, r, f)

\* The provider has missed nothing so far.
Hears == serving /\ ~ lagged

BusIsSequence == bus \in Seq({bus[k] : k \in Places})

SlotsCached == DOMAIN cached = Slots /\ \A s \in Slots : "values" \in DOMAIN cached[s]

\* What is on its way ends with what the rig last published.
NewestIsShown ==
  Hears => \A r \in Rigs : \A f \in Fields : \A k \in Places :
             IsNewest(k, r, f) => bus[k].values[f] = shown[r][f]

\* A variable of which nothing is on its way reads as last published.
RestFollowed ==
  Hears => \A s \in Slots : RigOf[s] \in Rigs =>
             \A f \in Followed :
               Heard(RigOf[s], f) \/ cached[s].values[f] = Narrow(f, shown[RigOf[s]][f])

IInv ==
  DOMAIN shown = Rigs /\ BusIsSequence /\ SlotsCached /\ NewestIsShown /\ RestFollowed

-----------------------------------------------------------------------------
(* The COM thread                                                          *)

QueuePlaces == 1..Len(queue)
DrainedPlaces == 1..Len(drained)
TodoPlaces == 1..Len(todo)

QueuesAreSequences ==
  /\ queue \in Seq({queue[k] : k \in QueuePlaces})
  /\ drained \in Seq({drained[k] : k \in DrainedPlaces})
  /\ todo \in Seq({todo[k] : k \in TodoPlaces})
  /\ sinkList \in Seq(Clients)

ClientTypes ==
  /\ sink \in [Clients -> {"none", "pending", "taken", "advised"}]
  /\ object \in [Clients -> {"none", "created", "released"}]
  /\ alive \in [Clients -> BOOLEAN] /\ toRead \in [Clients -> SUBSET Watched]
  /\ DOMAIN view = Clients /\ silenced \subseteq Clients
  /\ \A c \in Clients : object[c] = "none" => sink[c] = "none"

\* What there is to do is at a client; the first loop unmarshals, and drains then.
WorkConsistent ==
  /\ \A k \in QueuePlaces : queue[k].what = "register" => queue[k].client \in Clients
  /\ \A k \in DrainedPlaces : drained[k].what = "register" => drained[k].client \in Clients
  /\ \A k \in TodoPlaces :
       todo[k].at \in Clients /\ (todo[k].do = "unmarshal" <=> undrained)
  /\ undrained \in BOOLEAN /\ (undrained => drained = <<>> /\ out.what # "invoke")

\* A sink is between the pending list and the table only while it is unmarshalled.
OutConsistent ==
  /\ out = NoCall \/ (out.what \in {"unmarshal", "invoke"} /\ out.at \in Clients)
  /\ \A c \in Clients : sink[c] = "taken" <=> out.what = "unmarshal" /\ out.at = c

\* What the provider tells is no registration.
TellsNoObject == telling.what \in {"none", "status", "params"}

ComInv ==
  QueuesAreSequences /\ ClientTypes /\ WorkConsistent /\ OutConsistent /\ UnadvisedIsSilent

-----------------------------------------------------------------------------
(* From the slots to the clients                                           *)

\* A client whom ViewFollows is about, or will be
Awaits(c) == alive[c] /\ object[c] = "created" /\ sink[c] # "none" /\ c \notin missed

Behind(c, w) ==
  ~ (view[c][w] = Getter(w[2], w[1], cached[w[1]]) \/ (w[2] = "Status" /\ w[1] \in flipped))

\* The event has the client read this again.
Names(e, w) == e.what \in {"status", "params"} /\ w \in Told(e)

RegistersAt(s, k, c) == s[k].what = "register" /\ s[k].client = c

\* The sinks of the client are in the list when the queue is drained next.
Enlisted(c) == Listed(c) \/ \E k \in DrainedPlaces : RegistersAt(drained, k, c)

\* Its sink is in the table when the next event of those drained is fired.
Ready(c) ==
  /\ Listed(c)
  /\ \/ sink[c] \in {"taken", "advised"}
     \/ \E k \in TodoPlaces : todo[k].do = "register" /\ todo[k].at = c

\* Where an event is that the client will be told of
QueuedFor(c, w) ==
  \E k \in QueuePlaces :
    Names(queue[k], w) /\ (Enlisted(c) \/ \E j \in QueuePlaces : j < k /\ RegistersAt(queue, j, c))
DrainedFor(c, w) ==
  \E k \in DrainedPlaces :
    Names(drained[k], w)
      /\ (Ready(c) \/ \E j \in DrainedPlaces : j < k /\ RegistersAt(drained, j, c))
FiredFor(c, w) ==
  sink[c] = "advised"
    /\ \E k \in TodoPlaces : todo[k].do = "fire" /\ todo[k].at = c /\ Names(todo[k].event, w)
InvokedFor(c, w) == out.what = "invoke" /\ out.at = c /\ Names(out.event, w)

WillBeTold(c, w) ==
  \/ Names(telling, w) \/ QueuedFor(c, w) \/ DrainedFor(c, w) \/ FiredFor(c, w)
  \/ InvokedFor(c, w)

\* What a client shows is as the slot has it, or it will be told, or it will read it anyway.
ViewsFollow ==
  \A c \in Clients : Awaits(c) => \A w \in Watched \ toRead[c] : Behind(c, w) => WillBeTold(c, w)

\* A client's object is in the list, or on its way into it.
ObjectsEnlisted ==
  \A c \in Clients :
    object[c] = "created" => Enlisted(c) \/ \E k \in QueuePlaces : RegistersAt(queue, k, c)

\* A pending sink is unmarshalled before the queue is drained.
PendingUnmarshalled ==
  \A c \in Clients : Awaits(c) /\ sink[c] = "pending" /\ undrained /\ Listed(c) =>
    \E k \in TodoPlaces : todo[k].at = c

\* The messages on their way have readings.
TextsKnown ==
  \A k \in Places : bus[k].what = "values" =>
    \A f \in Texts \cap Followed : f \in DOMAIN bus[k].values => ParamsOf(f, bus[k].values[f]) # {}

ClientsFollow == ObjectsEnlisted /\ PendingUnmarshalled /\ ViewsFollow

ViewInv == IInv /\ ComInv /\ TellsNoObject /\ TextsKnown /\ ClientsFollow
=============================================================================
