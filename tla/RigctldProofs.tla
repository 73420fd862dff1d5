---------------------------- MODULE RigctldProofs ----------------------------
(***************************************************************************)
(* The status of the rigctld server follows the rigs, and what it          *)
(* acknowledges is queued for them, for any number of connections and      *)
(* rigs, any lines, and any capacity of the queue and the broadcast.       *)
(***************************************************************************)
EXTENDS Rigctld, SequenceFacts, FiniteSetTheorems, TLAPS

Places == 1..Len(bus)

\* The last message on its way that has the variable
IsNewest(f, k) == f \in DOMAIN bus[k] /\ \A j \in Places : j > k => f \notin DOMAIN bus[j]

Heard(f) == \E k \in Places : f \in DOMAIN bus[k]

BusIsSequence == bus \in Seq({bus[k] : k \in Places})

\* A rig publishes a variable with its kind.
KindsKept == \A k \in Places : \A f \in Fields \cap DOMAIN bus[k] : bus[k][f].kind = KindOf[f]

\* What is on its way ends with what was last published.
NewestIsShown == \A f \in Fields : \A k \in Places : IsNewest(f, k) => bus[k][f].text = shown[f]

\* A variable of which nothing is on its way has been followed or was overwritten.
RestFollowed == \A f \in Followed : Heard(f) \/ status[f] = shown[f] \/ f \in lost

IInv == BusIsSequence /\ KindsKept /\ NewestIsShown /\ RestFollowed

-----------------------------------------------------------------------------
(* The inductive invariant                                                 *)

\* At the start the status is the default, and so is what the rigs show.
LEMMA FollowsInit == Init => IInv
<1> SUFFICES ASSUME Init PROVE IInv
  OBVIOUS
<1>1. bus = <<>> /\ Len(bus) = 0 /\ status = shown
  BY EmptyBus DEF Init
<1>2. BusIsSequence /\ KindsKept /\ NewestIsShown
  BY <1>1 DEF BusIsSequence, KindsKept, NewestIsShown, Places
<1>3. RestFollowed
  BY <1>1 DEF RestFollowed
<1> QED
  BY <1>2, <1>3 DEF IInv

\* Only the server's receiving and the rigs' polls change what the invariant is about.
LEMMA QuietStep ==
  ASSUME IInv, UNCHANGED <<bus, status, shown, lost>>
  PROVE  IInv'
BY DEF IInv, BusIsSequence, KindsKept, NewestIsShown, RestFollowed, IsNewest, Heard, Places

\* The message received is the oldest one: what it does not have is as before,
\* and what it alone has is what was last published.
LEMMA ReceiveStep ==
  ASSUME IInv, Receive
  PROVE  IInv'
<1>1. /\ bus # <<>> /\ bus' = Tail(bus) /\ status' = Merged(Head(bus))
      /\ shown' = shown /\ lost' = lost
  BY DEF Receive, history
<1>2. /\ Len(bus) \in Nat \ {0} /\ Head(bus) = bus[1] /\ Len(bus') = Len(bus) - 1
      /\ \A k \in 1..Len(bus') : bus'[k] = bus[k + 1]
      /\ bus' \in Seq({bus'[k] : k \in 1..Len(bus')})
  <2>1. bus \in Seq({bus[k] : k \in 1..Len(bus)})
    BY DEF IInv, BusIsSequence, Places
  <2>2. /\ Len(bus) \in Nat \ {0} /\ Head(bus) = bus[1] /\ Len(Tail(bus)) = Len(bus) - 1
        /\ \A k \in 1..Len(Tail(bus)) : Tail(bus)[k] = bus[k + 1]
        /\ Tail(bus) \in Seq({Tail(bus)[k] : k \in 1..Len(Tail(bus))})
    BY <1>1, <2>1, TailPlaces
  <2> QED
    BY <2>2, <1>1, Zenon
<1>3. \A k \in Places' : k + 1 \in Places /\ bus'[k] = bus[k + 1]
  BY <1>2 DEF Places
<1>4. \A k \in Places : k = 1 \/ (k - 1 \in Places' /\ bus'[k - 1] = bus[k])
  BY <1>2 DEF Places
<1>5. BusIsSequence'
  BY <1>2 DEF BusIsSequence, Places
<1>6. KindsKept'
  BY <1>3 DEF IInv, KindsKept
<1>7. NewestIsShown'
  <2> SUFFICES ASSUME NEW f \in Fields, NEW k \in Places', IsNewest(f, k)'
               PROVE  bus'[k][f].text = shown'[f]
    BY DEF NewestIsShown
  <2>1. k \in Nat /\ k + 1 \in Places /\ bus'[k] = bus[k + 1]
    BY <1>2, <1>3 DEF Places
  <2>2. IsNewest(f, k + 1)
    <3>1. f \in DOMAIN bus[k + 1]
      BY <2>1 DEF IsNewest
    <3>2. ASSUME NEW j \in Places, j > k + 1 PROVE f \notin DOMAIN bus[j]
      <4>1. j - 1 \in Places' /\ bus'[j - 1] = bus[j] /\ j - 1 > k
        BY <3>2, <2>1, <1>4, <1>2 DEF Places
      <4> QED
        BY <4>1 DEF IsNewest
    <3> QED
      BY <3>1, <3>2 DEF IsNewest
  <2> QED
    BY <2>1, <2>2, <1>1 DEF IInv, NewestIsShown
<1>8. RestFollowed'
  <2> SUFFICES ASSUME NEW f \in Followed, ~ Heard(f)'
               PROVE  status'[f] = shown[f] \/ f \in lost
    BY <1>1 DEF RestFollowed, Followed, TakenAs
  <2>1. f \in Fields /\ KindOf[f] = TakenAs(f)
    BY DEF Followed
  <2>2. 1 \in Places
    BY <1>2 DEF Places
  <2>3. \A j \in Places : j # 1 => f \notin DOMAIN bus[j]
    BY <1>4 DEF Heard
  <2>4. CASE f \in DOMAIN bus[1]
    <3>1. \A j \in Places : j > 1 => f \notin DOMAIN bus[j]
      BY <2>3, <1>2 DEF Places
    <3>2. bus[1][f].text = shown[f]
      BY <3>1, <2>1, <2>2, <2>4 DEF IInv, NewestIsShown, IsNewest
    <3>3. f \in Taken(Head(bus))
      BY <2>1, <2>2, <2>4, <1>2 DEF IInv, KindsKept, Taken
    <3> QED
      BY <3>2, <3>3, <2>1, <1>1, <1>2 DEF Merged
  <2>5. CASE f \notin DOMAIN bus[1]
    <3>1. ~ Heard(f)
      BY <2>3, <2>5 DEF Heard
    <3>2. status'[f] = status[f]
      BY <2>5, <2>1, <1>1, <1>2 DEF Merged, Taken
    <3> QED
      BY <3>1, <3>2 DEF IInv, RestFollowed
  <2> QED
    BY <2>4, <2>5
<1> QED
  BY <1>5, <1>6, <1>7, <1>8 DEF IInv

\* A full broadcast loses its first message; then the new one is appended.
LEMMA PublishStep ==
  ASSUME IInv, NEW r \in Rigs, NEW told \in SUBSET Fields, Publish(r, told)
  PROVE  IInv'
<1> DEFINE m == [f \in told |-> [kind |-> KindOf[f], text |-> actual[r][f]]]
           full == Len(bus) = BusCap
           kept == IF full THEN Tail(bus) ELSE bus
           first == IF full THEN 1 ELSE 0
<1>1. /\ bus' = Append(kept, m) /\ status' = status
      /\ lost' = (lost \cup (IF full THEN DOMAIN Head(bus) \ UNION {DOMAIN bus[k] : k \in 2..Len(bus)}
                             ELSE {})) \ told
      /\ shown' = [f \in Fields |-> IF f \in told THEN actual[r][f] ELSE shown[f]]
  BY DEF Publish
<1>2. /\ DOMAIN m = told /\ told \subseteq Fields
      /\ \A f \in told : m[f].kind = KindOf[f] /\ m[f].text = actual[r][f]
  OBVIOUS
<1> HIDE DEF m
<1>3. bus \in Seq({bus[k] : k \in 1..Len(bus)})
  BY DEF IInv, BusIsSequence, Places
<1>4. /\ first \in {0, 1} /\ Len(bus) \in Nat /\ Len(kept) = Len(bus) - first
      /\ full => Head(bus) = bus[1] /\ 1 \in Places
      /\ \A k \in 1..Len(kept) : kept[k] = bus[k + first]
      /\ kept \in Seq({kept[k] : k \in 1..Len(kept)})
  <2>1. Len(bus) \in Nat
    BY <1>3
  <2>2. CASE full
    <3>1. bus # <<>>
      BY <2>2, EmptyBus, RigctldAssumption DEF RigctldAssumption
    <3>2. /\ Len(bus) \in Nat \ {0} /\ Head(bus) = bus[1] /\ Len(Tail(bus)) = Len(bus) - 1
          /\ \A k \in 1..Len(Tail(bus)) : Tail(bus)[k] = bus[k + 1]
          /\ Tail(bus) \in Seq({Tail(bus)[k] : k \in 1..Len(Tail(bus))})
      BY <1>3, <3>1, TailPlaces
    <3>3. kept = Tail(bus) /\ first = 1
      BY <2>2
    <3> HIDE DEF kept, first
    <3> QED
      BY <3>2, <3>3 DEF Places
  <2>3. CASE ~ full
    BY <2>1, <2>3, <1>3
  <2> QED
    BY <2>2, <2>3
<1> HIDE DEF kept, first
<1>5. /\ Len(kept) \in Nat /\ Len(bus') = Len(kept) + 1
      /\ \A k \in 1..Len(kept) : bus'[k] = kept[k]
      /\ bus'[Len(kept) + 1] = m
      /\ bus' \in Seq({bus'[k] : k \in 1..Len(bus')})
  <2>1. /\ Len(kept) \in Nat /\ Len(Append(kept, m)) = Len(kept) + 1
        /\ \A k \in 1..Len(kept) : Append(kept, m)[k] = kept[k]
        /\ Append(kept, m)[Len(kept) + 1] = m
        /\ Append(kept, m) \in Seq({Append(kept, m)[k] : k \in 1..Len(Append(kept, m))})
    <3>1. kept \in Seq({kept[k] : k \in 1..Len(kept)})
      BY <1>4
    <3> QED
      BY <3>1, AppendPlaces
  <2> QED
    BY <2>1, <1>1, Zenon
<1> DEFINE last == Len(kept) + 1
<1>6. /\ last \in Places' /\ last \in Nat /\ bus'[last] = m
      /\ \A k \in Places' : k \in Nat /\ k <= last
           /\ (k = last \/ (k + first \in Places /\ bus'[k] = bus[k + first]))
  <2>1. last \in Nat /\ Len(bus') = last /\ last \in Places' /\ bus'[last] = m
    BY <1>5 DEF Places
  <2>2. ASSUME NEW k \in Places', k # last
        PROVE  k \in 1..Len(kept)
    BY <2>1, <2>2, <1>5 DEF Places
  <2>3. \A k \in 1..Len(kept) : k + first \in Places /\ bus'[k] = bus[k + first]
    <3>1. \A k \in 1..Len(kept) : k + first \in 1..Len(bus)
      BY <1>4
    <3> QED
      BY <3>1, <1>4, <1>5 DEF Places
  <2> QED
    BY <2>1, <2>2, <2>3 DEF Places
<1>7. \A k \in Places : \/ full /\ k = 1
                        \/ k - first \in Places' /\ k - first # last /\ bus'[k - first] = bus[k]
  <2> SUFFICES ASSUME NEW k \in Places
               PROVE  \/ full /\ k = 1
                      \/ k - first \in Places' /\ k - first # last /\ bus'[k - first] = bus[k]
    OBVIOUS
  <2>1. CASE full
    <3>1. first = 1
      BY <2>1 DEF first
    <3>2. ASSUME k # 1 PROVE k - 1 \in 1..Len(kept) /\ k - 1 + first = k
      BY <3>1, <3>2, <1>4 DEF Places
    <3>3. \A i \in 1..Len(kept) : i \in Places' /\ i # last
      BY <1>5 DEF Places
    <3>4. \A i \in 1..Len(kept) : bus'[i] = bus[i + first]
      BY <1>4, <1>5
    <3> QED
      BY <2>1, <3>1, <3>2, <3>3, <3>4
  <2>2. CASE ~ full
    <3>1. first = 0
      BY <2>2 DEF first
    <3> QED
      BY <3>1, <1>4, <1>5 DEF Places
  <2> QED
    BY <2>1, <2>2
<1> HIDE DEF last
<1>8. BusIsSequence'
  BY <1>5 DEF BusIsSequence, Places
<1>9. KindsKept'
  <2> SUFFICES ASSUME NEW k \in Places', NEW f \in Fields \cap DOMAIN bus'[k]
               PROVE  bus'[k][f].kind = KindOf[f]
    BY DEF KindsKept
  <2>1. CASE k = last
    BY <2>1, <1>2, <1>6
  <2>2. CASE k # last
    BY <2>2, <1>6 DEF IInv, KindsKept
  <2> QED
    BY <2>1, <2>2
<1>10. NewestIsShown'
  <2> SUFFICES ASSUME NEW f \in Fields, NEW k \in Places', IsNewest(f, k)'
               PROVE  bus'[k][f].text = shown'[f]
    BY DEF NewestIsShown
  <2>1. CASE f \in told
    <3>1. k = last
      BY <2>1, <1>2, <1>6 DEF IsNewest
    <3> QED
      BY <3>1, <2>1, <1>1, <1>2, <1>6
  <2>2. CASE f \notin told
    <3>1. k # last /\ k + first \in Places /\ bus'[k] = bus[k + first]
      BY <2>2, <1>2, <1>6 DEF IsNewest
    <3>2. f \in DOMAIN bus[k + first]
      BY <3>1 DEF IsNewest
    <3>3. ASSUME NEW j \in Places, j > k + first PROVE f \notin DOMAIN bus[j]
      <4>1. j \in Nat /\ k \in Nat /\ k >= 1
        BY <1>4, <1>6 DEF Places
      <4>2. j # 1 /\ j - first > k
        BY <3>3, <4>1, <1>4
      <4>3. j - first \in Places' /\ bus'[j - first] = bus[j]
        BY <4>2, <1>7
      <4> QED
        BY <4>2, <4>3 DEF IsNewest
    <3>4. IsNewest(f, k + first)
      BY <3>2, <3>3 DEF IsNewest
    <3>5. bus[k + first][f].text = shown[f]
      BY <3>1, <3>4 DEF IInv, NewestIsShown
    <3> QED
      BY <3>1, <3>5, <2>2, <1>1
  <2> QED
    BY <2>1, <2>2
<1>11. RestFollowed'
  <2> SUFFICES ASSUME NEW f \in Followed, ~ Heard(f)'
               PROVE  status[f] = shown'[f] \/ f \in lost'
    BY <1>1 DEF RestFollowed, Followed, TakenAs
  <2>1. f \in Fields /\ f \notin told
    BY <1>2, <1>6 DEF Followed, Heard
  <2>2. shown'[f] = shown[f]
    BY <2>1, <1>1
  <2>3. \A j \in Places : (full /\ j = 1) \/ f \notin DOMAIN bus[j]
    BY <1>7 DEF Heard
  <2>4. CASE full /\ f \in DOMAIN bus[1]
    <3>1. f \notin UNION {DOMAIN bus[k] : k \in 2..Len(bus)}
      BY <2>3, <1>4 DEF Places
    <3> QED
      BY <3>1, <2>4, <2>1, <1>1, <1>4
  <2>5. CASE ~ (full /\ f \in DOMAIN bus[1])
    <3>1. ~ Heard(f)
      BY <2>3, <2>5 DEF Heard
    <3>2. status[f] = shown[f] \/ f \in lost
      BY <3>1 DEF IInv, RestFollowed
    <3> QED
      BY <3>2, <2>2, <2>1, <1>1
  <2> QED
    BY <2>4, <2>5
<1> QED
  BY <1>8, <1>9, <1>10, <1>11 DEF IInv

\* Every step of the server, its clients and the rigs keeps the invariant.
LEMMA FollowsStep == IInv /\ [Next]_vars => IInv'
<1> SUFFICES ASSUME IInv, [Next]_vars PROVE IInv'
  OBVIOUS
<1> DEFINE Same == UNCHANGED <<bus, status, shown, lost>>
<1>1. Same => IInv'
  BY QuietStep
<1>2. CASE UNCHANGED vars
  BY <1>1, <1>2 DEF vars
<1>3. CASE Clients
  BY <1>1, <1>3 DEF Clients, Connect, ClientCloses, ClientSends, serverVars, history
<1>4. ASSUME NEW c \in Conns, HandleClient(c) PROVE IInv'
  <2>1. Same
    BY <1>4 DEF HandleClient, AnswerLine, RefuseLine, LeaveLine, SetLine, Queue, QueueFails,
                Ack, EndOfInput, serverVars, history
  <2> QED
    BY <1>1, <2>1
<1>5. CASE RunServer
  <2>1. ASSUME NEW c \in Conns, Accept(c) PROVE IInv'
    BY <1>1, <2>1 DEF Accept, history
  <2>2. CASE Receive
    BY <2>2, ReceiveStep
  <2>3. CASE ReceiveLagged
    BY <1>1, <2>3 DEF ReceiveLagged, history
  <2> QED
    BY <1>5, <2>1, <2>2, <2>3 DEF RunServer
<1>6. CASE AcceptFails
  BY <1>1, <1>6 DEF AcceptFails, history
<1>7. CASE ManagerTakes
  BY <1>1, <1>7 DEF ManagerTakes, serverVars, history
<1>8. CASE ManagerEnds
  BY <1>1, <1>8 DEF ManagerEnds, serverVars, history
<1>9. ASSUME NEW r \in Rigs, Poll(r) \/ FirstPoll(r) PROVE IInv'
  BY <1>9, PublishStep DEF Poll, FirstPoll, Changed
<1>10. ASSUME NEW r \in Rigs, NEW f \in Fields, Turn(r, f) PROVE IInv'
  BY <1>1, <1>10 DEF Turn, serverVars
<1> QED
  BY <1>2, <1>3, <1>4, <1>5, <1>6, <1>7, <1>8, <1>9, <1>10 DEF Next

(***************************************************************************)
(* Once nothing is left to receive, every variable the server follows      *)
(* reads as it was last published, unless that message was overwritten.    *)
(***************************************************************************)
THEOREM StatusIsFollowed == Spec => []StatusFollows
<1>1. IInv => StatusFollows
  BY EmptyBus DEF IInv, RestFollowed, StatusFollows, Heard, Places
<1> QED
  BY <1>1, FollowsInit, FollowsStep, PTL DEF Spec
-----------------------------------------------------------------------------
(* What was acknowledged is queued                                         *)

\* A sequence over its own elements
OwnSeq(s) == s \in Seq({s[k] : k \in 1..Len(s)})

LogsAreSequences ==
  /\ log = [c \in Conns |-> log[c]] /\ queued = [c \in Conns |-> queued[c]]
  /\ pc = [c \in Conns |-> pc[c]] /\ held = [c \in Conns |-> held[c]]
  /\ \A c \in Conns : OwnSeq(log[c]) /\ OwnSeq(queued[c])

\* The line in hand, from when it is parsed to its answer, is a set command.
HeldIsSet == \A c \in Conns : pc[c] \in {"queueing", "acking"} => held[c].name \in Sets

\* What a connection was told, and what is queued for it; last is the command whose
\* answer is still to be written, if the connection is at that.
Paired(told, put, at, last) ==
  /\ Len(put) = Cardinality(Acked(told)) + (IF at = "acking" THEN 1 ELSE 0)
  /\ \A k \in Acked(told) : put[AckedUpTo(told, k)] = told[k].line
  /\ at = "acking" => put[Len(put)] = last

AckInv == LogsAreSequences /\ HeldIsSet /\ AckedIsQueued

\* The property is that of each connection.
LEMMA AckedByPairs ==
  AckedIsQueued <=> \A c \in Conns : Paired(log[c], queued[c], pc[c], held[c])
BY DEF AckedIsQueued, Paired

LEMMA OwnAppend ==
  ASSUME NEW s, OwnSeq(s), NEW x
  PROVE  /\ Len(s) \in Nat /\ Len(Append(s, x)) = Len(s) + 1
         /\ \A k \in 1..Len(s) : Append(s, x)[k] = s[k]
         /\ Append(s, x)[Len(s) + 1] = x
         /\ OwnSeq(Append(s, x))
BY AppendPlaces DEF OwnSeq

LEMMA AckedPlace ==
  ASSUME NEW told, NEW k
  PROVE  k \in Acked(told) <=> k \in 1..Len(told) /\ Acknowledges(told[k])
BY DEF Acked

\* The acknowledged places of a log are finitely many, and the place of one among
\* them is between 1 and their number.
LEMMA AckedCounts ==
  ASSUME NEW told, Len(told) \in Nat
  PROVE  /\ IsFiniteSet(Acked(told)) /\ Cardinality(Acked(told)) \in Nat
         /\ \A k \in Acked(told) : AckedUpTo(told, k) \in 1..Cardinality(Acked(told))
<1>1. IsFiniteSet(1..Len(told))
  BY FS_Interval
<1>2. IsFiniteSet(Acked(told)) /\ Cardinality(Acked(told)) \in Nat
  BY <1>1, FS_Subset, FS_CardinalityType DEF Acked
<1>3. ASSUME NEW k \in Acked(told)
      PROVE  AckedUpTo(told, k) \in 1..Cardinality(Acked(told))
  <2> DEFINE upto == {j \in Acked(told) : j <= k}
  <2>1. k \in upto
    <3>1. k \in 1..Len(told)
      BY AckedPlace
    <3>2. k <= k
      BY <3>1
    <3> QED
      BY <3>2
  <2>2. /\ IsFiniteSet(upto) /\ Cardinality(upto) \in Nat
        /\ Cardinality(upto) <= Cardinality(Acked(told)) /\ Cardinality(upto) # 0
    <3>1. upto \in SUBSET Acked(told)
      OBVIOUS
    <3> HIDE DEF upto
    <3> QED
      BY <2>1, <3>1, <1>2, FS_Subset, FS_CardinalityType, FS_EmptySet
  <2> QED
    BY <2>2, <1>2 DEF AckedUpTo
<1> QED
  BY <1>2, <1>3

\* An answer that acknowledges nothing adds no acknowledged place.
LEMMA OtherAnswer ==
  ASSUME NEW told, OwnSeq(told),
         NEW e, ~ Acknowledges(e),
         NEW put, NEW at, NEW last, Paired(told, put, at, last)
  PROVE  Paired(Append(told, e), put, at, last)
<1> DEFINE more == Append(told, e)
<1>1. /\ Len(told) \in Nat /\ Len(more) = Len(told) + 1 /\ more[Len(told) + 1] = e
      /\ \A k \in 1..Len(told) : more[k] = told[k]
  BY OwnAppend
<1> HIDE DEF more
<1>0. Len(told) \in Nat /\ Len(more) = Len(told) + 1
  BY <1>1
<1>2. Acked(more) = Acked(told)
  <2>1. ASSUME NEW k \in Acked(more) PROVE k \in Acked(told)
    <3>1. Acknowledges(more[k])
      BY AckedPlace
    <3>2. k \in 1..Len(more)
      BY AckedPlace
    <3>3. k # Len(told) + 1
      BY <3>1, <1>1
    <3>4. k \in 1..Len(told)
      BY <3>2, <3>3, <1>0
    <3> QED
      BY <3>1, <3>4, <1>1, AckedPlace
  <2>2. ASSUME NEW k \in Acked(told) PROVE k \in Acked(more)
    <3>1. k \in 1..Len(told)
      BY AckedPlace
    <3>2. k \in 1..Len(more)
      BY <3>1, <1>0
    <3> QED
      BY <3>1, <3>2, <1>1, AckedPlace
  <2> QED
    BY <2>1, <2>2
<1>3. \A k \in Acked(told) : more[k] = told[k] /\ AckedUpTo(more, k) = AckedUpTo(told, k)
  BY <1>1, <1>2, AckedPlace DEF AckedUpTo
<1>4. Paired(more, put, at, last)
  BY <1>2, <1>3 DEF Paired
<1> QED
  BY <1>4 DEF more

\* A command that is queued comes after those acknowledged before.
LEMMA QueuedNext ==
  ASSUME NEW told, OwnSeq(told),
         NEW put, OwnSeq(put),
         NEW l, NEW last, Paired(told, put, "queueing", last)
  PROVE  Paired(told, Append(put, l), "acking", l)
<1> DEFINE more == Append(put, l)
<1>1. /\ Len(put) \in Nat /\ Len(more) = Len(put) + 1 /\ more[Len(put) + 1] = l
      /\ \A k \in 1..Len(put) : more[k] = put[k]
  BY OwnAppend
<1> HIDE DEF more
<1>2. Len(told) \in Nat
  BY DEF OwnSeq
<1>3. Len(put) = Cardinality(Acked(told))
  BY <1>2, AckedCounts DEF Paired
<1>4. \A k \in Acked(told) : more[AckedUpTo(told, k)] = told[k].line
  BY <1>1, <1>2, <1>3, AckedCounts DEF Paired
<1>5. Paired(told, more, "acking", l)
  BY <1>1, <1>3, <1>4 DEF Paired
<1> QED
  BY <1>5 DEF more

\* Its acknowledgement is the last one, as the command is the last one queued.
LEMMA AckedNext ==
  ASSUME NEW told, OwnSeq(told),
         NEW put, NEW l, l.name \in Sets, Paired(told, put, "acking", l), NEW last
  PROVE  Paired(Append(told, [line |-> l, answer |-> "RPRT 0"]), put, "reading", last)
<1> DEFINE e == [line |-> l, answer |-> "RPRT 0"]
           more == Append(told, e)
           n == Len(told) + 1
<1>1. /\ Len(told) \in Nat /\ Len(more) = n /\ more[n] = e
      /\ \A k \in 1..Len(told) : more[k] = told[k]
  BY ZenonT(60), OwnAppend
<1>2. e.line = l /\ Acknowledges(e)
  BY DEF Acknowledges
<1> HIDE DEF more, e
<1>0. Len(told) \in Nat /\ Len(more) = Len(told) + 1
  BY <1>1
<1>3. Acked(more) = Acked(told) \cup {n} /\ n \notin Acked(told)
  <2>1. ASSUME NEW k \in Acked(more), k # n PROVE k \in Acked(told)
    <3>1. k \in 1..Len(more)
      BY AckedPlace
    <3>2. k \in 1..Len(told)
      BY <3>1, <2>1, <1>0
    <3> QED
      BY <3>2, <1>1, AckedPlace
  <2>2. ASSUME NEW k \in Acked(told) PROVE k \in Acked(more)
    <3>1. k \in 1..Len(told)
      BY AckedPlace
    <3>2. k \in 1..Len(more)
      BY <3>1, <1>0
    <3> QED
      BY <3>1, <3>2, <1>1, AckedPlace
  <2>3. n \in Acked(more)
    <3>1. n \in 1..Len(more)
      BY <1>1
    <3> QED
      BY <3>1, <1>1, <1>2, AckedPlace
  <2>4. n \notin 1..Len(told)
    BY <1>1
  <2> QED
    BY <2>1, <2>2, <2>3, <2>4, AckedPlace
<1>4. /\ IsFiniteSet(Acked(told)) /\ Cardinality(Acked(told)) \in Nat
      /\ Cardinality(Acked(more)) = Cardinality(Acked(told)) + 1
  <2>1. IsFiniteSet(Acked(told)) /\ Cardinality(Acked(told)) \in Nat
    BY <1>0, AckedCounts
  <2>2. Cardinality(Acked(told) \cup {n}) = Cardinality(Acked(told)) + 1
    BY <2>1, <1>3, FS_AddElement
  <2> QED
    BY <2>1, <2>2, <1>3
<1>5. Len(put) = Cardinality(Acked(more)) /\ put[Len(put)] = l
  BY <1>4 DEF Paired
<1>6. AckedUpTo(more, n) = Len(put)
  <2>1. \A j \in Acked(more) : j <= n
    <3>1. \A j \in Acked(more) : j \in 1..Len(more)
      BY AckedPlace
    <3> QED
      BY <3>1, <1>0
  <2>2. {j \in Acked(more) : j <= n} = Acked(more)
    BY <2>1
  <2> QED
    BY <2>2, <1>5 DEF AckedUpTo
<1>7. ASSUME NEW k \in Acked(told)
      PROVE  more[k] = told[k] /\ AckedUpTo(more, k) = AckedUpTo(told, k)
  <2>1. k \in 1..Len(told) /\ ~ (n <= k)
    <3>1. k \in 1..Len(told)
      BY AckedPlace
    <3> QED
      BY <3>1, <1>0
  <2>2. {j \in Acked(more) : j <= k} = {j \in Acked(told) : j <= k}
    BY <2>1, <1>3
  <2> QED
    BY <2>1, <2>2, <1>1 DEF AckedUpTo
<1>8. \A k \in Acked(more) : put[AckedUpTo(more, k)] = more[k].line
  <2>1. ASSUME NEW k \in Acked(told) PROVE put[AckedUpTo(more, k)] = more[k].line
    BY <1>7 DEF Paired
  <2>2. put[AckedUpTo(more, n)] = more[n].line
    BY <1>1, <1>2, <1>5, <1>6
  <2> QED
    BY <2>1, <2>2, <1>3
<1>9. Paired(more, put, "reading", last)
  BY <1>4, <1>5, <1>8 DEF Paired
<1> QED
  BY <1>9 DEF more, e

\* At the start nothing is answered and nothing is queued.
LEMMA AckInit == Init => AckInv
<1> SUFFICES ASSUME Init PROVE AckInv
  OBVIOUS
<1>1. /\ log = [c \in Conns |-> <<>>] /\ queued = [c \in Conns |-> <<>>]
      /\ pc = [c \in Conns |-> "reading"] /\ held = [c \in Conns |-> NoLine]
  BY DEF Init
<1>2. LogsAreSequences
  BY <1>1, EmptyBus DEF LogsAreSequences, OwnSeq
<1>3. HeldIsSet
  BY <1>1 DEF HeldIsSet
<1>4. Paired(<<>>, <<>>, "reading", NoLine)
  <2>1. Acked(<<>>) = {}
    <3>1. \A k : k \notin 1..Len(<<>>)
      BY EmptyBus
    <3> QED
      BY <3>1, AckedPlace
  <2>2. Cardinality({}) = 0
    BY FS_EmptySet
  <2>3. Len(<<>>) = Cardinality(Acked(<<>>)) + 0
    BY <2>1, <2>2, EmptyBus
  <2> QED
    BY <2>1, <2>3 DEF Paired
<1>5. \A c \in Conns : Paired(log[c], queued[c], pc[c], held[c])
  BY <1>1, <1>4
<1>6. AckedIsQueued
  BY <1>5, AckedByPairs
<1> QED
  BY <1>2, <1>3, <1>6 DEF AckInv

\* A step that changes neither what a connection was told nor what is queued for it.
LEMMA AckQuiet ==
  ASSUME AckInv, UNCHANGED <<log, queued, pc, held>>
  PROVE  AckInv'
<1> USE DEF AckInv
<1>1. LogsAreSequences'
  <2>1. log' = log /\ queued' = queued /\ pc' = pc /\ held' = held
    OBVIOUS
  <2>2. \A c \in Conns : OwnSeq(log'[c]) /\ OwnSeq(queued'[c])
    BY <2>1 DEF LogsAreSequences
  <2>3. \A c \in Conns : OwnSeq(log[c])' /\ OwnSeq(queued[c])'
    BY <2>2 DEF OwnSeq
  <2> QED
    BY <2>1, <2>3 DEF LogsAreSequences
<1>2. HeldIsSet'
  BY DEF AckInv, HeldIsSet
<1>3. AckedIsQueued'
  <2>1. \A c \in Conns : Paired(log'[c], queued'[c], pc'[c], held'[c])
    BY AckedByPairs
  <2> QED
    BY <2>1 DEF AckedIsQueued, Paired
<1> QED
  BY <1>1, <1>2, <1>3 DEF AckInv

\* A step of one connection that keeps its own pairs keeps the invariant.
LEMMA AckLocal ==
  ASSUME AckInv, NEW c \in Conns, NEW l, NEW q, NEW p, NEW h,
         log' = [log EXCEPT ![c] = l], queued' = [queued EXCEPT ![c] = q],
         pc' = [pc EXCEPT ![c] = p], held' = [held EXCEPT ![c] = h],
         OwnSeq(l), OwnSeq(q),
         p \in {"queueing", "acking"} => h.name \in Sets,
         Paired(l, q, p, h)
  PROVE  AckInv'
<1>1. LogsAreSequences /\ HeldIsSet
  BY DEF AckInv
<1>2. /\ log' = [log EXCEPT ![c] = l] /\ queued' = [queued EXCEPT ![c] = q]
      /\ pc' = [pc EXCEPT ![c] = p] /\ held' = [held EXCEPT ![c] = h]
  OBVIOUS
<1>3. /\ log'[c] = l /\ queued'[c] = q /\ pc'[c] = p /\ held'[c] = h
      /\ \A d \in Conns \ {c} : /\ log'[d] = log[d] /\ queued'[d] = queued[d]
                                /\ pc'[d] = pc[d] /\ held'[d] = held[d]
      /\ log' = [d \in Conns |-> log'[d]] /\ queued' = [d \in Conns |-> queued'[d]]
      /\ pc' = [d \in Conns |-> pc'[d]] /\ held' = [d \in Conns |-> held'[d]]
  BY <1>1, <1>2 DEF LogsAreSequences
<1>4. LogsAreSequences'
  <2>1. ASSUME NEW d \in Conns
        PROVE  OwnSeq(log'[d]) /\ OwnSeq(queued'[d])
    <3>1. CASE d = c
      BY <3>1, <1>3
    <3>2. CASE d # c
      BY <3>2, <1>3, <1>1 DEF LogsAreSequences
    <3> QED
      BY <3>1, <3>2
  <2> QED
    BY <2>1, <1>3 DEF LogsAreSequences, OwnSeq
<1>5. HeldIsSet'
  BY <1>1, <1>3 DEF HeldIsSet
<1>6. ASSUME NEW d \in Conns
      PROVE  Paired(log'[d], queued'[d], pc'[d], held'[d])
  <2>1. CASE d = c
    BY <2>1, <1>3
  <2>2. CASE d # c
    <3>1. Paired(log[d], queued[d], pc[d], held[d])
      BY AckedByPairs DEF AckInv
    <3> QED
      BY <3>1, <2>2, <1>3
  <2> QED
    BY <2>1, <2>2
<1>7. AckedIsQueued'
  BY <1>6 DEF AckedIsQueued, Paired
<1> QED
  BY <1>4, <1>5, <1>7 DEF AckInv

\* What a connection's task does with a line, and with the answer of a command.
LEMMA AckHandle ==
  ASSUME AckInv, NEW c \in Conns, HandleClient(c)
  PROVE  AckInv'
<1>1. /\ log = [d \in Conns |-> log[d]] /\ queued = [d \in Conns |-> queued[d]]
      /\ pc = [d \in Conns |-> pc[d]] /\ held = [d \in Conns |-> held[d]]
      /\ OwnSeq(log[c]) /\ OwnSeq(queued[c])
  BY DEF AckInv, LogsAreSequences
<1>2. Paired(log[c], queued[c], pc[c], held[c])
  BY AckedByPairs DEF AckInv
<1>3. /\ log = [log EXCEPT ![c] = log[c]] /\ queued = [queued EXCEPT ![c] = queued[c]]
      /\ pc = [pc EXCEPT ![c] = pc[c]] /\ held = [held EXCEPT ![c] = held[c]]
  BY <1>1
<1>4. ASSUME NEW a, Says(c, Line(c), a), UNCHANGED <<queued, pc, held>>, pc[c] = "reading",
             Line(c).name \notin Sets \/ a # "RPRT 0"
      PROVE  AckInv'
  <2> DEFINE e == [line |-> Line(c), answer |-> a]
  <2>1. ~ Acknowledges(e)
    BY <1>4 DEF Acknowledges
  <2>2. log' = [log EXCEPT ![c] = Append(log[c], e)]
    BY <1>4 DEF Says
  <2> HIDE DEF e
  <2>3. OwnSeq(Append(log[c], e))
    BY <1>1, OwnAppend
  <2>4. Paired(Append(log[c], e), queued[c], pc[c], held[c])
    BY <1>1, <1>2, <1>4, <2>1, OtherAnswer
  <2>5. /\ queued' = [queued EXCEPT ![c] = queued[c]] /\ pc' = [pc EXCEPT ![c] = pc[c]]
        /\ held' = [held EXCEPT ![c] = held[c]]
        /\ pc[c] \in {"queueing", "acking"} => held[c].name \in Sets
    BY <1>3, <1>4
  <2> QED
    BY <1>1, <2>2, <2>3, <2>4, <2>5, AckLocal
<1>5. CASE AnswerLine(c)
  BY <1>4, <1>5 DEF AnswerLine, Handles, history
<1>6. CASE RefuseLine(c)
  BY <1>4, <1>6 DEF RefuseLine, Handles, history
<1>7. CASE LeaveLine(c) \/ QueueFails(c) \/ EndOfInput(c)
  BY <1>7, AckQuiet DEF LeaveLine, QueueFails, EndOfInput, history
<1>8. CASE SetLine(c)
  <2>1. /\ pc[c] = "reading" /\ Line(c).name \in Sets /\ UNCHANGED <<log, queued>>
        /\ held' = [held EXCEPT ![c] = Line(c)] /\ pc' = [pc EXCEPT ![c] = "queueing"]
    BY <1>8 DEF SetLine, Handles, history
  <2>2. /\ Paired(log[c], queued[c], "queueing", Line(c))
        /\ "queueing" \in {"queueing", "acking"} => Line(c).name \in Sets
    BY <1>2, <2>1 DEF Paired
  <2>3. log' = [log EXCEPT ![c] = log[c]] /\ queued' = [queued EXCEPT ![c] = queued[c]]
    BY <1>3, <2>1
  <2> QED
    BY <1>1, <2>1, <2>2, <2>3, AckLocal
<1>9. CASE Queue(c)
  <2>1. /\ pc[c] = "queueing" /\ UNCHANGED <<log, held>>
        /\ queued' = [queued EXCEPT ![c] = Append(queued[c], held[c])]
        /\ pc' = [pc EXCEPT ![c] = "acking"]
    BY <1>9 DEF Queue
  <2>2. Paired(log[c], queued[c], "queueing", held[c])
    BY <1>2, <2>1
  <2> DEFINE q == Append(queued[c], held[c])
  <2>3. Paired(log[c], q, "acking", held[c]) /\ OwnSeq(q)
    BY <1>1, <2>2, QueuedNext, OwnAppend
  <2> HIDE DEF q
  <2>4. /\ log' = [log EXCEPT ![c] = log[c]] /\ held' = [held EXCEPT ![c] = held[c]]
        /\ held[c].name \in Sets /\ queued' = [queued EXCEPT ![c] = q]
    BY <1>3, <2>1 DEF AckInv, HeldIsSet, q
  <2> QED
    BY <1>1, <2>1, <2>3, <2>4, AckLocal
<1>10. CASE Ack(c)
  <2> DEFINE l == Append(log[c], [line |-> held[c], answer |-> "RPRT 0"])
  <2>1. /\ pc[c] = "acking" /\ queued' = queued /\ log' = [log EXCEPT ![c] = l]
        /\ pc' = [pc EXCEPT ![c] = "reading"] /\ held' = [held EXCEPT ![c] = NoLine]
    BY <1>10 DEF Ack, Says, history
  <2>2. Paired(log[c], queued[c], "acking", held[c]) /\ held[c].name \in Sets
    BY <1>2, <2>1 DEF AckInv, HeldIsSet
  <2>3. Paired(l, queued[c], "reading", NoLine) /\ OwnSeq(l)
    BY <1>1, <2>2, AckedNext, OwnAppend
  <2> HIDE DEF l
  <2>4. "reading" \in {"queueing", "acking"} => NoLine.name \in Sets
    OBVIOUS
  <2>5. queued' = [queued EXCEPT ![c] = queued[c]]
    BY <1>3, <2>1
  <2> QED
    BY <1>1, <2>1, <2>3, <2>4, <2>5, AckLocal
<1> QED
  BY <1>5, <1>6, <1>7, <1>8, <1>9, <1>10 DEF HandleClient

\* Nobody else touches a connection's log.
LEMMA AckStep == AckInv /\ [Next]_vars => AckInv'
<1> SUFFICES ASSUME AckInv, [Next]_vars PROVE AckInv'
  OBVIOUS
<1> DEFINE Same == UNCHANGED <<log, queued, pc, held>>
<1>1. Same => AckInv'
  BY AckQuiet
<1>2. CASE UNCHANGED vars
  BY <1>1, <1>2 DEF vars
<1>3. CASE Clients
  BY <1>1, <1>3 DEF Clients, Connect, ClientCloses, ClientSends, history
<1>4. ASSUME NEW c \in Conns, HandleClient(c) PROVE AckInv'
  BY <1>4, AckHandle
<1>5. CASE RunServer \/ AcceptFails
  BY <1>1, <1>5 DEF RunServer, Accept, Receive, ReceiveLagged, AcceptFails, connVars, history
<1>6. CASE ManagerTakes \/ ManagerEnds
  BY <1>1, <1>6 DEF ManagerTakes, ManagerEnds, connVars, history
<1>7. ASSUME NEW r \in Rigs, Poll(r) \/ FirstPoll(r) PROVE AckInv'
  BY <1>1, <1>7 DEF Poll, FirstPoll, Publish, connVars
<1>8. ASSUME NEW r \in Rigs, NEW f \in Fields, Turn(r, f) PROVE AckInv'
  BY <1>1, <1>8 DEF Turn, connVars
<1> QED
  BY <1>2, <1>3, <1>4, <1>5, <1>6, <1>7, <1>8 DEF Next

(***************************************************************************)
(* What a connection of rigctld was told is done was queued for the rig,   *)
(* in the order of the answers, with any number of other connections and   *)
(* with the manager's queue full or gone.                                  *)
(***************************************************************************)
THEOREM AcknowledgedIsQueued == Spec => []AckedIsQueued
<1>1. AckInv => AckedIsQueued
  BY DEF AckInv
<1> QED
  BY <1>1, AckInit, AckStep, PTL DEF Spec
=============================================================================
