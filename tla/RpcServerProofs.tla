--------------------------- MODULE RpcServerProofs ---------------------------
(***************************************************************************)
(* Proofs about RpcServer.                                                 *)
(***************************************************************************)
EXTENDS RpcServerInvariant, WellFoundedInduction, TLAPS

\* A set of natural numbers that is not empty has a smallest member.
LEMMA Smallest ==
  ASSUME NEW S, S \subseteq Nat, S # {}
  PROVE  \E m \in S : \A n \in S : m <= n
<1> DEFINE R == OpToRel(<, Nat)
<1>1. IsWellFoundedOn(R, Nat)
  BY NatLessThanWellFounded
<1>2. PICK m \in S : \A n \in S : ~(<<n, m>> \in R)
  <2> HIDE DEF R
  <2> QED BY <1>1, WFMin
<1>3. \A n \in S : ~(n < m)
  BY <1>2, Zenon DEF OpToRel
<1> QED BY <1>3

\* What was heard was heard last somewhere, and that is what counts.
LEMMA HeardLast ==
  ASSUME NEW s \in Seq(Message), NEW r, NEW x, Heard(s, r, x)
  PROVE  \E j \in 1..Len(s) : IsLatest(s, r, x, j)
<1> DEFINE S == {n \in Nat : n < Len(s) /\ Tells(s[Len(s) - n], r, x)}
<1>1. PICK k \in 1..Len(s) : Tells(s[k], r, x)
  BY DEF Heard
<1>2. Len(s) - k \in S
  <2>1. Len(s) - k \in Nat /\ Len(s) - k < Len(s) /\ Len(s) - (Len(s) - k) = k
    OBVIOUS
  <2> QED BY <1>1, <2>1
<1>3. PICK m \in S : \A n \in S : m <= n
  <2>1. S \subseteq Nat /\ S # {}
    BY <1>2
  <2> HIDE DEF S
  <2> QED BY <2>1, Smallest
<1>4. Len(s) - m \in 1..Len(s) /\ Tells(s[Len(s) - m], r, x)
  BY <1>3
<1>5. ASSUME NEW i \in 1..Len(s), i > Len(s) - m
      PROVE  ~Tells(s[i], r, x)
  <2>1. SUFFICES ASSUME Tells(s[i], r, x) PROVE FALSE
    OBVIOUS
  <2>2. Len(s) - i \in Nat /\ Len(s) - i < Len(s) /\ Len(s) - (Len(s) - i) = i
    OBVIOUS
  <2>3. Len(s) - i \in S
    BY <2>1, <2>2
  <2> QED BY <1>3, <1>5, <2>3
<1> QED BY <1>4, <1>5 DEF IsLatest

LEMMA LatestIs ==
  ASSUME NEW s \in Seq(Message), NEW r, NEW x, NEW d,
         NEW j \in 1..Len(s), IsLatest(s, r, x, j)
  PROVE  Heard(s, r, x) /\ Latest(s, r, x, d) = s[j].news[x]
<1>1. \A k \in 1..Len(s) : IsLatest(s, r, x, k) => k = j
  BY DEF IsLatest
<1>2. (CHOOSE k \in 1..Len(s) : IsLatest(s, r, x, k)) = j
  BY <1>1
<1>3. Heard(s, r, x)
  BY DEF IsLatest, Heard
<1> QED BY <1>2, <1>3 DEF Latest

LEMMA LatestEmpty ==
  ASSUME NEW r, NEW x, NEW d
  PROVE  ~Heard(<<>>, r, x) /\ Latest(<<>>, r, x, d) = d
BY DEF Latest, Heard

\* Whether anything was heard decides between the default and news.
LEMMA LatestCases ==
  ASSUME NEW s, NEW r, NEW x, NEW d, NEW e
  PROVE  /\ Heard(s, r, x) => Latest(s, r, x, d) = Latest(s, r, x, e)
         /\ ~Heard(s, r, x) => Latest(s, r, x, d) = d
BY DEF Latest

LEMMA LatestAppend ==
  ASSUME NEW s \in Seq(Message), NEW m \in Message, NEW r, NEW x, NEW d
  PROVE  /\ Latest(Append(s, m), r, x, d) =
              IF Tells(m, r, x) THEN m.news[x] ELSE Latest(s, r, x, d)
         /\ Heard(Append(s, m), r, x) <=> Heard(s, r, x) \/ Tells(m, r, x)
<1> DEFINE t == Append(s, m)
<1>1. /\ t \in Seq(Message) /\ Len(t) = Len(s) + 1 /\ t[Len(s) + 1] = m
      /\ \A k \in 1..Len(s) : t[k] = s[k]
      /\ Len(s) \in Nat
  OBVIOUS
<1> HIDE DEF t
<1>2. Heard(t, r, x) <=> Heard(s, r, x) \/ Tells(m, r, x)
  BY <1>1 DEF Heard
<1>3. CASE Tells(m, r, x)
  <2>1. Len(s) + 1 \in 1..Len(t) /\ IsLatest(t, r, x, Len(s) + 1)
    BY <1>1, <1>3 DEF IsLatest
  <2>2. Latest(t, r, x, d) = t[Len(s) + 1].news[x]
    BY <2>1, <1>1, LatestIs
  <2> QED BY <2>2, <1>1, <1>2, <1>3 DEF t
<1>4. CASE ~Tells(m, r, x) /\ Heard(s, r, x)
  <2>1. PICK j \in 1..Len(s) : IsLatest(s, r, x, j)
    BY <1>4, HeardLast
  <2>2. j \in 1..Len(t) /\ IsLatest(t, r, x, j)
    BY <1>1, <1>4, <2>1 DEF IsLatest
  <2>3. Latest(t, r, x, d) = t[j].news[x] /\ Latest(s, r, x, d) = s[j].news[x]
    BY <1>1, <2>1, <2>2, LatestIs
  <2> QED BY <2>3, <1>1, <1>2, <1>4 DEF t
<1>5. CASE ~Tells(m, r, x) /\ ~Heard(s, r, x)
  BY <1>2, <1>5 DEF Latest, t
<1> QED BY <1>3, <1>4, <1>5

LEMMA LatestTail ==
  ASSUME NEW s \in Seq(Message), s # <<>>, NEW r, NEW x, NEW d
  PROVE  /\ Latest(s, r, x, d) =
              Latest(Tail(s), r, x, IF Tells(Head(s), r, x) THEN Head(s).news[x] ELSE d)
         /\ Heard(s, r, x) <=> Heard(Tail(s), r, x) \/ Tells(Head(s), r, x)
<1> DEFINE t == Tail(s)
<1>1. /\ t \in Seq(Message) /\ Len(t) = Len(s) - 1 /\ Head(s) = s[1]
      /\ \A k \in 1..Len(t) : t[k] = s[k + 1]
      /\ Len(s) \in Nat /\ Len(s) > 0
  OBVIOUS
<1> HIDE DEF t
<1>2. Heard(s, r, x) <=> Heard(t, r, x) \/ Tells(s[1], r, x)
  <2>1. ASSUME NEW k \in 1..Len(t), Tells(t[k], r, x) PROVE Heard(s, r, x)
    <3>1. k + 1 \in 1..Len(s) /\ Tells(s[k + 1], r, x)
      BY <1>1, <2>1
    <3> QED BY <3>1 DEF Heard
  <2>2. ASSUME NEW k \in 1..Len(s), Tells(s[k], r, x), k # 1 PROVE Heard(t, r, x)
    <3>1. k - 1 \in 1..Len(t) /\ t[k - 1] = s[k]
      BY <1>1, <2>2
    <3> QED BY <3>1, <2>2 DEF Heard
  <2>3. 1 \in 1..Len(s)
    BY <1>1
  <2> QED BY <2>1, <2>2, <2>3 DEF Heard
<1>3. CASE Heard(t, r, x)
  <2>1. PICK j \in 1..Len(t) : IsLatest(t, r, x, j)
    BY <1>1, <1>3, HeardLast
  <2>2. j + 1 \in 1..Len(s) /\ t[j] = s[j + 1]
    BY <1>1
  <2>3. ASSUME NEW k \in 1..Len(s), k > j + 1 PROVE ~Tells(s[k], r, x)
    <3>1. k - 1 \in 1..Len(t) /\ k - 1 > j /\ t[k - 1] = s[k]
      BY <1>1, <2>3
    <3> QED BY <2>1, <3>1 DEF IsLatest
  <2>4. IsLatest(s, r, x, j + 1)
    BY <2>1, <2>2, <2>3 DEF IsLatest
  <2>5. \A e : Latest(t, r, x, e) = t[j].news[x]
    BY <1>1, <2>1, LatestIs
  <2>6. Latest(s, r, x, d) = s[j + 1].news[x]
    BY <2>2, <2>4, LatestIs
  <2> QED BY <2>2, <2>5, <2>6, <1>1, <1>2 DEF t
<1>4. CASE ~Heard(t, r, x) /\ Tells(s[1], r, x)
  <2>1. 1 \in 1..Len(s)
    BY <1>1
  <2>2. ASSUME NEW k \in 1..Len(s), k > 1 PROVE ~Tells(s[k], r, x)
    <3>1. k - 1 \in 1..Len(t) /\ t[k - 1] = s[k]
      BY <1>1, <2>2
    <3> QED BY <1>4, <3>1 DEF Heard
  <2>3. IsLatest(s, r, x, 1)
    BY <1>4, <2>1, <2>2 DEF IsLatest
  <2>4. Latest(s, r, x, d) = s[1].news[x]
    BY <2>1, <2>3, LatestIs
  <2> QED BY <2>4, <1>1, <1>2, <1>4 DEF Latest, t
<1>5. CASE ~Heard(t, r, x) /\ ~Tells(s[1], r, x)
  BY <1>1, <1>2, <1>5 DEF Latest, t
<1> QED BY <1>3, <1>4, <1>5

LEMMA LatestOne ==
  ASSUME NEW m \in Message, NEW r, NEW x, NEW d
  PROVE  Latest(<<m>>, r, x, d) = IF Tells(m, r, x) THEN m.news[x] ELSE d
<1>1. <<>> \in Seq(Message) /\ <<m>> = Append(<<>>, m)
  OBVIOUS
<1>2. Latest(Append(<<>>, m), r, x, d) =
        IF Tells(m, r, x) THEN m.news[x] ELSE Latest(<<>>, r, x, d)
  BY <1>1, LatestAppend
<1> QED BY <1>1, <1>2, LatestEmpty

\* What a full channel loses, it loses at its old end.
LEMMA LatestPut ==
  ASSUME NEW s \in Seq(Message), NEW cap \in Nat \ {0}, Len(s) <= cap,
         NEW m \in Message, NEW r, NEW x, NEW d
  PROVE  /\ Put(s, cap, m) \in Seq(Message) /\ Len(Put(s, cap, m)) <= cap
         /\ Latest(Put(s, cap, m), r, x, d) =
              IF Tells(m, r, x) THEN m.news[x]
              ELSE IF Len(s) < cap THEN Latest(s, r, x, d) ELSE Latest(Tail(s), r, x, d)
<1>1. CASE Len(s) < cap
  <2>1. Put(s, cap, m) = Append(s, m)
    BY <1>1 DEF Put
  <2>2. Append(s, m) \in Seq(Message) /\ Len(Append(s, m)) = Len(s) + 1
    OBVIOUS
  <2> QED BY <2>1, <2>2, <1>1, LatestAppend
<1>2. CASE ~(Len(s) < cap)
  <2>1. Put(s, cap, m) = Append(Tail(s), m) /\ s # <<>>
    BY <1>2 DEF Put
  <2>2. Tail(s) \in Seq(Message) /\ Len(Tail(s)) = Len(s) - 1
    BY <2>1
  <2>3. Append(Tail(s), m) \in Seq(Message) /\ Len(Append(Tail(s), m)) = Len(s)
    BY <2>2
  <2>4. Latest(Append(Tail(s), m), r, x, d) =
          IF Tells(m, r, x) THEN m.news[x] ELSE Latest(Tail(s), r, x, d)
    BY <2>2, LatestAppend
  <2> QED BY <2>1, <2>3, <2>4, <1>2
<1> QED BY <1>1, <1>2

LEMMA PutType ==
  ASSUME NEW s \in Seq(Message), NEW cap \in Nat \ {0}, Len(s) <= cap, NEW m \in Message
  PROVE  Put(s, cap, m) \in Seq(Message) /\ Len(Put(s, cap, m)) <= cap
BY LatestPut

LEMMA EmptySeq == \A S : <<>> \in Seq(S) /\ Len(<<>>) = 0
OBVIOUS

-----------------------------------------------------------------------------
(* Type correctness.                                                       *)

LEMMA ConstantFacts ==
  /\ BusCap \in Nat \ {0} /\ NoticeCap \in Nat \ {0} /\ SocketCap \in Nat \ {0}
  /\ MaxRequests \in Nat /\ MaxChanges \in Nat /\ MaxSplits \in Nat
  /\ Handled \subseteq Rigs /\ Listed \subseteq Rigs
  /\ Implemented \in [Rigs -> SUBSET Fields]
  /\ Connection \notin Fields /\ Connection \in Items /\ Fields \subseteq Items
  /\ None \notin Values /\ None \notin BOOLEAN /\ None \notin Rigs
  /\ Unknown \notin Values /\ Unknown \notin BOOLEAN /\ Unknown # None
  /\ Asks \subseteq Ask
BY RpcAssumption, RpcBoundsAssumption DEF Items

LEMMA NewsType == NoNews \in News /\ \A c \in BOOLEAN : ConnectionNews(c) \in News
BY ConstantFacts DEF NoNews, News, ConnectionNews

LEMMA NewsShape ==
  ASSUME NEW n \in News
  PROVE  /\ n \in [Items -> Values \cup BOOLEAN \cup {None}]
         /\ n[Connection] \in BOOLEAN \cup {None}
         /\ \A f \in Fields : n[f] \in Values \cup {None}
         /\ n[Connection] # None => \A f \in Fields : n[f] = None
<1>1. CASE n \in {ConnectionNews(c) : c \in BOOLEAN}
  <2>1. PICK c \in BOOLEAN : n = ConnectionNews(c)
    BY <1>1
  <2> QED BY <2>1, ConstantFacts DEF ConnectionNews
<1>2. CASE n \in [Items -> Values \cup {None}] /\ n[Connection] = None
  BY <1>2, ConstantFacts
<1> QED BY <1>1, <1>2 DEF News

USE DEF deviceVars, serverVars, sessionVars, bounds, vars

LEMMA TypeInit == RpcInit => TypeOK
<1> SUFFICES ASSUME RpcInit PROVE TypeOK
  OBVIOUS
<1>1. known \in [Rigs -> [Items -> Values \cup BOOLEAN \cup {None, Unknown}]]
  BY DEF RpcInit, NothingKnown
<1>2. telling \in [Rigs -> News] /\ cache \in [Rigs -> [Fields -> Values \cup {None}]]
  BY NewsType DEF RpcInit
<1>3. Len(bus) <= BusCap /\ Len(notices) <= NoticeCap /\ Len(toClient) <= SocketCap
  BY ConstantFacts, EmptySeq DEF RpcInit
<1>4. /\ bus \in Seq(Message) /\ notices \in Seq(Message) /\ publishing \in Seq(Message)
      /\ toServer \in Seq(Line) /\ toClient \in Seq(Reply \cup Notification)
      /\ Len(publishing) <= 1
  BY EmptySeq DEF RpcInit
<1>5. /\ conn \in [Rigs -> BOOLEAN] /\ rigsState \in [Listed -> BOOLEAN]
      /\ subs \in [Rigs -> SUBSET Fields]
  BY DEF RpcInit
<1> QED BY <1>1, <1>2, <1>3, <1>4, <1>5 DEF RpcInit, TypeOK

LEMMA NoRequestType == NoRequest.id = 0 /\ 0 \notin Ids
BY DEF NoRequest, Ids

LEMMA LineType ==
  ASSUME TypeOK, Reads
  PROVE  /\ Head(toServer) \in Line /\ Head(toServer).request \in Request
         /\ Tail(toServer) \in Seq(Line)
         /\ Len(toClient) + 1 <= SocketCap /\ Len(toClient) \in Nat
<1>1. toServer \in Seq(Line) /\ toServer # <<>>
  BY DEF TypeOK, Reads
<1>2. Head(toServer) \in Line /\ Tail(toServer) \in Seq(Line)
  BY <1>1
<1>3. Len(toClient) + 1 <= SocketCap /\ Len(toClient) \in Nat
  BY ConstantFacts DEF TypeOK, Reads, CanWrite
<1> QED BY <1>2, <1>3 DEF Line

LEMMA WriteType ==
  ASSUME TypeOK, Len(toClient) < SocketCap, NEW m \in Reply \cup Notification, Write(m)
  PROVE  toClient' \in Seq(Reply \cup Notification) /\ Len(toClient') <= SocketCap
BY ConstantFacts DEF TypeOK, Write

LEMMA BroadcastType ==
  ASSUME TypeOK, NEW m \in Message, Broadcast(m)
  PROVE  bus' \in Seq(Message) /\ Len(bus') <= BusCap /\ busLagged' \in BOOLEAN
BY ConstantFacts, PutType DEF TypeOK, Broadcast

\* Any request may be sent.
LEMMA SendType ==
  ASSUME TypeOK, NEW ask \in Ask, ClientSend(ask)
  PROVE  TypeOK'
<1> DEFINE q == [id |-> requests', ask |-> ask]
<1>1. q \in Request /\ requests' \in Nat
  BY ConstantFacts DEF ClientSend, Request, Ids, TypeOK
<1>2. PICK p \in Parts(q) : /\ toServer' = toServer \o p
                            /\ splits' = IF Len(p) = 2 THEN splits + 1 ELSE splits
  BY DEF ClientSend
<1> HIDE DEF q
<1>3. p \in Seq(Line)
  <2>1. \/ p = <<[part |-> "whole", request |-> q]>>
        \/ p = <<[part |-> "head", request |-> q], [part |-> "tail", request |-> q]>>
    BY <1>2 DEF Parts
  <2>2. \A w \in {"whole", "head", "tail"} : [part |-> w, request |-> q] \in Line
    BY <1>1 DEF Line
  <2>3. \A a, b \in Line : <<a>> \in Seq(Line) /\ <<a, b>> \in Seq(Line)
    OBVIOUS
  <2> QED BY <2>1, <2>2, <2>3
<1>4. toServer' \in Seq(Line) /\ splits' \in Nat
  BY <1>2, <1>3 DEF TypeOK
<1> QED BY <1>1, <1>4 DEF ClientSend, TypeOK

LEMMA SetStatusType ==
  ASSUME TypeOK, NEW r \in Rigs, NEW c \in BOOLEAN, SetStatus(r, c), changes' \in Nat
  PROVE  TypeOK'
<1>1. [rig |-> r, news |-> ConnectionNews(c)] \in Message
  BY NewsType DEF Message
<1>2. bus' \in Seq(Message) /\ Len(bus') <= BusCap /\ busLagged' \in BOOLEAN
  BY <1>1, BroadcastType DEF SetStatus
<1> QED BY <1>2 DEF SetStatus, TypeOK

LEMMA TypeStep == TypeOK /\ [RpcNext]_vars => TypeOK'
<1> SUFFICES ASSUME TypeOK, [RpcNext]_vars PROVE TypeOK'
  OBVIOUS
<1>1. ASSUME NEW r \in Rigs, ConnectionChange(r) PROVE TypeOK'
  <2>1. changes' \in Nat
    BY <1>1 DEF ConnectionChange, TypeOK
  <2> QED BY <1>1, <2>1, SetStatusType DEF ConnectionChange
<1>2. ASSUME NEW r \in Rigs, StatusChange(r) PROVE TypeOK'
  <2>1. PICK news \in [Implemented[r] -> Values \cup {None}] :
          /\ telling' = [telling EXCEPT ![r] =
               [x \in Items |-> IF x \in Implemented[r] THEN news[x] ELSE None]]
          /\ cache' = [cache EXCEPT ![r] = Extended(@, telling'[r])]
    BY <1>2 DEF StatusChange
  <2> DEFINE u == [x \in Items |-> IF x \in Implemented[r] THEN news[x] ELSE None]
  <2>2. u \in [Items -> Values \cup {None}]
    BY ConstantFacts
  <2>3. telling'[r] = u /\ telling' \in [Rigs -> News]
    <3> HIDE DEF u
    <3>1. u[Connection] = None
      BY ConstantFacts DEF u
    <3>2. u \in News
      BY <2>2, <3>1, ConstantFacts DEF News
    <3>3. telling' = [telling EXCEPT ![r] = u]
      BY <2>1 DEF u
    <3> QED BY <3>2, <3>3 DEF TypeOK
  <2>4. Extended(cache[r], u) \in [Fields -> Values \cup {None}]
    <3> HIDE DEF u
    <3> QED BY <2>2, ConstantFacts DEF Extended, TypeOK
  <2>5. cache' \in [Rigs -> [Fields -> Values \cup {None}]]
    <3> HIDE DEF u
    <3>1. cache' = [cache EXCEPT ![r] = Extended(cache[r], u)]
      BY <2>1, <2>3 DEF TypeOK
    <3> QED BY <3>1, <2>4 DEF TypeOK
  <2> QED BY <2>3, <2>5, <1>2 DEF StatusChange, TypeOK
<1>3. ASSUME NEW r \in Rigs, StatusTell(r) PROVE TypeOK'
  <2>1. [rig |-> r, news |-> telling[r]] \in Message
    BY DEF Message, TypeOK
  <2>2. bus' \in Seq(Message) /\ Len(bus') <= BusCap /\ busLagged' \in BOOLEAN
    BY <2>1, <1>3, BroadcastType DEF StatusTell
  <2> QED BY <2>2, <1>3, NewsType DEF StatusTell, TypeOK
<1>4. CASE TakeMessage
  <2>1. Head(bus) \in Message /\ Tail(bus) \in Seq(Message) /\ Len(Tail(bus)) <= BusCap
    BY <1>4, ConstantFacts DEF StateAfter, TakeMessage, TypeOK
  <2>2. publishing' \in Seq(Message) /\ Len(publishing') <= 1
    BY <1>4, <2>1 DEF StateAfter, TakeMessage
  <2>3. Head(bus).rig \in Rigs /\ Head(bus).news \in News
    BY <2>1 DEF Message
  <2>4. IsConnection(Head(bus)) => Head(bus).news[Connection] \in BOOLEAN
    BY <2>3, NewsShape DEF IsConnection
  <2>5. rigsState' \in [Listed -> BOOLEAN]
    BY <1>4, <2>4 DEF StateAfter, TakeMessage, TypeOK
  <2> QED BY <2>1, <2>2, <2>5, <1>4 DEF StateAfter, TakeMessage, TypeOK
<1>5. CASE Publish
  <2>1. publishing[1] \in Message
    BY <1>5 DEF Publish, TypeOK
  <2>2. notices' \in Seq(Message) /\ Len(notices') <= NoticeCap /\ lagged' \in BOOLEAN
    <3>1. CASE Live
      <4>1. Put(notices, NoticeCap, publishing[1]) \in Seq(Message)
            /\ Len(Put(notices, NoticeCap, publishing[1])) <= NoticeCap
        BY <2>1, PutType, ConstantFacts DEF TypeOK
      <4> QED BY <1>5, <3>1, <4>1 DEF Publish, TypeOK
    <3>2. CASE ~Live
      BY <1>5, <3>2 DEF Publish, TypeOK
    <3> QED BY <3>1, <3>2
  <2>3. known' \in [Rigs -> [Items -> Values \cup BOOLEAN \cup {None, Unknown}]]
    BY <1>5 DEF Publish, TypeOK
  <2>4. publishing' \in Seq(Message) /\ Len(publishing') <= 1
    BY <1>5 DEF Publish
  <2> QED BY <2>2, <2>3, <2>4, <1>5 DEF Publish, TypeOK
<1>6. CASE FallBehind
  <2>1. Len(bus') <= BusCap /\ bus' \in Seq(Message)
    BY <1>6, ConstantFacts, EmptySeq DEF FallBehind
  <2> QED BY <1>6, <2>1 DEF FallBehind, TypeOK
<1>7. CASE Accept
  <2>1. known' \in [Rigs -> [Items -> Values \cup BOOLEAN \cup {None, Unknown}]]
    BY <1>7 DEF Accept, NothingKnown
  <2>2. /\ Len(notices') <= NoticeCap /\ notices' \in Seq(Message)
        /\ Len(toClient') <= SocketCap /\ toClient' \in Seq(Reply \cup Notification)
        /\ toServer' \in Seq(Line)
    BY <1>7, ConstantFacts, EmptySeq DEF Accept
  <2> QED BY <2>1, <2>2, <1>7 DEF Accept, TypeOK
<1>8. CASE ReadHead
  BY <1>8 DEF ReadHead, TypeOK
<1>9. CASE ReadRemainder
  <2>1. Plain("error", 0) \in Reply
    BY DEF Plain, Reply
  <2>2. toClient' \in Seq(Reply \cup Notification) /\ Len(toClient') <= SocketCap
    BY <1>9, <2>1, WriteType DEF ReadRemainder, CanWrite, TypeOK
  <2> QED BY <2>2, <1>9 DEF ReadRemainder, TypeOK
<1>10. ASSUME HandleRequest PROVE TypeOK'
  <2> DEFINE q == Head(toServer).request
  <2>1. Reads
    BY <1>10 DEF HandleRequest, ListRigs, GetStatus, Subscribe, Unsubscribe,
                 GetCapabilities, Refuse, Execute, ExecutePanics
  <2>2. /\ q \in Request /\ q.id \in Ids /\ q.ask \in Ask
        /\ q.ask.rig \in Rigs \cup {None} /\ q.ask.fields \subseteq Fields
        /\ toServer' \in Seq(Line) /\ Len(toClient) < SocketCap /\ half' = FALSE
    <3>1. q \in Request /\ Tail(toServer) \in Seq(Line) /\ Len(toClient) < SocketCap
      BY <2>1, LineType, ConstantFacts
    <3>2. q.id \in Ids /\ q.ask \in Ask
      BY <3>1 DEF Request
    <3>3. q.ask.rig \in Rigs \cup {None} /\ q.ask.fields \subseteq Fields
      BY <3>2 DEF Ask
    <3> QED BY <3>1, <3>2, <3>3, <2>1 DEF Reads
  <2> HIDE DEF q
  <2>3. ASSUME toClient' \in Seq(Reply \cup Notification), Len(toClient') <= SocketCap,
               session' \in {"none", "open", "executing", "closed"},
               executing' \in Request \cup {NoRequest},
               subs' \in [Rigs -> SUBSET Fields],
               known' \in [Rigs -> [Items -> Values \cup BOOLEAN \cup {None, Unknown}]]
        PROVE  TypeOK'
    BY <2>1, <2>2, <2>3 DEF Reads, TypeOK
  <2>4. ASSUME NEW m \in Reply, Write(m)
        PROVE  toClient' \in Seq(Reply \cup Notification) /\ Len(toClient') <= SocketCap
    BY <2>2, <2>4, WriteType
  <2>5. \A w \in {"success", "result", "error"} : Plain(w, q.id) \in Reply
    BY <2>2 DEF Plain, Reply
  <2>6. CASE ListRigs(q)
    <3>1. [what |-> "rigs", id |-> q.id, rigs |-> rigsState] \in Reply
      BY <2>2 DEF Reply, TypeOK
    <3>2. known' \in [Rigs -> [Items -> Values \cup BOOLEAN \cup {None, Unknown}]]
      BY <2>6, ConstantFacts DEF ListRigs, TypeOK
    <3> QED BY <2>3, <2>4, <2>6, <3>1, <3>2 DEF ListRigs, TypeOK
  <2>7. CASE GetStatus(q)
    <3>1. q.ask.rig \in Rigs
      BY <2>2, <2>7 DEF GetStatus
    <3>2. [what |-> "values", id |-> q.id, values |-> cache[q.ask.rig]] \in Reply
      BY <2>2, <3>1 DEF Reply, TypeOK
    <3>3. Answered(q.ask.rig) \in [Items -> Values \cup BOOLEAN \cup {None, Unknown}]
      <4>1. \A x \in Items : x \in subs[q.ask.rig] =>
              cache[q.ask.rig][x] \in Values \cup {None}
        BY <3>1 DEF TypeOK
      <4>2. \A x \in Items : known[q.ask.rig][x] \in Values \cup BOOLEAN \cup {None, Unknown}
        BY <3>1 DEF TypeOK
      <4> QED BY <4>1, <4>2 DEF Answered
    <3>4. known' \in [Rigs -> [Items -> Values \cup BOOLEAN \cup {None, Unknown}]]
      BY <2>7, <3>1, <3>3 DEF GetStatus, TypeOK
    <3> QED BY <2>3, <2>4, <2>7, <3>2, <3>4 DEF GetStatus, TypeOK
  <2>8. CASE Subscribe(q)
    <3>1. q.ask.rig \in Rigs
      BY <2>8, ConstantFacts DEF Subscribe, Served
    <3>2. subs' \in [Rigs -> SUBSET Fields]
      BY <2>8, <2>2, <3>1 DEF Subscribe, TypeOK
    <3>3. known' \in [Rigs -> [Items -> Values \cup BOOLEAN \cup {None, Unknown}]]
      BY <2>8, <3>1 DEF Subscribe, TypeOK
    <3> QED BY <2>3, <2>4, <2>5, <2>8, <3>2, <3>3 DEF Subscribe, TypeOK
  <2>9. CASE Unsubscribe(q)
    <3>1. q.ask.rig \in Rigs
      BY <2>9, <2>2 DEF Unsubscribe
    <3>2. subs' \in [Rigs -> SUBSET Fields]
      BY <2>9, <3>1 DEF Unsubscribe, TypeOK
    <3>3. known' \in [Rigs -> [Items -> Values \cup BOOLEAN \cup {None, Unknown}]]
      BY <2>9, <3>1 DEF Unsubscribe, TypeOK
    <3> QED BY <2>3, <2>4, <2>5, <2>9, <3>2, <3>3 DEF Unsubscribe, TypeOK
  <2>10. CASE GetCapabilities(q)
    <3>1. [what |-> "capabilities", id |-> q.id, fields |-> Implemented[q.ask.rig]] \in Reply
      BY <2>2, <2>10, ConstantFacts DEF Reply, GetCapabilities, Served
    <3> QED BY <2>3, <2>4, <2>10, <3>1 DEF GetCapabilities, TypeOK
  <2>11. CASE Refuse(q)
    <3>1. Plain("error", q.id) \in Reply /\ Plain("error", 0) \in Reply
      BY <2>2 DEF Plain, Reply
    <3>2. Write(Plain("error", q.id)) \/ Write(Plain("error", 0))
      BY <2>11 DEF Refuse
    <3>3. toClient' \in Seq(Reply \cup Notification) /\ Len(toClient') <= SocketCap
      BY <2>4, <3>1, <3>2
    <3> QED BY <2>3, <2>11, <3>3 DEF Refuse, TypeOK
  <2>12. CASE Execute(q)
    BY <2>2, <2>3, <2>12 DEF Execute, TypeOK
  <2>13. CASE ExecutePanics(q)
    BY <2>2, <2>3, <2>13 DEF ExecutePanics, TypeOK
  <2> QED BY <1>10, <2>6, <2>7, <2>8, <2>9, <2>10, <2>11, <2>12, <2>13
          DEF HandleRequest, q
<1>11. CASE ExecuteDone
  <2>1. executing.id \in Ids
    BY <1>11 DEF ExecuteDone, TypeOK, Request
  <2>2. \A w \in {"result", "error"} : Plain(w, executing.id) \in Reply
    BY <2>1 DEF Plain, Reply
  <2>3. toClient' \in Seq(Reply \cup Notification) /\ Len(toClient') <= SocketCap
    BY <1>11, <2>2, WriteType DEF ExecuteDone, CanWrite
  <2> QED BY <2>3, <1>11 DEF ExecuteDone, TypeOK
<1>12. CASE Notify
  <2> DEFINE m == Head(notices)
  <2>1. m \in Message /\ Tail(notices) \in Seq(Message) /\ Len(Tail(notices)) <= NoticeCap
    BY <1>12, ConstantFacts DEF Notify, TypeOK
  <2>2. m.rig \in Rigs /\ m.news \in News
    BY <2>1 DEF Message
  <2> HIDE DEF m
  <2>3. Filtered(m) \in News
    <3>1. CASE IsConnection(m)
      <4>1. Filtered(m) = [x \in Items |-> m.news[x]] /\ m.news \in [Items -> Values \cup BOOLEAN \cup {None}]
        BY <2>2, <3>1, NewsShape DEF Filtered
      <4>2. [x \in Items |-> m.news[x]] = m.news
        BY <4>1
      <4> QED BY <2>2, <4>1, <4>2
    <3>2. CASE ~IsConnection(m)
      <4>1. \A x \in Items : Filtered(m)[x] \in Values \cup {None}
        <5>1. m.news[Connection] = None /\ \A f \in Fields : m.news[f] \in Values \cup {None}
          <6>1. m.news[Connection] = None
            BY <3>2 DEF IsConnection
          <6>2. \A f \in Fields : m.news[f] \in Values \cup {None}
            BY <2>2, NewsShape
          <6> QED BY <6>1, <6>2
        <5> QED BY <5>1 DEF Filtered, Items
      <4>2. Filtered(m)[Connection] = None
        BY <3>2, ConstantFacts DEF Filtered, IsConnection
      <4>3. Filtered(m) = [x \in Items |-> Filtered(m)[x]]
        BY DEF Filtered
      <4>4. Filtered(m) \in [Items -> Values \cup {None}]
        BY <4>1, <4>3
      <4> QED BY <4>2, <4>4 DEF News
    <3> QED BY <3>1, <3>2
  <2>4. [what |-> "news", rig |-> m.rig, news |-> Filtered(m)] \in Notification
    BY <2>2, <2>3 DEF Notification
  <2>5. \A x \in Items : Filtered(m)[x] \in Values \cup BOOLEAN \cup {None}
    BY <2>3, NewsShape
  <2>6. CASE Filtered(m) = NoNews
    BY <1>12, <2>1, <2>6 DEF Notify, TypeOK, m
  <2>7. CASE Filtered(m) # NoNews
    <3>1. /\ Len(toClient) < SocketCap
          /\ Write([what |-> "news", rig |-> m.rig, news |-> Filtered(m)])
          /\ known' = [known EXCEPT ![m.rig] = [x \in Items |->
                 IF Filtered(m)[x] = None THEN @[x] ELSE Filtered(m)[x]]]
      BY <1>12, <2>7 DEF Notify, CanWrite, m
    <3>2. toClient' \in Seq(Reply \cup Notification) /\ Len(toClient') <= SocketCap
      BY <2>4, <3>1, WriteType
    <3>3. known' \in [Rigs -> [Items -> Values \cup BOOLEAN \cup {None, Unknown}]]
      BY <2>2, <2>5, <3>1 DEF TypeOK
    <3> QED BY <1>12, <2>1, <3>2, <3>3 DEF Notify, TypeOK, m
  <2> QED BY <2>6, <2>7
<1>13. CASE Skip
  BY <1>13 DEF Skip, TypeOK
<1>14. CASE SessionEnd
  BY <1>14 DEF SessionEnd, TypeOK
<1>15. ASSUME NEW ask \in Asks, ClientSend(ask) PROVE TypeOK'
  BY <1>15, SendType, ConstantFacts
<1>16. CASE ClientReceive
  BY <1>16, ConstantFacts DEF ClientReceive, TypeOK
<1>17. CASE ClientHangup
  BY <1>17 DEF ClientHangup, TypeOK
<1>18. CASE UNCHANGED vars
  BY <1>18 DEF TypeOK
<1> QED BY <1>1, <1>2, <1>3, <1>4, <1>5, <1>6, <1>7, <1>8, <1>9, <1>10, <1>11, <1>12,
           <1>13, <1>14, <1>15, <1>16, <1>17, <1>18
        DEF RpcNext, Devices, Server, Session

-----------------------------------------------------------------------------
(* What the session told, what is on its way, and what the devices said.   *)

LEMMA FollowsInit == RpcInit => Follows
<1> SUFFICES ASSUME RpcInit PROVE Follows
  OBVIOUS
<1>1. TellingConsistent
  BY DEF RpcInit, TellingConsistent, NoNews
<1>2. KnownSubscribed
  BY ConstantFacts DEF RpcInit, KnownSubscribed, NothingKnown
<1>3. StateIsNewest /\ StateFollows
  BY LatestEmpty, ConstantFacts DEF RpcInit, StateIsNewest, StateFollows, Live
<1>4. TruthIsNewest
  BY LatestEmpty DEF RpcInit, TruthIsNewest, Arriving
<1>5. SessionFollows
  BY DEF RpcInit, SessionFollows, Live
<1> QED BY <1>1, <1>2, <1>3, <1>4, <1>5 DEF Follows

\* A step that touches neither the devices nor the channels, nor what was told.
LEMMA QuietStep ==
  ASSUME Follows, Live' => Live,
         UNCHANGED <<conn, cache, telling, bus, busLagged, serving, rigsState, publishing,
                     notices, known, subs>>
  PROVE  Follows'
BY DEF Follows, TellingConsistent, KnownSubscribed, StateIsNewest, StateFollows,
       TruthIsNewest, SessionFollows, KeepsUp, Truth, Arriving, Settled

\* A step of the session that tells the client something, or forgets what it told.
LEMMA TellStep ==
  ASSUME Follows, Live, KnownSubscribed',
         UNCHANGED <<conn, cache, telling, bus, busLagged, serving, rigsState, publishing,
                     notices>>,
         KeepsUp => \A r \in Rigs : \A x \in Items :
           \/ known'[r][x] \in {Unknown, known[r][x]}
           \/ x \in Fields /\ known'[r][x] = cache[r][x]
           \/ x = Connection /\ r \in Listed /\ known'[r][x] = rigsState[r]
  PROVE  Follows'
<1>1. /\ TellingConsistent' /\ StateFollows' /\ (KeepsUp' <=> KeepsUp)
      /\ \A r \in Rigs : \A x \in Items : Truth(r, x)' = Truth(r, x)
  BY DEF Follows, TellingConsistent, StateFollows, KeepsUp, Truth
<1>2. StateIsNewest'
  BY DEF Follows, StateIsNewest
<1>3. TruthIsNewest'
  BY <1>1 DEF Follows, TruthIsNewest, Arriving
<1>4. SessionFollows'
  <2> SUFFICES ASSUME KeepsUp, NEW r \in Rigs, NEW x \in Items, known'[r][x] # Unknown
               PROVE  Settled(r, x, known[r][x])' = Truth(r, x)
    BY <1>1 DEF SessionFollows
  <2>1. telling[r][x] # None => telling[r][x] = Truth(r, x)
    BY DEF Follows, TellingConsistent
  <2>2. telling[r][x] = None => Arriving(r, x, Truth(r, x)) = Truth(r, x)
    BY DEF Follows, TruthIsNewest
  <2>3. CASE known'[r][x] = known[r][x]
    BY <2>3 DEF Follows, SessionFollows, Settled, Arriving
  <2>4. CASE x \in Fields /\ known'[r][x] = cache[r][x]
    <3>1. known'[r][x] = Truth(r, x)
      BY <2>4, ConstantFacts DEF Truth
    <3> QED BY <3>1, <2>1, <2>2 DEF Settled, Arriving
  <2>5. CASE x = Connection /\ r \in Listed /\ known'[r][x] = rigsState[r]
    <3>1. Latest(publishing, r, x, Latest(notices, r, x, rigsState[r])) = rigsState[r]
      BY <2>5 DEF Follows, StateIsNewest
    <3>2. Latest(bus, r, x, rigsState[r]) = Truth(r, x)
      BY <2>5 DEF Follows, StateFollows, Truth
    <3> QED BY <2>1, <2>5, <3>1, <3>2 DEF Settled, Arriving
  <2> QED BY <2>3, <2>4, <2>5
<1> QED BY <1>1, <1>2, <1>3, <1>4 DEF Follows

\* A message that is not lost is the newest there is for the server.
LEMMA BroadcastLatest ==
  ASSUME TypeOK, NEW m \in Message, Broadcast(m), serving' = serving, KeepsUp'
  PROVE  /\ KeepsUp
         /\ \A r, x, d : Latest(bus', r, x, d) =
              IF Tells(m, r, x) THEN m.news[x] ELSE Latest(bus, r, x, d)
<1>1. serving /\ ~busLagged /\ Len(bus) # BusCap /\ bus' = Put(bus, BusCap, m)
  BY DEF Broadcast, KeepsUp
<1>2. bus \in Seq(Message) /\ Len(bus) <= BusCap /\ Len(bus) < BusCap
  BY <1>1, ConstantFacts DEF TypeOK
<1>3. ASSUME NEW r, NEW x, NEW d
      PROVE  Latest(Put(bus, BusCap, m), r, x, d) =
               IF Tells(m, r, x) THEN m.news[x] ELSE Latest(bus, r, x, d)
  BY <1>2, LatestPut, ConstantFacts
<1> QED BY <1>1, <1>3 DEF KeepsUp

LEMMA ConnectionStep ==
  ASSUME IInv, NEW o \in Rigs, NEW c \in BOOLEAN, SetStatus(o, c)
  PROVE  Follows'
<1> USE DEF IInv, Follows
<1>1. /\ conn' = [conn EXCEPT ![o] = c]
      /\ Broadcast([rig |-> o, news |-> ConnectionNews(c)])
  BY DEF SetStatus
<1> DEFINE m == [rig |-> o, news |-> ConnectionNews(c)]
<1>2. /\ m \in Message
      /\ \A r \in Rigs : \A x \in Items : Tells(m, r, x) <=> r = o /\ x = Connection
      /\ m.news[Connection] = c
  BY NewsType, ConstantFacts DEF Message, Tells, ConnectionNews
<1>3. UNCHANGED <<cache, telling, serving, rigsState, publishing, session, notices, known, subs>>
  BY DEF SetStatus
<1>4. \A r \in Rigs : \A x \in Items :
        Truth(r, x)' = IF r = o /\ x = Connection THEN c ELSE Truth(r, x)
  BY <1>1, <1>3 DEF Truth, TypeOK
<1>5. KeepsUp' => /\ KeepsUp
                 /\ \A r, x, d : Latest(bus', r, x, d) =
                      IF Tells(m, r, x) THEN m.news[x] ELSE Latest(bus, r, x, d)
  BY <1>1, <1>2, <1>3, BroadcastLatest
<1> HIDE DEF m
<1>6. TellingConsistent'
  BY <1>3, <1>4 DEF TellingConsistent
<1>7. KnownSubscribed' /\ StateIsNewest'
  BY <1>3 DEF KnownSubscribed, StateIsNewest, Live
<1>8. StateFollows'
  <2> SUFFICES ASSUME KeepsUp', NEW r \in Listed
               PROVE  Latest(bus', r, Connection, rigsState'[r]) = conn'[r]
    BY DEF StateFollows
  <2>1. Latest(bus, r, Connection, rigsState[r]) = conn[r]
    BY <1>5 DEF StateFollows
  <2> QED BY <2>1, <1>1, <1>2, <1>3, <1>5, ConstantFacts DEF TypeOK
<1>9. TruthIsNewest'
  <2> SUFFICES ASSUME KeepsUp', NEW r \in Rigs, NEW x \in Items, telling'[r][x] = None
               PROVE  /\ Latest(bus', r, x, Latest(publishing', r, x, Truth(r, x)')) = Truth(r, x)'
                      /\ Live' => Latest(bus', r, x, Latest(publishing', r, x,
                                    Latest(notices', r, x, Truth(r, x)'))) = Truth(r, x)'
    BY DEF TruthIsNewest, Arriving
  <2>1. CASE r = o /\ x = Connection
    BY <2>1, <1>2, <1>4, <1>5
  <2>2. CASE ~(r = o /\ x = Connection)
    BY <2>2, <1>2, <1>3, <1>4, <1>5 DEF TruthIsNewest, Arriving, Live
  <2> QED BY <2>1, <2>2
<1>10. SessionFollows'
  <2> SUFFICES ASSUME KeepsUp', Live', NEW r \in Rigs, NEW x \in Items, known'[r][x] # Unknown
               PROVE  Settled(r, x, known[r][x])' = Truth(r, x)'
    BY DEF SessionFollows
  <2>1. CASE r = o /\ x = Connection
    <3>1. telling'[r][x] = None
      BY <1>3, <2>1 DEF TellingConsistent
    <3> QED BY <3>1, <2>1, <1>2, <1>4, <1>5 DEF Settled, Arriving
  <2>2. CASE ~(r = o /\ x = Connection)
    BY <2>2, <1>2, <1>3, <1>4, <1>5 DEF SessionFollows, Settled, Arriving, Live
  <2> QED BY <2>1, <2>2
<1> QED BY <1>6, <1>7, <1>8, <1>9, <1>10

LEMMA StatusChangeStep ==
  ASSUME IInv, NEW o \in Rigs, StatusChange(o)
  PROVE  Follows'
<1> USE DEF IInv, Follows
<1>1. PICK news \in [Implemented[o] -> Values \cup {None}] :
        /\ telling' = [telling EXCEPT ![o] =
             [x \in Items |-> IF x \in Implemented[o] THEN news[x] ELSE None]]
        /\ cache' = [cache EXCEPT ![o] = Extended(@, telling'[o])]
  BY DEF StatusChange
<1> DEFINE u == [x \in Items |-> IF x \in Implemented[o] THEN news[x] ELSE None]
<1>2. u[Connection] = None /\ telling[o] = NoNews
  BY ConstantFacts DEF StatusChange
<1>3. telling' = [telling EXCEPT ![o] = u] /\ telling'[o] = u
  BY <1>1 DEF TypeOK
<1> HIDE DEF u
<1>4. cache' = [cache EXCEPT ![o] = Extended(cache[o], u)]
  BY <1>1, <1>3 DEF TypeOK
<1>5. UNCHANGED <<conn, serving, bus, busLagged, rigsState, publishing, session, notices,
                  known, subs>>
  BY DEF StatusChange
<1>6. \A r \in Rigs : \A x \in Items :
        /\ Truth(r, x)' = IF r = o /\ u[x] # None THEN u[x] ELSE Truth(r, x)
        /\ telling'[r][x] = IF r = o THEN u[x] ELSE telling[r][x]
        /\ r = o => telling[r][x] = None
  <2> SUFFICES ASSUME NEW r \in Rigs, NEW x \in Items
               PROVE  /\ Truth(r, x)' = IF r = o /\ u[x] # None THEN u[x] ELSE Truth(r, x)
                      /\ telling'[r][x] = IF r = o THEN u[x] ELSE telling[r][x]
                      /\ r = o => telling[r][x] = None
    OBVIOUS
  <2>1. /\ telling'[r][x] = IF r = o THEN u[x] ELSE telling[r][x]
        /\ r = o => telling[r][x] = None
    BY <1>2, <1>3 DEF TypeOK, NoNews
  <2>2. CASE x = Connection
    <3>1. Truth(r, x)' = Truth(r, x)
      BY <2>2, <1>5 DEF Truth
    <3>2. u[x] = None
      BY <2>2, <1>2
    <3> QED BY <3>1, <3>2, <2>1
  <2>3. CASE x \in Fields
    <3>1. x # Connection /\ Truth(r, x) = cache[r][x] /\ Truth(r, x)' = cache'[r][x]
      BY <2>3, ConstantFacts DEF Truth
    <3>2. cache'[r] = IF r = o THEN Extended(cache[o], u) ELSE cache[r]
      BY <1>4 DEF TypeOK
    <3>3. Extended(cache[o], u)[x] = IF u[x] = None THEN cache[o][x] ELSE u[x]
      BY <2>3 DEF Extended
    <3> QED BY <2>1, <3>1, <3>2, <3>3
  <2> QED BY <2>1, <2>2, <2>3 DEF Items
<1>7. TellingConsistent'
  BY <1>2, <1>6 DEF TellingConsistent
<1>8. KnownSubscribed' /\ StateIsNewest' /\ StateFollows' /\ (KeepsUp' <=> KeepsUp)
  BY <1>5 DEF KnownSubscribed, StateIsNewest, StateFollows, Live, KeepsUp
<1>9. TruthIsNewest'
  BY <1>5, <1>6, <1>8 DEF TruthIsNewest, Arriving, Live
<1>10. SessionFollows'
  <2> SUFFICES ASSUME KeepsUp', Live', NEW r \in Rigs, NEW x \in Items, known'[r][x] # Unknown
               PROVE  Settled(r, x, known[r][x])' = Truth(r, x)'
    BY DEF SessionFollows
  <2>1. Settled(r, x, known[r][x]) = Truth(r, x)
    BY <1>5, <1>8 DEF SessionFollows, Live
  <2>2. Arriving(r, x, known[r][x])' = Arriving(r, x, known[r][x])
    BY <1>5 DEF Arriving
  <2> QED BY <2>1, <2>2, <1>6 DEF Settled
<1> QED BY <1>7, <1>8, <1>9, <1>10

LEMMA StatusTellStep ==
  ASSUME IInv, NEW o \in Rigs, StatusTell(o)
  PROVE  Follows'
<1> USE DEF IInv, Follows
<1> DEFINE m == [rig |-> o, news |-> telling[o]]
<1>1. /\ m \in Message
      /\ \A r \in Rigs : \A x \in Items :
           /\ Tells(m, r, x) <=> r = o /\ telling[r][x] # None
           /\ r = o => m.news[x] = telling[r][x]
  BY DEF Message, Tells, TypeOK
<1>2. Broadcast(m) /\ telling' = [telling EXCEPT ![o] = NoNews]
  BY DEF StatusTell
<1> HIDE DEF m
<1>3. UNCHANGED <<conn, cache, serving, rigsState, publishing, session, notices, known, subs>>
  BY DEF StatusTell
<1>4. \A r \in Rigs : \A x \in Items :
        /\ Truth(r, x)' = Truth(r, x)
        /\ telling'[r][x] = IF r = o THEN None ELSE telling[r][x]
        /\ telling[r][x] # None => x # Connection /\ telling[r][x] = Truth(r, x)
  BY <1>2, <1>3 DEF Truth, TypeOK, NoNews, TellingConsistent
<1>5. KeepsUp' => /\ KeepsUp
                 /\ \A r, x, d : Latest(bus', r, x, d) =
                      IF Tells(m, r, x) THEN m.news[x] ELSE Latest(bus, r, x, d)
  BY <1>1, <1>2, <1>3, BroadcastLatest
<1>6. TellingConsistent' /\ KnownSubscribed' /\ StateIsNewest'
  BY <1>3, <1>4 DEF TellingConsistent, KnownSubscribed, StateIsNewest, Live
<1>7. StateFollows'
  <2> SUFFICES ASSUME KeepsUp', NEW r \in Listed
               PROVE  Latest(bus', r, Connection, rigsState'[r]) = conn'[r]
    BY DEF StateFollows
  <2>1. ~Tells(m, r, Connection)
    BY <1>1, <1>4, ConstantFacts
  <2> QED BY <2>1, <1>3, <1>5 DEF StateFollows
<1>8. TruthIsNewest'
  <2> SUFFICES ASSUME KeepsUp', NEW r \in Rigs, NEW x \in Items, telling'[r][x] = None
               PROVE  /\ Latest(bus', r, x, Latest(publishing', r, x, Truth(r, x)')) = Truth(r, x)'
                      /\ Live' => Latest(bus', r, x, Latest(publishing', r, x,
                                    Latest(notices', r, x, Truth(r, x)'))) = Truth(r, x)'
    BY DEF TruthIsNewest, Arriving
  <2>1. CASE Tells(m, r, x)
    BY <2>1, <1>1, <1>4, <1>5
  <2>2. CASE ~Tells(m, r, x)
    BY <2>2, <1>1, <1>3, <1>4, <1>5 DEF TruthIsNewest, Arriving, Live
  <2> QED BY <2>1, <2>2
<1>9. SessionFollows'
  <2> SUFFICES ASSUME KeepsUp', Live', NEW r \in Rigs, NEW x \in Items, known'[r][x] # Unknown
               PROVE  Settled(r, x, known[r][x])' = Truth(r, x)'
    BY DEF SessionFollows
  <2>1. Settled(r, x, known[r][x]) = Truth(r, x)
    BY <1>3, <1>5 DEF SessionFollows, Live
  <2>2. CASE Tells(m, r, x)
    BY <2>2, <1>1, <1>4, <1>5 DEF Settled, Arriving
  <2>3. CASE ~Tells(m, r, x)
    BY <2>1, <2>3, <1>1, <1>3, <1>4, <1>5 DEF Settled, Arriving
  <2> QED BY <2>2, <2>3
<1> QED BY <1>6, <1>7, <1>8, <1>9

LEMMA TakeStep ==
  ASSUME IInv, TakeMessage
  PROVE  Follows'
<1> USE DEF IInv, Follows
<1> DEFINE h == Head(bus)
<1>1. /\ bus \in Seq(Message) /\ bus # <<>> /\ h \in Message
      /\ publishing = <<>> /\ bus' = Tail(bus) /\ publishing' = <<h>>
      /\ rigsState' = [r \in Listed |-> IF IsConnection(h) /\ h.rig = r
                                        THEN h.news[Connection] ELSE rigsState[r]]
  BY DEF StateAfter, TakeMessage, TypeOK
<1> HIDE DEF h
<1>2. UNCHANGED <<conn, cache, telling, serving, busLagged, session, notices, known, subs>>
  BY DEF StateAfter, TakeMessage
<1>3. \A r, x, d :
        /\ Latest(publishing, r, x, d) = d
        /\ Latest(publishing', r, x, d) = IF Tells(h, r, x) THEN h.news[x] ELSE d
        /\ Latest(bus', r, x, Latest(publishing', r, x, d)) = Latest(bus, r, x, d)
  <2> SUFFICES ASSUME NEW r, NEW x, NEW d
      PROVE  /\ Latest(publishing, r, x, d) = d
             /\ Latest(publishing', r, x, d) = IF Tells(h, r, x) THEN h.news[x] ELSE d
             /\ Latest(bus', r, x, Latest(publishing', r, x, d)) = Latest(bus, r, x, d)
    OBVIOUS
  <2>1. Latest(<<>>, r, x, d) = d
    BY LatestEmpty
  <2>3. Latest(<<h>>, r, x, d) = IF Tells(h, r, x) THEN h.news[x] ELSE d
    BY <1>1, LatestOne
  <2>4. Latest(bus, r, x, d) = Latest(Tail(bus), r, x, IF Tells(h, r, x) THEN h.news[x] ELSE d)
    BY <1>1, LatestTail DEF h
  <2> QED BY <2>1, <2>3, <2>4, <1>1
<1>4. \A r \in Listed : rigsState'[r] = IF Tells(h, r, Connection)
                                       THEN h.news[Connection] ELSE rigsState[r]
  BY <1>1 DEF Tells, IsConnection
<1>5. TellingConsistent' /\ KnownSubscribed' /\ (KeepsUp' <=> KeepsUp) /\ (Live' <=> Live)
      /\ \A r, x : Truth(r, x)' = Truth(r, x)
  BY <1>2 DEF TellingConsistent, KnownSubscribed, KeepsUp, Live, Truth
<1>6. StateIsNewest'
  <2> SUFFICES ASSUME NEW r \in Listed
      PROVE  /\ Latest(publishing', r, Connection, rigsState'[r]) = rigsState'[r]
             /\ Live => Latest(publishing', r, Connection,
                          Latest(notices, r, Connection, rigsState'[r])) = rigsState'[r]
    BY <1>2, <1>5 DEF StateIsNewest
  <2>1. Live => Latest(notices, r, Connection, rigsState[r]) = rigsState[r]
    BY <1>3 DEF StateIsNewest
  <2> QED BY <2>1, <1>3, <1>4
<1>7. StateFollows'
  <2> SUFFICES ASSUME KeepsUp, NEW r \in Listed
      PROVE  Latest(bus', r, Connection, rigsState'[r]) = conn[r]
    BY <1>2, <1>5 DEF StateFollows
  <2>1. Latest(bus, r, Connection, rigsState[r]) = conn[r]
    BY DEF StateFollows
  <2> QED BY <2>1, <1>3, <1>4
<1>8. TruthIsNewest'
  BY <1>2, <1>3, <1>5 DEF TruthIsNewest, Arriving
<1>9. SessionFollows'
  <2> SUFFICES ASSUME KeepsUp, Live, NEW r \in Rigs, NEW x \in Items, known[r][x] # Unknown
               PROVE  Settled(r, x, known[r][x])' = Truth(r, x)
    BY <1>2, <1>5 DEF SessionFollows
  <2>1. Settled(r, x, known[r][x]) = Truth(r, x)
    BY DEF SessionFollows
  <2>2. Arriving(r, x, known[r][x])' = Arriving(r, x, known[r][x])
    BY <1>2, <1>3 DEF Arriving
  <2> QED BY <2>1, <2>2, <1>2 DEF Settled
<1> QED BY <1>5, <1>6, <1>7, <1>8, <1>9

LEMMA PublishStep ==
  ASSUME IInv, Publish
  PROVE  Follows'
<1> USE DEF IInv, Follows
<1> DEFINE m == publishing[1]
           h == Head(notices)
           full == Len(notices) = NoticeCap
<1>1. m \in Message /\ publishing = <<m>> /\ publishing' = <<>>
  <2>1. /\ publishing \in Seq(Message) /\ publishing # <<>> /\ Len(publishing) <= 1
        /\ publishing' = <<>>
    BY DEF Publish, TypeOK
  <2>2. Len(publishing) = 1 /\ publishing[1] \in Message
    BY <2>1
  <2>3. publishing = <<publishing[1]>>
    BY <2>1, <2>2
  <2> QED BY <2>1, <2>2, <2>3
<1>2. UNCHANGED <<conn, cache, telling, serving, busLagged, bus, rigsState, session, subs>>
  BY DEF Publish
<1>3. /\ notices \in Seq(Message) /\ Len(notices) <= NoticeCap
      /\ full => notices # <<>>
  BY ConstantFacts DEF TypeOK
<1>4. /\ Live => /\ notices' = Put(notices, NoticeCap, m)
                 /\ known' = [r \in Rigs |-> [x \in Items |->
                      IF full /\ Tells(h, r, x) THEN Unknown ELSE known[r][x]]]
      /\ ~Live => UNCHANGED <<notices, known>>
  BY DEF Publish
<1> HIDE DEF m, h, full
<1>5. TellingConsistent' /\ StateFollows' /\ (KeepsUp' <=> KeepsUp) /\ (Live' <=> Live)
      /\ \A r, x : Truth(r, x)' = Truth(r, x)
  BY <1>2 DEF TellingConsistent, StateFollows, KeepsUp, Live, Truth
<1>6. KnownSubscribed'
  <2>1. CASE Live
    BY <2>1, <1>2, <1>4, ConstantFacts DEF KnownSubscribed
  <2>2. CASE ~Live
    BY <2>2, <1>2, <1>4 DEF KnownSubscribed
  <2> QED BY <2>1, <2>2
<1>7. ASSUME NEW r, NEW x, NEW d
      PROVE  /\ Latest(publishing, r, x, d) = IF Tells(m, r, x) THEN m.news[x] ELSE d
             /\ Latest(publishing', r, x, d) = d
  <2>1. Latest(<<>>, r, x, d) = d
    BY LatestEmpty
  <2>3. Latest(<<m>>, r, x, d) = IF Tells(m, r, x) THEN m.news[x] ELSE d
    BY <1>1, LatestOne
  <2> QED BY <2>1, <2>3, <1>1
<1>8. ASSUME Live, NEW r, NEW x, NEW d
      PROVE  /\ Tells(m, r, x) => Latest(notices', r, x, d) = m.news[x]
             /\ ~Tells(m, r, x) /\ ~full => Latest(notices', r, x, d) = Latest(notices, r, x, d)
             /\ ~Tells(m, r, x) /\ full =>
                  /\ Latest(notices', r, x, d) = Latest(Tail(notices), r, x, d)
                  /\ Latest(notices, r, x, d) = Latest(Tail(notices), r, x,
                                            IF Tells(h, r, x) THEN h.news[x] ELSE d)
  <2>1. Latest(notices', r, x, d) =
          IF Tells(m, r, x) THEN m.news[x]
          ELSE IF Len(notices) < NoticeCap THEN Latest(notices, r, x, d)
               ELSE Latest(Tail(notices), r, x, d)
    BY <1>8, <1>1, <1>3, <1>4, LatestPut, ConstantFacts
  <2>2. full <=> ~(Len(notices) < NoticeCap)
    BY <1>3, ConstantFacts DEF full
  <2>3. full => Latest(notices, r, x, d) = Latest(Tail(notices), r, x,
                                            IF Tells(h, r, x) THEN h.news[x] ELSE d)
    BY <1>3, LatestTail DEF h
  <2> QED BY <2>1, <2>2, <2>3
<1>9. StateIsNewest'
  <2> SUFFICES ASSUME NEW r \in Listed, Live
      PROVE  Latest(notices', r, Connection, rigsState[r]) = rigsState[r]
    BY <1>2, <1>5, <1>7 DEF StateIsNewest
  <2>1. /\ Tells(m, r, Connection) => m.news[Connection] = rigsState[r]
        /\ ~Tells(m, r, Connection) => Latest(notices, r, Connection, rigsState[r]) = rigsState[r]
    BY <1>7 DEF StateIsNewest
  <2>2. CASE Tells(m, r, Connection) \/ ~full
    BY <2>1, <2>2, <1>8
  <2>3. CASE ~Tells(m, r, Connection) /\ full
    BY <2>1, <2>3, <1>8, LatestCases
  <2> QED BY <2>2, <2>3
<1>10. TruthIsNewest'
  <2> SUFFICES ASSUME KeepsUp, NEW r \in Rigs, NEW x \in Items, telling[r][x] = None
               PROVE  /\ Latest(bus, r, x, Truth(r, x)) = Truth(r, x)
                      /\ Live => Latest(bus, r, x, Latest(notices', r, x, Truth(r, x))) = Truth(r, x)
    BY <1>2, <1>5, <1>7 DEF TruthIsNewest, Arriving
  <2>1. Latest(bus, r, x, Latest(publishing, r, x, Truth(r, x))) = Truth(r, x)
    BY DEF TruthIsNewest
  <2>2. Latest(bus, r, x, Truth(r, x)) = Truth(r, x)
    BY <2>1, LatestCases
  <2>3. ASSUME Live
        PROVE  Latest(bus, r, x, Latest(notices', r, x, Truth(r, x))) = Truth(r, x)
    <3>1. Latest(bus, r, x, Latest(publishing, r, x, Latest(notices, r, x, Truth(r, x)))) = Truth(r, x)
      BY <2>3 DEF TruthIsNewest, Arriving
    <3>2. CASE Tells(m, r, x) \/ ~full
      BY <2>3, <3>1, <3>2, <1>7, <1>8
    <3>3. CASE ~Tells(m, r, x) /\ full
      <4>1. Latest(bus, r, x, Latest(notices, r, x, Truth(r, x))) = Truth(r, x)
        BY <3>1, <3>3, <1>7
      <4>2. CASE Heard(Tail(notices), r, x)
        BY <4>1, <4>2, <3>3, <2>3, <1>8, LatestCases
      <4>3. CASE ~Heard(Tail(notices), r, x)
        <5>1. Latest(notices', r, x, Truth(r, x)) = Truth(r, x)
          BY <4>3, <3>3, <2>3, <1>8, LatestCases
        <5> QED BY <5>1, <2>2
      <4> QED BY <4>2, <4>3
    <3> QED BY <3>2, <3>3
  <2> QED BY <2>2, <2>3
<1>11. SessionFollows'
  <2> SUFFICES ASSUME KeepsUp, Live, NEW r \in Rigs, NEW x \in Items, known'[r][x] # Unknown
               PROVE  Settled(r, x, known[r][x])' = Truth(r, x)
    BY <1>5 DEF SessionFollows
  <2>1. known'[r][x] = known[r][x] /\ ~(full /\ Tells(h, r, x))
    BY <1>4
  <2>2. Settled(r, x, known[r][x]) = Truth(r, x)
    BY <2>1 DEF SessionFollows
  <2>3. Arriving(r, x, known[r][x])' = Arriving(r, x, known[r][x])
    <3>1. Latest(publishing', r, x, Latest(notices', r, x, known[r][x]))
            = Latest(publishing, r, x, Latest(notices, r, x, known[r][x]))
      <4>1. CASE Tells(m, r, x)
        BY <4>1, <1>7, <1>8
      <4>2. CASE ~Tells(m, r, x) /\ ~full
        BY <4>2, <1>7, <1>8
      <4>3. CASE ~Tells(m, r, x) /\ full
        BY <4>3, <2>1, <1>7, <1>8
      <4> QED BY <4>1, <4>2, <4>3
    <3> QED BY <3>1, <2>1, <1>2 DEF Arriving
  <2> QED BY <2>1, <2>2, <2>3, <1>2 DEF Settled
<1> QED BY <1>5, <1>6, <1>9, <1>10, <1>11

LEMMA AcceptStep ==
  ASSUME IInv, Accept
  PROVE  Follows'
<1> USE DEF IInv, Follows
<1>1. /\ UNCHANGED <<conn, cache, telling, serving, busLagged, bus, rigsState, publishing>>
      /\ notices' = <<>> /\ \A r \in Rigs : \A x \in Items : known'[r][x] = Unknown
  BY DEF Accept, NothingKnown
<1>2. /\ TellingConsistent' /\ StateFollows' /\ (KeepsUp' <=> KeepsUp)
      /\ \A r, x : Truth(r, x)' = Truth(r, x)
  BY <1>1 DEF TellingConsistent, StateFollows, KeepsUp, Truth
<1>3. KnownSubscribed' /\ SessionFollows'
  BY <1>1, ConstantFacts DEF KnownSubscribed, SessionFollows
<1>4. \A r, x, d : Latest(notices', r, x, d) = d
  BY <1>1, LatestEmpty
<1>5. StateIsNewest' /\ TruthIsNewest'
  BY <1>1, <1>2, <1>4 DEF StateIsNewest, TruthIsNewest, Arriving
<1> QED BY <1>2, <1>3, <1>5

LEMMA FallBehindStep ==
  ASSUME IInv, FallBehind
  PROVE  Follows'
<1>1. ~KeepsUp' /\ UNCHANGED <<conn, cache, telling, rigsState, publishing, notices, known,
                              subs, session>>
  BY DEF FallBehind, KeepsUp
<1> QED BY <1>1 DEF IInv, Follows, TellingConsistent, KnownSubscribed, StateIsNewest,
                    StateFollows, TruthIsNewest, SessionFollows, Truth, Live

\* A notification that is not sent has no news of what the client was told.
LEMMA NotifyStep ==
  ASSUME IInv, Notify
  PROVE  Follows'
<1> USE DEF IInv, Follows
<1> DEFINE h == Head(notices)
<1>1. h \in Message /\ notices \in Seq(Message) /\ notices # <<>> /\ notices' = Tail(notices)
  BY DEF Notify, TypeOK
<1>2. /\ UNCHANGED <<conn, cache, telling, serving, busLagged, bus, rigsState, publishing,
                     session, subs>>
      /\ Live
  BY DEF Notify, Live
<1>3. /\ Filtered(h) = NoNews => known' = known
      /\ Filtered(h) # NoNews => known' = [known EXCEPT ![h.rig] = [x \in Items |->
                 IF Filtered(h)[x] = None THEN @[x] ELSE Filtered(h)[x]]]
  BY DEF Notify
<1> HIDE DEF h
<1>4. h.rig \in Rigs /\ h.news \in News
  BY <1>1 DEF Message
<1>5. \A r \in Rigs : \A x \in Items :
        known'[r][x] = IF h.rig = r /\ Filtered(h)[x] # None THEN Filtered(h)[x] ELSE known[r][x]
  <2>1. CASE Filtered(h) = NoNews
    BY <1>3, <2>1 DEF NoNews
  <2>2. CASE Filtered(h) # NoNews
    BY <1>3, <1>4, <2>2 DEF TypeOK
  <2> QED BY <2>1, <2>2
<1>6. ASSUME NEW r \in Rigs, NEW x \in Items
      PROVE  /\ ~Tells(h, r, x) => known'[r][x] = known[r][x]
             /\ Tells(h, r, x) => known'[r][x] \in {h.news[x], Unknown}
  <2>1. Filtered(h)[x] = IF IsConnection(h) \/ x \in subs[h.rig] THEN h.news[x] ELSE None
    BY DEF Filtered
  <2>2. CASE ~Tells(h, r, x)
    BY <2>1, <2>2, <1>5 DEF Tells
  <2>3. CASE Tells(h, r, x) /\ (IsConnection(h) \/ x \in subs[r])
    BY <2>1, <2>3, <1>5 DEF Tells
  <2>4. CASE Tells(h, r, x) /\ ~(IsConnection(h) \/ x \in subs[r])
    <3>1. x \in Fields
      BY <2>4 DEF Tells, IsConnection, Items
    <3>2. known[r][x] = Unknown
      BY <2>4, <3>1 DEF KnownSubscribed
    <3> QED BY <2>1, <2>4, <3>2, <1>5 DEF Tells
  <2> QED BY <2>2, <2>3, <2>4
<1>7. KnownSubscribed'
  <2> SUFFICES ASSUME NEW r \in Rigs, NEW f \in Fields, known'[r][f] # Unknown
               PROVE  f \in subs[r]
    BY <1>2 DEF KnownSubscribed
  <2>1. CASE known'[r][f] = known[r][f]
    BY <2>1 DEF KnownSubscribed
  <2>2. CASE known'[r][f] # known[r][f]
    <3>1. h.rig = r /\ Filtered(h)[f] # None
      BY <2>2, <1>5, ConstantFacts
    <3>2. f \in subs[r] \/ (IsConnection(h) /\ h.news[f] # None)
      BY <3>1, ConstantFacts DEF Filtered
    <3>3. ~(IsConnection(h) /\ h.news[f] # None)
      BY <1>4, NewsShape DEF IsConnection
    <3> QED BY <3>2, <3>3
  <2> QED BY <2>1, <2>2
<1>8. /\ TellingConsistent' /\ StateFollows' /\ (KeepsUp' <=> KeepsUp) /\ Live'
      /\ \A r, x : Truth(r, x)' = Truth(r, x)
  BY <1>2 DEF TellingConsistent, StateFollows, KeepsUp, Live, Truth
<1>9. \A r, x, d : Latest(notices, r, x, d)
                   = Latest(notices', r, x, IF Tells(h, r, x) THEN h.news[x] ELSE d)
  BY <1>1, LatestTail DEF h
<1>10. StateIsNewest'
  <2> SUFFICES ASSUME NEW r \in Listed
      PROVE  Latest(publishing, r, Connection, Latest(notices', r, Connection, rigsState[r]))
               = rigsState[r]
    BY <1>2 DEF StateIsNewest
  <2>1. Latest(publishing, r, Connection, rigsState[r]) = rigsState[r]
    BY DEF StateIsNewest
  <2>2. Latest(publishing, r, Connection, Latest(notices, r, Connection, rigsState[r])) = rigsState[r]
    BY <1>2 DEF StateIsNewest
  <2>3. CASE Heard(notices', r, Connection)
    BY <2>2, <2>3, <1>9, LatestCases
  <2>4. CASE ~Heard(notices', r, Connection)
    <3>1. Latest(notices', r, Connection, rigsState[r]) = rigsState[r]
      BY <2>4, LatestCases
    <3> QED BY <3>1, <2>1
  <2> QED BY <2>3, <2>4
<1>11. ASSUME KeepsUp, NEW r \in Rigs, NEW x \in Items, telling[r][x] = None
       PROVE  Latest(bus, r, x, Latest(publishing, r, x, Latest(notices', r, x, Truth(r, x))))
                = Truth(r, x)
  <2>1. Latest(bus, r, x, Latest(publishing, r, x, Truth(r, x))) = Truth(r, x)
    BY <1>11 DEF TruthIsNewest
  <2>2. Latest(bus, r, x, Latest(publishing, r, x, Latest(notices, r, x, Truth(r, x)))) = Truth(r, x)
    BY <1>2, <1>11 DEF TruthIsNewest, Arriving
  <2>3. CASE Heard(notices', r, x)
    BY <2>2, <2>3, <1>9, LatestCases
  <2>4. CASE ~Heard(notices', r, x)
    <3>1. Latest(notices', r, x, Truth(r, x)) = Truth(r, x)
      BY <2>4, LatestCases
    <3> QED BY <3>1, <2>1
  <2> QED BY <2>3, <2>4
<1>12. TruthIsNewest'
  BY <1>2, <1>8, <1>11 DEF TruthIsNewest, Arriving
<1>13. SessionFollows'
  <2> SUFFICES ASSUME KeepsUp, NEW r \in Rigs, NEW x \in Items, known'[r][x] # Unknown
               PROVE  Settled(r, x, known[r][x])' = Truth(r, x)
    BY <1>8 DEF SessionFollows
  <2>1. CASE telling[r][x] # None
    BY <2>1, <1>2 DEF Settled, TellingConsistent
  <2>2. CASE telling[r][x] = None /\ Tells(h, r, x)
    <3>1. Latest(notices', r, x, known'[r][x]) = Latest(notices, r, x, Truth(r, x))
      BY <2>2, <1>6, <1>9
    <3>2. Arriving(r, x, Truth(r, x)) = Truth(r, x)
      BY <2>2, <1>2 DEF TruthIsNewest
    <3> QED BY <2>2, <3>1, <3>2, <1>2 DEF Settled, Arriving
  <2>3. CASE telling[r][x] = None /\ ~Tells(h, r, x)
    <3>1. known'[r][x] = known[r][x]
      BY <2>3, <1>6
    <3>2. Settled(r, x, known[r][x]) = Truth(r, x)
      BY <3>1, <1>2 DEF SessionFollows
    <3>3. Latest(notices', r, x, known'[r][x]) = Latest(notices, r, x, known[r][x])
      BY <2>3, <3>1, <1>9
    <3> QED BY <2>3, <3>2, <3>3, <1>2 DEF Settled, Arriving
  <2> QED BY <2>1, <2>2, <2>3
<1> QED BY <1>7, <1>8, <1>10, <1>12, <1>13

LEMMA RequestStep ==
  ASSUME IInv, HandleRequest
  PROVE  Follows'
<1> DEFINE q == Head(toServer).request
<1>1. Reads
  BY DEF HandleRequest, ListRigs, GetStatus, Subscribe, Unsubscribe, GetCapabilities,
         Refuse, Execute, ExecutePanics
<1>2. /\ UNCHANGED <<conn, cache, telling, bus, busLagged, serving, rigsState, publishing,
                     notices>>
      /\ Live /\ Follows /\ TypeOK /\ KnownSubscribed
  BY <1>1 DEF Reads, Live, IInv, Follows
<1>3. q.ask.rig \in Rigs \cup {None}
  BY <1>1, <1>2, LineType DEF Request, Ask
<1> HIDE DEF q
<1>4. CASE ListRigs(q)
  <2>1. UNCHANGED subs /\ known' = [r \in Rigs |->
          IF r \in Listed THEN [known[r] EXCEPT ![Connection] = rigsState[r]] ELSE known[r]]
    BY <1>4 DEF ListRigs
  <2>2. ASSUME NEW r \in Rigs, NEW x \in Items
        PROVE  known'[r][x] = IF r \in Listed /\ x = Connection THEN rigsState[r] ELSE known[r][x]
    BY <2>1, <1>2 DEF TypeOK
  <2>3. KnownSubscribed'
    BY <1>2, <2>1, <2>2, ConstantFacts DEF KnownSubscribed
  <2> QED BY <1>2, <2>1, <2>2, <2>3, TellStep
<1>5. CASE GetStatus(q)
  <2>1. UNCHANGED subs /\ q.ask.rig \in Rigs
        /\ known' = [known EXCEPT ![q.ask.rig] = Answered(q.ask.rig)]
    BY <1>3, <1>5 DEF GetStatus
  <2>2. ASSUME NEW r \in Rigs, NEW x \in Items
        PROVE  known'[r][x] = IF r = q.ask.rig /\ x \in subs[r] THEN cache[r][x] ELSE known[r][x]
    BY <2>1, <1>2 DEF TypeOK, Answered
  <2>3. \A r \in Rigs : subs[r] \subseteq Fields
    BY <1>2 DEF TypeOK
  <2>4. KnownSubscribed'
    BY <1>2, <2>1, <2>2, <2>3, ConstantFacts DEF KnownSubscribed
  <2> QED BY <1>2, <2>1, <2>2, <2>3, <2>4, TellStep
<1>6. CASE Subscribe(q)
  <2>1. /\ q.ask.rig \in Rigs
        /\ subs' = [subs EXCEPT ![q.ask.rig] = q.ask.fields]
        /\ known' = [known EXCEPT ![q.ask.rig] =
             [x \in Items |-> IF x \in Fields \ q.ask.fields THEN Unknown ELSE @[x]]]
    BY <1>6, ConstantFacts DEF Subscribe, Served
  <2>2. ASSUME NEW r \in Rigs, NEW x \in Items
        PROVE  known'[r][x] = IF r = q.ask.rig /\ x \in Fields \ q.ask.fields
                              THEN Unknown ELSE known[r][x]
    BY <2>1, <1>2 DEF TypeOK
  <2>3. KnownSubscribed'
    BY <1>2, <2>1, <2>2, ConstantFacts DEF KnownSubscribed, TypeOK
  <2> QED BY <1>2, <2>2, <2>3, TellStep
<1>7. CASE Unsubscribe(q)
  <2>1. /\ q.ask.rig \in Rigs
        /\ subs' = [subs EXCEPT ![q.ask.rig] = {}]
        /\ known' = [known EXCEPT ![q.ask.rig] =
             [x \in Items |-> IF x \in Fields THEN Unknown ELSE @[x]]]
    BY <1>3, <1>7 DEF Unsubscribe
  <2>2. ASSUME NEW r \in Rigs, NEW x \in Items
        PROVE  known'[r][x] = IF r = q.ask.rig /\ x \in Fields THEN Unknown ELSE known[r][x]
    BY <2>1, <1>2 DEF TypeOK
  <2>3. KnownSubscribed'
    BY <1>2, <2>1, <2>2, ConstantFacts DEF KnownSubscribed, TypeOK
  <2> QED BY <1>2, <2>2, <2>3, TellStep
<1>8. CASE GetCapabilities(q) \/ Refuse(q) \/ Execute(q) \/ ExecutePanics(q)
  <2>1. UNCHANGED <<known, subs>>
    BY <1>8 DEF GetCapabilities, Refuse, Execute, ExecutePanics
  <2> QED BY <1>2, <2>1, QuietStep
<1> QED BY <1>4, <1>5, <1>6, <1>7, <1>8 DEF HandleRequest, q

LEMMA FollowsStep == IInv /\ [RpcNext]_vars => Follows'
<1> SUFFICES ASSUME IInv, [RpcNext]_vars PROVE Follows'
  OBVIOUS
<1>1. CASE Devices
  BY <1>1, ConnectionStep, StatusChangeStep, StatusTellStep DEF Devices, ConnectionChange
<1>2. CASE Server
  BY <1>2, TakeStep, PublishStep, FallBehindStep DEF Server
<1>3. CASE Accept
  BY <1>3, AcceptStep
<1>4. CASE HandleRequest
  BY <1>4, RequestStep
<1>5. CASE Notify
  BY <1>5, NotifyStep
<1>6. CASE \/ ReadHead \/ ReadRemainder \/ ExecuteDone \/ Skip \/ SessionEnd
           \/ (\E ask \in Asks : ClientSend(ask)) \/ ClientReceive \/ ClientHangup
           \/ UNCHANGED vars
  <2>1. UNCHANGED <<conn, cache, telling, bus, busLagged, serving, rigsState, publishing,
                    notices, known, subs>>
    BY <1>6 DEF ReadHead, ReadRemainder, ExecuteDone, Skip, SessionEnd, ClientSend,
                ClientReceive, ClientHangup
  <2>2. Live' => Live
    BY <1>6 DEF ReadHead, ReadRemainder, ExecuteDone, Skip, SessionEnd, ClientSend,
                ClientReceive, ClientHangup, Live
  <2> QED BY <2>1, <2>2, QuietStep DEF IInv
<1> QED BY <1>1, <1>2, <1>3, <1>4, <1>5, <1>6 DEF RpcNext, Session

\* Every variable keeps its type and every channel its capacity: TypeOK.
THEOREM RpcTypes == RpcSpec => []TypeOK
<1>1. RpcInit => TypeOK
  BY TypeInit
<1>2. TypeOK /\ [RpcNext]_vars => TypeOK'
  BY TypeStep
<1> QED BY <1>1, <1>2, PTL DEF RpcSpec

LEMMA RpcInvariant == RpcSpec => []IInv
<1>1. RpcInit => IInv
  BY TypeInit, FollowsInit DEF IInv
<1>2. IInv /\ [RpcNext]_vars => IInv'
  BY TypeStep, FollowsStep DEF IInv
<1> QED BY <1>1, <1>2, PTL DEF RpcSpec

\* What a session told its client becomes what the devices last said once the
\* pending notifications are delivered, for any rigs, fields, channel capacities
\* and requests: SessionFollows.
THEOREM RpcSessionFollows == RpcSpec => []SessionFollows
<1>1. IInv => SessionFollows
  BY DEF IInv, Follows
<1> QED BY <1>1, RpcInvariant, PTL

\* list_rigs answers what the devices last said, but for what is pending:
\* StateFollows.
THEOREM RpcStateFollows == RpcSpec => []StateFollows
<1>1. IInv => StateFollows
  BY DEF IInv, Follows
<1> QED BY <1>1, RpcInvariant, PTL

-----------------------------------------------------------------------------
(* The order of the answers.                                               *)

\* Ids are numbers; news and lost lines have 0.
LEMMA IdTypes ==
  /\ \A m \in Reply \cup Notification : AnswerId(m) \in Nat
  /\ \A l \in Line : LineId(l) \in Nat /\ l.request.id \in Nat
                     /\ LineId(l) <= l.request.id
  /\ \A q \in Request : q.id \in Nat /\ q.id # 0
<1>1. \A q \in Request : q.id \in Nat /\ q.id # 0
  BY ConstantFacts DEF Request, Ids
<1>2. \A m \in Reply \cup Notification : AnswerId(m) \in Nat
  <2> SUFFICES ASSUME NEW m \in Reply \cup Notification PROVE AnswerId(m) \in Nat
    OBVIOUS
  <2>1. CASE m \in Notification
    BY <2>1 DEF Notification, AnswerId
  <2>2. CASE m \in Reply
    BY <2>2, ConstantFacts DEF Reply, AnswerId, Ids
  <2> QED BY <2>1, <2>2
<1>3. \A l \in Line : LineId(l) \in Nat /\ l.request.id \in Nat
                      /\ LineId(l) <= l.request.id
  BY <1>1 DEF Line, LineId
<1> QED BY <1>1, <1>2, <1>3

\* The channels and ids of a well-typed state.
LEMMA TurnTypes ==
  ASSUME TypeOK
  PROVE  /\ toClient \in Seq(Reply \cup Notification) /\ Len(toClient) \in Nat
         /\ toServer \in Seq(Line) /\ Len(toServer) \in Nat
         /\ requests \in Nat /\ executing.id \in Nat
         /\ executing # NoRequest => executing \in Request /\ executing.id # 0
         /\ \A j \in Replies : AnswerId(toClient[j]) \in Nat
         /\ \A k \in Lines : toServer[k] \in Line /\ LineId(toServer[k]) \in Nat
                             /\ toServer[k].request.id \in Nat
                             /\ LineId(toServer[k]) <= toServer[k].request.id
<1>1. /\ toClient \in Seq(Reply \cup Notification) /\ Len(toClient) \in Nat
      /\ toServer \in Seq(Line) /\ Len(toServer) \in Nat
      /\ requests \in Nat /\ executing \in Request \cup {NoRequest}
  BY DEF TypeOK
<1>2. executing.id \in Nat /\ (executing # NoRequest => executing \in Request /\ executing.id # 0)
  BY <1>1, IdTypes, NoRequestType
<1>3. \A j \in Replies : toClient[j] \in Reply \cup Notification
  BY <1>1 DEF Replies
<1>4. \A k \in Lines : toServer[k] \in Line
  BY <1>1 DEF Lines
<1> QED BY <1>1, <1>2, <1>3, <1>4, IdTypes

\* An inbound line is taken or the lines are as before; an answer goes out or the
\* client takes one or the replies are as before.
LEMMA TailKeeps ==
  ASSUME TypeOK
  PROVE  /\ toServer # <<>> => /\ Len(Tail(toServer)) = Len(toServer) - 1 /\ 1 \in Lines
                               /\ Head(toServer) = toServer[1]
                               /\ \A k \in 1..Len(Tail(toServer)) :
                                    k + 1 \in Lines /\ Tail(toServer)[k] = toServer[k + 1]
         /\ toClient # <<>> => /\ Len(Tail(toClient)) = Len(toClient) - 1
                               /\ \A k \in 1..Len(Tail(toClient)) :
                                    k + 1 \in Replies /\ Tail(toClient)[k] = toClient[k + 1]
BY TurnTypes DEF Lines, Replies

\* What is left of the lines and replies is in the same order.
LEMMA DropStep ==
  ASSUME TypeOK, InTurn,
         toServer' = toServer \/ (toServer # <<>> /\ toServer' = Tail(toServer)),
         toClient' = toClient \/ (toClient # <<>> /\ toClient' = Tail(toClient)),
         executing' \in {executing, NoRequest}, requests' = requests,
         session' = "open" => executing' = NoRequest
  PROVE  InTurn'
<1>1. \E s \in {0, 1} : \A k \in Lines' : k + s \in Lines /\ toServer'[k] = toServer[k + s]
  <2>1. CASE toServer' = toServer
    <3>1. \A k \in Lines' : k + 0 \in Lines /\ toServer'[k] = toServer[k + 0]
      BY <2>1, TurnTypes DEF Lines
    <3> QED BY <3>1
  <2>2. CASE toServer # <<>> /\ toServer' = Tail(toServer)
    <3>1. \A k \in Lines' : k + 1 \in Lines /\ toServer'[k] = toServer[k + 1]
      BY <2>2, TailKeeps DEF Lines
    <3> QED BY <3>1
  <2> QED BY <2>1, <2>2
<1>2. \E s \in {0, 1} : \A k \in Replies' : k + s \in Replies /\ toClient'[k] = toClient[k + s]
  <2>1. CASE toClient' = toClient
    <3>1. \A k \in Replies' : k + 0 \in Replies /\ toClient'[k] = toClient[k + 0]
      BY <2>1, TurnTypes DEF Replies
    <3> QED BY <3>1
  <2>2. CASE toClient # <<>> /\ toClient' = Tail(toClient)
    <3>1. \A k \in Replies' : k + 1 \in Replies /\ toClient'[k] = toClient[k + 1]
      BY <2>2, TailKeeps DEF Replies
    <3> QED BY <3>1
  <2> QED BY <2>1, <2>2
<1>3. PICK s \in {0, 1} : \A k \in Lines' : k + s \in Lines /\ toServer'[k] = toServer[k + s]
  BY <1>1
<1>4. PICK t \in {0, 1} : \A k \in Replies' : k + t \in Replies /\ toClient'[k] = toClient[k + t]
  BY <1>2
<1>5. \A i, j \in Replies' \cup Lines' : i < j => i + s < j + s /\ i + t < j + t
  BY DEF Replies, Lines
<1>6. executing'.id \in {0, executing.id}
  BY NoRequestType
<1>7. IdsGiven'
  BY <1>3, <1>4, <1>6, TurnTypes DEF InTurn, IdsGiven
<1>8. RepliesInTurn'
  BY <1>3, <1>4, <1>5, <1>6 DEF InTurn, RepliesInTurn, Before
<1>9. LinesInTurn'
  BY <1>3, <1>5, <1>6 DEF InTurn, LinesInTurn, Before
<1> QED BY <1>7, <1>8, <1>9 DEF InTurn

\* A reply goes out: news, the answer to the line just taken, or that of what executed.
LEMMA ReplyStep ==
  ASSUME TypeOK, InTurn, NEW m \in Reply \cup Notification, Write(m), requests' = requests,
         session' = "open" => executing' = NoRequest,
         \/ /\ toServer' = toServer \/ (toServer # <<>> /\ toServer' = Tail(toServer))
            /\ AnswerId(m) = 0 /\ executing' = executing
         \/ /\ toServer # <<>> /\ toServer' = Tail(toServer)
            /\ AnswerId(m) \in {0, LineId(Head(toServer))}
            /\ executing = NoRequest /\ executing' = executing
         \/ /\ toServer' = toServer
            /\ AnswerId(m) = executing.id /\ executing' = NoRequest
  PROVE  InTurn'
<1> DEFINE last == Len(toClient) + 1
           a == AnswerId(m)
<1>1. /\ last \in Nat /\ \A j \in Replies' : j \in Nat
      /\ toClient'[last] = m
      /\ \A j \in Replies' : j <= last /\ (j = last \/ (j \in Replies /\ toClient'[j] = toClient[j]))
  BY TurnTypes DEF Write, Replies
<1>2. PICK s \in {0, 1} : /\ \A k \in Lines' : k + s \in Lines /\ toServer'[k] = toServer[k + s]
                          /\ \A i, j \in Lines' : i < j => i + s < j + s
                          /\ s = 0 => toServer' = toServer
  <2>1. CASE toServer' = toServer
    <3>1. \A k \in Lines' : k + 0 \in Lines /\ toServer'[k] = toServer[k + 0]
      BY <2>1, TurnTypes DEF Lines
    <3> QED BY <2>1, <3>1 DEF Lines
  <2>2. CASE toServer # <<>> /\ toServer' = Tail(toServer)
    <3>1. \A k \in Lines' : k + 1 \in Lines /\ toServer'[k] = toServer[k + 1]
      BY <2>2, TailKeeps DEF Lines
    <3> QED BY <3>1 DEF Lines
  <2> QED BY <2>1, <2>2
<1> HIDE DEF last
<1>3. executing'.id \in {0, executing.id} /\ a \in Nat
  BY NoRequestType, IdTypes
<1>4. /\ a <= requests
      /\ \A j \in Replies : Before(AnswerId(toClient[j]), a)
      /\ Before(a, executing'.id)
      /\ \A k \in Lines' : Before(a, LineId(toServer'[k]))
  <2>1. CASE a = 0
    BY <2>1, TurnTypes DEF Before
  <2>2. CASE /\ toServer # <<>> /\ toServer' = Tail(toServer)
             /\ a = LineId(Head(toServer)) /\ executing'.id = 0
    <3>0. \A k \in Lines' : k + 1 > 1
      BY DEF Lines
    <3>1. a = LineId(toServer[1]) /\ 1 \in Lines
          /\ \A k \in Lines' : k + 1 \in Lines /\ k + 1 > 1 /\ toServer'[k] = toServer[k + 1]
      BY <2>2, <3>0, TailKeeps DEF Lines
    <3>2. a <= requests
      BY <3>1, TurnTypes DEF InTurn, IdsGiven
    <3>3. \A j \in Replies : Before(AnswerId(toClient[j]), a)
      BY <3>1 DEF InTurn, RepliesInTurn
    <3>4. \A k \in Lines' : Before(a, LineId(toServer'[k]))
      BY <3>1 DEF InTurn, LinesInTurn
    <3> QED BY <2>2, <3>2, <3>3, <3>4 DEF Before
  <2>3. CASE toServer' = toServer /\ a = executing.id /\ executing' = NoRequest
    <3>1. Before(a, executing'.id)
      BY <2>3, NoRequestType DEF Before
    <3> QED BY <2>3, <3>1 DEF InTurn, IdsGiven, RepliesInTurn, LinesInTurn, Lines
  <2> QED BY <2>1, <2>2, <2>3, NoRequestType
<1>5. IdsGiven'
  <2>1. \A j \in Replies' : AnswerId(toClient'[j]) <= requests'
    BY <1>1, <1>4 DEF InTurn, IdsGiven
  <2>2. executing'.id <= requests'
    BY <1>3, TurnTypes DEF InTurn, IdsGiven
  <2>3. \A k \in Lines' : toServer'[k].request.id <= requests'
    BY <1>2 DEF InTurn, IdsGiven
  <2> QED BY <2>1, <2>2, <2>3 DEF IdsGiven
<1>6. RepliesInTurn'
  <2> SUFFICES ASSUME NEW j \in Replies'
               PROVE  /\ \A k \in Replies' : j < k =>
                           Before(AnswerId(toClient'[j]), AnswerId(toClient'[k]))
                      /\ Before(AnswerId(toClient'[j]), executing'.id)
                      /\ \A k \in Lines' : Before(AnswerId(toClient'[j]), LineId(toServer'[k]))
    BY DEF RepliesInTurn
  <2>1. CASE j = last
    <3>1. \A k \in Replies' : ~ j < k
      BY <2>1, <1>1
    <3> QED BY <2>1, <3>1, <1>1, <1>4
  <2>2. CASE j # last
    <3>1. j \in Replies /\ toClient'[j] = toClient[j]
      BY <2>2, <1>1
    <3>2. \A k \in Replies' : j < k => Before(AnswerId(toClient'[j]), AnswerId(toClient'[k]))
      BY <3>1, <1>1, <1>4 DEF InTurn, RepliesInTurn
    <3>3. Before(AnswerId(toClient'[j]), executing'.id)
      BY <3>1, <1>3 DEF InTurn, RepliesInTurn, Before
    <3>4. \A k \in Lines' : Before(AnswerId(toClient'[j]), LineId(toServer'[k]))
      BY <3>1, <1>2 DEF InTurn, RepliesInTurn
    <3> QED BY <3>2, <3>3, <3>4
  <2> QED BY <2>1, <2>2
<1>7. LinesInTurn'
  BY <1>2, <1>3 DEF InTurn, LinesInTurn, Before
<1> QED BY <1>5, <1>6, <1>7 DEF InTurn

\* The line just taken executes.
LEMMA ExecuteStep ==
  ASSUME TypeOK, InTurn, toServer # <<>>, toServer' = Tail(toServer), toClient' = toClient,
         executing' = Head(toServer).request, Head(toServer).part # "head",
         requests' = requests, session' # "open"
  PROVE  InTurn'
<1>1. /\ 1 \in Lines /\ Head(toServer) = toServer[1]
      /\ \A k \in Lines' : k + 1 \in Lines /\ k + 1 > 1 /\ toServer'[k] = toServer[k + 1]
      /\ \A i, j \in Lines' : i < j => i + 1 < j + 1
  BY TailKeeps DEF Lines
<1>2. executing'.id = LineId(toServer[1]) /\ executing'.id = toServer[1].request.id
  BY <1>1 DEF LineId
<1>3. IdsGiven'
  BY <1>1, <1>2 DEF InTurn, IdsGiven, Replies
<1>4. RepliesInTurn'
  BY <1>1, <1>2 DEF InTurn, RepliesInTurn, Replies
<1>5. LinesInTurn'
  BY <1>1, <1>2 DEF InTurn, LinesInTurn
<1> QED BY <1>3, <1>4, <1>5 DEF InTurn

\* A new request has an id above all others.
LEMMA SendStep ==
  ASSUME TypeOK, InTurn, NEW ask \in Ask, ClientSend(ask)
  PROVE  InTurn'
<1> DEFINE q == [id |-> requests', ask |-> ask]
<1>1. /\ requests' = requests + 1 /\ UNCHANGED <<toClient, executing, session>>
      /\ q.id = requests'
  BY DEF ClientSend
<1>2. PICK p \in Parts(q) : toServer' = toServer \o p
  BY DEF ClientSend
<1> HIDE DEF q
<1>3. \/ p = <<[part |-> "whole", request |-> q]>>
      \/ p = <<[part |-> "head", request |-> q], [part |-> "tail", request |-> q]>>
  BY <1>2 DEF Parts
<1> DEFINE n == Len(toServer)
<1>a. requests \in Nat /\ n \in Nat /\ toServer \in Seq(Line)
  BY TurnTypes
<1>4. /\ \A k \in Lines' : k \in Nat
      /\ \A k \in Lines' :
           \/ k \in Lines /\ toServer'[k] = toServer[k]
           \/ k > n /\ toServer'[k].request = q
      /\ \A j, k \in Lines' : j < k /\ j > n => toServer'[j].part = "head"
      /\ \A k \in Lines : k <= n
  <2> DEFINE whole == [part |-> "whole", request |-> q]
             head == [part |-> "head", request |-> q]
             tail == [part |-> "tail", request |-> q]
  <2>1. whole.request = q /\ head.request = q /\ tail.request = q /\ head.part = "head"
    OBVIOUS
  <2> HIDE DEF whole, head, tail
  <2>2. CASE p = <<whole>>
    <3>1. /\ Len(toServer') = n + 1 /\ toServer'[n + 1] = whole
          /\ \A k \in 1..n : toServer'[k] = toServer[k]
      BY <1>2, <1>a, <2>2
    <3> QED BY <1>a, <2>1, <3>1 DEF Lines
  <2>3. CASE p = <<head, tail>>
    <3>1. /\ Len(toServer') = n + 2
          /\ toServer'[n + 1] = head /\ toServer'[n + 2] = tail
          /\ \A k \in 1..n : toServer'[k] = toServer[k]
      BY <1>2, <1>a, <2>3
    <3> QED BY <1>a, <2>1, <3>1 DEF Lines
  <2> QED BY <1>3, <2>2, <2>3 DEF whole, head, tail
<1>5. \A k \in Lines' : k \in Lines \/ LineId(toServer'[k]) \in {0, requests + 1}
  BY <1>1, <1>4, <1>a DEF LineId
<1>6. \A i \in Nat : i <= requests => \A k \in Lines' \ Lines : Before(i, LineId(toServer'[k]))
  BY <1>4, <1>a, <1>5 DEF Before
<1>7. IdsGiven'
  BY <1>1, <1>4, <1>a, TurnTypes DEF InTurn, IdsGiven, Replies
<1>8. RepliesInTurn'
  <2> SUFFICES ASSUME NEW j \in Replies
               PROVE  /\ \A k \in Replies : j < k =>
                           Before(AnswerId(toClient[j]), AnswerId(toClient[k]))
                      /\ Before(AnswerId(toClient[j]), executing.id)
                      /\ \A k \in Lines' : Before(AnswerId(toClient[j]), LineId(toServer'[k]))
    BY <1>1 DEF RepliesInTurn, Replies
  <2>1. AnswerId(toClient[j]) \in Nat /\ AnswerId(toClient[j]) <= requests
    BY TurnTypes DEF InTurn, IdsGiven
  <2>2. ASSUME NEW k \in Lines' PROVE Before(AnswerId(toClient[j]), LineId(toServer'[k]))
    <3>1. CASE k \in Lines
      <4>1. toServer'[k] = toServer[k]
        BY <3>1, <1>4
      <4> QED BY <3>1, <4>1 DEF InTurn, RepliesInTurn
    <3>2. CASE k \notin Lines
      BY <2>1, <3>2, <1>6
    <3> QED BY <3>1, <3>2
  <2> QED BY <2>2 DEF InTurn, RepliesInTurn
<1>9. LinesInTurn'
  <2>1. \A k \in Lines' : Before(executing'.id, LineId(toServer'[k]))
    BY <1>1, <1>4, <1>a, <1>6, TurnTypes DEF InTurn, IdsGiven, LinesInTurn
  <2> SUFFICES ASSUME NEW j \in Lines', NEW k \in Lines', j < k
               PROVE  Before(LineId(toServer'[j]), LineId(toServer'[k]))
    BY <2>1 DEF LinesInTurn
  <2>2. CASE j \in Lines /\ k \in Lines
    BY <2>2, <1>4, <1>a DEF InTurn, LinesInTurn
  <2>3. CASE j \in Lines /\ k \notin Lines
    <3>1. toServer'[j] = toServer[j] /\ LineId(toServer[j]) \in Nat
          /\ LineId(toServer[j]) <= requests
      BY <2>3, <1>4, <1>a, TurnTypes DEF InTurn, IdsGiven
    <3> QED BY <2>3, <3>1, <1>6
  <2>4. CASE j \notin Lines
    <3>1. toServer'[j].part = "head"
      BY <2>4, <1>4, <1>a
    <3> QED BY <3>1 DEF LineId, Before
  <2> QED BY <2>2, <2>3, <2>4, <1>4, <1>a
<1> QED BY <1>7, <1>8, <1>9 DEF InTurn

\* A request that is read is answered at once, executes, or ends the session.
LEMMA HandleStep ==
  ASSUME TypeOK, InTurn, HandleRequest
  PROVE  InTurn'
<1> DEFINE q == Head(toServer).request
<1>1. Reads
  BY DEF HandleRequest, ListRigs, GetStatus, Subscribe, Unsubscribe, GetCapabilities,
         Refuse, Execute, ExecutePanics
<1>2. /\ session = "open" /\ executing = NoRequest /\ requests' = requests
      /\ toServer # <<>> /\ toServer' = Tail(toServer)
      /\ Head(toServer).part # "head" /\ q.id = LineId(Head(toServer))
  BY <1>1 DEF Reads, InTurn, IdsGiven, LineId
<1>3. q \in Request /\ q.id \in Ids
  BY <1>1, LineType DEF Request
<1>4. ASSUME NEW m \in Reply, m.id \in {0, q.id}, Write(m), UNCHANGED executing
      PROVE  InTurn'
  <2>1. AnswerId(m) \in {0, LineId(Head(toServer))}
    BY <1>2, <1>4 DEF AnswerId
  <2> QED BY <1>2, <1>4, <2>1, ReplyStep
<1> HIDE DEF q
<1>5. CASE ListRigs(q)
  <2>1. [what |-> "rigs", id |-> q.id, rigs |-> rigsState] \in Reply
    BY <1>3 DEF Reply, TypeOK
  <2> QED BY <1>4, <1>5, <2>1 DEF ListRigs
<1>6. CASE GetStatus(q)
  <2>1. q.ask.rig \in Rigs
    BY <1>3, <1>6 DEF GetStatus, Request, Ask
  <2>2. [what |-> "values", id |-> q.id, values |-> cache[q.ask.rig]] \in Reply
    BY <1>3, <2>1 DEF Reply, TypeOK
  <2> QED BY <1>4, <1>6, <2>2 DEF GetStatus
<1>7. \A what \in {"success", "error"}, i \in {0, q.id} :
        Plain(what, i) \in Reply /\ Plain(what, i).id = i
  BY <1>3 DEF Reply, Plain
<1>8. CASE Subscribe(q) \/ Unsubscribe(q) \/ Refuse(q)
  BY <1>4, <1>7, <1>8 DEF Subscribe, Unsubscribe, Refuse
<1>9. CASE GetCapabilities(q)
  <2>1. Implemented[q.ask.rig] \in SUBSET Fields
    BY <1>9, ConstantFacts DEF GetCapabilities, Served
  <2>2. [what |-> "capabilities", id |-> q.id, fields |-> Implemented[q.ask.rig]] \in Reply
    BY <1>3, <2>1 DEF Reply
  <2> QED BY <1>4, <1>9, <2>2 DEF GetCapabilities
<1>10. CASE Execute(q)
  BY <1>2, <1>10, ExecuteStep DEF Execute, q
<1>11. CASE ExecutePanics(q)
  BY <1>2, <1>11, DropStep DEF ExecutePanics
<1> QED BY <1>5, <1>6, <1>8, <1>9, <1>10, <1>11 DEF HandleRequest, q

\* At the start there are no ids.
LEMMA TurnInit == RpcInit => InTurn
<1> SUFFICES ASSUME RpcInit PROVE InTurn
  OBVIOUS
<1>1. Replies = {} /\ Lines = {} /\ executing = NoRequest /\ executing.id = 0 /\ requests = 0
  BY EmptySeq, NoRequestType DEF RpcInit, Replies, Lines
<1> QED BY <1>1 DEF InTurn, IdsGiven, RepliesInTurn, LinesInTurn

\* Every step keeps the order.
LEMMA TurnStep == TypeOK /\ TypeOK' /\ InTurn /\ [RpcNext]_vars => InTurn'
<1> SUFFICES ASSUME TypeOK, TypeOK', InTurn, [RpcNext]_vars PROVE InTurn'
  OBVIOUS
<1> DEFINE Quiet == UNCHANGED <<toServer, toClient, executing, session, requests>>
<1>1. Quiet => InTurn'
  BY DEF InTurn, IdsGiven, RepliesInTurn, LinesInTurn, Replies, Lines
<1>2. CASE Devices
  BY <1>1, <1>2 DEF Devices, ConnectionChange, SetStatus, StatusChange, StatusTell
<1>3. CASE Server
  BY <1>1, <1>3 DEF Server, TakeMessage, Publish, FallBehind
<1>4. CASE Accept
  <2>1. Replies' = {} /\ Lines' = {} /\ executing' = NoRequest /\ executing'.id = 0
        /\ requests' \in Nat
    BY <1>4, EmptySeq, NoRequestType DEF Accept, Replies, Lines, TypeOK
  <2> QED BY <2>1 DEF InTurn, IdsGiven, RepliesInTurn, LinesInTurn
<1>5. CASE ReadHead
  BY <1>5, DropStep DEF ReadHead, InTurn, IdsGiven
<1>6. CASE ReadRemainder
  <2>1. CASE UNCHANGED toClient
    BY <1>6, <2>1, DropStep DEF ReadRemainder, InTurn, IdsGiven
  <2>2. CASE Write(Plain("error", 0))
    <3>1. Plain("error", 0) \in Reply /\ AnswerId(Plain("error", 0)) = 0
      BY DEF Reply, Plain, AnswerId
    <3> QED BY <1>6, <2>2, <3>1, ReplyStep DEF ReadRemainder, InTurn, IdsGiven
  <2> QED BY <1>6, <2>1, <2>2 DEF ReadRemainder
<1>7. CASE HandleRequest
  BY <1>7, HandleStep
<1>8. CASE ExecuteDone
  <2>1. PICK what \in {"result", "error"} : Write(Plain(what, executing.id))
    BY <1>8 DEF ExecuteDone
  <2>2. executing \in Request /\ executing.id \in Ids
    BY <1>8 DEF ExecuteDone, TypeOK, Request
  <2>3. Plain(what, executing.id) \in Reply /\ AnswerId(Plain(what, executing.id)) = executing.id
    BY <2>2 DEF Reply, Plain, AnswerId
  <2> QED BY <1>8, <2>1, <2>3, ReplyStep DEF ExecuteDone
<1>9. CASE Notify
  <2>1. /\ UNCHANGED <<toServer, executing, session, requests>> /\ session = "open"
    BY <1>9 DEF Notify
  <2>2. CASE UNCHANGED toClient
    BY <1>1, <2>1, <2>2
  <2>3. CASE toClient' # toClient
    <3> DEFINE n == [what |-> "news", rig |-> Head(notices).rig,
                     news |-> Filtered(Head(notices))]
    <3>1. Write(n)
      BY <1>9, <2>3 DEF Notify
    <3>2. toClient' \in Seq(Reply \cup Notification) /\ toClient' = Append(toClient, n)
          /\ toClient \in Seq(Reply \cup Notification)
      BY <3>1 DEF TypeOK, Write
    <3>3. AnswerId(n) = 0
      BY DEF AnswerId
    <3> HIDE DEF n
    <3>4. n \in Reply \cup Notification
      <4>1. Len(toClient) + 1 \in 1..Len(toClient') /\ toClient'[Len(toClient) + 1] = n
        BY <3>2
      <4> QED BY <3>2, <4>1
    <3> QED BY <2>1, <3>1, <3>3, <3>4, ReplyStep DEF InTurn, IdsGiven
  <2> QED BY <2>2, <2>3
<1>10. CASE Skip
  BY <1>1, <1>10 DEF Skip
<1>11. CASE SessionEnd
  BY <1>11, DropStep DEF SessionEnd
<1>12. ASSUME NEW ask \in Asks, ClientSend(ask) PROVE InTurn'
  BY <1>12, SendStep, ConstantFacts
<1>13. CASE ClientReceive
  BY <1>13, DropStep DEF ClientReceive, InTurn, IdsGiven
<1>14. CASE ClientHangup
  BY <1>1, <1>14 DEF ClientHangup
<1>15. CASE UNCHANGED vars
  BY <1>1, <1>15
<1> QED BY <1>2, <1>3, <1>4, <1>5, <1>6, <1>7, <1>8, <1>9, <1>10, <1>11, <1>12, <1>13,
           <1>14, <1>15 DEF RpcNext, Session

\* The places of two sequences put together.
LEMMA ConcatPlaces ==
  ASSUME NEW S, NEW s \in Seq(S), NEW t \in Seq(S)
  PROVE  /\ Len(s \o t) = Len(s) + Len(t) /\ Len(s) \in Nat /\ Len(t) \in Nat
         /\ \A k \in 1..Len(s) : (s \o t)[k] = s[k]
         /\ \A k \in 1..Len(s \o t) : k > Len(s) => (s \o t)[k] = t[k - Len(s)]
OBVIOUS

\* The order place by place is the order of all the ids put together.
LEMMA TurnIsOrder == TypeOK /\ InTurn => AnswersInOrder
<1> SUFFICES ASSUME TypeOK, InTurn PROVE AnswersInOrder
  OBVIOUS
<1> DEFINE a == [k \in 1..Len(toClient) |-> AnswerId(toClient[k])]
           b == [k \in 1..Len(toServer) |-> LineId(toServer[k])]
           n == Len(toClient)
           all == a \o <<executing.id>> \o b
<1>1. /\ n \in Nat /\ Len(toServer) \in Nat
      /\ a \in Seq(Nat) /\ Len(a) = n /\ b \in Seq(Nat) /\ Len(b) = Len(toServer)
      /\ <<executing.id>> \in Seq(Nat) /\ executing.id \in Nat
  BY TurnTypes DEF Replies, Lines
<1>2. \A k \in 1..n : a[k] = AnswerId(toClient[k])
  OBVIOUS
<1>3. \A k \in 1..Len(b) : b[k] = LineId(toServer[k])
  BY <1>1
<1> HIDE DEF a, b
<1>4. /\ Len(all) = n + 1 + Len(b)
      /\ Len(all) \in Nat /\ n \in Nat /\ Len(b) \in Nat
      /\ \A k \in 1..Len(all) :
           \/ k \in 1..n /\ all[k] = a[k]
           \/ k = n + 1 /\ all[k] = executing.id
           \/ k - n - 1 \in 1..Len(b) /\ all[k] = b[k - n - 1]
  <2> DEFINE mid == a \o <<executing.id>>
  <2>1. /\ mid \in Seq(Nat) /\ Len(mid) = n + 1 /\ mid[n + 1] = executing.id
        /\ \A k \in 1..n : mid[k] = a[k]
    BY <1>1
  <2>2. all = mid \o b
    OBVIOUS
  <2>c. b \in Seq(Nat)
    BY <1>1
  <2> HIDE DEF mid, all
  <2>3. /\ Len(all) = n + 1 + Len(b)
        /\ \A k \in 1..n + 1 : all[k] = mid[k]
        /\ \A k \in 1..Len(all) : k > n + 1 => all[k] = b[k - (n + 1)]
    <3> DEFINE cat == mid \o b
    <3>1. /\ Len(cat) = Len(mid) + Len(b)
          /\ \A k \in 1..Len(mid) : cat[k] = mid[k]
          /\ \A k \in 1..Len(cat) : k > Len(mid) => cat[k] = b[k - Len(mid)]
      BY ZenonT(60), <2>1, <2>c, ConcatPlaces
    <3>2. all = cat
      BY <2>2
    <3> HIDE DEF cat
    <3> QED BY <2>1, <3>1, <3>2
  <2>4. ASSUME NEW k \in 1..Len(all) PROVE
           \/ k \in 1..n /\ all[k] = a[k]
           \/ k = n + 1 /\ all[k] = executing.id
           \/ k - n - 1 \in 1..Len(b) /\ all[k] = b[k - n - 1]
    <3>1. k - (n + 1) = k - n - 1
      BY <1>1, <2>3
    <3> QED BY SMTT(30), <2>1, <2>3, <1>1, <3>1
  <2> QED BY <2>3, <2>4, <1>1
<1> HIDE DEF all
<1> SUFFICES ASSUME NEW j \in 1..Len(all), NEW k \in 1..Len(all), j < k
             PROVE  Before(all[j], all[k])
  BY DEF AnswersInOrder, InOrder, PendingIds, all, a, b
<1>5. CASE j \in 1..n /\ all[j] = a[j]
  <2>1. all[j] = AnswerId(toClient[j]) /\ j \in Replies
    BY <1>5, <1>2 DEF Replies
  <2>2. CASE k \in 1..n /\ all[k] = a[k]
    BY <2>1, <2>2, <1>2 DEF InTurn, RepliesInTurn, Replies
  <2>3. CASE all[k] = executing.id
    BY <2>1, <2>3 DEF InTurn, RepliesInTurn
  <2>4. CASE k - n - 1 \in 1..Len(b) /\ all[k] = b[k - n - 1]
    BY <2>1, <2>4, <1>1, <1>3 DEF InTurn, RepliesInTurn, Lines
  <2> QED BY <2>2, <2>3, <2>4, <1>4
<1>6. CASE j = n + 1 /\ all[j] = executing.id
  <2>1. k - n - 1 \in 1..Len(b) /\ all[k] = b[k - n - 1]
    BY <1>1, <1>4, <1>6
  <2> QED BY <2>1, <1>6, <1>1, <1>3 DEF InTurn, LinesInTurn, Lines
<1>7. CASE j - n - 1 \in 1..Len(b) /\ all[j] = b[j - n - 1]
  <2>0. j \in Nat /\ k \in Nat /\ j > n + 1 /\ j - n - 1 < k - n - 1
    BY <1>4, <1>7
  <2>1. k - n - 1 \in 1..Len(b) /\ all[k] = b[k - n - 1] /\ j - n - 1 < k - n - 1
    BY <1>4, <2>0
  <2> QED BY <2>1, <1>7, <1>1, <1>3 DEF InTurn, LinesInTurn, Lines
<1> QED BY <1>4, <1>5, <1>6, <1>7

\* A session answers its requests in the order in which it reads them, for any
\* requests, however their lines are split: AnswersInOrder.
THEOREM RpcAnswersInOrder == RpcSpec => []AnswersInOrder
<1>1. RpcInit => TypeOK /\ InTurn
  BY TypeInit, TurnInit
<1>2. TypeOK /\ InTurn /\ [RpcNext]_vars => (TypeOK /\ InTurn)'
  BY TypeStep, TurnStep
<1>3. TypeOK /\ InTurn => AnswersInOrder
  BY TurnIsOrder
<1> QED BY <1>1, <1>2, <1>3, PTL DEF RpcSpec
=============================================================================
