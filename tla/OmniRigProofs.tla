---------------------------- MODULE OmniRigProofs ----------------------------
(***************************************************************************)
(* The status of an OmniRig slot follows its rig and a client its slot,    *)
(* and an unadvised sink is silent, for any clients, rigs, variables,      *)
(* readings and capacities.                                                *)
(***************************************************************************)
EXTENDS OmniRigInvariant, SequenceFacts, FiniteSetTheorems, TLAPS

-----------------------------------------------------------------------------
(* A slot follows its rig                                                  *)

\* The values of CachedStatus::default() fit in an i32.
LEMMA DefaultFits == \A f \in Fields : Narrow(f, Default(f)) = Default(f)
<1>1. HalfRange % (2 * HalfRange) = HalfRange
  BY ControlAssumption DEF ControlAssumption
<1>2. ((0 + HalfRange) % (2 * HalfRange)) - HalfRange = 0
  BY <1>1, ControlAssumption DEF ControlAssumption
<1>3. ASSUME NEW f \in Fields PROVE Narrow(f, Default(f)) = Default(f)
  <2>1. CASE f \in Numbers
    <3>1. Default(f) = 0
      BY <2>1, Zenon DEF Default
    <3> QED
      BY <2>1, <3>1, <1>2, Zenon DEF Narrow
  <2>2. CASE f \notin Numbers
    BY <2>2, Zenon DEF Narrow
  <2> QED
    BY <2>1, <2>2
<1> QED
  BY <1>3

\* At the start nothing is on its way, and slots and rigs have the defaults.
LEMMA FollowsInit == Init => IInv
<1> SUFFICES ASSUME Init PROVE IInv
  OBVIOUS
<1>1. bus = <<>> /\ Len(bus) = 0 /\ DOMAIN shown = Rigs
  BY EmptyBus DEF Init
<1>2. BusIsSequence /\ NewestIsShown
  BY <1>1 DEF BusIsSequence, NewestIsShown, Places
<1>3. \A s \in Slots : cached[s] = NoStatus /\ "values" \in DOMAIN cached[s]
  BY DEF Init, NoStatus
<1>4. SlotsCached
  BY <1>3 DEF SlotsCached, Init
<1>5. RestFollowed
  <2> SUFFICES ASSUME NEW s \in Slots, RigOf[s] \in Rigs, NEW f \in Followed
               PROVE  cached[s].values[f] = Narrow(f, shown[RigOf[s]][f])
    BY DEF RestFollowed
  <2>1. f \in Fields
    BY DEF Followed
  <2>2. cached[s].values[f] = Default(f)
    <3>1. NoStatus.values = [g \in Fields |-> Default(g)]
      BY DEF NoStatus
    <3> QED
      BY <1>3, <2>1, <3>1, Zenon
  <2>3. shown[RigOf[s]][f] = Default(f)
    BY <2>1 DEF Init
  <2> QED
    BY <2>1, <2>2, <2>3, DefaultFits
<1> QED
  BY <1>1, <1>2, <1>4, <1>5 DEF IInv

\* Only the provider's receiving and the rigs' messages change what the invariant is about.
LEMMA QuietStep ==
  ASSUME IInv, UNCHANGED <<bus, lagged, serving, cached, shown>>
  PROVE  IInv'
BY DEF IInv, BusIsSequence, SlotsCached, NewestIsShown, RestFollowed, IsNewest, Heard, Has,
       Hears, Places

\* A provider that has left says nothing of its slots.
LEMMA LeaveStep ==
  ASSUME IInv, LeaveLagged
  PROVE  IInv'
<1>1. serving' = FALSE /\ UNCHANGED <<bus, cached, shown>>
  BY DEF LeaveLagged, rigVars
<1>2. ~ Hears'
  BY <1>1 DEF Hears
<1>3. BusIsSequence' /\ SlotsCached' /\ DOMAIN shown' = Rigs
  BY <1>1 DEF IInv, BusIsSequence, SlotsCached, Places
<1> QED
  BY <1>2, <1>3 DEF IInv, NewestIsShown, RestFollowed

\* The message received is the oldest one: the slot of its rig takes it, the others and the
\* variables it does not have are as before.
LEMMA ReceiveStep ==
  ASSUME IInv, Receive
  PROVE  IInv'
<1> DEFINE m == Head(bus)
<1>1. /\ bus # <<>> /\ bus' = Tail(bus) /\ Hears /\ Hears'
      /\ shown' = shown /\ DOMAIN shown = Rigs
  BY DEF Receive, ReceiveOther, ReceiveValues, ReceiveStatus, rigVars, Hears, IInv
<1>2. /\ Len(bus) \in Nat \ {0} /\ m = bus[1] /\ Len(bus') = Len(bus) - 1
      /\ \A k \in 1..Len(bus') : bus'[k] = bus[k + 1]
      /\ bus' \in Seq({bus'[k] : k \in 1..Len(bus')})
  <2>1. bus \in Seq({bus[k] : k \in 1..Len(bus)})
    BY DEF IInv, BusIsSequence, Places
  <2>2. /\ Len(bus) \in Nat \ {0} /\ Head(bus) = bus[1] /\ Len(Tail(bus)) = Len(bus) - 1
        /\ \A k \in 1..Len(Tail(bus)) : Tail(bus)[k] = bus[k + 1]
        /\ Tail(bus) \in Seq({Tail(bus)[k] : k \in 1..Len(Tail(bus))})
    BY <1>1, <2>1, TailPlaces
  <2> QED
    BY <2>2, <1>1, Zenon
<1>3. \A k \in Places' : k \in Nat /\ k + 1 \in Places /\ bus'[k] = bus[k + 1]
  BY <1>2 DEF Places
<1>4. \A k \in Places : k \in Nat /\ (k = 1 \/ (k - 1 \in Places' /\ bus'[k - 1] = bus[k]))
  BY <1>2 DEF Places
<1>5. BusIsSequence'
  BY <1>2 DEF BusIsSequence, Places
<1>6. NewestIsShown'
  <2> SUFFICES ASSUME NEW r \in Rigs, NEW f \in Fields, NEW k \in Places', IsNewest(k, r, f)'
               PROVE  bus'[k].values[f] = shown'[r][f]
    BY DEF NewestIsShown
  <2>1. k \in Nat /\ k + 1 \in Places /\ bus'[k] = bus[k + 1]
    BY <1>3
  <2>2. Has(k + 1, r, f)
    BY <2>1 DEF IsNewest, Has
  <2>3. ASSUME NEW j \in Places, j > k + 1 PROVE ~ Has(j, r, f)
    <3>1. j - 1 \in Places' /\ bus'[j - 1] = bus[j] /\ j - 1 > k
      BY <2>3, <2>1, <1>4
    <3> QED
      BY <3>1 DEF IsNewest, Has
  <2>4. IsNewest(k + 1, r, f)
    BY <2>2, <2>3 DEF IsNewest
  <2> QED
    BY <2>1, <2>4, <1>1 DEF IInv, NewestIsShown
\* What each step makes of the slots
<1> DEFINE Same(s) == "values" \in DOMAIN cached'[s] /\ cached'[s].values = cached[s].values
           Took(s) == /\ "values" \in DOMAIN cached'[s]
                      /\ \A f \in Followed :
                           cached'[s].values[f] = IF f \in DOMAIN m.values
                                                  THEN Narrow(f, m.values[f])
                                                  ELSE cached[s].values[f]
<1>7. /\ DOMAIN cached' = Slots
      /\ \A s \in Slots : \/ RigOf[s] = m.rig /\ m.what = "values" /\ Took(s)
                          \/ /\ Same(s)
                             /\ ~ (RigOf[s] = m.rig /\ m.what = "values" /\ RigOf[s] \in Rigs)
  <2>0. DOMAIN cached = Slots /\ \A s \in Slots : "values" \in DOMAIN cached[s]
    BY DEF IInv, SlotsCached
  <2>1. CASE ReceiveOther
    <3>1. cached' = cached /\ \A s \in Slots : RigOf[s] # m.rig
      BY <2>1 DEF ReceiveOther, SlotsOf
    <3> QED
      BY <2>0, <3>1
  <2>2. ASSUME NEW s \in Slots, ReceiveValues(s)
        PROVE  /\ DOMAIN cached' = Slots
               /\ \A t \in Slots : \/ RigOf[t] = m.rig /\ m.what = "values" /\ Took(t)
                                   \/ /\ Same(t)
                                      /\ ~ (RigOf[t] = m.rig /\ m.what = "values" /\ RigOf[t] \in Rigs)
    <3>1. /\ RigOf[s] = m.rig /\ m.what = "values"
          /\ cached' = [cached EXCEPT ![s] = Merged(cached[s], m.values)]
      BY <2>2 DEF ReceiveValues
    <3>2. DOMAIN cached' = Slots /\ cached'[s] = Merged(cached[s], m.values)
          /\ \A t \in Slots \ {s} : cached'[t] = cached[t]
      BY <3>1, <2>0
    <3>3. Took(s)
      BY <3>2 DEF Merged, Followed
    <3>4. \A t \in Slots \ {s} : Same(t) /\ (RigOf[t] = m.rig => RigOf[t] \notin Rigs)
      BY <3>1, <3>2, <2>0, SlotsAssumption DEF SlotsAssumption
    <3> HIDE DEF Took, Same
    <3> QED
      BY <3>1, <3>2, <3>3, <3>4
  <2>3. ASSUME NEW s \in Slots, ReceiveStatus(s)
        PROVE  /\ DOMAIN cached' = Slots
               /\ \A t \in Slots : Same(t) /\ m.what # "values"
    <3>1. /\ m.what = "status"
          /\ cached' = [cached EXCEPT ![s].connected = m.connected]
      BY <2>3 DEF ReceiveStatus
    <3>2. DOMAIN cached' = Slots /\ cached'[s] = [cached[s] EXCEPT !.connected = m.connected]
          /\ \A t \in Slots \ {s} : cached'[t] = cached[t]
      BY <3>1, <2>0
    <3>3. Same(s)
      BY <3>2, <2>0
    <3> QED
      BY <3>1, <3>2, <3>3, <2>0
  <2> HIDE DEF Took, Same
  <2> QED
    BY <2>1, <2>2, <2>3 DEF Receive
<1>8. SlotsCached'
  BY <1>7 DEF SlotsCached
<1>9. RestFollowed'
  <2> SUFFICES ASSUME NEW s \in Slots, RigOf[s] \in Rigs, NEW f \in Followed,
                      ~ Heard(RigOf[s], f)'
               PROVE  cached'[s].values[f] = Narrow(f, shown[RigOf[s]][f])
    BY <1>1 DEF RestFollowed, Followed, TakenAs, Narrow
  <2>1. f \in Fields /\ 1 \in Places
    BY <1>2 DEF Followed, Places
  <2>2. \A j \in Places : j # 1 => ~ Has(j, RigOf[s], f)
    BY <1>4 DEF Heard, Has
  <2>3. CASE Has(1, RigOf[s], f)
    <3>1. \A j \in Places : j > 1 => ~ Has(j, RigOf[s], f)
      BY <2>2, <1>4
    <3>2. bus[1].values[f] = shown[RigOf[s]][f]
      BY <3>1, <2>1, <2>3, <1>1 DEF IInv, NewestIsShown, IsNewest
    <3>3. m.rig = RigOf[s] /\ m.what = "values" /\ f \in DOMAIN m.values
      BY <2>3, <1>2 DEF Has
    <3>4. Took(s)
      BY <3>3, <1>7
    <3> QED
      BY <3>2, <3>3, <3>4, <1>2
  <2>4. CASE ~ Has(1, RigOf[s], f)
    <3>1. ~ Heard(RigOf[s], f)
      BY <2>2, <2>4 DEF Heard
    <3>2. cached[s].values[f] = Narrow(f, shown[RigOf[s]][f])
      BY <3>1, <1>1 DEF IInv, RestFollowed
    <3>3. cached'[s].values[f] = cached[s].values[f]
      BY <2>4, <1>2, <1>7 DEF Has
    <3> QED
      BY <3>2, <3>3
  <2> QED
    BY <2>3, <2>4
<1> QED
  BY <1>1, <1>5, <1>6, <1>8, <1>9 DEF IInv

\* A message is appended; when there was no room for it the provider will leave.
LEMMA BroadcastStep ==
  ASSUME IInv, NEW r \in Rigs, NEW x, Broadcast(x), x.rig = r,
         DOMAIN shown' = Rigs,
         \A q \in Rigs \ {r} : shown'[q] = shown[q],
         \A f \in Fields : \/ x.what = "values" /\ f \in DOMAIN x.values /\ x.values[f] = shown'[r][f]
                           \/ ~ (x.what = "values" /\ f \in DOMAIN x.values) /\ shown'[r][f] = shown[r][f]
  PROVE  IInv'
<1> DEFINE full == Len(bus) = BusCap
           kept == IF full THEN Tail(bus) ELSE bus
<1>1. bus' = Append(kept, x) /\ lagged' = (lagged \/ full) /\ UNCHANGED <<cached, serving>>
  BY DEF Broadcast
<1>2. bus \in Seq({bus[k] : k \in 1..Len(bus)})
  BY DEF IInv, BusIsSequence, Places
<1>3. kept \in Seq({kept[k] : k \in 1..Len(kept)})
  <2>1. CASE full
    <3>1. bus # <<>>
      BY <2>1, EmptyBus, OmniRigAssumption DEF OmniRigAssumption
    <3>2. Tail(bus) \in Seq({Tail(bus)[k] : k \in 1..Len(Tail(bus))})
      BY SMTT(30), <1>2, <3>1, TailPlaces
    <3>3. kept = Tail(bus)
      BY <2>1
    <3> HIDE DEF kept
    <3> QED
      BY <3>2, <3>3
  <2>2. CASE ~ full
    BY <2>2, <1>2
  <2> QED
    BY <2>1, <2>2
<1>4. kept = bus \/ ~ Hears'
  BY <1>1 DEF Hears
<1> HIDE DEF kept, full
<1>5. /\ Len(kept) \in Nat /\ Len(bus') = Len(kept) + 1
      /\ \A k \in 1..Len(kept) : bus'[k] = kept[k]
      /\ bus'[Len(kept) + 1] = x
      /\ bus' \in Seq({bus'[k] : k \in 1..Len(bus')})
  <2>1. /\ Len(kept) \in Nat /\ Len(Append(kept, x)) = Len(kept) + 1
        /\ \A k \in 1..Len(kept) : Append(kept, x)[k] = kept[k]
        /\ Append(kept, x)[Len(kept) + 1] = x
        /\ Append(kept, x) \in Seq({Append(kept, x)[k] : k \in 1..Len(Append(kept, x))})
    BY SMTT(30), <1>3, AppendPlaces
  <2> QED
    BY <2>1, <1>1, ZenonT(60)
<1>6. BusIsSequence' /\ SlotsCached'
  BY <1>1, <1>5 DEF IInv, BusIsSequence, SlotsCached, Places
<1>7. CASE ~ Hears'
  BY <1>6, <1>7 DEF IInv, NewestIsShown, RestFollowed
<1>8. CASE Hears'
  <2> DEFINE last == Len(bus) + 1
             XHas(q, f) == x.rig = q /\ x.what = "values" /\ f \in DOMAIN x.values
  <2>1. Hears /\ kept = bus
    BY <1>1, <1>4, <1>8 DEF Hears
  <2>2. last \in Nat /\ last \in Places' /\ bus'[last] = x
    BY <1>5, <2>1 DEF Places
  <2>3. \A k \in Places' : k \in Nat /\ k <= last /\ (k = last \/ (k \in Places /\ bus'[k] = bus[k]))
    BY <1>5, <2>1 DEF Places
  <2>4. \A k \in Places : k \in Places' /\ k # last /\ k < last /\ bus'[k] = bus[k]
    BY <1>5, <2>1 DEF Places
  <2> HIDE DEF last
  <2>5. NewestIsShown'
    <3> SUFFICES ASSUME NEW q \in Rigs, NEW f \in Fields, NEW k \in Places', IsNewest(k, q, f)'
                 PROVE  bus'[k].values[f] = shown'[q][f]
      BY DEF NewestIsShown
    <3>1. CASE XHas(q, f)
      <4>1. k = last
        BY <3>1, <2>2, <2>3 DEF IsNewest, Has
      <4> QED
        BY <3>1, <4>1, <2>2
    <3>2. CASE ~ XHas(q, f)
      <4>1. k # last /\ k \in Places /\ bus'[k] = bus[k]
        BY <3>2, <2>2, <2>3 DEF IsNewest, Has
      <4>2. \A j \in Places : j > k => ~ Has(j, q, f)
        BY <2>4 DEF IsNewest, Has
      <4>3. IsNewest(k, q, f)
        BY <4>1, <4>2 DEF IsNewest, Has
      <4>4. bus[k].values[f] = shown[q][f]
        BY <4>1, <4>3, <2>1 DEF IInv, NewestIsShown
      <4>5. shown'[q][f] = shown[q][f]
        BY <3>2
      <4> QED
        BY <4>1, <4>4, <4>5
    <3> QED
      BY <3>1, <3>2
  <2>6. RestFollowed'
    <3> SUFFICES ASSUME NEW s \in Slots, RigOf[s] \in Rigs, NEW f \in Followed,
                        ~ Heard(RigOf[s], f)'
                 PROVE  cached[s].values[f] = Narrow(f, shown'[RigOf[s]][f])
      BY <1>1 DEF RestFollowed, Followed, TakenAs, Narrow
    <3>1. f \in Fields /\ ~ XHas(RigOf[s], f)
      BY <2>2 DEF Heard, Has, Followed
    <3>2. shown'[RigOf[s]][f] = shown[RigOf[s]][f]
      BY <3>1
    <3>3. ~ Heard(RigOf[s], f)
      BY <2>4 DEF Heard, Has
    <3> QED
      BY <3>2, <3>3, <2>1 DEF IInv, RestFollowed
  <2> QED
    BY <1>6, <2>5, <2>6 DEF IInv
<1> QED
  BY <1>7, <1>8

\* A rig publishes the values that changed, or its connection status.
LEMMA PublishStep ==
  ASSUME IInv, NEW r \in Rigs, PublishValues(r) \/ PublishStatus(r)
  PROVE  IInv'
<1>1. CASE PublishValues(r)
  <2>1. PICK v \in Readings, told \in SUBSET Fields :
          /\ {f \in Fields : v[f] # shown[r][f]} \subseteq told
          /\ shown' = [shown EXCEPT ![r] = v]
          /\ Broadcast([what |-> "values", rig |-> r, values |-> [f \in told |-> v[f]]])
    BY <1>1 DEF PublishValues
  <2> DEFINE x == [what |-> "values", rig |-> r, values |-> [f \in told |-> v[f]]]
  <2>2. DOMAIN shown' = Rigs /\ shown'[r] = v /\ \A q \in Rigs \ {r} : shown'[q] = shown[q]
    BY <2>1 DEF IInv
  <2>3. /\ x.rig = r /\ x.what = "values" /\ DOMAIN x.values = told
        /\ \A f \in told : x.values[f] = v[f]
    OBVIOUS
  <2>4. \A f \in Fields \ told : v[f] = shown[r][f]
    BY <2>1
  <2>5. Broadcast(x)
    BY <2>1
  <2> HIDE DEF x
  <2> QED
    BY <2>2, <2>3, <2>4, <2>5, BroadcastStep
<1>2. CASE PublishStatus(r)
  <2>1. PICK l \in Links :
          /\ Broadcast([what |-> "status", rig |-> r, connected |-> l = "Connected"])
          /\ UNCHANGED shown
    BY <1>2 DEF PublishStatus
  <2> DEFINE x == [what |-> "status", rig |-> r, connected |-> l = "Connected"]
  <2>2. x.rig = r /\ x.what = "status" /\ Broadcast(x)
    BY <2>1
  <2>3. DOMAIN shown' = Rigs /\ shown' = shown
    BY <2>1 DEF IInv
  <2> HIDE DEF x
  <2> QED
    BY <2>2, <2>3, BroadcastStep
<1> QED
  BY <1>1, <1>2

\* Every step of the provider, the COM thread, its clients and the rigs keeps the invariant.
LEMMA FollowsStep == IInv /\ [Next]_vars => IInv'
<1> SUFFICES ASSUME IInv, [Next]_vars PROVE IInv'
  OBVIOUS
<1> DEFINE Same == UNCHANGED <<bus, lagged, serving, cached, shown>>
<1>1. Same => IInv'
  BY QuietStep
<1>2. CASE UNCHANGED vars
  BY <1>1, <1>2 DEF vars
<1>3. ASSUME NEW r \in Rigs, PublishValues(r) \/ PublishStatus(r) PROVE IInv'
  BY <1>3, PublishStep
<1>4. CASE Provider
  <2>1. QueueEvent => Same
    BY DEF QueueEvent, rigVars
  <2> QED
    BY <1>1, <1>4, <2>1, ReceiveStep, LeaveStep DEF Provider
<1>5. CASE ComThread
  <2>1. StartEvents \/ Drain \/ TakeEvent \/ PassOver \/ Unmarshal \/ Unmarshalled => Same
    BY DEF StartEvents, Drain, TakeEvent, PassOver, Unmarshal, Unmarshalled, rigVars, providerVars
  <2>2. Fire \/ Invoked \/ Shutdown \/ SendCommand => Same
    BY DEF Fire, Invoked, Shutdown, SendCommand, rigVars, providerVars
  <2>3. ASSUME NEW c \in Clients, StartSetting(c) PROVE Same
    BY <2>3 DEF StartSetting, rigVars, providerVars
  <2> QED
    BY <1>1, <1>5, <2>1, <2>2, <2>3 DEF ComThread
<1>6. CASE ManagerTakes \/ ManagerEnds \/ Stop
  BY <1>1, <1>6 DEF ManagerTakes, ManagerEnds, Stop, rigVars, providerVars
<1>7. ASSUME NEW c \in Clients, Client(c) \/ ClientEnds(c) PROVE IInv'
  <2>1. Client(c) => Same
    BY DEF Client, CreateInstance, Advise, Unadvise, UnadviseHangs, Release, Read, Operate,
           rigVars, providerVars
  <2>2. ClientEnds(c) => Same
    BY DEF ClientEnds, rigVars, providerVars
  <2> QED
    BY <1>1, <1>7, <2>1, <2>2
<1> QED
  BY <1>2, <1>3, <1>4, <1>5, <1>6, <1>7 DEF Next

(***************************************************************************)
(* Once the provider has received everything, and missed nothing, each slot*)
(* reads as its rig last published, for the variables it follows.          *)
(***************************************************************************)
THEOREM SlotsFollow == Spec => []StatusFollows
<1>1. IInv => StatusFollows
  BY EmptyBus DEF IInv, RestFollowed, StatusFollows, Heard, Hears, Places
<1> QED
  BY <1>1, FollowsInit, FollowsStep, PTL DEF Spec

-----------------------------------------------------------------------------
(* What an unadvised sink is silent for                                    *)

\* The place of a kept client among those that are kept
LEMMA KeptCounts ==
  ASSUME sinkList \in Seq(Clients)
  PROVE  /\ IsFiniteSet(Kept) /\ Cardinality(Kept) \in Nat /\ Kept \subseteq Nat
         /\ \A k \in Kept : KeptUpTo(k) \in 1..Cardinality(Kept)
         /\ \A j, k \in Kept : KeptUpTo(j) = KeptUpTo(k) => j = k
<1>1. IsFiniteSet(1..Len(sinkList)) /\ 1..Len(sinkList) \subseteq Nat
  BY FS_Interval
<1>2. IsFiniteSet(Kept) /\ Cardinality(Kept) \in Nat /\ Kept \subseteq Nat
  <2>1. Kept \in SUBSET (1..Len(sinkList))
    BY DEF Kept
  <2> QED
    BY <1>1, <2>1, FS_Subset, FS_CardinalityType
<1> DEFINE UpTo(k) == {j \in Kept : j <= k}
<1>3. ASSUME NEW k \in Kept
      PROVE  /\ IsFiniteSet(UpTo(k)) /\ k \in UpTo(k)
             /\ Cardinality(UpTo(k)) \in 1..Cardinality(Kept)
  <2>1. UpTo(k) \in SUBSET Kept /\ k \in UpTo(k)
    BY <1>2
  <2> HIDE DEF UpTo
  <2>2. /\ IsFiniteSet(UpTo(k)) /\ Cardinality(UpTo(k)) \in Nat
        /\ Cardinality(UpTo(k)) <= Cardinality(Kept) /\ Cardinality(UpTo(k)) # 0
    BY <2>1, <1>2, FS_Subset, FS_CardinalityType, FS_EmptySet
  <2> QED
    BY <2>1, <2>2, <1>2
<1>4. ASSUME NEW j \in Kept, NEW k \in Kept, j < k
      PROVE  Cardinality(UpTo(j)) # Cardinality(UpTo(k))
  <2>1. j \in Nat /\ k \in Nat /\ \A i \in Kept : i \in Nat
    BY <1>2
  <2>2. \A i \in Kept : i <= j => i <= k
    BY <2>1, <1>4
  <2>3. UpTo(j) \in SUBSET UpTo(k)
    BY <2>2
  <2>4. k \notin UpTo(j)
    BY <2>1, <1>4
  <2> HIDE DEF UpTo
  <2> QED
    BY <2>3, <2>4, <1>3, FS_Subset
<1>5. \A k : KeptUpTo(k) = Cardinality(UpTo(k))
  BY DEF KeptUpTo
<1> HIDE DEF UpTo
<1>6. ASSUME NEW j \in Kept, NEW k \in Kept, KeptUpTo(j) = KeptUpTo(k)
      PROVE  j = k
  <2>1. j \in Nat /\ k \in Nat
    BY <1>2
  <2>2. ~ (j < k) /\ ~ (k < j)
    BY <1>4, <1>5, <1>6
  <2> QED
    BY <2>1, <2>2
<1> QED
  BY <1>2, <1>3, <1>5, <1>6

\* Each place among those that are kept is one of a kept client.
LEMMA KeptNumbered ==
  ASSUME sinkList \in Seq(Clients), NEW n \in 1..Cardinality(Kept)
  PROVE  \E k \in Kept : KeptUpTo(k) = n
<1> DEFINE T == 1..Cardinality(Kept)
           f == [k \in Kept |-> KeptUpTo(k)]
<1>1. /\ Cardinality(Kept) \in Nat /\ IsFiniteSet(Kept)
      /\ f \in [Kept -> T] /\ \A j, k \in Kept : f[j] = f[k] => j = k
  BY KeptCounts
<1>2. IsFiniteSet(T) /\ Cardinality(T) = Cardinality(Kept)
  BY <1>1, FS_Interval
<1>3. f \in Injection(Kept, T)
  BY <1>1 DEF Injection, IsInjective
<1>4. f \in Surjection(Kept, T)
  <2> HIDE DEF f, T
  <2> QED
    BY <1>2, <1>3, FS_Injection
<1>5. \E k \in Kept : f[k] = n
  BY <1>4 DEF Surjection
<1> QED
  BY <1>5

\* retain leaves a list of clients, with all whose object is not released.
LEMMA RetainedClients ==
  ASSUME sinkList \in Seq(Clients)
  PROVE  /\ Retained \in Seq(Clients) /\ Len(Retained) \in Nat
         /\ \A k \in 1..Len(sinkList) : object[sinkList[k]] # "released" =>
              \E n \in 1..Len(Retained) : Retained[n] = sinkList[k]
<1>1. Cardinality(Kept) \in Nat
  BY KeptCounts
<1> DEFINE Nth(n) == CHOOSE k \in Kept : KeptUpTo(k) = n
<1>2. \A n \in 1..Cardinality(Kept) : Nth(n) \in Kept /\ KeptUpTo(Nth(n)) = n
  BY KeptNumbered
<1>3. \A k \in Kept : sinkList[k] \in Clients
  BY DEF Kept
<1>4. Retained = [n \in 1..Cardinality(Kept) |-> sinkList[Nth(n)]]
  BY DEF Retained
<1> HIDE DEF Nth
<1>5. Retained \in [1..Cardinality(Kept) -> Clients]
  BY <1>2, <1>3, <1>4
<1>6. Retained \in Seq(Clients) /\ Len(Retained) = Cardinality(Kept)
  BY <1>1, <1>5
<1>7. ASSUME NEW k \in 1..Len(sinkList), object[sinkList[k]] # "released"
      PROVE  \E n \in 1..Len(Retained) : Retained[n] = sinkList[k]
  <2>1. k \in Kept
    BY <1>7 DEF Kept
  <2>2. KeptUpTo(k) \in 1..Cardinality(Kept)
    BY <2>1, KeptCounts
  <2>3. Nth(KeptUpTo(k)) = k
    BY <2>1, <2>2, <1>2, KeptCounts
  <2> QED
    BY <2>2, <2>3, <1>4, <1>6
<1> QED
  BY <1>1, <1>6, <1>7

\* A sequence over its own elements
OwnSeq(s) == s \in Seq({s[k] : k \in 1..Len(s)})

LEMMA OwnTail ==
  ASSUME NEW s, OwnSeq(s), s # <<>>
  PROVE  /\ Len(s) \in Nat \ {0} /\ Head(s) = s[1] /\ Len(Tail(s)) = Len(s) - 1
         /\ \A k \in 1..Len(Tail(s)) : Tail(s)[k] = s[k + 1]
         /\ OwnSeq(Tail(s))
BY TailPlaces DEF OwnSeq

LEMMA OwnAppend ==
  ASSUME NEW s, OwnSeq(s), NEW x
  PROVE  /\ Len(s) \in Nat /\ Len(Append(s, x)) = Len(s) + 1
         /\ \A k \in 1..Len(s) : Append(s, x)[k] = s[k]
         /\ Append(s, x)[Len(s) + 1] = x
         /\ OwnSeq(Append(s, x))
BY AppendPlaces DEF OwnSeq

\* The places of what is left, and those of what was there
LEMMA Shifted ==
  ASSUME NEW s, OwnSeq(s), s # <<>>
  PROVE  /\ 1 \in 1..Len(s) /\ s[1] = Head(s)
         /\ \A k \in 1..Len(Tail(s)) : k \in Nat /\ k + 1 \in 1..Len(s) /\ Tail(s)[k] = s[k + 1]
         /\ \A k \in 1..Len(s) :
              k \in Nat /\ (k = 1 \/ (k - 1 \in 1..Len(Tail(s)) /\ Tail(s)[k - 1] = s[k]))
<1>1. /\ Len(s) \in Nat \ {0} /\ Head(s) = s[1] /\ Len(Tail(s)) = Len(s) - 1
      /\ \A k \in 1..Len(Tail(s)) : Tail(s)[k] = s[k + 1]
  BY OwnTail
<1>2. \A k \in 1..Len(s) : k \in Nat /\ (k = 1 \/ k - 1 \in 1..Len(Tail(s)))
  BY <1>1
<1>3. \A k \in 1..Len(s) : k - 1 \in 1..Len(Tail(s)) => Tail(s)[k - 1] = s[k]
  BY <1>1
<1>4. \A k \in 1..Len(Tail(s)) : k \in Nat /\ k + 1 \in 1..Len(s)
  BY <1>1
<1> QED
  BY <1>1, <1>2, <1>3, <1>4

\* What the list, the channels and the loops are made of
LEMMA ComSequences ==
  QueuesAreSequences <=>
    OwnSeq(queue) /\ OwnSeq(drained) /\ OwnSeq(todo) /\ sinkList \in Seq(Clients)
BY DEF QueuesAreSequences, OwnSeq, QueuePlaces, DrainedPlaces, TodoPlaces

\* At the start there is nothing to do, and no sink.
LEMMA ComInit == Init => ComInv
<1> SUFFICES ASSUME Init PROVE ComInv
  OBVIOUS
<1>1. QueuesAreSequences /\ Len(<<>>) = 0
  BY EmptyBus DEF Init, QueuesAreSequences, QueuePlaces, DrainedPlaces, TodoPlaces
<1>2. WorkConsistent
  <2>1. QueuePlaces = {} /\ DrainedPlaces = {} /\ TodoPlaces = {}
    BY <1>1 DEF Init, QueuePlaces, DrainedPlaces, TodoPlaces
  <2>2. undrained = FALSE
    BY DEF Init
  <2> QED
    BY <2>1, <2>2 DEF WorkConsistent
<1>3. ClientTypes /\ OutConsistent /\ UnadvisedIsSilent
  BY DEF Init, ClientTypes, OutConsistent, UnadvisedIsSilent, NoCall
<1> QED
  BY <1>1, <1>2, <1>3 DEF ComInv

\* A pass starts with the list of those that are left, to unmarshal.
LEMMA StartCom ==
  ASSUME ComInv, StartEvents
  PROVE  ComInv'
<1>1. /\ sinkList' = Retained /\ undrained' = TRUE
      /\ todo' = [k \in 1..Len(Retained) |-> [do |-> "unmarshal", at |-> Retained[k]]]
      /\ UNCHANGED <<queue, drained, out, sink, object, alive, toRead, view, silenced>>
  BY DEF StartEvents, clientVars
<1>2. Retained \in Seq(Clients) /\ Len(Retained) \in Nat
  BY RetainedClients DEF ComInv, QueuesAreSequences
<1>3. /\ Len(todo') = Len(Retained)
      /\ \A k \in 1..Len(todo') : todo'[k].do = "unmarshal" /\ todo'[k].at \in Clients
      /\ OwnSeq(todo')
  <2>1. \A k \in 1..Len(Retained) : Retained[k] \in Clients
    BY <1>2
  <2>2. Len(todo') = Len(Retained) /\ OwnSeq(todo')
    <3> DEFINE n == Len(Retained)
               work == [k \in 1..n |-> [do |-> "unmarshal", at |-> Retained[k]]]
               S == {work[k] : k \in 1..n}
    <3>1. n \in Nat /\ work \in [1..n -> S]
      BY <1>2
    <3> HIDE DEF n, work, S
    <3>2. Len(work) = n /\ work \in Seq(S)
      BY <3>1
    <3> QED
      BY <3>2, <1>1 DEF OwnSeq, n, work, S
  <2> QED
    BY <1>1, <2>1, <2>2 DEF OwnSeq
<1>4. QueuesAreSequences'
  <2>1. OwnSeq(queue)' /\ OwnSeq(drained)'
    BY <1>1, ComSequences DEF ComInv, OwnSeq
  <2> QED
    BY <1>1, <1>2, <1>3, <2>1 DEF QueuesAreSequences, OwnSeq, QueuePlaces, DrainedPlaces, TodoPlaces
<1>5. drained = <<>> /\ out.what # "invoke"
  BY DEF StartEvents, Idle, NoCall
<1>6. WorkConsistent'
  BY <1>1, <1>3, <1>5 DEF ComInv, WorkConsistent, QueuePlaces, DrainedPlaces, TodoPlaces
<1>7. ClientTypes' /\ OutConsistent' /\ UnadvisedIsSilent'
  BY <1>1 DEF ComInv, ClientTypes, OutConsistent, UnadvisedIsSilent
<1> QED
  BY <1>4, <1>6, <1>7 DEF ComInv

\* The queue is drained when the first loop is done.
LEMMA DrainCom ==
  ASSUME ComInv, Drain
  PROVE  ComInv'
<1>1. /\ todo = <<>> /\ undrained' = FALSE /\ drained' = queue /\ queue' = <<>>
      /\ UNCHANGED <<sinkList, todo, out, sink, object, alive, toRead, view, silenced>>
      /\ Len(<<>>) = 0
  BY EmptyBus DEF Drain, clientVars
<1>2. QueuesAreSequences'
  BY <1>1, EmptyBus DEF ComInv, QueuesAreSequences, QueuePlaces, DrainedPlaces, TodoPlaces
<1>3. WorkConsistent'
  <2>1. DrainedPlaces' = QueuePlaces /\ QueuePlaces' = {} /\ TodoPlaces' = {}
    BY <1>1 DEF QueuePlaces, DrainedPlaces, TodoPlaces
  <2> QED
    BY <1>1, <2>1 DEF ComInv, WorkConsistent
<1>4. ClientTypes' /\ OutConsistent' /\ UnadvisedIsSilent'
  BY <1>1 DEF ComInv, ClientTypes, OutConsistent, UnadvisedIsSilent
<1> QED
  BY <1>2, <1>3, <1>4 DEF ComInv

\* An event is taken: a client's sinks are registered, or it is fired at those in the list.
LEMMA TakeCom ==
  ASSUME ComInv, TakeEvent
  PROVE  ComInv'
<1> DEFINE e == Head(drained)
<1>1. /\ todo = <<>> /\ drained # <<>> /\ drained' = Tail(drained)
      /\ UNCHANGED <<queue, undrained, out, sink, object, alive, toRead, view, silenced>>
  BY DEF TakeEvent, clientVars
<1>2. ~ undrained /\ undrained \in BOOLEAN
  BY <1>1 DEF ComInv, WorkConsistent
<1>3. OwnSeq(queue) /\ OwnSeq(drained) /\ sinkList \in Seq(Clients)
  BY ComSequences DEF ComInv
<1>4. OwnSeq(drained')
  BY <1>1, <1>3, OwnTail
<1>5. /\ \A k \in 1..Len(drained') : drained'[k].what = "register" => drained'[k].client \in Clients
      /\ e.what = "register" => e.client \in Clients
  BY <1>1, <1>3, Shifted DEF ComInv, WorkConsistent, DrainedPlaces
<1>6. /\ sinkList' \in Seq(Clients) /\ OwnSeq(todo')
      /\ \A k \in 1..Len(todo') : todo'[k].at \in Clients /\ todo'[k].do # "unmarshal"
  <2>1. CASE e.what = "register"
    <3> DEFINE work == [do |-> "register", at |-> e.client]
    <3>1. sinkList' = Append(sinkList, e.client) /\ todo' = <<work>>
      BY <2>1 DEF TakeEvent
    <3>2. sinkList' \in Seq(Clients)
      BY <3>1, <2>1, <1>3, <1>5
    <3>3. work.at \in Clients /\ work.do # "unmarshal"
      BY <2>1, <1>5
    <3> HIDE DEF work
    <3>4. Len(todo') = 1 /\ todo'[1] = work /\ OwnSeq(todo')
      BY <3>1 DEF OwnSeq
    <3> QED
      BY <3>2, <3>3, <3>4
  <2>2. CASE e.what # "register"
    <3>1. /\ sinkList' = sinkList
          /\ todo' = [k \in 1..Len(sinkList) |-> [do |-> "fire", at |-> sinkList[k], event |-> e]]
      BY <2>2 DEF TakeEvent
    <3>2. Len(sinkList) \in Nat /\ \A k \in 1..Len(sinkList) : sinkList[k] \in Clients
      BY <1>3
    <3>3. Len(todo') = Len(sinkList) /\ OwnSeq(todo')
      BY <3>1, <3>2 DEF OwnSeq
    <3> QED
      BY <3>1, <3>2, <3>3, <1>3
  <2> QED
    BY <2>1, <2>2
<1>7. QueuesAreSequences'
  BY <1>1, <1>3, <1>4, <1>6 DEF QueuesAreSequences, OwnSeq, QueuePlaces, DrainedPlaces, TodoPlaces
<1>8. WorkConsistent'
  BY <1>1, <1>2, <1>5, <1>6 DEF ComInv, WorkConsistent, QueuePlaces, DrainedPlaces, TodoPlaces
<1>9. ClientTypes' /\ OutConsistent' /\ UnadvisedIsSilent'
  BY <1>1 DEF ComInv, ClientTypes, OutConsistent, UnadvisedIsSilent
<1> QED
  BY <1>7, <1>8, <1>9 DEF ComInv

\* One of the works is done, or passed over: the rest is as it was.
LEMMA WorkLeft ==
  ASSUME ComInv, todo # <<>>, todo' = Tail(todo)
  PROVE  /\ Head(todo) = todo[1] /\ 1 \in TodoPlaces /\ Head(todo).at \in Clients
         /\ (Head(todo).do = "unmarshal" <=> undrained)
         /\ OwnSeq(todo')
         /\ \A k \in TodoPlaces' : k \in Nat /\ k + 1 \in TodoPlaces /\ todo'[k] = todo[k + 1]
         /\ \A k \in TodoPlaces : k = 1 \/ (k - 1 \in TodoPlaces' /\ todo'[k - 1] = todo[k])
         /\ \A k \in TodoPlaces' :
              todo'[k].at \in Clients /\ (todo'[k].do = "unmarshal" <=> undrained)
<1>1. OwnSeq(todo)
  BY ComSequences DEF ComInv
<1>2. \A k \in TodoPlaces : todo[k].at \in Clients /\ (todo[k].do = "unmarshal" <=> undrained)
  BY DEF ComInv, WorkConsistent
<1>3. OwnSeq(todo')
  BY <1>1, OwnTail
<1>4. /\ 1 \in TodoPlaces /\ todo[1] = Head(todo)
      /\ \A k \in TodoPlaces' : k \in Nat /\ k + 1 \in TodoPlaces /\ todo'[k] = todo[k + 1]
      /\ \A k \in TodoPlaces : k = 1 \/ (k - 1 \in TodoPlaces' /\ todo'[k - 1] = todo[k])
  BY <1>1, Shifted DEF TodoPlaces
<1>5. \A k \in TodoPlaces' :
        todo'[k].at \in Clients /\ (todo'[k].do = "unmarshal" <=> undrained)
  <2> TAKE k \in TodoPlaces'
  <2>1. k + 1 \in TodoPlaces /\ todo'[k] = todo[k + 1]
    BY <1>4
  <2> QED
    BY <2>1, <1>2, Zenon
<1>6. Head(todo).at \in Clients /\ (Head(todo).do = "unmarshal" <=> undrained)
  BY <1>2, <1>4
<1> QED
  BY <1>3, <1>4, <1>5, <1>6, ZenonT(30)

\* Nothing but the works and the call at hand changes.
LEMMA WorkCom ==
  ASSUME ComInv, todo # <<>>, todo' = Tail(todo),
         UNCHANGED <<queue, drained, sinkList, undrained>>,
         ClientTypes', OutConsistent', UnadvisedIsSilent',
         undrained => out'.what # "invoke"
  PROVE  ComInv'
<1>1. OwnSeq(todo') /\ OwnSeq(queue)' /\ OwnSeq(drained)' /\ sinkList' \in Seq(Clients)
  <2>1. OwnSeq(queue) /\ OwnSeq(drained) /\ sinkList \in Seq(Clients)
    BY ComSequences DEF ComInv
  <2> QED
    BY <2>1, WorkLeft DEF OwnSeq
<1>2. QueuesAreSequences'
  BY <1>1 DEF QueuesAreSequences, OwnSeq, QueuePlaces, DrainedPlaces, TodoPlaces
<1>3. \A k \in TodoPlaces' : todo'[k].at \in Clients /\ (todo'[k].do = "unmarshal" <=> undrained)
  BY WorkLeft
<1>4. QueuePlaces' = QueuePlaces /\ DrainedPlaces' = DrainedPlaces
  BY DEF QueuePlaces, DrainedPlaces
<1>5. undrained \in BOOLEAN /\ (undrained => drained = <<>>)
  BY DEF ComInv, WorkConsistent
<1>6. /\ \A k \in QueuePlaces : queue[k].what = "register" => queue[k].client \in Clients
      /\ \A k \in DrainedPlaces : drained[k].what = "register" => drained[k].client \in Clients
  BY DEF ComInv, WorkConsistent
<1>7. WorkConsistent'
  BY <1>3, <1>4, <1>5, <1>6 DEF WorkConsistent
<1> QED
  BY <1>2, <1>7 DEF ComInv

\* Nothing but the clients and the call at hand changes.
LEMMA ClientCom ==
  ASSUME ComInv, UNCHANGED <<queue, drained, todo, sinkList, undrained>>,
         ClientTypes', OutConsistent', UnadvisedIsSilent',
         undrained => out'.what # "invoke"
  PROVE  ComInv'
<1>1. QueuesAreSequences'
  BY DEF ComInv, QueuesAreSequences, QueuePlaces, DrainedPlaces, TodoPlaces
<1>2. /\ QueuePlaces' = QueuePlaces /\ DrainedPlaces' = DrainedPlaces /\ TodoPlaces' = TodoPlaces
  BY DEF QueuePlaces, DrainedPlaces, TodoPlaces
<1>3. WorkConsistent'
  BY <1>2 DEF ComInv, WorkConsistent
<1> QED
  BY <1>1, <1>3 DEF ComInv

\* An event is appended to the queue; one that registers a client's sinks has the client.
LEMMA AppendCom ==
  ASSUME ComInv, NEW e, queue' = Append(queue, e),
         e.what = "register" => e.client \in Clients,
         UNCHANGED <<drained, todo, sinkList, undrained, out>>,
         ClientTypes', OutConsistent', UnadvisedIsSilent'
  PROVE  ComInv'
<1>1. OwnSeq(queue) /\ OwnSeq(drained) /\ OwnSeq(todo) /\ sinkList \in Seq(Clients)
  BY ComSequences DEF ComInv
<1>2. /\ Len(queue) \in Nat /\ Len(queue') = Len(queue) + 1
      /\ \A k \in 1..Len(queue) : queue'[k] = queue[k]
      /\ queue'[Len(queue) + 1] = e
      /\ OwnSeq(queue')
  BY <1>1, OwnAppend
<1>3. QueuesAreSequences'
  BY <1>1, <1>2 DEF QueuesAreSequences, OwnSeq, QueuePlaces, DrainedPlaces, TodoPlaces
<1>4. \A k \in QueuePlaces' : k \in QueuePlaces \/ queue'[k] = e
  BY <1>2 DEF QueuePlaces
<1>5. \A k \in QueuePlaces : queue'[k] = queue[k]
  BY <1>2 DEF QueuePlaces
<1>6. DrainedPlaces' = DrainedPlaces /\ TodoPlaces' = TodoPlaces
  BY DEF DrainedPlaces, TodoPlaces
<1>7. WorkConsistent'
  BY <1>4, <1>5, <1>6 DEF ComInv, WorkConsistent
<1> QED
  BY <1>3, <1>7 DEF ComInv

\* A sink that is unmarshalled was pending, and so not unadvised.
LEMMA UnmarshalCom ==
  ASSUME ComInv, Unmarshal
  PROVE  ComInv'
<1> DEFINE c == Head(todo).at
<1>1. /\ todo # <<>> /\ todo' = Tail(todo) /\ sink[c] = "pending" /\ out = NoCall
      /\ sink' = [sink EXCEPT ![c] = "taken"]
      /\ out' = [what |-> "unmarshal", at |-> c]
      /\ UNCHANGED <<queue, drained, sinkList, undrained, object, alive, toRead, view, silenced>>
  BY DEF Unmarshal, Doing, Works, Free
<1>2. c \in Clients
  BY <1>1, WorkLeft
<1> HIDE DEF c
<1>3. sink'[c] = "taken" /\ \A d \in Clients \ {c} : sink'[d] = sink[d]
  BY <1>1, <1>2 DEF ComInv, ClientTypes
<1>4. ClientTypes'
  BY <1>1, <1>2, <1>3 DEF ComInv, ClientTypes
<1>5. \A d \in Clients : sink[d] # "taken"
  BY <1>1 DEF ComInv, OutConsistent, NoCall
<1>6. OutConsistent'
  BY <1>1, <1>2, <1>3, <1>5 DEF OutConsistent
<1>7. UnadvisedIsSilent'
  BY <1>1, <1>3 DEF ComInv, UnadvisedIsSilent
<1> QED
  BY <1>1, <1>4, <1>6, <1>7, WorkCom

\* A sink enters the table when it is unmarshalled, if its client is still there.
LEMMA UnmarshalledCom ==
  ASSUME ComInv, Unmarshalled
  PROVE  ComInv'
<1>1. /\ out.what = "unmarshal" /\ out' = NoCall
      /\ sink' = [sink EXCEPT ![out.at] = IF alive[out.at] THEN "advised" ELSE "none"]
      /\ UNCHANGED <<queue, drained, todo, sinkList, undrained, object, alive, toRead, view, silenced>>
  BY DEF Unmarshalled, passVars
<1> DEFINE c == out.at
<1>2. c \in Clients /\ sink[c] = "taken"
  BY <1>1 DEF ComInv, OutConsistent, NoCall
<1>3. \A d \in Clients \ {c} : sink[d] # "taken" /\ sink'[d] = sink[d]
  BY <1>1, <1>2 DEF ComInv, OutConsistent, ClientTypes
<1>4. sink'[c] \in {"advised", "none"}
  BY <1>1, <1>2 DEF ComInv, ClientTypes
<1> HIDE DEF c
<1>5. ClientTypes'
  <2>1. sink' \in [Clients -> {"none", "pending", "taken", "advised"}]
    BY <1>1, <1>2 DEF ComInv, ClientTypes
  <2>2. \A d \in Clients : object[d] = "none" => sink'[d] = "none"
    BY <1>2, <1>3 DEF ComInv, ClientTypes
  <2> QED
    BY <1>1, <2>1, <2>2 DEF ComInv, ClientTypes
<1>6. OutConsistent'
  BY <1>1, <1>3, <1>4 DEF OutConsistent, NoCall
<1>7. UnadvisedIsSilent'
  BY <1>1, <1>2, <1>3 DEF ComInv, UnadvisedIsSilent, ClientTypes, NoCall
<1> QED
  BY <1>1, <1>5, <1>6, <1>7, ClientCom DEF NoCall

\* An event is fired at a sink in the table, which is none that was unadvised.
LEMMA FireCom ==
  ASSUME ComInv, Fire
  PROVE  ComInv'
<1> DEFINE c == Head(todo).at
<1>1. /\ todo # <<>> /\ todo' = Tail(todo) /\ sink[c] = "advised" /\ out = NoCall
      /\ Head(todo).do = "fire"
      /\ out' = [what |-> "invoke", at |-> c, event |-> Head(todo).event]
      /\ UNCHANGED <<queue, drained, sinkList, undrained, sink, object, alive, toRead, view, silenced>>
  BY DEF Fire, Doing, Works, Free, clientVars
<1>2. c \in Clients /\ ~ undrained
  BY <1>1, WorkLeft
<1> HIDE DEF c
<1>3. ClientTypes'
  BY <1>1 DEF ComInv, ClientTypes
<1>4. \A d \in Clients : sink[d] # "taken"
  BY <1>1 DEF ComInv, OutConsistent, NoCall
<1>5. OutConsistent'
  BY <1>1, <1>2, <1>4 DEF OutConsistent
<1>6. UnadvisedIsSilent'
  BY <1>1 DEF ComInv, UnadvisedIsSilent
<1> QED
  BY <1>1, <1>2, <1>3, <1>5, <1>6, WorkCom

\* A client's handler returns: it will read again what it was told of.
LEMMA InvokedCom ==
  ASSUME ComInv, Invoked
  PROVE  ComInv'
<1>1. /\ out' = NoCall /\ out.what = "invoke"
      /\ toRead' = [toRead EXCEPT ![out.at] = IF alive[out.at] THEN @ \cup Told(out.event) ELSE @]
      /\ UNCHANGED <<queue, drained, todo, sinkList, undrained, sink, object, alive, view, silenced>>
  BY DEF Invoked, passVars
<1>2. Told(out.event) \subseteq Watched
  BY DEF Told
<1>3. ClientTypes'
  BY <1>1, <1>2 DEF ComInv, ClientTypes
<1>4. OutConsistent' /\ UnadvisedIsSilent'
  BY <1>1 DEF ComInv, OutConsistent, UnadvisedIsSilent, NoCall
<1> QED
  BY <1>1, <1>3, <1>4, ClientCom DEF NoCall

\* What a client calls: its object and sink are what they say, and it is silenced with its
\* sink out of both tables.
LEMMA CallCom ==
  ASSUME ComInv, NEW c \in Clients,
         Advise(c) \/ Unadvise(c) \/ Release(c) \/ Read(c) \/ ClientEnds(c)
  PROVE  ComInv'
<1>0. undrained => out.what # "invoke"
  BY DEF ComInv, WorkConsistent
<1>1. CASE Advise(c)
  <2>1. /\ object[c] = "created" /\ sink[c] = "none" /\ c \notin silenced
        /\ sink' = [sink EXCEPT ![c] = "pending"] /\ toRead' = [toRead EXCEPT ![c] = Watched]
        /\ UNCHANGED <<queue, drained, todo, sinkList, undrained, out, object, alive, view, silenced>>
    BY <1>1 DEF Advise, passVars
  <2>2. ClientTypes' /\ OutConsistent' /\ UnadvisedIsSilent'
    BY <2>1 DEF ComInv, ClientTypes, OutConsistent, UnadvisedIsSilent
  <2> QED
    BY <1>0, <2>1, <2>2, ClientCom
<1>2. CASE Unadvise(c)
  <2>1. /\ object[c] = "created" /\ ~ (out.what = "invoke" /\ out.at = c)
        /\ sink' = [sink EXCEPT ![c] = IF @ = "taken" THEN @ ELSE "none"]
        /\ silenced' = IF sink[c] = "taken" THEN silenced ELSE silenced \cup {c}
        /\ UNCHANGED <<queue, drained, todo, sinkList, undrained, out, object, alive, view, toRead>>
    BY <1>2 DEF Unadvise, Unadvises, Locked, passVars
  <2>2. ClientTypes' /\ OutConsistent'
    BY <2>1 DEF ComInv, ClientTypes, OutConsistent
  <2>3. UnadvisedIsSilent'
    <3>1. CASE sink[c] = "taken"
      <4>1. silenced' = silenced /\ sink' = sink
        BY <2>1, <3>1 DEF ComInv, ClientTypes
      <4> QED
        BY <2>1, <4>1 DEF ComInv, UnadvisedIsSilent
    <3>2. CASE sink[c] # "taken"
      <4>1. /\ silenced' = silenced \cup {c} /\ sink'[c] = "none"
            /\ \A d \in Clients \ {c} : sink'[d] = sink[d]
        BY <2>1, <3>2 DEF ComInv, ClientTypes
      <4>2. out.what \in {"unmarshal", "invoke"} \/ out = NoCall
        BY DEF ComInv, OutConsistent
      <4> QED
        BY <2>1, <4>1, <4>2 DEF ComInv, UnadvisedIsSilent, ClientTypes
    <3> QED
      BY <3>1, <3>2
  <2> QED
    BY <1>0, <2>1, <2>2, <2>3, ClientCom
<1>3. CASE Release(c)
  <2>1. /\ object[c] = "created" /\ object' = [object EXCEPT ![c] = "released"]
        /\ UNCHANGED <<queue, drained, todo, sinkList, undrained, out, sink, alive, view, toRead, silenced>>
    BY <1>3 DEF Release, passVars
  <2>2. ClientTypes' /\ OutConsistent' /\ UnadvisedIsSilent'
    BY <2>1 DEF ComInv, ClientTypes, OutConsistent, UnadvisedIsSilent
  <2> QED
    BY <1>0, <2>1, <2>2, ClientCom
<1>4. CASE Read(c)
  <2>1. /\ toRead' = [toRead EXCEPT ![c] = {}] /\ DOMAIN view' = DOMAIN view
        /\ UNCHANGED <<queue, drained, todo, sinkList, undrained, out, sink, alive, object, silenced>>
    BY <1>4 DEF Read, passVars
  <2>2. ClientTypes' /\ OutConsistent' /\ UnadvisedIsSilent'
    BY <2>1 DEF ComInv, ClientTypes, OutConsistent, UnadvisedIsSilent
  <2> QED
    BY <1>0, <2>1, <2>2, ClientCom
<1>5. CASE ClientEnds(c)
  <2>1. /\ alive' = [alive EXCEPT ![c] = FALSE]
        /\ UNCHANGED <<queue, drained, todo, sinkList, undrained, out, sink, object, view, toRead, silenced>>
    BY <1>5 DEF ClientEnds, passVars, comVars
  <2>2. alive' \in [Clients -> BOOLEAN]
    BY <2>1 DEF ComInv, ClientTypes
  <2>3. ClientTypes' /\ OutConsistent' /\ UnadvisedIsSilent'
    BY <2>1, <2>2 DEF ComInv, ClientTypes, OutConsistent, UnadvisedIsSilent
  <2> QED
    BY <1>0, <2>1, <2>3, ClientCom
<1> QED
  BY <1>1, <1>2, <1>3, <1>4, <1>5

\* A client's object is made; its sinks will be registered.
LEMMA CreateCom ==
  ASSUME ComInv, NEW c \in Clients, CreateInstance(c)
  PROVE  ComInv'
<1> DEFINE e == [what |-> "register", client |-> c]
<1>1. /\ object[c] = "none" /\ object' = [object EXCEPT ![c] = "created"]
      /\ queue' = Append(queue, e)
      /\ UNCHANGED <<drained, todo, sinkList, undrained, out, sink, alive, view, toRead, silenced>>
  BY DEF CreateInstance, passVars
<1>2. ClientTypes' /\ OutConsistent' /\ UnadvisedIsSilent'
  BY <1>1 DEF ComInv, ClientTypes, OutConsistent, UnadvisedIsSilent
<1>3. e.what = "register" => e.client \in Clients
  OBVIOUS
<1> HIDE DEF e
<1> QED
  BY <1>1, <1>2, <1>3, AppendCom

\* The provider's event is appended.
LEMMA TellCom ==
  ASSUME ComInv, TellsNoObject, QueueEvent
  PROVE  ComInv'
<1>1. /\ queue' = Append(queue, telling)
      /\ UNCHANGED <<drained, todo, sinkList, undrained, out, sink, object, alive, view, toRead, silenced>>
  BY DEF QueueEvent, comVars, passVars, clientVars
<1>2. ClientTypes' /\ OutConsistent' /\ UnadvisedIsSilent'
  BY <1>1 DEF ComInv, ClientTypes, OutConsistent, UnadvisedIsSilent
<1>3. telling.what # "register"
  BY DEF TellsNoObject
<1> QED
  BY <1>1, <1>2, <1>3, AppendCom

comState == <<queue, drained, todo, sinkList, undrained, out, sink, object, alive, toRead, silenced>>

\* The other steps change nothing of it.
LEMMA OtherCom ==
  ASSUME ComInv, UNCHANGED comState, UNCHANGED view
  PROVE  ComInv'
<1>1. ClientTypes' /\ OutConsistent' /\ UnadvisedIsSilent'
  BY DEF comState, ComInv, ClientTypes, OutConsistent, UnadvisedIsSilent
<1>2. undrained => out.what # "invoke"
  BY DEF ComInv, WorkConsistent
<1> QED
  BY <1>1, <1>2, ClientCom DEF comState

\* A step does nothing to the COM thread and its clients, or is one of these.
LEMMA Steps ==
  ASSUME [Next]_vars
  PROVE  \/ UNCHANGED comState /\ UNCHANGED <<view, missed, telling, cached, flipped>>
         \/ UNCHANGED comState /\ UNCHANGED <<view, missed>> /\ Receive
         \/ QueueEvent
         \/ StartEvents \/ Drain \/ TakeEvent \/ PassOver \/ Unmarshal \/ Unmarshalled
         \/ Fire \/ Invoked
         \/ \E c \in Clients : CreateInstance(c)
         \/ \E c \in Clients :
              Advise(c) \/ Unadvise(c) \/ Release(c) \/ Read(c) \/ ClientEnds(c)
<1> DEFINE Still == UNCHANGED comState /\ UNCHANGED <<view, missed, telling, cached, flipped>>
<1>1. CASE UNCHANGED vars
  BY <1>1 DEF vars, comState
<1>2. ASSUME NEW r \in Rigs, PublishValues(r) \/ PublishStatus(r) PROVE Still
  BY <1>2 DEF PublishValues, PublishStatus, Broadcast, comState, comVars, passVars, clientVars
<1>3. LeaveLagged => Still
  BY DEF LeaveLagged, comState, comVars, passVars, clientVars
<1>4. Receive => UNCHANGED comState /\ UNCHANGED <<view, missed>>
  BY DEF Receive, comState, comVars, passVars, clientVars
<1>5. Shutdown => Still
  BY DEF Shutdown, comState, providerVars, passVars, clientVars
<1>6. ASSUME NEW c \in Clients, StartSetting(c) PROVE Still
  BY <1>6 DEF StartSetting, comState, providerVars, passVars, clientVars
<1>7. SendCommand => Still
  BY DEF SendCommand, comState, providerVars, passVars, clientVars
<1>8. ManagerTakes \/ ManagerEnds \/ Stop => Still
  BY DEF ManagerTakes, ManagerEnds, Stop, comState, providerVars, comVars, passVars, clientVars
<1>9. ASSUME NEW c \in Clients, UnadviseHangs(c) \/ Operate(c) PROVE Still
  BY <1>9 DEF UnadviseHangs, Operate, comState, providerVars, comVars, passVars, clientVars
<1> HIDE DEF Still
<1> QED
  BY <1>1, <1>2, <1>3, <1>4, <1>5, <1>6, <1>7, <1>8, <1>9
     DEF Next, Provider, ComThread, Client, Still

\* The event the provider is about to queue is one of a rig.
LEMMA TellsStep ==
  ASSUME TellsNoObject, [Next]_vars
  PROVE  TellsNoObject'
<1>1. CASE UNCHANGED telling
  BY <1>1 DEF TellsNoObject
<1>2. CASE Receive
  BY <1>2 DEF Receive, ReceiveOther, ReceiveValues, ReceiveStatus, TellsNoObject, NoEvent,
              ParamsChange, StatusChange
<1>3. CASE QueueEvent
  BY <1>3 DEF QueueEvent, TellsNoObject, NoEvent
<1>4. \/ UNCHANGED telling \/ Receive \/ QueueEvent
  <2>1. StartEvents \/ Drain \/ TakeEvent \/ PassOver \/ Unmarshal \/ Unmarshalled \/ Fire
          \/ Invoked => UNCHANGED telling
    BY DEF StartEvents, Drain, TakeEvent, PassOver, Unmarshal, Unmarshalled, Fire, Invoked,
           providerVars
  <2>2. ASSUME NEW c \in Clients,
               \/ CreateInstance(c) \/ Advise(c) \/ Unadvise(c) \/ Release(c) \/ Read(c)
               \/ ClientEnds(c)
        PROVE  UNCHANGED telling
    BY <2>2 DEF CreateInstance, Advise, Unadvise, Release, Read, ClientEnds, providerVars
  <2> QED
    BY <2>1, <2>2, Steps
<1> QED
  BY <1>1, <1>2, <1>3, <1>4

\* Every step keeps the invariant of the COM thread.
LEMMA ComStep ==
  ASSUME ComInv, TellsNoObject, [Next]_vars
  PROVE  ComInv'
<1>1. PassOver => ComInv'
  <2> SUFFICES ASSUME PassOver PROVE ComInv'
    OBVIOUS
  <2>1. /\ todo # <<>> /\ todo' = Tail(todo)
        /\ UNCHANGED <<queue, drained, sinkList, undrained, out, sink, object, alive, view, toRead,
                       silenced>>
    BY DEF PassOver, clientVars
  <2>2. ClientTypes' /\ OutConsistent' /\ UnadvisedIsSilent'
    BY <2>1 DEF ComInv, ClientTypes, OutConsistent, UnadvisedIsSilent
  <2>3. undrained => out.what # "invoke"
    BY DEF ComInv, WorkConsistent
  <2> QED
    BY <2>1, <2>2, <2>3, WorkCom
<1> QED
  BY <1>1, Steps, OtherCom, TellCom, StartCom, DrainCom, TakeCom, UnmarshalCom, UnmarshalledCom,
     FireCom, InvokedCom, CreateCom, CallCom

(***************************************************************************)
(* Nothing is fired at a sink once its Unadvise has returned, unless it    *)
(* came while that sink was being unmarshalled: what is pending or in the  *)
(* table of sinks is not silenced, and only such a sink is told of events. *)
(***************************************************************************)
THEOREM SilentOnceUnadvised == Spec => []UnadvisedIsSilent
<1>1. Init => TellsNoObject
  BY DEF Init, TellsNoObject, NoEvent
<1>2. ComInv => UnadvisedIsSilent
  BY DEF ComInv
<1> QED
  BY <1>1, <1>2, ComInit, ComStep, TellsStep, PTL DEF Spec

-----------------------------------------------------------------------------
(* What a change of a slot names                                           *)

\* The variables a getter is computed from
Depends(g) ==
  CASE g = "Freq" -> {"vfo", "freq_a", "freq_b"}
    [] g = "FreqA" -> {"freq_a"}
    [] g = "FreqB" -> {"freq_b"}
    [] g = "RitOffset" -> {"rit_offset"}
    [] g = "Pitch" -> {"cw_pitch"}
    [] g = "Vfo" -> {"vfo"}
    [] g = "Split" -> {"split"}
    [] g = "Rit" -> {"rit"}
    [] g = "Xit" -> {"xit"}
    [] g = "Tx" -> {"transmit"}
    [] g = "Mode" -> {"mode"}
    [] g = "GetRxFrequency" ->
         {"rit", "rit_offset", "vfo", "freq_a", "freq_b", "transmit", "split"}
    [] g = "GetTxFrequency" ->
         {"xit", "rit_offset", "vfo", "freq_a", "freq_b", "transmit", "split"}
    [] OTHER -> {}

\* A getter but Status reads the same of statuses that agree in them.
LEMMA SameGetter ==
  ASSUME NEW g \in Getters, g # "Status", NEW s, NEW old, NEW new,
         \A f \in Depends(g) : ValueOf(old, f) = ValueOf(new, f)
  PROVE  Getter(g, s, old) = Getter(g, s, new)
<1>1. CASE g \in {"FreqA", "FreqB", "RitOffset", "Pitch", "ReadableParams", "WriteableParams"}
  BY <1>1 DEF Depends, Getter, Configured
<1>2. CASE g \in {"Vfo", "Split", "Rit", "Xit", "Tx", "Mode"}
  BY <1>2 DEF Depends, Getter, Configured, Param
<1>3. CASE g = "Freq"
  BY <1>3 DEF Depends, Getter, Configured, Freq
<1>4. CASE g = "GetRxFrequency"
  <2>1. \A f \in {"rit", "rit_offset", "vfo", "freq_a", "freq_b", "transmit", "split"} :
          ValueOf(old, f) = ValueOf(new, f)
    BY <1>4 DEF Depends
  <2>2. Offset(old, "rit") = Offset(new, "rit")
    BY <2>1 DEF Offset
  <2>3. Param(old, "vfo") = Param(new, "vfo") /\ Freq(old) = Freq(new)
    BY <2>1 DEF Param, Freq
  <2>4. RxFrequency(old) = RxFrequency(new)
    BY <2>1, <2>2, <2>3 DEF RxFrequency
  <2> QED
    BY <1>4, <2>4 DEF Getter, Configured
<1>5. CASE g = "GetTxFrequency"
  <2>1. \A f \in {"xit", "rit_offset", "vfo", "freq_a", "freq_b", "transmit", "split"} :
          ValueOf(old, f) = ValueOf(new, f)
    BY <1>5 DEF Depends
  <2>2. Offset(old, "xit") = Offset(new, "xit")
    BY <2>1 DEF Offset
  <2>3. Param(old, "vfo") = Param(new, "vfo") /\ Freq(old) = Freq(new)
    BY <2>1 DEF Param, Freq
  <2>4. /\ ValueOf(old, IF ValueOf(old, "split") THEN "freq_b" ELSE "freq_a")
             = ValueOf(new, IF ValueOf(new, "split") THEN "freq_b" ELSE "freq_a")
        /\ ValueOf(old, IF ValueOf(old, "split") THEN "freq_a" ELSE "freq_b")
             = ValueOf(new, IF ValueOf(new, "split") THEN "freq_a" ELSE "freq_b")
    BY <2>1
  <2>5. ValueOf(old, "transmit") = ValueOf(new, "transmit")
    BY <2>1
  <2>6. TxFrequency(old) = TxFrequency(new)
    BY <2>2, <2>3, <2>4, <2>5 DEF TxFrequency
  <2> QED
    BY <1>5, <2>6 DEF Getter, Configured
<1> QED
  BY <1>1, <1>2, <1>3, <1>4, <1>5 DEF Getters

\* The params of a new value of a variable name each getter that depends on it.
LEMMA DependentsNamed ==
  ASSUME NEW g \in Getters, NEW f \in Depends(g), NEW v, f \in Texts => ParamsOf(f, v) # {}
  PROVE  \E p \in ParamsOf(f, v) : g \in NamedBy(p)
<1>1. CASE f = "freq_a"
  <2>1. g \in {"Freq", "FreqA", "GetRxFrequency", "GetTxFrequency"}
    BY <1>1 DEF Depends, Getters
  <2>2. "FreqA" \in ParamsOf(f, v) /\ "Freq" \in ParamsOf(f, v)
    BY <1>1 DEF ParamsOf, Switches
  <2>3. g \in NamedBy("FreqA") \/ g \in NamedBy("Freq")
    BY <2>1 DEF NamedBy
  <2> QED
    BY <2>2, <2>3
<1>2. CASE f = "freq_b"
  <2>1. g \in {"Freq", "FreqB", "GetRxFrequency", "GetTxFrequency"}
    BY <1>2 DEF Depends, Getters
  <2>2. "FreqB" \in ParamsOf(f, v) /\ "Freq" \in ParamsOf(f, v)
    BY <1>2 DEF ParamsOf, Switches
  <2>3. g \in NamedBy("FreqB") \/ g \in NamedBy("Freq")
    BY <2>1 DEF NamedBy
  <2> QED
    BY <2>2, <2>3
<1>3. CASE f = "cw_pitch"
  <2>1. g = "Pitch"
    BY <1>3 DEF Depends, Getters
  <2>2. "Pitch" \in ParamsOf(f, v) /\ g \in NamedBy("Pitch")
    BY <1>3, <2>1 DEF ParamsOf, NamedBy, Switches
  <2> QED
    BY <2>2
<1>4. CASE f = "rit_offset"
  <2>1. g \in {"RitOffset", "GetRxFrequency", "GetTxFrequency"}
    BY <1>4 DEF Depends, Getters
  <2>2. "RitOffset" \in ParamsOf(f, v) /\ g \in NamedBy("RitOffset")
    BY <1>4, <2>1 DEF ParamsOf, NamedBy, Switches
  <2> QED
    BY <2>2
<1>5. CASE f \in Switches
  <2>1. ParamsOf(f, v) = {SwitchParam(f, v)}
    BY <1>5 DEF ParamsOf, Switches
  <2>2. \E i \in {1, 2} : SwitchParam(f, v) = SwitchParams(f)[i]
    BY DEF SwitchParam
  <2>3. \A i \in {1, 2} : g \in NamedBy(SwitchParams(f)[i])
    <3>1. CASE f = "transmit"
      <4>1. g \in {"Tx", "GetRxFrequency", "GetTxFrequency"}
        BY <3>1 DEF Depends, Getters
      <4>2. SwitchParams(f) = <<"Tx", "Rx">>
        BY <3>1 DEF SwitchParams
      <4> QED
        BY <4>1, <4>2 DEF NamedBy
    <3>2. CASE f = "split"
      <4>1. g \in {"Split", "GetRxFrequency", "GetTxFrequency"}
        BY <3>2 DEF Depends, Getters
      <4>2. SwitchParams(f) = <<"SplitOn", "SplitOff">>
        BY <3>2 DEF SwitchParams
      <4> QED
        BY <4>1, <4>2 DEF NamedBy
    <3>3. CASE f = "rit"
      <4>1. g \in {"Rit", "GetRxFrequency"}
        BY <3>3 DEF Depends, Getters
      <4>2. SwitchParams(f) = <<"RitOn", "RitOff">>
        BY <3>3 DEF SwitchParams
      <4> QED
        BY <4>1, <4>2 DEF NamedBy
    <3>4. CASE f = "xit"
      <4>1. g \in {"Xit", "GetTxFrequency"}
        BY <3>4 DEF Depends, Getters
      <4>2. SwitchParams(f) = <<"XitOn", "XitOff">>
        BY <3>4 DEF SwitchParams
      <4> QED
        BY <4>1, <4>2 DEF NamedBy
    <3> QED
      BY <1>5, <3>1, <3>2, <3>3, <3>4 DEF Switches
  <2> QED
    BY <2>1, <2>2, <2>3
<1>6. CASE f = "mode"
  <2>1. g = "Mode"
    BY <1>6 DEF Depends, Getters
  <2>2. ParamsOf(f, v) = {ModeParam(v)} \ {"Unknown"} /\ ParamsOf(f, v) # {}
    BY <1>6 DEF ParamsOf, Switches, Texts
  <2>3. ModeParam(v) \in {"CwU", "CwL", "SsbU", "SsbL", "DigU", "DigL", "Am", "Fm", "Unknown"}
    BY DEF ModeParam
  <2>4. \A p \in {"CwU", "CwL", "SsbU", "SsbL", "DigU", "DigL", "Am", "Fm"} : NamedBy(p) = {"Mode"}
    BY DEF NamedBy
  <2> QED
    BY <2>1, <2>2, <2>3, <2>4
<1>7. CASE f = "vfo"
  <2>1. g \in {"Vfo", "Freq", "GetRxFrequency", "GetTxFrequency"}
    BY <1>7 DEF Depends, Getters
  <2>2. ParamsOf(f, v) = {VfoParam(v)} \ {"Unknown"} /\ ParamsOf(f, v) # {}
    BY <1>7 DEF ParamsOf, Switches, Texts
  <2>3. VfoParam(v) \in {"VfoA", "VfoB", "Unknown"}
    BY DEF VfoParam
  <2>4. g \in NamedBy("VfoA") /\ g \in NamedBy("VfoB")
    BY <2>1 DEF NamedBy
  <2> QED
    BY <2>2, <2>3, <2>4
<1> QED
  <2>1. f \in {"freq_a", "freq_b", "cw_pitch", "rit_offset", "mode", "vfo"} \cup Switches
    BY DEF Depends, Getters, Switches
  <2> QED
    BY <2>1, <1>1, <1>2, <1>3, <1>4, <1>5, <1>6, <1>7

(***************************************************************************)
(* A getter but Status that a change of a slot's status makes read         *)
(* otherwise is named by a param of the mask.                              *)
(***************************************************************************)
LEMMA ChangeIsNamed ==
  ASSUME NEW g \in Getters, g # "Status", NEW s, NEW old, NEW new,
         \A f \in Texts \cap Fields :
           new.values[f] # old.values[f] => ParamsOf(f, new.values[f]) # {},
         Getter(g, s, old) # Getter(g, s, new)
  PROVE  \E p \in Mask(old, new) : g \in NamedBy(p)
<1>1. PICK f \in Depends(g) : ValueOf(old, f) # ValueOf(new, f)
  BY SameGetter
<1>2. f \in Fields /\ new.values[f] # old.values[f]
  BY <1>1 DEF ValueOf
<1>3. PICK p \in ParamsOf(f, new.values[f]) : g \in NamedBy(p)
  BY <1>2, DependentsNamed
<1>4. p \in Mask(old, new)
  BY <1>2, <1>3 DEF Mask
<1> QED
  BY <1>3, <1>4

-----------------------------------------------------------------------------
(* A client follows its slot                                               *)

\* At the start no client shows anything, and nothing is on its way.
LEMMA ClientsInit == Init => ClientsFollow /\ TextsKnown /\ TellsNoObject
<1> SUFFICES ASSUME Init PROVE ClientsFollow /\ TextsKnown /\ TellsNoObject
  OBVIOUS
<1>1. \A c \in Clients : object[c] = "none" /\ ~ Awaits(c)
  BY DEF Init, Awaits
<1>2. ClientsFollow
  BY <1>1 DEF ClientsFollow, ObjectsEnlisted, PendingUnmarshalled, ViewsFollow
<1>3. TextsKnown
  BY EmptyBus DEF Init, TextsKnown, Places
<1>4. TellsNoObject
  BY DEF Init, TellsNoObject, NoEvent
<1> QED
  BY <1>2, <1>3, <1>4

\* What a client does not show yet was told of before the step, and still is.
LEMMA ViewKept ==
  ASSUME ViewsFollow,
         \A c \in Clients : Awaits(c)' => \A w \in Watched \ toRead'[c] :
           Behind(c, w)' => /\ Awaits(c) /\ w \notin toRead[c] /\ Behind(c, w)
                            /\ (WillBeTold(c, w) => WillBeTold(c, w)')
  PROVE  ViewsFollow'
BY DEF ViewsFollow

\* What the clients show, and what of
clientState == <<alive, object, sink, missed, view, toRead, cached, flipped>>

LEMMA ViewCarried ==
  ASSUME ViewsFollow, UNCHANGED clientState,
         \A c \in Clients : \A w \in Watched :
           Awaits(c) /\ WillBeTold(c, w) => WillBeTold(c, w)'
  PROVE  ViewsFollow'
<1>1. \A c : Awaits(c)' <=> Awaits(c)
  BY DEF clientState, Awaits
<1>2. \A c, w : Behind(c, w)' <=> Behind(c, w)
  BY DEF clientState, Behind
<1>3. toRead' = toRead
  BY DEF clientState
<1> QED
  BY <1>1, <1>2, <1>3 DEF ViewsFollow

\* A step that only appends to the queue, if that
LEMMA QueueGrows ==
  ASSUME ComInv, NEW e, queue' = Append(queue, e), UNCHANGED <<sinkList, drained>>
  PROVE  /\ Len(queue) + 1 \in QueuePlaces' /\ queue'[Len(queue) + 1] = e
         /\ \A k \in QueuePlaces :
              k \in QueuePlaces' /\ queue'[k] = queue[k] /\ k < Len(queue) + 1
         /\ \A c : Enlisted(c)' <=> Enlisted(c)
         /\ \A c, w : QueuedFor(c, w) => QueuedFor(c, w)'
<1>1. OwnSeq(queue)
  BY ComSequences DEF ComInv
<1>2. /\ Len(queue) \in Nat /\ Len(queue') = Len(queue) + 1
      /\ \A k \in 1..Len(queue) : queue'[k] = queue[k]
      /\ queue'[Len(queue) + 1] = e
  BY <1>1, OwnAppend
<1>3. /\ Len(queue) + 1 \in QueuePlaces'
      /\ \A k \in QueuePlaces :
           k \in QueuePlaces' /\ queue'[k] = queue[k] /\ k < Len(queue) + 1
  BY <1>2 DEF QueuePlaces
<1>4. \A c : Enlisted(c)' <=> Enlisted(c)
  BY DEF Enlisted, Listed, DrainedPlaces, RegistersAt
<1>5. ASSUME NEW c, NEW w, QueuedFor(c, w)
      PROVE  QueuedFor(c, w)'
  <2>1. PICK k \in QueuePlaces :
          /\ Names(queue[k], w)
          /\ Enlisted(c) \/ \E j \in QueuePlaces : j < k /\ RegistersAt(queue, j, c)
    BY <1>5 DEF QueuedFor
  <2>2. Names(queue[k], w)'
    BY <1>3, <2>1 DEF Names, Told
  <2>3. \A j \in QueuePlaces : RegistersAt(queue, j, c) => RegistersAt(queue', j, c)
    BY <1>3 DEF RegistersAt
  <2> QED
    BY <1>3, <1>4, <2>1, <2>2, <2>3 DEF QueuedFor, RegistersAt
<1> QED
  BY <1>2, <1>3, <1>4, <1>5

\* The event is queued: each client's sinks are in the list then, or registered before.
LEMMA TellView ==
  ASSUME ComInv, ClientsFollow, QueueEvent
  PROVE  ClientsFollow'
<1>1. /\ queue' = Append(queue, telling) /\ telling' = NoEvent /\ UNCHANGED clientState
      /\ UNCHANGED <<drained, todo, sinkList, undrained, out, sink, object>>
  BY DEF QueueEvent, comVars, passVars, clientVars, clientState
<1>2. /\ Len(queue) + 1 \in QueuePlaces' /\ queue'[Len(queue) + 1] = telling
      /\ \A k \in QueuePlaces :
           k \in QueuePlaces' /\ queue'[k] = queue[k] /\ k < Len(queue) + 1
      /\ \A c : Enlisted(c)' <=> Enlisted(c)
      /\ \A c, w : QueuedFor(c, w) => QueuedFor(c, w)'
  BY <1>1, QueueGrows
<1>3. \A c : \A j \in QueuePlaces : RegistersAt(queue, j, c) => RegistersAt(queue', j, c)
  BY <1>2 DEF RegistersAt
<1>4. ObjectsEnlisted'
  BY <1>1, <1>2, <1>3 DEF ClientsFollow, ObjectsEnlisted
<1>5. PendingUnmarshalled'
  BY <1>1 DEF ClientsFollow, PendingUnmarshalled, clientState, Awaits, Listed, TodoPlaces
<1>6. ASSUME NEW c \in Clients, NEW w \in Watched, Awaits(c), WillBeTold(c, w)
      PROVE  WillBeTold(c, w)'
  <2>1. CASE Names(telling, w)
    <3>1. Enlisted(c) \/ \E j \in QueuePlaces : RegistersAt(queue, j, c)
      BY <1>6 DEF ClientsFollow, ObjectsEnlisted, Awaits
    <3>2. Names(queue'[Len(queue) + 1], w)
      BY <2>1, <1>2
    <3>3. QueuedFor(c, w)'
      BY <3>1, <3>2, <1>2, <1>3 DEF QueuedFor, Names, Told
    <3> QED
      BY <3>3 DEF WillBeTold
  <2>2. CASE QueuedFor(c, w)
    BY <2>2, <1>2 DEF WillBeTold
  <2>3. CASE DrainedFor(c, w) \/ FiredFor(c, w) \/ InvokedFor(c, w)
    BY <2>3, <1>1 DEF WillBeTold, DrainedFor, FiredFor, InvokedFor, Ready, Listed, DrainedPlaces,
                      TodoPlaces, RegistersAt, Names, Told
  <2> QED
    BY <1>6, <2>1, <2>2, <2>3 DEF WillBeTold
<1>7. ViewsFollow'
  BY <1>1, <1>6, ViewCarried DEF ClientsFollow
<1> QED
  BY <1>4, <1>5, <1>7 DEF ClientsFollow

\* A pass starts: nothing was left of the last one, and no client who is there is dropped.
LEMMA StartView ==
  ASSUME ComInv, ClientsFollow, StartEvents
  PROVE  ClientsFollow'
<1>1. /\ sinkList' = Retained
      /\ todo' = [k \in 1..Len(Retained) |-> [do |-> "unmarshal", at |-> Retained[k]]]
      /\ UNCHANGED clientState /\ UNCHANGED <<queue, drained, out, sink, object, telling>>
      /\ drained = <<>> /\ todo = <<>> /\ out = NoCall
  BY DEF StartEvents, Idle, clientVars, providerVars, clientState
<1>2. Len(Retained) \in Nat /\ Len(todo') = Len(Retained)
  BY <1>1, RetainedClients DEF ComInv, QueuesAreSequences
<1>3. DrainedPlaces = {} /\ TodoPlaces = {}
  BY <1>1, EmptyBus DEF DrainedPlaces, TodoPlaces
<1>4. \A c \in Clients : object[c] = "created" /\ Enlisted(c) => Listed(c)' /\ Enlisted(c)'
  BY <1>1, <1>3, RetainedClients
     DEF ComInv, QueuesAreSequences, Enlisted, Listed
<1>5. ObjectsEnlisted'
  BY <1>1, <1>4 DEF ClientsFollow, ObjectsEnlisted, QueuePlaces, RegistersAt
<1>6. PendingUnmarshalled'
  <2>1. ASSUME NEW c \in Clients, Listed(c)'
        PROVE  \E k \in TodoPlaces' : todo'[k].at = c
    BY <2>1, <1>1, <1>2 DEF Listed, TodoPlaces
  <2> QED
    BY <2>1 DEF PendingUnmarshalled
<1>7. ASSUME NEW c \in Clients, NEW w \in Watched, Awaits(c), WillBeTold(c, w)
      PROVE  WillBeTold(c, w)'
  <2>1. ~ DrainedFor(c, w) /\ ~ FiredFor(c, w) /\ ~ InvokedFor(c, w)
    BY <1>1, <1>3 DEF DrainedFor, FiredFor, InvokedFor, NoCall
  <2>2. QueuedFor(c, w) => QueuedFor(c, w)'
    BY <1>1, <1>4, <1>7 DEF QueuedFor, QueuePlaces, RegistersAt, Names, Told, Awaits
  <2>3. Names(telling, w) => Names(telling, w)'
    BY <1>1 DEF Names, Told
  <2> QED
    BY <1>7, <2>1, <2>2, <2>3 DEF WillBeTold
<1>8. ViewsFollow'
  BY <1>1, <1>7, ViewCarried DEF ClientsFollow
<1> QED
  BY <1>5, <1>6, <1>8 DEF ClientsFollow

\* The queue is drained: every sink in the list has been unmarshalled by now.
LEMMA DrainView ==
  ASSUME ComInv, ClientsFollow, Drain
  PROVE  ClientsFollow'
<1>1. /\ drained' = queue /\ queue' = <<>> /\ todo = <<>> /\ undrained /\ undrained' = FALSE
      /\ drained = <<>> /\ out = NoCall
      /\ UNCHANGED clientState /\ UNCHANGED <<sinkList, todo, out, sink, object, telling>>
  BY DEF Drain, Free, ComInv, WorkConsistent, clientVars, providerVars, clientState
<1>2. DrainedPlaces = {} /\ TodoPlaces = {} /\ DrainedPlaces' = QueuePlaces
  BY <1>1, EmptyBus DEF DrainedPlaces, TodoPlaces, QueuePlaces
<1>3. \A c : Enlisted(c) <=> Listed(c)
  BY <1>2 DEF Enlisted
<1>4. \A c : Listed(c)' <=> Listed(c)
  BY <1>1 DEF Listed
<1>5. ObjectsEnlisted'
  BY <1>1, <1>2, <1>3, <1>4 DEF ClientsFollow, ObjectsEnlisted, Enlisted, RegistersAt
<1>6. PendingUnmarshalled'
  BY <1>1 DEF PendingUnmarshalled
<1>7. ASSUME NEW c \in Clients, NEW w \in Watched, Awaits(c), WillBeTold(c, w)
      PROVE  WillBeTold(c, w)'
  <2>1. ~ DrainedFor(c, w) /\ ~ FiredFor(c, w) /\ ~ InvokedFor(c, w)
    BY <1>1, <1>2 DEF DrainedFor, FiredFor, InvokedFor, NoCall
  <2>2. Listed(c) => Ready(c)'
    <3>1. Listed(c) => sink[c] # "pending"
      BY <1>1, <1>2, <1>7 DEF ClientsFollow, PendingUnmarshalled
    <3>2. sink[c] \in {"none", "pending", "taken", "advised"} /\ sink[c] # "none"
      BY <1>7 DEF ComInv, ClientTypes, Awaits
    <3> QED
      BY <3>1, <3>2, <1>1, <1>4 DEF Ready
  <2>3. QueuedFor(c, w) => DrainedFor(c, w)'
    BY <1>1, <1>2, <1>3, <2>2 DEF QueuedFor, DrainedFor, RegistersAt, Names, Told
  <2>4. Names(telling, w) => Names(telling, w)'
    BY <1>1 DEF Names, Told
  <2> QED
    BY <1>7, <2>1, <2>3, <2>4 DEF WillBeTold
<1>8. ViewsFollow'
  BY <1>1, <1>7, ViewCarried DEF ClientsFollow
<1> QED
  BY <1>5, <1>6, <1>8 DEF ClientsFollow

\* With nothing left to do in a loop, the next event of those drained is taken: it is fired at
\* each sink in the list, or it puts a client's sinks into it.
LEMMA TakeView ==
  ASSUME ComInv, ClientsFollow, TakeEvent
  PROVE  ClientsFollow'
<1> DEFINE e == Head(drained)
<1>1. /\ todo = <<>> /\ drained # <<>> /\ drained' = Tail(drained) /\ out = NoCall
      /\ UNCHANGED clientState /\ UNCHANGED <<queue, undrained, out, sink, object, telling>>
  BY DEF TakeEvent, Free, clientVars, providerVars, clientState
<1>2. ~ undrained /\ TodoPlaces = {}
  BY <1>1, EmptyBus DEF ComInv, WorkConsistent, TodoPlaces
<1>3. /\ e = drained[1]
      /\ \A k \in DrainedPlaces :
           k = 1 \/ (k - 1 \in DrainedPlaces' /\ drained'[k - 1] = drained[k])
      /\ \A j, k \in DrainedPlaces : j < k => k # 1 /\ (j # 1 => j - 1 < k - 1)
  <2>1. OwnSeq(drained)
    BY ComSequences DEF ComInv
  <2>2. \A j, k \in DrainedPlaces : j \in 1..Len(drained) /\ k \in 1..Len(drained) /\ Len(drained) \in Nat
    BY <2>1, <1>1, OwnTail DEF DrainedPlaces
  <2>3. \A j, k \in DrainedPlaces : j < k => k # 1 /\ (j # 1 => j - 1 < k - 1)
    BY <2>2
  <2> QED
    BY <1>1, <2>1, <2>3, Shifted DEF DrainedPlaces
<1>4. \A c : Ready(c) => Listed(c) /\ sink[c] \in {"taken", "advised"}
  BY <1>2 DEF Ready
<1>5. ASSUME e.what = "register"
      PROVE  /\ \A c : Enlisted(c) => Enlisted(c)'
             /\ \A c \in Clients : \A w : DrainedFor(c, w) => DrainedFor(c, w)' \/ FiredFor(c, w)'
  <2>1. /\ sinkList' = Append(sinkList, e.client)
        /\ todo' = <<[do |-> "register", at |-> e.client]>>
    BY <1>5 DEF TakeEvent
  <2>2. e.client \in Clients
    BY <1>1, <1>3, <1>5, OwnTail, ComSequences DEF ComInv, WorkConsistent, DrainedPlaces
  <2>3. 1 \in TodoPlaces' /\ todo'[1].do = "register" /\ todo'[1].at = e.client
    BY <2>1 DEF TodoPlaces
  <2>4. \A c : (Listed(c) \/ c = e.client) => Listed(c)'
    <3>1. /\ Len(sinkList) \in Nat /\ Len(sinkList') = Len(sinkList) + 1
          /\ \A k \in 1..Len(sinkList) : sinkList'[k] = sinkList[k]
          /\ sinkList'[Len(sinkList) + 1] = e.client
      BY <2>1, <2>2 DEF ComInv, QueuesAreSequences
    <3> QED
      BY <3>1 DEF Listed
  <2> HIDE DEF e
  <2>5. \A c : Enlisted(c) => Enlisted(c)'
    <3>1. ASSUME NEW c, NEW k \in DrainedPlaces, RegistersAt(drained, k, c)
          PROVE  Enlisted(c)'
      BY <3>1, <2>4, <1>3 DEF RegistersAt, Enlisted
    <3> QED
      BY <3>1, <2>4 DEF Enlisted
  <2>6. \A c : Ready(c) => Ready(c)'
    BY <1>1, <1>4, <2>4 DEF Ready
  <2>7. \A c : c = e.client => Ready(c)'
    BY <2>3, <2>4 DEF Ready
  <2>8. ASSUME NEW c, NEW w, DrainedFor(c, w)
        PROVE  DrainedFor(c, w)'
    <3>1. PICK k \in DrainedPlaces :
            /\ Names(drained[k], w)
            /\ Ready(c) \/ \E j \in DrainedPlaces : j < k /\ RegistersAt(drained, j, c)
      BY <2>8 DEF DrainedFor
    <3>2. k # 1
      BY <3>1, <1>3, <1>5 DEF Names
    <3>3. k - 1 \in DrainedPlaces' /\ Names(drained'[k - 1], w)
      BY <3>1, <3>2, <1>3
    <3>4. CASE Ready(c)
      BY <3>3, <3>4, <2>6 DEF DrainedFor, Names, Told
    <3>5. ASSUME NEW j \in DrainedPlaces, j < k, RegistersAt(drained, j, c)
          PROVE  DrainedFor(c, w)'
      <4>1. CASE j = 1
        BY <4>1, <3>3, <3>5, <2>7, <1>3 DEF DrainedFor, RegistersAt, Names, Told
      <4>2. CASE j # 1
        <5>1. j - 1 \in DrainedPlaces' /\ RegistersAt(drained', j - 1, c) /\ j - 1 < k - 1
          BY <3>5, <4>2, <1>3 DEF RegistersAt
        <5> QED
          BY <5>1, <3>3 DEF DrainedFor, RegistersAt, Names, Told
      <4> QED
        BY <4>1, <4>2
    <3> QED
      BY <3>1, <3>4, <3>5
  <2> QED
    BY <2>5, <2>8
<1>6. ASSUME e.what # "register"
      PROVE  /\ \A c : Enlisted(c) => Enlisted(c)'
             /\ \A c \in Clients : \A w : DrainedFor(c, w) => DrainedFor(c, w)' \/ FiredFor(c, w)'
  <2>1. /\ sinkList' = sinkList
        /\ todo' = [k \in 1..Len(sinkList) |-> [do |-> "fire", at |-> sinkList[k], event |-> e]]
    BY <1>6 DEF TakeEvent
  <2>2. /\ Len(sinkList) \in Nat /\ Len(todo') = Len(sinkList)
        /\ \A k \in 1..Len(sinkList) :
             todo'[k].do = "fire" /\ todo'[k].at = sinkList[k] /\ todo'[k].event = e
    BY <2>1 DEF ComInv, QueuesAreSequences
  <2> HIDE DEF e
  <2>3. \A c : Listed(c)' <=> Listed(c)
    BY <2>1 DEF Listed
  <2>4. \A c : Enlisted(c) => Enlisted(c)'
    BY <2>3, <1>3, <1>6 DEF Enlisted, RegistersAt
  <2>5. \A c : Ready(c) => Ready(c)'
    BY <1>1, <1>4, <2>3 DEF Ready
  <2>6. \A c \in Clients : sink[c] # "taken"
    BY <1>1 DEF ComInv, OutConsistent, NoCall
  <2>7. ASSUME NEW c \in Clients, NEW w, DrainedFor(c, w)
        PROVE  DrainedFor(c, w)' \/ FiredFor(c, w)'
    <3>1. PICK k \in DrainedPlaces :
            /\ Names(drained[k], w)
            /\ Ready(c) \/ \E j \in DrainedPlaces : j < k /\ RegistersAt(drained, j, c)
      BY <2>7 DEF DrainedFor
    <3>2. CASE k = 1
      <4>1. Ready(c) /\ Names(e, w)
        BY <3>1, <3>2, <1>3
      <4>2. sink[c] = "advised" /\ \E i \in 1..Len(sinkList) : sinkList[i] = c
        BY <4>1, <1>4, <2>6 DEF Listed
      <4> QED
        BY <4>1, <4>2, <1>1, <2>2 DEF FiredFor, TodoPlaces, Names, Told
    <3>3. CASE k # 1
      <4>1. k - 1 \in DrainedPlaces' /\ Names(drained'[k - 1], w)
        BY <3>1, <3>3, <1>3
      <4>2. CASE Ready(c)
        BY <4>1, <4>2, <2>5 DEF DrainedFor, Names, Told
      <4>3. ASSUME NEW j \in DrainedPlaces, j < k, RegistersAt(drained, j, c)
            PROVE  DrainedFor(c, w)'
        <5>1. j # 1
          BY <4>3, <1>3, <1>6 DEF RegistersAt
        <5>2. j - 1 \in DrainedPlaces' /\ RegistersAt(drained', j - 1, c) /\ j - 1 < k - 1
          BY <4>3, <5>1, <1>3 DEF RegistersAt
        <5> QED
          BY <5>2, <4>1 DEF DrainedFor, RegistersAt, Names, Told
      <4> QED
        BY <3>1, <4>2, <4>3
    <3> QED
      BY <3>2, <3>3
  <2> QED
    BY <2>4, <2>7
<1>7. /\ \A c : Enlisted(c) => Enlisted(c)'
      /\ \A c \in Clients : \A w : DrainedFor(c, w) => DrainedFor(c, w)' \/ FiredFor(c, w)'
  BY <1>5, <1>6
<1> HIDE DEF e
<1>8. ObjectsEnlisted'
  BY <1>1, <1>7 DEF ClientsFollow, ObjectsEnlisted, QueuePlaces, RegistersAt
<1>9. PendingUnmarshalled'
  BY <1>1, <1>2 DEF PendingUnmarshalled
<1>10. ASSUME NEW c \in Clients, NEW w \in Watched, Awaits(c), WillBeTold(c, w)
       PROVE  WillBeTold(c, w)'
  <2>1. ~ FiredFor(c, w) /\ ~ InvokedFor(c, w)
    BY <1>1, <1>2 DEF FiredFor, InvokedFor, NoCall
  <2>2. QueuedFor(c, w) => QueuedFor(c, w)'
    BY <1>1, <1>7 DEF QueuedFor, QueuePlaces, RegistersAt, Names, Told
  <2>3. Names(telling, w) => Names(telling, w)'
    BY <1>1 DEF Names, Told
  <2> QED
    BY <1>7, <1>10, <2>1, <2>2, <2>3 DEF WillBeTold
<1>11. ViewsFollow'
  BY <1>1, <1>10, ViewCarried DEF ClientsFollow
<1> QED
  BY <1>8, <1>9, <1>11 DEF ClientsFollow

\* What one of the works leaves: what it is about, and what it does not touch.
LEMMA WorkDone ==
  ASSUME ComInv, ClientsFollow, todo # <<>>, todo' = Tail(todo),
         UNCHANGED <<queue, drained, sinkList, undrained, object, telling>>
  PROVE  /\ ObjectsEnlisted'
         /\ \A c : Listed(c)' <=> Listed(c)
         /\ \A c, w : QueuedFor(c, w)' <=> QueuedFor(c, w)
         /\ \A c, w : (Ready(c) => Ready(c)') /\ DrainedFor(c, w) => DrainedFor(c, w)'
         /\ \A w : Names(telling, w)' <=> Names(telling, w)
<1>1. \A c : Listed(c)' <=> Listed(c)
  BY DEF Listed
<1>2. \A c : Enlisted(c)' <=> Enlisted(c)
  BY <1>1 DEF Enlisted, DrainedPlaces, RegistersAt
<1>3. ObjectsEnlisted'
  BY <1>2 DEF ClientsFollow, ObjectsEnlisted, QueuePlaces, RegistersAt
<1>4. ASSUME NEW c, NEW w PROVE QueuedFor(c, w)' <=> QueuedFor(c, w)
  <2>1. \A k : Names(queue[k], w)' <=> Names(queue[k], w)
    BY DEF Names, Told
  <2>2. \A j : RegistersAt(queue, j, c)' <=> RegistersAt(queue, j, c)
    BY DEF RegistersAt
  <2> QED
    BY <1>2, <2>1, <2>2 DEF QueuedFor, QueuePlaces
<1>5. \A c, w : (Ready(c) => Ready(c)') /\ DrainedFor(c, w) => DrainedFor(c, w)'
  BY DEF DrainedFor, DrainedPlaces, RegistersAt, Names, Told
<1> QED
  BY <1>1, <1>3, <1>4, <1>5 DEF Names, Told

\* There is nothing to do at the sink: its client is gone, or does not wait for it.
LEMMA PassView ==
  ASSUME ComInv, ClientsFollow, PassOver
  PROVE  ClientsFollow'
<1> DEFINE h == Head(todo)
<1>1. /\ todo # <<>> /\ todo' = Tail(todo) /\ ~ Works(h) /\ UNCHANGED clientState
      /\ UNCHANGED <<queue, drained, sinkList, undrained, object, telling, out, sink>>
  BY DEF PassOver, clientVars, providerVars, clientState
<1>2. /\ h = todo[1] /\ (h.do = "unmarshal" <=> undrained)
      /\ \A k \in TodoPlaces : k = 1 \/ (k - 1 \in TodoPlaces' /\ todo'[k - 1] = todo[k])
  BY <1>1, WorkLeft
<1>3. /\ ObjectsEnlisted'
      /\ \A c : Listed(c)' <=> Listed(c)
      /\ \A c, w : QueuedFor(c, w)' <=> QueuedFor(c, w)
      /\ \A c, w : (Ready(c) => Ready(c)') /\ DrainedFor(c, w) => DrainedFor(c, w)'
      /\ \A w : Names(telling, w)' <=> Names(telling, w)
  BY <1>1, WorkDone
<1> HIDE DEF h
<1>4. ASSUME NEW c \in Clients, Awaits(c)
      PROVE  /\ sink[c] \in {"pending", "taken", "advised"} /\ object[c] = "created"
             /\ sink[c] = "pending" /\ h.at = c => h.do # "unmarshal" /\ h.do # "register"
             /\ sink[c] = "advised" /\ h.at = c => h.do # "fire"
  <2>1. sink[c] \in {"pending", "taken", "advised"} /\ object[c] = "created"
    BY <1>4 DEF ComInv, ClientTypes, Awaits
  <2> QED
    BY <1>1, <2>1 DEF Works
<1>5. PendingUnmarshalled'
  <2> SUFFICES ASSUME NEW c \in Clients, Awaits(c), sink[c] = "pending", undrained, Listed(c)
               PROVE  \E k \in TodoPlaces' : todo'[k].at = c
    BY <1>1, <1>3 DEF PendingUnmarshalled, Awaits, clientState
  <2>1. PICK k \in TodoPlaces : todo[k].at = c
    BY DEF ClientsFollow, PendingUnmarshalled
  <2>2. k # 1
    BY <1>2, <1>4, <2>1
  <2> QED
    BY <1>2, <2>1, <2>2
<1>6. ASSUME NEW c \in Clients, NEW w \in Watched, Awaits(c), WillBeTold(c, w)
      PROVE  WillBeTold(c, w)'
  <2>1. Ready(c) => Ready(c)'
    <3>1. ASSUME NEW k \in TodoPlaces, todo[k].do = "register", todo[k].at = c,
                 sink[c] = "pending"
          PROVE  \E i \in TodoPlaces' : todo'[i].do = "register" /\ todo'[i].at = c
      <4>1. k # 1
        BY <1>2, <1>4, <1>6, <3>1
      <4> QED
        BY <1>2, <3>1, <4>1
    <3>2. sink[c] \in {"pending", "taken", "advised"} /\ sink' = sink
      BY <1>1, <1>4, <1>6
    <3> QED
      BY <1>3, <3>1, <3>2 DEF Ready
  <2>2. FiredFor(c, w) => FiredFor(c, w)'
    <3> SUFFICES ASSUME sink[c] = "advised", NEW k \in TodoPlaces, todo[k].do = "fire",
                        todo[k].at = c, Names(todo[k].event, w)
                 PROVE  FiredFor(c, w)'
      BY DEF FiredFor
    <3>1. k # 1
      BY <1>2, <1>4, <1>6
    <3>2. k - 1 \in TodoPlaces' /\ todo'[k - 1] = todo[k] /\ sink' = sink
      BY <1>1, <1>2, <3>1
    <3> QED
      BY <3>2 DEF FiredFor, Names, Told
  <2>3. InvokedFor(c, w) => InvokedFor(c, w)'
    BY <1>1 DEF InvokedFor, Names, Told
  <2> QED
    BY <1>3, <1>6, <2>1, <2>2, <2>3 DEF WillBeTold
<1>7. ViewsFollow'
  BY <1>1, <1>6, ViewCarried DEF ClientsFollow
<1> QED
  BY <1>3, <1>5, <1>7 DEF ClientsFollow

\* An event is fired: the client it is for is being told.
LEMMA FireView ==
  ASSUME ComInv, ClientsFollow, Fire
  PROVE  ClientsFollow'
<1> DEFINE h == Head(todo)
<1>1. /\ todo # <<>> /\ todo' = Tail(todo) /\ h.do = "fire" /\ UNCHANGED clientState
      /\ out = NoCall /\ out' = [what |-> "invoke", at |-> h.at, event |-> h.event]
      /\ UNCHANGED <<queue, drained, sinkList, undrained, object, telling, sink>>
  BY DEF Fire, Doing, Free, clientVars, providerVars, clientState
<1>2. /\ h = todo[1] /\ (h.do = "unmarshal" <=> undrained)
      /\ \A k \in TodoPlaces : k = 1 \/ (k - 1 \in TodoPlaces' /\ todo'[k - 1] = todo[k])
  BY <1>1, WorkLeft
<1>3. /\ ObjectsEnlisted'
      /\ \A c : Listed(c)' <=> Listed(c)
      /\ \A c, w : QueuedFor(c, w)' <=> QueuedFor(c, w)
      /\ \A c, w : (Ready(c) => Ready(c)') /\ DrainedFor(c, w) => DrainedFor(c, w)'
      /\ \A w : Names(telling, w)' <=> Names(telling, w)
  BY <1>1, WorkDone
<1> HIDE DEF h
<1>4. PendingUnmarshalled'
  BY <1>1, <1>2 DEF PendingUnmarshalled
<1>5. ASSUME NEW c \in Clients, NEW w \in Watched, Awaits(c), WillBeTold(c, w)
      PROVE  WillBeTold(c, w)'
  <2>1. Ready(c) => Ready(c)'
    <3>1. ASSUME NEW k \in TodoPlaces, todo[k].do = "register", todo[k].at = c
          PROVE  \E i \in TodoPlaces' : todo'[i].do = "register" /\ todo'[i].at = c
      BY <1>1, <1>2, <3>1
    <3> QED
      BY <1>1, <1>3, <3>1 DEF Ready
  <2>2. FiredFor(c, w) => FiredFor(c, w)' \/ InvokedFor(c, w)'
    <3> SUFFICES ASSUME sink[c] = "advised", NEW k \in TodoPlaces, todo[k].do = "fire",
                        todo[k].at = c, Names(todo[k].event, w)
                 PROVE  FiredFor(c, w)' \/ InvokedFor(c, w)'
      BY DEF FiredFor
    <3>1. CASE k = 1
      BY <3>1, <1>1, <1>2 DEF InvokedFor, Names, Told
    <3>2. CASE k # 1
      <4>1. k - 1 \in TodoPlaces' /\ todo'[k - 1] = todo[k] /\ sink' = sink
        BY <1>1, <1>2, <3>2
      <4> QED
        BY <4>1 DEF FiredFor, Names, Told
    <3> QED
      BY <3>1, <3>2
  <2>3. ~ InvokedFor(c, w)
    BY <1>1 DEF InvokedFor, NoCall
  <2> QED
    BY <1>3, <1>5, <2>1, <2>2, <2>3 DEF WillBeTold
<1>6. ViewsFollow'
  BY <1>1, <1>5, ViewCarried DEF ClientsFollow
<1> QED
  BY <1>3, <1>4, <1>6 DEF ClientsFollow

\* A pending sink is being unmarshalled: it is ready for the events drained after this.
LEMMA UnmarshalView ==
  ASSUME ComInv, ClientsFollow, Unmarshal
  PROVE  ClientsFollow'
<1> DEFINE d == Head(todo).at
<1>1. /\ todo # <<>> /\ todo' = Tail(todo) /\ Head(todo).do \in {"unmarshal", "register"}
      /\ out = NoCall /\ out' = [what |-> "unmarshal", at |-> d]
      /\ sink[d] = "pending" /\ sink' = [sink EXCEPT ![d] = "taken"]
      /\ UNCHANGED <<queue, drained, sinkList, undrained, object, telling>>
      /\ UNCHANGED <<alive, missed, view, toRead, cached, flipped>>
  BY DEF Unmarshal, Doing, Works, Free, providerVars
<1>2. /\ Head(todo) = todo[1] /\ d \in Clients
      /\ \A k \in TodoPlaces : k = 1 \/ (k - 1 \in TodoPlaces' /\ todo'[k - 1] = todo[k])
  BY <1>1, WorkLeft
<1>3. /\ ObjectsEnlisted'
      /\ \A c : Listed(c)' <=> Listed(c)
      /\ \A c, w : QueuedFor(c, w)' <=> QueuedFor(c, w)
      /\ \A c, w : (Ready(c) => Ready(c)') /\ DrainedFor(c, w) => DrainedFor(c, w)'
      /\ \A w : Names(telling, w)' <=> Names(telling, w)
  BY <1>1, WorkDone
<1>4. todo[1].at = d /\ todo[1].do # "fire"
  BY <1>1, <1>2
<1> HIDE DEF d
<1>5. sink'[d] = "taken" /\ \A c \in Clients \ {d} : sink'[c] = sink[c]
  BY <1>1, <1>2 DEF ComInv, ClientTypes
<1>6. \A c \in Clients : Awaits(c)' <=> Awaits(c)
  BY <1>1, <1>5 DEF Awaits
<1>7. PendingUnmarshalled'
  <2> SUFFICES ASSUME NEW c \in Clients, Awaits(c), sink'[c] = "pending", undrained, Listed(c)
               PROVE  \E k \in TodoPlaces' : todo'[k].at = c
    BY <1>1, <1>3, <1>6 DEF PendingUnmarshalled
  <2>1. c # d /\ sink[c] = "pending"
    BY <1>5
  <2>2. PICK k \in TodoPlaces : todo[k].at = c
    BY <2>1 DEF ClientsFollow, PendingUnmarshalled
  <2> QED
    BY <1>2, <1>4, <2>1, <2>2
<1>8. ASSUME NEW c \in Clients, NEW w \in Watched, WillBeTold(c, w)
      PROVE  WillBeTold(c, w)'
  <2>1. Ready(c) => Ready(c)'
    <3>1. CASE c = d
      BY <3>1, <1>3, <1>5 DEF Ready
    <3>2. CASE c # d
      <4>1. ASSUME NEW k \in TodoPlaces, todo[k].do = "register", todo[k].at = c
            PROVE  \E i \in TodoPlaces' : todo'[i].do = "register" /\ todo'[i].at = c
        BY <3>2, <1>2, <1>4, <4>1
      <4> QED
        BY <3>2, <1>3, <1>5, <4>1 DEF Ready
    <3> QED
      BY <3>1, <3>2
  <2>2. FiredFor(c, w) => FiredFor(c, w)'
    <3> SUFFICES ASSUME sink[c] = "advised", NEW k \in TodoPlaces, todo[k].do = "fire",
                        todo[k].at = c, Names(todo[k].event, w)
                 PROVE  FiredFor(c, w)'
      BY DEF FiredFor
    <3>1. k # 1 /\ sink'[c] = "advised"
      BY <1>1, <1>4, <1>5
    <3>2. k - 1 \in TodoPlaces' /\ todo'[k - 1] = todo[k]
      BY <1>2, <3>1
    <3> QED
      BY <3>1, <3>2 DEF FiredFor, Names, Told
  <2>3. ~ InvokedFor(c, w)
    BY <1>1 DEF InvokedFor, NoCall
  <2> QED
    BY <1>3, <1>8, <2>1, <2>2, <2>3 DEF WillBeTold
<1>9. \A c, w : Behind(c, w)' <=> Behind(c, w)
  BY <1>1 DEF Behind
<1>10. ViewsFollow'
  BY <1>1, <1>6, <1>8, <1>9, ViewKept DEF ClientsFollow
<1> QED
  BY <1>3, <1>7, <1>10 DEF ClientsFollow

\* The sink is in the table, or its client is gone.
LEMMA UnmarshalledView ==
  ASSUME ComInv, ClientsFollow, Unmarshalled
  PROVE  ClientsFollow'
<1> DEFINE d == out.at
<1>1. /\ out.what = "unmarshal" /\ out' = NoCall
      /\ sink' = [sink EXCEPT ![d] = IF alive[d] THEN "advised" ELSE "none"]
      /\ UNCHANGED <<queue, drained, todo, sinkList, undrained, object, telling>>
      /\ UNCHANGED <<alive, missed, view, toRead, cached, flipped>>
  BY DEF Unmarshalled, passVars, providerVars
<1>2. d \in Clients /\ sink[d] = "taken"
  BY <1>1 DEF ComInv, OutConsistent, NoCall
<1> HIDE DEF d
<1>3. /\ sink'[d] = (IF alive[d] THEN "advised" ELSE "none")
      /\ \A c \in Clients \ {d} : sink'[c] = sink[c]
  BY <1>1, <1>2 DEF ComInv, ClientTypes
<1>4. ASSUME NEW c \in Clients, Awaits(c)'
      PROVE  /\ Awaits(c)
             /\ c = d => sink'[c] = "advised"
             /\ c # d => sink'[c] = sink[c]
  BY <1>1, <1>2, <1>3, <1>4 DEF Awaits
<1>5. \A c : Listed(c)' <=> Listed(c)
  BY <1>1 DEF Listed
<1>6. \A c : Enlisted(c)' <=> Enlisted(c)
  BY <1>1, <1>5 DEF Enlisted, DrainedPlaces, RegistersAt
<1>7. ObjectsEnlisted'
  BY <1>1, <1>6 DEF ClientsFollow, ObjectsEnlisted, QueuePlaces, RegistersAt
<1>8. PendingUnmarshalled'
  BY <1>1, <1>4, <1>5 DEF ClientsFollow, PendingUnmarshalled, TodoPlaces
<1>9. ASSUME NEW c \in Clients, Awaits(c)', NEW w, WillBeTold(c, w)
      PROVE  WillBeTold(c, w)'
  <2>1. Ready(c) => Ready(c)'
    BY <1>1, <1>4, <1>5, <1>9 DEF Ready, TodoPlaces
  <2>2. QueuedFor(c, w) => QueuedFor(c, w)'
    BY <1>1, <1>6 DEF QueuedFor, QueuePlaces, RegistersAt, Names, Told
  <2>3. DrainedFor(c, w) => DrainedFor(c, w)'
    BY <1>1, <2>1 DEF DrainedFor, DrainedPlaces, RegistersAt, Names, Told
  <2>4. FiredFor(c, w) => FiredFor(c, w)'
    BY <1>1, <1>2, <1>4, <1>9 DEF FiredFor, TodoPlaces, Names, Told
  <2>5. ~ InvokedFor(c, w)
    BY <1>1 DEF InvokedFor
  <2>6. Names(telling, w) => Names(telling, w)'
    BY <1>1 DEF Names, Told
  <2> QED
    BY <1>9, <2>2, <2>3, <2>4, <2>5, <2>6 DEF WillBeTold
<1>10. \A c, w : Behind(c, w)' <=> Behind(c, w)
  BY <1>1 DEF Behind
<1>11. ViewsFollow'
  BY <1>1, <1>4, <1>9, <1>10, ViewKept DEF ClientsFollow
<1> QED
  BY <1>7, <1>8, <1>11 DEF ClientsFollow

\* What a client and the call at hand do not touch
LEMMA ToldStill ==
  ASSUME UNCHANGED <<queue, drained, todo, sinkList, undrained, telling>>
  PROVE  /\ \A c : (Listed(c)' <=> Listed(c)) /\ (Enlisted(c)' <=> Enlisted(c))
         /\ \A c, w : QueuedFor(c, w) => QueuedFor(c, w)'
         /\ \A c, w : sink'[c] = sink[c] /\ DrainedFor(c, w) => DrainedFor(c, w)'
         /\ \A c, w : sink'[c] = sink[c] /\ FiredFor(c, w) => FiredFor(c, w)'
         /\ \A w : Names(telling, w) => Names(telling, w)'
<1>1. \A c : Listed(c)' <=> Listed(c)
  BY DEF Listed
<1>2. \A c : Enlisted(c)' <=> Enlisted(c)
  BY <1>1 DEF Enlisted, DrainedPlaces, RegistersAt
<1>3. ASSUME NEW c, NEW w, QueuedFor(c, w) PROVE QueuedFor(c, w)'
  BY <1>2, <1>3 DEF QueuedFor, QueuePlaces, RegistersAt, Names, Told
<1>4. ASSUME NEW c, sink'[c] = sink[c], Ready(c) PROVE Ready(c)'
  BY <1>1, <1>4 DEF Ready, TodoPlaces
<1>5. ASSUME NEW c, NEW w, sink'[c] = sink[c], DrainedFor(c, w) PROVE DrainedFor(c, w)'
  BY <1>4, <1>5 DEF DrainedFor, DrainedPlaces, RegistersAt, Names, Told
<1>6. ASSUME NEW c, NEW w, sink'[c] = sink[c], FiredFor(c, w) PROVE FiredFor(c, w)'
  BY <1>6 DEF FiredFor, TodoPlaces, Names, Told
<1>7. \A w : Names(telling, w) => Names(telling, w)'
  BY DEF Names, Told
<1> QED
  BY <1>1, <1>2, <1>3, <1>5, <1>6, <1>7

\* A client's handler returns: it reads what it was told of.
LEMMA InvokedView ==
  ASSUME ComInv, ClientsFollow, Invoked
  PROVE  ClientsFollow'
<1> DEFINE d == out.at
<1>1. /\ out.what = "invoke" /\ out' = NoCall
      /\ toRead' = [toRead EXCEPT ![d] = IF alive[d] THEN @ \cup Told(out.event) ELSE @]
      /\ UNCHANGED <<queue, drained, todo, sinkList, undrained, object, telling>>
      /\ UNCHANGED <<alive, missed, view, sink, cached, flipped>>
  BY DEF Invoked, passVars, providerVars
<1>2. d \in Clients
  BY <1>1 DEF ComInv, OutConsistent, NoCall
<1>3. \A c \in Clients : c # d => toRead'[c] = toRead[c]
  BY <1>1, <1>2 DEF ComInv, ClientTypes
<1>4. alive[d] => toRead'[d] = toRead[d] \cup Told(out.event)
  BY <1>1, <1>2 DEF ComInv, ClientTypes
<1> HIDE DEF d
<1>5. /\ \A c : (Listed(c)' <=> Listed(c)) /\ (Enlisted(c)' <=> Enlisted(c))
      /\ \A c, w : QueuedFor(c, w) => QueuedFor(c, w)'
      /\ \A c, w : sink'[c] = sink[c] /\ DrainedFor(c, w) => DrainedFor(c, w)'
      /\ \A c, w : sink'[c] = sink[c] /\ FiredFor(c, w) => FiredFor(c, w)'
      /\ \A w : Names(telling, w) => Names(telling, w)'
  BY <1>1, ToldStill
<1>6. \A c : Awaits(c)' <=> Awaits(c)
  BY <1>1 DEF Awaits
<1>7. ObjectsEnlisted'
  BY <1>1, <1>5 DEF ClientsFollow, ObjectsEnlisted, QueuePlaces, RegistersAt
<1>8. PendingUnmarshalled'
  BY <1>1, <1>5, <1>6 DEF ClientsFollow, PendingUnmarshalled, TodoPlaces
<1>9. ASSUME NEW c \in Clients, Awaits(c), NEW w \in Watched, w \notin toRead'[c]
      PROVE  w \notin toRead[c] /\ (WillBeTold(c, w) => WillBeTold(c, w)')
  <2>1. w \notin toRead[c]
    BY <1>3, <1>4, <1>9 DEF Awaits
  <2>2. ~ InvokedFor(c, w)
    <3>1. c = d => w \notin Told(out.event)
      BY <1>4, <1>9 DEF Awaits
    <3> QED
      BY <3>1 DEF InvokedFor, Names, d
  <2>3. sink'[c] = sink[c]
    BY <1>1
  <2> QED
    BY <1>5, <2>1, <2>2, <2>3 DEF WillBeTold
<1>10. \A c, w : Behind(c, w)' <=> Behind(c, w)
  BY <1>1 DEF Behind
<1>11. ViewsFollow'
  BY <1>6, <1>9, <1>10, ViewKept DEF ClientsFollow
<1> QED
  BY <1>7, <1>8, <1>11 DEF ClientsFollow

\* A new object's sinks will be registered; it has none yet.
LEMMA CreateView ==
  ASSUME ComInv, ClientsFollow, NEW d \in Clients, CreateInstance(d)
  PROVE  ClientsFollow'
<1> DEFINE e == [what |-> "register", client |-> d]
<1>1. /\ object[d] = "none" /\ object' = [object EXCEPT ![d] = "created"]
      /\ queue' = Append(queue, e)
      /\ UNCHANGED <<drained, todo, sinkList, undrained, out, telling>>
      /\ UNCHANGED <<alive, missed, view, toRead, sink, cached, flipped>>
  BY DEF CreateInstance, passVars, providerVars
<1>2. e.what = "register" /\ e.client = d
  OBVIOUS
<1> HIDE DEF e
<1>3. /\ Len(queue) + 1 \in QueuePlaces' /\ queue'[Len(queue) + 1] = e
      /\ \A k \in QueuePlaces :
           k \in QueuePlaces' /\ queue'[k] = queue[k] /\ k < Len(queue) + 1
      /\ \A c : Enlisted(c)' <=> Enlisted(c)
      /\ \A c, w : QueuedFor(c, w) => QueuedFor(c, w)'
  BY <1>1, QueueGrows
<1>4. sink[d] = "none" /\ \A c \in Clients \ {d} : object'[c] = object[c]
  BY <1>1 DEF ComInv, ClientTypes
<1>5. \A c \in Clients : Awaits(c)' => Awaits(c)
  BY <1>1, <1>4 DEF Awaits
<1>6. ObjectsEnlisted'
  <2>1. ASSUME NEW c \in Clients, object'[c] = "created"
        PROVE  Enlisted(c)' \/ \E k \in QueuePlaces' : RegistersAt(queue', k, c)
    <3>1. CASE c = d
      BY <3>1, <1>2, <1>3 DEF RegistersAt
    <3>2. CASE c # d
      <4>1. Enlisted(c) \/ \E k \in QueuePlaces : RegistersAt(queue, k, c)
        BY <2>1, <3>2, <1>4 DEF ClientsFollow, ObjectsEnlisted
      <4> QED
        BY <4>1, <1>3 DEF RegistersAt
    <3> QED
      BY <3>1, <3>2
  <2> QED
    BY <2>1 DEF ObjectsEnlisted, RegistersAt
<1>7. PendingUnmarshalled'
  BY <1>1, <1>5 DEF ClientsFollow, PendingUnmarshalled, TodoPlaces, Listed
<1>8. ASSUME NEW c, NEW w, WillBeTold(c, w) PROVE WillBeTold(c, w)'
  <2>1. CASE Names(telling, w) \/ FiredFor(c, w) \/ InvokedFor(c, w)
    BY <2>1, <1>1 DEF WillBeTold, FiredFor, InvokedFor, TodoPlaces, Names, Told
  <2>2. CASE DrainedFor(c, w)
    BY <2>2, <1>1 DEF WillBeTold, DrainedFor, Ready, Listed, DrainedPlaces, TodoPlaces,
                      RegistersAt, Names, Told
  <2> QED
    BY <1>3, <1>8, <2>1, <2>2 DEF WillBeTold
<1>9. \A c, w : Behind(c, w)' <=> Behind(c, w)
  BY <1>1 DEF Behind
<1>10. ViewsFollow'
  BY <1>1, <1>5, <1>8, <1>9, ViewKept DEF ClientsFollow
<1> QED
  BY <1>6, <1>7, <1>10 DEF ClientsFollow

\* What a client calls: it then reads what it shows anew, or is not waited for any more, or
\* shows what it has just read.
LEMMA CallView ==
  ASSUME ComInv, ClientsFollow, NEW d \in Clients,
         Advise(d) \/ Unadvise(d) \/ Release(d) \/ Read(d) \/ ClientEnds(d)
  PROVE  ClientsFollow'
<1>1. UNCHANGED <<queue, drained, todo, sinkList, undrained, telling, out, cached, flipped>>
  BY DEF Advise, Unadvise, Release, Read, ClientEnds, providerVars, comVars, passVars
<1>2. \A c \in Clients \ {d} :
        /\ alive'[c] = alive[c] /\ object'[c] = object[c] /\ sink'[c] = sink[c]
        /\ view'[c] = view[c] /\ toRead'[c] = toRead[c] /\ (c \in missed' <=> c \in missed)
  <2>1. CASE Advise(d)
    BY <2>1 DEF Advise, ComInv, ClientTypes
  <2>2. CASE Unadvise(d)
    BY <2>2 DEF Unadvise, ComInv, ClientTypes
  <2>3. CASE Release(d)
    BY <2>3 DEF Release, ComInv, ClientTypes
  <2>4. CASE Read(d)
    BY <2>4 DEF Read, ComInv, ClientTypes
  <2>5. CASE ClientEnds(d)
    BY <2>5 DEF ClientEnds, ComInv, ClientTypes
  <2> QED
    BY <2>1, <2>2, <2>3, <2>4, <2>5
<1>3. object'[d] = "created" => object[d] = "created"
  BY DEF Advise, Unadvise, Release, Read, ClientEnds, ComInv, ClientTypes
\* What the call makes of this client
<1>4. Awaits(d)' => \/ Awaits(d) /\ sink'[d] = sink[d] /\ toRead'[d] = {}
                         /\ \A w \in Watched : Behind(d, w)' => w \notin toRead[d] /\ Behind(d, w)
                    \/ Awaits(d) /\ sink'[d] = sink[d] /\ toRead'[d] = toRead[d]
                         /\ view' = view
                    \/ toRead'[d] = Watched /\ ~ (undrained /\ d \notin missed')
  <2>1. CASE Advise(d)
    <3>1. toRead'[d] = Watched
      BY <2>1 DEF Advise, ComInv, ClientTypes
    <3>2. undrained => out.what = "unmarshal"
      BY <2>1 DEF Advise, Calls, Dispatching, Idle, ComInv, WorkConsistent, OutConsistent
    <3>3. out.what = "unmarshal" => d \in missed'
      BY <2>1 DEF Advise
    <3> QED
      BY <3>1, <3>2, <3>3
  <2>2. CASE Unadvise(d)
    <3>1. sink'[d] # "none" => sink'[d] = sink[d]
      BY <2>2 DEF Unadvise, ComInv, ClientTypes
    <3> QED
      BY <2>2, <3>1 DEF Unadvise, Awaits
  <2>3. CASE Release(d)
    BY <2>3 DEF Release, Awaits, ComInv, ClientTypes
  <2>4. CASE Read(d)
    <3>1. /\ toRead' = [toRead EXCEPT ![d] = {}]
          /\ view' = [view EXCEPT ![d] = [w \in Watched |-> IF w \in toRead[d]
                                          THEN Getter(w[2], w[1], cached[w[1]]) ELSE view[d][w]]]
          /\ UNCHANGED <<alive, object, sink, missed>>
      BY <2>4 DEF Read
    <3>2. toRead'[d] = {} /\ (Awaits(d)' <=> Awaits(d))
      BY <3>1 DEF Awaits, ComInv, ClientTypes
    <3>3. ASSUME NEW w \in Watched
          PROVE  Behind(d, w)' => w \notin toRead[d] /\ Behind(d, w)
      <4>1. view'[d][w] = IF w \in toRead[d] THEN Getter(w[2], w[1], cached[w[1]]) ELSE view[d][w]
        BY <3>1 DEF ComInv, ClientTypes
      <4> QED
        BY <4>1, <1>1 DEF Behind
    <3> QED
      BY <3>1, <3>2, <3>3
  <2>5. CASE ClientEnds(d)
    BY <2>5 DEF ClientEnds, Awaits, ComInv, ClientTypes
  <2> QED
    BY <2>1, <2>2, <2>3, <2>4, <2>5
<1>5. /\ \A c : (Listed(c)' <=> Listed(c)) /\ (Enlisted(c)' <=> Enlisted(c))
      /\ \A c, w : QueuedFor(c, w) => QueuedFor(c, w)'
      /\ \A c, w : sink'[c] = sink[c] /\ DrainedFor(c, w) => DrainedFor(c, w)'
      /\ \A c, w : sink'[c] = sink[c] /\ FiredFor(c, w) => FiredFor(c, w)'
      /\ \A w : Names(telling, w) => Names(telling, w)'
  BY <1>1, ToldStill
<1>6. \A c \in Clients \ {d} : Awaits(c)' <=> Awaits(c)
  BY <1>2 DEF Awaits
<1>7. ObjectsEnlisted'
  BY <1>1, <1>2, <1>3, <1>5 DEF ClientsFollow, ObjectsEnlisted, QueuePlaces, RegistersAt
<1>8. PendingUnmarshalled'
  <2> SUFFICES ASSUME NEW c \in Clients, Awaits(c)', sink'[c] = "pending", undrained, Listed(c)
               PROVE  \E k \in TodoPlaces : todo[k].at = c
    BY <1>1, <1>5 DEF PendingUnmarshalled, TodoPlaces
  <2>1. c \notin missed'
    BY DEF Awaits
  <2>2. Awaits(c) /\ sink'[c] = sink[c]
    BY <1>2, <1>4, <1>6, <2>1
  <2> QED
    BY <2>2 DEF ClientsFollow, PendingUnmarshalled
<1>9. \A c, w : sink'[c] = sink[c] /\ WillBeTold(c, w) => WillBeTold(c, w)'
  <2>1. \A c, w : InvokedFor(c, w) => InvokedFor(c, w)'
    BY <1>1 DEF InvokedFor, Names, Told
  <2> QED
    BY <2>1, <1>5 DEF WillBeTold
<1>10. ASSUME NEW c \in Clients, Awaits(c)', NEW w \in Watched, w \notin toRead'[c], Behind(c, w)'
       PROVE  Awaits(c) /\ w \notin toRead[c] /\ Behind(c, w) /\ sink'[c] = sink[c]
  <2>1. CASE c = d
    BY <2>1, <1>1, <1>4, <1>10 DEF Behind
  <2>2. CASE c # d
    BY <2>2, <1>1, <1>2, <1>6, <1>10 DEF Behind
  <2> QED
    BY <2>1, <2>2
<1>11. ViewsFollow'
  BY <1>9, <1>10, ViewKept DEF ClientsFollow
<1> QED
  BY <1>7, <1>8, <1>11 DEF ClientsFollow

\* What reads otherwise once a message is received is named by the event it makes, but for the
\* status of a slot an update makes online.
LEMMA ReceiveNames ==
  ASSUME IInv, TextsKnown, Receive, NEW w \in Watched,
         ~ (w[2] = "Status" /\ w[1] \in flipped'),
         \/ Getter(w[2], w[1], cached'[w[1]]) # Getter(w[2], w[1], cached[w[1]])
         \/ w[2] = "Status" /\ w[1] \in flipped
  PROVE  Names(telling', w)
<1>1. w[1] \in Slots /\ w[2] \in Getters
  BY OmniRigAssumption DEF OmniRigAssumption
<1>2. DOMAIN cached = Slots /\ \A s \in Slots : "values" \in DOMAIN cached[s]
  BY DEF IInv, SlotsCached
<1>3. ~ ReceiveOther
  BY DEF ReceiveOther
<1>4. ASSUME NEW s \in Slots, ReceiveValues(s)
      PROVE  Names(telling', w)
  <2> DEFINE old == cached[s]
             news == Head(bus).values
             new == Merged(old, news)
  <2>1. /\ bus # <<>> /\ Head(bus).what = "values"
        /\ cached' = [cached EXCEPT ![s] = new]
        /\ telling' = IF Mask(old, new) = {} THEN NoEvent ELSE ParamsChange(s, Mask(old, new))
        /\ flipped' = IF old.connected THEN flipped ELSE flipped \cup {s}
    BY <1>4 DEF ReceiveValues
  <2>2. cached'[s] = new /\ \A t \in Slots \ {s} : cached'[t] = cached[t]
    BY <2>1, <1>2
  <2>3. /\ new.connected = TRUE
        /\ \A f \in Fields : new.values[f] = IF f \in DOMAIN news \cap Followed
                                             THEN Narrow(f, news[f]) ELSE old.values[f]
    BY DEF Merged
  <2>4. Head(bus) = bus[1] /\ 1 \in Places
    BY <2>1, OwnTail DEF IInv, BusIsSequence, Places, OwnSeq
  <2>5. \A f \in Texts \cap Followed : f \in DOMAIN news => ParamsOf(f, news[f]) # {}
    BY <2>1, <2>4 DEF TextsKnown
  <2> HIDE DEF old, news, new
  <2>6. \A f \in Texts \cap Fields :
          new.values[f] # old.values[f] => ParamsOf(f, new.values[f]) # {}
    <3>1. \A f \in Texts : \A v : Narrow(f, v) = v
      BY DEF Texts, Numbers, Narrow
    <3> QED
      BY <2>3, <2>5, <3>1
  <2>7. ~ (w[2] = "Status" /\ w[1] \in flipped)
    BY <2>1
  <2>8. w[1] = s
    BY <2>2, <2>7, <1>1
  <2>9. w[2] # "Status"
    <3>1. CASE old.connected
      BY <3>1, <2>2, <2>3, <2>7, <2>8 DEF old, Getter, Configured, Unconfigured
    <3>2. CASE ~ old.connected
      BY <3>2, <2>1, <2>8
    <3> QED
      BY <3>1, <3>2
  <2>10. Getter(w[2], s, old) # Getter(w[2], s, new)
    BY <2>2, <2>7, <2>8 DEF old
  <2>11. PICK p \in Mask(old, new) : w[2] \in NamedBy(p)
    BY <1>1, <2>6, <2>9, <2>10, ChangeIsNamed
  <2>12. telling' = ParamsChange(s, Mask(old, new))
    BY <2>1, <2>11
  <2> QED
    BY <2>8, <2>11, <2>12 DEF Names, Told, ParamsChange
<1>5. ASSUME NEW s \in Slots, ReceiveStatus(s)
      PROVE  Names(telling', w)
  <2>1. /\ cached' = [cached EXCEPT ![s].connected = Head(bus).connected]
        /\ telling' = StatusChange(s) /\ flipped' = flipped \ {s}
    BY <1>5 DEF ReceiveStatus
  <2>2. /\ cached'[s] = [cached[s] EXCEPT !.connected = Head(bus).connected]
        /\ \A t \in Slots \ {s} : cached'[t] = cached[t]
    BY <2>1, <1>2
  <2>3. cached'[s].values = cached[s].values
    BY <2>2, <1>2
  <2>4. w[1] = s
    BY <2>1, <2>2, <1>1
  <2>5. w[2] = "Status"
    <3> SUFFICES ASSUME w[2] # "Status" PROVE FALSE
      OBVIOUS
    <3>1. \A f : ValueOf(cached'[s], f) = ValueOf(cached[s], f)
      BY <2>3 DEF ValueOf
    <3>2. Getter(w[2], s, cached'[s]) = Getter(w[2], s, cached[s])
      BY <3>1, <1>1, SameGetter
    <3> QED
      BY <3>2, <2>4
  <2> QED
    BY <2>1, <2>4, <2>5 DEF Names, Told, StatusChange
<1> QED
  BY <1>3, <1>4, <1>5 DEF Receive

\* The provider changes a slot: it is about to tell of what reads otherwise.
LEMMA ReceiveView ==
  ASSUME IInv, TextsKnown, ClientsFollow, Receive
  PROVE  ClientsFollow'
<1>1. /\ telling = NoEvent
      /\ UNCHANGED <<queue, drained, todo, sinkList, undrained, out>>
      /\ UNCHANGED <<alive, object, sink, missed, view, toRead>>
  BY DEF Receive, comVars, passVars, clientVars
<1>2. \A c : (Awaits(c)' <=> Awaits(c)) /\ (Listed(c)' <=> Listed(c))
  BY <1>1 DEF Awaits, Listed
<1>3. ObjectsEnlisted'
  BY <1>1 DEF ClientsFollow, ObjectsEnlisted, QueuePlaces, RegistersAt, Enlisted, Listed,
              DrainedPlaces
<1>4. PendingUnmarshalled'
  BY <1>1, <1>2 DEF ClientsFollow, PendingUnmarshalled, TodoPlaces
<1>5. ASSUME NEW c, NEW w, WillBeTold(c, w)
      PROVE  WillBeTold(c, w)'
  <2>1. ~ Names(telling, w)
    BY <1>1 DEF Names, NoEvent
  <2>2. Enlisted(c)' <=> Enlisted(c)
    BY <1>1, <1>2 DEF Enlisted, DrainedPlaces, RegistersAt
  <2>3. QueuedFor(c, w) => QueuedFor(c, w)'
    BY <1>1, <2>2 DEF QueuedFor, QueuePlaces, RegistersAt, Names, Told
  <2>4. Ready(c)' <=> Ready(c)
    BY <1>1, <1>2 DEF Ready, TodoPlaces
  <2>5. DrainedFor(c, w) => DrainedFor(c, w)'
    BY <1>1, <2>4 DEF DrainedFor, DrainedPlaces, RegistersAt, Names, Told
  <2>6. FiredFor(c, w) => FiredFor(c, w)'
    BY <1>1 DEF FiredFor, TodoPlaces, Names, Told
  <2>7. InvokedFor(c, w) => InvokedFor(c, w)'
    BY <1>1 DEF InvokedFor, Names, Told
  <2> QED
    BY <1>5, <2>1, <2>3, <2>5, <2>6, <2>7 DEF WillBeTold
<1>6. ViewsFollow'
  <2> SUFFICES ASSUME NEW c \in Clients, Awaits(c), NEW w \in Watched \ toRead[c], Behind(c, w)'
               PROVE  WillBeTold(c, w)'
    BY <1>1, <1>2 DEF ViewsFollow
  <2>1. CASE Behind(c, w)
    BY <2>1, <1>5 DEF ClientsFollow, ViewsFollow
  <2>2. CASE ~ Behind(c, w)
    <3>1. /\ ~ (w[2] = "Status" /\ w[1] \in flipped')
          /\ \/ Getter(w[2], w[1], cached'[w[1]]) # Getter(w[2], w[1], cached[w[1]])
             \/ w[2] = "Status" /\ w[1] \in flipped
      BY <2>2, <1>1 DEF Behind
    <3>2. Names(telling', w)
      BY <3>1, ReceiveNames
    <3> QED
      BY <3>2 DEF WillBeTold, Names, Told
  <2> QED
    BY <2>1, <2>2
<1> QED
  BY <1>3, <1>4, <1>6 DEF ClientsFollow

\* The other steps change nothing of it.
LEMMA StillView ==
  ASSUME ClientsFollow, UNCHANGED comState, UNCHANGED <<view, missed, telling, cached, flipped>>
  PROVE  ClientsFollow'
<1>1. UNCHANGED clientState /\ UNCHANGED <<queue, drained, todo, sinkList, undrained, out>>
  BY DEF comState, clientState
<1>2. /\ \A c : (Listed(c)' <=> Listed(c)) /\ (Enlisted(c)' <=> Enlisted(c))
      /\ \A c, w : QueuedFor(c, w) => QueuedFor(c, w)'
      /\ \A c, w : sink'[c] = sink[c] /\ DrainedFor(c, w) => DrainedFor(c, w)'
      /\ \A c, w : sink'[c] = sink[c] /\ FiredFor(c, w) => FiredFor(c, w)'
      /\ \A w : Names(telling, w) => Names(telling, w)'
  BY <1>1, ToldStill
<1>3. \A c, w : InvokedFor(c, w) => InvokedFor(c, w)'
  BY <1>1 DEF InvokedFor, Names, Told
<1>4. \A c, w : WillBeTold(c, w) => WillBeTold(c, w)'
  BY <1>1, <1>2, <1>3 DEF WillBeTold, clientState
<1>5. ObjectsEnlisted'
  BY <1>1, <1>2 DEF ClientsFollow, ObjectsEnlisted, QueuePlaces, RegistersAt, clientState
<1>6. PendingUnmarshalled'
  BY <1>1, <1>2 DEF ClientsFollow, PendingUnmarshalled, TodoPlaces, Awaits, clientState
<1>7. ViewsFollow'
  BY <1>1, <1>4, ViewCarried DEF ClientsFollow
<1> QED
  BY <1>5, <1>6, <1>7 DEF ClientsFollow

\* What is broadcast is of a reading.
LEMMA PublishTexts ==
  ASSUME IInv, TextsKnown, NEW r \in Rigs, PublishValues(r) \/ PublishStatus(r)
  PROVE  TextsKnown'
<1> DEFINE kept == IF Len(bus) = BusCap THEN Tail(bus) ELSE bus
           Known(m) == m.what = "values" =>
             \A f \in Texts \cap Followed :
               f \in DOMAIN m.values => ParamsOf(f, m.values[f]) # {}
<1>1. PICK m : bus' = Append(kept, m) /\ Known(m)
  <2>1. CASE PublishStatus(r)
    <3>1. PICK l \in Links :
            Broadcast([what |-> "status", rig |-> r, connected |-> l = "Connected"])
      BY <2>1 DEF PublishStatus
    <3> QED
      BY <3>1 DEF Broadcast
  <2>2. CASE PublishValues(r)
    <3>1. PICK v \in Readings, told \in SUBSET Fields :
            Broadcast([what |-> "values", rig |-> r, values |-> [f \in told |-> v[f]]])
      BY <2>2 DEF PublishValues
    <3> DEFINE x == [what |-> "values", rig |-> r, values |-> [f \in told |-> v[f]]]
    <3>2. DOMAIN x.values = told /\ \A f \in told : x.values[f] = v[f]
      OBVIOUS
    <3>3. bus' = Append(kept, x)
      BY <3>1 DEF Broadcast
    <3> HIDE DEF x
    <3>4. Known(x)
      BY <3>2, TextsAssumption DEF TextsAssumption
    <3> QED
      BY <3>3, <3>4
  <2> QED
    BY <2>1, <2>2
<1>2. OwnSeq(bus) /\ \A k \in 1..Len(bus) : Known(bus[k])
  BY DEF IInv, BusIsSequence, OwnSeq, TextsKnown, Places
<1>3. OwnSeq(kept) /\ \A k \in 1..Len(kept) : Known(kept[k])
  <2>1. CASE Len(bus) = BusCap
    <3>1. bus # <<>>
      BY <2>1, EmptyBus, OmniRigAssumption DEF OmniRigAssumption
    <3>2. OwnSeq(Tail(bus))
      BY <1>2, <3>1, OwnTail
    <3>3. \A k \in 1..Len(Tail(bus)) : k + 1 \in 1..Len(bus) /\ Tail(bus)[k] = bus[k + 1]
      BY <1>2, <3>1, Shifted
    <3> HIDE DEF Known
    <3> QED
      BY <2>1, <1>2, <3>2, <3>3
  <2>2. CASE Len(bus) # BusCap
    BY <2>2, <1>2
  <2> QED
    BY <2>1, <2>2
<1> HIDE DEF kept
<1>4. /\ Len(kept) \in Nat /\ Len(bus') = Len(kept) + 1
      /\ \A k \in 1..Len(kept) : bus'[k] = kept[k]
      /\ bus'[Len(kept) + 1] = m
  BY <1>1, <1>3, OwnAppend
<1> HIDE DEF Known
<1>5. \A k \in 1..Len(bus') : k \in 1..Len(kept) \/ k = Len(kept) + 1
  BY <1>4
<1>6. \A k \in 1..Len(bus') : Known(bus'[k])
  BY <1>1, <1>3, <1>4, <1>5
<1> QED
  BY <1>6 DEF TextsKnown, Places, Known

\* The messages on their way are some of those before, and what a rig publishes.
LEMMA TextsStep ==
  ASSUME IInv, TextsKnown, [Next]_vars
  PROVE  TextsKnown'
<1>1. bus' = bus => TextsKnown'
  BY DEF TextsKnown, Places
<1>2. CASE UNCHANGED vars
  BY <1>1, <1>2 DEF vars
<1>3. ASSUME NEW r \in Rigs, PublishValues(r) \/ PublishStatus(r) PROVE TextsKnown'
  BY <1>3, PublishTexts
<1>4. CASE Receive
  <2>1. bus # <<>> /\ bus' = Tail(bus)
    BY <1>4 DEF Receive, ReceiveOther, ReceiveValues, ReceiveStatus
  <2>2. OwnSeq(bus)
    BY DEF IInv, BusIsSequence, OwnSeq, Places
  <2>3. \A k \in Places' : k + 1 \in Places /\ bus'[k] = bus[k + 1]
    BY <2>1, <2>2, Shifted DEF Places
  <2> QED
    BY <2>3 DEF TextsKnown
<1>5. QueueEvent \/ LeaveLagged => bus' = bus
  BY DEF QueueEvent, LeaveLagged
<1>6. ComThread => bus' = bus
  BY DEF ComThread, StartEvents, Drain, TakeEvent, PassOver, Unmarshal, Unmarshalled, Fire,
         Invoked, Shutdown, StartSetting, SendCommand, providerVars
<1>7. ManagerTakes \/ ManagerEnds \/ Stop => bus' = bus
  BY DEF ManagerTakes, ManagerEnds, Stop, providerVars
<1>8. ASSUME NEW c \in Clients, Client(c) \/ ClientEnds(c) PROVE bus' = bus
  BY <1>8 DEF Client, CreateInstance, Advise, Unadvise, UnadviseHangs, Release, Read, Operate,
              ClientEnds, providerVars
<1> QED
  BY <1>1, <1>2, <1>3, <1>4, <1>5, <1>6, <1>7, <1>8 DEF Next, Provider

\* Every step keeps what says where the event is that tells a client of a change.
LEMMA ViewStep ==
  ASSUME ViewInv, [Next]_vars
  PROVE  ViewInv'
<1>1. IInv /\ ComInv /\ TellsNoObject /\ TextsKnown /\ ClientsFollow
  BY DEF ViewInv
<1>2. IInv' /\ ComInv' /\ TellsNoObject' /\ TextsKnown'
  BY <1>1, FollowsStep, ComStep, TellsStep, TextsStep
<1>3. ClientsFollow'
  BY <1>1, Steps, StillView, ReceiveView, TellView, StartView, DrainView, TakeView, PassView,
     UnmarshalView, UnmarshalledView, FireView, InvokedView, CreateView, CallView
<1> QED
  BY <1>2, <1>3 DEF ViewInv

\* When all is quiet no event is anywhere on its way.
LEMMA QuietViews == ViewInv => ViewFollows
<1> SUFFICES ASSUME ViewInv, Quiet, NEW c \in Clients, Awaits(c), NEW w \in Watched \ toRead[c]
             PROVE  ~ Behind(c, w)
  BY DEF ViewFollows, Awaits, Behind
<1>1. queue = <<>> /\ drained = <<>> /\ todo = <<>> /\ out = NoCall /\ telling = NoEvent
  BY DEF Quiet, Idle
<1>2. QueuePlaces = {} /\ DrainedPlaces = {} /\ TodoPlaces = {}
  BY <1>1, EmptyBus DEF QueuePlaces, DrainedPlaces, TodoPlaces
<1>3. ~ WillBeTold(c, w)
  BY <1>1, <1>2 DEF WillBeTold, QueuedFor, DrainedFor, FiredFor, InvokedFor, Names, NoEvent, NoCall
<1> QED
  BY <1>3 DEF ViewInv, ClientsFollow, ViewsFollow

(***************************************************************************)
(* A client that advised, and reads again what events tell it to, shows    *)
(* the status, also of what is derived from several variables, once the    *)
(* server has nothing left to do: each change of a slot is named by an     *)
(* event, and the event finds every client's sink on its way.              *)
(***************************************************************************)
THEOREM ViewsFollowSlots == Spec => []ViewFollows
<1>1. Init => ViewInv
  BY FollowsInit, ComInit, ClientsInit DEF ViewInv
<1>2. ViewInv /\ [Next]_vars => ViewInv'
  BY ViewStep
<1> QED
  BY <1>1, <1>2, QuietViews, PTL DEF Spec
=============================================================================
