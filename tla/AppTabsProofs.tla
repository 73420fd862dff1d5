---------------------------- MODULE AppTabsProofs ----------------------------
(***************************************************************************)
(* The safety properties of the window, for any settings, configurations,  *)
(* capacities and bounds.                                                  *)
(***************************************************************************)
EXTENDS AppTabsInvariant, SequenceFacts, WellFoundedInduction, TLAPS

-----------------------------------------------------------------------------
(* Numbers and commands                                                    *)

\* A set of naturals that is not empty has a least one.
LEMMA LeastOne ==
  ASSUME NEW S, S \in SUBSET Nat, S # {}
  PROVE  \E n \in S : \A m \in S : n <= m
<1>1. PICK n \in S : \A m \in S : <<m, n>> \notin OpToRel(<, Nat)
  BY WFMin, NatLessThanWellFounded
<1>2. \A m \in S : ~ (m < n)
  BY <1>1 DEF OpToRel
<1> QED
  BY <1>2

\* Some numbers that are bounded have a greatest one: it is just below the least bound.
LEMMA GreatestOne ==
  ASSUME NEW S, S \in SUBSET Nat, S # {}, NEW b \in Nat, \A m \in S : m <= b
  PROVE  Greatest(S) \in S /\ \A m \in S : m <= Greatest(S)
<1> DEFINE Bounds == {n \in Nat : \A m \in S : m <= n}
<1>1. Bounds \in SUBSET Nat /\ b \in Bounds
  OBVIOUS
<1>2. PICK n \in Bounds : \A m \in Bounds : n <= m
  <2> HIDE DEF Bounds
  <2> QED
    BY <1>1, LeastOne
<1>3. n \in S
  <2> SUFFICES ASSUME n \notin S PROVE FALSE
    OBVIOUS
  <2>1. PICK m \in S : TRUE
    OBVIOUS
  <2>2. n # 0
    BY <2>1
  <2>3. n - 1 \in Bounds
    BY <2>2
  <2> QED
    BY <2>3, <1>2
<1> QED
  BY <1>2, <1>3 DEF Greatest

\* Finitely many numbers are bounded.
LEMMA Bounded ==
  ASSUME NEW n \in Nat, NEW f, \A k \in 1..n : f[k] \in Nat
  PROVE  \E b \in Nat : \A k \in 1..n : f[k] <= b
<1> DEFINE Bad == {m \in 0..n : \A b \in Nat : \E k \in 1..m : ~ (f[k] <= b)}
<1>1. SUFFICES ASSUME n \in Bad PROVE FALSE
  OBVIOUS
<1>2. Bad \in SUBSET Nat /\ Bad # {}
  BY <1>1
<1>3. PICK m \in Bad : \A l \in Bad : m <= l
  <2> HIDE DEF Bad
  <2> QED
    BY <1>2, LeastOne
<1>4. m \in 0..n /\ \A b \in Nat : \E k \in 1..m : ~ (f[k] <= b)
  OBVIOUS
<1>5. m # 0
  <2> SUFFICES ASSUME m = 0 PROVE FALSE
    OBVIOUS
  <2>1. PICK k \in 1..0 : ~ (f[k] <= 0)
    BY <1>4
  <2> QED
    BY <2>1
<1>6. m - 1 \in 0..n /\ m - 1 \notin Bad
  <2> HIDE DEF Bad
  <2> QED
    BY <1>3, <1>4, <1>5
<1>7. PICK b \in Nat : \A k \in 1..(m - 1) : f[k] <= b
  BY <1>6
<1> HIDE DEF Bad
<1>8. m \in 1..n /\ f[m] \in Nat
  BY <1>4, <1>5
<1>9. PICK c \in Nat : b <= c /\ f[m] <= c
  <2>1. CASE b <= f[m]
    BY <2>1, <1>8
  <2>2. CASE ~ (b <= f[m])
    BY <2>2, <1>8
  <2> QED
    BY <2>1, <2>2
<1>10. ASSUME NEW k \in 1..m PROVE f[k] <= c
  <2>1. k \in 1..n /\ f[k] \in Nat
    BY <1>8
  <2>2. CASE k = m
    BY <2>2, <1>9
  <2>3. CASE k # m
    <3>1. f[k] <= b
      BY <2>3, <1>7, <1>8
    <3> QED
      BY <3>1, <2>1, <1>8, <1>9
  <2> QED
    BY <2>2, <2>3
<1> QED
  BY <1>4, <1>10

\* What is known of the saved rigs
LEMMA SavedIds ==
  ASSUME NEW saved \in SavedRigs
  PROVE  Len(saved) \in Nat /\ \A k \in 1..Len(saved) : saved[k].id \in Nat
<1> DEFINE Rig == [id : Nat, config : Configs]
<1>1. saved \in Seq(Rig) /\ \A r \in Rig : r.id \in Nat
  BY SavedAssumption
<1> HIDE DEF Rig
<1>2. Len(saved) \in Nat /\ \A k \in 1..Len(saved) : saved[k] \in Rig
  BY <1>1
<1> QED
  BY <1>1, <1>2

\* The ids of the saved rigs are bounded, and the next id is above them.
LEMMA NextIsAbove ==
  ASSUME NEW saved \in SavedRigs
  PROVE  LET ids == {saved[k].id : k \in 1..Len(saved)} IN
         /\ ids \in SUBSET Nat /\ NextIdOf(ids) \in Nat
         /\ \A i \in ids : i < NextIdOf(ids)
<1> DEFINE ids == {saved[k].id : k \in 1..Len(saved)}
           f == [k \in 1..Len(saved) |-> saved[k].id]
<1>1. PICK b \in Nat : \A k \in 1..Len(saved) : f[k] <= b
  <2>1. Len(saved) \in Nat /\ \A k \in 1..Len(saved) : f[k] \in Nat
    BY SavedIds
  <2> HIDE DEF f
  <2> QED
    BY <2>1, Bounded
<1>2. ids \in SUBSET Nat /\ \A i \in ids : i <= b
  BY <1>1, SavedIds
<1> HIDE DEF ids
<1>3. ASSUME ids = {} PROVE NextIdOf(ids) \in Nat /\ \A i \in ids : i < NextIdOf(ids)
  BY <1>3, <1>2 DEF NextIdOf
<1>4. ASSUME ids # {} PROVE NextIdOf(ids) \in Nat /\ \A i \in ids : i < NextIdOf(ids)
  <2>1. Greatest(ids) \in ids /\ \A m \in ids : m <= Greatest(ids)
    BY <1>2, <1>4, GreatestOne
  <2>2. NextIdOf(ids) = 1 + Greatest(ids) /\ Greatest(ids) \in Nat
    BY <2>1, <1>2, <1>4 DEF NextIdOf
  <2>3. ASSUME NEW i \in ids PROVE i < NextIdOf(ids)
    <3>1. i \in Nat /\ i <= Greatest(ids)
      BY <2>1, <1>2
    <3> QED
      BY <3>1, <2>2
  <2> QED
    BY <2>2, <2>3, <1>2
<1>5. ids \in SUBSET Nat /\ NextIdOf(ids) \in Nat /\ \A i \in ids : i < NextIdOf(ids)
  BY <1>2, <1>3, <1>4
<1> QED
  BY <1>5 DEF ids

\* What is said of the first command, and of what is left once it is taken
LEMMA CommandTaken ==
  ASSUME QueuesAreSequences, CommandsConsistent, manQ # <<>>,
         manQ' = Tail(manQ), spawned' = spawned
  PROVE  /\ Len(manQ) \in Nat \ {0} /\ Head(manQ) = manQ[1] /\ Len(manQ') = Len(manQ) - 1
         /\ \A k \in 1..Len(manQ') : manQ'[k] = manQ[k + 1] /\ k + 1 \in 1..Len(manQ)
         /\ manQ' \in Seq({manQ'[k] : k \in 1..Len(manQ')})
         /\ Head(manQ) \in InFlight /\ InFlight' \subseteq InFlight
         /\ \A t \in InFlight : t = Head(manQ) \/ t \in InFlight'
         /\ \A t \in InFlight' : t.channel # Head(manQ).channel
<1>1. /\ Len(manQ) \in Nat \ {0} /\ Head(manQ) = manQ[1] /\ Len(manQ') = Len(manQ) - 1
      /\ \A k \in 1..Len(manQ') : manQ'[k] = manQ[k + 1]
      /\ manQ' \in Seq({manQ'[k] : k \in 1..Len(manQ')})
  <2>1. manQ \in Seq({manQ[k] : k \in 1..Len(manQ)})
    BY DEF QueuesAreSequences
  <2>2. /\ Len(manQ) \in Nat \ {0} /\ Head(manQ) = manQ[1]
        /\ Len(Tail(manQ)) = Len(manQ) - 1
        /\ \A k \in 1..Len(Tail(manQ)) : Tail(manQ)[k] = manQ[k + 1]
        /\ Tail(manQ) \in Seq({Tail(manQ)[k] : k \in 1..Len(Tail(manQ))})
    BY <2>1, TailPlaces
  <2> QED
    BY <2>2, Zenon
<1>2. \A k \in 1..Len(manQ') : k + 1 \in 1..Len(manQ) /\ k + 1 # 1
  BY <1>1
<1>3. \A k \in 1..Len(manQ) : k = 1 \/ (k - 1 \in 1..Len(manQ') /\ manQ'[k - 1] = manQ[k])
  BY <1>1
<1>4. 1 \in 1..Len(manQ)
  BY <1>1
<1>5. Head(manQ) \in InFlight /\ InFlight' \subseteq InFlight
  BY SMTT(30), <1>1, <1>2, <1>4 DEF InFlight
<1>6. \A t \in InFlight : t = Head(manQ) \/ t \in InFlight'
  BY <1>1, <1>3 DEF InFlight
<1>7. ASSUME NEW t \in InFlight' PROVE t.channel # Head(manQ).channel
  <2>1. CASE t \in spawned
    BY <2>1, <1>1, <1>4 DEF CommandsConsistent
  <2>2. ASSUME NEW k \in 1..Len(manQ'), t = manQ'[k]
        PROVE  t.channel # Head(manQ).channel
    BY <2>2, <1>1, <1>2, <1>4 DEF CommandsConsistent
  <2> QED
    BY <2>1, <2>2 DEF InFlight
<1> QED
  BY <1>1, <1>2, <1>5, <1>6, <1>7

-----------------------------------------------------------------------------
(* What is where                                                           *)

\* The fields of a tab are those it was made of.
LEMMA TabFields ==
  ASSUME NEW r, NEW s, NEW c
  PROVE  Tab(r, s, c).rig = r /\ Tab(r, s, c).status = s /\ Tab(r, s, c).config = c
  BY DEF Tab

\* A rig that a tab has is a number, and so not NoRig; the answers that are numbers too.
LEMMA RigsAreNumbers ==
  ASSUME AppTypeOK, PlacesAreRigs
  PROVE  /\ nextId \in Nat
         /\ \A i : Known(i) => i \in 0..(nextId - 1) /\ i \in Nat /\ i # NoRig
         /\ \A t \in DOMAIN tabs : tabs[t].rig = NoRig \/ tabs[t].rig \in 0..(nextId - 1)
         /\ \A p \in pending : answers[p.channel] \in Nat => answers[p.channel] \in 0..(nextId - 1)
<1>1. nextId \in Nat /\ DOMAIN rigs \subseteq 0..(nextId - 1)
  BY DEF AppTypeOK
<1>2. \A i : Known(i) => i \in 0..(nextId - 1)
  BY <1>1 DEF Known, IsRig
<1>3. \A i \in 0..(nextId - 1) : i \in Nat
  BY <1>1
<1>4. NoRig \notin Nat
  BY AnswersAssumption
<1> QED
  BY <1>1, <1>2, <1>3, <1>4 DEF PlacesAreRigs

\* A command that is sent is still on its way.
LEMMA SentIsOnItsWay ==
  ASSUME QueuesAreSequences, NEW t \in spawned,
         spawned' = spawned \ {t}, manQ' = Append(manQ, t)
  PROVE  /\ InFlight' = InFlight
         /\ Len(manQ) \in Nat /\ Len(manQ') = Len(manQ) + 1
         /\ \A k \in 1..Len(manQ) : manQ'[k] = manQ[k]
         /\ manQ'[Len(manQ) + 1] = t
         /\ manQ' \in Seq({manQ'[k] : k \in 1..Len(manQ')})
<1>1. /\ Len(manQ) \in Nat /\ Len(manQ') = Len(manQ) + 1
      /\ \A k \in 1..Len(manQ) : manQ'[k] = manQ[k]
      /\ manQ'[Len(manQ) + 1] = t
      /\ manQ' \in Seq({manQ'[k] : k \in 1..Len(manQ')})
  <2>1. manQ \in Seq({manQ[k] : k \in 1..Len(manQ)})
    BY DEF QueuesAreSequences
  <2>2. /\ Len(manQ) \in Nat /\ Len(Append(manQ, t)) = Len(manQ) + 1
        /\ \A k \in 1..Len(manQ) : Append(manQ, t)[k] = manQ[k]
        /\ Append(manQ, t)[Len(manQ) + 1] = t
        /\ Append(manQ, t) \in Seq({Append(manQ, t)[k] : k \in 1..Len(Append(manQ, t))})
    BY <2>1, AppendPlaces
  <2> QED
    BY <2>2, Zenon
<1>2. \A k \in 1..Len(manQ') : k \in 1..Len(manQ) \/ k = Len(manQ) + 1
  BY <1>1
<1>3. Len(manQ) + 1 \in 1..Len(manQ') /\ \A k \in 1..Len(manQ) : k \in 1..Len(manQ')
  BY <1>1
<1>4. \A u \in InFlight' : u \in InFlight
  BY <1>1, <1>2 DEF InFlight
<1>5. \A u \in InFlight : u \in InFlight'
  BY <1>1, <1>3 DEF InFlight
<1> QED
  BY <1>1, <1>4, <1>5

-----------------------------------------------------------------------------
(* The tabs                                                                *)

\* A step that moves no id of a rig
LEMMA TabsKept ==
  ASSUME TabsConsistent, pending' = pending, answers' = answers, mgr' = mgr, owed' = owed,
         DOMAIN rigs' = DOMAIN rigs, maker' = maker, hasty' = hasty,
         DOMAIN tabs' = DOMAIN tabs, \A t \in DOMAIN tabs : tabs'[t].rig = tabs[t].rig,
         \A i : Removed(i)' <=> Removed(i)
  PROVE  TabsConsistent'
<1>1. \A i : Known(i)' <=> Known(i)
  BY DEF Known, IsRig
<1>2. OnePlace'
  BY DEF TabsConsistent, OnePlace
<1>3. PlacesAreRigs'
  BY <1>1 DEF TabsConsistent, PlacesAreRigs
<1>4. HasteKnown'
  BY DEF TabsConsistent, HasteKnown
<1>5. RigsPlaced'
  BY DEF TabsConsistent, RigsPlaced
<1> QED
  BY <1>2, <1>3, <1>4, <1>5 DEF TabsConsistent

\* What a poll makes of a tab: the last answer for it, if there is one
LEMMA PolledTab ==
  ASSUME AppTypeOK, NEW t \in DOMAIN tabs
  PROVE  \/ /\ Registered(t) = tabs[t]
            /\ \A q \in pending : q.tab = t => ~ Answered(q)
         \/ \E p \in pending :
              /\ p.tab = t /\ Answered(p)
              /\ Registered(t) = Tab(IF answers[p.channel] = Closed THEN NoRig
                                     ELSE answers[p.channel], "Connecting", tabs[t].config)
<1>1. CASE AnsweredOf(t) = {}
  BY <1>1 DEF Registered, AnsweredOf, PendingOf, Answered
<1>2. CASE AnsweredOf(t) # {}
  <2>1. gestures \in Nat /\ \A p \in pending : p.channel \in 1..gestures
    <3>1. gestures \in 0..MaxGestures /\ MaxGestures \in Nat
      BY BoundsAssumption DEF AppTypeOK
    <3> QED
      BY <3>1 DEF AppTypeOK
  <2>2. AnsweredOf(t) \in SUBSET Nat /\ \A c \in AnsweredOf(t) : c <= gestures
    BY <2>1 DEF AnsweredOf, PendingOf
  <2>3. Greatest(AnsweredOf(t)) \in AnsweredOf(t)
    BY <1>2, <2>1, <2>2, GreatestOne
  <2>4. PICK p \in pending : p.tab = t /\ p.channel = Greatest(AnsweredOf(t)) /\ Answered(p)
    BY <2>3 DEF AnsweredOf, PendingOf, Answered
  <2>5. Registered(t) = Tab(IF answers[p.channel] = Closed THEN NoRig ELSE answers[p.channel],
                            "Connecting", tabs[t].config)
    BY <1>2, <2>4 DEF Registered
  <2> QED
    BY <2>4, <2>5
<1> QED
  BY <1>1, <1>2

\* What polling leaves where: a tab keeps its rig, or has the one of an answer for it.
LEMMA PolledRigs ==
  ASSUME AppTypeOK, TabsConsistent, PollPendingCreates
  PROVE  /\ DOMAIN tabs' = DOMAIN tabs
         /\ \A t \in DOMAIN tabs :
              \/ tabs'[t] = tabs[t] /\ \A q \in pending : q.tab = t => ~ Answered(q)
              \/ \E p \in pending :
                   /\ p.tab = t /\ Answered(p)
                   /\ tabs'[t] = Tab(tabs'[t].rig, "Connecting", tabs[t].config)
                   /\ \/ tabs'[t].rig = NoRig /\ answers[p.channel] = Closed
                      \/ tabs'[t].rig = answers[p.channel] /\ answers[p.channel] \in Nat
         /\ pending' \subseteq pending
         /\ \A p \in pending : p \in pending' <=> ~ Answered(p)
         /\ \A p \in pending : ~ Answered(p) => answers[p.channel] \notin Nat
         /\ \A p \in pending : Answered(p) => answers[p.channel] \in Nat \cup {Closed}
<1>1. \A p \in pending : p.channel \in Channels
  BY BoundsAssumption DEF AppTypeOK, Channels
<1>2. \A p \in pending : answers[p.channel] \in Nat \cup {Waiting, Closed}
  BY <1>1 DEF AppTypeOK
<1>3. Waiting \notin Nat
  BY AnswersAssumption
<1>4. \A t \in DOMAIN tabs : tabs'[t] = Registered(t)
  BY DEF PollPendingCreates
<1>5. ASSUME NEW t \in DOMAIN tabs
      PROVE  \/ tabs'[t] = tabs[t] /\ \A q \in pending : q.tab = t => ~ Answered(q)
             \/ \E p \in pending :
                  /\ p.tab = t /\ Answered(p)
                  /\ tabs'[t] = Tab(tabs'[t].rig, "Connecting", tabs[t].config)
                  /\ \/ tabs'[t].rig = NoRig /\ answers[p.channel] = Closed
                     \/ tabs'[t].rig = answers[p.channel] /\ answers[p.channel] \in Nat
  <2>1. CASE /\ Registered(t) = tabs[t]
             /\ \A q \in pending : q.tab = t => ~ Answered(q)
    BY <2>1, <1>4
  <2>2. CASE \E p \in pending :
               /\ p.tab = t /\ Answered(p)
               /\ Registered(t) = Tab(IF answers[p.channel] = Closed THEN NoRig
                                      ELSE answers[p.channel], "Connecting", tabs[t].config)
    <3>1. PICK p \in pending :
               /\ p.tab = t /\ Answered(p)
               /\ tabs'[t] = Tab(IF answers[p.channel] = Closed THEN NoRig
                                 ELSE answers[p.channel], "Connecting", tabs[t].config)
      BY <2>2, <1>4
    <3>2. answers[p.channel] \in Nat \cup {Closed}
      BY <3>1, <1>2 DEF Answered
    <3>3. CASE answers[p.channel] = Closed
      BY <3>1, <3>3 DEF Tab
    <3>4. CASE answers[p.channel] # Closed
      BY <3>1, <3>2, <3>4 DEF Tab
    <3> QED
      BY <3>3, <3>4
  <2> QED
    BY <2>1, <2>2, PolledTab
<1>6. DOMAIN tabs' = DOMAIN tabs /\ pending' = {p \in pending : ~ Answered(p)}
  BY DEF PollPendingCreates
<1>7. \A p \in pending : ~ Answered(p) => answers[p.channel] \notin Nat
  BY <1>3 DEF Answered
<1>8. \A p \in pending : Answered(p) => answers[p.channel] \in Nat \cup {Closed}
  BY <1>2 DEF Answered
<1> QED
  BY <1>5, <1>6, <1>7, <1>8

\* A poll moves ids from answers to tabs; an id that is lost was made by a press too early.
LEMMA PollTabs ==
  ASSUME AppTypeOK, TabsConsistent, PollPendingCreates
  PROVE  TabsConsistent'
<1> USE DEF TabsConsistent
<1>1. /\ DOMAIN tabs' = DOMAIN tabs /\ pending' \subseteq pending
      /\ \A p \in pending : p \in pending' <=> ~ Answered(p)
      /\ \A p \in pending : ~ Answered(p) => answers[p.channel] \notin Nat
      /\ \A p \in pending : Answered(p) => answers[p.channel] \in Nat \cup {Closed}
  BY PolledRigs
<1>2. \A t \in DOMAIN tabs :
        \/ tabs'[t].rig = NoRig
        \/ tabs'[t].rig = tabs[t].rig /\ \A q \in pending : q.tab = t => ~ Answered(q)
        \/ \E p \in pending : /\ p.tab = t /\ Answered(p) /\ answers[p.channel] \in Nat
                              /\ tabs'[t].rig = answers[p.channel]
  BY PolledRigs
<1>3. /\ answers' = answers /\ mgr' = mgr /\ owed' = owed /\ rigs' = rigs
      /\ maker' = maker /\ hasty' = hasty /\ spawned' = spawned /\ manQ' = manQ
  BY DEF PollPendingCreates, mgrVars
<1>4. \A i : (Known(i)' <=> Known(i)) /\ (Removed(i)' <=> Removed(i))
  BY <1>3 DEF Known, IsRig, Removed, InFlight
<1>5. OnePlace'
  <2>1. ASSUME NEW t \in DOMAIN tabs, NEW u \in DOMAIN tabs, tabs'[t].rig = tabs'[u].rig,
               tabs'[t].rig # NoRig
        PROVE  t = u
    BY <2>1, <1>2 DEF OnePlace
  <2>2. ASSUME NEW t \in DOMAIN tabs, NEW p \in pending', tabs'[t].rig = answers[p.channel]
        PROVE  tabs'[t].rig = NoRig
    BY <2>2, <1>1, <1>2 DEF OnePlace
  <2>3. ASSUME NEW t \in DOMAIN tabs, mgr = "answering" PROVE tabs'[t].rig # owed.id
    BY <2>3, <1>2, RigsAreNumbers DEF OnePlace, PlacesAreRigs
  <2> QED
    BY <2>1, <2>2, <2>3, <1>1, <1>3 DEF OnePlace
<1>6. PlacesAreRigs'
  <2>1. ASSUME NEW t \in DOMAIN tabs, tabs'[t].rig # NoRig PROVE Known(tabs'[t].rig)
    BY <2>1, <1>2 DEF PlacesAreRigs
  <2> QED
    BY <2>1, <1>1, <1>3, <1>4 DEF PlacesAreRigs
<1>7. HasteKnown'
  <2>1. ASSUME NEW p \in pending', p.tab \in DOMAIN tabs, tabs'[p.tab].rig # NoRig
        PROVE  maker[tabs'[p.tab].rig] \in hasty
    <3>1. p \in pending /\ ~ Answered(p)
      BY <1>1
    <3>2. CASE tabs'[p.tab].rig = tabs[p.tab].rig
      BY <2>1, <3>1, <3>2 DEF HasteKnown
    <3>3. CASE \E q \in pending : /\ q.tab = p.tab /\ Answered(q) /\ answers[q.channel] \in Nat
                                  /\ tabs'[p.tab].rig = answers[q.channel]
      BY <3>1, <3>3 DEF HasteKnown, PlacesAreRigs
    <3> QED
      BY <2>1, <3>2, <3>3, <1>2
  <2> QED
    BY <2>1, <1>1, <1>3 DEF HasteKnown
<1>8. RigsPlaced'
  <2> SUFFICES ASSUME mgr # "gone", NEW i \in DOMAIN rigs, maker[i] \notin hasty, ~ Removed(i),
                      ~ (mgr = "answering" /\ owed.id = i)
               PROVE  \E t \in DOMAIN tabs : tabs'[t].rig = i
    BY <1>1, <1>3, <1>4 DEF RigsPlaced
  <2>0. i \in Nat /\ i # NoRig
    BY AnswersAssumption DEF AppTypeOK
  <2>1. CASE \E t \in DOMAIN tabs : tabs[t].rig = i
    <3>1. PICK t \in DOMAIN tabs : tabs[t].rig = i
      BY <2>1
    <3>2. \A q \in pending : q.tab # t
      BY <3>1, <2>0 DEF HasteKnown
    <3>3. tabs'[t] = tabs[t]
      BY <3>2, PolledRigs
    <3> QED
      BY <3>1, <3>3
  <2>2. CASE \E p \in pending : answers[p.channel] = i
    <3>1. PICK p \in pending : answers[p.channel] = i
      BY <2>2
    <3>2. maker[i] = p.channel /\ Answered(p)
      BY <3>1, <2>0, <1>1 DEF PlacesAreRigs
    <3>3. p.tab \in DOMAIN tabs /\ \A q \in pending : q.tab = p.tab => q = p
      BY <3>2 DEF HasteKnown
    <3>4. PICK q \in pending : /\ q.tab = p.tab /\ Answered(q)
                               /\ \/ tabs'[p.tab].rig = NoRig /\ answers[q.channel] = Closed
                                  \/ tabs'[p.tab].rig = answers[q.channel]
      BY <3>2, <3>3, PolledRigs
    <3>5. q = p /\ answers[p.channel] # Closed
      BY <3>1, <3>3, <3>4, <2>0, AnswersAssumption
    <3> QED
      BY <3>1, <3>3, <3>4, <3>5
  <2> QED
    BY <2>1, <2>2 DEF RigsPlaced
<1> QED
  BY <1>5, <1>6, <1>7, <1>8

\* Receiving statuses moves no id.
LEMMA DrainTabs ==
  ASSUME AppTypeOK, TabsConsistent, DrainMessages
  PROVE  TabsConsistent' /\ DOMAIN tabs' = DOMAIN tabs
         /\ \A t \in DOMAIN tabs : tabs'[t] = Tab(tabs[t].rig, tabs'[t].status, tabs[t].config)
<1>1. ASSUME NEW t \in DOMAIN tabs
      PROVE  Updated(t) = Tab(tabs[t].rig, Updated(t).status, tabs[t].config)
  BY DEF Updated, AppTypeOK, Tab
<1>2. DOMAIN tabs' = DOMAIN tabs /\ \A t \in DOMAIN tabs : tabs'[t] = Updated(t)
  BY DEF DrainMessages
<1>3. \A t \in DOMAIN tabs : tabs'[t] = Tab(tabs[t].rig, tabs'[t].status, tabs[t].config)
  BY <1>1, <1>2
<1>4. \A t \in DOMAIN tabs : tabs'[t].rig = tabs[t].rig
  BY <1>3, TabFields
<1>5. \A i : Removed(i)' <=> Removed(i)
  BY DEF Removed, InFlight, DrainMessages
<1>6. TabsConsistent'
  BY <1>2, <1>4, <1>5, TabsKept DEF DrainMessages, mgrVars
<1> QED
  BY <1>2, <1>3, <1>6

\* The form writes the configuration of a tab only.
LEMMA EditTabs ==
  ASSUME AppTypeOK, TabsConsistent, NEW t \in DOMAIN tabs, NEW c \in Configs, EditConfig(t, c)
  PROVE  TabsConsistent' /\ DOMAIN tabs' = DOMAIN tabs
         /\ \A u \in DOMAIN tabs : tabs'[u] = Tab(tabs[u].rig, tabs[u].status, tabs'[u].config)
<1>1. DOMAIN tabs' = DOMAIN tabs
  BY DEF EditConfig
<1>2. ASSUME NEW u \in DOMAIN tabs
      PROVE  tabs'[u] = Tab(tabs[u].rig, tabs[u].status, tabs'[u].config)
  <2>1. tabs[u] = Tab(tabs[u].rig, tabs[u].status, tabs[u].config)
    BY DEF AppTypeOK
  <2>2. CASE u = t
    <3>1. tabs'[u] = [tabs[u] EXCEPT !.config = c]
      BY <2>2 DEF EditConfig
    <3> QED
      BY <2>1, <3>1 DEF Tab
  <2>3. CASE u # t
    BY <2>1, <2>3 DEF EditConfig
  <2> QED
    BY <2>2, <2>3
<1>3. \A u \in DOMAIN tabs : tabs'[u].rig = tabs[u].rig
  BY <1>2, TabFields
<1>4. \A i : Removed(i)' <=> Removed(i)
  BY DEF Removed, InFlight, EditConfig
<1>5. TabsConsistent'
  BY <1>1, <1>3, <1>4, TabsKept DEF EditConfig, mgrVars, history
<1> QED
  BY <1>1, <1>2, <1>5

\* OK on the tab of a rig moves no id.
LEMMA ConfirmUpdateTabs ==
  ASSUME TabsConsistent, NEW t \in DOMAIN tabs, ConfirmUpdate(t)
  PROVE  TabsConsistent'
<1>1. \A i : Removed(i)' <=> Removed(i)
  BY DEF Removed, InFlight, ConfirmUpdate, Command
<1> QED
  BY <1>1, TabsKept DEF ConfirmUpdate, mgrVars

\* OK on a draft adds a press that waits for its answer.
LEMMA ConfirmDraftTabs ==
  ASSUME AppTypeOK, TabsConsistent, CreationsWait, NEW t \in DOMAIN tabs, ConfirmDraft(t)
  PROVE  TabsConsistent'
<1> USE DEF TabsConsistent
<1> DEFINE new == [tab |-> t, channel |-> gestures + 1]
<1>1. /\ pending' = pending \cup {new} /\ tabs' = tabs /\ answers' = answers /\ mgr' = mgr
      /\ owed' = owed /\ rigs' = rigs /\ maker' = maker /\ hasty \subseteq hasty'
      /\ tabs[t].rig = NoRig
      /\ \A p \in pending : p.tab = t => p.channel \in hasty' /\ new.channel \in hasty'
  BY DEF ConfirmDraft, mgrVars, PendingOf
<1>2. \A i : (Known(i)' <=> Known(i)) /\ (Removed(i)' <=> Removed(i))
  BY DEF Known, IsRig, Removed, InFlight, ConfirmDraft, mgrVars, Command
<1>4. answers[new.channel] = Waiting
  <2>1. gestures \in Nat /\ gestures + 1 \in Channels /\ gestures + 1 > gestures
    BY BoundsAssumption DEF ConfirmDraft, Gesture, Channels, AppTypeOK
  <2> QED
    BY <2>1 DEF CreationsWait
<1>5. \A i \in Nat : answers[new.channel] # i
  BY <1>4, AnswersAssumption
<1> HIDE DEF new
<1>6. OnePlace'
  <2>1. \A u \in DOMAIN tabs : tabs[u].rig = answers[new.channel] => tabs[u].rig = NoRig
    BY <1>5, RigsAreNumbers DEF PlacesAreRigs
  <2>2. mgr = "answering" => answers[new.channel] # owed.id
    BY <1>5, RigsAreNumbers DEF PlacesAreRigs
  <2>3. answers[new.channel] \notin Nat
    BY <1>5
  <2> QED
    BY <1>1, <2>1, <2>2, <2>3 DEF OnePlace
<1>7. PlacesAreRigs'
  BY <1>1, <1>2, <1>5 DEF PlacesAreRigs
<1>8. HasteKnown'
  <2>1. new.tab = t
    BY DEF new
  <2>2. ASSUME NEW p \in pending', NEW q \in pending', p.tab = q.tab
        PROVE  p = q \/ p.channel \in hasty'
    BY <2>1, <2>2, <1>1 DEF HasteKnown
  <2>3. \A p \in pending' : p.tab \in DOMAIN tabs \/ p.channel \in hasty'
    BY <2>1, <1>1 DEF HasteKnown
  <2>4. \A p \in pending' : p.tab \in DOMAIN tabs /\ tabs[p.tab].rig # NoRig =>
          maker[tabs[p.tab].rig] \in hasty'
    BY <2>1, <1>1 DEF HasteKnown
  <2> QED
    BY <2>2, <2>3, <2>4, <1>1 DEF HasteKnown
<1>9. RigsPlaced'
  BY <1>1, <1>2 DEF RigsPlaced
<1> QED
  BY <1>6, <1>7, <1>8, <1>9

\* A tab that is closed takes its rig with it: the command to remove it is on its way.
LEMMA CloseTabs ==
  ASSUME AppTypeOK, TabsConsistent, NEW t \in DOMAIN tabs, CloseTab(t)
  PROVE  TabsConsistent'
<1> USE DEF TabsConsistent
<1>1. /\ DOMAIN tabs' = DOMAIN tabs \ {t} /\ \A u \in DOMAIN tabs' : tabs'[u] = tabs[u]
      /\ pending' = pending /\ answers' = answers /\ mgr' = mgr /\ owed' = owed
      /\ rigs' = rigs /\ maker' = maker /\ hasty \subseteq hasty'
      /\ \A p \in pending : p.tab = t => p.channel \in hasty'
  BY DEF CloseTab, mgrVars, PendingOf
<1>2. \A i : Removed(i)' <=> Removed(i) \/ (i = tabs[t].rig /\ i # NoRig)
  <2>1. CASE tabs[t].rig = NoRig
    BY <2>1 DEF Removed, InFlight, CloseTab
  <2>2. CASE tabs[t].rig # NoRig
    <3>1. spawned' = spawned \cup {Command("remove", tabs[t].rig, DefaultConfig, gestures + 1)}
          /\ manQ' = manQ
      BY <2>2 DEF CloseTab
    <3>2. Command("remove", tabs[t].rig, DefaultConfig, gestures + 1).kind = "remove"
          /\ Command("remove", tabs[t].rig, DefaultConfig, gestures + 1).id = tabs[t].rig
      BY DEF Command
    <3> QED
      BY <2>2, <3>1, <3>2 DEF Removed, InFlight
  <2> QED
    BY <2>1, <2>2
<1>3. \A i : Known(i)' <=> Known(i) /\ ~ (i = tabs[t].rig /\ i # NoRig)
  BY <1>1, <1>2 DEF Known, IsRig
<1>4. OnePlace'
  BY <1>1 DEF OnePlace
<1>5. PlacesAreRigs'
  BY <1>1, <1>3 DEF PlacesAreRigs, OnePlace
<1>6. HasteKnown'
  BY <1>1 DEF HasteKnown
<1>7. RigsPlaced'
  <2> SUFFICES ASSUME mgr # "gone", NEW i \in DOMAIN rigs, ~ Removed(i)',
                      maker[i] \notin hasty', ~ (mgr = "answering" /\ owed.id = i),
                      \A p \in pending : answers[p.channel] # i
               PROVE  \E u \in DOMAIN tabs' : tabs'[u].rig = i
    BY <1>1 DEF RigsPlaced
  <2>1. PICK u \in DOMAIN tabs : tabs[u].rig = i
    BY <1>1, <1>2 DEF RigsPlaced
  <2>2. i # NoRig
    BY AnswersAssumption DEF AppTypeOK
  <2>3. u # t
    BY <1>2, <2>1, <2>2
  <2> QED
    BY <1>1, <2>1, <2>3
<1> QED
  BY <1>4, <1>5, <1>6, <1>7

\* A new tab is a draft, by an id no tab has.
LEMMA AddTabs ==
  ASSUME AppTypeOK, TabsConsistent, AddTab
  PROVE  TabsConsistent'
<1> USE DEF TabsConsistent
<1>1. nextTab \notin DOMAIN tabs
  BY DEF AppTypeOK
<1>2. /\ DOMAIN tabs' = DOMAIN tabs \cup {nextTab}
      /\ \A u \in DOMAIN tabs : tabs'[u] = tabs[u]
      /\ tabs'[nextTab].rig = NoRig
      /\ pending' = pending /\ answers' = answers /\ mgr' = mgr /\ owed' = owed
      /\ rigs' = rigs /\ maker' = maker /\ hasty' = hasty
  BY <1>1 DEF AddTab, mgrVars, history, Draft, Tab
<1>3. \A i : (Known(i)' <=> Known(i)) /\ (Removed(i)' <=> Removed(i))
  BY DEF Known, IsRig, Removed, InFlight, AddTab, mgrVars
<1>4. OnePlace'
  <2>1. mgr = "answering" => owed.id # NoRig
    BY RigsAreNumbers DEF PlacesAreRigs
  <2> QED
    BY <1>2, <2>1 DEF OnePlace
<1>5. PlacesAreRigs'
  BY <1>2, <1>3 DEF PlacesAreRigs
<1>6. HasteKnown'
  BY <1>2 DEF HasteKnown
<1>7. RigsPlaced'
  BY <1>2, <1>3 DEF RigsPlaced
<1> QED
  BY <1>4, <1>5, <1>6, <1>7

\* A command that is queued moves no id.
LEMMA SendsTabs ==
  ASSUME TabsConsistent, QueuesAreSequences, NEW t \in spawned, Sends(t)
  PROVE  TabsConsistent'
<1>1. InFlight' = InFlight
  BY SentIsOnItsWay DEF Sends
<1>2. \A i : Removed(i)' <=> Removed(i)
  BY <1>1 DEF Removed
<1> QED
  BY <1>2, TabsKept DEF Sends, guiVars, mgrVars, history

\* The manager is gone, and so nothing need be placed; a channel that is closed is no id.
LEMMA GoneTabs ==
  ASSUME AppTypeOK, TabsConsistent, mgr' = "gone", InFlight' \subseteq InFlight,
         tabs' = tabs, pending' = pending, rigs' = rigs, maker' = maker, hasty' = hasty,
         \A c \in Channels : answers'[c] = answers[c] \/ answers'[c] = Closed
  PROVE  TabsConsistent'
<1> USE DEF TabsConsistent
<1>1. \A i : Known(i) => Known(i)'
  BY DEF Known, IsRig, Removed
<1>2. \A p \in pending : answers'[p.channel] = answers[p.channel] \/ answers'[p.channel] = Closed
  <2>1. \A p \in pending : p.channel \in Channels
    BY BoundsAssumption DEF AppTypeOK, Channels
  <2> QED
    BY <2>1
<1>3. Closed \notin Nat /\ \A t \in DOMAIN tabs : tabs[t].rig = Closed => tabs[t].rig = NoRig
  BY AnswersAssumption, RigsAreNumbers
<1>4. OnePlace'
  BY <1>2, <1>3 DEF OnePlace
<1>5. PlacesAreRigs'
  BY <1>1, <1>2, <1>3 DEF PlacesAreRigs
<1>6. HasteKnown'
  BY DEF HasteKnown
<1> QED
  BY <1>4, <1>5, <1>6 DEF RigsPlaced

\* A command that fails closes the channel of its answer.
LEMMA SendFailsTabs ==
  ASSUME AppTypeOK, TabsConsistent, NEW t \in spawned, SendFails(t)
  PROVE  TabsConsistent'
<1>1. InFlight' \subseteq InFlight /\ mgr' = "gone"
  BY DEF SendFails, InFlight, mgrVars
<1>2. \A c \in Channels : answers'[c] = answers[c] \/ answers'[c] = Closed
  BY DEF SendFails, Close
<1> QED
  BY <1>1, <1>2, GoneTabs DEF SendFails, guiVars, mgrVars, history

\* The manager's end closes the channels of the answers in its queue.
LEMMA ManagerEndsTabs ==
  ASSUME AppTypeOK, TabsConsistent, ManagerEnds
  PROVE  TabsConsistent'
<1>1. InFlight' \subseteq InFlight
  BY DEF ManagerEnds, InFlight
<1>2. \A c \in Channels : answers'[c] = answers[c] \/ answers'[c] = Closed
  BY DEF ManagerEnds, Close
<1> QED
  BY <1>1, <1>2, GoneTabs DEF ManagerEnds, guiVars, mgrVars, history

\* A new rig is with the manager, which owes its id.
LEMMA TakeCreateTabs ==
  ASSUME AppTypeOK, QueuesAreSequences, CommandsConsistent, TabsConsistent, TakeCreate
  PROVE  TabsConsistent'
<1> USE DEF TabsConsistent
<1>1. /\ DOMAIN rigs' = DOMAIN rigs \cup {nextId} /\ mgr = "idle" /\ mgr' = "answering"
      /\ owed'.id = nextId /\ owed'.channel = Head(manQ).channel
      /\ maker'[nextId] = Head(manQ).channel
      /\ \A i \in 0..(nextId - 1) : maker'[i] = maker[i]
      /\ tabs' = tabs /\ pending' = pending /\ answers' = answers /\ hasty' = hasty
  BY DEF TakeCreate, guiVars, AppTypeOK
<1>2. /\ Head(manQ).kind = "create" /\ Head(manQ) \in InFlight /\ InFlight' \subseteq InFlight
      /\ \A t \in InFlight : t = Head(manQ) \/ t \in InFlight'
  <2>1. manQ # <<>> /\ manQ' = Tail(manQ) /\ spawned' = spawned /\ Head(manQ).kind = "create"
    BY DEF TakeCreate
  <2> QED
    BY <2>1, CommandTaken
<1>3. /\ nextId \in Nat /\ \A i : Known(i) => i \in 0..(nextId - 1) /\ i # nextId
      /\ \A t \in DOMAIN tabs : tabs[t].rig # nextId
      /\ \A p \in pending : answers[p.channel] # nextId
  <2>1. nextId \in Nat /\ nextId # NoRig /\ nextId \notin 0..(nextId - 1)
    BY AnswersAssumption DEF AppTypeOK
  <2> QED
    BY <2>1, RigsAreNumbers
<1>4. \A i : Removed(i)' <=> Removed(i)
  BY <1>2 DEF Removed
<1>5. ~ Removed(nextId) /\ DOMAIN rigs \subseteq 0..(nextId - 1)
  <2>1. \A t \in InFlight : t.kind # "create" => t.id \in 0..(nextId - 1)
    BY DEF CommandsConsistent
  <2> QED
    BY <2>1 DEF Removed, AppTypeOK
<1>6. \A i : Known(i) \/ i = nextId => Known(i)'
  BY <1>1, <1>4, <1>5 DEF Known, IsRig
<1>7. OnePlace'
  BY <1>1, <1>3 DEF OnePlace
<1>8. PlacesAreRigs'
  <2>1. \A i : i = owed'.id => Known(i)' /\ maker'[i] = owed'.channel
    BY <1>1, <1>6
  <2>2. \A t \in DOMAIN tabs : \A i : i = tabs[t].rig /\ i # NoRig => Known(i)'
    BY <1>6 DEF PlacesAreRigs
  <2>3. \A p \in pending : \A i : i = answers[p.channel] /\ i \in Nat =>
          Known(i)' /\ maker'[i] = p.channel
    BY <1>1, <1>3, <1>6 DEF PlacesAreRigs
  <2> QED
    BY <2>1, <2>2, <2>3, <1>1 DEF PlacesAreRigs
<1>9. HasteKnown'
  <2>1. \A p \in pending : p.tab \in DOMAIN tabs /\ tabs[p.tab].rig # NoRig =>
          maker'[tabs[p.tab].rig] \in hasty
    BY <1>1, <1>3 DEF HasteKnown, PlacesAreRigs
  <2> QED
    BY <2>1, <1>1 DEF HasteKnown
<1>10. RigsPlaced'
  BY <1>1, <1>4, <1>5 DEF RigsPlaced
<1> QED
  BY <1>7, <1>8, <1>9, <1>10

\* The id of a new rig goes to the press that waits for it.
LEMMA SendAnswerTabs ==
  ASSUME AppTypeOK, CreationsWait, TabsConsistent, SendAnswer
  PROVE  TabsConsistent'
<1> USE DEF TabsConsistent
<1>1. /\ mgr = "answering" /\ mgr' = "idle" /\ rigs' = rigs /\ maker' = maker
      /\ tabs' = tabs /\ pending' = pending /\ hasty' = hasty
      /\ answers' = [answers EXCEPT ![owed.channel] = owed.id]
  BY DEF SendAnswer, guiVars
<1>2. \A i : (Known(i)' <=> Known(i)) /\ (Removed(i)' <=> Removed(i))
  BY DEF Known, IsRig, Removed, InFlight, SendAnswer
<1>3. PICK o \in pending : o.channel = owed.channel
  BY <1>1 DEF CreationsWait
<1>4. /\ answers'[o.channel] = owed.id
      /\ \A p \in pending : p # o => answers'[p.channel] = answers[p.channel]
  <2>1. \A p \in pending : p.channel \in Channels
    BY BoundsAssumption DEF AppTypeOK, Channels
  <2>2. DOMAIN answers = Channels
    BY DEF AppTypeOK
  <2>3. \A p \in pending : p # o => p.channel # owed.channel
    BY <1>3 DEF CreationsWait
  <2> QED
    BY <1>1, <1>3, <2>1, <2>2, <2>3
<1>5. owed.id \in Nat /\ Known(owed.id) /\ maker[owed.id] = owed.channel
  BY <1>1, RigsAreNumbers DEF PlacesAreRigs
<1>6. OnePlace'
  BY <1>1, <1>4 DEF OnePlace
<1>7. PlacesAreRigs'
  <2>1. \A p \in pending : answers'[p.channel] \in Nat =>
          Known(answers'[p.channel]) /\ maker[answers'[p.channel]] = p.channel
    BY <1>3, <1>4, <1>5 DEF PlacesAreRigs
  <2> QED
    BY <2>1, <1>1, <1>2 DEF PlacesAreRigs
<1>8. HasteKnown'
  BY <1>1 DEF HasteKnown
<1>9. RigsPlaced'
  <2> SUFFICES ASSUME NEW i \in DOMAIN rigs, ~ Removed(i), maker[i] \notin hasty,
                      \A t \in DOMAIN tabs : tabs[t].rig # i
               PROVE  \E p \in pending : answers'[p.channel] = i
    BY <1>1, <1>2 DEF RigsPlaced
  <2>1. CASE owed.id = i
    BY <2>1, <1>4
  <2>2. CASE owed.id # i
    <3>1. PICK p \in pending : answers[p.channel] = i
      BY <2>2, <1>1 DEF RigsPlaced
    <3>2. p # o
      <4>1. answers[o.channel] = Waiting /\ i \in Nat /\ Waiting \notin Nat
        BY <1>1, <1>3, AnswersAssumption DEF CreationsWait, AppTypeOK
      <4> QED
        BY <3>1, <4>1
    <3> QED
      BY <3>1, <3>2, <1>4
  <2> QED
    BY <2>1, <2>2
<1> QED
  BY <1>6, <1>7, <1>8, <1>9

\* An update changes no set of rigs.
LEMMA TakeUpdateTabs ==
  ASSUME QueuesAreSequences, CommandsConsistent, TabsConsistent, TakeUpdate
  PROVE  TabsConsistent'
<1>1. /\ Head(manQ).kind = "update" /\ InFlight' \subseteq InFlight
      /\ \A t \in InFlight : t = Head(manQ) \/ t \in InFlight'
  <2>1. manQ # <<>> /\ manQ' = Tail(manQ) /\ spawned' = spawned /\ Head(manQ).kind = "update"
    BY DEF TakeUpdate
  <2> QED
    BY <2>1, CommandTaken
<1>2. \A i : Removed(i)' <=> Removed(i)
  BY <1>1 DEF Removed
<1>3. DOMAIN rigs' = DOMAIN rigs
  BY DEF TakeUpdate
<1> QED
  BY <1>2, <1>3, TabsKept DEF TakeUpdate, guiVars, history

\* A rig that is removed is nowhere: its tab was closed.
LEMMA TakeRemoveTabs ==
  ASSUME QueuesAreSequences, CommandsConsistent, TabsConsistent, TakeRemove
  PROVE  TabsConsistent'
<1> USE DEF TabsConsistent
<1>1. /\ Head(manQ) \in InFlight /\ Head(manQ).kind = "remove" /\ InFlight' \subseteq InFlight
      /\ \A t \in InFlight : t = Head(manQ) \/ t \in InFlight'
  <2>1. manQ # <<>> /\ manQ' = Tail(manQ) /\ spawned' = spawned /\ Head(manQ).kind = "remove"
    BY DEF TakeRemove
  <2> QED
    BY <2>1, CommandTaken
<1>2. /\ DOMAIN rigs' = DOMAIN rigs \ {Head(manQ).id} /\ mgr' = mgr /\ owed' = owed
      /\ tabs' = tabs /\ pending' = pending /\ answers' = answers /\ maker' = maker
      /\ hasty' = hasty
  BY DEF TakeRemove, guiVars, history
<1>3. \A i : Known(i) => Known(i)'
  BY <1>1, <1>2 DEF Known, IsRig, Removed
<1>4. \A i \in DOMAIN rigs' : Removed(i) => Removed(i)'
  BY <1>1, <1>2 DEF Removed
<1>5. OnePlace' /\ HasteKnown'
  BY <1>2 DEF OnePlace, HasteKnown
<1>6. PlacesAreRigs'
  BY <1>2, <1>3 DEF PlacesAreRigs
<1>7. RigsPlaced'
  BY <1>2, <1>4 DEF RigsPlaced
<1> QED
  BY <1>5, <1>6, <1>7

-----------------------------------------------------------------------------
(* The types                                                               *)

\* A press is counted, up to the bound.
LEMMA GestureCounts ==
  ASSUME AppTypeOK, Gesture
  PROVE  /\ gestures \in Nat /\ MaxGestures \in Nat /\ gestures + 1 \in 0..MaxGestures
         /\ gestures + 1 \in 1..(gestures + 1) /\ gestures + 1 \in Channels
         /\ 1..gestures \subseteq 1..(gestures + 1) /\ gestures + 1 \notin 1..gestures
  BY BoundsAssumption DEF AppTypeOK, Gesture, Channels

\* Every step keeps the types.
LEMMA TypesKept ==
  ASSUME AppInv, Next
  PROVE  AppTypeOK'
<1> USE DEF AppInv
<1>0. /\ MaxGestures \in Nat /\ gestures \in Nat /\ nextTab \in Nat /\ nextId \in Nat
      /\ 1..gestures \subseteq Channels
  BY BoundsAssumption DEF AppTypeOK, Channels
<1>1. ASSUME PollPendingCreates PROVE AppTypeOK'
  <2>1. \A t \in DOMAIN tabs' : tabs'[t] = Tab(tabs'[t].rig, tabs'[t].status, tabs'[t].config)
    <3>1. \A t \in DOMAIN tabs :
            tabs'[t] = tabs[t] \/ tabs'[t] = Tab(tabs'[t].rig, "Connecting", tabs[t].config)
      BY <1>1, PolledRigs
    <3>2. DOMAIN tabs' = DOMAIN tabs
      BY <1>1, PolledRigs
    <3> QED
      BY <3>1, <3>2, TabFields DEF AppTypeOK
  <2>2. DOMAIN tabs' = DOMAIN tabs /\ pending' \subseteq pending
    BY <1>1, PolledRigs
  <2> QED
    BY <1>1, <2>1, <2>2 DEF AppTypeOK, PollPendingCreates, mgrVars
<1>2. ASSUME DrainMessages PROVE AppTypeOK'
  <2>1. /\ DOMAIN tabs' = DOMAIN tabs
        /\ \A t \in DOMAIN tabs : tabs'[t] = Tab(tabs[t].rig, tabs'[t].status, tabs[t].config)
    BY <1>2, DrainTabs
  <2>2. \A t \in DOMAIN tabs' : tabs'[t] = Tab(tabs'[t].rig, tabs'[t].status, tabs'[t].config)
    BY <2>1, TabFields
  <2> QED
    BY <1>2, <2>1, <2>2 DEF AppTypeOK, DrainMessages, mgrVars
<1>3. ASSUME NoGesture \/ HideWindow \/ TrayAction PROVE AppTypeOK'
  BY <1>3 DEF AppTypeOK, NoGesture, HideWindow, TrayAction, mgrVars, history
<1>4. ASSUME NEW t \in DOMAIN tabs, NEW c \in Configs, EditConfig(t, c) PROVE AppTypeOK'
  <2>1. /\ DOMAIN tabs' = DOMAIN tabs
        /\ \A u \in DOMAIN tabs : tabs'[u] = Tab(tabs[u].rig, tabs[u].status, tabs'[u].config)
    BY <1>4, EditTabs
  <2>2. \A u \in DOMAIN tabs' : tabs'[u] = Tab(tabs'[u].rig, tabs'[u].status, tabs'[u].config)
    BY <2>1, TabFields
  <2>3. gestures' = gestures + 1 /\ gestures' \in 0..MaxGestures /\ 1..gestures \subseteq 1..gestures'
    BY <1>4, GestureCounts DEF EditConfig
  <2> QED
    BY <1>4, <2>1, <2>2, <2>3 DEF AppTypeOK, EditConfig, mgrVars, history
<1>5. ASSUME NEW t \in DOMAIN tabs, ConfirmUpdate(t) PROVE AppTypeOK'
  <2>1. gestures' = gestures + 1 /\ gestures' \in 0..MaxGestures /\ 1..gestures \subseteq 1..gestures'
    BY <1>5, GestureCounts DEF ConfirmUpdate
  <2>2. DOMAIN chosen' = DOMAIN chosen
    BY <1>5 DEF ConfirmUpdate
  <2> QED
    BY <1>5, <2>1, <2>2 DEF AppTypeOK, ConfirmUpdate, mgrVars
<1>6. ASSUME NEW t \in DOMAIN tabs, ConfirmDraft(t) PROVE AppTypeOK'
  <2>1. /\ gestures' = gestures + 1 /\ gestures' \in 0..MaxGestures
        /\ 1..gestures \subseteq 1..gestures' /\ gestures' \in 1..gestures'
    BY <1>6, GestureCounts DEF ConfirmDraft
  <2>2. pending' = pending \cup {[tab |-> t, channel |-> gestures']} /\ t \in Nat
    BY <1>6, <2>1 DEF ConfirmDraft, AppTypeOK
  <2>3. pending' \subseteq [tab : Nat, channel : 1..gestures']
    BY <2>1, <2>2 DEF AppTypeOK
  <2> QED
    BY <1>6, <2>1, <2>3 DEF AppTypeOK, ConfirmDraft, mgrVars
<1>7. ASSUME NEW t \in DOMAIN tabs, CloseTab(t) PROVE AppTypeOK'
  <2>1. gestures' = gestures + 1 /\ gestures' \in 0..MaxGestures /\ 1..gestures \subseteq 1..gestures'
    BY <1>7, GestureCounts DEF CloseTab
  <2>2. DOMAIN tabs' \subseteq DOMAIN tabs /\ \A u \in DOMAIN tabs' : tabs'[u] = tabs[u]
    BY <1>7 DEF CloseTab
  <2> QED
    BY <1>7, <2>1, <2>2 DEF AppTypeOK, CloseTab, mgrVars
<1>8. ASSUME AddTab PROVE AppTypeOK'
  <2>1. /\ DOMAIN tabs' = DOMAIN tabs \cup {nextTab} /\ nextTab' = nextTab + 1
        /\ \A u \in DOMAIN tabs' : tabs'[u] = Draft \/ (u \in DOMAIN tabs /\ tabs'[u] = tabs[u])
    BY <1>8 DEF AddTab
  <2>2. \A u \in DOMAIN tabs' : tabs'[u] = Tab(tabs'[u].rig, tabs'[u].status, tabs'[u].config)
    BY <2>1, TabFields DEF Draft, AppTypeOK
  <2>3. DOMAIN tabs' \subseteq 0..(nextTab' - 1) /\ nextTab' \in Nat
    BY <2>1, <1>0 DEF AppTypeOK
  <2> QED
    BY <1>8, <2>2, <2>3 DEF AppTypeOK, AddTab, mgrVars, history
<1>9. ASSUME NEW t \in spawned, Sends(t) PROVE AppTypeOK'
  BY <1>9 DEF AppTypeOK, Sends, guiVars, mgrVars, history
<1>10. ASSUME NEW t \in spawned, SendFails(t) PROVE AppTypeOK'
  <2>1. answers' \in [Channels -> Nat \cup {Waiting, Closed}]
    BY <1>10 DEF SendFails, Close, AppTypeOK
  <2> QED
    BY <1>10, <2>1 DEF AppTypeOK, SendFails, guiVars, mgrVars, history
<1>11. ASSUME TakeCreate PROVE AppTypeOK'
  <2>1. /\ nextId' = nextId + 1 /\ DOMAIN rigs' = DOMAIN rigs \cup {nextId}
        /\ DOMAIN announced' = 0..nextId /\ DOMAIN chosen' = 0..nextId /\ DOMAIN maker' = 0..nextId
        /\ mgr' = "answering" /\ owed'.channel = Head(manQ).channel
    BY <1>11 DEF TakeCreate
  <2>2. Head(manQ).channel \in 1..gestures
    <3>1. Head(manQ) \in InFlight
      BY <1>11, CommandTaken DEF TakeCreate
    <3> QED
      BY <3>1 DEF CommandsConsistent
  <2>3. /\ nextId' \in Nat /\ 0..(nextId' - 1) = 0..nextId /\ DOMAIN rigs' \subseteq 0..(nextId' - 1)
    BY <2>1, <1>0 DEF AppTypeOK
  <2> QED
    BY <1>11, <2>1, <2>2, <2>3 DEF AppTypeOK, TakeCreate, guiVars
<1>12. ASSUME SendAnswer PROVE AppTypeOK'
  <2>1. owed.id \in Nat
    BY <1>12, RigsAreNumbers DEF SendAnswer, TabsConsistent, PlacesAreRigs
  <2>2. answers' \in [Channels -> Nat \cup {Waiting, Closed}]
    BY <1>12, <2>1 DEF SendAnswer, AppTypeOK
  <2> QED
    BY <1>12, <2>2 DEF AppTypeOK, SendAnswer, guiVars
<1>13. ASSUME TakeUpdate \/ TakeRemove PROVE AppTypeOK'
  <2>1. DOMAIN rigs' \subseteq DOMAIN rigs
    BY <1>13 DEF TakeUpdate, TakeRemove
  <2> QED
    BY <1>13, <2>1 DEF AppTypeOK, TakeUpdate, TakeRemove, guiVars, history
<1>14. ASSUME ManagerEnds PROVE AppTypeOK'
  <2>1. answers' \in [Channels -> Nat \cup {Waiting, Closed}]
    BY <1>14 DEF ManagerEnds, Close, AppTypeOK
  <2> QED
    BY <1>14, <2>1 DEF AppTypeOK, ManagerEnds, guiVars, history
<1>15. ASSUME NEW i \in DOMAIN announced, NEW s \in Statuses, Announce(i, s) PROVE AppTypeOK'
  <2>1. DOMAIN announced' = DOMAIN announced
    BY <1>15 DEF Announce
  <2> QED
    BY <1>15, <2>1 DEF AppTypeOK, Announce, guiVars, mgrVars
<1>16. ASSUME NEW k \in {"ports", "values"}, Others(k) PROVE AppTypeOK'
  BY <1>16 DEF AppTypeOK, Others, guiVars, mgrVars
<1> QED
  BY <1>1, <1>2, <1>3, <1>4, <1>5, <1>6, <1>7, <1>8, <1>9, <1>10, <1>11, <1>12, <1>13,
     <1>14, <1>15, <1>16 DEF Next, User, Frame, TakeCommand

-----------------------------------------------------------------------------
(* The commands and the creations                                          *)

\* What is said of the commands, and of the creations among them
CommandsOnTheWay ==
  manQ \in Seq({manQ[k] : k \in 1..Len(manQ)}) /\ CommandsConsistent /\ CreationsWait

\* A step that sends and takes nothing
LEMMA CommandsKept ==
  ASSUME CommandsOnTheWay, spawned' = spawned, manQ' = manQ, mgr' = mgr, owed' = owed,
         nextId' = nextId, pending' = pending, answers' = answers, gestures \in Nat,
         gestures' = gestures \/ gestures' = gestures + 1
  PROVE  CommandsOnTheWay'
<1>1. InFlight' = InFlight
  BY DEF InFlight
<1>2. \A c \in 1..gestures : c \in 1..gestures'
  OBVIOUS
<1>3. \A c \in Channels : c > gestures' => c > gestures
  BY DEF Channels
<1>4. CommandsConsistent'
  BY <1>1, <1>2 DEF CommandsOnTheWay, CommandsConsistent
<1>5. CreationsWait'
  BY <1>1, <1>3 DEF CommandsOnTheWay, CreationsWait
<1> QED
  BY <1>4, <1>5 DEF CommandsOnTheWay

\* A press sends a command of its own, by a channel no other has.
LEMMA CommandSpawned ==
  ASSUME AppTypeOK, CommandsOnTheWay, Gesture, gestures' = gestures + 1, NEW u,
         u.channel = gestures + 1, u.kind \in {"create", "update", "remove"},
         u.kind # "create" => u.id \in 0..(nextId - 1),
         u.kind = "create" => \E p \in pending' : p.channel = gestures + 1,
         spawned' = spawned \cup {u}, manQ' = manQ, mgr' = mgr, owed' = owed,
         nextId' = nextId, answers' = answers, pending \subseteq pending',
         \A p \in pending' : p \in pending \/ p.channel = gestures + 1,
         \A p, q \in pending' : p.channel = q.channel => p = q
  PROVE  CommandsOnTheWay'
<1>1. InFlight' = InFlight \cup {u}
  BY DEF InFlight
<1>2. /\ gestures + 1 \in 1..gestures' /\ gestures + 1 \in Channels /\ gestures \in Nat
      /\ \A c \in 1..gestures : c \in 1..gestures' /\ c # gestures + 1
  BY GestureCounts
<1>3. \A c \in Channels : c > gestures' => c > gestures
  BY <1>2 DEF Channels
<1>4. \A t \in InFlight : t.channel \in 1..gestures
  BY DEF CommandsOnTheWay, CommandsConsistent
<1>5. \A t \in InFlight : t.channel # gestures + 1
  BY <1>2, <1>4
<1>6. (\A t \in spawned : t.channel # u.channel) /\ \A k \in 1..Len(manQ) : manQ[k].channel # u.channel
  BY <1>5 DEF InFlight
<1>7. mgr = "answering" => u.channel # owed.channel
  BY <1>2 DEF AppTypeOK
<1>8. CommandsConsistent'
  <2>1. \A t \in InFlight' : /\ t.channel \in 1..gestures'
                             /\ t.kind \in {"create", "update", "remove"}
                             /\ t.kind # "create" => t.id \in 0..(nextId - 1)
    BY <1>1, <1>2 DEF CommandsOnTheWay, CommandsConsistent
  <2>2. \A t, v \in spawned' : t.channel = v.channel => t = v
    BY <1>6 DEF CommandsOnTheWay, CommandsConsistent
  <2>3. \A t \in spawned', k \in 1..Len(manQ) : t.channel # manQ[k].channel
    BY <1>6 DEF CommandsOnTheWay, CommandsConsistent
  <2>4. mgr = "answering" => \A t \in InFlight' : t.channel # owed.channel
    BY <1>1, <1>7 DEF CommandsOnTheWay, CommandsConsistent
  <2> QED
    BY <2>1, <2>2, <2>3, <2>4 DEF CommandsOnTheWay, CommandsConsistent
<1>9. CreationsWait'
  <2>1. answers[gestures + 1] = Waiting
    <3>1. gestures + 1 > gestures
      BY <1>2
    <3> QED
      BY <1>2, <3>1 DEF CommandsOnTheWay, CreationsWait
  <2>2. \A t \in InFlight' : t.kind = "create" =>
          answers[t.channel] = Waiting /\ \E p \in pending' : p.channel = t.channel
    BY <1>1, <2>1 DEF CommandsOnTheWay, CreationsWait
  <2> QED
    BY <2>2, <1>3 DEF CommandsOnTheWay, CreationsWait
<1> QED
  BY <1>8, <1>9 DEF CommandsOnTheWay

\* A poll leaves pending what has no answer, and so every creation on its way.
LEMMA PollCommands ==
  ASSUME CommandsOnTheWay, PollPendingCreates
  PROVE  CommandsOnTheWay'
<1>1. /\ spawned' = spawned /\ manQ' = manQ /\ mgr' = mgr /\ owed' = owed /\ nextId' = nextId
      /\ answers' = answers /\ gestures' = gestures
      /\ pending' = {p \in pending : answers[p.channel] = Waiting}
  BY DEF PollPendingCreates, mgrVars, Answered
<1>2. InFlight' = InFlight
  BY <1>1 DEF InFlight
<1>3. CommandsConsistent'
  BY <1>1, <1>2 DEF CommandsOnTheWay, CommandsConsistent
<1>4. CreationsWait'
  BY <1>1, <1>2 DEF CommandsOnTheWay, CreationsWait
<1> QED
  BY <1>1, <1>3, <1>4 DEF CommandsOnTheWay

\* OK on the tab of a rig sends an update of a rig there is.
LEMMA ConfirmUpdateCommands ==
  ASSUME AppTypeOK, CommandsOnTheWay, PlacesAreRigs, NEW t \in DOMAIN tabs, ConfirmUpdate(t)
  PROVE  CommandsOnTheWay'
<1> DEFINE u == Command("update", tabs[t].rig, Drawn(tabs[t].config), gestures + 1)
<1>1. spawned' = spawned \cup {u} /\ tabs[t].rig # NoRig /\ Gesture /\ gestures' = gestures + 1
  BY DEF ConfirmUpdate
<1>2. /\ u.channel = gestures + 1 /\ u.kind \in {"create", "update", "remove"}
      /\ u.kind # "create" /\ u.id = tabs[t].rig
  BY DEF Command
<1>3. u.id \in 0..(nextId - 1)
  BY <1>1, <1>2, RigsAreNumbers
<1>4. /\ manQ' = manQ /\ mgr' = mgr /\ owed' = owed /\ nextId' = nextId /\ answers' = answers
      /\ pending' = pending
  BY DEF ConfirmUpdate, mgrVars
<1>5. \A p, q \in pending' : p.channel = q.channel => p = q
  BY <1>4 DEF CommandsOnTheWay, CreationsWait
<1> HIDE DEF u
<1> QED
  BY <1>1, <1>2, <1>3, <1>4, <1>5, CommandSpawned

\* OK on a draft sends a creation, and leaves it pending.
LEMMA ConfirmDraftCommands ==
  ASSUME AppTypeOK, CommandsOnTheWay, NEW t \in DOMAIN tabs, ConfirmDraft(t)
  PROVE  CommandsOnTheWay'
<1> DEFINE u == Command("create", NoRig, Drawn(tabs[t].config), gestures + 1)
           new == [tab |-> t, channel |-> gestures + 1]
<1>1. /\ spawned' = spawned \cup {u} /\ Gesture /\ gestures' = gestures + 1
      /\ pending' = pending \cup {new}
  BY DEF ConfirmDraft
<1>2. u.channel = gestures + 1 /\ u.kind = "create" /\ new.channel = gestures + 1
  BY DEF Command
<1>3. /\ manQ' = manQ /\ mgr' = mgr /\ owed' = owed /\ nextId' = nextId /\ answers' = answers
  BY DEF ConfirmDraft, mgrVars
<1> HIDE DEF u, new
<1>4. \A p \in pending : p.channel # gestures + 1
  <2>1. \A p \in pending : p.channel \in 1..gestures
    BY DEF AppTypeOK
  <2> QED
    BY <1>1, <2>1, GestureCounts
<1>5. \A p, q \in pending' : p.channel = q.channel => p = q
  BY <1>1, <1>2, <1>4 DEF CommandsOnTheWay, CreationsWait
<1> QED
  BY <1>1, <1>2, <1>3, <1>5, CommandSpawned

\* A tab that is closed sends the removal of a rig there is.
LEMMA CloseCommands ==
  ASSUME AppTypeOK, CommandsOnTheWay, PlacesAreRigs, NEW t \in DOMAIN tabs, CloseTab(t)
  PROVE  CommandsOnTheWay'
<1> DEFINE u == Command("remove", tabs[t].rig, DefaultConfig, gestures + 1)
<1>1. /\ Gesture /\ gestures' = gestures + 1
      /\ spawned' = IF tabs[t].rig = NoRig THEN spawned ELSE spawned \cup {u}
  BY DEF CloseTab
<1>2. /\ u.channel = gestures + 1 /\ u.kind \in {"create", "update", "remove"}
      /\ u.kind # "create" /\ u.id = tabs[t].rig
  BY DEF Command
<1>3. /\ manQ' = manQ /\ mgr' = mgr /\ owed' = owed /\ nextId' = nextId /\ answers' = answers
      /\ pending' = pending
  BY DEF CloseTab, mgrVars
<1> HIDE DEF u
<1>4. CASE tabs[t].rig = NoRig
  BY <1>1, <1>3, <1>4, CommandsKept, GestureCounts
<1>5. CASE tabs[t].rig # NoRig
  <2>1. u.id \in 0..(nextId - 1)
    BY <1>2, <1>5, RigsAreNumbers
  <2>2. \A p, q \in pending' : p.channel = q.channel => p = q
    BY <1>3 DEF CommandsOnTheWay, CreationsWait
  <2> QED
    BY <1>1, <1>2, <1>3, <1>5, <2>1, <2>2, CommandSpawned
<1> QED
  BY <1>4, <1>5

\* A command that is queued is no longer with its task.
LEMMA SendsCommands ==
  ASSUME QueuesAreSequences, CommandsOnTheWay, NEW t \in spawned, Sends(t)
  PROVE  CommandsOnTheWay'
<1>1. /\ InFlight' = InFlight /\ Len(manQ) \in Nat /\ Len(manQ') = Len(manQ) + 1
      /\ \A k \in 1..Len(manQ) : manQ'[k] = manQ[k]
      /\ manQ'[Len(manQ) + 1] = t
      /\ manQ' \in Seq({manQ'[k] : k \in 1..Len(manQ')})
  BY SentIsOnItsWay DEF Sends
<1>2. spawned' = spawned \ {t}
  BY DEF Sends
<1>3. /\ pending' = pending /\ answers' = answers /\ mgr' = mgr /\ owed' = owed
      /\ gestures' = gestures /\ nextId' = nextId
  BY DEF Sends, guiVars, mgrVars
<1>4. \A k \in 1..Len(manQ') : k = Len(manQ) + 1 \/ k \in 1..Len(manQ)
  BY <1>1
<1>5. CommandsConsistent'
  <2>1. ASSUME NEW j \in 1..Len(manQ'), NEW k \in 1..Len(manQ'),
               manQ'[j].channel = manQ'[k].channel
        PROVE  j = k
    <3>1. /\ \A m, n \in 1..Len(manQ) : manQ[m].channel = manQ[n].channel => m = n
          /\ \A m \in 1..Len(manQ) : manQ[m].channel # t.channel
      BY DEF CommandsOnTheWay, CommandsConsistent
    <3>2. \A m \in 1..Len(manQ) : manQ'[m].channel = manQ[m].channel
      BY <1>1
    <3>3. manQ'[Len(manQ) + 1].channel = t.channel
      BY <1>1
    <3> QED
      BY <1>4, <2>1, <3>1, <3>2, <3>3
  <2>2. \A v \in spawned' : v.channel # t.channel
    BY <1>2 DEF CommandsOnTheWay, CommandsConsistent
  <2>3. \A v \in spawned', k \in 1..Len(manQ') : v.channel # manQ'[k].channel
    BY SMTT(30), <1>1, <1>2, <1>4, <2>2 DEF CommandsOnTheWay, CommandsConsistent
  <2>4. \A v, w \in spawned' : v.channel = w.channel => v = w
    BY <1>2 DEF CommandsOnTheWay, CommandsConsistent
  <2>5. /\ \A v \in InFlight' : /\ v.channel \in 1..gestures'
                                /\ v.kind \in {"create", "update", "remove"}
                                /\ v.kind # "create" => v.id \in 0..(nextId' - 1)
        /\ mgr' = "answering" => \A v \in InFlight' : v.channel # owed'.channel
    BY <1>1, <1>3 DEF CommandsOnTheWay, CommandsConsistent
  <2> QED
    BY <2>1, <2>3, <2>4, <2>5 DEF CommandsConsistent
<1>6. CreationsWait'
  BY <1>1, <1>3 DEF CommandsOnTheWay, CreationsWait
<1> QED
  BY <1>1, <1>5, <1>6 DEF CommandsOnTheWay

\* A command that fails is in no place any more; the others' channels stay open.
LEMMA SendFailsCommands ==
  ASSUME AppTypeOK, CommandsOnTheWay, NEW t \in spawned, SendFails(t)
  PROVE  CommandsOnTheWay'
<1>1. /\ spawned' = spawned \ {t} /\ manQ' = manQ /\ mgr = "gone" /\ mgr' = mgr /\ owed' = owed
      /\ nextId' = nextId /\ pending' = pending /\ gestures' = gestures
  BY DEF SendFails, guiVars, mgrVars
<1>2. InFlight' \subseteq InFlight
  BY <1>1 DEF InFlight
<1>3. CommandsConsistent'
  BY <1>1, <1>2 DEF CommandsOnTheWay, CommandsConsistent
<1>4. \A v \in InFlight' : v.channel # t.channel
  BY <1>1 DEF InFlight, CommandsOnTheWay, CommandsConsistent
<1>5. \A c \in Channels : c # t.channel => answers'[c] = answers[c]
  BY DEF SendFails, Close
<1>6. \A v \in InFlight : v.channel \in Channels /\ v.channel \in 1..gestures
  <2>1. 1..gestures \subseteq Channels
    BY BoundsAssumption DEF AppTypeOK, Channels
  <2> QED
    BY <2>1 DEF CommandsOnTheWay, CommandsConsistent
<1>7. t \in InFlight /\ \A c \in Channels : c > gestures => c # t.channel
  <2>1. t \in InFlight /\ gestures \in Nat
    BY BoundsAssumption DEF InFlight, AppTypeOK
  <2>2. t.channel \in 1..gestures
    BY <1>6, <2>1
  <2> QED
    BY <2>1, <2>2
<1>8. CreationsWait'
  <2>1. \A c \in Channels : c > gestures => answers'[c] = Waiting
    BY <1>5, <1>7 DEF CommandsOnTheWay, CreationsWait
  <2>2. \A v \in InFlight' : v.kind = "create" =>
          answers'[v.channel] = Waiting /\ \E p \in pending : p.channel = v.channel
    BY <1>2, <1>4, <1>5, <1>6 DEF CommandsOnTheWay, CreationsWait
  <2> QED
    BY <1>1, <2>1, <2>2 DEF CommandsOnTheWay, CreationsWait
<1> QED
  BY <1>1, <1>3, <1>8 DEF CommandsOnTheWay

\* A command that is taken leaves the others as they are.
LEMMA TakenCommands ==
  ASSUME QueuesAreSequences, CommandsOnTheWay, manQ # <<>>, manQ' = Tail(manQ),
         spawned' = spawned, gestures' = gestures, nextId \in Nat,
         nextId' = nextId \/ nextId' = nextId + 1,
         mgr' = "answering" => owed'.channel = Head(manQ).channel
  PROVE  manQ' \in Seq({manQ'[k] : k \in 1..Len(manQ')}) /\ CommandsConsistent'
<1>1. /\ Len(manQ) \in Nat \ {0} /\ Len(manQ') = Len(manQ) - 1
      /\ \A k \in 1..Len(manQ') : manQ'[k] = manQ[k + 1] /\ k + 1 \in 1..Len(manQ)
      /\ manQ' \in Seq({manQ'[k] : k \in 1..Len(manQ')})
      /\ InFlight' \subseteq InFlight
      /\ \A t \in InFlight' : t.channel # Head(manQ).channel
  BY CommandTaken DEF CommandsOnTheWay
<1>2. \A i \in 0..(nextId - 1) : i \in 0..(nextId' - 1)
  OBVIOUS
<1>3. \A t \in InFlight' : /\ t.channel \in 1..gestures
                           /\ t.kind \in {"create", "update", "remove"}
                           /\ t.kind # "create" => t.id \in 0..(nextId' - 1)
  BY <1>1, <1>2 DEF CommandsOnTheWay, CommandsConsistent
<1>4. ASSUME NEW j \in 1..Len(manQ'), NEW k \in 1..Len(manQ'),
             manQ'[j].channel = manQ'[k].channel
      PROVE  j = k
  <2>1. j + 1 = k + 1
    BY <1>1, <1>4 DEF CommandsOnTheWay, CommandsConsistent
  <2> QED
    BY <2>1
<1>5. \A t \in spawned, k \in 1..Len(manQ') : t.channel # manQ'[k].channel
  BY <1>1 DEF CommandsOnTheWay, CommandsConsistent
<1>6. mgr' = "answering" => \A t \in InFlight' : t.channel # owed'.channel
  BY <1>1
<1>7. \A t, u \in spawned : t.channel = u.channel => t = u
  BY DEF CommandsOnTheWay, CommandsConsistent
<1>8. CommandsConsistent'
  BY <1>3, <1>4, <1>5, <1>6, <1>7 DEF CommandsConsistent
<1> QED
  BY <1>1, <1>8

\* A creation that is taken still has no answer.
LEMMA TakeCreateCommands ==
  ASSUME AppTypeOK, QueuesAreSequences, CommandsOnTheWay, TakeCreate
  PROVE  CommandsOnTheWay'
<1>1. /\ manQ # <<>> /\ manQ' = Tail(manQ) /\ spawned' = spawned /\ gestures' = gestures
      /\ nextId' = nextId + 1 /\ nextId \in Nat /\ owed'.channel = Head(manQ).channel
      /\ pending' = pending /\ answers' = answers /\ Head(manQ).kind = "create"
  BY DEF TakeCreate, guiVars, AppTypeOK
<1>2. manQ' \in Seq({manQ'[k] : k \in 1..Len(manQ')}) /\ CommandsConsistent'
  BY <1>1, TakenCommands
<1>3. Head(manQ) \in InFlight /\ InFlight' \subseteq InFlight
  BY <1>1, CommandTaken DEF CommandsOnTheWay
<1>4. CreationsWait'
  BY <1>1, <1>3 DEF CommandsOnTheWay, CreationsWait
<1> QED
  BY <1>2, <1>4 DEF CommandsOnTheWay

\* The creations wait on while another command is taken.
LEMMA TakeOtherCommands ==
  ASSUME AppTypeOK, QueuesAreSequences, CommandsOnTheWay, TakeUpdate \/ TakeRemove
  PROVE  CommandsOnTheWay'
<1>1. /\ manQ # <<>> /\ manQ' = Tail(manQ) /\ spawned' = spawned /\ gestures' = gestures
      /\ nextId' = nextId /\ nextId \in Nat /\ mgr' # "answering" /\ mgr' = mgr
      /\ pending' = pending /\ answers' = answers
  BY DEF TakeUpdate, TakeRemove, guiVars, AppTypeOK, history
<1>2. manQ' \in Seq({manQ'[k] : k \in 1..Len(manQ')}) /\ CommandsConsistent'
  BY <1>1, TakenCommands
<1>3. InFlight' \subseteq InFlight
  BY <1>1, CommandTaken DEF CommandsOnTheWay
<1>4. CreationsWait'
  BY <1>1, <1>3 DEF CommandsOnTheWay, CreationsWait
<1> QED
  BY <1>2, <1>4 DEF CommandsOnTheWay

\* The answer goes by a channel of no command on its way.
LEMMA SendAnswerCommands ==
  ASSUME AppTypeOK, CommandsOnTheWay, SendAnswer
  PROVE  CommandsOnTheWay'
<1>1. /\ spawned' = spawned /\ manQ' = manQ /\ mgr = "answering" /\ mgr' = "idle"
      /\ nextId' = nextId /\ pending' = pending /\ gestures' = gestures
      /\ answers' = [answers EXCEPT ![owed.channel] = owed.id]
  BY DEF SendAnswer, guiVars
<1>2. InFlight' = InFlight
  BY <1>1 DEF InFlight
<1>3. CommandsConsistent'
  BY <1>1, <1>2 DEF CommandsOnTheWay, CommandsConsistent
<1>4. /\ \A c \in Channels : c # owed.channel => answers'[c] = answers[c]
      /\ 1..gestures \subseteq Channels
      /\ \A c \in Channels : c > gestures => c # owed.channel
  <2>1. DOMAIN answers = Channels /\ owed.channel \in 1..gestures /\ gestures \in 0..MaxGestures
    BY <1>1 DEF AppTypeOK
  <2> QED
    BY <1>1, <2>1, BoundsAssumption DEF Channels
<1>5. \A v \in InFlight : v.channel \in Channels /\ v.channel # owed.channel
  BY <1>1, <1>4 DEF CommandsOnTheWay, CommandsConsistent
<1>6. CreationsWait'
  BY <1>1, <1>2, <1>4, <1>5 DEF CommandsOnTheWay, CreationsWait
<1> QED
  BY <1>1, <1>3, <1>6 DEF CommandsOnTheWay

\* The manager's end closes the channels of its queue, none of a task's.
LEMMA ManagerEndsCommands ==
  ASSUME AppTypeOK, QueuesAreSequences, CommandsOnTheWay, ManagerEnds
  PROVE  CommandsOnTheWay'
<1> DEFINE closed == {manQ[k].channel : k \in {j \in 1..Len(manQ) : manQ[j].kind = "create"}}
<1>1. /\ spawned' = spawned /\ manQ' = <<>> /\ Len(manQ') = 0 /\ mgr' = "gone"
      /\ nextId' = nextId /\ pending' = pending /\ gestures' = gestures
      /\ answers' = Close(closed)
  BY DEF ManagerEnds, guiVars
<1>2. closed \subseteq {manQ[k].channel : k \in 1..Len(manQ)}
  OBVIOUS
<1> HIDE DEF closed
<1>3. InFlight' = spawned
  BY <1>1 DEF InFlight
<1>4. manQ' \in Seq({manQ'[k] : k \in 1..Len(manQ')})
  BY <1>1
<1>5. CommandsConsistent'
  BY <1>1, <1>3 DEF CommandsOnTheWay, CommandsConsistent, InFlight
<1>6. \A c \in Channels : c \notin closed => answers'[c] = answers[c]
  BY <1>1 DEF Close
<1>7. /\ \A v \in spawned : v.channel \notin closed
      /\ \A c \in closed : c \in 1..gestures
  <2>1. \A c \in closed : \E k \in 1..Len(manQ) : c = manQ[k].channel /\ manQ[k] \in InFlight
    BY <1>2 DEF InFlight
  <2>2. \A t \in InFlight : t.channel \in 1..gestures
    BY DEF CommandsOnTheWay, CommandsConsistent
  <2>3. \A t \in spawned, k \in 1..Len(manQ) : t.channel # manQ[k].channel
    BY DEF CommandsOnTheWay, CommandsConsistent
  <2> HIDE DEF InFlight
  <2> QED
    BY <2>1, <2>2, <2>3
<1>8. /\ 1..gestures \subseteq Channels
      /\ \A c \in Channels : c > gestures => c \notin closed
  <2>1. gestures \in 0..MaxGestures /\ MaxGestures \in Nat
    BY BoundsAssumption DEF AppTypeOK
  <2> QED
    BY <1>7, <2>1 DEF Channels
<1>9. \A v \in spawned : v.channel \in Channels
  BY <1>8 DEF CommandsOnTheWay, CommandsConsistent, InFlight
<1>10. CreationsWait'
  BY <1>1, <1>3, <1>6, <1>7, <1>8, <1>9 DEF CommandsOnTheWay, CreationsWait, InFlight
<1> QED
  BY <1>4, <1>5, <1>10 DEF CommandsOnTheWay

\* Every step keeps the commands on their way in order.
LEMMA NextCommands ==
  ASSUME AppInv, Next
  PROVE  CommandsOnTheWay'
<1> USE DEF AppInv, TabsConsistent
<1>1. CommandsOnTheWay /\ gestures \in Nat
  BY BoundsAssumption DEF CommandsOnTheWay, QueuesAreSequences, AppTypeOK
<1>2. CASE PollPendingCreates
  BY <1>1, <1>2, PollCommands
<1>3. CASE DrainMessages \/ NoGesture \/ AddTab \/ HideWindow \/ TrayAction
  BY <1>1, <1>3, CommandsKept
     DEF DrainMessages, NoGesture, AddTab, HideWindow, TrayAction, mgrVars
<1>4. ASSUME NEW t \in DOMAIN tabs, ConfirmUpdate(t) PROVE CommandsOnTheWay'
  BY <1>1, <1>4, ConfirmUpdateCommands
<1>5. ASSUME NEW t \in DOMAIN tabs, ConfirmDraft(t) PROVE CommandsOnTheWay'
  BY <1>1, <1>5, ConfirmDraftCommands
<1>6. ASSUME NEW t \in DOMAIN tabs, CloseTab(t) PROVE CommandsOnTheWay'
  BY <1>1, <1>6, CloseCommands
<1>7. ASSUME NEW t \in DOMAIN tabs, NEW c \in Configs, EditConfig(t, c) PROVE CommandsOnTheWay'
  BY <1>1, <1>7, CommandsKept DEF EditConfig, mgrVars
<1>8. CASE TakeCreate
  BY <1>1, <1>8, TakeCreateCommands
<1>9. CASE TakeUpdate \/ TakeRemove
  BY <1>1, <1>9, TakeOtherCommands
<1>10. CASE SendAnswer
  BY <1>1, <1>10, SendAnswerCommands
<1>11. CASE ManagerEnds
  BY <1>1, <1>11, ManagerEndsCommands
<1>12. ASSUME NEW t \in spawned, Sends(t) PROVE CommandsOnTheWay'
  BY <1>1, <1>12, SendsCommands
<1>13. ASSUME NEW t \in spawned, SendFails(t) PROVE CommandsOnTheWay'
  BY <1>1, <1>13, SendFailsCommands
<1>14. ASSUME NEW i \in DOMAIN announced, NEW s \in Statuses, Announce(i, s)
       PROVE  CommandsOnTheWay'
  BY <1>1, <1>14, CommandsKept DEF Announce, guiVars, mgrVars
<1>15. ASSUME NEW k \in {"ports", "values"}, Others(k) PROVE CommandsOnTheWay'
  BY <1>1, <1>15, CommandsKept DEF Others, guiVars, mgrVars
<1> QED
  BY <1>2, <1>3, <1>4, <1>5, <1>6, <1>7, <1>8, <1>9, <1>10, <1>11, <1>12, <1>13, <1>14, <1>15
     DEF Next, User, Frame, TakeCommand

-----------------------------------------------------------------------------
(* The statuses                                                            *)

\* What a message that is broadcast leaves of the others: the oldest is gone when
\* the broadcast was full.
LEMMA Published ==
  ASSUME QueuesAreSequences, NEW m, Publish(m)
  PROVE  \E d \in {0, 1} :
           /\ d = 1 <=> Len(bus) = BusCap
           /\ Len(bus) \in Nat /\ d <= Len(bus) /\ Len(bus') = Len(bus) - d + 1
           /\ \A k \in 1..(Len(bus) - d) : bus'[k] = bus[k + d]
           /\ bus'[Len(bus')] = m
           /\ bus' \in Seq({bus'[k] : k \in 1..Len(bus')})
<1>1. bus \in Seq({bus[k] : k \in 1..Len(bus)}) /\ BusCap \in Nat \ {0}
  BY BoundsAssumption DEF QueuesAreSequences
<1>2. Len(bus) \in Nat
  BY <1>1
<1>3. bus' = Append(IF Len(bus) = BusCap THEN Tail(bus) ELSE bus, m)
  BY DEF Publish
<1>4. CASE Len(bus) = BusCap
  <2>1. bus # <<>>
    BY <1>1, <1>4
  <2>2. /\ Len(Tail(bus)) = Len(bus) - 1
        /\ \A k \in 1..Len(Tail(bus)) : Tail(bus)[k] = bus[k + 1]
        /\ Tail(bus) \in Seq({Tail(bus)[k] : k \in 1..Len(Tail(bus))})
    BY <1>1, <2>1, TailPlaces
  <2> DEFINE s == Tail(bus)
  <2>3. bus' = Append(s, m)
    BY <1>3, <1>4
  <2>4. /\ s \in Seq({s[k] : k \in 1..Len(s)}) /\ Len(s) = Len(bus) - 1
        /\ \A k \in 1..Len(s) : s[k] = bus[k + 1]
    BY <2>2
  <2> HIDE DEF s
  <2>5. /\ Len(bus') = Len(s) + 1 /\ \A k \in 1..Len(s) : bus'[k] = s[k]
        /\ bus'[Len(s) + 1] = m
        /\ bus' \in Seq({bus'[k] : k \in 1..Len(bus')})
    BY <2>3, <2>4, AppendPlaces
  <2>6. 1 <= Len(bus) /\ Len(bus') = Len(bus) - 1 + 1
    BY <1>1, <1>4, <2>4, <2>5
  <2>7. \A k \in 1..(Len(bus) - 1) : bus'[k] = bus[k + 1]
    BY <2>4, <2>5
  <2>8. bus'[Len(bus')] = m
    BY <2>5
  <2> QED
    BY <1>2, <1>4, <2>5, <2>6, <2>7, <2>8
<1>5. CASE Len(bus) # BusCap
  <2>1. bus' = Append(bus, m)
    BY <1>3, <1>5
  <2>2. /\ Len(bus') = Len(bus) + 1 /\ \A k \in 1..Len(bus) : bus'[k] = bus[k]
        /\ bus'[Len(bus) + 1] = m
        /\ bus' \in Seq({bus'[k] : k \in 1..Len(bus')})
    BY <1>1, <2>1, AppendPlaces
  <2>3. 0 <= Len(bus) /\ Len(bus') = Len(bus) - 0 + 1 /\ bus'[Len(bus')] = m
    BY <1>2, <2>2
  <2>4. \A k \in 1..(Len(bus) - 0) : bus'[k] = bus[k + 0]
    BY <1>2, <2>2
  <2> QED
    BY <1>2, <1>5, <2>2, <2>3, <2>4
<1> QED
  BY <1>4, <1>5

\* The statuses of a rig that are on their way after it
LEMMA PublishedStatuses ==
  ASSUME QueuesAreSequences, NEW m, Publish(m)
  PROVE  /\ bus' \in Seq({bus'[k] : k \in 1..Len(bus')})
         /\ \A i \in DOMAIN announced : Told(i) # {} => Told(i)' # {} \/ i \in Overwritten
         /\ \A i : m.kind = "status" /\ m.id = i => Told(i)' # {}
         /\ \A k \in 1..Len(bus') : \A i :
              bus'[k].kind = "status" /\ bus'[k].id = i /\ (\A j \in Told(i)' : j <= k) =>
                \/ bus'[k] = m
                \/ /\ ~ (m.kind = "status" /\ m.id = i)
                   /\ \E n \in 1..Len(bus) : bus[n] = bus'[k] /\ \A j \in Told(i) : j <= n
         /\ \A k \in 1..Len(bus') : bus'[k] = m \/ \E n \in 1..Len(bus) : bus[n] = bus'[k]
<1>1. PICK d \in {0, 1} :
           /\ d = 1 <=> Len(bus) = BusCap
           /\ Len(bus) \in Nat /\ d <= Len(bus) /\ Len(bus') = Len(bus) - d + 1
           /\ \A k \in 1..(Len(bus) - d) : bus'[k] = bus[k + d]
           /\ bus'[Len(bus')] = m
           /\ bus' \in Seq({bus'[k] : k \in 1..Len(bus')})
  BY Published
<1>2. \A k \in 1..Len(bus') : k = Len(bus') \/ k \in 1..(Len(bus) - d)
  BY <1>1
<1>3. \A k \in 1..(Len(bus) - d) : k \in 1..Len(bus') /\ k + d \in 1..Len(bus) /\ bus'[k] = bus[k + d]
  BY <1>1
<1>4. Len(bus') \in 1..Len(bus') /\ bus'[Len(bus')] = m
  BY <1>1
<1>5. \A i, k : k \in Told(i)' <=> k \in 1..Len(bus') /\ bus'[k].kind = "status" /\ bus'[k].id = i
  BY DEF Told
<1>6. \A i, k : k \in Told(i) <=> k \in 1..Len(bus) /\ bus[k].kind = "status" /\ bus[k].id = i
  BY DEF Told
<1>7. ASSUME NEW i \in DOMAIN announced, Told(i) # {}, Told(i)' = {} PROVE i \in Overwritten
  <2>1. \A k \in Told(i) : k \in 1..Len(bus) /\ k \notin (1 + d)..Len(bus)
    <3> SUFFICES ASSUME NEW k \in Told(i), k \in (1 + d)..Len(bus) PROVE FALSE
      BY <1>6
    <3>1. k - d \in 1..(Len(bus) - d) /\ (k - d) + d = k
      BY <1>1
    <3>2. bus'[k - d] = bus[k] /\ k - d \in 1..Len(bus')
      BY <1>3, <3>1
    <3>3. k - d \in Told(i)'
      BY <1>5, <1>6, <3>2
    <3> QED
      BY <1>7, <3>3
  <2>2. d = 1 /\ \A k \in Told(i) : k = 1
    BY <1>1, <1>7, <2>1
  <2>3. Len(bus) = BusCap /\ Told(i) = {1}
    BY <1>1, <1>7, <2>2
  <2> QED
    BY <2>3 DEF Overwritten
<1>8. ASSUME NEW i, m.kind = "status", m.id = i PROVE Told(i)' # {}
  BY <1>4, <1>5, <1>8
<1>9. ASSUME NEW k \in 1..Len(bus'), NEW i, bus'[k].kind = "status", bus'[k].id = i,
             \A j \in Told(i)' : j <= k, bus'[k] # m
      PROVE  /\ ~ (m.kind = "status" /\ m.id = i)
             /\ \E n \in 1..Len(bus) : bus[n] = bus'[k] /\ \A j \in Told(i) : j <= n
  <2>1. k \in 1..(Len(bus) - d)
    BY <1>2, <1>4, <1>9
  <2>2. k + d \in 1..Len(bus) /\ bus[k + d] = bus'[k]
    BY <1>3, <2>1
  <2>3. ~ (m.kind = "status" /\ m.id = i)
    <3> SUFFICES ASSUME m.kind = "status" /\ m.id = i PROVE FALSE
      OBVIOUS
    <3>1. Len(bus') \in Told(i)'
      BY <1>4, <1>5
    <3> QED
      BY <1>1, <1>9, <2>1, <3>1
  <2>4. ASSUME NEW j \in Told(i) PROVE j <= k + d
    <3>1. j \in 1..Len(bus)
      BY <1>6
    <3>2. CASE j \in (1 + d)..Len(bus)
      <4>1. j - d \in 1..(Len(bus) - d) /\ (j - d) + d = j
        BY <1>1, <3>2
      <4>2. bus'[j - d] = bus[j] /\ j - d \in 1..Len(bus')
        BY <1>3, <4>1
      <4>3. j - d \in Told(i)'
        BY <1>5, <1>6, <4>2
      <4>4. j - d <= k
        BY <1>9, <4>3
      <4> QED
        BY <1>1, <3>1, <4>4
    <3>3. CASE j \notin (1 + d)..Len(bus)
      BY <1>1, <3>1, <3>3
    <3> QED
      BY <3>2, <3>3
  <2> QED
    BY <2>2, <2>3, <2>4
<1>10. ASSUME NEW k \in 1..Len(bus'), bus'[k] # m PROVE \E n \in 1..Len(bus) : bus[n] = bus'[k]
  BY <1>2, <1>3, <1>4, <1>10
<1> QED
  BY <1>1, <1>7, <1>8, <1>9, <1>10

\* A step that says nothing of a status, moves no id and takes no message
LEMMA StatusKept ==
  ASSUME StatusConsistent, bus' = bus, missed' = missed, announced' = announced,
         mgr' = "answering" => mgr = "answering", owed' = owed, recent' = recent,
         frame' = "polled" => frame = "polled",
         \A t \in DOMAIN tabs' :
           \/ tabs'[t].rig = NoRig
           \/ /\ t \in DOMAIN tabs /\ tabs'[t].rig = tabs[t].rig
              /\ tabs'[t].status = tabs[t].status,
         \A p \in pending' :
           \/ answers'[p.channel] \notin Nat
           \/ p \in pending /\ answers'[p.channel] = answers[p.channel]
  PROVE  StatusConsistent'
<1>1. \A i : Told(i)' = Told(i)
  BY DEF Told
<1>2. NewestAnnounced'
  BY <1>1 DEF StatusConsistent, NewestAnnounced
<1>3. StatusesFollow'
  BY <1>1 DEF StatusConsistent, StatusesFollow
<1>4. RecentAnswers'
  BY DEF StatusConsistent, RecentAnswers
<1> QED
  BY <1>2, <1>3, <1>4 DEF StatusConsistent

\* The tab of a new rig says Connecting, which the rig announced, or a status is on its way.
LEMMA PollStatus ==
  ASSUME AppTypeOK, TabsConsistent, StatusConsistent, PollPendingCreates
  PROVE  StatusConsistent'
<1>1. /\ bus' = bus /\ missed' = missed /\ announced' = announced /\ mgr' = mgr
      /\ owed' = owed /\ answers' = answers
  BY DEF PollPendingCreates, mgrVars
<1>2. \A i : Told(i)' = Told(i)
  BY <1>1 DEF Told
<1>3. NewestAnnounced'
  BY <1>1, <1>2 DEF StatusConsistent, NewestAnnounced
<1>4. pending' \subseteq pending /\ \A p \in pending' : answers[p.channel] \notin Nat
  BY PolledRigs
<1>5. ASSUME NEW t \in DOMAIN tabs, tabs'[t].rig # NoRig
      PROVE  \/ Told(tabs'[t].rig) # {} \/ tabs'[t].rig \in missed
             \/ tabs'[t].status = announced[tabs'[t].rig]
  <2>1. CASE tabs'[t] = tabs[t]
    BY <1>5, <2>1 DEF StatusConsistent, StatusesFollow
  <2>2. CASE \E p \in pending :
               /\ tabs'[t] = Tab(tabs'[t].rig, "Connecting", tabs[t].config)
               /\ tabs'[t].rig = answers[p.channel] /\ answers[p.channel] \in Nat
    <3>1. tabs'[t].status = "Connecting"
      BY <2>2, TabFields
    <3> QED
      BY <2>2, <3>1 DEF StatusConsistent, StatusesFollow
  <2> QED
    BY <1>5, <2>1, <2>2, PolledRigs
<1>6. StatusesFollow'
  <2>1. DOMAIN tabs' = DOMAIN tabs
    BY PolledRigs
  <2> QED
    BY <1>1, <1>2, <1>4, <1>5, <2>1 DEF StatusConsistent, StatusesFollow
<1>7. RecentAnswers'
  BY <1>1, <1>4 DEF RecentAnswers
<1> QED
  BY <1>3, <1>6, <1>7 DEF StatusConsistent

\* What the window has received of a rig that has a tab: its last status
LEMMA ReceivedStatus ==
  ASSUME AppTypeOK, QueuesAreSequences, TabsConsistent, StatusConsistent, DrainMessages,
         NEW t \in DOMAIN tabs, tabs[t].rig # NoRig
  PROVE  tabs[t].rig \in missed \/ tabs'[t].status = announced[tabs[t].rig]
<1> DEFINE i == tabs[t].rig
<1>1. tabs'[t] = Updated(t)
  BY DEF DrainMessages
<1>2. CASE Told(i) = {}
  BY <1>1, <1>2 DEF Updated, StatusConsistent, StatusesFollow
<1>3. CASE Told(i) # {}
  <2>1. ~ \E u \in TabsOf(i) : u < t
    <3>1. t \in Nat /\ ~ (t < t)
      BY DEF AppTypeOK
    <3>2. \A u \in TabsOf(i) : u = t
      BY DEF TabsOf, TabsConsistent, OnePlace
    <3> QED
      BY <3>1, <3>2
  <2>2. tabs'[t] = [tabs[t] EXCEPT !.status = bus[Greatest(Told(i))].status]
    BY <1>1, <1>3, <2>1 DEF Updated
  <2>3. tabs[t] = Tab(tabs[t].rig, tabs[t].status, tabs[t].config)
    BY DEF AppTypeOK
  <2>4. tabs'[t].status = bus[Greatest(Told(i))].status
    BY <2>2, <2>3 DEF Tab
  <2>5. Len(bus) \in Nat /\ Told(i) \in SUBSET Nat /\ \A k \in Told(i) : k <= Len(bus)
    <3>1. bus \in Seq({bus[k] : k \in 1..Len(bus)})
      BY DEF QueuesAreSequences
    <3>2. Len(bus) \in Nat
      BY <3>1
    <3> QED
      BY <3>2 DEF Told
  <2>6. Greatest(Told(i)) \in Told(i) /\ \A k \in Told(i) : k <= Greatest(Told(i))
    BY <1>3, <2>5, GreatestOne
  <2>7. bus[Greatest(Told(i))].status = announced[i]
    <3> DEFINE g == Greatest(Told(i))
    <3>1. g \in 1..Len(bus) /\ bus[g].kind = "status" /\ bus[g].id = i
      BY <2>6 DEF Told
    <3> QED
      BY <2>6, <3>1 DEF StatusConsistent, NewestAnnounced
  <2> QED
    BY <2>4, <2>7
<1> QED
  BY <1>2, <1>3

\* A status that finds no tab is of a rig whose id came too late: it is known to be missed.
LEMMA DrainStatus ==
  ASSUME AppTypeOK, QueuesAreSequences, TabsConsistent, StatusConsistent, DrainMessages
  PROVE  StatusConsistent'
<1>1. /\ bus' = <<>> /\ missed' = missed \cup TooEarly /\ announced' = announced /\ mgr' = mgr
      /\ owed' = owed /\ answers' = answers /\ pending' = pending
      /\ frame = "polled" /\ frame' = "drawing"
  BY DEF DrainMessages, mgrVars
<1>2. Len(bus') = 0
  BY <1>1
<1>3. NewestAnnounced'
  BY <1>2 DEF NewestAnnounced
<1>4. StatusesFollow'
  <2>1. ASSUME NEW t \in DOMAIN tabs, tabs'[t].rig # NoRig
        PROVE  tabs'[t].rig \in missed' \/ tabs'[t].status = announced[tabs'[t].rig]
    <3>1. tabs'[t].rig = tabs[t].rig
      BY DrainTabs, TabFields
    <3>2. tabs[t].rig \in missed \/ tabs'[t].status = announced[tabs[t].rig]
      BY <2>1, <3>1, ReceivedStatus
    <3> QED
      BY <1>1, <3>1, <3>2
  <2>2. DOMAIN tabs' = DOMAIN tabs
    BY DrainTabs
  <2>3. ASSUME NEW p \in pending, answers[p.channel] \in Nat
        PROVE  \/ answers[p.channel] \in missed' \/ announced[answers[p.channel]] = "Connecting"
    <3>1. answers[p.channel] \in recent
      BY <1>1, <2>3 DEF StatusConsistent, RecentAnswers
    <3>2. Told(answers[p.channel]) # {} => answers[p.channel] \in TooEarly
      BY <3>1 DEF TooEarly
    <3> QED
      BY <1>1, <2>3, <3>2 DEF StatusConsistent, StatusesFollow
  <2>4. mgr = "answering" => owed.id \in missed' \/ announced[owed.id] = "Connecting"
    <3>1. Told(owed.id) # {} => owed.id \in TooEarly
      BY DEF TooEarly
    <3> QED
      BY <1>1, <3>1 DEF StatusConsistent, StatusesFollow
  <2> QED
    BY <1>1, <2>1, <2>2, <2>3, <2>4 DEF StatusesFollow
<1>5. RecentAnswers'
  BY <1>1 DEF RecentAnswers
<1> QED
  BY <1>3, <1>4, <1>5 DEF StatusConsistent

\* What a message that is broadcast leaves of the statuses
LEMMA PublishStatus ==
  ASSUME AppTypeOK, QueuesAreSequences, TabsConsistent, StatusConsistent, NEW m, Publish(m),
         tabs' = tabs, pending' = pending, answers' = answers, mgr' = mgr, owed' = owed,
         frame' = frame, recent' = recent, DOMAIN announced' = DOMAIN announced,
         \A i \in DOMAIN announced :
           \/ m.kind = "status" /\ m.id = i
           \/ announced'[i] = announced[i] /\ (i \in missed \cup Overwritten => i \in missed'),
         m.kind = "status" => m.id \in DOMAIN announced /\ announced'[m.id] = m.status
  PROVE  StatusConsistent' /\ bus' \in Seq({bus'[k] : k \in 1..Len(bus')})
<1>1. /\ bus' \in Seq({bus'[k] : k \in 1..Len(bus')})
      /\ \A i \in DOMAIN announced : Told(i) # {} => Told(i)' # {} \/ i \in Overwritten
      /\ \A i : m.kind = "status" /\ m.id = i => Told(i)' # {}
      /\ \A k \in 1..Len(bus') : \A i :
           bus'[k].kind = "status" /\ bus'[k].id = i /\ (\A j \in Told(i)' : j <= k) =>
             \/ bus'[k] = m
             \/ /\ ~ (m.kind = "status" /\ m.id = i)
                /\ \E n \in 1..Len(bus) : bus[n] = bus'[k] /\ \A j \in Told(i) : j <= n
      /\ \A k \in 1..Len(bus') : bus'[k] = m \/ \E n \in 1..Len(bus) : bus[n] = bus'[k]
  BY PublishedStatuses
<1>2. NewestAnnounced'
  <2> SUFFICES ASSUME NEW k \in 1..Len(bus'), bus'[k].kind = "status"
               PROVE  /\ bus'[k].id \in DOMAIN announced'
                      /\ \A i : i = bus'[k].id /\ (\A j \in Told(i)' : j <= k) =>
                           bus'[k].status = announced'[i]
    BY DEF NewestAnnounced
  <2>1. bus'[k].id \in DOMAIN announced
    BY SMTT(30), <1>1 DEF StatusConsistent, NewestAnnounced
  <2>2. ASSUME NEW i, i = bus'[k].id, \A j \in Told(i)' : j <= k
        PROVE  bus'[k].status = announced'[i]
    <3>1. CASE bus'[k] = m
      BY <2>2, <3>1
    <3>2. CASE bus'[k] # m
      <4>1. PICK n \in 1..Len(bus) : bus[n] = bus'[k] /\ \A j \in Told(i) : j <= n
        BY <1>1, <2>2, <3>2
      <4>2. bus[n].status = announced[i]
        BY <2>2, <4>1 DEF StatusConsistent, NewestAnnounced
      <4>3. announced'[i] = announced[i]
        BY <1>1, <2>1, <2>2, <3>2
      <4> QED
        BY <4>1, <4>2, <4>3
    <3> QED
      BY <3>1, <3>2
  <2> QED
    BY <2>1, <2>2
<1>3. \A i \in DOMAIN announced :
        /\ Told(i) # {} \/ i \in missed => Told(i)' # {} \/ i \in missed'
        /\ announced'[i] # announced[i] => Told(i)' # {}
  BY <1>1
<1>4. /\ \A t \in DOMAIN tabs : tabs[t].rig # NoRig => tabs[t].rig \in DOMAIN announced
      /\ \A p \in pending : answers[p.channel] \in Nat => answers[p.channel] \in DOMAIN announced
      /\ mgr = "answering" => owed.id \in DOMAIN announced
  BY RigsAreNumbers DEF AppTypeOK, TabsConsistent, PlacesAreRigs
<1>5. StatusesFollow'
  <2>1. ASSUME NEW t \in DOMAIN tabs, NEW i, i = tabs[t].rig, i # NoRig
        PROVE  Told(i)' # {} \/ i \in missed' \/ tabs[t].status = announced'[i]
    BY <1>3, <1>4, <2>1 DEF StatusConsistent, StatusesFollow
  <2>2. ASSUME NEW p \in pending, NEW i, i = answers[p.channel], i \in Nat
        PROVE  Told(i)' # {} \/ i \in missed' \/ announced'[i] = "Connecting"
    BY <1>3, <1>4, <2>2 DEF StatusConsistent, StatusesFollow
  <2>3. ASSUME mgr = "answering", NEW i, i = owed.id
        PROVE  Told(i)' # {} \/ i \in missed' \/ announced'[i] = "Connecting"
    BY <1>3, <1>4, <2>3 DEF StatusConsistent, StatusesFollow
  <2> QED
    BY <2>1, <2>2, <2>3 DEF StatusesFollow
<1>6. RecentAnswers'
  BY DEF StatusConsistent, RecentAnswers
<1> QED
  BY <1>1, <1>2, <1>5, <1>6 DEF StatusConsistent

\* A new rig is Connecting, and nothing of it is on its way.
LEMMA TakeCreateStatus ==
  ASSUME AppTypeOK, TabsConsistent, StatusConsistent, TakeCreate
  PROVE  StatusConsistent'
<1>1. /\ bus' = bus /\ missed' = missed /\ tabs' = tabs /\ pending' = pending
      /\ answers' = answers /\ frame' = frame /\ recent' = recent /\ owed'.id = nextId
      /\ announced'[nextId] = "Connecting" /\ DOMAIN announced' = 0..nextId
      /\ \A i \in 0..(nextId - 1) : announced'[i] = announced[i]
  BY DEF TakeCreate, guiVars, AppTypeOK
<1>2. /\ DOMAIN announced = 0..(nextId - 1)
      /\ \A i \in 0..(nextId - 1) : i \in 0..nextId
  BY DEF AppTypeOK
<1>3. \A i : Told(i)' = Told(i)
  BY <1>1 DEF Told
<1>4. NewestAnnounced'
  BY <1>1, <1>2, <1>3 DEF StatusConsistent, NewestAnnounced
<1>5. /\ \A t \in DOMAIN tabs : tabs[t].rig # NoRig => tabs[t].rig \in 0..(nextId - 1)
      /\ \A p \in pending : answers[p.channel] \in Nat => answers[p.channel] \in 0..(nextId - 1)
  BY RigsAreNumbers DEF TabsConsistent
<1>6. StatusesFollow'
  BY <1>1, <1>3, <1>5 DEF StatusConsistent, StatusesFollow
<1>7. RecentAnswers'
  BY <1>1 DEF StatusConsistent, RecentAnswers
<1> QED
  BY <1>4, <1>6, <1>7 DEF StatusConsistent

\* The id of a new rig is recent until the next poll.
LEMMA SendAnswerStatus ==
  ASSUME AppTypeOK, StatusConsistent, SendAnswer
  PROVE  StatusConsistent'
<1>1. /\ bus' = bus /\ missed' = missed /\ tabs' = tabs /\ pending' = pending
      /\ announced' = announced /\ frame' = frame /\ recent' = recent \cup {owed.id}
      /\ answers' = [answers EXCEPT ![owed.channel] = owed.id]
      /\ mgr = "answering" /\ mgr' = "idle"
  BY DEF SendAnswer, guiVars
<1>2. \A i : Told(i)' = Told(i)
  BY <1>1 DEF Told
<1>3. NewestAnnounced'
  BY <1>1, <1>2 DEF StatusConsistent, NewestAnnounced
<1>4. \A p \in pending : answers'[p.channel] = answers[p.channel] \/ answers'[p.channel] = owed.id
  BY <1>1 DEF AppTypeOK
<1>5. StatusesFollow'
  BY <1>1, <1>2, <1>4 DEF StatusConsistent, StatusesFollow
<1>6. RecentAnswers'
  BY <1>1, <1>4 DEF StatusConsistent, RecentAnswers
<1> QED
  BY <1>3, <1>5, <1>6 DEF StatusConsistent

\* Every step keeps the statuses on their way in order.
LEMMA NextStatus ==
  ASSUME AppInv, Next
  PROVE  StatusConsistent' /\ bus' \in Seq({bus'[k] : k \in 1..Len(bus')})
<1> USE DEF AppInv
<1> DEFINE Goal == StatusConsistent' /\ bus' \in Seq({bus'[k] : k \in 1..Len(bus')})
<1>0. bus \in Seq({bus[k] : k \in 1..Len(bus)})
  BY DEF QueuesAreSequences
<1>1. CASE PollPendingCreates
  BY <1>0, <1>1, PollStatus DEF PollPendingCreates
<1>2. CASE DrainMessages
  <2>1. bus' = <<>>
    BY <1>2 DEF DrainMessages
  <2> QED
    BY <1>2, <2>1, DrainStatus
<1>3. CASE NoGesture \/ HideWindow \/ TrayAction
  BY <1>0, <1>3, StatusKept DEF NoGesture, HideWindow, TrayAction, mgrVars, history
<1>4. ASSUME NEW t \in DOMAIN tabs, ConfirmUpdate(t) PROVE Goal
  BY <1>0, <1>4, StatusKept DEF ConfirmUpdate, Gesture, mgrVars
<1>5. ASSUME NEW t \in DOMAIN tabs, ConfirmDraft(t) PROVE Goal
  <2>1. /\ pending' = pending \cup {[tab |-> t, channel |-> gestures + 1]}
        /\ answers' = answers
    BY <1>5 DEF ConfirmDraft
  <2>2. answers[gestures + 1] = Waiting
    <3>1. gestures + 1 \in Channels /\ gestures + 1 > gestures
      BY <1>5, GestureCounts DEF ConfirmDraft
    <3> QED
      BY <3>1 DEF CreationsWait
  <2>3. \A p \in pending' : answers'[p.channel] \notin Nat \/ p \in pending
    BY <2>1, <2>2, AnswersAssumption
  <2> QED
    BY <1>0, <1>5, <2>1, <2>3, StatusKept DEF ConfirmDraft, Gesture, mgrVars
<1>6. ASSUME NEW t \in DOMAIN tabs, CloseTab(t) PROVE Goal
  BY <1>0, <1>6, StatusKept DEF CloseTab, Gesture, mgrVars
<1>7. ASSUME NEW t \in DOMAIN tabs, NEW c \in Configs, EditConfig(t, c) PROVE Goal
  <2>1. /\ DOMAIN tabs' = DOMAIN tabs
        /\ \A u \in DOMAIN tabs : tabs'[u].rig = tabs[u].rig /\ tabs'[u].status = tabs[u].status
    BY <1>7, EditTabs, TabFields
  <2> QED
    BY <1>0, <1>7, <2>1, StatusKept DEF EditConfig, Gesture, mgrVars, history
<1>8. CASE AddTab
  <2>1. \A t \in DOMAIN tabs' :
          tabs'[t].rig = NoRig \/ (t \in DOMAIN tabs /\ tabs'[t] = tabs[t])
    BY <1>8, TabFields DEF AddTab, Draft
  <2> QED
    BY <1>0, <1>8, <2>1, StatusKept DEF AddTab, Gesture, mgrVars, history
<1>9. CASE TakeCreate
  BY <1>0, <1>9, TakeCreateStatus DEF TakeCreate
<1>10. CASE TakeUpdate \/ TakeRemove
  BY <1>0, <1>10, StatusKept DEF TakeUpdate, TakeRemove, guiVars, history
<1>11. CASE SendAnswer
  BY <1>0, <1>11, SendAnswerStatus DEF SendAnswer
<1>12. ASSUME \A c \in Channels : answers'[c] = answers[c] \/ answers'[c] = Closed,
              pending' = pending
       PROVE  \A p \in pending' : \/ answers'[p.channel] \notin Nat
                                  \/ p \in pending /\ answers'[p.channel] = answers[p.channel]
  <2>1. \A p \in pending : p.channel \in Channels
    BY BoundsAssumption DEF AppTypeOK, Channels
  <2> QED
    BY <1>12, <2>1, AnswersAssumption
<1>13. CASE ManagerEnds
  <2>1. \A c \in Channels : answers'[c] = answers[c] \/ answers'[c] = Closed
    BY <1>13 DEF ManagerEnds, Close
  <2> QED
    BY <1>0, <1>12, <1>13, <2>1, StatusKept DEF ManagerEnds, guiVars, history
<1>14. ASSUME NEW t \in spawned, Sends(t) PROVE Goal
  BY <1>0, <1>14, StatusKept DEF Sends, guiVars, mgrVars, history
<1>15. ASSUME NEW t \in spawned, SendFails(t) PROVE Goal
  <2>1. \A c \in Channels : answers'[c] = answers[c] \/ answers'[c] = Closed
    BY <1>15 DEF SendFails, Close
  <2> QED
    BY <1>0, <1>12, <1>15, <2>1, StatusKept DEF SendFails, guiVars, mgrVars, history
<1>16. ASSUME NEW i \in DOMAIN announced, NEW s \in Statuses, Announce(i, s) PROVE Goal
  <2> DEFINE m == [kind |-> "status", id |-> i, status |-> s]
  <2>1. Publish(m) /\ m.kind = "status" /\ m.id = i /\ m.status = s
    BY <1>16 DEF Announce
  <2>2. announced' = [announced EXCEPT ![i] = s] /\ missed' = (missed \cup Overwritten) \ {i}
    BY <1>16 DEF Announce
  <2> HIDE DEF m
  <2>3. /\ DOMAIN announced' = DOMAIN announced
        /\ \A j \in DOMAIN announced :
             \/ m.kind = "status" /\ m.id = j
             \/ announced'[j] = announced[j] /\ (j \in missed \cup Overwritten => j \in missed')
        /\ m.kind = "status" => m.id \in DOMAIN announced /\ announced'[m.id] = m.status
    BY <2>1, <2>2
  <2>4. /\ tabs' = tabs /\ pending' = pending /\ answers' = answers /\ mgr' = mgr
        /\ owed' = owed /\ frame' = frame /\ recent' = recent
    BY <1>16 DEF Announce, guiVars, mgrVars
  <2> QED
    BY <2>1, <2>3, <2>4, PublishStatus
<1>17. ASSUME NEW k \in {"ports", "values"}, Others(k) PROVE Goal
  <2> DEFINE m == [kind |-> k]
  <2>1. Publish(m) /\ m.kind # "status"
    BY <1>17 DEF Others
  <2> HIDE DEF m
  <2>2. /\ tabs' = tabs /\ pending' = pending /\ answers' = answers /\ mgr' = mgr
        /\ owed' = owed /\ frame' = frame /\ recent' = recent /\ announced' = announced
        /\ missed' = missed \cup Overwritten
    BY <1>17 DEF Others, guiVars, mgrVars
  <2> QED
    BY <2>1, <2>2, PublishStatus
<1> QED
  BY <1>1, <1>2, <1>3, <1>4, <1>5, <1>6, <1>7, <1>8, <1>9, <1>10, <1>11, <1>13, <1>14, <1>15,
     <1>16, <1>17 DEF Next, User, Frame, TakeCommand

-----------------------------------------------------------------------------
(* The updates                                                             *)

\* A step that neither sends, queues nor takes an update
LEMMA UpdatesKept ==
  ASSUME LastUpdate, \A i : ToSend(i)' = ToSend(i), manQ' = manQ, rigs' = rigs,
         chosen' = chosen, crossed' = crossed, mgr # "gone"
  PROVE  LastUpdate'
<1>1. \A i : Queued(i)' = Queued(i)
  BY DEF Queued
<1> QED
  BY <1>1 DEF LastUpdate

\* What is left of the updates of a rig once a command is taken
LEMMA UpdateTaken ==
  ASSUME QueuesAreSequences, CommandsConsistent, LastUpdate, mgr # "gone", manQ # <<>>,
         manQ' = Tail(manQ), spawned' = spawned, NEW i \in DOMAIN rigs \ crossed
  PROVE  /\ ToSend(i)' = ToSend(i)
         /\ ToSend(i) = {} => \A k \in Queued(i)' :
              (\A j \in Queued(i)' : j <= k) => manQ'[k].config = chosen[i]
         /\ ToSend(i) = {} /\ Queued(i)' = {} =>
              IF Head(manQ).kind = "update" /\ Head(manQ).id = i
              THEN Head(manQ).config = chosen[i] ELSE rigs[i] = chosen[i]
<1>1. /\ Len(manQ) \in Nat \ {0} /\ Head(manQ) = manQ[1] /\ Len(manQ') = Len(manQ) - 1
      /\ \A k \in 1..Len(manQ') : manQ'[k] = manQ[k + 1] /\ k + 1 \in 1..Len(manQ)
  BY CommandTaken
<1>2. ToSend(i)' = ToSend(i)
  BY DEF ToSend
<1>3. \A k : k \in Queued(i)' <=>
        k \in 1..Len(manQ') /\ manQ'[k].kind = "update" /\ manQ'[k].id = i
  BY DEF Queued
<1>4. \A k : k \in Queued(i) <=>
        k \in 1..Len(manQ) /\ manQ[k].kind = "update" /\ manQ[k].id = i
  BY DEF Queued
<1>5. \A k \in Queued(i) : k = 1 \/ (k - 1 \in Queued(i)' /\ k \in Nat)
  <2>1. ASSUME NEW k \in Queued(i), k # 1 PROVE k - 1 \in Queued(i)' /\ k \in Nat
    <3>1. k \in 1..Len(manQ) /\ k - 1 \in 1..Len(manQ') /\ (k - 1) + 1 = k
      BY <1>1, <1>4, <2>1
    <3>2. manQ'[k - 1] = manQ[k]
      BY <1>1, <3>1
    <3> QED
      BY <1>3, <1>4, <3>1, <3>2
  <2> QED
    BY <2>1
<1>6. /\ ToSend(i) = {} =>
           \A k \in Queued(i) : (\A j \in Queued(i) : j <= k) => manQ[k].config = chosen[i]
      /\ ToSend(i) = {} /\ Queued(i) = {} => rigs[i] = chosen[i]
  BY DEF LastUpdate
<1>7. ASSUME ToSend(i) = {}, NEW k \in Queued(i)', \A j \in Queued(i)' : j <= k
      PROVE  manQ'[k].config = chosen[i]
  <2>1. k \in 1..Len(manQ') /\ k + 1 \in Queued(i) /\ manQ'[k] = manQ[k + 1]
    BY <1>1, <1>3, <1>4
  <2>2. ASSUME NEW j \in Queued(i) PROVE j <= k + 1
    <3>1. CASE j = 1
      BY <2>1, <3>1, <1>1
    <3>2. CASE j # 1
      <4>1. j - 1 <= k /\ j \in Nat
        BY <1>5, <1>7, <3>2
      <4> QED
        BY <4>1, <2>1, <1>1
    <3> QED
      BY <3>1, <3>2
  <2> QED
    BY <1>6, <1>7, <2>1, <2>2
<1>8. ASSUME ToSend(i) = {}, Queued(i)' = {}
      PROVE  IF Head(manQ).kind = "update" /\ Head(manQ).id = i
             THEN Head(manQ).config = chosen[i] ELSE rigs[i] = chosen[i]
  <2>1. \A k \in Queued(i) : k = 1
    BY <1>5, <1>8
  <2>2. 1 \in Queued(i) <=> Head(manQ).kind = "update" /\ Head(manQ).id = i
    BY <1>1, <1>4
  <2>3. CASE 1 \in Queued(i)
    <3>1. \A j \in Queued(i) : j <= 1
      BY <2>1
    <3> QED
      BY <1>1, <1>6, <1>8, <2>2, <2>3, <3>1
  <2>4. CASE 1 \notin Queued(i)
    BY <1>6, <1>8, <2>1, <2>2, <2>4
  <2> QED
    BY <2>3, <2>4
<1> QED
  BY <1>2, <1>7, <1>8

\* The update of an OK is the only one of its rig to send, or it crosses another.
LEMMA ConfirmUpdateUpdates ==
  ASSUME AppTypeOK, TabsConsistent, LastUpdate, NEW t \in DOMAIN tabs, ConfirmUpdate(t)
  PROVE  LastUpdate'
<1> DEFINE rig == tabs[t].rig
           u == Command("update", rig, Drawn(tabs[t].config), gestures + 1)
<1>1. /\ spawned' = spawned \cup {u} /\ rig # NoRig
      /\ chosen' = [chosen EXCEPT ![rig] = Drawn(tabs[t].config)]
      /\ crossed' = IF \E v \in spawned : v.kind = "update" /\ v.id = rig
                    THEN crossed \cup {rig} ELSE crossed \ {rig}
      /\ manQ' = manQ /\ rigs' = rigs /\ mgr' = mgr
  BY DEF ConfirmUpdate, mgrVars
<1>2. u.kind = "update" /\ u.id = rig /\ u.config = Drawn(tabs[t].config)
  BY DEF Command
<1>3. rig \in DOMAIN chosen
  BY <1>1, RigsAreNumbers DEF TabsConsistent, AppTypeOK
<1> HIDE DEF u, rig
<1>4. \A i : Queued(i)' = Queued(i)
  BY <1>1 DEF Queued
<1>5. \A i : i # rig => ToSend(i)' = ToSend(i)
  BY <1>1, <1>2 DEF ToSend
<1>6. ToSend(rig) = {} => \A i : i = rig => ToSend(i)' = {u}
  BY <1>1, <1>2 DEF ToSend
<1>7. rig \notin crossed' => ToSend(rig) = {}
  BY <1>1 DEF ToSend
<1>8. chosen'[rig] = u.config /\ \A i : i # rig => chosen'[i] = chosen[i]
  BY <1>1, <1>2, <1>3
<1>9. \A i : i # rig => (i \in crossed' <=> i \in crossed)
  BY <1>1
<1>10. ASSUME mgr # "gone", NEW i \in DOMAIN rigs \ crossed'
       PROVE  /\ \A v, w \in ToSend(i)' : v = w
              /\ \A v \in ToSend(i)' : v.config = chosen'[i]
              /\ ToSend(i)' = {} =>
                   \A k \in Queued(i) : (\A j \in Queued(i) : j <= k) => manQ[k].config = chosen'[i]
              /\ ToSend(i)' = {} /\ Queued(i) = {} => rigs[i] = chosen'[i]
  <2>1. CASE i = rig
    <3>1. ToSend(i)' = {u} /\ chosen'[i] = u.config
      BY <1>6, <1>7, <1>8, <1>10, <2>1
    <3> QED
      BY <3>1
  <2>2. CASE i # rig
    <3>1. ToSend(i)' = ToSend(i) /\ chosen'[i] = chosen[i] /\ i \notin crossed
      BY <1>5, <1>8, <1>9, <1>10, <2>2
    <3> QED
      BY <1>10, <3>1 DEF LastUpdate
  <2> QED
    BY <2>1, <2>2
<1> QED
  BY <1>1, <1>4, <1>10 DEF LastUpdate

\* The only update of a rig to send becomes the last one in the queue.
LEMMA SendsUpdates ==
  ASSUME QueuesAreSequences, LastUpdate, NEW t \in spawned, Sends(t)
  PROVE  LastUpdate'
<1>1. /\ Len(manQ) \in Nat /\ Len(manQ') = Len(manQ) + 1
      /\ \A k \in 1..Len(manQ) : manQ'[k] = manQ[k]
      /\ manQ'[Len(manQ) + 1] = t
  BY SentIsOnItsWay DEF Sends
<1>2. /\ spawned' = spawned \ {t} /\ mgr # "gone" /\ mgr' = mgr /\ rigs' = rigs
      /\ chosen' = chosen /\ crossed' = crossed
  BY DEF Sends, mgrVars, history
<1>3. \A k \in 1..Len(manQ') : k \in 1..Len(manQ) \/ k = Len(manQ) + 1
  BY <1>1
<1>4. \A k \in 1..Len(manQ) : k \in 1..Len(manQ') /\ k <= Len(manQ) + 1
  BY <1>1
<1>5. ASSUME NEW i \in DOMAIN rigs \ crossed
      PROVE  /\ \A v, w \in ToSend(i)' : v = w
             /\ \A v \in ToSend(i)' : v.config = chosen[i]
             /\ ToSend(i)' = {} =>
                  \A k \in Queued(i)' : (\A j \in Queued(i)' : j <= k) => manQ'[k].config = chosen[i]
             /\ ToSend(i)' = {} /\ Queued(i)' = {} => rigs[i] = chosen[i]
  <2>1. /\ \A v, w \in ToSend(i) : v = w
        /\ \A v \in ToSend(i) : v.config = chosen[i]
        /\ ToSend(i) = {} =>
             \A k \in Queued(i) : (\A j \in Queued(i) : j <= k) => manQ[k].config = chosen[i]
        /\ ToSend(i) = {} /\ Queued(i) = {} => rigs[i] = chosen[i]
    BY <1>2 DEF LastUpdate
  <2>2. ToSend(i)' = ToSend(i) \ {t}
    BY <1>2 DEF ToSend
  <2>3. /\ \A k : k \in Queued(i)' <=>
             k \in 1..Len(manQ') /\ manQ'[k].kind = "update" /\ manQ'[k].id = i
        /\ \A k : k \in Queued(i) <=>
             k \in 1..Len(manQ) /\ manQ[k].kind = "update" /\ manQ[k].id = i
    BY DEF Queued
  <2>4. CASE t \in ToSend(i)
    <3>1. ToSend(i)' = {} /\ t.kind = "update" /\ t.id = i /\ t.config = chosen[i]
      BY <2>1, <2>2, <2>4 DEF ToSend
    <3>2. Len(manQ) + 1 \in Queued(i)'
      BY <1>1, <2>3, <3>1
    <3>3. ASSUME NEW k \in Queued(i)', \A j \in Queued(i)' : j <= k
          PROVE  manQ'[k].config = chosen[i]
      <4>1. k \in 1..Len(manQ') /\ Len(manQ) + 1 <= k
        BY <2>3, <3>2, <3>3
      <4>2. k = Len(manQ) + 1
        BY <1>1, <4>1
      <4> QED
        BY <1>1, <3>1, <4>2
    <3> QED
      BY <3>1, <3>2, <3>3
  <2>5. CASE t \notin ToSend(i)
    <3>1. ToSend(i)' = ToSend(i) /\ ~ (t.kind = "update" /\ t.id = i)
      BY <2>2, <2>5 DEF ToSend
    <3>2. \A k : k \in Queued(i)' <=> k \in Queued(i)
      BY <1>1, <1>3, <1>4, <2>3, <3>1
    <3>3. \A k \in Queued(i) : manQ'[k] = manQ[k]
      BY <1>1, <2>3
    <3> QED
      BY <2>1, <3>1, <3>2, <3>3
  <2> QED
    BY <2>4, <2>5
<1> QED
  BY <1>2, <1>5 DEF LastUpdate

\* No update of a new rig is on its way.
LEMMA TakeCreateUpdates ==
  ASSUME AppTypeOK, QueuesAreSequences, CommandsConsistent, LastUpdate, TakeCreate
  PROVE  LastUpdate'
<1>1. /\ mgr = "idle" /\ manQ # <<>> /\ manQ' = Tail(manQ) /\ spawned' = spawned
      /\ Head(manQ).kind = "create" /\ crossed' = crossed
      /\ DOMAIN rigs' = DOMAIN rigs \cup {nextId}
      /\ rigs'[nextId] = Head(manQ).config /\ chosen'[nextId] = Head(manQ).config
      /\ \A i \in DOMAIN rigs : i # nextId => rigs'[i] = rigs[i]
      /\ \A i \in 0..(nextId - 1) : i # nextId /\ chosen'[i] = chosen[i]
      /\ DOMAIN rigs \subseteq 0..(nextId - 1)
  BY DEF TakeCreate, AppTypeOK
<1>2. \A t \in InFlight : t.kind = "update" => t.id # nextId
  <2>1. \A t \in InFlight : t.kind # "create" => t.id \in 0..(nextId - 1)
    BY DEF CommandsConsistent
  <2> QED
    BY <1>1, <2>1
<1>3. InFlight' \subseteq InFlight
  BY <1>1, CommandTaken
<1>4. \A i : i = nextId => ToSend(i)' = {} /\ Queued(i)' = {}
  BY <1>2, <1>3 DEF ToSend, Queued, InFlight
<1>5. ASSUME NEW i \in DOMAIN rigs' \ crossed
      PROVE  /\ \A t, u \in ToSend(i)' : t = u
             /\ \A t \in ToSend(i)' : t.config = chosen'[i]
             /\ ToSend(i)' = {} =>
                  \A k \in Queued(i)' : (\A j \in Queued(i)' : j <= k) => manQ'[k].config = chosen'[i]
             /\ ToSend(i)' = {} /\ Queued(i)' = {} => rigs'[i] = chosen'[i]
  <2>1. CASE i = nextId
    BY <1>1, <1>4, <2>1
  <2>2. CASE i # nextId
    <3>1. i \in DOMAIN rigs \ crossed /\ rigs'[i] = rigs[i] /\ chosen'[i] = chosen[i]
      BY <1>1, <1>5, <2>2
    <3>2. /\ \A t, u \in ToSend(i) : t = u
          /\ \A t \in ToSend(i) : t.config = chosen[i]
      BY <1>1, <3>1 DEF LastUpdate
    <3> QED
      BY <1>1, <3>1, <3>2, UpdateTaken
  <2> QED
    BY <2>1, <2>2
<1> QED
  BY <1>1, <1>5 DEF LastUpdate

\* The last update leaves its configuration with the rig.
LEMMA TakeOtherUpdates ==
  ASSUME QueuesAreSequences, CommandsConsistent, LastUpdate, TakeUpdate \/ TakeRemove
  PROVE  LastUpdate'
<1>1. /\ mgr = "idle" /\ manQ # <<>> /\ manQ' = Tail(manQ) /\ spawned' = spawned
      /\ crossed' = crossed /\ chosen' = chosen /\ DOMAIN rigs' \subseteq DOMAIN rigs
  BY DEF TakeUpdate, TakeRemove, history
<1>2. \A i \in DOMAIN rigs' :
        rigs'[i] = IF Head(manQ).kind = "update" /\ Head(manQ).id = i
                   THEN Head(manQ).config ELSE rigs[i]
  <2>1. CASE TakeUpdate
    BY <2>1 DEF TakeUpdate
  <2>2. CASE TakeRemove
    BY <2>2 DEF TakeRemove
  <2> QED
    BY <2>1, <2>2
<1>3. ASSUME NEW i \in DOMAIN rigs' \ crossed
      PROVE  /\ \A t, u \in ToSend(i)' : t = u
             /\ \A t \in ToSend(i)' : t.config = chosen[i]
             /\ ToSend(i)' = {} =>
                  \A k \in Queued(i)' : (\A j \in Queued(i)' : j <= k) => manQ'[k].config = chosen[i]
             /\ ToSend(i)' = {} /\ Queued(i)' = {} => rigs'[i] = chosen[i]
  <2>1. i \in DOMAIN rigs \ crossed
    BY <1>1
  <2>2. /\ \A t, u \in ToSend(i) : t = u
        /\ \A t \in ToSend(i) : t.config = chosen[i]
    BY <1>1, <2>1 DEF LastUpdate
  <2>3. /\ ToSend(i)' = ToSend(i)
        /\ ToSend(i) = {} => \A k \in Queued(i)' :
             (\A j \in Queued(i)' : j <= k) => manQ'[k].config = chosen[i]
        /\ ToSend(i) = {} /\ Queued(i)' = {} =>
             IF Head(manQ).kind = "update" /\ Head(manQ).id = i
             THEN Head(manQ).config = chosen[i] ELSE rigs[i] = chosen[i]
    BY <1>1, <2>1, UpdateTaken
  <2>4. ToSend(i)' = {} /\ Queued(i)' = {} => rigs'[i] = chosen[i]
    BY <1>2, <2>3
  <2> QED
    BY <2>2, <2>3, <2>4
<1> QED
  BY <1>1, <1>3 DEF LastUpdate

\* Every step keeps the last update the one confirmed last.
LEMMA NextUpdates ==
  ASSUME AppInv, Next
  PROVE  LastUpdate'
<1> USE DEF AppInv
<1>1. ASSUME spawned' = spawned, manQ' = manQ, rigs' = rigs, chosen' = chosen,
             crossed' = crossed, mgr # "gone" \/ mgr' = "gone"
      PROVE  LastUpdate'
  <2>1. \A i : ToSend(i)' = ToSend(i)
    BY <1>1 DEF ToSend
  <2>2. CASE mgr # "gone"
    BY <1>1, <2>1, <2>2, UpdatesKept
  <2>3. CASE mgr' = "gone"
    BY <2>3 DEF LastUpdate
  <2> QED
    BY <1>1, <2>2, <2>3
<1>2. CASE PollPendingCreates \/ DrainMessages \/ NoGesture
  BY <1>1, <1>2 DEF PollPendingCreates, DrainMessages, NoGesture, mgrVars, history
<1>3. CASE AddTab \/ HideWindow \/ TrayAction
  BY <1>1, <1>3 DEF AddTab, HideWindow, TrayAction, mgrVars, history
<1>4. ASSUME NEW t \in DOMAIN tabs, NEW c \in Configs, EditConfig(t, c) PROVE LastUpdate'
  BY <1>1, <1>4 DEF EditConfig, mgrVars, history
<1>5. ASSUME NEW t \in DOMAIN tabs, ConfirmUpdate(t) PROVE LastUpdate'
  BY <1>5, ConfirmUpdateUpdates
<1>6. ASSUME NEW t \in DOMAIN tabs, ConfirmDraft(t) PROVE LastUpdate'
  <2>1. \A i : ToSend(i)' = ToSend(i)
    BY <1>6 DEF ConfirmDraft, ToSend, Command
  <2>2. mgr' = mgr /\ manQ' = manQ /\ rigs' = rigs /\ chosen' = chosen /\ crossed' = crossed
    BY <1>6 DEF ConfirmDraft, mgrVars
  <2>3. CASE mgr # "gone"
    BY <2>1, <2>2, <2>3, UpdatesKept
  <2> QED
    BY <2>2, <2>3 DEF LastUpdate
<1>7. ASSUME NEW t \in DOMAIN tabs, CloseTab(t) PROVE LastUpdate'
  <2>1. \A i : ToSend(i)' = ToSend(i)
    BY <1>7 DEF CloseTab, ToSend, Command
  <2>2. mgr' = mgr /\ manQ' = manQ /\ rigs' = rigs /\ chosen' = chosen /\ crossed' = crossed
    BY <1>7 DEF CloseTab, mgrVars
  <2>3. CASE mgr # "gone"
    BY <2>1, <2>2, <2>3, UpdatesKept
  <2> QED
    BY <2>2, <2>3 DEF LastUpdate
<1>8. ASSUME NEW t \in spawned, Sends(t) PROVE LastUpdate'
  BY <1>8, SendsUpdates
<1>9. ASSUME NEW t \in spawned, SendFails(t) PROVE LastUpdate'
  BY <1>9 DEF SendFails, mgrVars, LastUpdate
<1>10. CASE TakeCreate
  BY <1>10, TakeCreateUpdates
<1>11. CASE TakeUpdate \/ TakeRemove
  BY <1>11, TakeOtherUpdates
<1>12. CASE SendAnswer
  BY <1>1, <1>12 DEF SendAnswer
<1>13. CASE ManagerEnds
  BY <1>13 DEF ManagerEnds, LastUpdate
<1>14. ASSUME NEW i \in DOMAIN announced, NEW s \in Statuses, Announce(i, s) PROVE LastUpdate'
  BY <1>1, <1>14 DEF Announce, mgrVars
<1>15. ASSUME NEW k \in {"ports", "values"}, Others(k) PROVE LastUpdate'
  BY <1>1, <1>15 DEF Others, mgrVars
<1> QED
  BY <1>2, <1>3, <1>4, <1>5, <1>6, <1>7, <1>8, <1>9, <1>10, <1>11, <1>12, <1>13, <1>14, <1>15
     DEF Next, User, Frame, TakeCommand

-----------------------------------------------------------------------------
(* The invariant                                                           *)

\* Every step keeps ids in one place, and rigs somewhere.
LEMMA NextTabs ==
  ASSUME AppInv, Next
  PROVE  TabsConsistent'
<1> USE DEF AppInv
<1>1. CASE NoGesture \/ HideWindow \/ TrayAction
  <2>1. \A i : Removed(i)' <=> Removed(i)
    BY <1>1 DEF Removed, InFlight, NoGesture, HideWindow, TrayAction
  <2> QED
    BY <1>1, <2>1, TabsKept DEF NoGesture, HideWindow, TrayAction, mgrVars, history
<1>2. ASSUME NEW i \in DOMAIN announced, NEW s \in Statuses, Announce(i, s) PROVE TabsConsistent'
  <2>1. \A j : Removed(j)' <=> Removed(j)
    BY <1>2 DEF Removed, InFlight, Announce
  <2> QED
    BY <1>2, <2>1, TabsKept DEF Announce, guiVars, mgrVars
<1>3. ASSUME NEW k \in {"ports", "values"}, Others(k) PROVE TabsConsistent'
  <2>1. \A j : Removed(j)' <=> Removed(j)
    BY <1>3 DEF Removed, InFlight, Others
  <2> QED
    BY <1>3, <2>1, TabsKept DEF Others, guiVars, mgrVars
<1>4. CASE Frame
  BY <1>1, <1>4, PollTabs, DrainTabs DEF Frame
<1>5. CASE User
  BY <1>1, <1>5, ConfirmUpdateTabs, ConfirmDraftTabs, CloseTabs, EditTabs, AddTabs DEF User
<1>6. CASE TakeCommand
  BY <1>6, TakeCreateTabs, TakeUpdateTabs, TakeRemoveTabs, SendAnswerTabs DEF TakeCommand
<1> QED
  BY <1>2, <1>3, <1>4, <1>5, <1>6, SendsTabs, SendFailsTabs, ManagerEndsTabs DEF Next

\* Every step keeps the invariant.
LEMMA NextKeepsInv ==
  ASSUME AppInv, Next
  PROVE  AppInv'
<1>1. QueuesAreSequences'
  BY NextCommands, NextStatus DEF CommandsOnTheWay, QueuesAreSequences
<1>2. CommandsConsistent' /\ CreationsWait'
  BY NextCommands DEF CommandsOnTheWay
<1> QED
  BY <1>1, <1>2, TypesKept, NextTabs, NextStatus, NextUpdates DEF AppInv

\* So does a step that changes nothing.
LEMMA StutterKeepsInv ==
  ASSUME AppInv, UNCHANGED vars
  PROVE  AppInv'
<1> USE DEF AppInv, vars
<1>1. /\ InFlight' = InFlight /\ \A i : Told(i)' = Told(i)
      /\ \A i : (Removed(i)' <=> Removed(i)) /\ (Known(i)' <=> Known(i))
      /\ \A i : ToSend(i)' = ToSend(i) /\ Queued(i)' = Queued(i)
  BY DEF InFlight, Told, Removed, Known, IsRig, ToSend, Queued
<1>2. AppTypeOK' /\ QueuesAreSequences' /\ CommandsConsistent' /\ CreationsWait'
  BY <1>1 DEF AppTypeOK, QueuesAreSequences, CommandsConsistent, CreationsWait
<1>3. TabsConsistent'
  BY <1>1 DEF TabsConsistent, OnePlace, PlacesAreRigs, HasteKnown, RigsPlaced
<1>4. StatusConsistent'
  BY <1>1 DEF StatusConsistent, NewestAnnounced, StatusesFollow, RecentAnswers
<1>5. LastUpdate'
  BY <1>1 DEF LastUpdate
<1> QED
  BY <1>2, <1>3, <1>4, <1>5

\* The program starts with a tab for each saved rig, and nothing on its way.
LEMMA InitHoldsInv ==
  ASSUME Init
  PROVE  AppInv
<1>1. PICK saved \in SavedRigs :
        /\ rigs = SettingsOf(saved) /\ nextId = NextIdOf(DOMAIN rigs)
        /\ tabs = TabsFor(saved) /\ nextTab = IF saved = <<>> THEN 2 ELSE Len(saved) + 1
  BY DEF Init
<1>2. /\ pending = {} /\ frame = "idle" /\ spawned = {} /\ manQ = <<>> /\ bus = <<>>
      /\ answers = [c \in Channels |-> Waiting] /\ mgr = "idle" /\ owed = NothingOwed
      /\ announced = [i \in 0..(nextId - 1) |-> "Connecting"]
      /\ chosen = [i \in 0..(nextId - 1) |-> IF IsRig(i) THEN rigs[i] ELSE DefaultConfig]
      /\ maker = [i \in 0..(nextId - 1) |-> NoChannel] /\ hasty = {} /\ gestures = 0
  BY DEF Init
<1>3. Len(manQ) = 0 /\ Len(bus) = 0
  BY <1>2
<1> DEFINE ids == {saved[k].id : k \in 1..Len(saved)}
<1>4. /\ DOMAIN rigs = ids /\ ids \in SUBSET Nat /\ nextId \in Nat
      /\ \A i \in ids : i \in 0..(nextId - 1)
  <2>1. /\ DOMAIN rigs = ids /\ ids \in SUBSET Nat /\ nextId \in Nat
        /\ \A i \in ids : i < nextId
    BY <1>1, NextIsAbove DEF SettingsOf
  <2> HIDE DEF ids
  <2>2. ASSUME NEW i \in ids PROVE i \in 0..(nextId - 1)
    <3>1. i \in Nat /\ i < nextId
      BY <2>1
    <3> QED
      BY <2>1, <3>1
  <2> QED
    BY <2>1, <2>2
<1>5. InFlight = {} /\ \A i : Told(i) = {} /\ ToSend(i) = {} /\ Queued(i) = {}
  BY <1>2, <1>3 DEF InFlight, Told, ToSend, Queued
<1>6. /\ Len(saved) \in Nat /\ \A k \in 1..Len(saved) : saved[k].id \in Nat
      /\ \A j, k \in 1..Len(saved) : saved[j].id = saved[k].id => j = k
      /\ saved # <<>> => Len(saved) # 0
  <2>1. saved \in Seq([id : Nat, config : Configs])
    BY SavedAssumption
  <2>2. saved # <<>> => Len(saved) # 0
    BY <2>1
  <2> QED
    BY <2>2, SavedIds, SavedAssumption
<1>7. \/ saved = <<>> /\ DOMAIN tabs = {1} /\ tabs[1] = Draft /\ nextTab = 2 /\ Len(saved) = 0
      \/ /\ saved # <<>> /\ DOMAIN tabs = 1..Len(saved) /\ nextTab = Len(saved) + 1
         /\ \A k \in 1..Len(saved) : tabs[k] = Tab(saved[k].id, "Connecting", saved[k].config)
  BY <1>1 DEF TabsFor
<1>8. \A t \in DOMAIN tabs :
        /\ tabs[t] = Tab(tabs[t].rig, tabs[t].status, tabs[t].config)
        /\ tabs[t].status = "Connecting"
        /\ tabs[t].rig = NoRig \/ (t \in 1..Len(saved) /\ tabs[t].rig = saved[t].id)
  BY <1>7, TabFields DEF Draft
<1>9. AppTypeOK
  <2>1. DOMAIN rigs \subseteq 0..(nextId - 1)
    BY <1>4
  <2>2. nextTab \in Nat /\ DOMAIN tabs \subseteq 0..(nextTab - 1)
    BY <1>6, <1>7
  <2>3. gestures \in 0..MaxGestures
    BY <1>2, BoundsAssumption
  <2> QED
    BY <1>2, <1>4, <1>8, <2>1, <2>2, <2>3 DEF AppTypeOK
<1>10. QueuesAreSequences
  BY <1>2 DEF QueuesAreSequences
<1>11. CommandsConsistent /\ CreationsWait
  BY <1>2, <1>3, <1>5 DEF CommandsConsistent, CreationsWait, InFlight
<1>12. TabsConsistent
  <2>1. OnePlace
    BY <1>2, <1>6, <1>8 DEF OnePlace
  <2>2. PlacesAreRigs
    BY <1>2, <1>4, <1>5, <1>8 DEF PlacesAreRigs, Known, IsRig, Removed
  <2>3. HasteKnown
    BY <1>2 DEF HasteKnown
  <2>4. RigsPlaced
    <3> SUFFICES ASSUME NEW i \in ids PROVE \E t \in DOMAIN tabs : tabs[t].rig = i
      BY <1>4 DEF RigsPlaced
    <3>1. PICK k \in 1..Len(saved) : saved[k].id = i
      OBVIOUS
    <3>2. k \in DOMAIN tabs /\ tabs[k].rig = i
      BY <1>6, <1>7, <3>1, TabFields
    <3> QED
      BY <3>2
  <2> QED
    BY <2>1, <2>2, <2>3, <2>4 DEF TabsConsistent
<1>13. StatusConsistent
  <2>1. \A t \in DOMAIN tabs : tabs[t].rig # NoRig => tabs[t].status = announced[tabs[t].rig]
    <3> SUFFICES ASSUME NEW t \in DOMAIN tabs, tabs[t].rig # NoRig
                 PROVE  tabs[t].status = announced[tabs[t].rig]
      OBVIOUS
    <3>1. tabs[t].rig \in ids /\ tabs[t].status = "Connecting"
      BY <1>8
    <3>2. tabs[t].rig \in 0..(nextId - 1)
      BY <1>4, <3>1
    <3> QED
      BY <1>2, <3>1, <3>2
  <2>2. NewestAnnounced
    BY <1>3 DEF NewestAnnounced
  <2>3. StatusesFollow
    BY <1>2, <2>1 DEF StatusesFollow
  <2>4. RecentAnswers
    BY <1>2 DEF RecentAnswers
  <2> QED
    BY <2>2, <2>3, <2>4 DEF StatusConsistent
<1>14. LastUpdate
  <2>1. \A i \in DOMAIN rigs : chosen[i] = rigs[i]
    <3>1. \A i \in DOMAIN rigs : i \in 0..(nextId - 1)
      BY <1>4
    <3> QED
      BY <1>2, <3>1 DEF IsRig
  <2> QED
    BY <1>5, <2>1 DEF LastUpdate
<1> QED
  BY <1>9, <1>10, <1>11, <1>12, <1>13, <1>14 DEF AppInv

\* What is on its way, where the ids are and which statuses the window can know
THEOREM AppInvariant == Spec => []AppInv
<1>1. Init => AppInv
  BY InitHoldsInv
<1>2. AppInv /\ [Next]_vars => AppInv'
  BY NextKeepsInv, StutterKeepsInv
<1> QED
  BY <1>1, <1>2, PTL DEF Spec

(***************************************************************************)
(* However the window and the manager interleave, once nothing is between  *)
(* them every rig has its tab, or was made by a press that was too early   *)
(* (gui.rs:410), and every tab of a rig has a rig of its own.              *)
(***************************************************************************)
THEOREM AppRigsHaveTabs == Spec => []RigsHaveTabs
<1>1. AppInv => RigsHaveTabs
  <2> SUFFICES ASSUME AppInv, Settled PROVE RigsHaveTabs
    BY DEF RigsHaveTabs
  <2>1. /\ TabsConsistent /\ pending = {} /\ mgr = "idle" /\ spawned = {} /\ manQ = <<>>
        /\ Len(manQ) = 0
    BY DEF AppInv, Settled
  <2>2. \A i : ~ Removed(i)
    BY <2>1 DEF Removed, InFlight
  <2>3. \A i \in DOMAIN rigs : TabsOf(i) # {} \/ maker[i] \in hasty
    BY <2>1, <2>2 DEF TabsConsistent, RigsPlaced, TabsOf
  <2>4. ASSUME NEW t \in DOMAIN tabs, tabs[t].rig # NoRig
        PROVE  IsRig(tabs[t].rig) /\ TabsOf(tabs[t].rig) = {t}
    BY <2>1, <2>4 DEF TabsConsistent, PlacesAreRigs, OnePlace, Known, TabsOf
  <2> QED
    BY <2>3, <2>4 DEF RigsHaveTabs
<1> QED
  BY <1>1, AppInvariant, PTL

\* Once the window has received everything, each tab shows the status last broadcast
\* for its rig, unless that status was overwritten or too early (gui.rs:704).
THEOREM AppStatusShown == Spec => []StatusShown
<1>1. AppInv => StatusShown
  <2> SUFFICES ASSUME AppInv, bus = <<>> PROVE StatusShown
    BY DEF StatusShown
  <2>1. \A i : Told(i) = {}
    <3>1. Len(bus) = 0
      OBVIOUS
    <3> QED
      BY <3>1 DEF Told
  <2> QED
    BY <2>1 DEF StatusShown, AppInv, StatusConsistent, StatusesFollow
<1> QED
  BY <1>1, AppInvariant, PTL

\* The configuration confirmed last wins unless two updates were sent together
\* (gui.rs:395).
THEOREM AppLastConfirmedWins == Spec => []LastConfirmedWins
<1>1. AppInv => LastConfirmedWins
  <2> SUFFICES ASSUME AppInv, Settled, NEW i \in DOMAIN rigs, i \notin crossed
               PROVE  rigs[i] = chosen[i]
    BY DEF LastConfirmedWins
  <2>1. mgr = "idle" /\ spawned = {} /\ manQ = <<>> /\ Len(manQ) = 0
    BY DEF Settled
  <2>2. ToSend(i) = {} /\ Queued(i) = {}
    BY <2>1 DEF ToSend, Queued
  <2> QED
    BY <2>1, <2>2 DEF AppInv, LastUpdate
<1> QED
  BY <1>1, AppInvariant, PTL
=============================================================================
