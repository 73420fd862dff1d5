--------------------------- MODULE AppTabsInvariant ---------------------------
(***************************************************************************)
(* Why the window's tabs and the manager's rigs belong together: where the *)
(* id of a rig is, what is on its way, and which presses came too early.   *)
(***************************************************************************)
EXTENDS AppTabs

\* Commands on their way to the manager
InFlight == spawned \cup {manQ[k] : k \in 1..Len(manQ)}

Removed(i) == \E t \in InFlight : t.kind = "remove" /\ t.id = i

\* The manager has the rig, and will go on having it.
Known(i) == IsRig(i) /\ ~ Removed(i)

\* The types of what the properties depend on
AppTypeOK ==
  /\ nextId \in Nat /\ DOMAIN rigs \subseteq 0..(nextId - 1)
  /\ DOMAIN announced = 0..(nextId - 1) /\ DOMAIN chosen = 0..(nextId - 1)
  /\ DOMAIN maker = 0..(nextId - 1)
  /\ nextTab \in Nat /\ DOMAIN tabs \subseteq 0..(nextTab - 1) /\ gestures \in 0..MaxGestures
  /\ \A t \in DOMAIN tabs : tabs[t] = Tab(tabs[t].rig, tabs[t].status, tabs[t].config)
  /\ pending \subseteq [tab : Nat, channel : 1..gestures]
  /\ answers \in [Channels -> Nat \cup {Waiting, Closed}]
  /\ mgr \in {"idle", "answering", "gone"}
  /\ mgr = "answering" => owed.channel \in 1..gestures
  /\ mgr # "answering" => owed = NothingOwed

QueuesAreSequences ==
  /\ manQ \in Seq({manQ[k] : k \in 1..Len(manQ)})
  /\ bus \in Seq({bus[k] : k \in 1..Len(bus)})

\* A command is one press: it is in one place.
CommandsConsistent ==
  /\ \A t \in InFlight : /\ t.channel \in 1..gestures
                         /\ t.kind \in {"create", "update", "remove"}
                         /\ t.kind # "create" => t.id \in 0..(nextId - 1)
  /\ \A t, u \in spawned : t.channel = u.channel => t = u
  /\ \A j, k \in 1..Len(manQ) : manQ[j].channel = manQ[k].channel => j = k
  /\ \A t \in spawned, k \in 1..Len(manQ) : t.channel # manQ[k].channel
  /\ mgr = "answering" => \A t \in InFlight : t.channel # owed.channel

\* A creation that is on its way has a pending entry, and its channel no answer.
CreationsWait ==
  /\ \A c \in Channels : c > gestures => answers[c] = Waiting
  /\ \A p, q \in pending : p.channel = q.channel => p = q
  /\ \A t \in InFlight : t.kind = "create" =>
       answers[t.channel] = Waiting /\ \E p \in pending : p.channel = t.channel
  /\ mgr = "answering" =>
       answers[owed.channel] = Waiting /\ \E p \in pending : p.channel = owed.channel

\* The id of a rig is in one place: a tab, an answer not yet taken, or with the manager.
OnePlace ==
  /\ \A t, u \in DOMAIN tabs : tabs[t].rig = tabs[u].rig => t = u \/ tabs[t].rig = NoRig
  /\ \A p, q \in pending :
       answers[p.channel] = answers[q.channel] => p = q \/ answers[p.channel] \notin Nat
  /\ \A t \in DOMAIN tabs, p \in pending :
       tabs[t].rig = answers[p.channel] => tabs[t].rig = NoRig
  /\ mgr = "answering" => /\ \A t \in DOMAIN tabs : tabs[t].rig # owed.id
                          /\ \A p \in pending : answers[p.channel] # owed.id

\* What is there is a rig of the manager, and was made by the press that waits for it.
PlacesAreRigs ==
  /\ \A t \in DOMAIN tabs : tabs[t].rig # NoRig => Known(tabs[t].rig)
  /\ \A p \in pending : answers[p.channel] \in Nat =>
       Known(answers[p.channel]) /\ maker[answers[p.channel]] = p.channel
  /\ mgr = "answering" => Known(owed.id) /\ maker[owed.id] = owed.channel

\* A press that came before the answer to another, or whose tab is gone
HasteKnown ==
  /\ \A p, q \in pending : p.tab = q.tab => p = q \/ p.channel \in hasty
  /\ \A p \in pending : p.tab \in DOMAIN tabs \/ p.channel \in hasty
  /\ \A p \in pending : p.tab \in DOMAIN tabs /\ tabs[p.tab].rig # NoRig =>
       maker[tabs[p.tab].rig] \in hasty

\* Each rig is somewhere.
RigsPlaced ==
  mgr # "gone" => \A i \in DOMAIN rigs :
    \/ \E t \in DOMAIN tabs : tabs[t].rig = i
    \/ maker[i] \in hasty \/ Removed(i)
    \/ \E p \in pending : answers[p.channel] = i
    \/ mgr = "answering" /\ owed.id = i

TabsConsistent == OnePlace /\ PlacesAreRigs /\ HasteKnown /\ RigsPlaced

-----------------------------------------------------------------------------
(* The statuses                                                            *)

\* What is on its way of a rig ends with what it last announced.
NewestAnnounced ==
  \A k \in 1..Len(bus) : bus[k].kind = "status" =>
    /\ bus[k].id \in DOMAIN announced
    /\ (\A j \in Told(bus[k].id) : j <= k) => bus[k].status = announced[bus[k].id]

\* A rig that has its tab, and one whose tab will say Connecting
StatusesFollow ==
  /\ \A t \in DOMAIN tabs : tabs[t].rig # NoRig =>
       \/ Told(tabs[t].rig) # {} \/ tabs[t].rig \in missed
       \/ tabs[t].status = announced[tabs[t].rig]
  /\ \A p \in pending : answers[p.channel] \in Nat =>
       \/ Told(answers[p.channel]) # {} \/ answers[p.channel] \in missed
       \/ announced[answers[p.channel]] = "Connecting"
  /\ mgr = "answering" =>
       Told(owed.id) # {} \/ owed.id \in missed \/ announced[owed.id] = "Connecting"

\* Answers that come while the window receives
RecentAnswers ==
  frame = "polled" => \A p \in pending : answers[p.channel] \in Nat => answers[p.channel] \in recent

StatusConsistent == NewestAnnounced /\ StatusesFollow /\ RecentAnswers

-----------------------------------------------------------------------------
(* The updates                                                             *)

ToSend(i) == {t \in spawned : t.kind = "update" /\ t.id = i}
Queued(i) == {k \in 1..Len(manQ) : manQ[k].kind = "update" /\ manQ[k].id = i}

\* The last update on its way has the configuration confirmed last; when there is
\* none the rig has it.
LastUpdate ==
  mgr # "gone" => \A i \in DOMAIN rigs \ crossed :
    /\ \A t, u \in ToSend(i) : t = u
    /\ \A t \in ToSend(i) : t.config = chosen[i]
    /\ ToSend(i) = {} =>
         \A k \in Queued(i) : (\A j \in Queued(i) : j <= k) => manQ[k].config = chosen[i]
    /\ ToSend(i) = {} /\ Queued(i) = {} => rigs[i] = chosen[i]

AppInv ==
  /\ AppTypeOK /\ QueuesAreSequences /\ CommandsConsistent /\ CreationsWait
  /\ TabsConsistent /\ StatusConsistent /\ LastUpdate
=============================================================================
