------------------------------- MODULE AppTabs -------------------------------
(***************************************************************************)
(* The window of HolyRig (gui.rs): one tab per rig, beside the device      *)
(* manager.                                                                *)
(*                                                                         *)
(*   OK, close --tokio::spawn--> sending tasks --manQ--> DeviceManager     *)
(*   pending creations <-----oneshot: the id of a new rig----- |           *)
(*   tabs <----------broadcast (bus): statuses, values, ports--+ devices   *)
(*                                                                         *)
(* Each frame polls the pending creations, drains the broadcast, and draws *)
(* the tabs, where the user may do one thing.  A press of OK or a closed   *)
(* tab spawns a task that sends the command: tasks run in any order.  The  *)
(* manager is here what the window sees of it; DeviceManager has the rest. *)
(***************************************************************************)
EXTENDS Naturals, Sequences, FiniteSets

CONSTANTS
  Configs,      \* the configurations the user chooses from
  SavedRigs,    \* the rigs the settings file may have: sequences of RigSettings
  NoRig,        \* no rig
  Waiting,      \* no answer yet
  Closed,       \* the sender of the answer was dropped
  CommandCap,   \* capacity of the manager's channel (10)
  BusCap,       \* capacity of the broadcast (10)
  MaxTabs,      \* bound: tab ids are below it
  MaxGestures,  \* bound: presses, closed tabs and edits
  MaxMessages   \* bound: messages broadcast

Channels == 1..MaxGestures
Statuses == {"Connecting", "Connected"}

\* RigConfig::default(), of a tab that is a draft
DefaultConfig == [rig_type |-> "", port |-> "", poll |-> 0, timeout |-> 0]

\* The ids of a settings file are distinct, as the program writes it.
ASSUME SavedAssumption ==
  \A saved \in SavedRigs :
    /\ saved \in Seq([id : Nat, config : Configs])
    /\ \A j, k \in 1..Len(saved) : saved[j].id = saved[k].id => j = k

ASSUME AnswersAssumption ==
  /\ NoRig \notin Nat /\ Waiting \notin Nat /\ Closed \notin Nat
  /\ Waiting # Closed

ASSUME BoundsAssumption ==
  /\ CommandCap \in Nat \ {0} /\ BusCap \in Nat \ {0}
  /\ MaxTabs \in Nat \ {0} /\ MaxGestures \in Nat /\ MaxMessages \in Nat

VARIABLES
  \* the window
  tabs,       \* the tabs of the dock, by their ids; a later one is behind the others
  nextTab,    \* next_tab_id
  pending,    \* pending_creates: tabs, each with the channel of the answer; a later
              \* press has a higher channel
  available,  \* available_ports
  window,     \* "shown", "hidden" to the tray, or "quit"
  frame,      \* where update() is: "idle", "polled" or "drawing"
  \* the tasks and channels between
  spawned,    \* tasks that have still to send their command
  manQ,       \* manager_command_rx
  answers,    \* per channel: Waiting, Closed, or the id of the new rig
  bus,        \* what message_receiver has still to receive
  \* the device manager
  mgr,        \* "idle", "answering" a creation, or "gone"
  owed,       \* the answer it owes: the id of the new rig and the channel
  rigs,       \* its settings: the configuration of each rig, by its id
  nextId,     \* settings.next_id
  \* history and bounds
  announced,  \* the status last broadcast for each rig
  missed,     \* rigs of whose last status the window could not know
  recent,     \* rigs whose id was sent since the pending creations were polled
  chosen,     \* the configuration last confirmed for each rig
  crossed,    \* rigs two of whose updates were on their way at a time
  maker,      \* the press each rig was created by
  hasty,      \* presses of a tab that was pressed again, or closed, too early
  gestures, messages

guiVars == <<tabs, nextTab, pending, available, window, frame>>
mgrVars == <<mgr, owed, rigs, nextId>>
history == <<announced, missed, recent, chosen, crossed, maker, hasty>>
vars == <<tabs, nextTab, pending, available, window, frame, spawned, manQ, answers,
          bus, mgr, owed, rigs, nextId, announced, missed, recent, chosen, crossed, maker,
          hasty, gestures, messages>>

NoChannel == 0
NothingOwed == [id |-> NoRig, channel |-> NoChannel]

\* RigTab; a draft has no rig
Tab(rig, status, config) == [rig |-> rig, status |-> status, config |-> config]

Draft == Tab(NoRig, "Connecting", DefaultConfig)

\* ManagerCommand, as far as the window sends them
Command(kind, id, config, channel) ==
  [kind |-> kind, id |-> id, config |-> config, channel |-> channel]

\* The greatest of some numbers
Greatest(S) == CHOOSE n \in S : \A m \in S : m <= n

IsRig(i) == i \in DOMAIN rigs

TabsOf(i) == {t \in DOMAIN tabs : tabs[t].rig = i}

(***************************************************************************)
(* RigConfig::validate, of the configuration as the drag values leave it:  *)
(* drawing one clamps it to its range.  The range is not that of validate. *)
(***************************************************************************)
Clamp(n, low, high) == IF n < low THEN low ELSE IF n > high THEN high ELSE n

Drawn(c) == [c EXCEPT !.poll = Clamp(@, 10, 1000), !.timeout = Clamp(@, 10, 5000)]

Valid(c) ==
  /\ c.rig_type # "unspecified" /\ c.port # ""
  /\ c.poll \in 100..5000 /\ c.timeout \in 100..10000

\* App::new: a tab for every rig, or one draft; AppTabs::new has used tab 0
TabsFor(saved) ==
  IF saved = <<>> THEN [t \in {1} |-> Draft]
  ELSE [k \in 1..Len(saved) |-> Tab(saved[k].id, "Connecting", saved[k].config)]

SettingsOf(saved) ==
  [i \in {saved[k].id : k \in 1..Len(saved)} |->
     saved[CHOOSE k \in 1..Len(saved) : saved[k].id = i].config]

\* Settings::compute_next_id
NextIdOf(ids) == IF ids = {} THEN 0 ELSE 1 + Greatest(ids)

Init ==
  /\ \E saved \in SavedRigs :
       /\ rigs = SettingsOf(saved) /\ nextId = NextIdOf(DOMAIN rigs)
       /\ tabs = TabsFor(saved) /\ nextTab = IF saved = <<>> THEN 2 ELSE Len(saved) + 1
  /\ pending = {} /\ available = "before"
  /\ window = "shown" /\ frame = "idle"
  /\ spawned = {} /\ manQ = <<>> /\ bus = <<>>
  /\ answers = [c \in Channels |-> Waiting]
  /\ mgr = "idle" /\ owed = NothingOwed
  /\ announced = [i \in 0..(nextId - 1) |-> "Connecting"]
  /\ missed = {} /\ recent = {}
  /\ chosen = [i \in 0..(nextId - 1) |-> IF IsRig(i) THEN rigs[i] ELSE DefaultConfig]
  /\ crossed = {} /\ maker = [i \in 0..(nextId - 1) |-> NoChannel] /\ hasty = {}
  /\ gestures = 0 /\ messages = 0

-----------------------------------------------------------------------------
(* One frame: App::update                                                  *)

Answered(p) == answers[p.channel] # Waiting

PendingOf(t) == {p.channel : p \in {q \in pending : q.tab = t}}

AnsweredOf(t) == {c \in PendingOf(t) : answers[c] # Waiting}

\* retain_mut: one pending creation after the other, so that the last one for a tab
\* stays; one whose sender was dropped makes the tab a draft.
Registered(t) ==
  IF AnsweredOf(t) = {} THEN tabs[t]
  ELSE LET a == answers[Greatest(AnsweredOf(t))] IN
       Tab(IF a = Closed THEN NoRig ELSE a, "Connecting", tabs[t].config)

\* The creations as a mistake would take them: those without an answer are dropped.
PollPendingOnce ==
  /\ window = "shown" /\ frame = "idle"
  /\ tabs' = [t \in DOMAIN tabs |-> Registered(t)]
  /\ pending' = {}
  /\ frame' = "polled" /\ recent' = {}
  /\ UNCHANGED <<nextTab, available, window, spawned, manQ, answers, bus, mgrVars,
                 announced, missed, chosen, crossed, maker, hasty, gestures, messages>>

\* As another mistake would take them: those with an answer are kept.
PollPendingAgain ==
  /\ window = "shown" /\ frame = "idle"
  /\ tabs' = [t \in DOMAIN tabs |-> Registered(t)]
  /\ frame' = "polled" /\ recent' = {}
  /\ UNCHANGED <<pending, nextTab, available, window, spawned, manQ, answers, bus,
                 mgrVars, announced, missed, chosen, crossed, maker, hasty, gestures,
                 messages>>

\* drain_tray_actions and poll_pending_creates; an answer for a tab that is gone is lost
PollPendingCreates ==
  /\ window = "shown" /\ frame = "idle"
  /\ tabs' = [t \in DOMAIN tabs |-> Registered(t)]
  /\ pending' = {p \in pending : ~ Answered(p)}
  /\ frame' = "polled" /\ recent' = {}
  /\ UNCHANGED <<nextTab, available, window, spawned, manQ, answers, bus, mgrVars,
                 announced, missed, chosen, crossed, maker, hasty, gestures, messages>>

\* Where the statuses of a rig are on the broadcast
Told(i) == {k \in 1..Len(bus) : bus[k].kind = "status" /\ bus[k].id = i}

\* update_device_status, for one message after the other: the first tab of the rig
Updated(t) ==
  LET i == tabs[t].rig IN
  IF i = NoRig \/ Told(i) = {} \/ (\E u \in TabsOf(i) : u < t) THEN tabs[t]
  ELSE [tabs[t] EXCEPT !.status = bus[Greatest(Told(i))].status]

\* A status that comes between the creation of the rig and the poll that finds
\* its id finds no tab.
TooEarly == {i \in recent \cup {owed.id} : Told(i) # {}}

\* try_recv until the broadcast is empty; a gap is skipped
DrainMessages ==
  /\ frame = "polled"
  /\ tabs' = [t \in DOMAIN tabs |-> Updated(t)]
  /\ available' = IF \E k \in 1..Len(bus) : bus[k].kind = "ports" THEN "now" ELSE available
  /\ bus' = <<>> /\ frame' = "drawing"
  /\ missed' = missed \cup TooEarly
  /\ UNCHANGED <<nextTab, pending, window, spawned, manQ, answers, mgrVars, announced,
                 recent, chosen, crossed, maker, hasty, gestures, messages>>

Gesture == frame = "drawing" /\ frame' = "idle" /\ gestures < MaxGestures

\* The user does nothing in this frame.
NoGesture ==
  /\ frame = "drawing" /\ frame' = "idle"
  /\ UNCHANGED <<tabs, nextTab, pending, available, window, spawned, manQ, answers,
                 bus, mgrVars, history, gestures, messages>>

\* The widgets of the form write into the tab's configuration.
EditConfig(t, c) ==
  /\ Gesture /\ gestures' = gestures + 1
  /\ tabs[t].config # c
  /\ tabs' = [tabs EXCEPT ![t].config = c]
  /\ UNCHANGED <<nextTab, pending, available, window, spawned, manQ, answers, bus,
                 mgrVars, history, messages>>

\* OK as a mistake would take it: one task per rig at a time
ConfirmUpdateOnce(t) ==
  LET rig == tabs[t].rig
      config == Drawn(tabs[t].config)
  IN
  /\ Gesture /\ gestures' = gestures + 1
  /\ rig # NoRig /\ Valid(config)
  /\ spawned' = IF \E u \in spawned : u.kind = "update" /\ u.id = rig THEN spawned
                ELSE spawned \cup {Command("update", rig, config, gestures + 1)}
  /\ chosen' = [chosen EXCEPT ![rig] = config]
  /\ UNCHANGED <<tabs, nextTab, pending, available, window, manQ, answers, bus, mgrVars,
                 announced, missed, recent, crossed, maker, hasty, messages>>

\* OK on a tab of a rig; an invalid configuration is not sent
ConfirmUpdate(t) ==
  LET rig == tabs[t].rig
      config == Drawn(tabs[t].config)
  IN
  /\ Gesture /\ gestures' = gestures + 1
  /\ rig # NoRig /\ Valid(config)
  /\ spawned' = spawned \cup {Command("update", rig, config, gestures + 1)}
  /\ chosen' = [chosen EXCEPT ![rig] = config]
  /\ crossed' = IF \E u \in spawned : u.kind = "update" /\ u.id = rig
                THEN crossed \cup {rig} ELSE crossed \ {rig}
  /\ UNCHANGED <<tabs, nextTab, pending, available, window, manQ, answers, bus, mgrVars,
                 announced, missed, recent, maker, hasty, messages>>

\* OK on a draft: nothing keeps the user from pressing again before the answer
ConfirmDraft(t) ==
  LET channel == gestures + 1
      config == Drawn(tabs[t].config)
  IN
  /\ Gesture /\ gestures' = channel
  /\ tabs[t].rig = NoRig /\ Valid(config)
  /\ pending' = pending \cup {[tab |-> t, channel |-> channel]}
  /\ spawned' = spawned \cup {Command("create", NoRig, config, channel)}
  /\ hasty' = IF PendingOf(t) = {} THEN hasty
              ELSE hasty \cup PendingOf(t) \cup {channel}
  /\ UNCHANGED <<tabs, nextTab, available, window, manQ, answers, bus, mgrVars,
                 announced, missed, recent, chosen, crossed, maker, messages>>

\* is_closeable, on_close: the focused tab, unless it is the only one
CloseTab(t) ==
  /\ Gesture /\ gestures' = gestures + 1
  /\ Cardinality(DOMAIN tabs) > 1
  /\ tabs' = [u \in DOMAIN tabs \ {t} |-> tabs[u]]
  /\ spawned' = IF tabs[t].rig = NoRig THEN spawned
                ELSE spawned \cup {Command("remove", tabs[t].rig, DefaultConfig, gestures + 1)}
  /\ hasty' = hasty \cup PendingOf(t)
  /\ UNCHANGED <<nextTab, pending, available, window, manQ, answers, bus, mgrVars,
                 announced, missed, recent, chosen, crossed, maker, messages>>

AddTab ==
  /\ Gesture /\ nextTab < MaxTabs
  /\ tabs' = [t \in DOMAIN tabs \cup {nextTab} |-> IF t = nextTab THEN Draft ELSE tabs[t]]
  /\ nextTab' = nextTab + 1
  /\ UNCHANGED <<pending, available, window, spawned, manQ, answers, bus, mgrVars,
                 history, gestures, messages>>

\* The window is closed: it is only hidden, and update() returns early from then on,
\* until the tray shows it or quits.
HideWindow ==
  /\ window = "shown" /\ frame = "idle"
  /\ window' = "hidden"
  /\ UNCHANGED <<tabs, nextTab, pending, available, frame, spawned, manQ, answers, bus,
                 mgrVars, history, gestures, messages>>

TrayAction ==
  /\ window # "quit" /\ frame = "idle"
  /\ \E w \in {"shown", "quit"} : w # window /\ window' = w
  /\ UNCHANGED <<tabs, nextTab, pending, available, frame, spawned, manQ, answers, bus,
                 mgrVars, history, gestures, messages>>

Frame == PollPendingCreates \/ DrainMessages \/ NoGesture

-----------------------------------------------------------------------------
(* The tasks that send the commands                                        *)

Sends(t) ==
  /\ t \in spawned /\ mgr # "gone" /\ Len(manQ) < CommandCap
  /\ spawned' = spawned \ {t} /\ manQ' = Append(manQ, t)
  /\ UNCHANGED <<guiVars, answers, bus, mgrVars, history, gestures, messages>>

Close(channels) == [c \in Channels |-> IF c \in channels THEN Closed ELSE answers[c]]

\* The manager is gone: the command is dropped, with the channel of its answer.
SendFails(t) ==
  /\ t \in spawned /\ mgr = "gone"
  /\ spawned' = spawned \ {t}
  /\ answers' = IF t.kind = "create" THEN Close({t.channel}) ELSE answers
  /\ UNCHANGED <<guiVars, manQ, bus, mgrVars, history, gestures, messages>>

-----------------------------------------------------------------------------
(* The device manager and the devices                                      *)

\* CreateDevice: the device may be there, and speak, before the answer is sent.
TakeCreate ==
  /\ mgr = "idle" /\ manQ # <<>> /\ Head(manQ).kind = "create"
  /\ rigs' = [i \in DOMAIN rigs \cup {nextId} |->
                IF i = nextId THEN Head(manQ).config ELSE rigs[i]]
  /\ nextId' = nextId + 1 /\ manQ' = Tail(manQ)
  /\ mgr' = "answering" /\ owed' = [id |-> nextId, channel |-> Head(manQ).channel]
  /\ announced' = [i \in 0..nextId |-> IF i = nextId THEN "Connecting" ELSE announced[i]]
  /\ chosen' = [i \in 0..nextId |-> IF i = nextId THEN Head(manQ).config ELSE chosen[i]]
  /\ maker' = [i \in 0..nextId |-> IF i = nextId THEN Head(manQ).channel ELSE maker[i]]
  /\ UNCHANGED <<guiVars, spawned, answers, bus, missed, recent, crossed, hasty, gestures,
                 messages>>

SendAnswer ==
  /\ mgr = "answering"
  /\ answers' = [answers EXCEPT ![owed.channel] = owed.id]
  /\ recent' = recent \cup {owed.id}
  /\ mgr' = "idle" /\ owed' = NothingOwed
  /\ UNCHANGED <<guiVars, spawned, manQ, bus, rigs, nextId, announced, missed, chosen,
                 crossed, maker, hasty, gestures, messages>>

\* UpdateDevice and RemoveDevice; of a rig that is not there they only save
TakeUpdate ==
  /\ mgr = "idle" /\ manQ # <<>> /\ Head(manQ).kind = "update"
  /\ rigs' = [i \in DOMAIN rigs |-> IF i = Head(manQ).id THEN Head(manQ).config ELSE rigs[i]]
  /\ manQ' = Tail(manQ)
  /\ UNCHANGED <<guiVars, spawned, answers, bus, mgr, owed, nextId, history, gestures,
                 messages>>

TakeRemove ==
  /\ mgr = "idle" /\ manQ # <<>> /\ Head(manQ).kind = "remove"
  /\ rigs' = [i \in DOMAIN rigs \ {Head(manQ).id} |-> rigs[i]]
  /\ manQ' = Tail(manQ)
  /\ UNCHANGED <<guiVars, spawned, answers, bus, mgr, owed, nextId, history, gestures,
                 messages>>

\* The same with the channels of the answers left open, as a mistake
ManagerEndsOpen ==
  /\ mgr = "idle" /\ manQ # <<>>
  /\ mgr' = "gone" /\ manQ' = <<>>
  /\ UNCHANGED <<guiVars, spawned, answers, bus, owed, rigs, nextId, history, gestures,
                 messages>>

\* A save fails: run() ends, and with it the channel and every command in it.
ManagerEnds ==
  /\ mgr = "idle" /\ manQ # <<>>
  /\ mgr' = "gone" /\ manQ' = <<>>
  /\ answers' = Close({manQ[k].channel : k \in {j \in 1..Len(manQ) : manQ[j].kind = "create"}})
  /\ UNCHANGED <<guiVars, spawned, bus, owed, rigs, nextId, history, gestures, messages>>

TakeCommand == TakeCreate \/ TakeUpdate \/ TakeRemove \/ SendAnswer

\* A full broadcast loses its oldest message.
Publish(m) ==
  /\ messages < MaxMessages /\ messages' = messages + 1
  /\ bus' = Append(IF Len(bus) = BusCap THEN Tail(bus) ELSE bus, m)

\* The rig whose last status would be lost with the oldest message.
Overwritten == IF Len(bus) = BusCap THEN {i \in DOMAIN announced : Told(i) = {1}} ELSE {}

\* DeviceTask::set_status, also of a device that is about to end; it does not ask
\* whether the status changes
Announce(i, s) ==
  /\ Publish([kind |-> "status", id |-> i, status |-> s])
  /\ announced' = [announced EXCEPT ![i] = s]
  /\ missed' = (missed \cup Overwritten) \ {i}
  /\ UNCHANGED <<guiVars, spawned, manQ, answers, mgrVars, recent, chosen, crossed,
                 maker, hasty, gestures>>

\* poll_ports finds other ports, or a device has new values
Others(kind) ==
  /\ Publish([kind |-> kind])
  /\ missed' = missed \cup Overwritten
  /\ UNCHANGED <<guiVars, spawned, manQ, answers, mgrVars, announced, recent, chosen,
                 crossed, maker, hasty, gestures>>

-----------------------------------------------------------------------------
User ==
  \/ \E t \in DOMAIN tabs : ConfirmUpdate(t) \/ ConfirmDraft(t) \/ CloseTab(t)
  \/ \E t \in DOMAIN tabs, c \in Configs : EditConfig(t, c)
  \/ AddTab \/ HideWindow \/ TrayAction

Next ==
  \/ User \/ Frame \/ TakeCommand \/ ManagerEnds
  \/ \E t \in spawned : Sends(t) \/ SendFails(t)
  \/ \E i \in DOMAIN announced, s \in Statuses : Announce(i, s)
  \/ \E kind \in {"ports", "values"} : Others(kind)

Spec == Init /\ [][Next]_vars

(***************************************************************************)
(* eframe repaints at least every 100 ms, also when nothing happens; the   *)
(* runtime runs every task, and the manager takes every command: it waits  *)
(* for no device, as one that is stuck or never gets its port back would   *)
(* make it (DeviceManager, ManagerGoesOn).                                 *)
(***************************************************************************)
Fairness ==
  /\ WF_vars(Frame) /\ WF_vars(TakeCommand)
  /\ \A c \in Channels : WF_vars(\E t \in spawned : t.channel = c /\ (Sends(t) \/ SendFails(t)))

FairSpec == Spec /\ Fairness

-----------------------------------------------------------------------------
(* Properties                                                              *)

\* Nothing is on its way between the window and the manager.
Settled == spawned = {} /\ manQ = <<>> /\ mgr = "idle" /\ pending = {}

(***************************************************************************)
(* Every rig of the manager has its tab and every tab of a rig its rig,    *)
(* unless OK was pressed again, or the tab closed, before the answer came: *)
(* such a rig runs on without a tab (gui.rs:410).                          *)
(***************************************************************************)
RigsHaveTabs ==
  Settled =>
    /\ \A i \in DOMAIN rigs : TabsOf(i) # {} \/ maker[i] \in hasty
    /\ \A t \in DOMAIN tabs :
         tabs[t].rig # NoRig => IsRig(tabs[t].rig) /\ TabsOf(tabs[t].rig) = {t}

(***************************************************************************)
(* Once nothing is left to receive, at any moment of a frame, every tab    *)
(* shows the status last broadcast for its rig, unless that message was    *)
(* overwritten or came before the answer with the rig's id (gui.rs:704):   *)
(* nothing repeats it then.                                                *)
(***************************************************************************)
StatusShown ==
  bus = <<>> =>
    \A t \in DOMAIN tabs :
      LET i == tabs[t].rig IN
      i # NoRig => tabs[t].status = announced[i] \/ i \in missed

(***************************************************************************)
(* The configuration confirmed last is the one a rig has, unless two       *)
(* updates of it were on their way together: their tasks race (gui.rs:395).*)
(***************************************************************************)
LastConfirmedWins ==
  Settled => \A i \in DOMAIN rigs : rigs[i] = chosen[i] \/ i \in crossed

(***************************************************************************)
(* A creation that was confirmed is answered, or its tab a draft again:    *)
(* also when the manager is gone, but not when a device holds it up. A     *)
(* hidden window polls nothing.                                            *)
(***************************************************************************)
CreationSettles ==
  \A c \in Channels :
    (\E p \in pending : p.channel = c)
      ~> (window # "shown" \/ ~ \E p \in pending : p.channel = c)
=============================================================================
