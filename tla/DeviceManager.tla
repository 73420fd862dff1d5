---------------------------- MODULE DeviceManager ----------------------------
(***************************************************************************)
(* The device manager of HolyRig (serial/manager.rs): which rigs are       *)
(* configured, which have a device, and how the settings survive.          *)
(*                                                                         *)
(* A device is a pair of tasks, DeviceTask and SerialDevice, that owns a   *)
(* serial port nobody else can open.  RigDevice describes the inside of    *)
(* one; here a device only has what the manager and the other devices      *)
(* depend on.  The manager keeps a handle on the device of each rig.  A    *)
(* device whose handle is dropped ends when it gets to it: until then it   *)
(* lives beside the device that replaces it.                               *)
(*                                                                         *)
(* The manager takes one command at a time.  Between its awaits and writes *)
(* the devices, the ports and a crash of the process take their turns.     *)
(***************************************************************************)
EXTENDS Naturals, Sequences, FiniteSets

CONSTANTS
  Configs,      \* rig configurations (RigConfig)
  Ports,        \* serial ports
  PortOf,       \* the port a configuration names
  Known,        \* the configurations of a rig type there is a rig file for
  SavedRigs,    \* the settings a run of the program may find on disk
  TaskCap,      \* capacity of a device's channel of task commands (16)
  MaxIds,       \* bound: rig ids are below it
  MaxTasks,     \* bound: devices alive at a time
  MaxLost,      \* bound: Disconnected messages in a device's channel, which
                \* SerialDevice waits for room in
  MaxCommands,  \* bound: commands the manager takes
  MaxCrashes    \* bound: crashes of the process

Ids == 0..(MaxIds - 1)
Slots == 1..MaxTasks
NoTask == 0
Rig == [id : Ids, config : Configs]

DistinctIds(s) == \A j, k \in 1..Len(s) : j # k => s[j].id # s[k].id

ASSUME ConfigsAssumption ==
  Configs # {} /\ Known \subseteq Configs /\ PortOf \in [Configs -> Ports]

ASSUME SavedAssumption == \A s \in SavedRigs : s \in Seq(Rig) /\ DistinctIds(s)

ASSUME BoundsAssumption ==
  /\ TaskCap \in Nat \ {0}
  /\ MaxIds \in Nat \ {0} /\ MaxTasks \in Nat \ {0} /\ MaxLost \in Nat \ {0}
  /\ MaxCommands \in Nat /\ MaxCrashes \in Nat

VARIABLES
  \* the world
  file,      \* the rigs of rigs.toml; none when it is absent or unreadable
  plugged,   \* the ports there are
  \* DeviceManager
  mgr,       \* where it is: "off", "opening" devices, "idle" in select!,
             \* "sending" to a device, about to save ("saving"), with the file
             \* truncated ("writing"), "exited" its loop
  rigs,      \* settings.rigs
  nextId,    \* settings.next_id
  devices,   \* devices: the device each rig has, or NoTask
  todo,      \* the rigs whose device is still to be added
  cur,       \* what it is sending: to which device, and what
  \* the devices
  tasks,
  \* the rest of the program
  shown,     \* the ConnectionStatus last broadcast for each rig
  \* history and bounds
  refused,   \* rigs whose last add_device failed
  commands, crashes

mgrVars == <<mgr, rigs, nextId, devices, todo, cur, refused, commands>>
vars == <<file, plugged, mgr, rigs, nextId, devices, todo, cur, tasks,
          shown, refused, commands, crashes>>

(***************************************************************************)
(* A device: its rig and configuration, whether DeviceTask still runs      *)
(* ("serving") or only SerialDevice ("closing"), whether the manager holds *)
(* its handle, its port ("open", "broken" when the node is gone, "closed"  *)
(* while SerialDevice tries to reopen it), how many Disconnected DeviceTask *)
(* has not received, DeviceTask.status and its command channel; and        *)
(* whether its two tasks wait on each other for ever (RigDevice's          *)
(* CircularWait): such a device keeps its port and does nothing more.      *)
(***************************************************************************)
Task == [id : Ids, config : Configs, phase : {"free", "serving", "closing"},
         handle : BOOLEAN, port : {"open", "broken", "closed"}, lost : 0..MaxLost,
         status : {"Connecting", "Connected"}, queue : Seq({"execute", "shutdown"}),
         stuck : BOOLEAN]

FreeTask ==
  [id |-> 0, config |-> CHOOSE c \in Configs : TRUE, phase |-> "free",
   handle |-> FALSE, port |-> "closed", lost |-> 0,
   status |-> "Connecting", queue |-> <<>>, stuck |-> FALSE]

NewTask(r) ==
  [FreeTask EXCEPT !.id = r.id, !.config = r.config, !.phase = "serving",
                   !.handle = TRUE, !.port = "open"]

NothingToSend == [to |-> NoTask, what |-> "execute"]

\* The port is there and no device has it open: it can be opened.  A dead file holds
\* nothing.
Openable(p) ==
  /\ p \in plugged
  /\ \A s \in Slots : PortOf[tasks[s].config] = p => tasks[s].port # "open"

\* A device for configuration c can be started now.
CanStart(c) == c \in Known /\ Openable(PortOf[c])

\* Settings::get_rig
HasRig(i) == \E k \in 1..Len(rigs) : rigs[k].id = i
GetRig(i) == rigs[CHOOSE k \in 1..Len(rigs) : rigs[k].id = i]

\* Settings::compute_next_id, over the rigs read from the file; and, as a mistake,
\* one that takes their ids to be 0, 1, ... without a gap
CountIds(rs) == Len(rs)

ComputeNextId(rs) ==
  IF rs = <<>> THEN 0
  ELSE 1 + (CHOOSE m \in Ids : /\ \E k \in 1..Len(rs) : rs[k].id = m
                               /\ \A k \in 1..Len(rs) : rs[k].id <= m)

IdsOf(rs) == [k \in 1..Len(rs) |-> rs[k].id]

\* Settings::remove_rig
Without(rs, i) ==
  IF \E k \in 1..Len(rs) : rs[k].id = i
  THEN LET pos == CHOOSE k \in 1..Len(rs) : rs[k].id = i
       IN  [k \in 1..(Len(rs) - 1) |-> IF k < pos THEN rs[k] ELSE rs[k + 1]]
  ELSE rs

Init ==
  /\ file \in SavedRigs
  /\ plugged = Ports
  /\ mgr = "off" /\ rigs = <<>> /\ nextId = 0
  /\ devices = [i \in Ids |-> NoTask]
  /\ todo = <<>> /\ cur = NothingToSend
  /\ tasks = [s \in Slots |-> FreeTask]
  /\ shown = [i \in Ids |-> "Connecting"]
  /\ refused = {} /\ commands = 0 /\ crashes = 0

-----------------------------------------------------------------------------
(* Steps shared by several actions.                                        *)

Takes ==
  /\ mgr = "idle" /\ commands < MaxCommands
  /\ commands' = commands + 1

\* The handle of device s is dropped, if there is such a device.
DropHandle(s) ==
  tasks' = [t \in Slots |-> IF t = s THEN [tasks[t] EXCEPT !.handle = FALSE]
                                     ELSE tasks[t]]

\* DeviceTask runs, and SerialDevice with it.
Serves(s) == tasks[s].phase = "serving" /\ ~ tasks[s].stuck

\* Of a device that ends, SerialDevice still runs.
Closes(s) == tasks[s].phase = "closing" /\ ~ tasks[s].stuck

\* DeviceTask ends, and with it what it would have received.
Ended(t) == [t EXCEPT !.phase = "closing", !.lost = 0]

\* Device s becomes t; if it has its port, its tasks may then wait on each other.
Becomes(s, t) ==
  \E b \in BOOLEAN :
    /\ b => t.port # "closed"
    /\ tasks' = [tasks EXCEPT ![s] = [t EXCEPT !.stuck = b]]

\* Device s is sent a command; after Shutdown the handle is dropped.
Receives(s, what) ==
  /\ Len(tasks[s].queue) < TaskCap
  /\ tasks' = [tasks EXCEPT ![s].queue = Append(@, what),
                            ![s].handle = IF what = "shutdown" THEN FALSE ELSE @]

\* settings.rigs is to be saved, and then the devices of is added.
SaveThenAdd(is) == mgr' = "saving" /\ todo' = is

OpensOrIdles(is) == mgr' = IF is = <<>> THEN "idle" ELSE "opening"

-----------------------------------------------------------------------------
(***************************************************************************)
(* Variants of the definitions below, each with a mistake that a change of *)
(* the code could bring.  Next uses none of them: they show that the       *)
(* properties at the end of this module notice such a change.              *)
(***************************************************************************)

\* The new device replaces the old one in the map when it has been opened.
UpdateDeviceKeeps(i, c) ==
  /\ Takes
  /\ ~ \E k \in 1..Len(rigs) : rigs[k] = [id |-> i, config |-> c]
  /\ rigs' = [k \in 1..Len(rigs) |->
                IF rigs[k].id = i THEN [rigs[k] EXCEPT !.config = c] ELSE rigs[k]]
  /\ SaveThenAdd(IF HasRig(i) THEN <<i>> ELSE <<>>)
  /\ UNCHANGED <<file, plugged, nextId, devices, cur, tasks, shown, refused,
                 crashes>>

\* One port that does not open ends the loop over the rigs.
AddDeviceFailsAll ==
  /\ mgr = "opening"
  /\ ~ CanStart(GetRig(Head(todo)).config)
  /\ refused' = refused \cup {Head(todo)}
  /\ todo' = <<>> /\ mgr' = "idle"
  /\ UNCHANGED <<file, plugged, rigs, nextId, devices, cur, tasks, shown,
                 commands, crashes>>

\* Settings that could not be saved are only logged.
SaveFailsLogged ==
  /\ mgr \in {"saving", "writing"}
  /\ OpensOrIdles(todo)
  /\ UNCHANGED <<file, plugged, rigs, nextId, devices, todo, cur, tasks, shown,
                 refused, commands, crashes>>

\* A device in an outage leaves its commands for later.
TaskTakesConnected(s) ==
  /\ Serves(s) /\ tasks[s].queue # <<>>
  /\ tasks[s].status = "Connected"
  /\ LET t == [tasks[s] EXCEPT !.queue = Tail(@)] IN
     tasks' = [tasks EXCEPT ![s] = IF Head(tasks[s].queue) = "shutdown" THEN Ended(t) ELSE t]
  /\ UNCHANGED <<file, plugged, mgrVars, shown, crashes>>

\* A closed command channel is not noticed, as in the manager's own select!.
TaskDroppedIgnored(s) ==
  /\ Serves(s) /\ tasks[s].queue = <<>> /\ ~ tasks[s].handle
  /\ UNCHANGED vars

-----------------------------------------------------------------------------
(* The ports                                                               *)

\* A port that goes leaves those who have it open with a dead file.
Unplug(p) ==
  /\ p \in plugged
  /\ plugged' = plugged \ {p}
  /\ tasks' = [s \in Slots |->
       IF PortOf[tasks[s].config] = p /\ tasks[s].port = "open"
       THEN [tasks[s] EXCEPT !.port = "broken"] ELSE tasks[s]]
  /\ UNCHANGED <<file, mgrVars, shown, crashes>>

\* Its name is given again, at once or when the dead files are closed.
Plug(p) ==
  /\ p \notin plugged
  /\ plugged' = plugged \cup {p}
  /\ UNCHANGED <<file, mgrVars, tasks, shown, crashes>>

-----------------------------------------------------------------------------
(* A device, as much of it as the manager and the other devices see        *)

\* handle_error and attempt_reconnect: an error, of which DeviceTask will hear
SerialLoses(s) ==
  /\ tasks[s].port # "closed"
  /\ \/ /\ Serves(s) /\ tasks[s].lost < MaxLost
        /\ tasks' = [tasks EXCEPT ![s].port = "closed", ![s].lost = @ + 1]
     \/ /\ Closes(s)
        /\ tasks' = [tasks EXCEPT ![s].port = "closed"]
  /\ UNCHANGED <<file, plugged, mgrVars, shown, crashes>>

\* attempt_reconnect, with the configuration the device was created with
SerialReopens(s) ==
  /\ tasks[s].phase # "free" /\ tasks[s].port = "closed"
  /\ Openable(PortOf[tasks[s].config])
  /\ Becomes(s, [tasks[s] EXCEPT !.port = "open"])
  /\ UNCHANGED <<file, plugged, mgrVars, shown, crashes>>

\* poll_status succeeds and sets and broadcasts the status; the port may have gone
\* after the last answer.
TaskConnected(s) ==
  /\ Serves(s) /\ tasks[s].port # "closed"
  /\ tasks[s].status = "Connecting"
  /\ tasks' = [tasks EXCEPT ![s].status = "Connected"]
  /\ shown' = [shown EXCEPT ![tasks[s].id] = "Connected"]
  /\ UNCHANGED <<file, plugged, mgrVars, crashes>>

\* Disconnected is received
TaskDisconnected(s) ==
  /\ Serves(s) /\ tasks[s].lost > 0
  /\ tasks' = [tasks EXCEPT ![s].status = "Connecting", ![s].lost = @ - 1]
  /\ shown' = [shown EXCEPT ![tasks[s].id] = "Connecting"]
  /\ UNCHANGED <<file, plugged, mgrVars, crashes>>

\* A command is received, and answered in any way; Shutdown ends DeviceTask.
TaskTakes(s) ==
  /\ Serves(s) /\ tasks[s].queue # <<>>
  /\ LET t == [tasks[s] EXCEPT !.queue = Tail(@)] IN
     IF Head(tasks[s].queue) = "shutdown" THEN Becomes(s, Ended(t))
                                          ELSE tasks' = [tasks EXCEPT ![s] = t]
  /\ UNCHANGED <<file, plugged, mgrVars, shown, crashes>>

\* The command channel is closed and empty
TaskDropped(s) ==
  /\ Serves(s) /\ tasks[s].queue = <<>> /\ ~ tasks[s].handle
  /\ Becomes(s, Ended(tasks[s]))
  /\ UNCHANGED <<file, plugged, mgrVars, shown, crashes>>

\* SerialDevice ends, but not while it tries to reopen its port
SerialEnds(s) ==
  /\ Closes(s) /\ tasks[s].port # "closed"
  /\ tasks' = [tasks EXCEPT ![s] = FreeTask]
  /\ UNCHANGED <<file, plugged, mgrVars, shown, crashes>>

\* The two tasks come to wait on each other.  Other steps after which they may are
\* the reopening, which SerialDevice goes on to announce, and the end of DeviceTask.
Sticks(s) ==
  /\ Serves(s) \/ Closes(s)
  /\ tasks[s].port # "closed"
  /\ tasks' = [tasks EXCEPT ![s].stuck = TRUE]
  /\ UNCHANGED <<file, plugged, mgrVars, shown, crashes>>

DeviceStep(s) ==
  \/ SerialLoses(s) \/ SerialReopens(s) \/ SerialEnds(s)
  \/ TaskConnected(s) \/ TaskDisconnected(s) \/ TaskTakes(s) \/ TaskDropped(s)
  \/ Sticks(s)

-----------------------------------------------------------------------------
(* The device manager                                                      *)

\* DeviceManager::new reads the settings; run starts with start_devices
Start ==
  /\ mgr = "off"
  /\ rigs' = file /\ nextId' = ComputeNextId(file)
  /\ todo' = IdsOf(file) /\ OpensOrIdles(todo')
  /\ UNCHANGED <<file, plugged, devices, cur, tasks, shown, refused, commands,
                 crashes>>

\* add_device, for the next rig of todo: its rig type is known and its port opens
AddDevice ==
  /\ mgr = "opening"
  /\ LET i == Head(todo) IN
       /\ CanStart(GetRig(i).config)
       /\ \E s \in Slots :
            /\ tasks[s].phase = "free"
            /\ \A t \in 1..(s - 1) : tasks[t].phase # "free"
            /\ tasks' = [tasks EXCEPT ![s] = NewTask(GetRig(i))]
            /\ devices' = [devices EXCEPT ![i] = s]
       /\ refused' = refused \ {i}
  /\ todo' = Tail(todo) /\ OpensOrIdles(todo')
  /\ UNCHANGED <<file, plugged, rigs, nextId, cur, shown, commands, crashes>>

\* add_device fails, which is only logged
AddDeviceFails ==
  /\ mgr = "opening"
  /\ ~ CanStart(GetRig(Head(todo)).config)
  /\ refused' = refused \cup {Head(todo)}
  /\ todo' = Tail(todo) /\ OpensOrIdles(todo')
  /\ UNCHANGED <<file, plugged, rigs, nextId, devices, cur, tasks, shown,
                 commands, crashes>>

CreateDevice(c) ==
  /\ Takes /\ nextId < MaxIds
  /\ rigs' = Append(rigs, [id |-> nextId, config |-> c])
  /\ nextId' = nextId + 1
  /\ SaveThenAdd(<<nextId>>)
  /\ UNCHANGED <<file, plugged, devices, cur, tasks, shown, refused, crashes>>

\* The same configuration again changes nothing, whether there is a device or not.
UpdateDevice(i, c) ==
  /\ Takes
  /\ ~ \E k \in 1..Len(rigs) : rigs[k] = [id |-> i, config |-> c]
  /\ DropHandle(devices[i])
  /\ devices' = [devices EXCEPT ![i] = NoTask]
  /\ rigs' = [k \in 1..Len(rigs) |->
                IF rigs[k].id = i THEN [rigs[k] EXCEPT !.config = c] ELSE rigs[k]]
  /\ SaveThenAdd(IF HasRig(i) THEN <<i>> ELSE <<>>)
  /\ UNCHANGED <<file, plugged, nextId, cur, shown, refused, crashes>>

\* The handle is out of the map before Shutdown is sent
RemoveDevice(i) ==
  /\ Takes
  /\ devices' = [devices EXCEPT ![i] = NoTask]
  /\ IF devices[i] # NoTask
     THEN /\ mgr' = "sending" /\ cur' = [to |-> devices[i], what |-> "shutdown"]
          /\ UNCHANGED <<rigs, todo>>
     ELSE /\ rigs' = Without(rigs, i) /\ SaveThenAdd(<<>>)
          /\ UNCHANGED cur
  /\ UNCHANGED <<file, plugged, nextId, tasks, shown, refused, crashes>>

\* Of a rig without a device only the answer knows
ExecuteCommand(i) ==
  /\ Takes /\ devices[i] # NoTask
  /\ mgr' = "sending" /\ cur' = [to |-> devices[i], what |-> "execute"]
  /\ UNCHANGED <<file, plugged, rigs, nextId, devices, todo, tasks, shown,
                 refused, crashes>>

\* task_command_tx.send(ExecuteCommand).await: the manager waits for room
Deliver ==
  /\ mgr = "sending" /\ cur.what = "execute"
  /\ Receives(cur.to, "execute")
  /\ mgr' = "idle" /\ cur' = NothingToSend
  /\ UNCHANGED <<file, plugged, rigs, nextId, devices, todo, shown, refused,
                 commands, crashes>>

\* task_command_tx.send(Shutdown).await; then the handle is dropped and the rig
\* leaves the settings
DeliverShutdown ==
  /\ mgr = "sending" /\ cur.what = "shutdown"
  /\ Receives(cur.to, "shutdown")
  /\ rigs' = Without(rigs, tasks[cur.to].id)
  /\ SaveThenAdd(<<>>) /\ cur' = NothingToSend
  /\ UNCHANGED <<file, plugged, nextId, devices, shown, refused, commands, crashes>>

\* std::fs::write truncates the file, then writes it
SaveTruncates ==
  /\ mgr = "saving"
  /\ mgr' = "writing" /\ file' = <<>>
  /\ UNCHANGED <<plugged, rigs, nextId, devices, todo, cur, tasks, shown, refused,
                 commands, crashes>>

SaveWrites ==
  /\ mgr = "writing"
  /\ file' = rigs /\ OpensOrIdles(todo)
  /\ UNCHANGED <<plugged, rigs, nextId, devices, todo, cur, tasks, shown, refused,
                 commands, crashes>>

\* An error of std::fs::write ends run: the manager is gone, with every handle.
SaveFails ==
  /\ mgr \in {"saving", "writing"}
  /\ mgr' = "exited" /\ todo' = <<>>
  /\ devices' = [i \in Ids |-> NoTask]
  /\ tasks' = [s \in Slots |-> [tasks[s] EXCEPT !.handle = FALSE]]
  /\ UNCHANGED <<file, plugged, rigs, nextId, cur, shown, refused, commands,
                 crashes>>

\* The process ends, at any moment; the file is what is left of it.
Crash ==
  /\ mgr # "off" /\ crashes < MaxCrashes
  /\ crashes' = crashes + 1
  /\ mgr' = "off" /\ rigs' = <<>> /\ nextId' = 0
  /\ devices' = [i \in Ids |-> NoTask]
  /\ todo' = <<>> /\ cur' = NothingToSend
  /\ tasks' = [s \in Slots |-> FreeTask]
  /\ shown' = [i \in Ids |-> "Connecting"]
  /\ refused' = {}
  /\ UNCHANGED <<file, plugged, commands>>

ManagerContinues ==
  \/ AddDevice \/ AddDeviceFails \/ Deliver \/ DeliverShutdown
  \/ SaveTruncates \/ SaveWrites

Command ==
  \/ \E c \in Configs : CreateDevice(c)
  \/ \E i \in Ids, c \in Configs : UpdateDevice(i, c)
  \/ \E i \in Ids : RemoveDevice(i) \/ ExecuteCommand(i)

Next ==
  \/ Start \/ ManagerContinues \/ SaveFails \/ Command \/ Crash
  \/ \E p \in Ports : Unplug(p) \/ Plug(p)
  \/ \E s \in Slots : DeviceStep(s)

Spec == Init /\ [][Next]_vars

-----------------------------------------------------------------------------
(* Types and safety                                                        *)

(***************************************************************************)
(* Every variable stays in its range; no channel of task commands exceeds  *)
(* its capacity.                                                           *)
(***************************************************************************)
TypeOK ==
  /\ file \in Seq(Rig) /\ rigs \in Seq(Rig)
  /\ plugged \subseteq Ports
  /\ mgr \in {"off", "opening", "idle", "sending", "saving", "writing", "exited"}
  /\ nextId \in 0..MaxIds
  /\ devices \in [Ids -> Slots \cup {NoTask}]
  /\ todo \in Seq(Ids)
  /\ cur \in [to : Slots \cup {NoTask}, what : {"execute", "shutdown"}]
  /\ tasks \in [Slots -> Task]
  /\ \A s \in Slots : Len(tasks[s].queue) <= TaskCap
  /\ shown \in [Ids -> {"Connecting", "Connected"}]
  /\ refused \subseteq Ids
  /\ commands \in 0..MaxCommands /\ crashes \in 0..MaxCrashes

\* The devices the manager holds a handle of.
Held(s) == tasks[s].phase # "free" /\ tasks[s].handle

(***************************************************************************)
(* The map of devices, the settings and the tasks agree in every state,    *)
(* also while a command is half done: the device of a rig runs, with the   *)
(* configuration the settings have for it; and no device but those of the  *)
(* map, and the one Shutdown is being sent to, is kept alive by a handle.  *)
(***************************************************************************)
DevicesMatchSettings ==
  /\ \A i \in Ids : devices[i] # NoTask =>
       LET t == tasks[devices[i]] IN
         /\ t.phase = "serving" /\ t.handle /\ t.id = i
         /\ \E k \in 1..Len(rigs) : rigs[k] = [id |-> i, config |-> t.config]
  /\ \A s \in Slots : Held(s) =>
       \/ devices[tasks[s].id] = s
       \/ mgr = "sending" /\ cur = [to |-> s, what |-> "shutdown"]

(***************************************************************************)
(* A rig's id is its own: no two rigs share one, and the next to be given  *)
(* is above that of every rig and of every device still running, whatever  *)
(* was removed, lost or restarted.  What a removed rig still broadcasts is *)
(* never taken for another's.                                              *)
(***************************************************************************)
IdsAreFresh ==
  /\ DistinctIds(rigs)
  /\ \A k \in 1..Len(rigs) : rigs[k].id < nextId
  /\ \A s \in Slots : tasks[s].phase # "free" => tasks[s].id < nextId

(***************************************************************************)
(* When the manager waits for the next command every rig has its device,   *)
(* except those whose own rig type or port failed when it was last tried:  *)
(* one that fails costs no other rig its device.                           *)
(***************************************************************************)
NoneForgotten ==
  mgr = "idle" => \A k \in 1..Len(rigs) : \/ devices[rigs[k].id] # NoTask
                                           \/ rigs[k].id \in refused

(***************************************************************************)
(* When the manager waits for the next command, a restart would bring back *)
(* exactly the rigs it has: after any create, update and remove, and after *)
(* a start from any file.                                                  *)
(***************************************************************************)
SavedWhenIdle == mgr = "idle" => file = rigs

-----------------------------------------------------------------------------
(* Fairness and liveness                                                   *)

\* DeviceTask and SerialDevice go on when the port is not being reopened: while
\* it is, the task may be in a read() that ends with the reopening.
HasPort(s) == tasks[s].port # "closed"

(***************************************************************************)
(* The runtime schedules the manager and every task that is not caught in  *)
(* a circular wait; the attempts to reopen a port are repeated.  Strong    *)
(* fairness: select! picks at random among the ready branches, and a       *)
(* device has a chance to go on at each reconnection.  Nothing is assumed  *)
(* of the commands, the ports, the disk, the radios and the user, nor of a *)
(* stuck device, none of whose steps is enabled.                           *)
(***************************************************************************)
FairSpec ==
  /\ Spec
  /\ WF_vars(ManagerContinues)
  /\ \A s \in Slots :
       /\ SF_vars(HasPort(s) /\ TaskDisconnected(s))
       /\ SF_vars(HasPort(s) /\ (TaskTakes(s) \/ TaskDropped(s)))
       /\ SF_vars(SerialEnds(s))
       /\ WF_vars(SerialReopens(s))
       /\ WF_vars(tasks[s].port = "broken" /\ SerialLoses(s))

\* The ports stop changing in the end.
PortsSettle == <>[][UNCHANGED plugged]_vars

\* No device is without its port for ever.
PortsReturn == \A s \in Slots : []<>(tasks[s].phase = "free" \/ tasks[s].port # "closed")

\* No two tasks of a device ever wait on each other.
NoneStuck == [](\A s \in Slots : ~ tasks[s].stuck)

\* A poll succeeds or fails: what the radio sends is never misread for ever.
TaskPolls(s) ==
  \/ TaskConnected(s)
  \/ Serves(s) /\ tasks[s].status = "Connecting" /\ SerialLoses(s)

PollsDecide == \A s \in Slots : WF_vars(TaskPolls(s))

(***************************************************************************)
(* What can hold up the manager for good, which waits for room in a        *)
(* device's channel and takes no other command meanwhile, is a device that *)
(* never gets its port back or one whose two tasks wait on each other; a   *)
(* device in an outage, or as often in one as may be, does not.            *)
(***************************************************************************)
ManagerGoesOn ==
  PortsReturn => []<>(mgr = "sending" => tasks[cur.to].stuck)

(***************************************************************************)
(* A device whose handle is dropped, by Shutdown, by an update or by the   *)
(* end of the manager itself, ends and frees its port, unless its two      *)
(* tasks come to wait on each other: then it keeps its port for ever.      *)
(***************************************************************************)
DroppedEnds ==
  PortsReturn =>
    \A s \in Slots :
      []<>(tasks[s].phase # "free" /\ ~ tasks[s].handle => tasks[s].stuck)

(***************************************************************************)
(* In the end the status last broadcast for a rig is that of its device:   *)
(* what list_rigs answers is the connection state.                         *)
(***************************************************************************)
ShownSettles ==
  PortsSettle /\ NoneStuck /\ PollsDecide =>
    \A i \in Ids :
      <>[](devices[i] # NoTask => shown[i] = tasks[devices[i]].status)

(***************************************************************************)
(* A rig without a device is not shown as Connected for ever, while its    *)
(* rig type is known, its port is there and the manager runs.              *)
(***************************************************************************)
ConnectedIsServed ==
  PortsSettle /\ NoneStuck =>
    \A i \in Ids :
      shown[i] = "Connected"
        ~> \/ shown[i] # "Connected" \/ devices[i] # NoTask
           \/ ~ HasRig(i) \/ GetRig(i).config \notin Known
           \/ PortOf[GetRig(i).config] \notin plugged
           \/ mgr = "exited"
=============================================================================
