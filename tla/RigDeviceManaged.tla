-------------------------- MODULE RigDeviceManaged --------------------------
(***************************************************************************)
(* A rig as RigDevice describes it is a device as DeviceManager knows it.  *)
(*                                                                         *)
(* DeviceManager has one step for what takes a rig several: it loses its   *)
(* port, and Disconnected is sent, when SerialDevice has announced it and  *)
(* goes on to drain its queue; it has ended when SerialDevice has.  What   *)
(* the manager knows of its other rigs does not matter here.  A rig whose  *)
(* tasks wait on each other is the stuck device of DeviceManager.          *)
(***************************************************************************)
EXTENDS RigDevice, FiniteSets

TheRig == [id |-> 0, config |-> "config"]
ThePort == "port"

Closing == task \in {"closing", "done"}

\* The port as long as SerialDevice uses it
PortInUse == IF serial \in {"drain", "reopen"} THEN "closed" ELSE port

\* The Disconnected messages of a channel
DisconnectedIn(m) == {i \in 1..Len(m) : m[i] = "Disconnected"}

Lost == IF Closing THEN 0 ELSE Cardinality(DisconnectedIn(msgs))

\* The commands of a channel, whatever the requests are
Kind(c) == IF c = "shutdown" THEN "shutdown" ELSE "execute"
Kinds(q) == [i \in 1..Len(q) |-> Kind(q[i])]

\* The tasks wait on each other, whatever becomes of the port: DeviceTask in a read, or
\* with a channel that is full when it sends a read or Shutdown.  (Before a write the
\* script may still fail by itself.)
Stuck == CircularWait /\ (task = "run" => Script(job)[pos + 1] = "read")

NoDevice ==
  [id |-> 0, config |-> "config", phase |-> "free", handle |-> FALSE, port |-> "closed",
   lost |-> 0, status |-> "Connecting", queue |-> <<>>, stuck |-> FALSE]

Device ==
  IF serial = "done" THEN NoDevice
  ELSE [id |-> 0, config |-> "config", phase |-> IF Closing THEN "closing" ELSE "serving",
        handle |-> handle = "held", port |-> PortInUse, lost |-> Lost, status |-> status,
        queue |-> Kinds(taskQ), stuck |-> Stuck]

Plugged == IF link = "unplugged" THEN {} ELSE {ThePort}

Manager == INSTANCE DeviceManager
  WITH Configs <- {"config"}, Known <- {"config"}, Ports <- {ThePort},
       PortOf <- [c \in {"config"} |-> ThePort], SavedRigs <- {}, TaskCap <- TaskCap,
       MaxIds <- 1, MaxTasks <- 1, MaxLost <- MessageCap, MaxCommands <- 0, MaxCrashes <- 0,
       tasks <- [s \in 1..1 |-> Device], plugged <- Plugged,
       shown <- [i \in 0..0 |-> status],
       file <- <<TheRig>>, mgr <- "idle", rigs <- <<TheRig>>, nextId <- 1,
       devices <- [i \in 0..0 |-> 1], todo <- <<>>, cur <- [to |-> 0, what |-> "execute"],
       refused <- {}, commands <- 0, crashes <- 0

\* What the manager does to the device of a rig: it sends it a command, or Shutdown, or
\* drops its handle.
Managed ==
  /\ Device.handle
  /\ Manager!Receives(1, "execute") \/ Manager!Receives(1, "shutdown") \/ Manager!DropHandle(1)
  /\ UNCHANGED <<Plugged, status>>

(***************************************************************************)
(* Whatever a rig goes through, outages, timeouts, drains, its removal and *)
(* its replacement, DeviceManager has a step for it: of the device, of its *)
(* port, or of the manager.  So what holds of all rigs in DeviceManager    *)
(* holds of rigs that are made of a DeviceTask and a SerialDevice.         *)
(***************************************************************************)
ActsAsManaged ==
  /\ Device = Manager!NewTask(TheRig) /\ Plugged = {ThePort}
  /\ [][\/ Manager!DeviceStep(1) \/ Managed
        \/ Manager!Unplug(ThePort) \/ Manager!Plug(ThePort)]_<<Device, Plugged, status>>
=============================================================================
