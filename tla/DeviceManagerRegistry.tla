------------------------ MODULE DeviceManagerRegistry ------------------------
(***************************************************************************)
(* DeviceManager implements RigRegistry.                                   *)
(***************************************************************************)
EXTENDS DeviceManager

\* A list of rigs, whatever their order
ById(rs) ==
  [i \in {rs[k].id : k \in 1..Len(rs)} |->
     rs[CHOOSE k \in 1..Len(rs) : rs[k].id = i].config]

Phase ==
  CASE mgr = "off" -> "off"
    [] mgr \in {"opening", "idle", "sending"} -> "on"
    [] mgr \in {"saving", "writing"} -> "saving"
    [] mgr = "exited" -> "ended"

Served == {i \in Ids : devices[i] # NoTask}

Leaving ==
  IF mgr = "sending" /\ cur.what = "shutdown" THEN {tasks[cur.to].id} ELSE {}

Registry == INSTANCE RigRegistry
  WITH Found <- {ById(s) : s \in SavedRigs}, phase <- Phase, rigs <- ById(rigs),
       given <- {i \in Ids : i < nextId}, served <- Served, leaving <- Leaving,
       kept <- ById(file)

(***************************************************************************)
(* The manager keeps the promises of RigRegistry through awaits in the     *)
(* midst of a command, devices that fail to start, ports that go, saves    *)
(* that fail and crashes: ids are new, commands do not mix, a rig that is  *)
(* changed or removed loses its device first, and what a restart finds are *)
(* the rigs as the last command left them, or, when it was cut off in its  *)
(* save, as they were before it, or none.                                  *)
(***************************************************************************)
KeepsRegistry == Registry!Spec
=============================================================================
