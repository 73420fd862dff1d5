----------------------- MODULE DeviceManagerInvariant -----------------------
(***************************************************************************)
(* The inductive invariant of DeviceManager, in the parts its proofs use.  *)
(***************************************************************************)
EXTENDS DeviceManager

\* What is left when the process, or the manager alone, has ended.
EndedConsistent ==
  /\ mgr = "off" => rigs = <<>> /\ \A s \in Slots : tasks[s].phase = "free"
  /\ mgr \in {"off", "exited"} => \A i \in Ids : devices[i] = NoTask

\* A handle is that of a running device which was not told to end.
HandlesServe ==
  \A s \in Slots : tasks[s].handle =>
    /\ tasks[s].phase = "serving"
    /\ \A k \in 1..Len(tasks[s].queue) : tasks[s].queue[k] = "execute"

\* The map of devices has running devices of configured rigs.
MapConsistent ==
  \A i \in Ids : devices[i] # NoTask =>
    /\ tasks[devices[i]].handle /\ tasks[devices[i]].id = i
    /\ \E k \in 1..Len(rigs) :
         rigs[k].id = i /\ rigs[k].config = tasks[devices[i]].config

Ends(s) == mgr = "sending" /\ cur.to = s /\ cur.what = "shutdown"

\* Every handle is in the map, or taken out of it to be told to end.
HandlesInMap ==
  \A s \in Slots : tasks[s].handle => devices[tasks[s].id] = s \/ Ends(s)

\* What is being sent goes to a device whose handle is held.
SendConsistent ==
  mgr = "sending" =>
    /\ cur.to # NoTask /\ tasks[cur.to].handle
    /\ cur.what = "shutdown" => devices[tasks[cur.to].id] = NoTask

\* The rigs still to be opened are configured and have no device.
TodoConsistent ==
  /\ mgr \notin {"opening", "saving", "writing"} => todo = <<>>
  /\ mgr = "opening" => todo # <<>>
  /\ \A k \in 1..Len(todo) : devices[todo[k]] = NoTask /\ HasRig(todo[k])
  /\ \A j, k \in 1..Len(todo) : j # k => todo[j] # todo[k]

\* Every rig has its device, is still to be opened, was refused, or is being
\* removed.
RigsAccounted ==
  mgr # "exited" =>
    \A k \in 1..Len(rigs) :
      \/ devices[rigs[k].id] # NoTask \/ rigs[k].id \in refused
      \/ \E j \in 1..Len(todo) : todo[j] = rigs[k].id
      \/ mgr = "sending" /\ cur.what = "shutdown" /\ tasks[cur.to].id = rigs[k].id

FileConsistent ==
  /\ DistinctIds(file)
  /\ mgr \in {"idle", "opening", "sending"} => file = rigs

IInv ==
  /\ TypeOK
  /\ EndedConsistent
  /\ HandlesServe
  /\ MapConsistent
  /\ HandlesInMap
  /\ SendConsistent
  /\ TodoConsistent
  /\ RigsAccounted
  /\ FileConsistent
  /\ IdsAreFresh
=============================================================================
