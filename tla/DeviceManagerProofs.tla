------------------------ MODULE DeviceManagerProofs ------------------------
(***************************************************************************)
(* Proofs of the safety properties of DeviceManager, for any ports,        *)
(* configurations, saved settings and bounds.                              *)
(***************************************************************************)
EXTENDS DeviceManagerInvariant, DeviceManagerRegistry, WellFoundedInduction, TLAPS

(* The next id is above every id read from the file.                       *)
LEMMA NextIdIsAbove ==
  ASSUME NEW rs \in Seq(Rig)
  PROVE  /\ ComputeNextId(rs) \in 0..MaxIds
         /\ \A k \in 1..Len(rs) : rs[k].id < ComputeNextId(rs)
<1> USE BoundsAssumption
<1>0. \A k \in 1..Len(rs) : rs[k].id \in Nat /\ rs[k].id < MaxIds
  <2> SUFFICES ASSUME NEW k \in 1..Len(rs)
               PROVE  rs[k].id \in Nat /\ rs[k].id < MaxIds
    OBVIOUS
  <2>1. rs[k] \in Rig
    OBVIOUS
  <2>2. rs[k].id \in Ids
    BY <2>1 DEF Rig
  <2> QED BY <2>2 DEF Ids
<1>1. CASE rs = <<>>
  BY <1>1 DEF ComputeNextId
<1>2. CASE rs # <<>>
  <2> DEFINE Above == {n \in 0..MaxIds : \A k \in 1..Len(rs) : rs[k].id < n}
             IsLast(m) == /\ \E k \in 1..Len(rs) : rs[k].id = m
                          /\ \A k \in 1..Len(rs) : rs[k].id <= m
  <2>1. MaxIds \in Above
    BY <1>0
  <2>2. \E n \in Above : \A m \in Above : n <= m
    <3>1. \A n \in Above : n \in Nat
      OBVIOUS
    <3> HIDE DEF Above
    <3>2. Above \in SUBSET Nat /\ Above # {}
      BY <2>1, <3>1
    <3>3. PICK n \in Above : \A m \in Above : <<m, n>> \notin OpToRel(<, Nat)
      BY <3>2, WFMin, NatLessThanWellFounded
    <3>4. \A m \in Above : ~ (m < n)
      BY <3>2, <3>3 DEF OpToRel
    <3> QED BY <3>2, <3>4
  <2>22. PICK n \in Above : \A m \in Above : n <= m
    BY <2>2
  <2>3. 1 \in 1..Len(rs)
    BY <1>2
  <2>4. n > 0 /\ n \in Nat
    BY <1>0, <2>3
  <2>5. n - 1 \notin Above
    BY <2>22, <2>4
  <2>6. \E k \in 1..Len(rs) : ~ (rs[k].id < n - 1)
    BY <2>4, <2>5
  <2>7. IsLast(n - 1) /\ n - 1 \in Ids
    BY <1>0, <2>4, <2>6 DEF Ids
  <2> DEFINE last == CHOOSE m \in Ids : IsLast(m)
  <2>8. last \in Ids /\ IsLast(last)
    BY <2>7
  <2>9. ComputeNextId(rs) = 1 + last
    BY <1>2 DEF ComputeNextId
  <2> HIDE DEF last
  <2> QED BY <1>0, <2>8, <2>9 DEF Ids
<1> QED BY <1>1, <1>2

(* Removing a rig removes that one and no other.                           *)
LEMMA WithoutRemoves ==
  ASSUME NEW rs \in Seq(Rig), NEW i \in Ids, DistinctIds(rs)
  PROVE  /\ Without(rs, i) \in Seq(Rig)
         /\ DistinctIds(Without(rs, i))
         /\ \A k \in 1..Len(Without(rs, i)) :
              /\ Without(rs, i)[k].id # i
              /\ \E j \in 1..Len(rs) : rs[j] = Without(rs, i)[k]
         /\ \A j \in 1..Len(rs) : rs[j].id # i =>
              \E k \in 1..Len(Without(rs, i)) : Without(rs, i)[k] = rs[j]
<1>1. CASE ~ \E k \in 1..Len(rs) : rs[k].id = i
  BY <1>1 DEF Without
<1>2. CASE \E k \in 1..Len(rs) : rs[k].id = i
  <2> DEFINE pos == CHOOSE k \in 1..Len(rs) : rs[k].id = i
             out == [k \in 1..(Len(rs) - 1) |-> IF k < pos THEN rs[k] ELSE rs[k + 1]]
  <2>1. pos \in 1..Len(rs) /\ rs[pos].id = i
    BY <1>2
  <2>2. Without(rs, i) = out
    BY <1>2 DEF Without
  <2> HIDE DEF pos
  <2>3. \A k \in 1..(Len(rs) - 1) : out[k] \in Rig
    BY <2>1
  <2>4. out \in Seq(Rig) /\ Len(out) = Len(rs) - 1
    BY <2>1, <2>3
  <2>5. \A k \in 1..Len(out) : /\ out[k].id # i
                               /\ \E j \in 1..Len(rs) : rs[j] = out[k]
    <3> SUFFICES ASSUME NEW k \in 1..Len(out)
                 PROVE  out[k].id # i /\ \E j \in 1..Len(rs) : rs[j] = out[k]
      OBVIOUS
    <3>1. CASE k < pos
      <4>1. k \in 1..Len(rs) /\ k # pos /\ out[k] = rs[k]
        BY <2>1, <2>4, <3>1
      <4> QED BY <2>1, <4>1 DEF DistinctIds
    <3>2. CASE ~ (k < pos)
      <4>1. k + 1 \in 1..Len(rs) /\ k + 1 # pos /\ out[k] = rs[k + 1]
        BY <2>1, <2>4, <3>2
      <4> QED BY <2>1, <4>1 DEF DistinctIds
    <3> QED BY <3>1, <3>2
  <2>6. DistinctIds(out)
    <3> SUFFICES ASSUME NEW j \in 1..Len(out), NEW k \in 1..Len(out), j # k
                 PROVE  out[j].id # out[k].id
      BY DEF DistinctIds
    <3>1. /\ out[j] = rs[IF j < pos THEN j ELSE j + 1]
          /\ out[k] = rs[IF k < pos THEN k ELSE k + 1]
      BY <2>4
    <3> QED BY <2>1, <2>4, <3>1 DEF DistinctIds
  <2>7. \A j \in 1..Len(rs) : rs[j].id # i => \E k \in 1..Len(out) : out[k] = rs[j]
    <3> SUFFICES ASSUME NEW j \in 1..Len(rs), rs[j].id # i
                 PROVE  \E k \in 1..Len(out) : out[k] = rs[j]
      OBVIOUS
    <3>0. j \in Nat /\ pos \in Nat /\ j # pos
      BY <2>1
    <3>1. CASE j < pos
      <4>1. j \in 1..Len(out) /\ out[j] = rs[j]
        BY <2>1, <2>4, <3>1
      <4> HIDE DEF out
      <4> QED BY <4>1
    <3>2. CASE j > pos
      <4>1. j - 1 \in 1..Len(out) /\ out[j - 1] = rs[j]
        BY <2>1, <2>4, <3>2
      <4> HIDE DEF out
      <4> QED BY <4>1
    <3> HIDE DEF out
    <3> QED BY <3>0, <3>1, <3>2
  <2> HIDE DEF out
  <2> QED BY <2>2, <2>4, <2>5, <2>6, <2>7
<1> QED BY <1>1, <1>2

LEMMA FreeTaskType ==
  /\ FreeTask \in Task /\ FreeTask.queue = <<>>
  /\ FreeTask.phase = "free" /\ ~ FreeTask.handle
<1>1. 0 \in Ids /\ 0 \in 0..MaxLost /\ (CHOOSE c \in Configs : TRUE) \in Configs
  BY ConfigsAssumption, BoundsAssumption DEF Ids
<1> QED BY <1>1 DEF FreeTask, Task

LEMMA NewTaskType ==
  ASSUME NEW r \in Rig
  PROVE  /\ NewTask(r) \in Task
         /\ NewTask(r).queue = <<>> /\ NewTask(r).id = r.id
         /\ NewTask(r).config = r.config /\ NewTask(r).handle = TRUE
         /\ NewTask(r).phase = "serving"
BY FreeTaskType DEF NewTask, FreeTask, Task, Rig

LEMMA GetRigFinds ==
  ASSUME NEW i, HasRig(i), rigs \in Seq(Rig)
  PROVE  /\ GetRig(i) \in Rig /\ GetRig(i).id = i
         /\ \E k \in 1..Len(rigs) : rigs[k] = GetRig(i)
<1>1. PICK k \in 1..Len(rigs) : rigs[k].id = i /\ GetRig(i) = rigs[k]
  BY DEF HasRig, GetRig
<1> QED BY <1>1

LEMMA IdsOfType ==
  ASSUME NEW rs \in Seq(Rig)
  PROVE  /\ IdsOf(rs) \in Seq(Ids) /\ Len(IdsOf(rs)) = Len(rs)
         /\ \A k \in 1..Len(rs) : IdsOf(rs)[k] = rs[k].id
<1>1. \A k \in 1..Len(rs) : rs[k].id \in Ids
  <2> SUFFICES ASSUME NEW k \in 1..Len(rs) PROVE rs[k].id \in Ids
    OBVIOUS
  <2>1. rs[k] \in Rig
    OBVIOUS
  <2> QED BY <2>1 DEF Rig
<1> QED BY <1>1 DEF IdsOf

(* What a device becomes is what it was, but for what its step changes.    *)
LEMMA EndedType ==
  ASSUME NEW t \in Task
  PROVE  /\ Ended(t) \in Task /\ Ended(t).phase = "closing"
         /\ Ended(t).id = t.id /\ Ended(t).config = t.config
         /\ Ended(t).handle = t.handle /\ Ended(t).queue = t.queue
<1>1. 0 \in 0..MaxLost
  BY BoundsAssumption
<1> QED BY <1>1 DEF Ended, Task

LEMMA TakenType ==
  ASSUME NEW t \in Task, t.queue # <<>>, NEW q, q = [t EXCEPT !.queue = Tail(@)]
  PROVE  /\ q \in Task /\ q.queue = Tail(t.queue) /\ Len(q.queue) <= Len(t.queue)
         /\ q.id = t.id /\ q.config = t.config /\ q.handle = t.handle
         /\ q.phase = t.phase
<1>1. t.queue \in Seq({"execute", "shutdown"})
  BY DEF Task
<1>2. /\ Tail(t.queue) \in Seq({"execute", "shutdown"})
      /\ Len(Tail(t.queue)) <= Len(t.queue)
  BY <1>1
<1> QED BY <1>2 DEF Task

LEMMA BecomesKeeps ==
  ASSUME tasks \in [Slots -> Task], NEW s \in Slots, NEW t \in Task, Becomes(s, t)
  PROVE  /\ tasks' = [tasks EXCEPT ![s] = tasks'[s]]
         /\ \A u \in Slots : u # s => tasks'[u] = tasks[u]
         /\ tasks'[s] \in Task /\ tasks'[s].phase = t.phase
         /\ tasks'[s].id = t.id /\ tasks'[s].config = t.config
         /\ tasks'[s].handle = t.handle /\ tasks'[s].queue = t.queue
<1>1. PICK b \in BOOLEAN : tasks' = [tasks EXCEPT ![s] = [t EXCEPT !.stuck = b]]
  BY DEF Becomes
<1>2. tasks'[s] = [t EXCEPT !.stuck = b] /\ \A u \in Slots : u # s => tasks'[u] = tasks[u]
  BY <1>1
<1> QED BY <1>1, <1>2 DEF Task

USE DEF vars, mgrVars, Takes, DropHandle, SaveThenAdd, OpensOrIdles, NothingToSend,
        NoTask, Serves, Closes

LEMMA TakesForm ==
  ASSUME tasks \in [Slots -> Task], NEW s \in Slots, TaskTakes(s)
  PROVE  /\ tasks' = [tasks EXCEPT ![s] = tasks'[s]]
         /\ \A u \in Slots : u # s => tasks'[u] = tasks[u]
         /\ tasks'[s] \in Task /\ tasks[s].queue # <<>> /\ tasks[s].phase = "serving"
         /\ tasks'[s].id = tasks[s].id /\ tasks'[s].config = tasks[s].config
         /\ tasks'[s].handle = tasks[s].handle /\ tasks'[s].queue = Tail(tasks[s].queue)
         /\ Head(tasks[s].queue) # "shutdown" => tasks'[s].phase = "serving"
<1> DEFINE q == [tasks[s] EXCEPT !.queue = Tail(@)]
<1>1. /\ tasks[s].queue # <<>> /\ tasks[s].phase = "serving"
      /\ IF Head(tasks[s].queue) = "shutdown" THEN Becomes(s, Ended(q))
                                              ELSE tasks' = [tasks EXCEPT ![s] = q]
  BY DEF TaskTakes
<1>2. /\ q \in Task /\ q.queue = Tail(tasks[s].queue) /\ q.id = tasks[s].id
      /\ q.config = tasks[s].config /\ q.handle = tasks[s].handle
      /\ q.phase = tasks[s].phase
  BY <1>1, TakenType
<1> HIDE DEF q
<1>3. CASE Head(tasks[s].queue) = "shutdown"
  BY <1>1, <1>2, <1>3, EndedType, BecomesKeeps
<1>4. CASE Head(tasks[s].queue) # "shutdown"
  BY <1>1, <1>2, <1>4
<1> QED BY <1>3, <1>4

LEMMA DropForm ==
  ASSUME tasks \in [Slots -> Task], NEW s \in Slots, TaskDropped(s)
  PROVE  /\ tasks' = [tasks EXCEPT ![s] = tasks'[s]]
         /\ \A u \in Slots : u # s => tasks'[u] = tasks[u]
         /\ tasks'[s] \in Task /\ tasks[s].phase = "serving" /\ ~ tasks[s].handle
         /\ tasks'[s].id = tasks[s].id /\ tasks'[s].config = tasks[s].config
         /\ tasks'[s].handle = tasks[s].handle /\ tasks'[s].queue = tasks[s].queue
BY EndedType, BecomesKeeps DEF TaskDropped

LEMMA ReopensForm ==
  ASSUME tasks \in [Slots -> Task], NEW s \in Slots, SerialReopens(s)
  PROVE  /\ tasks' = [tasks EXCEPT ![s] = tasks'[s]]
         /\ \A u \in Slots : u # s => tasks'[u] = tasks[u]
         /\ tasks'[s] \in Task /\ tasks'[s].phase = tasks[s].phase
         /\ tasks[s].phase # "free"
         /\ tasks'[s].id = tasks[s].id /\ tasks'[s].config = tasks[s].config
         /\ tasks'[s].handle = tasks[s].handle /\ tasks'[s].queue = tasks[s].queue
<1> DEFINE t == [tasks[s] EXCEPT !.port = "open"]
<1>1. /\ t \in Task /\ t.phase = tasks[s].phase /\ t.id = tasks[s].id
      /\ t.config = tasks[s].config /\ t.handle = tasks[s].handle
      /\ t.queue = tasks[s].queue
  BY DEF Task
<1>2. Becomes(s, t) /\ tasks[s].phase # "free"
  BY DEF SerialReopens
<1> HIDE DEF t
<1> QED BY <1>1, <1>2, BecomesKeeps

-----------------------------------------------------------------------------
(* What a step of the ports or of a device leaves to the manager.          *)

\* A device whose handle is held goes on serving its rig, with nothing but
\* commands to run; the others may only end.
TasksGoOn ==
  /\ UNCHANGED <<file, mgr, rigs, nextId, devices, todo, cur, refused>>
  /\ \A t \in Slots :
       /\ tasks[t].handle => tasks'[t].handle
       /\ tasks'[t].handle =>
            /\ tasks[t].handle /\ tasks'[t].phase = "serving"
            /\ \A k \in 1..Len(tasks'[t].queue) : tasks'[t].queue[k] = "execute"
       /\ tasks'[t].phase # "free" =>
            /\ tasks[t].phase # "free" /\ tasks'[t].id = tasks[t].id
            /\ tasks'[t].config = tasks[t].config

LEMMA TasksOnly ==
  ASSUME IInv,
         \/ \E p \in Ports : Unplug(p) \/ Plug(p)
         \/ \E s \in Slots : DeviceStep(s)
  PROVE  TasksGoOn
<1>0. tasks \in [Slots -> Task] /\ HandlesServe
  BY DEF IInv, TypeOK
<1>1. ASSUME NEW p \in Ports, Unplug(p) PROVE TasksGoOn
  BY <1>0, <1>1 DEF Unplug, TasksGoOn, HandlesServe, Task
<1>2. ASSUME NEW p \in Ports, Plug(p) PROVE TasksGoOn
  BY <1>0, <1>2 DEF Plug, TasksGoOn, HandlesServe
<1>3. ASSUME NEW s \in Slots, SerialLoses(s) PROVE TasksGoOn
  <2>1. CASE tasks[s].phase = "serving"
    BY <1>0, <1>3, <2>1 DEF SerialLoses, TasksGoOn, HandlesServe, Task
  <2>2. CASE tasks[s].phase = "closing"
    BY SMTT(30), <1>0, <1>3, <2>2 DEF SerialLoses, TasksGoOn, HandlesServe, Task
  <2> QED BY <1>3, <2>1, <2>2 DEF SerialLoses
<1>4. ASSUME NEW s \in Slots, SerialReopens(s) PROVE TasksGoOn
  <2>1. UNCHANGED <<file, mgr, rigs, nextId, devices, todo, cur, refused>>
    BY <1>4 DEF SerialReopens
  <2> QED BY <1>0, <1>4, <2>1, ReopensForm DEF TasksGoOn, HandlesServe
<1>5. ASSUME NEW s \in Slots, SerialEnds(s) PROVE TasksGoOn
  BY <1>0, <1>5 DEF SerialEnds, TasksGoOn, HandlesServe, Task, FreeTask
<1>6. ASSUME NEW s \in Slots, TaskConnected(s) PROVE TasksGoOn
  BY <1>0, <1>6 DEF TaskConnected, TasksGoOn, HandlesServe, Task
<1>7. ASSUME NEW s \in Slots, TaskDisconnected(s) PROVE TasksGoOn
  BY <1>0, <1>7 DEF TaskDisconnected, TasksGoOn, HandlesServe, Task
<1>8. ASSUME NEW s \in Slots, TaskTakes(s) PROVE TasksGoOn
  <2>1. /\ tasks[s].queue \in Seq({"execute", "shutdown"}) /\ tasks[s].queue # <<>>
        /\ tasks[s].phase = "serving"
    BY <1>0, <1>8, TakesForm DEF Task
  <2>2. /\ tasks'[s].handle = tasks[s].handle /\ tasks'[s].id = tasks[s].id
        /\ tasks'[s].config = tasks[s].config /\ tasks'[s].queue = Tail(tasks[s].queue)
        /\ Head(tasks[s].queue) = "execute" => tasks'[s].phase = "serving"
    BY <1>0, <1>8, TakesForm
  <2>3. tasks[s].handle => tasks[s].queue[1] = "execute"
    BY <1>0, <2>1 DEF HandlesServe
  <2>4. /\ Head(tasks[s].queue) = tasks[s].queue[1]
        /\ \A k \in 1..Len(Tail(tasks[s].queue)) :
             /\ k + 1 \in 1..Len(tasks[s].queue)
             /\ Tail(tasks[s].queue)[k] = tasks[s].queue[k + 1]
    BY <2>1
  <2>5. \A t \in Slots : t # s => tasks'[t] = tasks[t]
    BY <1>0, <1>8, TakesForm
  <2>6. tasks[s].handle => \A k \in 1..Len(tasks'[s].queue) : tasks'[s].queue[k] = "execute"
    BY <1>0, <2>2, <2>4 DEF HandlesServe
  <2>7. UNCHANGED <<file, mgr, rigs, nextId, devices, todo, cur, refused>>
    BY <1>8 DEF TaskTakes, Ended
  <2>8. tasks[s].handle => tasks'[s].phase = "serving"
    BY <2>2, <2>3, <2>4
  <2> SUFFICES ASSUME NEW t \in Slots
               PROVE  /\ tasks[t].handle => tasks'[t].handle
                      /\ tasks'[t].handle =>
                           /\ tasks[t].handle /\ tasks'[t].phase = "serving"
                           /\ \A k \in 1..Len(tasks'[t].queue) :
                                tasks'[t].queue[k] = "execute"
                      /\ tasks'[t].phase # "free" =>
                           /\ tasks[t].phase # "free" /\ tasks'[t].id = tasks[t].id
                           /\ tasks'[t].config = tasks[t].config
    BY <2>7 DEF TasksGoOn
  <2>9. CASE t = s
    BY <2>1, <2>2, <2>6, <2>8, <2>9
  <2>10. CASE t # s
    BY <1>0, <2>5, <2>10 DEF HandlesServe
  <2> QED BY <2>9, <2>10
<1>9. ASSUME NEW s \in Slots, TaskDropped(s) PROVE TasksGoOn
  <2>1. UNCHANGED <<file, mgr, rigs, nextId, devices, todo, cur, refused>>
    BY <1>9 DEF TaskDropped
  <2> QED BY <1>0, <1>9, <2>1, DropForm DEF TasksGoOn, HandlesServe
<1>10. ASSUME NEW s \in Slots, Sticks(s) PROVE TasksGoOn
  BY <1>0, <1>10 DEF Sticks, TasksGoOn, HandlesServe, Task
<1> QED BY <1>1, <1>2, <1>3, <1>4, <1>5, <1>6, <1>7, <1>8, <1>9, <1>10 DEF DeviceStep

-----------------------------------------------------------------------------
(* What a step of the manager does to the map, the rigs and the tasks.     *)

\* The device of rig i starts, as task s.
Opened(i, s) ==
  /\ tasks[s].phase = "free"
  /\ tasks'[s].phase = "serving" /\ tasks'[s].handle /\ tasks'[s].queue = <<>>
  /\ tasks'[s].id = i
  /\ \E k \in 1..Len(rigs) : rigs[k].id = i /\ rigs[k].config = tasks'[s].config
  /\ \A t \in Slots : t # s => tasks'[t] = tasks[t]
  /\ devices'[i] = s /\ \A j \in Ids : j # i => devices'[j] = devices[j]

\* The first of the rigs to be opened is done with.
TodoAdvances ==
  /\ todo \in Seq(Ids) /\ todo' \in Seq(Ids)
  /\ 1 \in 1..Len(todo) /\ todo[1] \in Ids
  /\ \A k \in 1..Len(todo') : k + 1 \in 1..Len(todo) /\ todo'[k] = todo[k + 1]
  /\ \A k \in 1..Len(todo) : k # 1 => k - 1 \in 1..Len(todo') /\ todo'[k - 1] = todo[k]
  /\ mgr' = IF todo' = <<>> THEN "idle" ELSE "opening"

LEMMA TodoTail ==
  ASSUME IInv, AddDevice \/ AddDeviceFails
  PROVE  TodoAdvances /\ Head(todo) = todo[1] /\ HasRig(todo[1]) /\ devices[todo[1]] = 0
<1>1. /\ todo \in Seq(Ids) /\ todo # <<>> /\ todo' = Tail(todo)
      /\ mgr' = IF todo' = <<>> THEN "idle" ELSE "opening"
  BY DEF IInv, TypeOK, TodoConsistent, AddDevice, AddDeviceFails
<1>2. /\ \A k \in 1..Len(todo) : devices[todo[k]] = 0 /\ HasRig(todo[k])
  BY DEF IInv, TodoConsistent
<1>3. 1 \in 1..Len(todo) /\ Head(todo) = todo[1] /\ todo[1] \in Ids
  BY <1>1
<1>4. todo' \in Seq(Ids) /\ Len(todo') = Len(todo) - 1
  BY <1>1
<1>5. \A k \in 1..Len(todo') : k + 1 \in 1..Len(todo) /\ todo'[k] = todo[k + 1]
  BY <1>1, <1>4
<1>6. \A k \in 1..Len(todo) : k # 1 => k - 1 \in 1..Len(todo') /\ todo'[k - 1] = todo[k]
  BY <1>1, <1>4
<1> QED BY <1>1, <1>2, <1>3, <1>4, <1>5, <1>6 DEF TodoAdvances

LEMMA AddDeviceOpens ==
  ASSUME IInv, AddDevice
  PROVE  \E s \in Slots : Opened(todo[1], s)
<1>0. tasks \in [Slots -> Task] /\ devices \in [Ids -> Slots \cup {0}]
  BY DEF IInv, TypeOK
<1>1. Head(todo) = todo[1] /\ todo[1] \in Ids /\ HasRig(todo[1])
  BY TodoTail DEF TodoAdvances
<1> DEFINE r == GetRig(todo[1])
<1>2. PICK s \in Slots : /\ tasks[s].phase = "free"
                         /\ tasks' = [tasks EXCEPT ![s] = NewTask(r)]
                         /\ devices' = [devices EXCEPT ![todo[1]] = s]
  BY <1>1 DEF AddDevice
<1>3. /\ r \in Rig /\ r.id = todo[1] /\ \E k \in 1..Len(rigs) : rigs[k] = r
  BY <1>1, GetRigFinds DEF IInv, TypeOK
<1> HIDE DEF r
<1>4. tasks'[s] = NewTask(r) /\ \A t \in Slots : t # s => tasks'[t] = tasks[t]
  BY <1>0, <1>2
<1>5. devices'[todo[1]] = s /\ \A j \in Ids : j # todo[1] => devices'[j] = devices[j]
  BY <1>0, <1>1, <1>2
<1>6. /\ tasks'[s].phase = "serving" /\ tasks'[s].handle /\ tasks'[s].queue = <<>>
      /\ tasks'[s].id = todo[1] /\ tasks'[s].config = r.config
  BY <1>3, <1>4, NewTaskType
<1>7. \E k \in 1..Len(rigs) : rigs[k].id = todo[1] /\ rigs[k].config = tasks'[s].config
  BY <1>3, <1>6
<1> QED BY <1>2, <1>4, <1>5, <1>6, <1>7 DEF Opened

\* A rig is given a configuration and its device loses its handle.
Changed(i, c) ==
  /\ rigs' \in Seq(Rig) /\ Len(rigs') = Len(rigs)
  /\ \A k \in 1..Len(rigs) : /\ rigs'[k].id = rigs[k].id
                             /\ rigs[k].id # i => rigs'[k] = rigs[k]
  /\ devices'[i] = 0 /\ \A j \in Ids : j # i => devices'[j] = devices[j]
  /\ \A t \in Slots :
       /\ tasks'[t].phase = tasks[t].phase /\ tasks'[t].queue = tasks[t].queue
       /\ tasks'[t].id = tasks[t].id /\ tasks'[t].config = tasks[t].config
       /\ tasks'[t].handle <=> tasks[t].handle /\ t # devices[i]

LEMMA UpdateChanges ==
  ASSUME IInv, NEW i \in Ids, NEW c \in Configs, UpdateDevice(i, c)
  PROVE  Changed(i, c)
<1>0. /\ tasks \in [Slots -> Task] /\ devices \in [Ids -> Slots \cup {0}]
      /\ rigs \in Seq(Rig)
  BY DEF IInv, TypeOK
<1>1. \A k \in 1..Len(rigs) : rigs[k] \in Rig
  BY <1>0
<1>2. /\ rigs' \in Seq(Rig) /\ Len(rigs') = Len(rigs)
      /\ \A k \in 1..Len(rigs) : /\ rigs'[k].id = rigs[k].id
                                 /\ rigs[k].id # i => rigs'[k] = rigs[k]
  BY <1>0, <1>1 DEF UpdateDevice, Rig
<1>3. devices'[i] = 0 /\ \A j \in Ids : j # i => devices'[j] = devices[j]
  BY <1>0 DEF UpdateDevice
<1>4. ASSUME NEW t \in Slots
      PROVE  /\ tasks'[t].phase = tasks[t].phase /\ tasks'[t].queue = tasks[t].queue
             /\ tasks'[t].id = tasks[t].id /\ tasks'[t].config = tasks[t].config
             /\ tasks'[t].handle <=> tasks[t].handle /\ t # devices[i]
  <2>1. tasks'[t] = IF t = devices[i] THEN [tasks[t] EXCEPT !.handle = FALSE]
                                      ELSE tasks[t]
    BY DEF UpdateDevice
  <2>2. tasks[t] \in Task
    BY <1>0
  <2> QED BY <2>1, <2>2 DEF Task
<1> QED BY <1>2, <1>3, <1>4 DEF Changed

\* The first of the two steps of a removal takes the rig from the map.
LEMMA RemoveClears ==
  ASSUME IInv, NEW i \in Ids, RemoveDevice(i)
  PROVE  /\ devices'[i] = 0 /\ \A j \in Ids : j # i => devices'[j] = devices[j]
         /\ devices[i] # 0 => /\ devices[i] \in Slots /\ tasks[devices[i]].id = i
                              /\ tasks[devices[i]].handle
                              /\ mgr' = "sending" /\ cur'.to = devices[i]
                              /\ cur'.what = "shutdown"
                              /\ UNCHANGED <<rigs, todo>>
         /\ devices[i] = 0 => /\ rigs' = Without(rigs, i) /\ mgr' = "saving"
                              /\ todo' = <<>>
         /\ UNCHANGED tasks
BY DEF IInv, TypeOK, RemoveDevice, MapConsistent

\* Shutdown is sent, the handle dropped and the rig gone.
LEMMA ShutdownRemoves ==
  ASSUME IInv, DeliverShutdown
  PROVE  /\ cur.to \in Slots /\ tasks[cur.to].handle /\ tasks[cur.to].id \in Ids
         /\ devices[tasks[cur.to].id] = 0
         /\ ~ tasks'[cur.to].handle /\ tasks'[cur.to].id = tasks[cur.to].id
         /\ tasks'[cur.to].phase = tasks[cur.to].phase
         /\ \A t \in Slots : t # cur.to => tasks'[t] = tasks[t]
         /\ rigs' = Without(rigs, tasks[cur.to].id)
<1>0. tasks \in [Slots -> Task] /\ cur.to \in Slots \cup {0}
  BY DEF IInv, TypeOK
<1>1. /\ cur.to # 0 /\ tasks[cur.to].handle /\ devices[tasks[cur.to].id] = 0
  BY DEF IInv, SendConsistent, DeliverShutdown, Receives
<1>2. cur.to \in Slots /\ tasks[cur.to] \in Task
  BY <1>0, <1>1
<1>3. /\ ~ tasks'[cur.to].handle /\ tasks'[cur.to].id = tasks[cur.to].id
      /\ tasks'[cur.to].phase = tasks[cur.to].phase
      /\ \A t \in Slots : t # cur.to => tasks'[t] = tasks[t]
  BY <1>0, <1>2 DEF DeliverShutdown, Task, Receives
<1> QED BY <1>1, <1>2, <1>3 DEF DeliverShutdown, Task, Receives

\* A new rig, with an id no other has, is the last.
Created(c) ==
  /\ nextId \in Ids /\ nextId' = nextId + 1
  /\ rigs' \in Seq(Rig) /\ Len(rigs') = Len(rigs) + 1
  /\ \A k \in 1..Len(rigs) : rigs'[k] = rigs[k]
  /\ rigs'[Len(rigs')].id = nextId
  /\ devices[nextId] = 0
  /\ todo' = <<nextId>>

LEMMA DeliverQueues ==
  ASSUME IInv, Deliver
  PROVE  /\ cur.to \in Slots /\ Len(tasks[cur.to].queue) < TaskCap
         /\ tasks' = [tasks EXCEPT ![cur.to].queue = Append(@, "execute")]
<1>1. cur.to \in Slots /\ tasks \in [Slots -> Task]
  BY DEF IInv, TypeOK, SendConsistent, Deliver
<1>2. "execute" # "shutdown"
  OBVIOUS
<1>3. /\ Len(tasks[cur.to].queue) < TaskCap
      /\ tasks' = [tasks EXCEPT ![cur.to].queue = Append(@, "execute"),
                                ![cur.to].handle = @]
  BY <1>2 DEF Deliver, Receives
<1> DEFINE t == [tasks[cur.to] EXCEPT !.queue = Append(@, "execute")]
<1>4. [t EXCEPT !.handle = @] = t
  BY <1>1 DEF Task
<1>5. tasks' = [tasks EXCEPT ![cur.to] = t]
  BY <1>1, <1>3, <1>4 DEF Task
<1> QED BY <1>1, <1>3, <1>5

LEMMA CreateAppends ==
  ASSUME IInv, NEW c \in Configs, CreateDevice(c)
  PROVE  Created(c)
<1>0. rigs \in Seq(Rig) /\ nextId \in 0..MaxIds /\ devices \in [Ids -> Slots \cup {0}]
  BY DEF IInv, TypeOK
<1>1. nextId \in Ids
  BY <1>0, BoundsAssumption DEF CreateDevice, Ids
<1> DEFINE r == [id |-> nextId, config |-> c]
<1>2. r \in Rig /\ r.id = nextId
  BY <1>1 DEF Rig
<1>3. rigs' = Append(rigs, r) /\ todo' = <<nextId>> /\ nextId' = nextId + 1
  BY DEF CreateDevice
<1> HIDE DEF r
<1>4. /\ rigs' \in Seq(Rig) /\ Len(rigs') = Len(rigs) + 1
      /\ \A k \in 1..Len(rigs) : rigs'[k] = rigs[k]
      /\ rigs'[Len(rigs')] = r
  BY <1>0, <1>2, <1>3
<1>5. devices[nextId] = 0
  <2>1. \A k \in 1..Len(rigs) : rigs[k].id # nextId
    <3> SUFFICES ASSUME NEW k \in 1..Len(rigs) PROVE rigs[k].id # nextId
      OBVIOUS
    <3>1. rigs[k].id < nextId /\ rigs[k] \in Rig
      BY <1>0 DEF IInv, IdsAreFresh
    <3> QED BY <1>0, <3>1 DEF Rig, Ids
  <2> QED BY <1>1, <2>1 DEF IInv, MapConsistent
<1> QED BY <1>1, <1>2, <1>3, <1>4, <1>5 DEF Created

\* What is left of the rigs when one is removed.
LEMMA WithoutRig ==
  ASSUME IInv, NEW i \in Ids
  PROVE  /\ Without(rigs, i) \in Seq(Rig)
         /\ DistinctIds(Without(rigs, i))
         /\ \A k \in 1..Len(Without(rigs, i)) :
              /\ Without(rigs, i)[k].id # i
              /\ \E j \in 1..Len(rigs) : rigs[j] = Without(rigs, i)[k]
         /\ \A j \in 1..Len(rigs) : rigs[j].id # i =>
              \E k \in 1..Len(Without(rigs, i)) : Without(rigs, i)[k] = rigs[j]
BY WithoutRemoves DEF IInv, TypeOK, IdsAreFresh

LEMMA AppendType ==
  ASSUME NEW S, NEW s \in Seq(S), NEW e \in S
  PROVE  Append(s, e) \in Seq(S) /\ Len(Append(s, e)) = Len(s) + 1
OBVIOUS

LEMMA RigIds ==
  ASSUME NEW rs \in Seq(Rig), NEW k \in 1..Len(rs)
  PROVE  rs[k].id \in Ids
<1>1. rs[k] \in Rig
  OBVIOUS
<1> QED BY <1>1 DEF Rig

\* The manager ends, and every handle with it.
LEMMA SaveFailsDrops ==
  ASSUME IInv, SaveFails
  PROVE  /\ \A s \in Slots : /\ tasks'[s].handle = FALSE
                             /\ tasks'[s].phase = tasks[s].phase
                             /\ tasks'[s].id = tasks[s].id
         /\ \A i \in Ids : devices'[i] = 0
<1>1. tasks \in [Slots -> Task]
  BY DEF IInv, TypeOK
<1>2. ASSUME NEW s \in Slots
      PROVE  /\ tasks'[s].handle = FALSE /\ tasks'[s].phase = tasks[s].phase
             /\ tasks'[s].id = tasks[s].id
  <2>1. tasks'[s] = [tasks[s] EXCEPT !.handle = FALSE] /\ tasks[s] \in Task
    BY <1>1 DEF SaveFails
  <2> QED BY <2>1 DEF Task
<1>3. \A i \in Ids : devices'[i] = 0
  BY DEF SaveFails
<1> QED BY <1>2, <1>3

USE DEF HasRig, Ends, DistinctIds

-----------------------------------------------------------------------------
(* What is left when the process, or the manager, has ended.               *)

LEMMA EndedConsistentInit == Init => EndedConsistent
BY FreeTaskType, SavedAssumption DEF Init, EndedConsistent

LEMMA EndedConsistentStep == IInv /\ [Next]_vars => EndedConsistent'
<1> SUFFICES ASSUME IInv, [Next]_vars
             PROVE  EndedConsistent'
  OBVIOUS
<1>0. TypeOK /\ EndedConsistent
  BY DEF IInv
<1>1. CASE Start
  BY <1>0, <1>1 DEF EndedConsistent, Start
<1>2. CASE AddDevice
  BY <1>0, <1>2 DEF EndedConsistent, AddDevice
<1>3. CASE AddDeviceFails
  BY <1>0, <1>3 DEF EndedConsistent, AddDeviceFails
<1>4. CASE Deliver
  BY <1>0, <1>4 DEF EndedConsistent, Deliver, Receives
<1>5. CASE DeliverShutdown
  BY <1>0, <1>5 DEF EndedConsistent, DeliverShutdown, Receives
<1>6. CASE SaveTruncates
  BY <1>0, <1>6 DEF EndedConsistent, SaveTruncates
<1>7. CASE SaveWrites
  BY <1>0, <1>7 DEF EndedConsistent, SaveWrites
<1>8. CASE SaveFails
  BY <1>0, <1>8 DEF EndedConsistent, SaveFails
<1>9. ASSUME NEW c \in Configs, CreateDevice(c) PROVE EndedConsistent'
  BY <1>0, <1>9 DEF EndedConsistent, CreateDevice
<1>10. ASSUME NEW i \in Ids, NEW c \in Configs, UpdateDevice(i, c) PROVE EndedConsistent'
  BY <1>0, <1>10 DEF EndedConsistent, UpdateDevice
<1>11. ASSUME NEW i \in Ids, RemoveDevice(i) PROVE EndedConsistent'
  BY <1>0, <1>11 DEF EndedConsistent, RemoveDevice
<1>12. ASSUME NEW i \in Ids, ExecuteCommand(i) PROVE EndedConsistent'
  BY <1>0, <1>12 DEF EndedConsistent, ExecuteCommand
<1>13. CASE Crash
  BY <1>0, <1>13, FreeTaskType DEF EndedConsistent, Crash
<1>14. CASE \/ \E p \in Ports : Unplug(p) \/ Plug(p)
           \/ \E s \in Slots : DeviceStep(s)
  <2>1. TasksGoOn
    BY <1>14, TasksOnly
  <2> QED BY <1>0, <2>1 DEF EndedConsistent, TasksGoOn, TypeOK
<1>15. CASE UNCHANGED vars
  BY <1>0, <1>15 DEF EndedConsistent
<1> QED BY <1>1, <1>2, <1>3, <1>4, <1>5, <1>6, <1>7,
          <1>8, <1>9, <1>10, <1>11, <1>12, <1>13, <1>14, <1>15
       DEF Next, ManagerContinues, Command

-----------------------------------------------------------------------------
(* A held handle is that of a serving device.                              *)

LEMMA HandlesServeInit == Init => HandlesServe
BY FreeTaskType, SavedAssumption DEF Init, HandlesServe

LEMMA HandlesServeStep == IInv /\ [Next]_vars => HandlesServe'
<1> SUFFICES ASSUME IInv, [Next]_vars
             PROVE  HandlesServe'
  OBVIOUS
<1>0. TypeOK /\ HandlesServe
  BY DEF IInv
<1>1. CASE Start
  BY <1>0, <1>1 DEF HandlesServe, Start
<1>2. CASE AddDevice
  <2>1. PICK s \in Slots : Opened(todo[1], s)
    BY <1>2, AddDeviceOpens
  <2>2. \A k \in 1..Len(tasks'[s].queue) : FALSE
    BY <2>1 DEF Opened
  <2> QED BY <1>0, <2>1, <2>2 DEF HandlesServe, Opened
<1>3. CASE AddDeviceFails
  BY <1>0, <1>3 DEF HandlesServe, AddDeviceFails
<1>4. CASE Deliver
  <2>1. /\ cur.to \in Slots
        /\ tasks' = [tasks EXCEPT ![cur.to].queue = Append(@, "execute")]
    BY <1>4, DeliverQueues
  <2>2. mgr = "sending" /\ cur.what = "execute" /\ UNCHANGED <<devices, rigs, nextId>>
    BY <1>4 DEF Deliver
  <2> QED BY <1>0, <2>1, <2>2 DEF HandlesServe, TypeOK, Task
<1>5. CASE DeliverShutdown
  BY <1>0, <1>5 DEF HandlesServe, DeliverShutdown, TypeOK, Receives
<1>6. CASE SaveTruncates
  BY <1>0, <1>6 DEF HandlesServe, SaveTruncates
<1>7. CASE SaveWrites
  BY <1>0, <1>7 DEF HandlesServe, SaveWrites
<1>8. CASE SaveFails
  BY <1>8, SaveFailsDrops DEF HandlesServe
<1>9. ASSUME NEW c \in Configs, CreateDevice(c) PROVE HandlesServe'
  BY <1>0, <1>9 DEF HandlesServe, CreateDevice
<1>10. ASSUME NEW i \in Ids, NEW c \in Configs, UpdateDevice(i, c) PROVE HandlesServe'
  BY <1>0, <1>10 DEF HandlesServe, UpdateDevice
<1>11. ASSUME NEW i \in Ids, RemoveDevice(i) PROVE HandlesServe'
  BY <1>0, <1>11 DEF HandlesServe, RemoveDevice
<1>12. ASSUME NEW i \in Ids, ExecuteCommand(i) PROVE HandlesServe'
  BY <1>0, <1>12 DEF HandlesServe, ExecuteCommand
<1>13. CASE Crash
  BY <1>0, <1>13, FreeTaskType DEF HandlesServe, Crash
<1>14. CASE \/ \E p \in Ports : Unplug(p) \/ Plug(p)
           \/ \E s \in Slots : DeviceStep(s)
  <2>1. TasksGoOn
    BY <1>14, TasksOnly
  <2> QED BY <1>0, <2>1 DEF HandlesServe, TasksGoOn, TypeOK
<1>15. CASE UNCHANGED vars
  BY <1>0, <1>15 DEF HandlesServe
<1> QED BY <1>1, <1>2, <1>3, <1>4, <1>5, <1>6, <1>7,
          <1>8, <1>9, <1>10, <1>11, <1>12, <1>13, <1>14, <1>15
       DEF Next, ManagerContinues, Command

-----------------------------------------------------------------------------
(* The map has running devices of configured rigs.                         *)

LEMMA MapConsistentInit == Init => MapConsistent
BY FreeTaskType, SavedAssumption DEF Init, MapConsistent

LEMMA MapConsistentStep == IInv /\ [Next]_vars => MapConsistent'
<1> SUFFICES ASSUME IInv, [Next]_vars
             PROVE  MapConsistent'
  OBVIOUS
<1>0. TypeOK /\ MapConsistent
  BY DEF IInv
<1>1. CASE Start
  BY <1>1 DEF MapConsistent, EndedConsistent, Start, IInv
<1>2. CASE AddDevice
  <2>1. PICK s \in Slots : Opened(todo[1], s)
    BY <1>2, AddDeviceOpens
  <2>2. rigs' = rigs
    BY <1>2 DEF AddDevice
  <2> SUFFICES ASSUME NEW i \in Ids, devices'[i] # 0
               PROVE  /\ tasks'[devices'[i]].handle /\ tasks'[devices'[i]].id = i
                      /\ \E k \in 1..Len(rigs) :
                           rigs[k].id = i /\ rigs[k].config = tasks'[devices'[i]].config
    BY <2>2 DEF MapConsistent
  <2>3. CASE i = todo[1]
    BY <2>1, <2>3 DEF Opened
  <2>4. CASE i # todo[1]
    <3>1. devices'[i] = devices[i] /\ devices[i] \in Slots
      BY <1>0, <2>1, <2>4 DEF Opened, TypeOK
    <3>2. /\ tasks[devices[i]].handle /\ tasks[devices[i]].id = i
          /\ \E k \in 1..Len(rigs) :
               rigs[k].id = i /\ rigs[k].config = tasks[devices[i]].config
      BY <1>0, <3>1 DEF MapConsistent
    <3>3. devices[i] # s
      BY <2>1, <3>1, <3>2 DEF Opened, IInv, HandlesServe
    <3> QED BY <2>1, <3>1, <3>2, <3>3 DEF Opened
  <2> QED BY <2>3, <2>4
<1>3. CASE AddDeviceFails
  BY <1>0, <1>3 DEF MapConsistent, AddDeviceFails
<1>4. CASE Deliver
  <2>1. /\ cur.to \in Slots
        /\ tasks' = [tasks EXCEPT ![cur.to].queue = Append(@, "execute")]
    BY <1>4, DeliverQueues
  <2>2. mgr = "sending" /\ cur.what = "execute" /\ UNCHANGED <<devices, rigs, nextId>>
    BY <1>4 DEF Deliver
  <2>3. \A s \in Slots : /\ tasks'[s].handle = tasks[s].handle /\ tasks'[s].id = tasks[s].id
                         /\ tasks'[s].config = tasks[s].config
    BY <1>0, <2>1 DEF TypeOK, Task
  <2>4. \A i \in Ids : devices[i] # NoTask => devices[i] \in Slots
    BY <1>0 DEF TypeOK
  <2> QED BY <1>0, <2>2, <2>3, <2>4 DEF MapConsistent
<1>5. CASE DeliverShutdown
  <2> DEFINE gone == tasks[cur.to].id
  <2>1. devices' = devices
    BY <1>5 DEF DeliverShutdown, Receives
  <2>2. gone \in Ids /\ devices[gone] = 0 /\ rigs' = Without(rigs, gone)
    BY <1>5, ShutdownRemoves
  <2> SUFFICES ASSUME NEW i \in Ids, devices[i] # 0
               PROVE  /\ tasks'[devices[i]].handle /\ tasks'[devices[i]].id = i
                      /\ \E k \in 1..Len(rigs') :
                           rigs'[k].id = i /\ rigs'[k].config = tasks'[devices[i]].config
    BY <2>1 DEF MapConsistent
  <2>3. /\ tasks[devices[i]].handle /\ tasks[devices[i]].id = i
        /\ devices[i] \in Slots
    BY <1>0 DEF MapConsistent, TypeOK
  <2>4. PICK k \in 1..Len(rigs) :
          rigs[k].id = i /\ rigs[k].config = tasks[devices[i]].config
    BY <1>0 DEF MapConsistent
  <2>5. i # gone /\ devices[i] # cur.to
    BY <2>2, <2>3
  <2>6. tasks'[devices[i]] = tasks[devices[i]]
    BY <1>5, <2>3, <2>5, ShutdownRemoves
  <2> HIDE DEF gone
  <2>7. \A l \in 1..Len(rigs) : rigs[l].id # gone =>
          \E j \in 1..Len(Without(rigs, gone)) : Without(rigs, gone)[j] = rigs[l]
    BY <2>2, WithoutRig
  <2>8. PICK j \in 1..Len(Without(rigs, gone)) : Without(rigs, gone)[j] = rigs[k]
    BY <2>4, <2>5, <2>7
  <2> QED BY <2>2, <2>3, <2>4, <2>6, <2>8
<1>6. CASE SaveTruncates
  BY <1>0, <1>6 DEF MapConsistent, SaveTruncates
<1>7. CASE SaveWrites
  BY <1>0, <1>7 DEF MapConsistent, SaveWrites
<1>8. CASE SaveFails
  BY <1>0, <1>8 DEF MapConsistent, SaveFails
<1>9. ASSUME NEW c \in Configs, CreateDevice(c) PROVE MapConsistent'
  BY <1>0, <1>9 DEF MapConsistent, CreateDevice
<1>10. ASSUME NEW i \in Ids, NEW c \in Configs, UpdateDevice(i, c) PROVE MapConsistent'
  <2>1. Changed(i, c)
    BY <1>10, UpdateChanges
  <2> SUFFICES ASSUME NEW j \in Ids, devices'[j] # 0
               PROVE  /\ tasks'[devices'[j]].handle /\ tasks'[devices'[j]].id = j
                      /\ \E k \in 1..Len(rigs') :
                           rigs'[k].id = j /\ rigs'[k].config = tasks'[devices'[j]].config
    BY DEF MapConsistent
  <2>2. j # i /\ devices'[j] = devices[j] /\ devices[j] \in Slots
    BY <1>0, <2>1 DEF Changed, TypeOK
  <2>3. tasks[devices[j]].handle /\ tasks[devices[j]].id = j
    BY <1>0, <2>2 DEF MapConsistent
  <2>4. PICK k \in 1..Len(rigs) :
          rigs[k].id = j /\ rigs[k].config = tasks[devices[j]].config
    BY <1>0, <2>2 DEF MapConsistent
  <2>5. devices[j] # devices[i]
    BY <1>0, <2>2, <2>3 DEF MapConsistent
  <2>6. rigs'[k] = rigs[k] /\ k \in 1..Len(rigs')
    BY <2>1, <2>2, <2>4 DEF Changed
  <2> QED BY <2>1, <2>2, <2>3, <2>4, <2>5, <2>6 DEF Changed
<1>11. ASSUME NEW i \in Ids, RemoveDevice(i) PROVE MapConsistent'
  <2>1. CASE devices[i] # 0
    <3>1. UNCHANGED <<tasks, rigs>>
      BY <1>11, <2>1, RemoveClears
    <3>2. \A j \in Ids : devices'[j] # 0 => devices'[j] = devices[j]
      BY <1>11, RemoveClears
    <3> QED BY <1>0, <3>1, <3>2 DEF MapConsistent
  <2>2. CASE devices[i] = 0
    <3> SUFFICES ASSUME NEW j \in Ids, devices[j] # 0
                 PROVE  /\ tasks[devices[j]].handle /\ tasks[devices[j]].id = j
                        /\ \E k \in 1..Len(rigs') :
                             rigs'[k].id = j /\ rigs'[k].config = tasks[devices[j]].config
      BY <1>11, <2>2, RemoveClears DEF MapConsistent
    <3>1. tasks[devices[j]].handle /\ tasks[devices[j]].id = j
      BY <1>0 DEF MapConsistent
    <3>2. PICK k \in 1..Len(rigs) :
            rigs[k].id = j /\ rigs[k].config = tasks[devices[j]].config
      BY <1>0 DEF MapConsistent
    <3>3. PICK l \in 1..Len(Without(rigs, i)) : Without(rigs, i)[l] = rigs[k]
      BY <2>2, <3>2, WithoutRig
    <3>4. rigs' = Without(rigs, i)
      BY <1>11, <2>2, RemoveClears
    <3> QED BY <3>1, <3>2, <3>3, <3>4
  <2> QED BY <2>1, <2>2
<1>12. ASSUME NEW i \in Ids, ExecuteCommand(i) PROVE MapConsistent'
  BY <1>0, <1>12 DEF MapConsistent, ExecuteCommand
<1>13. CASE Crash
  BY <1>0, <1>13 DEF MapConsistent, Crash
<1>14. CASE \/ \E p \in Ports : Unplug(p) \/ Plug(p)
           \/ \E s \in Slots : DeviceStep(s)
  <2>1. TasksGoOn
    BY <1>14, TasksOnly
  <2> SUFFICES ASSUME NEW i \in Ids, devices[i] # 0
               PROVE  /\ tasks'[devices[i]].handle /\ tasks'[devices[i]].id = i
                      /\ \E k \in 1..Len(rigs) :
                           rigs[k].id = i /\ rigs[k].config = tasks'[devices[i]].config
    BY <2>1 DEF MapConsistent, TasksGoOn
  <2>2. /\ devices[i] \in Slots /\ tasks[devices[i]].handle /\ tasks[devices[i]].id = i
        /\ \E k \in 1..Len(rigs) :
             rigs[k].id = i /\ rigs[k].config = tasks[devices[i]].config
    BY <1>0 DEF MapConsistent, TypeOK
  <2>3. tasks'[devices[i]].handle /\ tasks'[devices[i]].phase = "serving"
    BY <2>1, <2>2 DEF TasksGoOn
  <2>4. /\ tasks'[devices[i]].id = tasks[devices[i]].id
        /\ tasks'[devices[i]].config = tasks[devices[i]].config
    BY <2>1, <2>2, <2>3 DEF TasksGoOn
  <2> QED BY <2>2, <2>3, <2>4
<1>15. CASE UNCHANGED vars
  BY <1>0, <1>15 DEF MapConsistent
<1> QED BY <1>1, <1>2, <1>3, <1>4, <1>5, <1>6, <1>7,
          <1>8, <1>9, <1>10, <1>11, <1>12, <1>13, <1>14, <1>15
       DEF Next, ManagerContinues, Command

-----------------------------------------------------------------------------
(* Every handle is in the map, or taken out of it to be told to end.       *)

LEMMA HandlesInMapInit == Init => HandlesInMap
BY FreeTaskType, SavedAssumption DEF Init, HandlesInMap

LEMMA HandlesInMapStep == IInv /\ [Next]_vars => HandlesInMap'
<1> SUFFICES ASSUME IInv, [Next]_vars
             PROVE  HandlesInMap'
  OBVIOUS
<1>0. TypeOK /\ HandlesInMap
  BY DEF IInv
<1>1. CASE Start
  BY <1>0, <1>1 DEF HandlesInMap, Start
<1>2. CASE AddDevice
  <2>1. PICK s \in Slots : Opened(todo[1], s)
    BY <1>2, AddDeviceOpens
  <2>2. todo[1] \in Ids /\ devices[todo[1]] = 0
    BY <1>2, TodoTail DEF TodoAdvances
  <2> SUFFICES ASSUME NEW t \in Slots, tasks'[t].handle
               PROVE  devices'[tasks'[t].id] = t
    BY DEF HandlesInMap
  <2>3. CASE t = s
    BY <2>1, <2>3 DEF Opened
  <2>4. CASE t # s
    <3>1. tasks'[t] = tasks[t] /\ tasks[t].id \in Ids
      BY <1>0, <2>1, <2>4 DEF Opened, TypeOK, Task
    <3>2. devices[tasks[t].id] = t
      BY <1>0, <1>2, <3>1 DEF HandlesInMap, AddDevice
    <3>3. tasks[t].id # todo[1]
      BY <2>2, <3>2 DEF Slots
    <3> QED BY <2>1, <3>1, <3>2, <3>3 DEF Opened
  <2> QED BY <2>3, <2>4
<1>3. CASE AddDeviceFails
  BY <1>0, <1>3 DEF HandlesInMap, AddDeviceFails
<1>4. CASE Deliver
  <2>1. /\ cur.to \in Slots
        /\ tasks' = [tasks EXCEPT ![cur.to].queue = Append(@, "execute")]
    BY <1>4, DeliverQueues
  <2>2. mgr = "sending" /\ cur.what = "execute" /\ UNCHANGED <<devices, rigs, nextId>>
    BY <1>4 DEF Deliver
  <2> QED BY <1>0, <2>1, <2>2 DEF HandlesInMap, TypeOK, Task
<1>5. CASE DeliverShutdown
  BY <1>0, <1>5 DEF HandlesInMap, DeliverShutdown, TypeOK, Receives
<1>6. CASE SaveTruncates
  BY <1>0, <1>6 DEF HandlesInMap, SaveTruncates
<1>7. CASE SaveWrites
  BY <1>0, <1>7 DEF HandlesInMap, SaveWrites
<1>8. CASE SaveFails
  BY <1>8, SaveFailsDrops DEF HandlesInMap
<1>9. ASSUME NEW c \in Configs, CreateDevice(c) PROVE HandlesInMap'
  BY <1>0, <1>9 DEF HandlesInMap, CreateDevice
<1>10. ASSUME NEW i \in Ids, NEW c \in Configs, UpdateDevice(i, c) PROVE HandlesInMap'
  BY <1>0, <1>10 DEF HandlesInMap, UpdateDevice
<1>11. ASSUME NEW i \in Ids, RemoveDevice(i) PROVE HandlesInMap'
  BY <1>0, <1>11 DEF HandlesInMap, RemoveDevice
<1>12. ASSUME NEW i \in Ids, ExecuteCommand(i) PROVE HandlesInMap'
  BY <1>0, <1>12 DEF HandlesInMap, ExecuteCommand
<1>13. CASE Crash
  BY <1>0, <1>13, FreeTaskType DEF HandlesInMap, Crash
<1>14. CASE \/ \E p \in Ports : Unplug(p) \/ Plug(p)
           \/ \E s \in Slots : DeviceStep(s)
  <2>1. TasksGoOn
    BY <1>14, TasksOnly
  <2> QED BY <1>0, <2>1 DEF HandlesInMap, TasksGoOn, TypeOK
<1>15. CASE UNCHANGED vars
  BY <1>0, <1>15 DEF HandlesInMap
<1> QED BY <1>1, <1>2, <1>3, <1>4, <1>5, <1>6, <1>7,
          <1>8, <1>9, <1>10, <1>11, <1>12, <1>13, <1>14, <1>15
       DEF Next, ManagerContinues, Command

-----------------------------------------------------------------------------
(* What is being sent goes to a held device.                               *)

LEMMA SendConsistentInit == Init => SendConsistent
BY FreeTaskType, SavedAssumption DEF Init, SendConsistent

LEMMA SendConsistentStep == IInv /\ [Next]_vars => SendConsistent'
<1> SUFFICES ASSUME IInv, [Next]_vars
             PROVE  SendConsistent'
  OBVIOUS
<1>0. TypeOK /\ SendConsistent
  BY DEF IInv
<1>1. CASE Start
  BY <1>0, <1>1 DEF SendConsistent, Start
<1>2. CASE AddDevice
  BY <1>0, <1>2 DEF SendConsistent, AddDevice
<1>3. CASE AddDeviceFails
  BY <1>0, <1>3 DEF SendConsistent, AddDeviceFails
<1>4. CASE Deliver
  BY <1>0, <1>4 DEF SendConsistent, Deliver, Receives
<1>5. CASE DeliverShutdown
  BY <1>0, <1>5 DEF SendConsistent, DeliverShutdown, Receives
<1>6. CASE SaveTruncates
  BY <1>0, <1>6 DEF SendConsistent, SaveTruncates
<1>7. CASE SaveWrites
  BY <1>0, <1>7 DEF SendConsistent, SaveWrites
<1>8. CASE SaveFails
  BY <1>0, <1>8 DEF SendConsistent, SaveFails
<1>9. ASSUME NEW c \in Configs, CreateDevice(c) PROVE SendConsistent'
  BY <1>0, <1>9 DEF SendConsistent, CreateDevice
<1>10. ASSUME NEW i \in Ids, NEW c \in Configs, UpdateDevice(i, c) PROVE SendConsistent'
  BY <1>0, <1>10 DEF SendConsistent, UpdateDevice
<1>11. ASSUME NEW i \in Ids, RemoveDevice(i) PROVE SendConsistent'
  <2>1. CASE devices[i] # 0
    BY <1>11, <2>1, RemoveClears DEF SendConsistent
  <2>2. CASE devices[i] = 0
    BY <1>11, <2>2, RemoveClears DEF SendConsistent
  <2> QED BY <2>1, <2>2
<1>12. ASSUME NEW i \in Ids, ExecuteCommand(i) PROVE SendConsistent'
  <2>1. tasks[devices[i]].handle /\ devices[i] # 0
    BY <1>12 DEF ExecuteCommand, MapConsistent, IInv
  <2>2. cur' = [to |-> devices[i], what |-> "execute"] /\ tasks' = tasks
    BY <1>12 DEF ExecuteCommand
  <2> QED BY <2>1, <2>2 DEF SendConsistent
<1>13. CASE Crash
  BY <1>0, <1>13 DEF SendConsistent, Crash
<1>14. CASE \/ \E p \in Ports : Unplug(p) \/ Plug(p)
           \/ \E s \in Slots : DeviceStep(s)
  <2>1. TasksGoOn
    BY <1>14, TasksOnly
  <2> QED BY <1>0, <2>1 DEF SendConsistent, TasksGoOn, TypeOK
<1>15. CASE UNCHANGED vars
  BY <1>0, <1>15 DEF SendConsistent
<1> QED BY <1>1, <1>2, <1>3, <1>4, <1>5, <1>6, <1>7,
          <1>8, <1>9, <1>10, <1>11, <1>12, <1>13, <1>14, <1>15
       DEF Next, ManagerContinues, Command

-----------------------------------------------------------------------------
(* The rigs still to be opened are configured and have no device.          *)

LEMMA TodoConsistentInit == Init => TodoConsistent
BY FreeTaskType, SavedAssumption DEF Init, TodoConsistent

LEMMA TodoConsistentStep == IInv /\ [Next]_vars => TodoConsistent'
<1> SUFFICES ASSUME IInv, [Next]_vars
             PROVE  TodoConsistent'
  OBVIOUS
<1>0. TypeOK /\ TodoConsistent
  BY DEF IInv
<1>1. CASE Start
  <2>0. file \in Seq(Rig) /\ DistinctIds(file)
    BY <1>0 DEF TypeOK, IInv, FileConsistent
  <2>1. /\ \A i \in Ids : devices[i] = 0
        /\ devices' = devices /\ rigs' = file /\ todo' = IdsOf(file)
        /\ mgr' = IF todo' = <<>> THEN "idle" ELSE "opening"
    BY <1>1 DEF Start, IInv, EndedConsistent
  <2>2. /\ IdsOf(file) \in Seq(Ids) /\ Len(IdsOf(file)) = Len(file)
        /\ \A k \in 1..Len(file) : IdsOf(file)[k] = file[k].id
    BY <2>0, IdsOfType
  <2>3. \A k \in 1..Len(todo') : /\ devices'[todo'[k]] = 0
                                  /\ \E j \in 1..Len(rigs') : rigs'[j].id = todo'[k]
    <3> SUFFICES ASSUME NEW k \in 1..Len(todo')
                 PROVE  /\ devices'[todo'[k]] = 0
                        /\ \E j \in 1..Len(rigs') : rigs'[j].id = todo'[k]
      OBVIOUS
    <3>1. k \in 1..Len(rigs') /\ rigs'[k].id = todo'[k] /\ todo'[k] \in Ids
      BY <2>1, <2>2
    <3> QED BY <2>1, <3>1
  <2>4. \A j, k \in 1..Len(todo') : j # k => todo'[j] # todo'[k]
    BY <2>0, <2>1, <2>2
  <2> QED BY <2>1, <2>3, <2>4 DEF TodoConsistent
<1>2. CASE AddDevice
  <2>1. TodoAdvances /\ rigs' = rigs
    BY <1>2, TodoTail DEF AddDevice
  <2>2. \A j \in Ids : j # todo[1] => devices'[j] = devices[j]
    BY <1>2, AddDeviceOpens DEF Opened
  <2> SUFFICES ASSUME NEW k \in 1..Len(todo')
               PROVE  /\ devices'[todo'[k]] = 0
                      /\ \E j \in 1..Len(rigs) : rigs[j].id = todo'[k]
                      /\ \A j \in 1..Len(todo') : j # k => todo'[j] # todo'[k]
    BY <2>1 DEF TodoConsistent, TodoAdvances
  <2>3. k + 1 \in 1..Len(todo) /\ todo'[k] = todo[k + 1] /\ todo[k + 1] # todo[1]
    BY <1>0, <2>1 DEF TodoConsistent, TodoAdvances
  <2>4. devices[todo[k + 1]] = 0 /\ \E j \in 1..Len(rigs) : rigs[j].id = todo[k + 1]
    BY <1>0, <2>3 DEF TodoConsistent
  <2>5. devices'[todo'[k]] = 0
    BY <2>1, <2>2, <2>3, <2>4 DEF TodoAdvances
  <2>6. \A j \in 1..Len(todo') : j # k => todo'[j] # todo'[k]
    BY <1>0, <2>1, <2>3 DEF TodoConsistent, TodoAdvances
  <2> QED BY <2>3, <2>4, <2>5, <2>6
<1>3. CASE AddDeviceFails
  <2>1. TodoAdvances /\ UNCHANGED <<rigs, devices>>
    BY <1>3, TodoTail DEF AddDeviceFails
  <2> SUFFICES ASSUME NEW k \in 1..Len(todo')
               PROVE  /\ devices[todo'[k]] = 0
                      /\ \E j \in 1..Len(rigs) : rigs[j].id = todo'[k]
                      /\ \A j \in 1..Len(todo') : j # k => todo'[j] # todo'[k]
    BY <2>1 DEF TodoConsistent, TodoAdvances
  <2>2. k + 1 \in 1..Len(todo) /\ todo'[k] = todo[k + 1]
    BY <2>1 DEF TodoAdvances
  <2>3. devices[todo[k + 1]] = 0 /\ \E j \in 1..Len(rigs) : rigs[j].id = todo[k + 1]
    BY <1>0, <2>2 DEF TodoConsistent
  <2>4. \A j \in 1..Len(todo') : j # k => todo'[j] # todo'[k]
    BY <1>0, <2>1, <2>2 DEF TodoConsistent, TodoAdvances
  <2> QED BY <2>2, <2>3, <2>4
<1>4. CASE Deliver
  BY <1>0, <1>4 DEF TodoConsistent, Deliver, Receives
<1>5. CASE DeliverShutdown
  BY <1>0, <1>5 DEF TodoConsistent, DeliverShutdown, Receives
<1>6. CASE SaveTruncates
  BY <1>0, <1>6 DEF TodoConsistent, SaveTruncates
<1>7. CASE SaveWrites
  BY <1>0, <1>7 DEF TodoConsistent, SaveWrites
<1>8. CASE SaveFails
  BY <1>0, <1>8 DEF TodoConsistent, SaveFails
<1>9. ASSUME NEW c \in Configs, CreateDevice(c) PROVE TodoConsistent'
  BY <1>0, <1>9, CreateAppends DEF TodoConsistent, CreateDevice, Created
<1>10. ASSUME NEW i \in Ids, NEW c \in Configs, UpdateDevice(i, c) PROVE TodoConsistent'
  <2>1. Changed(i, c)
    BY <1>10, UpdateChanges
  <2>2. mgr' = "saving" /\ todo' = IF HasRig(i) THEN <<i>> ELSE <<>>
    BY <1>10 DEF UpdateDevice
  <2>3. HasRig(i) => HasRig(i)'
    BY <2>1 DEF Changed
  <2>4. CASE HasRig(i)
    BY <2>1, <2>2, <2>3, <2>4 DEF TodoConsistent, Changed
  <2>5. CASE ~ HasRig(i)
    BY <2>2, <2>5 DEF TodoConsistent
  <2> QED BY <2>4, <2>5
<1>11. ASSUME NEW i \in Ids, RemoveDevice(i) PROVE TodoConsistent'
  BY <1>0, <1>11 DEF TodoConsistent, RemoveDevice
<1>12. ASSUME NEW i \in Ids, ExecuteCommand(i) PROVE TodoConsistent'
  BY <1>0, <1>12 DEF TodoConsistent, ExecuteCommand
<1>13. CASE Crash
  BY <1>0, <1>13 DEF TodoConsistent, Crash
<1>14. CASE \/ \E p \in Ports : Unplug(p) \/ Plug(p)
           \/ \E s \in Slots : DeviceStep(s)
  <2>1. TasksGoOn
    BY <1>14, TasksOnly
  <2> QED BY <1>0, <2>1 DEF TodoConsistent, TasksGoOn, TypeOK
<1>15. CASE UNCHANGED vars
  BY <1>0, <1>15 DEF TodoConsistent
<1> QED BY <1>1, <1>2, <1>3, <1>4, <1>5, <1>6, <1>7,
          <1>8, <1>9, <1>10, <1>11, <1>12, <1>13, <1>14, <1>15
       DEF Next, ManagerContinues, Command

-----------------------------------------------------------------------------
(* Every rig has its device, is to be opened, was refused or is removed.   *)

LEMMA RigsAccountedInit == Init => RigsAccounted
BY FreeTaskType, SavedAssumption DEF Init, RigsAccounted

LEMMA RigsAccountedStep == IInv /\ [Next]_vars => RigsAccounted'
<1> SUFFICES ASSUME IInv, [Next]_vars
             PROVE  RigsAccounted'
  OBVIOUS
<1>0. TypeOK /\ RigsAccounted
  BY DEF IInv
<1>1. CASE Start
  BY <1>0, <1>1, NextIdIsAbove, IdsOfType DEF RigsAccounted, Start, TypeOK
<1>2. CASE AddDevice
  <2>1. PICK s \in Slots : Opened(todo[1], s)
    BY <1>2, AddDeviceOpens
  <2>2. TodoAdvances
    BY <1>2, TodoTail
  <2>3. rigs' = rigs /\ refused' = refused \ {todo[1]} /\ mgr = "opening"
    BY <1>2, TodoTail DEF AddDevice
  <2> SUFFICES ASSUME NEW k \in 1..Len(rigs)
               PROVE  \/ devices'[rigs[k].id] # 0 \/ rigs[k].id \in refused'
                      \/ \E j \in 1..Len(todo') : todo'[j] = rigs[k].id
    BY <2>3 DEF RigsAccounted
  <2>4. rigs[k].id \in Ids
    BY <1>0, RigIds DEF TypeOK
  <2>5. CASE rigs[k].id = todo[1]
    BY <2>1, <2>5 DEF Opened, Slots
  <2>6. CASE rigs[k].id # todo[1]
    <3>1. devices'[rigs[k].id] = devices[rigs[k].id]
      BY <2>1, <2>4, <2>6 DEF Opened
    <3>2. \/ devices[rigs[k].id] # 0 \/ rigs[k].id \in refused
          \/ \E j \in 1..Len(todo) : todo[j] = rigs[k].id
      BY <1>0, <2>3 DEF RigsAccounted
    <3>3. ASSUME NEW j \in 1..Len(todo), todo[j] = rigs[k].id
          PROVE  \E l \in 1..Len(todo') : todo'[l] = rigs[k].id
      BY <2>2, <2>6, <3>3 DEF TodoAdvances
    <3> QED BY <2>3, <2>6, <3>1, <3>2, <3>3
  <2> QED BY <2>5, <2>6
<1>3. CASE AddDeviceFails
  <2>1. TodoAdvances
    BY <1>3, TodoTail
  <2>2. /\ rigs' = rigs /\ refused' = refused \cup {todo[1]} /\ mgr = "opening"
        /\ devices' = devices
    BY <1>3, TodoTail DEF AddDeviceFails
  <2> QED BY <1>0, <2>1, <2>2 DEF TodoAdvances, RigsAccounted
<1>4. CASE Deliver
  BY <1>0, <1>4 DEF RigsAccounted, Deliver, Receives
<1>5. CASE DeliverShutdown
  <2> DEFINE gone == tasks[cur.to].id
  <2>1. gone \in Ids /\ rigs' = Without(rigs, gone)
    BY <1>5, ShutdownRemoves
  <2>2. devices' = devices /\ refused' = refused /\ mgr = "sending" /\ todo = <<>>
    BY <1>5 DEF DeliverShutdown, IInv, TodoConsistent, Receives
  <2>3. \A k \in 1..Len(rigs) : rigs[k].id # gone =>
          devices[rigs[k].id] # 0 \/ rigs[k].id \in refused
    BY <1>0, <2>2 DEF RigsAccounted
  <2> HIDE DEF gone
  <2> SUFFICES ASSUME NEW k \in 1..Len(Without(rigs, gone))
               PROVE  \/ devices[Without(rigs, gone)[k].id] # 0
                      \/ Without(rigs, gone)[k].id \in refused
    BY <2>1, <2>2 DEF RigsAccounted
  <2>4. /\ Without(rigs, gone)[k].id # gone
        /\ \E j \in 1..Len(rigs) : rigs[j] = Without(rigs, gone)[k]
    BY <2>1, WithoutRig
  <2> QED BY <2>3, <2>4
<1>6. CASE SaveTruncates
  BY <1>0, <1>6 DEF RigsAccounted, SaveTruncates
<1>7. CASE SaveWrites
  BY <1>0, <1>7 DEF RigsAccounted, SaveWrites
<1>8. CASE SaveFails
  BY <1>0, <1>8 DEF RigsAccounted, SaveFails
<1>9. ASSUME NEW c \in Configs, CreateDevice(c) PROVE RigsAccounted'
  <2>1. Created(c)
    BY <1>9, CreateAppends
  <2>2. devices' = devices /\ refused' = refused /\ mgr = "idle" /\ todo = <<>>
    BY <1>9 DEF CreateDevice, IInv, TodoConsistent
  <2> SUFFICES ASSUME NEW k \in 1..Len(rigs')
               PROVE  \/ devices[rigs'[k].id] # 0 \/ rigs'[k].id \in refused
                      \/ \E j \in 1..Len(todo') : todo'[j] = rigs'[k].id
    BY <2>2 DEF RigsAccounted
  <2>3. CASE k = Len(rigs')
    <3>1. rigs'[k].id = todo'[1] /\ 1 \in 1..Len(todo')
      BY <2>1, <2>3 DEF Created
    <3> QED BY <3>1
  <2>4. CASE k # Len(rigs')
    <3>1. k \in 1..Len(rigs) /\ rigs'[k] = rigs[k]
      BY <1>0, <2>1, <2>4 DEF Created, TypeOK
    <3> QED BY <1>0, <2>2, <3>1 DEF RigsAccounted
  <2> QED BY <2>3, <2>4
<1>10. ASSUME NEW i \in Ids, NEW c \in Configs, UpdateDevice(i, c) PROVE RigsAccounted'
  <2>1. Changed(i, c)
    BY <1>10, UpdateChanges
  <2>2. /\ refused' = refused /\ mgr = "idle" /\ todo = <<>>
        /\ todo' = IF HasRig(i) THEN <<i>> ELSE <<>>
    BY <1>10 DEF UpdateDevice, IInv, TodoConsistent
  <2> SUFFICES ASSUME NEW k \in 1..Len(rigs)
               PROVE  \/ devices'[rigs[k].id] # 0 \/ rigs[k].id \in refused
                      \/ \E j \in 1..Len(todo') : todo'[j] = rigs[k].id
    BY <2>1, <2>2 DEF RigsAccounted, Changed
  <2>3. CASE rigs[k].id = i
    <3>1. todo' = <<rigs[k].id>>
      BY <2>2, <2>3
    <3> QED BY <3>1
  <2>4. CASE rigs[k].id # i
    <3>1. devices'[rigs[k].id] = devices[rigs[k].id]
      BY <1>0, <2>1, <2>4, RigIds DEF Changed, TypeOK
    <3> QED BY <1>0, <2>2, <3>1 DEF RigsAccounted
  <2> QED BY <2>3, <2>4
<1>11. ASSUME NEW i \in Ids, RemoveDevice(i) PROVE RigsAccounted'
  <2>0. refused' = refused /\ mgr = "idle" /\ todo = <<>> /\ tasks' = tasks
    BY <1>11 DEF RemoveDevice, IInv, TodoConsistent
  <2>1. \A k \in 1..Len(rigs) : rigs[k].id \in Ids /\
          (devices[rigs[k].id] # 0 \/ rigs[k].id \in refused)
    BY <1>0, <2>0, RigIds DEF RigsAccounted, TypeOK
  <2>2. devices'[i] = 0 /\ \A j \in Ids : j # i => devices'[j] = devices[j]
    BY <1>11, RemoveClears
  <2>3. CASE devices[i] # 0
    <3>1. /\ rigs' = rigs /\ mgr' = "sending" /\ cur'.what = "shutdown"
          /\ tasks'[cur'.to].id = i
      BY <1>11, <2>0, <2>3, RemoveClears
    <3> QED BY <2>0, <2>1, <2>2, <3>1 DEF RigsAccounted
  <2>4. CASE devices[i] = 0
    <3>1. rigs' = Without(rigs, i)
      BY <1>11, <2>4, RemoveClears
    <3> SUFFICES ASSUME NEW k \in 1..Len(Without(rigs, i))
                 PROVE  \/ devices'[Without(rigs, i)[k].id] # 0
                        \/ Without(rigs, i)[k].id \in refused
      BY <2>0, <3>1 DEF RigsAccounted
    <3>2. /\ Without(rigs, i)[k].id # i
          /\ \E j \in 1..Len(rigs) : rigs[j] = Without(rigs, i)[k]
      BY WithoutRig
    <3> QED BY <2>1, <2>2, <3>2
  <2> QED BY <2>3, <2>4
<1>12. ASSUME NEW i \in Ids, ExecuteCommand(i) PROVE RigsAccounted'
  BY <1>0, <1>12 DEF RigsAccounted, ExecuteCommand
<1>13. CASE Crash
  BY <1>0, <1>13 DEF RigsAccounted, Crash
<1>14. CASE \/ \E p \in Ports : Unplug(p) \/ Plug(p)
           \/ \E s \in Slots : DeviceStep(s)
  <2>1. TasksGoOn
    BY <1>14, TasksOnly
  <2>2. mgr = "sending" => cur.to \in Slots /\ tasks[cur.to].handle
    BY <1>0 DEF IInv, SendConsistent, TypeOK
  <2>3. mgr = "sending" => tasks'[cur.to].id = tasks[cur.to].id
    BY <2>1, <2>2 DEF TasksGoOn
  <2> QED BY <1>0, <2>1, <2>3 DEF RigsAccounted, TasksGoOn
<1>15. CASE UNCHANGED vars
  BY <1>0, <1>15 DEF RigsAccounted
<1> QED BY <1>1, <1>2, <1>3, <1>4, <1>5, <1>6, <1>7,
          <1>8, <1>9, <1>10, <1>11, <1>12, <1>13, <1>14, <1>15
       DEF Next, ManagerContinues, Command

-----------------------------------------------------------------------------
(* The file holds the settings unless they are being saved.                *)

LEMMA FileConsistentInit == Init => FileConsistent
BY FreeTaskType, SavedAssumption DEF Init, FileConsistent

LEMMA FileConsistentStep == IInv /\ [Next]_vars => FileConsistent'
<1> SUFFICES ASSUME IInv, [Next]_vars
             PROVE  FileConsistent'
  OBVIOUS
<1>0. TypeOK /\ FileConsistent
  BY DEF IInv
<1>1. CASE Start
  BY <1>0, <1>1 DEF FileConsistent, Start
<1>2. CASE AddDevice
  BY <1>0, <1>2 DEF FileConsistent, AddDevice
<1>3. CASE AddDeviceFails
  BY <1>0, <1>3 DEF FileConsistent, AddDeviceFails
<1>4. CASE Deliver
  BY <1>0, <1>4 DEF FileConsistent, Deliver, Receives
<1>5. CASE DeliverShutdown
  BY <1>0, <1>5 DEF FileConsistent, DeliverShutdown, Receives
<1>6. CASE SaveTruncates
  BY <1>0, <1>6 DEF FileConsistent, SaveTruncates
<1>7. CASE SaveWrites
  BY <1>7 DEF FileConsistent, SaveWrites, IInv, IdsAreFresh
<1>8. CASE SaveFails
  BY <1>0, <1>8 DEF FileConsistent, SaveFails
<1>9. ASSUME NEW c \in Configs, CreateDevice(c) PROVE FileConsistent'
  BY <1>0, <1>9 DEF FileConsistent, CreateDevice
<1>10. ASSUME NEW i \in Ids, NEW c \in Configs, UpdateDevice(i, c) PROVE FileConsistent'
  BY <1>0, <1>10 DEF FileConsistent, UpdateDevice
<1>11. ASSUME NEW i \in Ids, RemoveDevice(i) PROVE FileConsistent'
  BY <1>0, <1>11 DEF FileConsistent, RemoveDevice
<1>12. ASSUME NEW i \in Ids, ExecuteCommand(i) PROVE FileConsistent'
  BY <1>0, <1>12 DEF FileConsistent, ExecuteCommand
<1>13. CASE Crash
  BY <1>0, <1>13 DEF FileConsistent, Crash
<1>14. CASE \/ \E p \in Ports : Unplug(p) \/ Plug(p)
           \/ \E s \in Slots : DeviceStep(s)
  <2>1. TasksGoOn
    BY <1>14, TasksOnly
  <2> QED BY <1>0, <2>1 DEF FileConsistent, TasksGoOn, TypeOK
<1>15. CASE UNCHANGED vars
  BY <1>0, <1>15 DEF FileConsistent
<1> QED BY <1>1, <1>2, <1>3, <1>4, <1>5, <1>6, <1>7,
          <1>8, <1>9, <1>10, <1>11, <1>12, <1>13, <1>14, <1>15
       DEF Next, ManagerContinues, Command

-----------------------------------------------------------------------------
(* Ids are unique and below the next one.                                  *)

LEMMA IdsAreFreshInit == Init => IdsAreFresh
BY FreeTaskType, SavedAssumption DEF Init, IdsAreFresh

LEMMA IdsAreFreshStep == IInv /\ [Next]_vars => IdsAreFresh'
<1> SUFFICES ASSUME IInv, [Next]_vars
             PROVE  IdsAreFresh'
  OBVIOUS
<1>0. TypeOK /\ IdsAreFresh
  BY DEF IInv
<1>1. CASE Start
  <2>1. /\ file \in Seq(Rig) /\ DistinctIds(file)
        /\ \A s \in Slots : tasks[s].phase = "free"
    BY <1>0, <1>1 DEF TypeOK, IInv, FileConsistent, EndedConsistent, Start
  <2>2. \A k \in 1..Len(file) : file[k].id < ComputeNextId(file)
    BY <2>1, NextIdIsAbove
  <2>3. rigs' = file /\ nextId' = ComputeNextId(file) /\ tasks' = tasks
    BY <1>1 DEF Start
  <2> QED BY <2>1, <2>2, <2>3 DEF IdsAreFresh
<1>2. CASE AddDevice
  <2>1. PICK s \in Slots : Opened(todo[1], s)
    BY <1>2, AddDeviceOpens
  <2>2. rigs' = rigs /\ nextId' = nextId
    BY <1>2 DEF AddDevice
  <2>3. tasks'[s].id < nextId
    BY <1>0, <2>1 DEF Opened, IdsAreFresh
  <2> QED BY <1>0, <2>1, <2>2, <2>3 DEF IdsAreFresh, Opened
<1>3. CASE AddDeviceFails
  BY <1>0, <1>3 DEF IdsAreFresh, AddDeviceFails
<1>4. CASE Deliver
  <2>1. /\ cur.to \in Slots
        /\ tasks' = [tasks EXCEPT ![cur.to].queue = Append(@, "execute")]
    BY <1>4, DeliverQueues
  <2>2. mgr = "sending" /\ cur.what = "execute" /\ UNCHANGED <<devices, rigs, nextId>>
    BY <1>4 DEF Deliver
  <2> QED BY <1>0, <2>1, <2>2 DEF IdsAreFresh, TypeOK, Task
<1>5. CASE DeliverShutdown
  <2> DEFINE gone == tasks[cur.to].id
  <2>1. gone \in Ids /\ rigs' = Without(rigs, gone) /\ nextId' = nextId
    BY <1>5, ShutdownRemoves DEF DeliverShutdown, Receives
  <2>2. \A s \in Slots : tasks'[s].phase # "free" =>
          tasks[s].phase # "free" /\ tasks'[s].id = tasks[s].id
    BY <1>5, ShutdownRemoves
  <2> HIDE DEF gone
  <2>3. /\ DistinctIds(Without(rigs, gone))
        /\ \A k \in 1..Len(Without(rigs, gone)) :
             \E j \in 1..Len(rigs) : rigs[j] = Without(rigs, gone)[k]
    BY <2>1, WithoutRig
  <2>4. \A k \in 1..Len(Without(rigs, gone)) : Without(rigs, gone)[k].id < nextId
    BY <1>0, <2>3 DEF IdsAreFresh
  <2> QED BY <1>0, <2>1, <2>2, <2>3, <2>4 DEF IdsAreFresh
<1>6. CASE SaveTruncates
  BY <1>0, <1>6 DEF IdsAreFresh, SaveTruncates
<1>7. CASE SaveWrites
  BY <1>0, <1>7 DEF IdsAreFresh, SaveWrites
<1>8. CASE SaveFails
  BY <1>0, <1>8, SaveFailsDrops DEF IdsAreFresh, SaveFails
<1>9. ASSUME NEW c \in Configs, CreateDevice(c) PROVE IdsAreFresh'
  <2>1. Created(c)
    BY <1>9, CreateAppends
  <2>2. nextId \in Nat /\ rigs \in Seq(Rig) /\ tasks' = tasks /\ tasks \in [Slots -> Task]
    BY <1>0, <1>9 DEF TypeOK, CreateDevice
  <2>3. \A s \in Slots : tasks[s].id \in Nat
    BY <2>2 DEF Task, Ids
  <2>4. \A k \in 1..Len(rigs') :
          \/ /\ k = Len(rigs')
             /\ rigs'[k].id = nextId
          \/ /\ k \in 1..Len(rigs)
             /\ rigs'[k] = rigs[k]
             /\ rigs[k].id < nextId
             /\ rigs[k].id \in Nat
    BY <1>0, <2>1, <2>2, RigIds DEF Created, IdsAreFresh, Ids
  <2>5. DistinctIds(rigs')
    BY <1>0, <2>2, <2>4 DEF IdsAreFresh
  <2>6. \A k \in 1..Len(rigs') : rigs'[k].id < nextId'
    BY <2>1, <2>2, <2>4 DEF Created
  <2>7. \A s \in Slots : tasks'[s].phase # "free" => tasks'[s].id < nextId'
    BY <1>0, <2>1, <2>2, <2>3 DEF Created, IdsAreFresh
  <2> QED BY <2>5, <2>6, <2>7 DEF IdsAreFresh
<1>10. ASSUME NEW i \in Ids, NEW c \in Configs, UpdateDevice(i, c) PROVE IdsAreFresh'
  BY <1>0, <1>10 DEF IdsAreFresh, UpdateDevice
<1>11. ASSUME NEW i \in Ids, RemoveDevice(i) PROVE IdsAreFresh'
  <2>1. tasks' = tasks /\ nextId' = nextId /\ (rigs' = rigs \/ rigs' = Without(rigs, i))
    BY <1>11 DEF RemoveDevice
  <2>2. /\ DistinctIds(Without(rigs, i))
        /\ \A k \in 1..Len(Without(rigs, i)) :
             \E j \in 1..Len(rigs) : rigs[j] = Without(rigs, i)[k]
    BY WithoutRig
  <2>3. \A k \in 1..Len(Without(rigs, i)) : Without(rigs, i)[k].id < nextId
    BY <1>0, <2>2 DEF IdsAreFresh
  <2>4. CASE rigs' = rigs
    BY <1>0, <2>1, <2>4 DEF IdsAreFresh
  <2>5. CASE rigs' = Without(rigs, i)
    BY <1>0, <2>1, <2>2, <2>3, <2>5 DEF IdsAreFresh
  <2> QED BY <2>1, <2>4, <2>5
<1>12. ASSUME NEW i \in Ids, ExecuteCommand(i) PROVE IdsAreFresh'
  BY <1>0, <1>12 DEF IdsAreFresh, ExecuteCommand
<1>13. CASE Crash
  BY <1>0, <1>13, FreeTaskType DEF IdsAreFresh, Crash
<1>14. CASE \/ \E p \in Ports : Unplug(p) \/ Plug(p)
           \/ \E s \in Slots : DeviceStep(s)
  <2>1. rigs' = rigs /\ nextId' = nextId
    BY <1>14 DEF Unplug, Plug, DeviceStep, SerialLoses, SerialReopens, SerialEnds,
                 TaskConnected, TaskDisconnected, TaskTakes, TaskDropped, Sticks
  <2>2. \A s \in Slots : tasks'[s].phase # "free" =>
          tasks[s].phase # "free" /\ tasks'[s].id = tasks[s].id
    BY <1>14, TasksOnly DEF TasksGoOn
  <2> QED BY <1>0, <2>1, <2>2 DEF IdsAreFresh
<1>15. CASE UNCHANGED vars
  BY <1>0, <1>15 DEF IdsAreFresh
<1> QED BY <1>1, <1>2, <1>3, <1>4, <1>5, <1>6, <1>7,
          <1>8, <1>9, <1>10, <1>11, <1>12, <1>13, <1>14, <1>15
       DEF Next, ManagerContinues, Command

-----------------------------------------------------------------------------
(* Types.                                                                  *)

TasksTyped ==
  /\ tasks \in [Slots -> Task]
  /\ \A t \in Slots : Len(tasks[t].queue) <= TaskCap

LEMMA TaskSet ==
  ASSUME TypeOK, NEW s, NEW t \in Task, Len(t.queue) <= TaskCap,
         tasks' = [tasks EXCEPT ![s] = t]
  PROVE  TasksTyped'
BY DEF TypeOK, TasksTyped

LEMMA TypeInit == Init => TypeOK
<1> SUFFICES ASSUME Init PROVE TypeOK
  OBVIOUS
<1>1. file \in Seq(Rig) /\ tasks \in [Slots -> Task]
  BY SavedAssumption, FreeTaskType DEF Init
<1>2. \A t \in Slots : Len(tasks[t].queue) <= TaskCap
  BY BoundsAssumption, FreeTaskType DEF Init
<1>3. 0 \in 0..MaxIds /\ 0 \in 0..MaxCommands /\ 0 \in 0..MaxCrashes
  BY BoundsAssumption
<1> QED BY <1>1, <1>2, <1>3 DEF Init, TypeOK

LEMMA TypeStep == IInv /\ [Next]_vars => TypeOK'
<1> SUFFICES ASSUME IInv, [Next]_vars
             PROVE  TypeOK'
  OBVIOUS
<1>0. TypeOK
  BY DEF IInv
<1>1. CASE Start
  <2>1. IdsOf(file) \in Seq(Ids) /\ ComputeNextId(file) \in 0..MaxIds
    BY <1>0, NextIdIsAbove, IdsOfType DEF TypeOK
  <2> QED BY <1>0, <1>1, <2>1 DEF TypeOK, Start
<1>2. CASE AddDevice
  <2>1. todo' \in Seq(Ids) /\ HasRig(todo[1]) /\ Head(todo) = todo[1]
    BY <1>2, TodoTail DEF TodoAdvances
  <2>2. GetRig(todo[1]) \in Rig
    BY <1>0, <2>1, GetRigFinds DEF TypeOK
  <2>3. PICK s \in Slots : /\ tasks' = [tasks EXCEPT ![s] = NewTask(GetRig(todo[1]))]
                           /\ devices' = [devices EXCEPT ![todo[1]] = s]
    BY <1>2, <2>1 DEF AddDevice
  <2>4. TasksTyped'
    <3>1. /\ NewTask(GetRig(todo[1])) \in Task
          /\ Len(NewTask(GetRig(todo[1])).queue) <= TaskCap
      <4>1. /\ NewTask(GetRig(todo[1])) \in Task
            /\ NewTask(GetRig(todo[1])).queue = <<>>
        BY <2>2, NewTaskType
      <4> QED BY <4>1, BoundsAssumption
    <3> QED BY <1>0, <2>3, <3>1, TaskSet
  <2>5. devices' \in [Ids -> Slots \cup {0}]
    BY <1>0, <2>3 DEF TypeOK
  <2>6. /\ mgr' \in {"opening", "idle"} /\ refused' \subseteq Ids
        /\ UNCHANGED <<file, plugged, rigs, nextId, cur, shown, commands, crashes>>
    BY <1>0, <1>2 DEF AddDevice, TypeOK
  <2> QED BY <1>0, <2>1, <2>4, <2>5, <2>6 DEF TypeOK, TasksTyped
<1>3. CASE AddDeviceFails
  <2>1. todo' \in Seq(Ids) /\ todo[1] \in Ids /\ Head(todo) = todo[1]
    BY <1>3, TodoTail DEF TodoAdvances
  <2> QED BY <1>0, <1>3, <2>1 DEF TypeOK, AddDeviceFails
<1>4. CASE Deliver
  <2>0. cur.to \in Slots
    BY <1>4, DeliverQueues
  <2> DEFINE t == [tasks[cur.to] EXCEPT !.queue = Append(@, "execute")]
  <2>1. tasks' = [tasks EXCEPT ![cur.to] = t]
    BY <1>4, DeliverQueues
  <2>2. tasks[cur.to] \in Task /\ Len(tasks[cur.to].queue) <= TaskCap
    BY <1>0, <2>0 DEF TypeOK
  <2>3. t \in Task /\ Len(t.queue) <= TaskCap
    <3>1. tasks[cur.to].queue \in Seq({"execute", "shutdown"})
      BY <2>2 DEF Task
    <3>2. /\ Append(tasks[cur.to].queue, "execute") \in Seq({"execute", "shutdown"})
          /\ Len(Append(tasks[cur.to].queue, "execute")) <= TaskCap
      BY <1>4, <3>1, DeliverQueues, BoundsAssumption
    <3> QED BY <2>2, <3>2 DEF Task
  <2> HIDE DEF t
  <2>4. TasksTyped'
    BY <1>0, <2>1, <2>3, TaskSet, <2>0
  <2> QED BY <1>0, <1>4, <2>4 DEF Deliver, TypeOK, TasksTyped
<1>5. CASE DeliverShutdown
  <2>0. cur.to \in Slots
    BY <1>5, ShutdownRemoves
  <2> DEFINE t == [tasks[cur.to] EXCEPT !.queue = Append(@, "shutdown"),
                                      !.handle = FALSE]
  <2>1. tasks' = [tasks EXCEPT ![cur.to] = t]
    BY <1>0, <1>5 DEF DeliverShutdown, TypeOK, Task, Receives
  <2>2. tasks[cur.to] \in Task /\ Len(tasks[cur.to].queue) <= TaskCap
    BY <1>0, <2>0 DEF TypeOK
  <2>3. t \in Task /\ Len(t.queue) <= TaskCap
    <3>1. tasks[cur.to].queue \in Seq({"execute", "shutdown"})
      BY <2>2 DEF Task
    <3>2. /\ Append(tasks[cur.to].queue, "shutdown") \in Seq({"execute", "shutdown"})
          /\ Len(Append(tasks[cur.to].queue, "shutdown")) <= TaskCap
      BY <1>5, <3>1, BoundsAssumption DEF DeliverShutdown, Receives
    <3> QED BY <2>2, <3>2 DEF Task
  <2> HIDE DEF t
  <2>4. TasksTyped'
    BY <1>0, <2>1, <2>3, TaskSet, <2>0
  <2>5. rigs' \in Seq(Rig)
    BY <1>5, ShutdownRemoves, WithoutRig
  <2> QED BY <1>0, <1>5, <2>4, <2>5 DEF DeliverShutdown, TypeOK, TasksTyped, Receives
<1>6. CASE SaveTruncates
  BY <1>0, <1>6 DEF SaveTruncates, TypeOK
<1>7. CASE SaveWrites
  BY <1>0, <1>7 DEF SaveWrites, TypeOK
<1>8. CASE SaveFails
  <2>1. ASSUME NEW t \in Slots
        PROVE  [tasks[t] EXCEPT !.handle = FALSE] \in Task
               /\ Len([tasks[t] EXCEPT !.handle = FALSE].queue) <= TaskCap
    <3>1. tasks[t] \in Task /\ Len(tasks[t].queue) <= TaskCap
      BY <1>0 DEF TypeOK
    <3> QED BY <3>1 DEF Task
  <2>2. TasksTyped'
    BY <1>8, <2>1 DEF SaveFails, TasksTyped
  <2> QED BY <1>0, <1>8, <2>2 DEF TypeOK, SaveFails, TasksTyped
<1>9. ASSUME NEW c \in Configs, CreateDevice(c) PROVE TypeOK'
  <2>1. Created(c)
    BY <1>9, CreateAppends
  <2>2. nextId' \in 0..MaxIds /\ todo' \in Seq(Ids)
    BY <2>1, BoundsAssumption DEF Created, Ids
  <2>3. commands' \in 0..MaxCommands
    BY <1>0, <1>9, BoundsAssumption DEF CreateDevice, TypeOK
  <2> QED BY <1>0, <1>9, <2>1, <2>2, <2>3 DEF TypeOK, CreateDevice, Created
<1>10. ASSUME NEW i \in Ids, NEW c \in Configs, UpdateDevice(i, c) PROVE TypeOK'
  <2>1. rigs' \in Seq(Rig)
    BY <1>10, UpdateChanges DEF Changed
  <2>2. TasksTyped'
    <3>1. ASSUME NEW t \in Slots
          PROVE  tasks'[t] \in Task /\ Len(tasks'[t].queue) <= TaskCap
      <4>1. /\ tasks[t] \in Task /\ Len(tasks[t].queue) <= TaskCap
            /\ tasks'[t] = IF t = devices[i] THEN [tasks[t] EXCEPT !.handle = FALSE]
                                             ELSE tasks[t]
        BY <1>0, <1>10 DEF TypeOK, UpdateDevice
      <4> QED BY <4>1 DEF Task
    <3>2. tasks' = [t \in Slots |-> tasks'[t]]
      BY <1>10 DEF UpdateDevice
    <3> QED BY <3>1, <3>2 DEF TasksTyped
  <2>3. commands' \in 0..MaxCommands /\ todo' \in Seq(Ids)
    BY <1>0, <1>10, BoundsAssumption DEF UpdateDevice, TypeOK
  <2> QED BY <1>0, <1>10, <2>1, <2>2, <2>3 DEF TypeOK, UpdateDevice, TasksTyped
<1>11. ASSUME NEW i \in Ids, RemoveDevice(i) PROVE TypeOK'
  <2>1. commands' \in 0..MaxCommands /\ devices' \in [Ids -> Slots \cup {0}]
    BY <1>0, <1>11, BoundsAssumption DEF RemoveDevice, TypeOK
  <2>2. mgr' \in {"sending", "saving"} /\ todo' \in Seq(Ids)
    <3>1. CASE devices[i] # 0
      BY <1>0, <1>11, <3>1, RemoveClears DEF TypeOK
    <3>2. CASE devices[i] = 0
      <4>1. mgr' = "saving" /\ todo' = <<>>
        BY <1>11, <3>2, RemoveClears
      <4> QED BY <4>1
    <3> QED BY <3>1, <3>2
  <2>3. rigs' \in Seq(Rig)
    BY <1>0, <1>11, WithoutRig DEF RemoveDevice, TypeOK
  <2>4. cur' \in [to : Slots \cup {0}, what : {"execute", "shutdown"}]
    BY <1>0, <1>11 DEF RemoveDevice, TypeOK
  <2> QED BY <1>0, <1>11, <2>1, <2>2, <2>3, <2>4 DEF TypeOK, RemoveDevice
<1>12. ASSUME NEW i \in Ids, ExecuteCommand(i) PROVE TypeOK'
  <2>1. commands' \in 0..MaxCommands
    BY <1>0, <1>12, BoundsAssumption DEF ExecuteCommand, TypeOK
  <2> QED BY <1>0, <1>12, <2>1 DEF TypeOK, ExecuteCommand
<1>13. CASE Crash
  <2>1. crashes' \in 0..MaxCrashes /\ tasks' \in [Slots -> Task]
    BY <1>0, <1>13, BoundsAssumption, FreeTaskType DEF Crash, TypeOK
  <2>2. \A t \in Slots : Len(tasks'[t].queue) <= TaskCap
    BY <1>13, BoundsAssumption, FreeTaskType DEF Crash
  <2>3. 0 \in 0..MaxIds
    BY BoundsAssumption
  <2> QED BY <1>0, <1>13, <2>1, <2>2, <2>3 DEF TypeOK, Crash
<1>14. ASSUME NEW p \in Ports, Unplug(p) PROVE TypeOK'
  <2>1. ASSUME NEW t \in Slots
        PROVE  tasks'[t] \in Task /\ Len(tasks'[t].queue) <= TaskCap
    <3>1. /\ tasks[t] \in Task /\ Len(tasks[t].queue) <= TaskCap
          /\ tasks'[t] = tasks[t] \/ tasks'[t] = [tasks[t] EXCEPT !.port = "broken"]
      BY <1>0, <1>14 DEF TypeOK, Unplug
    <3> QED BY <3>1 DEF Task
  <2>2. tasks' = [t \in Slots |-> tasks'[t]]
    BY <1>14 DEF Unplug
  <2>3. TasksTyped'
    BY <2>1, <2>2 DEF TasksTyped
  <2> QED BY <1>0, <1>14, <2>3 DEF Unplug, TypeOK, TasksTyped
<1>15. ASSUME NEW p \in Ports, Plug(p) PROVE TypeOK'
  BY <1>0, <1>15 DEF Plug, TypeOK
<1>16. ASSUME NEW s \in Slots, SerialLoses(s) PROVE TypeOK'
  <2> DEFINE t == [tasks[s] EXCEPT !.port = "closed",
                               !.lost = IF tasks[s].phase = "serving" THEN @ + 1 ELSE @]
  <2>2. tasks[s] \in Task /\ Len(tasks[s].queue) <= TaskCap
    BY <1>0 DEF TypeOK
  <2>1. tasks' = [tasks EXCEPT ![s] = t]
    <3>1. CASE tasks[s].phase = "serving"
      BY <1>0, <1>16, <3>1 DEF SerialLoses, TypeOK, Task
    <3>2. CASE tasks[s].phase = "closing"
      <4>1. t = [tasks[s] EXCEPT !.port = "closed"]
        BY <2>2, <3>2 DEF Task
      <4>2. tasks' = [tasks EXCEPT ![s] = [tasks[s] EXCEPT !.port = "closed"]]
        BY <1>0, <1>16, <3>2 DEF SerialLoses
      <4> QED BY <4>1, <4>2
    <3> QED BY <1>16, <3>1, <3>2 DEF SerialLoses
  <2>3. t \in Task /\ Len(t.queue) <= TaskCap
    <3>1. CASE tasks[s].phase = "serving"
      <4>1. tasks[s].lost + 1 \in 0..MaxLost
        BY <1>16, <2>2, <3>1, BoundsAssumption DEF SerialLoses, Task
      <4> QED BY <2>2, <3>1, <4>1 DEF Task
    <3>2. CASE tasks[s].phase = "closing"
      BY <2>2, <3>2 DEF Task
    <3> QED BY <1>16, <3>1, <3>2 DEF SerialLoses
  <2> HIDE DEF t
  <2>4. TasksTyped'
    BY <1>0, <2>1, <2>3, TaskSet
  <2> QED BY <1>0, <1>16, <2>4 DEF SerialLoses, TypeOK, TasksTyped
<1>17. ASSUME NEW s \in Slots, SerialReopens(s) PROVE TypeOK'
  <2>1. tasks' = [tasks EXCEPT ![s] = tasks'[s]] /\ tasks'[s] \in Task
        /\ tasks'[s].queue = tasks[s].queue
    BY <1>0, <1>17, ReopensForm DEF TypeOK
  <2>2. Len(tasks'[s].queue) <= TaskCap
    BY <1>0, <2>1 DEF TypeOK
  <2>3. TasksTyped'
    BY <1>0, <2>1, <2>2, TaskSet
  <2> QED BY <1>0, <1>17, <2>3 DEF SerialReopens, TypeOK, TasksTyped
<1>18. ASSUME NEW s \in Slots, SerialEnds(s) PROVE TypeOK'
  <2>1. /\ tasks' \in [Slots -> Task]
        /\ \A t \in Slots : Len(tasks'[t].queue) <= TaskCap
    BY <1>0, <1>18, FreeTaskType, BoundsAssumption DEF SerialEnds, TypeOK
  <2> QED BY <1>0, <1>18, <2>1 DEF SerialEnds, TypeOK
<1>19. ASSUME NEW s \in Slots, TaskConnected(s) PROVE TypeOK'
  <2> DEFINE t == [tasks[s] EXCEPT !.status = "Connected"]
  <2>1. tasks' = [tasks EXCEPT ![s] = t]
    BY <1>0, <1>19 DEF TaskConnected, TypeOK, Task
  <2>2. tasks[s] \in Task /\ Len(tasks[s].queue) <= TaskCap
    BY <1>0 DEF TypeOK
  <2>3. t \in Task /\ Len(t.queue) <= TaskCap
    BY <1>19, <2>2 DEF TaskConnected, Task
  <2> HIDE DEF t
  <2>4. TasksTyped'
    BY <1>0, <2>1, <2>3, TaskSet
  <2> QED BY <1>0, <1>19, <2>4 DEF TaskConnected, TypeOK, TasksTyped
<1>20. ASSUME NEW s \in Slots, TaskDisconnected(s) PROVE TypeOK'
  <2> DEFINE t == [tasks[s] EXCEPT !.status = "Connecting", !.lost = @ - 1]
  <2>1. tasks' = [tasks EXCEPT ![s] = t]
    BY <1>0, <1>20 DEF TaskDisconnected, TypeOK, Task
  <2>2. tasks[s] \in Task /\ Len(tasks[s].queue) <= TaskCap
    BY <1>0 DEF TypeOK
  <2>3. t \in Task /\ Len(t.queue) <= TaskCap
    <3>1. tasks[s].lost - 1 \in 0..MaxLost
      BY <1>20, <2>2, BoundsAssumption DEF TaskDisconnected, Task
    <3> QED BY <2>2, <3>1 DEF Task
  <2>4. shown' \in [Ids -> {"Connecting", "Connected"}]
    BY <1>0, <1>20 DEF TaskDisconnected, TypeOK
  <2> HIDE DEF t
  <2>5. TasksTyped'
    BY <1>0, <2>1, <2>3, TaskSet
  <2> QED BY <1>0, <1>20, <2>4, <2>5 DEF TaskDisconnected, TypeOK, TasksTyped
<1>21. ASSUME NEW s \in Slots, TaskTakes(s) PROVE TypeOK'
  <2>1. tasks' = [tasks EXCEPT ![s] = tasks'[s]] /\ tasks'[s] \in Task
        /\ tasks[s].queue # <<>> /\ tasks'[s].queue = Tail(tasks[s].queue)
    BY <1>0, <1>21, TakesForm DEF TypeOK
  <2>2. Len(tasks'[s].queue) <= TaskCap
    <3>1. /\ tasks[s].queue \in Seq({"execute", "shutdown"})
          /\ Len(tasks[s].queue) <= TaskCap
      BY <1>0 DEF TypeOK, Task
    <3> QED BY <2>1, <3>1, BoundsAssumption
  <2>3. TasksTyped'
    BY <1>0, <2>1, <2>2, TaskSet
  <2> QED BY <1>0, <1>21, <2>3 DEF TaskTakes, TypeOK, TasksTyped
<1>22. ASSUME NEW s \in Slots, TaskDropped(s) PROVE TypeOK'
  <2>1. tasks' = [tasks EXCEPT ![s] = tasks'[s]] /\ tasks'[s] \in Task
        /\ tasks'[s].queue = tasks[s].queue
    BY <1>0, <1>22, DropForm DEF TypeOK
  <2>2. Len(tasks'[s].queue) <= TaskCap
    BY <1>0, <2>1 DEF TypeOK
  <2>3. TasksTyped'
    BY <1>0, <2>1, <2>2, TaskSet
  <2> QED BY <1>0, <1>22, <2>3 DEF TaskDropped, TypeOK, TasksTyped
<1>24. ASSUME NEW s \in Slots, Sticks(s) PROVE TypeOK'
  <2> DEFINE t == [tasks[s] EXCEPT !.stuck = TRUE]
  <2>1. tasks' = [tasks EXCEPT ![s] = t]
    BY <1>0, <1>24 DEF Sticks, TypeOK, Task
  <2>2. t \in Task /\ Len(t.queue) <= TaskCap
    <3>1. tasks[s] \in Task /\ Len(tasks[s].queue) <= TaskCap
      BY <1>0 DEF TypeOK
    <3> QED BY <3>1 DEF Task
  <2> HIDE DEF t
  <2>3. TasksTyped'
    BY <1>0, <2>1, <2>2, TaskSet
  <2> QED BY <1>0, <1>24, <2>3 DEF Sticks, TypeOK, TasksTyped
<1>23. CASE UNCHANGED vars
  BY <1>0, <1>23 DEF TypeOK
<1> QED BY <1>1, <1>2, <1>3, <1>4, <1>5, <1>6, <1>7, <1>8,
          <1>9, <1>10, <1>11, <1>12, <1>13, <1>14, <1>15, <1>16,
          <1>17, <1>18, <1>19, <1>20, <1>21, <1>22, <1>23, <1>24
       DEF Next, ManagerContinues, Command, DeviceStep

-----------------------------------------------------------------------------
(* The theorems.                                                           *)

LEMMA InvInit == Init => IInv
BY TypeInit, EndedConsistentInit, HandlesServeInit, MapConsistentInit, HandlesInMapInit,
   SendConsistentInit, TodoConsistentInit, RigsAccountedInit, FileConsistentInit,
   IdsAreFreshInit
DEF IInv

LEMMA InvStep == IInv /\ [Next]_vars => IInv'
BY TypeStep, EndedConsistentStep, HandlesServeStep, MapConsistentStep, HandlesInMapStep,
   SendConsistentStep, TodoConsistentStep, RigsAccountedStep, FileConsistentStep,
   IdsAreFreshStep
DEF IInv

(* The parts of the inductive invariant hold together in every reachable   *)
(* state of the manager, its file and its devices.                         *)
THEOREM Invariance == Spec => []IInv
BY InvInit, InvStep, PTL DEF Spec

(* The state is well-typed, and a command channel holds no more than its   *)
(* capacity.                                                               *)
THEOREM TypeCorrect == Spec => []TypeOK
<1>1. IInv => TypeOK
  BY DEF IInv
<1> QED BY <1>1, Invariance, PTL

(* Map, settings and running devices agree in every state, also while a    *)
(* command is half done: the device of a rig serves it with its configured *)
(* settings, and no other device is kept alive by a handle.                *)
THEOREM DevicesAgree == Spec => []DevicesMatchSettings
<1>1. IInv => DevicesMatchSettings
  <2> SUFFICES ASSUME IInv PROVE DevicesMatchSettings
    OBVIOUS
  <2>1. ASSUME NEW i \in Ids, devices[i] # 0
        PROVE  /\ tasks[devices[i]].phase = "serving" /\ tasks[devices[i]].handle
               /\ tasks[devices[i]].id = i
               /\ \E k \in 1..Len(rigs) :
                    rigs[k] = [id |-> i, config |-> tasks[devices[i]].config]
    <3>1. tasks[devices[i]].handle /\ tasks[devices[i]].id = i /\ devices[i] \in Slots
      BY <2>1 DEF IInv, MapConsistent, TypeOK
    <3>2. PICK k \in 1..Len(rigs) :
            rigs[k].id = i /\ rigs[k].config = tasks[devices[i]].config
      BY <2>1 DEF IInv, MapConsistent
    <3>3. rigs[k] \in Rig
      BY DEF IInv, TypeOK
    <3>4. rigs[k] = [id |-> i, config |-> tasks[devices[i]].config]
      BY <3>2, <3>3 DEF Rig
    <3> QED BY <3>1, <3>4 DEF IInv, HandlesServe
  <2>2. ASSUME NEW s \in Slots, Held(s)
        PROVE  \/ devices[tasks[s].id] = s
               \/ mgr = "sending" /\ cur = [to |-> s, what |-> "shutdown"]
    BY <2>2 DEF Held, IInv, HandlesInMap, TypeOK
  <2> QED BY <2>1, <2>2 DEF DevicesMatchSettings
<1> QED BY <1>1, Invariance, PTL

(* No two rigs share an id, and none is given again in one run of the      *)
(* program, also not while a device of a removed rig is still running.     *)
THEOREM IdsStayFresh == Spec => []IdsAreFresh
<1>1. IInv => IdsAreFresh
  BY DEF IInv
<1> QED BY <1>1, Invariance, PTL

(* An idle manager has a device for every rig but those whose port could   *)
(* not be opened.                                                          *)
THEOREM NoRigIsForgotten == Spec => []NoneForgotten
<1>1. IInv => NoneForgotten
  BY DEF IInv, NoneForgotten, RigsAccounted, TodoConsistent
<1> QED BY <1>1, Invariance, PTL

(* What an idle manager has is what a restart would read.                  *)
THEOREM SettingsAreSaved == Spec => []SavedWhenIdle
<1>1. IInv => SavedWhenIdle
  BY DEF IInv, SavedWhenIdle, FileConsistent
<1> QED BY <1>1, Invariance, PTL

-----------------------------------------------------------------------------
(* DeviceManager implements RigRegistry.                                   *)

\* A list of rigs with distinct ids says of each id what one of its rigs says.
LEMMA ByIdFinds ==
  ASSUME NEW rs \in Seq(Rig), DistinctIds(rs), NEW k \in 1..Len(rs)
  PROVE  rs[k].id \in DOMAIN ById(rs) /\ ById(rs)[rs[k].id] = rs[k].config
<1> DEFINE i == rs[k].id
           pos == CHOOSE j \in 1..Len(rs) : rs[j].id = i
<1>1. pos \in 1..Len(rs) /\ rs[pos].id = i
  OBVIOUS
<1>2. pos = k
  BY <1>1 DEF DistinctIds
<1>3. i \in {rs[j].id : j \in 1..Len(rs)}
  OBVIOUS
<1> QED BY <1>2, <1>3 DEF ById

\* It is the function that says so and nothing more.
LEMMA ByIdIs ==
  ASSUME NEW rs \in Seq(Rig), DistinctIds(rs), NEW f, f = [i \in DOMAIN f |-> f[i]],
         \A k \in 1..Len(rs) : rs[k].id \in DOMAIN f /\ f[rs[k].id] = rs[k].config,
         \A i \in DOMAIN f : \E k \in 1..Len(rs) : rs[k].id = i
  PROVE  ById(rs) = f
<1>1. DOMAIN ById(rs) = DOMAIN f
  <2>1. DOMAIN ById(rs) = {rs[k].id : k \in 1..Len(rs)}
    BY DEF ById
  <2>2. \A k \in 1..Len(rs) : rs[k].id \in DOMAIN f
    OBVIOUS
  <2>3. {rs[k].id : k \in 1..Len(rs)} \subseteq DOMAIN f
    <3> SUFFICES ASSUME NEW i \in {rs[k].id : k \in 1..Len(rs)} PROVE i \in DOMAIN f
      BY Zenon
    <3>1. PICK k \in 1..Len(rs) : rs[k].id = i
      OBVIOUS
    <3>2. rs[k].id \in DOMAIN f
      BY <2>2
    <3> QED BY <3>1, <3>2, Zenon
  <2>4. DOMAIN f \subseteq {rs[k].id : k \in 1..Len(rs)}
    OBVIOUS
  <2> QED BY <2>1, <2>3, <2>4
<1>2. ASSUME NEW i \in DOMAIN f PROVE ById(rs)[i] = f[i]
  <2>1. PICK k \in 1..Len(rs) : rs[k].id = i
    OBVIOUS
  <2> QED BY <2>1, ByIdFinds
<1>3. ById(rs) = [i \in DOMAIN ById(rs) |-> ById(rs)[i]]
  BY DEF ById
<1> QED BY <1>1, <1>2, <1>3

\* The ids a list has, and what it says of them, seen from its rigs
LEMMA ByIdHas ==
  ASSUME NEW rs \in Seq(Rig), DistinctIds(rs)
  PROVE  /\ DOMAIN ById(rs) \subseteq Ids
         /\ \A i \in DOMAIN ById(rs) : \E k \in 1..Len(rs) : rs[k].id = i
         /\ \A k \in 1..Len(rs) : rs[k].id \in DOMAIN ById(rs)
                                  /\ ById(rs)[rs[k].id] = rs[k].config
<1>1. \A k \in 1..Len(rs) : rs[k].id \in Ids
  BY RigIds
<1>2. DOMAIN ById(rs) = {rs[k].id : k \in 1..Len(rs)}
  BY DEF ById
<1> QED BY <1>1, <1>2, ByIdFinds

LEMMA ByIdNone == ById(<<>>) = Registry!NoRigs
BY DEF ById, Registry!NoRigs

\* A rig at the end is one more.
LEMMA ByIdAppend ==
  ASSUME NEW rs \in Seq(Rig), DistinctIds(rs), NEW i \in Ids, NEW c \in Configs,
         \A k \in 1..Len(rs) : rs[k].id # i
  PROVE  ById(Append(rs, [id |-> i, config |-> c])) =
           [j \in DOMAIN ById(rs) \cup {i} |-> IF j = i THEN c ELSE ById(rs)[j]]
<1> DEFINE r == [id |-> i, config |-> c]
           more == Append(rs, r)
           f == [j \in DOMAIN ById(rs) \cup {i} |-> IF j = i THEN c ELSE ById(rs)[j]]
<1>0. /\ \A j \in DOMAIN ById(rs) : \E k \in 1..Len(rs) : rs[k].id = j
      /\ \A k \in 1..Len(rs) : rs[k].id \in DOMAIN ById(rs)
                               /\ ById(rs)[rs[k].id] = rs[k].config
  BY ByIdHas
<1>1. r \in Rig /\ r.id = i /\ r.config = c
  BY DEF Rig
<1> HIDE DEF r
<1>2. /\ more \in Seq(Rig) /\ Len(more) = Len(rs) + 1 /\ more[Len(rs) + 1] = r
      /\ \A k \in 1..Len(rs) : k \in 1..Len(more) /\ more[k] = rs[k]
      /\ \A k \in 1..Len(more) : k \in 1..Len(rs) \/ k = Len(rs) + 1
      /\ Len(rs) + 1 \in 1..Len(more)
  BY <1>1
<1> HIDE DEF more
<1>3. DistinctIds(more)
  BY <1>1, <1>2 DEF DistinctIds
<1>4. \A k \in 1..Len(more) : more[k].id \in DOMAIN f /\ f[more[k].id] = more[k].config
  <2> SUFFICES ASSUME NEW k \in 1..Len(more)
               PROVE  more[k].id \in DOMAIN f /\ f[more[k].id] = more[k].config
    OBVIOUS
  <2>1. CASE k = Len(rs) + 1
    BY <1>1, <1>2, <2>1
  <2>2. CASE k \in 1..Len(rs)
    BY <1>0, <1>2, <2>2
  <2> QED BY <1>2, <2>1, <2>2
<1>5. \A j \in DOMAIN f : \E k \in 1..Len(more) : more[k].id = j
  <2> SUFFICES ASSUME NEW j \in DOMAIN f PROVE \E k \in 1..Len(more) : more[k].id = j
    OBVIOUS
  <2>1. CASE j = i
    BY <1>1, <1>2, <2>1
  <2>2. CASE j # i
    <3>1. PICK k \in 1..Len(rs) : rs[k].id = j
      BY <1>0, <2>2
    <3> QED BY <1>2, <3>1
  <2> QED BY <2>1, <2>2
<1>6. f = [j \in DOMAIN f |-> f[j]]
  OBVIOUS
<1> HIDE DEF f, more
<1>7. ById(more) = f
  <2>1. more \in Seq(Rig)
    BY <1>2
  <2> QED BY <2>1, <1>3, <1>4, <1>5, <1>6, ByIdIs, Zenon
<1> QED BY <1>7 DEF f, more, r

\* A rig with another configuration is the same rig.
LEMMA ByIdUpdate ==
  ASSUME NEW rs \in Seq(Rig), DistinctIds(rs), NEW i \in Ids, NEW c \in Configs
  PROVE  ById([k \in 1..Len(rs) |-> IF rs[k].id = i THEN [rs[k] EXCEPT !.config = c]
                                                   ELSE rs[k]]) =
           [j \in DOMAIN ById(rs) |-> IF j = i THEN c ELSE ById(rs)[j]]
<1> DEFINE new == [k \in 1..Len(rs) |-> IF rs[k].id = i THEN [rs[k] EXCEPT !.config = c]
                                                       ELSE rs[k]]
           f == [j \in DOMAIN ById(rs) |-> IF j = i THEN c ELSE ById(rs)[j]]
<1>0. /\ \A j \in DOMAIN ById(rs) : \E k \in 1..Len(rs) : rs[k].id = j
      /\ \A k \in 1..Len(rs) : rs[k].id \in DOMAIN ById(rs)
                               /\ ById(rs)[rs[k].id] = rs[k].config
  BY ByIdHas
<1>1. ASSUME NEW k \in 1..Len(rs)
      PROVE  /\ new[k] \in Rig /\ new[k].id = rs[k].id
             /\ new[k].config = IF rs[k].id = i THEN c ELSE rs[k].config
  <2>1. rs[k] \in Rig
    OBVIOUS
  <2> QED BY <2>1 DEF Rig
<1>2. new \in Seq(Rig) /\ Len(new) = Len(rs)
  BY <1>1
<1> HIDE DEF new
<1>3. DistinctIds(new)
  BY <1>1, <1>2 DEF DistinctIds
<1>4. \A k \in 1..Len(new) : new[k].id \in DOMAIN f /\ f[new[k].id] = new[k].config
  BY <1>0, <1>1, <1>2
<1>5. \A j \in DOMAIN f : \E k \in 1..Len(new) : new[k].id = j
  BY <1>0, <1>1, <1>2
<1>6. f = [j \in DOMAIN f |-> f[j]]
  OBVIOUS
<1> HIDE DEF f
<1>7. ById(new) = f
  BY <1>2, <1>3, <1>4, <1>5, <1>6, ByIdIs
<1> QED BY <1>7 DEF f, new

\* A rig less
LEMMA ByIdWithout ==
  ASSUME NEW rs \in Seq(Rig), DistinctIds(rs), NEW i \in Ids
  PROVE  ById(Without(rs, i)) = [j \in DOMAIN ById(rs) \ {i} |-> ById(rs)[j]]
<1> DEFINE less == Without(rs, i)
           f == [j \in DOMAIN ById(rs) \ {i} |-> ById(rs)[j]]
<1>0. /\ \A j \in DOMAIN ById(rs) : \E k \in 1..Len(rs) : rs[k].id = j
      /\ \A k \in 1..Len(rs) : rs[k].id \in DOMAIN ById(rs)
                               /\ ById(rs)[rs[k].id] = rs[k].config
  BY ByIdHas
<1>1. /\ less \in Seq(Rig) /\ DistinctIds(less)
      /\ \A k \in 1..Len(less) : less[k].id # i /\ \E j \in 1..Len(rs) : rs[j] = less[k]
      /\ \A j \in 1..Len(rs) : rs[j].id # i => \E k \in 1..Len(less) : less[k] = rs[j]
  BY WithoutRemoves
<1> HIDE DEF less
<1>2. \A k \in 1..Len(less) : less[k].id \in DOMAIN f /\ f[less[k].id] = less[k].config
  BY SMTT(30), <1>0, <1>1
<1>3. \A j \in DOMAIN f : \E k \in 1..Len(less) : less[k].id = j
  <2> SUFFICES ASSUME NEW j \in DOMAIN f PROVE \E k \in 1..Len(less) : less[k].id = j
    OBVIOUS
  <2>1. j # i /\ \E k \in 1..Len(rs) : rs[k].id = j
    BY <1>0
  <2> QED BY <1>1, <2>1
<1>4. f = [j \in DOMAIN f |-> f[j]]
  OBVIOUS
<1> HIDE DEF f
<1>5. ById(less) = f
  BY <1>1, <1>2, <1>3, <1>4, ByIdIs
<1> QED BY <1>5 DEF f, less

LEMMA ListsDistinct ==
  ASSUME IInv
  PROVE  rigs \in Seq(Rig) /\ DistinctIds(rigs) /\ file \in Seq(Rig) /\ DistinctIds(file)
BY DEF IInv, TypeOK, IdsAreFresh, FileConsistent

LEMMA RegistryInit == Init => Registry!Init
<1> SUFFICES ASSUME Init PROVE Registry!Init
  OBVIOUS
<1>1. Phase = "off" /\ Leaving = {}
  BY DEF Init, Phase, Leaving
<1>2. ById(rigs) = Registry!NoRigs
  BY ByIdNone DEF Init
<1>3. {i \in Ids : i < nextId} = {}
  BY DEF Init, Ids
<1>4. Served = {}
  BY DEF Init, Served
<1>5. ById(file) \in {ById(s) : s \in SavedRigs}
  BY DEF Init
<1> QED BY <1>1, <1>2, <1>3, <1>4, <1>5 DEF Registry!Init

\* What is left alone
RegistryStays ==
  /\ UNCHANGED <<Phase, Served, Leaving>>
  /\ UNCHANGED <<rigs, file, nextId>>

LEMMA RegistryStutters == RegistryStays => UNCHANGED Registry!vars
BY DEF RegistryStays, Registry!vars, ById

\* The rig that is being removed is the same until its device has Shutdown.
LEMMA LeavingStays ==
  ASSUME IInv, TasksGoOn
  PROVE  RegistryStays
<1>1. UNCHANGED <<file, mgr, rigs, nextId, devices, cur>>
  BY DEF TasksGoOn
<1>2. CASE mgr = "sending" /\ cur.what = "shutdown"
  <2>1. cur.to \in Slots /\ tasks[cur.to].handle
    BY <1>2 DEF IInv, TypeOK, SendConsistent
  <2>2. tasks'[cur.to].phase # "free"
    BY <2>1 DEF TasksGoOn
  <2>3. tasks'[cur.to].id = tasks[cur.to].id
    BY <2>1, <2>2 DEF TasksGoOn
  <2> QED BY <1>1, <1>2, <2>3 DEF RegistryStays, Phase, Served, Leaving
<1>3. CASE ~ (mgr = "sending" /\ cur.what = "shutdown")
  BY <1>1, <1>3 DEF RegistryStays, Phase, Served, Leaving
<1> QED BY <1>2, <1>3

LEMMA StartReads ==
  ASSUME IInv, Start
  PROVE  Registry!Start
<1>1. file \in Seq(Rig) /\ DistinctIds(file)
  BY ListsDistinct
<1>2. rigs' = file /\ nextId' = ComputeNextId(file) /\ file' = file /\ devices' = devices
  BY DEF Start
<1>3. \A i \in DOMAIN ById(file) : i \in Ids /\ i < nextId'
  <2> SUFFICES ASSUME NEW i \in DOMAIN ById(file) PROVE i \in Ids /\ i < nextId'
    OBVIOUS
  <2>1. PICK k \in 1..Len(file) : file[k].id = i
    BY <1>1, ByIdHas
  <2> QED BY <1>1, <1>2, <2>1, NextIdIsAbove, RigIds
<1>4. ById(rigs') = ById(file) /\ ById(file') = ById(file)
  BY <1>2
<1>5. Phase = "off" /\ Phase' = "on" /\ Leaving = {} /\ Leaving' = {} /\ Served' = Served
  BY DEF Start, Phase, Leaving, Served
<1> QED BY <1>3, <1>4, <1>5 DEF Registry!Start, ById

LEMMA AddDeviceServes ==
  ASSUME IInv, AddDevice
  PROVE  \E i \in Ids : Registry!Serve(i)
<1> DEFINE i == todo[1]
<1>1. i \in Ids /\ HasRig(i) /\ devices[i] = 0
  BY TodoTail DEF TodoAdvances
<1>2. PICK s \in Slots : Opened(i, s)
  BY AddDeviceOpens
<1>3. i \in DOMAIN ById(rigs)
  BY <1>1, ListsDistinct, ByIdHas DEF HasRig
<1> HIDE DEF i
<1>4. i \notin Served /\ Served' = Served \cup {i}
  BY <1>1, <1>2 DEF Served, Opened, Slots
<1>5. Phase = "on" /\ Phase' = "on" /\ Leaving = {} /\ Leaving' = {}
  BY TodoTail DEF AddDevice, TodoAdvances, Phase, Leaving
<1>6. UNCHANGED <<rigs, file, nextId>>
  BY DEF AddDevice
<1> QED BY <1>1, <1>3, <1>4, <1>5, <1>6 DEF Registry!Serve, Registry!Ready, ById

LEMMA CreateIsNew ==
  ASSUME IInv, NEW c \in Configs, CreateDevice(c)
  PROVE  Registry!Create(nextId, c)
<1>1. nextId \in Ids /\ nextId' = nextId + 1
  BY CreateAppends DEF Created
<1>2. rigs' = Append(rigs, [id |-> nextId, config |-> c]) /\ file' = file
  BY DEF CreateDevice
<1>3. \A k \in 1..Len(rigs) : rigs[k].id # nextId
  BY <1>1, ListsDistinct, RigIds DEF IInv, IdsAreFresh, Ids
<1>4. ById(rigs') = [j \in DOMAIN ById(rigs) \cup {nextId} |->
                      IF j = nextId THEN c ELSE ById(rigs)[j]]
  <2>1. rigs \in Seq(Rig) /\ DistinctIds(rigs)
    BY ListsDistinct, Zenon
  <2>2. ById(Append(rigs, [id |-> nextId, config |-> c])) =
          [j \in DOMAIN ById(rigs) \cup {nextId} |-> IF j = nextId THEN c ELSE ById(rigs)[j]]
    BY <2>1, <1>1, <1>3, ByIdAppend, Zenon
  <2> QED BY <2>2, <1>2, Zenon
<1>5. {i \in Ids : i < nextId'} = {i \in Ids : i < nextId} \cup {nextId}
  BY <1>1 DEF Ids
<1>6. nextId \notin {i \in Ids : i < nextId}
  BY <1>1 DEF Ids
<1>7. /\ Phase = "on" /\ Phase' = "saving" /\ Leaving = {} /\ Leaving' = {}
      /\ Served' = Served
  BY DEF CreateDevice, Phase, Leaving, Served
<1>8. ById(rigs)' = ById(rigs') /\ ById(file)' = ById(file)
  BY <1>2 DEF ById
<1> QED BY <1>1, <1>4, <1>5, <1>6, <1>7, <1>8
        DEF Registry!Create, Registry!Ready, Registry!Change

LEMMA UpdateUpdates ==
  ASSUME IInv, NEW i \in Ids, NEW c \in Configs, UpdateDevice(i, c)
  PROVE  Registry!Update(i, c)
<1>1. /\ rigs' = [k \in 1..Len(rigs) |->
                     IF rigs[k].id = i THEN [rigs[k] EXCEPT !.config = c] ELSE rigs[k]]
      /\ UNCHANGED <<file, nextId>>
  BY DEF UpdateDevice
<1>2. ById(rigs') = [j \in DOMAIN ById(rigs) |-> IF j = i THEN c ELSE ById(rigs)[j]]
  <2>1. /\ rigs \in Seq(Rig) /\ DistinctIds(rigs)
    BY ListsDistinct
  <2>2. ById([k \in 1..Len(rigs) |-> IF rigs[k].id = i THEN [rigs[k] EXCEPT !.config = c]
                                                      ELSE rigs[k]]) =
          [j \in DOMAIN ById(rigs) |-> IF j = i THEN c ELSE ById(rigs)[j]]
    BY <2>1, ByIdUpdate
  <2> QED BY <1>1, <2>2
<1>3. Served' = Served \ {i}
  BY UpdateChanges DEF Changed, Served
<1>4. Phase = "on" /\ Phase' = "saving" /\ Leaving = {} /\ Leaving' = {}
  BY DEF UpdateDevice, Phase, Leaving
<1>5. ById(rigs)' = ById(rigs') /\ ById(file)' = ById(file)
  BY <1>1 DEF ById
<1> QED BY <1>1, <1>2, <1>3, <1>4, <1>5 DEF Registry!Update, Registry!Ready, Registry!Change

LEMMA RemoveWithdraws ==
  ASSUME IInv, NEW i \in Ids, RemoveDevice(i)
  PROVE  Registry!Withdraw(i) \/ Registry!Remove(i)
<1>1. Phase = "on" /\ Leaving = {} /\ UNCHANGED <<file, nextId, tasks>>
  BY DEF RemoveDevice, Phase, Leaving
<1>2. Served' = Served \ {i}
  BY RemoveClears DEF Served
<1>3. CASE devices[i] # 0
  <2>1. /\ mgr' = "sending" /\ cur'.to = devices[i] /\ cur'.what = "shutdown"
        /\ tasks[devices[i]].id = i /\ rigs' = rigs
    BY <1>3, RemoveClears
  <2>2. i \in Served
    BY <1>3 DEF Served
  <2>3. Phase' = "on" /\ Leaving' = {i}
    BY <1>1, <2>1 DEF Phase, Leaving
  <2> QED BY <1>1, <1>2, <2>1, <2>2, <2>3 DEF Registry!Withdraw, Registry!Ready, ById
<1>4. CASE devices[i] = 0
  <2>1. rigs' = Without(rigs, i) /\ mgr' = "saving"
    BY <1>4, RemoveClears
  <2>2. ById(rigs') = [j \in DOMAIN ById(rigs) \ {i} |-> ById(rigs)[j]]
    BY <2>1, ListsDistinct, ByIdWithout
  <2>3. i \notin Served /\ Served' = Served
    BY <1>2, <1>4 DEF Served
  <2>4. Phase' = "saving" /\ Leaving' = {}
    BY <2>1 DEF Phase, Leaving
  <2>5. ById(rigs)' = ById(rigs') /\ ById(file)' = ById(file)
    BY <1>1 DEF ById
  <2> QED BY <1>1, <2>2, <2>3, <2>4, <2>5 DEF Registry!Remove, Registry!Change
<1> QED BY <1>3, <1>4

LEMMA ShutdownIsRemoval ==
  ASSUME IInv, DeliverShutdown
  PROVE  \E i \in Ids : Registry!Remove(i)
<1> DEFINE i == tasks[cur.to].id
<1>1. i \in Ids /\ devices[i] = 0 /\ rigs' = Without(rigs, i)
  BY ShutdownRemoves
<1>2. Phase = "on" /\ Leaving = {i}
  BY DEF DeliverShutdown, Phase, Leaving
<1> HIDE DEF i
<1>3. Phase' = "saving" /\ Leaving' = {} /\ Served' = Served
  BY DEF DeliverShutdown, Phase, Leaving, Served
<1>4. ById(rigs') = [j \in DOMAIN ById(rigs) \ {i} |-> ById(rigs)[j]]
  BY <1>1, ListsDistinct, ByIdWithout
<1>5. i \notin Served
  BY <1>1 DEF Served
<1>6. UNCHANGED <<file, nextId>>
  BY DEF DeliverShutdown
<1>7. ById(rigs)' = ById(rigs') /\ ById(file)' = ById(file)
  BY <1>6 DEF ById
<1> QED BY <1>1, <1>2, <1>3, <1>4, <1>5, <1>6, <1>7 DEF Registry!Remove, Registry!Change

LEMMA SaveTakesPlace ==
  ASSUME IInv
  PROVE  /\ SaveTruncates => Registry!Overwrite
         /\ SaveWrites => Registry!Save
         /\ SaveFails => Registry!End
<1>1. ASSUME SaveTruncates PROVE Registry!Overwrite
  <2>1. /\ Phase = "saving" /\ Phase' = "saving" /\ Leaving' = Leaving
        /\ Served' = Served /\ file' = <<>> /\ UNCHANGED <<rigs, nextId>>
    BY <1>1 DEF SaveTruncates, Phase, Leaving, Served
  <2>2. ById(file') = Registry!NoRigs
    BY <2>1, ByIdNone
  <2> QED BY <2>1, <2>2 DEF Registry!Overwrite, ById
<1>2. ASSUME SaveWrites PROVE Registry!Save
  <2>1. /\ Phase = "saving" /\ Phase' = "on" /\ Leaving = {} /\ Leaving' = {}
        /\ Served' = Served /\ file' = rigs /\ UNCHANGED <<rigs, nextId>>
    BY <1>2 DEF SaveWrites, Phase, Leaving, Served
  <2> QED BY <2>1 DEF Registry!Save, ById
<1>3. ASSUME SaveFails PROVE Registry!End
  <2>1. /\ Phase = "saving" /\ Phase' = "ended" /\ Leaving = {} /\ Leaving' = {}
        /\ UNCHANGED <<rigs, file, nextId>>
    BY <1>3 DEF SaveFails, Phase, Leaving
  <2>2. Served' = {}
    BY <1>3, SaveFailsDrops DEF Served
  <2> QED BY <2>1, <2>2 DEF Registry!End, ById
<1> QED BY <1>1, <1>2, <1>3

LEMMA CrashEnds ==
  ASSUME IInv, Crash
  PROVE  Registry!Crash
<1>1. /\ Phase # "off" /\ Phase' = "off" /\ Leaving' = {}
      /\ rigs' = <<>> /\ nextId' = 0 /\ file' = file
  BY DEF IInv, TypeOK, Crash, Phase, Leaving
<1>2. Served' = {}
  BY DEF Crash, Served
<1>3. ById(rigs') = Registry!NoRigs
  BY <1>1, ByIdNone
<1>4. {i \in Ids : i < nextId'} = {}
  BY <1>1 DEF Ids
<1> QED BY <1>1, <1>2, <1>3, <1>4 DEF Registry!Crash, ById

LEMMA RegistryStep == IInv /\ [Next]_vars => [Registry!Next]_(Registry!vars)
<1> SUFFICES ASSUME IInv, [Next]_vars
             PROVE  Registry!Next \/ UNCHANGED Registry!vars
  OBVIOUS
<1>1. CASE Start
  BY <1>1, StartReads DEF Registry!Next
<1>2. CASE AddDevice
  BY <1>2, AddDeviceServes DEF Registry!Next
<1>3. CASE AddDeviceFails
  <2>1. RegistryStays
    BY <1>3, TodoTail DEF AddDeviceFails, TodoAdvances, RegistryStays, Phase, Served, Leaving
  <2> QED BY <2>1, RegistryStutters
<1>4. CASE Deliver
  <2>1. RegistryStays
    BY <1>4 DEF Deliver, RegistryStays, Phase, Served, Leaving
  <2> QED BY <2>1, RegistryStutters
<1>5. CASE DeliverShutdown
  BY <1>5, ShutdownIsRemoval DEF Registry!Next
<1>6. CASE SaveTruncates \/ SaveWrites \/ SaveFails
  BY <1>6, SaveTakesPlace DEF Registry!Next
<1>7. ASSUME NEW c \in Configs, CreateDevice(c) PROVE Registry!Next
  BY <1>7, CreateIsNew, CreateAppends DEF Registry!Next, Created
<1>8. ASSUME NEW i \in Ids, NEW c \in Configs, UpdateDevice(i, c) PROVE Registry!Next
  BY <1>8, UpdateUpdates DEF Registry!Next
<1>9. ASSUME NEW i \in Ids, RemoveDevice(i) PROVE Registry!Next
  BY <1>9, RemoveWithdraws DEF Registry!Next
<1>10. ASSUME NEW i \in Ids, ExecuteCommand(i) PROVE UNCHANGED Registry!vars
  <2>1. RegistryStays
    BY <1>10 DEF ExecuteCommand, RegistryStays, Phase, Served, Leaving
  <2> QED BY <2>1, RegistryStutters
<1>11. CASE Crash
  BY <1>11, CrashEnds DEF Registry!Next
<1>12. CASE \/ \E p \in Ports : Unplug(p) \/ Plug(p)
            \/ \E s \in Slots : DeviceStep(s)
  BY <1>12, TasksOnly, LeavingStays, RegistryStutters
<1>13. CASE UNCHANGED vars
  <2>1. RegistryStays
    BY <1>13 DEF RegistryStays, Phase, Served, Leaving
  <2> QED BY <2>1, RegistryStutters
<1> QED BY <1>1, <1>2, <1>3, <1>4, <1>5, <1>6, <1>7, <1>8, <1>9, <1>10, <1>11, <1>12, <1>13
        DEF Next, ManagerContinues, Command

(* The manager keeps the promises of RigRegistry: ids are new, one command *)
(* is done and saved before the next changes anything, a rig that is       *)
(* changed or removed loses its device first, and a restart finds what the *)
(* last command left, what was before it, or nothing, the latter two only  *)
(* when its save was cut off.                                              *)
THEOREM ManagerKeepsRegistry == Spec => KeepsRegistry
<1>1. Init => Registry!Init
  BY RegistryInit
<1>2. IInv /\ [Next]_vars => [Registry!Next]_(Registry!vars)
  BY RegistryStep
<1> QED BY <1>1, <1>2, Invariance, PTL DEF Spec, KeepsRegistry, Registry!Spec
=============================================================================
