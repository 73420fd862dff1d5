-------------------------------- MODULE OmniRig --------------------------------
(***************************************************************************)
(* The OmniRig server: COM clients read and operate the first two rigs,    *)
(* and are told what changed.                                              *)
(*                                                                         *)
(*   rigs --bus--> provider task --events--> COM thread --Invoke--> sinks  *)
(*                     |  CachedStatus           |                         *)
(*   manager <--manQ--- setters, getters <--- client calls                 *)
(*                                                                         *)
(* The provider task (omnirig_provider.rs) follows the broadcast.  The COM *)
(* thread (lib.rs) is a single-threaded apartment: all the objects live in *)
(* it, calls are dispatched by its message loop, or while it waits for a   *)
(* client to return from a call of its own.  A setter stops it until the   *)
(* manager has room.  A getter is one step: where it reads several fields  *)
(* under locks of their own, it is modelled as reading them at once.       *)
(***************************************************************************)
EXTENDS OmniRigControl, FiniteSets

CONSTANTS
  Clients,      \* COM clients, each with an OmniRigX and at most one event sink
  Does,         \* what each of them does: "create", "advise", "unadvise", "release", "get", "set"
  Watched,      \* the getters a client shows, as <<slot, name>>
  Unread,       \* a getter was not read yet
  Operations,   \* the calls that send commands, as <<slot, name>>
  Rigs,         \* the rigs
  Links,        \* the connection statuses they go through
  Readings,     \* what a poll of a rig may find: a value for each of Fields
  QueueCap,     \* capacity of the manager's channel (10)
  BusCap,       \* capacity of the broadcast (10)
  MaxInputs     \* bound: messages broadcast, calls of setters, and ends of a client, the
                \* manager and the application, together

ASSUME OmniRigAssumption ==
  /\ Watched \subseteq Slots \X Getters
  /\ Links \subseteq {"Connecting", "Connected", "Disconnected"}
  /\ QueueCap \in Nat \ {0} /\ BusCap \in Nat \ {0}
  /\ MaxInputs \in Nat

\* Mode and Vfo are enums of the schema, which a rig publishes as variants: they are not
\* followed.  As text they would have to be known ones, since others have no param.
ASSUME TextsAssumption ==
  \A v \in Readings : \A f \in Texts \cap Followed : ParamsOf(f, v[f]) # {}

\* The rigs of the settings have distinct ids.
ASSUME SlotsAssumption ==
  /\ NoRig \notin Rigs
  /\ \A s, t \in Slots : RigOf[s] = RigOf[t] => s = t \/ RigOf[s] = NoRig

VARIABLES
  \* the rigs and the provider task
  shown,      \* what each rig last published of each field
  bus,        \* messages the provider has still to receive
  lagged,     \* it missed some and was not told yet
  serving,    \* its loop runs
  cached,     \* CachedStatus of each slot
  telling,    \* the event it is about to queue
  queue,      \* EventDispatcher
  \* the COM thread
  thread,     \* "running", "hung" or "ended"
  sinkList,   \* the clients whose EventSinks it fires at
  todo,       \* what is left of a loop of process_events over the sinks
  undrained,  \* the events are still to be drained in it
  drained,    \* what it drained and has not come to
  peeks,      \* a message may be dispatched before the next one
  out,        \* the call of its own that it waits for
  setting,    \* the commands a setter has still to send
  manQ, up,   \* the manager
  stopping,   \* shutdown_flag
  \* the clients
  alive, object, sink,
  call,       \* the setter a client has called and that has not returned
  view, toRead,
  \* history and bounds
  missed,     \* advised while a sink was being unmarshalled
  silenced,   \* Unadvise returned, and not while the sink was being unmarshalled
  flipped,    \* the slots an update made online without a StatusChange
  inputs

rigVars == <<shown>>
passVars == <<sinkList, todo, undrained, drained>>
providerVars == <<bus, lagged, serving, cached, telling, flipped>>
comVars == <<thread, passVars, peeks, out, setting>>
mgrVars == <<manQ, up>>
clientVars == <<alive, object, sink, call, view, toRead, missed, silenced>>
vars == <<shown, bus, lagged, serving, cached, telling, queue, thread, sinkList,
          todo, undrained, drained, peeks, out, setting, manQ, up, stopping, alive, object,
          sink, call, view, toRead, missed, silenced, flipped, inputs>>

NoCall == [what |-> "none", nested |-> FALSE]
NoEvent == [what |-> "none"]

\* One event: of a rig's status, or of the params that changed.
StatusChange(s) == [what |-> "status", slot |-> s]
ParamsChange(s, mask) == [what |-> "params", slot |-> s, mask |-> mask]

Init ==
  /\ shown = [r \in Rigs |-> [f \in Fields |-> Default(f)]]
  /\ bus = <<>> /\ lagged = FALSE /\ serving = TRUE
  /\ cached = [s \in Slots |-> NoStatus] /\ telling = NoEvent /\ queue = <<>>
  /\ thread = "running" /\ sinkList = <<>> /\ todo = <<>> /\ undrained = FALSE
  /\ drained = <<>> /\ peeks = FALSE /\ out = NoCall
  /\ setting = <<>> /\ manQ = <<>> /\ up = TRUE /\ stopping = FALSE
  /\ alive = [c \in Clients |-> TRUE] /\ object = [c \in Clients |-> "none"]
  /\ sink = [c \in Clients |-> "none"] /\ call = [c \in Clients |-> NoCall]
  /\ view = [c \in Clients |-> [w \in Watched |-> Unread]]
  /\ toRead = [c \in Clients |-> {}]
  /\ missed = {} /\ silenced = {} /\ flipped = {}
  /\ inputs = 0

\* Something comes from outside.
Comes == inputs < MaxInputs /\ inputs' = inputs + 1

-----------------------------------------------------------------------------
(* The rigs                                                                *)

Broadcast(m) ==
  /\ Comes
  /\ lagged' = (lagged \/ Len(bus) = BusCap)
  /\ bus' = Append(IF Len(bus) = BusCap THEN Tail(bus) ELSE bus, m)
  /\ UNCHANGED <<serving, cached, telling, flipped, queue, comVars, mgrVars, stopping,
                 clientVars>>

\* poll_status, in any connection status: what differs from the last poll, or all of it
\* when the device has just replaced another
PublishValues(r) ==
  \E v \in Readings :
    LET changed == {f \in Fields : v[f] # shown[r][f]} IN
    \E told \in {changed, Fields} \ {{}} :
      /\ shown' = [shown EXCEPT ![r] = v]
      /\ Broadcast([what |-> "values", rig |-> r, values |-> [f \in told |-> v[f]]])

\* set_status, which does not ask whether it changes
PublishStatus(r) ==
  \E l \in Links :
    /\ Broadcast([what |-> "status", rig |-> r, connected |-> l = "Connected"])
    /\ UNCHANGED shown

-----------------------------------------------------------------------------
(* The provider task                                                       *)

SlotsOf(r) == {s \in Slots : RigOf[s] = r}

\* A message of a rig without a slot, and the ports, are left alone.
ReceiveOther ==
  /\ bus # <<>> /\ SlotsOf(Head(bus).rig) = {}
  /\ UNCHANGED <<cached, telling, flipped>>

ReceiveValues(s) ==
  /\ bus # <<>> /\ RigOf[s] = Head(bus).rig /\ Head(bus).what = "values"
  /\ LET old == cached[s] new == Merged(old, Head(bus).values) mask == Mask(old, new) IN
     /\ cached' = [cached EXCEPT ![s] = new]
     /\ telling' = IF mask = {} THEN NoEvent ELSE ParamsChange(s, mask)
     /\ flipped' = IF old.connected THEN flipped ELSE flipped \cup {s}

ReceiveStatus(s) ==
  /\ bus # <<>> /\ RigOf[s] = Head(bus).rig /\ Head(bus).what = "status"
  /\ cached' = [cached EXCEPT ![s].connected = Head(bus).connected]
  /\ telling' = StatusChange(s) /\ flipped' = flipped \ {s}

Receive ==
  /\ serving /\ ~ lagged /\ telling = NoEvent
  /\ ReceiveOther \/ \E s \in Slots : ReceiveValues(s) \/ ReceiveStatus(s)
  /\ bus' = Tail(bus)
  /\ UNCHANGED <<rigVars, lagged, serving, queue, comVars, mgrVars, stopping, clientVars,
                 inputs>>

\* The event is queued once the lock of the status is released.
QueueEvent ==
  /\ telling # NoEvent /\ telling' = NoEvent /\ queue' = Append(queue, telling)
  /\ UNCHANGED <<rigVars, bus, lagged, serving, cached, flipped, comVars, mgrVars, stopping,
                 clientVars, inputs>>

\* As a mistake: it goes on with the next message.
SkipLagged ==
  /\ serving /\ lagged /\ telling = NoEvent /\ lagged' = FALSE
  /\ UNCHANGED <<rigVars, bus, serving, cached, telling, flipped, queue, comVars, mgrVars,
                 stopping, clientVars, inputs>>

LeaveLagged ==
  /\ serving /\ lagged /\ telling = NoEvent
  /\ serving' = FALSE /\ lagged' = FALSE
  /\ UNCHANGED <<rigVars, bus, cached, telling, flipped, queue, comVars, mgrVars, stopping,
                 clientVars, inputs>>

Provider == Receive \/ QueueEvent \/ LeaveLagged

-----------------------------------------------------------------------------
(* The COM thread: process_events.  Between two calls of its own nothing   *)
(* else runs in it.                                                        *)

Free == thread = "running" /\ out = NoCall /\ setting = <<>>

Idle == out = NoCall /\ todo = <<>> /\ ~ undrained /\ drained = <<>>

Listed(c) == \E k \in 1..Len(sinkList) : sinkList[k] = c

\* An upgrade of the Weak fails once the object is released; RegisterSinks holds an Arc.
Works(x) ==
  \/ x.do = "register" /\ sink[x.at] = "pending"
  \/ x.do = "unmarshal" /\ sink[x.at] = "pending" /\ object[x.at] # "released"
  \/ x.do = "fire" /\ sink[x.at] = "advised" /\ object[x.at] # "released"

\* A pass of the loop with nothing of this changes nothing.
HasEvents ==
  queue # <<>> \/ \E c \in Clients : Listed(c) /\ (sink[c] = "pending" \/ object[c] = "released")

\* retain: the places it keeps, and the list of them
Kept == {k \in 1..Len(sinkList) : object[sinkList[k]] # "released"}

KeptUpTo(k) == Cardinality({j \in Kept : j <= k})

Retained ==
  [n \in 1..Cardinality(Kept) |-> sinkList[CHOOSE k \in Kept : KeptUpTo(k) = n]]

StartEvents ==
  /\ Free /\ Idle /\ ~ stopping /\ HasEvents /\ peeks' = TRUE
  /\ sinkList' = Retained
  /\ todo' = [k \in 1..Len(Retained) |-> [do |-> "unmarshal", at |-> Retained[k]]]
  /\ undrained' = TRUE
  /\ UNCHANGED <<rigVars, providerVars, queue, thread, drained, out, setting, mgrVars, stopping,
                 clientVars, inputs>>

Drain ==
  /\ Free /\ todo = <<>> /\ undrained /\ undrained' = FALSE
  /\ drained' = queue /\ queue' = <<>>
  /\ UNCHANGED <<rigVars, providerVars, thread, sinkList, todo, out, peeks, setting, mgrVars,
                 stopping, clientVars, inputs>>

\* RegisterSinks appends to the list; an event is fired at every instance in it.
TakeEvent ==
  /\ Free /\ todo = <<>> /\ drained # <<>> /\ drained' = Tail(drained)
  /\ LET e == Head(drained) IN
     IF e.what = "register"
     THEN /\ sinkList' = Append(sinkList, e.client)
          /\ todo' = <<[do |-> "register", at |-> e.client]>>
     ELSE /\ todo' = [k \in 1..Len(sinkList) |-> [do |-> "fire", at |-> sinkList[k], event |-> e]]
          /\ UNCHANGED sinkList
  /\ UNCHANGED <<rigVars, providerVars, queue, thread, undrained, out, peeks, setting, mgrVars,
                 stopping, clientVars, inputs>>

Doing(what) == Free /\ todo # <<>> /\ Head(todo).do = what /\ Works(Head(todo))

\* A sink there is nothing to do at
PassOver ==
  /\ Free /\ todo # <<>> /\ ~ Works(Head(todo)) /\ todo' = Tail(todo)
  /\ UNCHANGED <<rigVars, providerVars, queue, thread, sinkList, undrained, drained, peeks, out,
                 setting, mgrVars, stopping, clientVars, inputs>>

\* unmarshal_pending takes the list and asks the client for the interface.
Unmarshal ==
  /\ Doing("unmarshal") \/ Doing("register")
  /\ todo' = Tail(todo)
  /\ sink' = [sink EXCEPT ![Head(todo).at] = "taken"]
  /\ out' = [what |-> "unmarshal", at |-> Head(todo).at]
  /\ UNCHANGED <<rigVars, providerVars, queue, thread, sinkList, undrained, drained, peeks,
                 setting, mgrVars, stopping, alive, object, call, view, toRead, missed, silenced,
                 inputs>>

Unmarshalled ==
  /\ thread = "running" /\ out.what = "unmarshal" /\ setting = <<>>
  /\ sink' = [sink EXCEPT ![out.at] = IF alive[out.at] THEN "advised" ELSE "none"]
  /\ out' = NoCall
  /\ UNCHANGED <<rigVars, providerVars, queue, thread, passVars, peeks, setting, mgrVars,
                 stopping, alive, object, call, view, toRead, missed, silenced, inputs>>

\* fire_params_change, fire_status_change: Invoke, with the table of sinks locked
Fire ==
  /\ Doing("fire") /\ todo' = Tail(todo)
  /\ out' = [what |-> "invoke", at |-> Head(todo).at, event |-> Head(todo).event]
  /\ UNCHANGED <<rigVars, providerVars, queue, thread, sinkList, undrained, drained, peeks,
                 setting, mgrVars, stopping, clientVars, inputs>>

\* The getters an event tells a client to read again
Told(e) ==
  {w \in Watched : w[1] = e.slot
     /\ w[2] \in (IF e.what = "status" THEN {"Status"} ELSE UNION {NamedBy(p) : p \in e.mask})}

\* The client's handler returns, or the client is gone.
Invoked ==
  /\ thread = "running" /\ out.what = "invoke" /\ setting = <<>>
  /\ LET c == out.at IN
     /\ ~ (alive[c] /\ call[c].nested)
     /\ toRead' = [toRead EXCEPT ![c] = IF alive[c] THEN @ \cup Told(out.event) ELSE @]
  /\ out' = NoCall
  /\ UNCHANGED <<rigVars, providerVars, queue, thread, passVars, peeks, setting, mgrVars,
                 stopping, alive, object, sink, call, view, missed, silenced, inputs>>

Shutdown ==
  /\ Free /\ Idle /\ stopping /\ thread' = "ended"
  /\ UNCHANGED <<rigVars, providerVars, queue, passVars, peeks, out, setting, mgrVars,
                 stopping, clientVars, inputs>>

-----------------------------------------------------------------------------
(* The calls of the clients, which the thread dispatches one at a time:    *)
(* after a pass of process_events, or while it waits for a client.  But    *)
(* for a setter a call is dispatched and returns in one step.              *)

Dispatching ==
  /\ thread = "running" /\ setting = <<>>
  /\ \/ out # NoCall /\ UNCHANGED peeks
     \/ Idle /\ (peeks \/ ~ HasEvents) /\ peeks' = FALSE

Calls(c, what) == Dispatching /\ alive[c] /\ call[c] = NoCall /\ what \in Does[c]

\* IClassFactory::CreateInstance
CreateInstance(c) ==
  /\ Calls(c, "create") /\ object[c] = "none"
  /\ object' = [object EXCEPT ![c] = "created"]
  /\ queue' = Append(queue, [what |-> "register", client |-> c])
  /\ UNCHANGED <<rigVars, providerVars, thread, passVars, out, setting, mgrVars, stopping,
                 alive, sink, call, view, toRead, missed, silenced, inputs>>

\* The client then reads all it shows.
Advise(c) ==
  /\ Calls(c, "advise") /\ object[c] = "created" /\ sink[c] = "none" /\ c \notin silenced
  /\ sink' = [sink EXCEPT ![c] = "pending"]
  /\ toRead' = [toRead EXCEPT ![c] = Watched]
  /\ missed' = IF out.what = "unmarshal" THEN missed \cup {c} ELSE missed
  /\ UNCHANGED <<rigVars, providerVars, queue, thread, passVars, out, setting, mgrVars,
                 stopping, alive, object, call, view, silenced, inputs>>

Unadvises(c) ==
  Calls(c, "unadvise") /\ object[c] = "created" /\ sink[c] # "none" /\ c \notin silenced

\* The thread holds the lock of the table while it waits for this client.
Locked(c) == out.what = "invoke" /\ out.at = c

\* As a mistake: only the table of sinks is looked at.
UnadviseTable(c) ==
  /\ Unadvises(c) /\ ~ Locked(c)
  /\ sink' = [sink EXCEPT ![c] = IF @ = "advised" THEN "none" ELSE @]
  /\ silenced' = IF sink[c] = "taken" THEN silenced ELSE silenced \cup {c}
  /\ UNCHANGED <<rigVars, providerVars, queue, thread, passVars, out, setting, mgrVars,
                 stopping, alive, object, call, view, toRead, missed, inputs>>

\* A sink that left the pending list and is not in the table yet is in neither.
Unadvise(c) ==
  /\ Unadvises(c) /\ ~ Locked(c)
  /\ sink' = [sink EXCEPT ![c] = IF @ = "taken" THEN @ ELSE "none"]
  /\ silenced' = IF sink[c] = "taken" THEN silenced ELSE silenced \cup {c}
  /\ UNCHANGED <<rigVars, providerVars, queue, thread, passVars, out, setting, mgrVars,
                 stopping, alive, object, call, view, toRead, missed, inputs>>

UnadviseHangs(c) ==
  /\ Unadvises(c) /\ Locked(c) /\ thread' = "hung"
  /\ UNCHANGED <<rigVars, providerVars, queue, passVars, out, setting, mgrVars, stopping,
                 clientVars, inputs>>

Release(c) ==
  /\ Calls(c, "release") /\ object[c] = "created"
  /\ object' = [object EXCEPT ![c] = "released"]
  /\ UNCHANGED <<rigVars, providerVars, queue, thread, passVars, out, setting, mgrVars,
                 stopping, alive, sink, call, view, toRead, missed, silenced, inputs>>

\* A client reads again what it was told has changed, at once.
Read(c) ==
  /\ Calls(c, "get") /\ toRead[c] # {}
  /\ toRead' = [toRead EXCEPT ![c] = {}]
  /\ view' = [view EXCEPT ![c] = [w \in Watched |-> IF w \in toRead[c]
                                      THEN Getter(w[2], w[1], cached[w[1]]) ELSE @[w]]]
  /\ UNCHANGED <<rigVars, providerVars, queue, thread, passVars, out, setting, mgrVars,
                 stopping, alive, object, sink, call, missed, silenced, inputs>>

\* A setter is called, from the client's own loop or its handler, and waits its turn.
Operate(c) ==
  /\ alive[c] /\ call[c] = NoCall /\ "set" \in Does[c] /\ object[c] = "created" /\ Comes
  /\ \E o \in Operations :
       call' = [call EXCEPT ![c] = [what |-> "set", of |-> o, nested |-> Locked(c)]]
  /\ UNCHANGED <<rigVars, providerVars, queue, comVars, mgrVars, stopping, alive, object, sink,
                 view, toRead, missed, silenced>>

\* It sends its commands one by one, and the thread waits for each.
StartSetting(c) ==
  /\ Dispatching /\ call[c] # NoCall
  /\ LET commands == Commands(call[c].of[2], call[c].of[1]) IN
     IF commands = <<>> THEN call' = [call EXCEPT ![c] = NoCall] /\ UNCHANGED setting
     ELSE setting' = [k \in 1..Len(commands) |-> <<c, commands[k]>>] /\ UNCHANGED call
  /\ UNCHANGED <<rigVars, providerVars, queue, thread, passVars, out, mgrVars, stopping,
                 alive, object, sink, view, toRead, missed, silenced, inputs>>

Sent == call' = IF Len(setting) = 1 THEN [call EXCEPT ![Head(setting)[1]] = NoCall] ELSE call

\* As a mistake: a manager that is gone is waited for.
SendWaits ==
  /\ thread = "running" /\ setting # <<>> /\ up /\ Len(manQ) < QueueCap
  /\ manQ' = Append(manQ, Head(setting)[2]) /\ setting' = Tail(setting) /\ Sent
  /\ UNCHANGED <<rigVars, providerVars, queue, thread, passVars, peeks, out, up, stopping,
                 alive, object, sink, view, toRead, missed, silenced, inputs>>

\* block_on(send), whose error is dropped
SendCommand ==
  /\ thread = "running" /\ setting # <<>> /\ (up => Len(manQ) < QueueCap)
  /\ manQ' = IF up THEN Append(manQ, Head(setting)[2]) ELSE manQ
  /\ setting' = Tail(setting) /\ Sent
  /\ UNCHANGED <<rigVars, providerVars, queue, thread, passVars, peeks, out, up, stopping,
                 alive, object, sink, view, toRead, missed, silenced, inputs>>

\* What the thread does unless it waits
ComThread ==
  \/ StartEvents \/ Drain \/ TakeEvent \/ PassOver \/ Unmarshal \/ Unmarshalled
  \/ Fire \/ Invoked \/ Shutdown
  \/ (\E c \in Clients : StartSetting(c)) \/ SendCommand

Client(c) ==
  \/ CreateInstance(c) \/ Advise(c) \/ Unadvise(c) \/ UnadviseHangs(c) \/ Release(c)
  \/ Read(c) \/ Operate(c)

-----------------------------------------------------------------------------
(* The manager, and what may end                                           *)

ManagerTakes ==
  /\ up /\ manQ # <<>> /\ manQ' = Tail(manQ)
  /\ UNCHANGED <<rigVars, providerVars, queue, comVars, up, stopping, clientVars, inputs>>

ManagerEnds ==
  /\ Comes /\ up /\ up' = FALSE /\ manQ' = <<>>
  /\ UNCHANGED <<rigVars, providerVars, queue, comVars, stopping, clientVars>>

Stop ==
  /\ Comes /\ ~ stopping /\ stopping' = TRUE
  /\ UNCHANGED <<rigVars, providerVars, queue, comVars, mgrVars, clientVars>>

\* A client's process ends; its objects are still there.
ClientEnds(c) ==
  /\ Comes /\ alive[c] /\ call[c] = NoCall /\ alive' = [alive EXCEPT ![c] = FALSE]
  /\ UNCHANGED <<rigVars, providerVars, queue, comVars, mgrVars, stopping, object, sink, call,
                 view, toRead, missed, silenced>>

-----------------------------------------------------------------------------
Next ==
  \/ \E r \in Rigs : PublishValues(r) \/ PublishStatus(r)
  \/ Provider \/ ComThread
  \/ ManagerTakes \/ ManagerEnds \/ Stop
  \/ \E c \in Clients : Client(c) \/ ClientEnds(c)

Spec == Init /\ [][Next]_vars

(***************************************************************************)
(* The runtime polls the provider, the COM thread runs, a client's handler *)
(* returns, and the manager takes every command: it waits for no device,   *)
(* as one that is stuck or never gets its port back would make it          *)
(* (DeviceManager, ManagerGoesOn).                                         *)
(***************************************************************************)
FairSpec == Spec /\ WF_vars(Provider) /\ WF_vars(ComThread) /\ WF_vars(ManagerTakes)

-----------------------------------------------------------------------------
(* Properties                                                              *)

(***************************************************************************)
(* Once the provider has received everything, each slot reads as its rig   *)
(* last published, for the variables whose kind it takes.  When it missed  *)
(* messages it has left (omnirig_provider.rs:300) and says nothing more.   *)
(***************************************************************************)
StatusFollows ==
  serving /\ ~ lagged /\ bus = <<>> =>
    \A s \in Slots : RigOf[s] \in Rigs =>
      \A f \in Followed : cached[s].values[f] = Narrow(f, shown[RigOf[s]][f])

Quiet ==
  /\ serving /\ ~ lagged /\ bus = <<>> /\ telling = NoEvent /\ queue = <<>>
  /\ thread = "running" /\ Idle

(***************************************************************************)
(* A client that advised, and reads again what events tell it to, shows    *)
(* the status, also of what is derived from several variables.  But for    *)
(* one that advised while a sink was being unmarshalled, which misses the  *)
(* events drained next (connection_point.rs:69), and for a rig an update   *)
(* made online without an event (omnirig_provider.rs:204).                 *)
(***************************************************************************)
ViewFollows ==
  Quiet => \A c \in Clients :
    sink[c] = "advised" /\ object[c] = "created" /\ call[c] = NoCall
      /\ c \notin missed /\ alive[c] =>
      \A w \in Watched \ toRead[c] :
        view[c][w] = Getter(w[2], w[1], cached[w[1]]) \/ (w[2] = "Status" /\ w[1] \in flipped)

(***************************************************************************)
(* Nothing is fired at a sink once its Unadvise has returned, unless it    *)
(* came while that sink was being unmarshalled (connection_point.rs:69).   *)
(***************************************************************************)
UnadvisedIsSilent ==
  \A c \in silenced : sink[c] = "none" /\ (out # NoCall => out.at # c \/ out.what # "invoke")

(***************************************************************************)
(* A client's setter returns, also when the manager's queue is full or the *)
(* manager is gone, unless a device holds the manager up, the thread has   *)
(* ended, or it hangs as a client unadvised in its handler                 *)
(* (connection_point.rs:99).                                               *)
(***************************************************************************)
CallReturns ==
  \A c \in {c \in Clients : "set" \in Does[c]} :
    call[c] # NoCall ~> (call[c] = NoCall \/ thread \in {"hung", "ended"})
=============================================================================
