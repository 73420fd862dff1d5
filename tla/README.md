# HolyRig in TLA+

HolyRig is a server for amateur radio transceivers. It keeps one serial port per
configured rig, polls the rig's status, runs the commands its clients send, and
offers all of this over JSON-RPC, over the rigctld protocol, through a COM server
compatible with OmniRig, and in its own window. This directory is the formal
model of that program: TLA+ modules translated from the Rust sources, TLC
configurations that check them on small instances, and proofs that TLAPS checks
for every value of the constants. Paths below are relative to the repository,
`device.rs` and `manager.rs` stand for `holyrig/src/serial/device.rs` and
`holyrig/src/serial/manager.rs`.

Contents: [the system](#1-the-system), [the modules](#2-the-modules),
[RigDevice](#3-rigdevice-one-rig), [RigService](#4-rigservice-what-a-rig-promises),
[DeviceManager](#5-devicemanager-all-rigs),
[RpcServer and RpcClient](#6-rpcserver-and-rpcclient-what-a-client-learns),
[the other front ends](#7-the-other-front-ends),
[the language](#8-the-language-of-rig-files), [the runs](#9-the-runs),
[fairness](#10-fairness), [the proofs](#11-the-proofs), [findings](#12-findings),
[what is not modelled](#13-what-is-not-modelled), [the plan](#14-the-plan).

## 1. The system

Everything runs in one process on a multi-threaded tokio runtime. Tasks share
almost no memory; they send each other messages through bounded channels.

```
 rigs.toml <--> DeviceManager <--mpsc(10)-- GUI, JSON-RPC, rigctld, OmniRig
                 |        ^
        mpsc(16) |        | broadcast(10): AvailablePorts, ConnectionStatusChanged, StatusUpdate
                 v        |        (to the GUI, JSON-RPC, rigctld and OmniRig)
              DeviceTask -+--> status_cache
          mpsc(32) |  ^ mpsc(8)
                   v  |
              SerialDevice <--> serial port <--> radio
```

| Component | State it keeps | Operations | Talks to |
|---|---|---|---|
| SerialDevice (`device.rs:33-182`) | the open port or none | run: Write, ReadExact, Shutdown; handle_error, attempt_reconnect | DeviceTask (commands in, messages and read answers out), the port |
| DeviceTask (`device.rs:184-428`) | settings, the last poll's values, the connection status | init, status poll, client command, shutdown; on Disconnected and Reconnected | SerialDevice, the interpreter, the status cache, the broadcast |
| DeviceManager (`manager.rs`) | settings, map of device handles, known ports | CreateDevice, UpdateDevice, ExecuteCommand, ListDevices, RemoveDevice; poll_ports; start | every DeviceTask, `rigs.toml`, all front ends |
| Rig settings (`rig_settings.rs`) | list of rigs, next id | load, save, add, remove, compute_next_id, validate | the disk |
| Resources (`resources.rs`) | parsed schema and rig files | load, once | the disk, the parsers |
| Interpreter (`runtime/interpreter.rs`) | none between scripts | init, status and command scripts over an ExternalApi | DeviceTask's port operations, data formats |
| Script language (`runtime/*parser*.rs`, `semantic_analyzer.rs`) | none | parse and check rig files and schemas | resources |
| Data formats (`data_format.rs`) | none | encode and decode integers and text of a given length | the interpreter |
| JSON-RPC server (`interfaces/jsonrpc/`) | rigs_state, the sessions and their subscriptions | accept, six methods, notifications | DeviceManager, status cache, TCP clients |
| rigctld server (`interfaces/rigctld.rs`) | one status of all rigs, the connections | line commands | DeviceManager |
| OmniRig provider (`interfaces/omnirig_provider.rs`) | the cached status of two rigs, a queue of events | COM properties, message loop | DeviceManager, COM server |
| COM server (`omnirig/`, `auto-dispatch/`) | table of event sinks | Advise, Unadvise, fire | OmniRig clients |
| GUI (`gui.rs`) | tabs, pending creations, shown status | create, update, remove, message loop | DeviceManager |
| Client library (`holyrig-client/`), radio and console applications | one connection, the view of a rig | requests with a timeout, notifications, reconnection | the JSON-RPC server |

**What is hard.** The difficult behaviour is in the middle of that picture.

- *Two tasks, one port.* A script's `write()` only enqueues; its failure is seen by
  SerialDevice, which empties the queue and reopens the port while the script
  goes on enqueueing. Reads must pair with answers across errors, timeouts,
  drains and reconnections.
- *Bounded channels in a circle.* SerialDevice and DeviceTask each wait for the
  other when the wrong channel is full.
- *Several devices for one rig.* A device whose handle is dropped ends when it gets
  to it and lives beside its successor until then, with the same rig id and
  perhaps the same port.
- *Awaits inside a command.* The manager waits for one device's channel in the
  middle of a command and saves a file that a crash can truncate.
- *Broadcast with lag.* Ten messages, five receivers, different reactions to having
  missed some: the JSON-RPC server and the OmniRig provider leave their loops, the
  window goes on, rigctld stops receiving until its next connection. A device
  publishes what changed, once; nothing repeats what was missed.
- *Calls within calls.* The COM thread takes other calls while it waits for one of
  its own to return.
- *Two walks of one tree.* The analyzer's types and the interpreter's values must agree.

**What makes each component correct.**

| Component | Properties |
|---|---|
| SerialDevice, DeviceTask | every read answered once; an answer consumed only by its own read; no write repeated; Success means delivered; Connected without a port only while the news is on its way; published values are those of the last poll; requests in order, none lost; the rig comes back; a removed rig frees its port |
| DeviceManager, settings | map, settings and devices agree at every await; ids are never shared; one bad rig costs no other; what an idle manager has is what a restart reads; the shown status settles on the true one |
| JSON-RPC server | a list of rigs that follows the devices; nothing falls between an answer and the notifications after it; answers in order |
| Client library, radio | a response belongs to its request; the view follows what the session tells; no rig is shown as connected without a connection; the initialisation ends when the notifications do |
| GUI | one rig per tab, one tab per rig; a tab shows what was last broadcast; the configuration confirmed last is the one kept; a creation settles |
| rigctld | what is answered RPRT 0 is queued, in order; the status follows the rigs; every line is answered |
| OmniRig provider, COM server | a slot follows its rig and a client its slot; an unadvised sink is silent; a setter returns |
| Analyzer, interpreter | an accepted file does not fail for a type, and publishes what its schema declares |
| Data formats | what was written reads back, but at the named edges |

`PROJECT.json` lists the hazards line by line with the properties that cover them.

## 2. The modules

| Module | What it is |
|---|---|
| `RigDevice` | SerialDevice, DeviceTask, their channels, the port and the radio of one rig; its properties |
| `RigDeviceInvariant` | the inductive invariant of RigDevice |
| `RigService` | abstract: what a rig promises to those who send it commands |
| `RigDeviceService` | the refinement mapping, and RigDevice => RigService as a property |
| `RigDeviceManaged` | a rig as a device of DeviceManager: the mapping, and the property that each of its steps is one there |
| `RigDeviceProofs` | the theorems of RigDevice, and the proofs of both refinements |
| `DeviceManager` | the manager, the settings and their file, all devices as seen from there; its properties |
| `RigRegistry` | abstract: what the manager promises to those who configure rigs |
| `DeviceManagerRegistry` | the refinement mapping, and DeviceManager => RigRegistry as a property |
| `DeviceManagerInvariant`, `DeviceManagerProofs` | its inductive invariant, its theorems and the proof of that refinement |
| `RpcServer` | the JSON-RPC server and one session, with any client at the other end; its properties |
| `RpcServerInvariant`, `RpcServerProofs` | its inductive invariant and its theorems |
| `RpcClient` | the client library and the radio's view, composed with RpcServer; its properties |
| `RpcClientInvariant`, `RpcClientProofs` | its inductive invariant and its theorems |
| `AppTabs` | the window, its tabs and creations, beside the manager; its properties |
| `AppTabsInvariant`, `AppTabsProofs` | its inductive invariant and its theorems |
| `Rigctld` | the rigctld server and its connections; its properties |
| `RigctldProofs` | its theorems |
| `OmniRigControl` | what the OmniRig interface makes of a rig: params, getters, setters |
| `OmniRig` | the provider task, the COM thread and its clients; extends OmniRigControl; its properties |
| `OmniRigInvariant`, `OmniRigProofs` | its inductive invariant and its theorems |
| `SequenceFacts` | lemmas of all of them: the first element of a sequence taken, one appended |
| `DataFormat` | encoders and decoders |
| `RigLanguage` | the tables of rig files and schemas, the analyzer, the value of an expression; extends DataFormat |
| `RigInterpreter` | loading files and running blocks; extends RigLanguage; its properties |
| `MC...` | the instances TLC checks |

Each specification ends with its properties, each preceded by what it says. Before
its actions it has a few *variants*: actions with a mistake that a change of the
code could bring. `Next` uses none of them. Each property has one (`PROJECT.json`,
"mutants") that TLC finds to break it, so no property holds by the shape of the model.

`RigDevice` looks into one device; `DeviceManager` has several devices and keeps
of each only what the manager and the other devices depend on (phase, handle,
port, status, command channel, how many Disconnected messages it has still to
receive, and whether its two tasks wait on each other). Its device actions are
RigDevice's, coarsened: `SerialLoses` is the step that sends Disconnected and goes on to
the drain and the reopening, `TaskTakes` a whole command. A device may become `stuck` at
any moment it has its port: DeviceManager does not know when the circular wait of
RigDevice comes about, only what it does to the manager. That these actions leave nothing
out is checked and proved: `ActsAsManaged` (`RigDeviceManaged`) maps every step of
RigDevice to one of them, of the port, of the manager, or to none, with RigDevice's
`CircularWait` as the stuck device (`Stuck`). It is about safety: the fairness of the
two modules is assumed in each (section 10).

## 3. RigDevice: one rig

| Variable | Code |
|---|---|
| `link` | nothing in the code: the cable and the radio ("good", "noisy", "off", "unplugged") |
| `port` | `SerialDevice.port`; "broken" is an open file whose device node is gone |
| `air`, `stray` | the bytes waiting on the port: the answer to a write, and bytes that answer nothing |
| `serial` | the point SerialDevice is at: `recv().await`, the await of handle_error, its drain loop, the reopening loop, the await of attempt_reconnect, ended |
| `cmdQ`, `msgs`, `taskQ` | the three mpsc channels (32, 8, 16), FIFO and bounded |
| `reply` | the oneshot channel of the read in progress |
| `task`, `job`, `pos` | the point DeviceTask is at: in a script (which, where), awaiting a read, in `select!`, ending |
| `status`, `previous`, `cache` | `DeviceTask.status`, `previous_values`, `status_cache[id]`, for one variable |
| `handle` | whether the manager still holds the device's sender |
| `reqs` | what became of each client request |
| `faults`, `reached` | history: handled errors (saturating at `MaxFaults`), writes taken by an open port |

| Action | Code |
|---|---|
| `SerialWrite`, `SerialWriteFails`, `SerialRead`, `SerialReadFails`, `SerialExit` | the loop of `SerialDevice::run`, `device.rs:126-164` |
| `SerialNotify`, `SerialDrain`, `SerialDropPort`, `SerialReopen`, `SerialAnnounce` | `handle_error` and `attempt_reconnect`, one step per await or turn of a loop, `device.rs:99-117,166-182` |
| `TaskSend`, `TaskReadOk`, `TaskReadFails`, `TaskScriptFails`, `TaskFails`, `TaskScriptEnds` | a script run over DeviceExternalApi, `device.rs:212-246`, `interpreter.rs:255-430` |
| `TaskPolled` | `poll_status` after a good status block: status, comparison, cache, `device.rs:359-401` |
| `TaskTick`, `TaskExecute`, `TaskRefuse`, `TaskStop`, `TaskDone`, `TaskDisconnected`, `TaskReconnected` | the branches of `DeviceTask::run`'s `select!`, `device.rs:290-345` |
| `Submit`, `RemoveDevice`, `ReplaceDevice` | what the manager does to a device, `manager.rs:189-256` |
| `LinkImproves`, `LinkWorsens`, `LinkStray` | the world |

A script is the sequence of its port operations: "ask" (a write the radio
answers), "tell" (a write it does not answer), "read". Names, templates, values
and formats do not change which operation comes next, so they are left out; that
any statement between them can fail is `TaskScriptFails`.

Assumptions about the world, all visible in the module:

- a `read()` follows the `write()` that causes its answer, and the status script
  ends with a read (`ScriptsAssumption`); so it is in every file of `rigs/`;
- an answer comes before its read times out, or not at all; the radio may send
  bytes nobody asked for at any time, a late answer among them, and answers may be
  garbled;
- bytes nobody asked for can look like a status answer but not like the
  acknowledgement of a command, which repeats it;
- a port whose cable is pulled out fails at the next operation.

## 4. RigService: what a rig promises

`RigService` knows no tasks, channels, port or reconnections. Requests are
accepted while the rig is open, taken one at a time in the order they came, and
begun or refused; a begun one succeeds or fails. Its writes reach the radio in
script order, each at most once, none of a refused request. A write the radio
does not acknowledge may still be under way when its request is answered, but
it arrives before those of any later request. Success promises every
acknowledged write. There is no action that gives a request up.

`RigDeviceService` maps RigDevice to it: `reqs` and `reached` are the same
variables, `open` is the manager's handle, `waiting` is the command channel
without a final Shutdown. `ImplementsService` is checked by TLC and proved.
That no accepted request is ever given up rests on the manager never sending
anything behind Shutdown, an invariant of its own (`AcceptedConsistent`).

## 5. DeviceManager: all rigs

| Variable | Code |
|---|---|
| `file` | `rigs.toml`; an absent or unreadable file is no rigs, as `Settings` loads it |
| `plugged` | the serial ports there are |
| `mgr`, `todo`, `cur` | the point of the manager: off, adding devices, in `select!`, awaiting a device's channel, saving, ended |
| `rigs`, `nextId` | `settings.rigs`, `settings.next_id` |
| `devices` | the map of handles |
| `tasks` | the devices, also those without a handle that have not ended, and those whose tasks wait on each other (`stuck`) |
| `shown` | the ConnectionStatus last broadcast for each rig |
| `refused` | history: the rigs whose last `add_device` failed |

| Action | Code |
|---|---|
| `Start`, `AddDevice`, `AddDeviceFails` | `new`, `start_devices`, `add_device`, `manager.rs:112-171,317-360` |
| `CreateDevice`, `UpdateDevice`, `RemoveDevice`, `ExecuteCommand` | the commands up to their first await or write, `manager.rs:175-256` |
| `Deliver`, `DeliverShutdown` | the await on the device's channel, and what follows |
| `SaveTruncates`, `SaveWrites`, `SaveFails` | `std::fs::write` of the settings; an error leaves `run` through `?` |
| `SerialLoses`, `SerialReopens`, `SerialEnds`, `TaskConnected`, `TaskDisconnected`, `TaskTakes`, `TaskDropped` | a device |
| `Sticks`, and `Becomes` in `SerialReopens`, `TaskTakes`, `TaskDropped` | DeviceTask waits for an answer of SerialDevice, which waits for room in the message channel, `device.rs:167,233`: nothing of such a device is enabled again but the loss of its node |
| `Unplug`, `Plug`, `Crash` | the world: a cable, the end of the process |

ListDevices changes nothing and is left out. Assumptions: a port can be opened by
one device at a time (the `serialport` crate asks for exclusive access); a file whose
device node is gone holds no port, whose name may be given again while that file is
still open, or later; a truncated
`rigs.toml` reads as no rigs; `add_device` fails exactly when there is no rig file
for the rig type (`Known`) or the port cannot be opened; saved rigs have distinct
ids (`SavedAssumption`), as every file the program writes has.

`RigRegistry` is what all this is for, seen by those who configure rigs. It knows no
devices, ports, channels or order of rigs: there are the rigs by their ids, which of
them are served, and what a restart would find. Ids are new in this run of the
program; a command changes one rig, and none is begun before the change of the last
is saved; a rig is served only while it is configured, an update or a removal ends
that first (`Update`, `Withdraw` and then `Remove`); a crash costs the change being
saved at most, or, in the midst of the save, all rigs (`Overwrite`).
`DeviceManagerRegistry` maps DeviceManager to it: a list of rigs is the function from
its ids (`ById`), a rig is served when there is a handle for it, and `leaving` is the
rig whose Shutdown the manager is trying to send. `KeepsRegistry` is checked and proved.

## 6. RpcServer and RpcClient: what a client learns

A client learns of a rig along two ways. The answers of `list_rigs` and `get_status`
are read from `rigs_state` and from the status cache at the moment they are
handled; notifications travel from the device over two broadcast channels, the
manager's and the server's. A device writes the cache before it broadcasts; the
server writes `rigs_state` before it publishes. `RpcServer` has these writes and
sends as steps of their own, and follows for each *item* of a rig (its connection,
or a field of its status) what the session told its client.

| Variable | Code |
|---|---|
| `conn`, `cache`, `telling` | the status a device last broadcast, its entry of `status_cache`, and what it wrote there and has not broadcast (`device.rs:390-398`) |
| `bus`, `busLagged` | `manager_rx` of the server: the messages it has not received, and whether one was overwritten |
| `serving`, `rigsState`, `publishing` | whether `run` is in its loop, `rigs_state`, the message `handle_manager_message` has in hand |
| `session`, `subs`, `executing` | the point a session's loop is at, its subscriptions, the request it awaits the manager for |
| `notices`, `lagged` | `notification_rx` |
| `half`, `toServer`, `toClient`, `hung` | the part of a line `read_line` has, the two directions of the socket, the client's close |
| `known` | history: what the client was told of each item, as long as later notifications must keep it up to date |

| Action | Code |
|---|---|
| `ConnectionChange` (`SetStatus`), `StatusChange`, `StatusTell` | `set_status`, and `poll_status` in two steps, `device.rs:278-288,372-399` |
| `TakeMessage`, `Publish`, `FallBehind`, `Accept` | `JsonRpcServer::run` and `handle_manager_message`, `server.rs:86-127,185-218` |
| `ReadHead`, `ReadRemainder`, `Notify`, `Skip`, `SessionEnd` | the loop of `handle_client`, `server.rs:234-290` |
| `ListRigs`, `GetStatus`, `Subscribe`, `Unsubscribe`, `GetCapabilities`, `Refuse`, `Execute`, `ExecuteDone`, `ExecutePanics` | `handle_request`, `server.rs:355-451`, `handler.rs:89-189` |
| `ClientSend`, `ClientReceive`, `ClientHangup` | any client |

A notification that comes before the end of a line ends `read_line`, and the part
already read is lost (`Notify` and `Skip` clear `half`). The end of the line is
then no request: it is answered with a parse error, or skipped when nothing but
the line's end is left. `execute_command` awaits the manager in the session's
loop, and panics on a parameter of a type it has no case for (`handler.rs:129`),
which ends the session's task.

`RpcClient` puts the client library and the radio at the other end. It extends
RpcServer, and its `Connect` and `SendRequest` are RpcServer's `Accept` and
`ClientSend` with what the client does besides.

| Variable | Code |
|---|---|
| `phase`, `waiting` | what `init` asks for and whether it waits, or the receiver loop ("ready"), or no connection ("away") |
| `todo`, `cur`, `caps`, `infos` | the rest of `rig_entries`, the rig in hand, its fields, the map `rigs` so far |
| `inView`, `shown` | the radio's tabs, and the `RadioState` of each |
| `late`, `dropped` | history: a request was given up, whose answer may come later; items whose newest news `init` discarded |

| Action | Code |
|---|---|
| `Connect`, `SendRequest`, `TakeResponse`, `ListingFails`, `Discard`, `GiveUp` | `connect`, `init`, `send_and_wait`, `client.rs:29-182`, `net.rs:33-53` |
| `Apply`, `Command`, `Disconnect` | the receiver loop, the command task and the end of `connect_and_run`, radio `lib.rs:81-114`, `app.rs:112-160` |
| `ServerExit` | the server process ends and is started again |
| `TellAgain` | `set_status` once more of a rig that is switched off: SerialDevice reports every error, and so the session notifies without end (`device.rs:166,329`) |

A write that waits for the socket is a step that is not enabled. One session is
modelled: sessions share only the state of the devices and of the server, which
a session never writes. The client's next connection starts when the server has
noticed the end of the last; the sessions are independent, so that this loses nothing.

## 7. The other front ends

These receive the same broadcast and send into the same channel as the JSON-RPC
server, each with its own answers to a lag, a full queue and a manager that ended.
In each module the manager and the rigs are what that front end sees of them,
and every bounded channel is there with its capacity as a constant.

What a rig publishes need not be new: a device that has just replaced another says
its status again and all its values, since `status`, `previous_values` and the cache's
entry start anew (`set_status` and `poll_status`, `device.rs:278-288`, `372-399`). The
steps by which rigs publish (`Announce`, `FirstPoll`, `PublishStatus`, `PublishValues`)
allow that at any time.

**AppTabs** is the window. A frame of `App::update` is three steps - the pending
creations are polled, the broadcast is drained, the tabs are drawn and the user
does one thing - and everything else may happen between them.

| Variable | Code |
|---|---|
| `tabs`, `nextTab` | `AppTabs`: the dock's tabs with their rig, configuration and status, by their ids, and the next id |
| `pending`, `answers`, `owed` | `pending_creates`, the oneshot channels, and the answer the manager has still to send |
| `spawned` | the tasks `tokio::task::spawn` made of a press of OK or a closed tab; they run in any order |
| `window`, `frame`, `available` | hidden to the tray or not, the place in the frame, the ports |
| `manQ`, `bus`, `mgr`, `rigs`, `nextId` | the manager's channel, the broadcast, the manager and its settings, by the rigs' ids |
| `announced`, `missed`, `chosen`, `crossed`, `maker`, `hasty`, `recent` | history, for the properties |

`TakeCreate` and `SendAnswer` are two steps: the device is started, and may announce
its status, before the id of the rig is in the channel of the answer. What the
window drains in between finds no tab (`gui.rs:704`); `StatusShown` says that this
and an overwritten message are the only ways to a wrong status. The settings file has
distinct ids (`SavedAssumption`), as the program writes it.

**Rigctld** is the rigctld server: `run_server`'s loop (`Accept`, `Receive`,
`ReceiveLagged`), one `HandleClient` per connection (`AnswerLine`, `RefuseLine`,
`LeaveLine`, `SetLine`, then `Queue` or `QueueFails`, `Ack`), and all lines of
`parse_rigctl_command`. A line is its name, its arguments and whether it ends in a newline,
as the parser tells these apart. `status` is one record for all rigs, as in the
code.

**OmniRigControl** has the interface of a rig without its state: params, `CachedStatus`,
the mask of params that a change names, every getter, and the commands each setter
sends. **OmniRig** has the two threads. The provider task receives the broadcast and
queues events. The COM thread is a single-threaded apartment: it runs one call at a
time, but other calls come in while it waits for a client to return from `Invoke` or
for the marshaller, and while it peeks for messages.

| Variable | Code |
|---|---|
| `bus`, `lagged`, `serving`, `cached`, `telling`, `queue` | `OmniRigProvider`'s loop, `CachedStatus`, `EventDispatcher` |
| `thread`, `peeks`, `setting` | the message loop of `lib.rs`; the commands a setter has still to send |
| `sinkList`, `todo`, `undrained`, `drained` | `process_events`: the list of sinks, what is left of its loop over them, whether that is the first one, the events it drained and has not come to |
| `out` | the call of its own that the COM thread waits for: `Invoke`, or the marshaller |
| `sink` | of each client: not advised, in the pending list, taken out of it, in the table |
| `object`, `call`, `view`, `toRead`, `alive` | the clients |

A pass of `process_events` is `StartEvents` (the list is pruned, the pending sinks are to
be unmarshalled), `Drain`, and a `TakeEvent` per event; each starts a loop over the sinks,
of which `Unmarshal`, `Fire` and `PassOver` do one. `Retained` is what `retain` leaves,
written as a function of the places kept, so that it can be reasoned about without
induction over the list.

A client that unadvises from within its handler waits for the mutex its own thread
holds: `thread = "hung"`, an outcome CallReturns names and the run reaches.

## 8. The language of rig files

**DataFormat** translates every encoder and decoder of `data_format.rs` byte by
byte, with its limits and errors, for words of `WordBytes` bytes (four in the code).
**RigLanguage** has the tables of a parsed file and of a schema, the whole semantic
analyzer (`CheckStatement`, `Infer`, `BinaryType`, the casts, the pass over the
status block) and the interpreter's evaluation of an expression and a template
(`Evaluate`). **RigInterpreter** is the state machine: `Load` takes a directory of
files and keeps the rigs the analyzer accepts (`resources.rs`); `StartInit`,
`StartStatus` and `StartCommand` begin a block, the last with the arguments a client
gives; each further step executes one statement, and a read is answered with the
bytes just written, with any of `Fill` where the template has a variable, or not at
all.

The analyzer and the interpreter are written as the two walks they are in the code,
with a type table in one and an environment in the other. `AcceptedRuns` relates
them: what the analyzer accepts does not fail for a type, a variable or a cast. It
accepts more than it can answer for, so the property is about files that are
`Plain`. The definition lists the gaps, each of which the run reaches without it:

- settings are evaluated before the enums are registered, so that one which names a
  variant fails;
- a cast to the same type or to an enum that does not exist; `==` of two strings;
  `!=` of anything but integers, booleans and bytes; arithmetic with a float, which
  is typed Int;
- names, types and formats of a template's variables, "_" in a template that is written;
- a variable that only another block, or only one branch, has read;
- the assignment of another type to a variable, which keeps its old type;
- the function `error`, the argument of `write`, and the first of `set_var`;
- the kinds of a command's arguments, which come from outside.

`PublishedAsDeclared` says of the same files that a status block publishes the schema's
variables with values of their kinds. `WrittenReadsBack` (in `MCRigInterpreter`, with
rigs that echo) says that a number comes back as it was written, in every format and
length, but at the edges `AtEdge` names: a number beyond a word, a sign that takes the
place of digits or of the highest bit, a negative number in an unsigned format.

Left out: the number in a Float (what depends on it is chosen, `AnyNumber`), the
overflow of 64 bits, the BCD of the least i32 (whose `abs` overflows), two variants of
one number, and the text of errors. The grammar is not modelled: a file is its tree. Of
types a file can name int, bool and enums only: `float` in it is the name of an enum.

## 9. The runs

Deadlock is not checked: a removed rig and a manager without further commands
legitimately stop. That nothing stops *too early* is what the liveness properties say.

| Run | Properties | Bounds | States |
|---|---|---|---|
| `rig_scripts` | TypeOK, CacheHoldsLastPoll, ReadsPaired, LossIsAnnounced, SuccessIsDelivered, CircularWaitNeedsFaults, AnswersOwnWrite, NeverReplayed, ImplementsService | two requests, one of an acknowledged write and one of a write only; channels of 2, 2, 1, 2 faults | 2.1 M |
| `rig_progress` | ActsAsManaged, ReconnectsUnlessStuck, RequestsAnswered, RemovedRigEnds | one request, channels of 2, 2, 1, 1 fault | 0.15 M |
| `manager` | DevicesMatchSettings, IdsAreFresh, NoneForgotten, KeepsRegistry, ManagerGoesOn, DroppedEnds | three configurations of one port, one of them of an unknown rig type; ids 0 and 1, two devices, one Disconnected not yet received, two commands, one crash; fresh and saved settings; any device stuck at any moment | 0.11 M |
| `rpc_server` | SessionFollows, StateFollows, AnswersInOrder | two rigs, one of them configured after the start; two fields, each with no value or one; two changes, two requests of seven kinds, one split line; both broadcasts hold one message, so does the socket | 1.2 M |
| `rpc_client` | ResponsesPair, ViewFollows, LostShown, InitEnds | two rigs, one without fields; one change, one split line, two connections, one end of the server, thirteen requests (two initialisations and a command), in the last connection repeated news without limit; broadcasts of one message, a socket of two | 0.56 M |
| `gui` | RigsHaveTabs, StatusShown, LastConfirmedWins, CreationSettles | two configurations, three tabs, three presses, two messages; channel and broadcast of one; fresh and saved settings | 0.27 M |
| `rigctld` | AckedIsQueued, StatusFollows, LineIsAnswered | two connections, two lines of four kinds (answered, refused, a command, one that ends the connection), two rigs, one variable, two messages, one change at a panel or replaced device; queue and broadcast of one | 0.37 M |
| `omnirig` | StatusFollows, ViewFollows, UnadvisedIsSilent, CallReturns | two clients, one that comes and goes and one that operates; two rigs, two slots of which one is empty; two readings of four variables; two inputs; queue and broadcast of one | 0.48 M |
| `language` | AcceptedRuns, PublishedAsDeclared, WrittenReadsBack | 334 files: 42 expressions in six places each, 22 files with something of their own, all formats in lengths 1 to 3, also negative; 25 requests; words of two bytes | 11 k |
| `rig_circular_wait` | Reconnects, violated | the code's capacities 32, 8, 16 | - |
| `manager_stale_status` | ShownSettles, violated | one saved rig, two devices, two Disconnected not yet received, one command | - |
| `manager_lost_device` | ConnectedIsServed, violated | the same | - |

Why these bounds are enough to meet the interesting cases. A message channel of 2 is
full after one handled error, so that the circular wait, which takes five with the
real 8, is reached; a command channel of 2 holds a write with its read, two
unacknowledged writes, or the leftover of one script before the next. Two requests
are needed for the order of requests and for writes left behind by an earlier one.
Two faults are an outage within the recovery from another. `MaxFaults` bounds how
often the link *worsens*; errors go on being handled after the counter has
saturated, so that one is enough for the circular wait in `rig_progress`. Two
devices are a rig's old and new one or two rigs'; the saved settings with the id 1
alone have the gap a removal leaves. `MaxLost` stands for the message channel a
device waits for room in; one message not yet received is the one that an update
leaves behind. The invariants of every component but the language are proved for any
values of these bounds (section 11).

For the session, a broadcast of 1 is overwritten by the second message, and two
messages of the same item are in different places on their way; with a socket of one
message a notification waits while a command is executed. For the client, thirteen
requests are those of an initialisation, of one command and of another
initialisation after the server ended. `TellAgain` is not counted, so that a wait of
`init` can be renewed without end; it is left to the last connection and to when
nothing else is under way, since the news it adds is of the same item as before. With
it TLC violates InitEnds without the hypothesis `NewsEnd`: a request is lost
when a notification cuts `read_line` short, and each further notification starts the
two seconds anew.

For the window, three presses are a creation, its impatient repetition and a closed
tab, or two updates and an edit; a broadcast and a channel of one are overwritten and
full with the second message. In rigctld two connections are one that waits for the
queue and one that reads or ends; two messages are one that overwrites another. In
OmniRig the second client keeps the thread busy with a setter or a getter while the
first advises and unadvises; `HalfRange` is a width at which the cut to an i32 shows.
In the language, words of two bytes have all the edges that words of four have, with
lengths below, at and above the width. A run is one of a file at a time, since
nothing but the set of loaded rigs survives it.

Two passing properties state under what circumstances the code's weaknesses of
section 12 cannot bite: `ReconnectsUnlessStuck` (no circular wait, no bytes left
on the port) and `CircularWaitNeedsFaults` (it takes MessageCap + 1 messages, two
per handled error).

## 10. Fairness

RigDevice. `WF(SerialStep)` and `WF(TaskContinues)`: the runtime polls a task that
can go on. `SF` for each branch of DeviceTask's `select!`: tokio picks among the
ready branches at random, so that one which is ready again and again is taken
in the end; a branch may well lose a hundred times in a row, and nothing is
assumed about that. The poll timer is always ready in the end. Nothing is
assumed of clients, manager, cable and radio; that the link is good in the end
is a hypothesis of the properties (`LinkRecovers`), and so is that the radio
stops talking unasked (`GetsQuiet`) and that no drain splits a write from its
read and no script fails by itself for ever (`Settles`).

DeviceManager. `WF(ManagerContinues)`: the manager finishes what it began unless it
waits for room. For a device: `SF` of the branches that end it or take a command,
given only while it has its port, because during a reconnection DeviceTask may
be inside a read that ends with it; `WF` of reopening and of noticing a broken port.
None of this is assumed of a stuck device: it holds its port, but no step of it is
enabled (`Serves`, `Closes`), and nothing says that a device does not become stuck.
ManagerGoesOn and DroppedEnds therefore name it: the manager that waits for such a
device waits for good, and a dropped device that is stuck keeps its port. That
a device is not without its port for ever is a hypothesis (`PortsReturn`). The two
violated properties of this module assume as much as would help them, so that their
counterexamples owe nothing to it: the ports stop changing (`PortsSettle`), no device is
ever stuck (`NoneStuck`), and for ShownSettles a poll succeeds or fails (`PollsDecide`).
Nothing is assumed of commands, disk and user.

RpcClient. `WF(Client)` only: the client's tasks run, and the timer of a wait expires.
The server need never answer, so that InitEnds rests on the timeout. Every line
received starts it anew (`net.rs:36-49`); that the session stops notifying in the
end is therefore a hypothesis of InitEnds (`NewsEnd`).

AppTabs. `WF(Frame)`: the window repaints at least every 100 ms (`gui.rs:728`); a hidden
one need not, and CreationSettles says so. `WF(TakeCommand)` and `WF` of each spawned
task: the runtime polls them. Rigctld. `WF` of the server's loop, of each connection's
task and of a manager that takes commands. OmniRig. `WF` of the provider, of the COM
thread and of the manager. That of the manager is an assumption about its devices too:
DeviceManager shows that the manager goes on unless a device is stuck or never gets
its port back, and these modules have no devices. CreationSettles, LineIsAnswered
and CallReturns say nothing of a manager held up that way. Nothing is assumed of clients, rigs and the end of the
manager, nor, where the manager may end, that it goes on.

## 11. The proofs

All theorems hold for every value of the constants under the named assumptions of
the modules, each of which TLC evaluates in the runs. For RigDevice those are any
requests, scripts, values and channel capacities; for DeviceManager any
configurations, ports, saved settings and bounds.

**RigDevice.** None of its safety properties is inductive by itself. `IInv`
(`RigDeviceInvariant`) is the conjunction of

- `TaskConsistent` - which script DeviceTask is in, and that it awaits only at a read;
- `QueueFromTask` - every queued command is an operation of a script; one that is
  answered belongs to the operation DeviceTask is at, and a read is the last;
- `ReplyConsistent` - a read in progress is queued or answered; after a good read
  SerialDevice is idle with an empty queue;
- `AirConsistent` - an answer waiting on a port in use belongs to the last write of
  the running script; there is none on a port just reopened;
- `LossConsistent`, `FaultsConsistent` - messages sent and still unsent per error;
- `RequestsConsistent`, `AcceptedConsistent` - where each request is, that it is
  queued and begun once, and that Shutdown is the last command of its channel;
- `WritesConsistent`, `WritesInTurn` - a request's writes reach the port in order,
  the queued ones after those written, an earlier request's before a later one's;
- `PortConsistent` - SerialDevice has its port, or a dead file, but while it reopens it;
- `DeliveryConsistent` - a good read proves that the write before it was delivered;
- the properties `CacheHoldsLastPoll` and `SerialOutlivesTask`, inductive as they stand.

The heart of the argument is the pair QueueFromTask and ReplyConsistent: because
commands are executed in order and a script awaits each read, at most one
answered write and one read are ever in the queue, and a drain or reconnection
that happens in between leaves nothing of them. Each part has a lemma that every
action preserves it. `Invariance` puts them together; `ReadsArePaired`,
`AnswersAreOwn`, `LossesAreAnnounced`, `CircularWaitsNeedFaults`,
`WritesAreNotReplayed`, `SuccessMeansDelivered`, `CacheIsCurrent`, `SerialEndsLast`
and `TypeCorrect` follow from it.

**Refinement.** `RigKeepsPromises == Spec => ImplementsService`: the initial states
map to initial states, and under IInv every step maps to a RigService step or
leaves its variables alone. The interesting steps are `SerialWrite`, which is
`Reach` by the order of the writes, `TaskScriptEnds`, which is `Succeed` by
DeliveryConsistent, and `TaskDone`, which is a stutter because AcceptedConsistent
says that nothing waits any more.

**A rig is a device.** `RigActsAsManaged == Spec => ActsAsManaged`. `Device` is the record
DeviceManager has of a rig: its port is the one SerialDevice uses (none while it drains
and reopens), `lost` the number of Disconnected messages in `msgs`, its queue the kinds
of what is in `taskQ`. `SerialNotify` is `SerialLoses`, `SerialReopen` `SerialReopens`,
`SerialExit` `SerialEnds`, `TaskPolled` `TaskConnected`; the end of DeviceTask, by a
Shutdown or by a dropped handle, is `TaskTakes` or `TaskDropped`; the cable is `Plug`
and `Unplug`; Submit, RemoveDevice and ReplaceDevice are what the manager does to the
device (`Managed`). Everything inside a script, the rest of a recovery, and Reconnected
are stutters, but for one step: where SerialDevice finds the message channel full while
DeviceTask is in a read, or the other way round, the device becomes stuck (`Sticks`; `Becomes`
where the reopening or the end of DeviceTask does it). A stuck device stays so,
since no step of its tasks is enabled (`StuckWaits`, `DeviceStays`), and it has its port
(`StuckHasPort`), as Sticks asks. The count needs lemmas on what an append
and a receive do to it, SerialNotify needs PortConsistent, and SerialEnds needs
SerialOutlivesTask.

The attempt found three things an earlier DeviceManager left out, all of which the code
can do, and they are in it now: a second Disconnected may be sent before the first is
received; a poll may succeed, and Connected be broadcast, after the port has gone; and a
rig with a dead file can find its port there again before it closes that file.

**DeviceManager.** `IInv` (`DeviceManagerInvariant`): `HandlesServe`,
`MapConsistent`, `HandlesInMap`, `SendConsistent` relate map, handles and devices
at every await; `TodoConsistent` and `RigsAccounted` follow each rig from the
settings to its device or its refusal; `FileConsistent` follows the file;
`EndedConsistent` what is left after a crash. `DevicesAgree`, `IdsStayFresh`,
`NoRigIsForgotten`, `SettingsAreSaved` and `TypeCorrect` follow.
`ComputeNextId` chooses a greatest id; that there is one is proved from the
well-foundedness of the naturals, since induction rules cannot be instantiated.

`ManagerKeepsRegistry == Spec => KeepsRegistry`: under IInv each step maps to one of
RigRegistry or to a stutter. The first lemmas are about `ById`: it is a function that
says of each id what its one rig has (`ByIdIs`), and what an append, an update and a
removal of the list do to it; they need that ids are distinct, which is IdsAreFresh for
the rigs and FileConsistent for the file. Two steps carry the argument. `DeliverShutdown`
is `Remove` of the rig that `Leaving` names: that its handle was taken from the map
before is SendConsistent. `AddDevice` is `Serve`: that the rig at the head of `todo` is
configured and not served is TodoConsistent, and a rig just created is served only when
its save is done. Devices, ports, failed starts and the awaits in a command are
stutters. What `SettingsAreSaved` proves, SavedWhenIdle, is here again but for the order
of the rigs, so no run checks it by itself; nor SerialOutlivesTask, which
`SerialEndsLast` proves and ActsAsManaged rests on.

**RpcServer.** `IInv` (`RpcServerInvariant`) beside the types: `TellingConsistent` (what a
device is about to broadcast is what the cache has), `KnownSubscribed`,
`StateIsNewest` (the message in hand and those on their way to the session end
with what `rigs_state` says), `TruthIsNewest` (all that is on its way ends with what
the device last said), and the properties SessionFollows and StateFollows.
SessionFollows is not inductive alone: an answer of `get_status` makes the cache
the known value, and that only stays right because older values still on their way are
followed by the newest, which is TruthIsNewest; for `list_rigs` it is
StateIsNewest. All speak of `Latest(s, r, x, d)`, the last news of an item in a
channel; lemmas say what an append, a receive and an overwritten message do to
it, and that overwriting concerns only items no longer known. 
AnswersInOrder has an argument of its own, `InTurn`: along the way of a request - the
lines to the server, the one it executes, the lines to the client - each request id is
before those behind it, and all are among the ids given. `RpcTypes`,
`RpcSessionFollows`, `RpcStateFollows` and `RpcAnswersInOrder` hold for any rigs, fields,
values, requests, capacities and bounds.

**RpcClient.** `ClientInv` (`RpcClientInvariant`) extends that invariant by the other end.
`OneAtATime`: while `init` runs and has given no request up, one request is under way,
and either it is unread or at most one response is in the socket; with `AnswersFit`, which
response there can be in which phase, that is ResponsesPair. `CopyFollows` is about the
client's copy of an item, wherever `init` or the radio keeps it: the last line in the
socket that bears the item has what RpcServer says the client was told of it, and where there
is none the copy is that already, or `init` discarded the news. A response bears an item
too, so that the invariant holds where `init` reads a list or values. The steps of the server
are RpcServer's, and what they do to the socket is a lemma per kind of step. `ClientTypes`,
`ClientResponsesPair`, `ClientViewFollows`, `ClientLostShown` follow, and
`ClientSessionFollows`: RpcServer's property, with this client and a server that may end.

**AppTabs.** `AppInv` (`AppTabsInvariant`). `CommandsConsistent`: a command is one press and
in one place. `OnePlace`, `PlacesAreRigs`: the id of a rig is in one tab, or in one answer
not yet taken, or owed by the manager, and it is known - the manager has the rig and no
`remove` of it is on its way, for only closing its one tab sends that. `RigsPlaced`: a rig is
in one of these places, or is being removed, or its press was `hasty`; `HasteKnown` says
that a pending creation whose tab was pressed again or closed is such a press. From these
follows RigsHaveTabs. StatusShown rests on `NewestAnnounced` (the last status of a rig on
the bus is the one announced) and `StatusesFollow` (one of which there is none on the bus is
shown, or missed, also while the id is still in an answer); LastConfirmedWins on `LastUpdate`,
which follows the configuration confirmed last through the spawned task and the manager's
channel. `AppInvariant`, `AppRigsHaveTabs`, `AppStatusShown` and `AppLastConfirmedWins` hold
for any configurations, saved rigs, capacities and bounds.

**Rigctld and OmniRig.** `StatusIsFollowed` and `SlotsFollow` prove StatusFollows of both.
It speaks of the moment when nothing is left to receive and is not inductive. The
invariant says what the messages on their way are worth: the last one that has a
variable has what was last published of it (`NewestIsShown`), and a variable of which
none is on its way has been taken already (`RestFollowed`) - in Rigctld unless it was
overwritten. A message that is received is the last of its variable or has a later
one behind it; one that is appended becomes the last; in OmniRig one without room
makes the provider leave, after which nothing is claimed. Two assumptions are about
the code's data: a rig publishes a variable with one kind (`KindOf`), and no two
slots have the same rig (`SlotsAssumption`).

`AcknowledgedIsQueued` proves rigctld's AckedIsQueued: the k-th acknowledged line of a
connection's log is the k-th command it queued, and the one being acknowledged is the last.
It counts the acknowledged places up to a place (`AckedUpTo`), which one more line leaves
as they are.

**OmniRig's clients.** `ViewInv` (`OmniRigInvariant`) adds the COM thread to that invariant.
`OutConsistent`: a sink is out of both the pending list and the table only while the thread
waits for the marshaller because of it; hence Unadvise finds every other sink, and
`SilentOnceUnadvised` follows. ViewFollows speaks of a moment when all is quiet and says
nothing of the way there, so the invariant says where the event is that a client still needs:
`WillBeTold(c, w)` - about to be queued, in the queue, drained, in the loop over the sinks,
or being told. For each place there is what makes it good: the client's sinks are in the list
or registered by an event before it (`Enlisted`), and its sink is in the table by the
time the event is fired (`Ready`), which `PendingUnmarshalled` gives when the queue is
drained. The calls that come in while the thread waits are where it could fail: an Advise
just then leaves its sink pending until the next pass, which is why `missed` clients
are excepted. There is one lemma per step. That an event is needed at all is `ChangeIsNamed`: what a
getter is computed from (`Depends`) is named by the params its change puts in the mask.
`ViewsFollowSlots` holds for any clients, watched getters, readings and capacities, with
`TextsAssumption`: mode and VFO, where they are published as text at all, have known
values. In the schema both are enums, which are published as variants and not followed
(section 12). As text an unknown VFO after "B" would change `Freq` without a param to say so
(`omnirig_provider.rs:67`, `505`).

Before they were proved TLC checked the invariants `ClientInv`, `AppInv` and `ViewInv` (but for
what says that a channel is a sequence) on the instances of the runs, AppInv on one with
channels of two, ViewInv on 2.7 million states of one with more inputs and a broadcast of
two. The type invariants of DeviceManager, RpcServer, RpcClient and AppTabs are proved and
belong to no run.

Only model-checked: every liveness property (ReconnectsUnlessStuck,
RequestsAnswered, RemovedRigEnds, ManagerGoesOn, DroppedEnds, InitEnds,
CreationSettles, LineIsAnswered, CallReturns), because fairness and ENABLED are
beyond the prover; and the properties of the language, which is written with recursive
operators, as its trees are. Every invariant of every other component is proved.

## 12. Findings

Three runs refute something the repository says of itself.

- `rig_circular_wait` (`device.rs:167`). With a radio switched off behind a port that
  still opens, every poll and every init times out and sends two messages, while
  `select!` may keep preferring the always-ready poll timer. When the message
  channel is full SerialDevice waits for DeviceTask to receive, and DeviceTask waits
  inside a script for SerialDevice to answer. The rig is stuck for good; the radio
  application goes on saying "Rig disconnected - reconnecting" (`app.rs:266`).
- `manager_stale_status` (`manager.rs:196`). UpdateDevice only drops the old device's
  handle. Its last broadcast can come after the new device's first, and the
  status shown then differs from the rig's for good, against "the values are the
  connection state" (`protocol.md:42`).
- `manager_lost_device` (`manager.rs:207`). The new device of an updated rig opens the
  port while the old one still has it. The failure is logged and nothing tries
  again: the rig has no device, while it may still be shown as connected.

Noted while modelling, without a run:

- Nothing discards the port's input after an answer that is not what the script
  expects (`device.rs:362`). Bytes left before an answer shift every later one, no read
  times out, and the rig stays Connected though no poll succeeds, against "Status -
  online/not responding" (`omnirig.md:17`). ReconnectsUnlessStuck excepts it.
- A status variable of an enum type is published as `Value::EnumVariant`
  (PublishedAsDeclared), and so are mode and VFO of the files in `rigs/`; `rigctld.rs:325` and
  `omnirig_provider.rs:209` match `Value::String` only, so that both keep their
  default: `m` always answers USB, and OmniRig's Mode is never known. The IC-7300's
  `cw_pitch` is a Float, which no interface takes, and which its command cannot write.
- Of the lines of rigctld only those that end without a newline parse their last
  argument (`rigctld.rs:317`): `F`, `T`, `S`, `J` and `Z` from a client like `rigctl`
  are answered RPRT 1, though `introduction.md:11` says "drop-in replacement". `M` and `V`
  send the newline along. Sets go to the first rig whatever was selected, and
  "RPRT 0" comes before the rig ran anything; the status is that of all rigs merged.
- After a lag rigctld's loop stops receiving until the next connection is accepted,
  and the OmniRig provider leaves its loop for good (`omnirig_provider.rs:300`).
- A client of the COM server that unadvises in its handler hangs the COM thread
  (`connection_point.rs:99`). One that advises while a sink is unmarshalled misses
  the events drained next, and an Unadvise at that moment is undone
  (`connection_point.rs:69`). A rig that a StatusUpdate makes online is not announced.
  Rigs created after the start have no slot. A frequency is cut to 32 bits.
- In the window OK pressed again before the answer creates a second rig; two updates in
  a row race (`gui.rs:395`, `410`). A draft without a rig type passes `validate`.
- `init` discards the notifications that arrive between its requests (`net.rs:47`). A
  rig that connects after `list_rigs` was answered and before the receiver loop
  runs is shown as disconnected until its status changes again. ViewFollows holds
  with these items excepted (`dropped`).
- A request that a notification cuts short is lost (`server.rs:236`), and `init` waits two
  seconds from the last line, not from the request (`net.rs:36-49`): with notifications more
  often than that it never ends. InitEnds has that as its hypothesis.
- A rig in a circular wait takes no commands any more. When its channel is full the manager
  waits for it and takes no command of any front end (`manager.rs:225`).
- a request given up after two seconds leaves its answer to be taken for the next
  one's (`net.rs:46`); ResponsesPair and ViewFollows except such connections (`late`).
- `list_rigs` has the rigs of the start only (`server.rs:93,164`), where
  `protocol.md:18` has "the available rigs".
- `protocol.md` shows rig ids as strings (lines 54, 99, 130, 154), which
  `get_rig_id` refuses (`types.rs:26-34`); it names `register_status` (line 120) what the
  server calls `subscribe_status`, and UDP (line 12) what is TCP.

## 13. What is not modelled

- The grammar (`parser.rs`'s PEG, its tokens and literals) and the places and wording of
  errors (`parser_errors.rs`): sequential text processing by a generated parser. The
  language starts from the tree.
- The status cache of several rigs: `server.rs:93` and `manager.rs:244` keep what a rig
  that is gone last had, and promise no more. RigDevice has the cache of one rig.
- Between the modules: that RigDevice does only what DeviceManager's devices do is proved;
  but each front end has its own small manager and rigs, which do more than
  DeviceManager and RigDevice do, and that is not shown. In DeviceManager `shown` is what the last
  broadcast said, whoever received it.
- In the form of the window the fields that only a device reads (baud rate and the
  like), layout and drawing;
  in the radio drawing, keys and the parsing of a typed frequency.
- The console application: a second front end of the client library, whose
  connection it shares with the radio; what it adds is line editing and layout.
- Of the COM server custom commands and port bits, which answer a constant or an
  error, the registry, the type library and `main.rs`; the `auto-dispatch` macro and
  the rig test program: Windows I/O, code generation, or a manual tool.
- Time: a timeout is a read that fails when no answer waits, a poll interval is a
  tick at any time, a frame comes at any time.

## 14. The plan

Done: RigDevice, DeviceManager, RpcServer, RpcClient, AppTabs, Rigctld and OmniRig, with
proofs of all their safety properties; three refinements, RigDevice of RigService and of
DeviceManager's device, DeviceManager of RigRegistry, each checked and proved; the
language, model-checked.

1. `RigView` - abstract: what a front end promises its user, a view that is that of some
   past state and follows; RpcClient, Rigctld and OmniRig shown to implement it.
2. RigRegistry over RigService: the requests a client sends to the manager, with
   the manager's queue, as one abstract service of all rigs.
3. The radio's and the console's input of a frequency; the grammar's literals.
