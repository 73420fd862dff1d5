------------------------------ MODULE RigDevice ------------------------------
(***************************************************************************)
(* One rig of HolyRig: the two tokio tasks that serve it, the bounded      *)
(* channels between them, and the serial port they drive.                  *)
(*                                                                         *)
(*   clients --taskQ--> DeviceTask --cmdQ--> SerialDevice --port--> radio  *)
(*                      DeviceTask <--msgs-- SerialDevice                  *)
(*                      DeviceTask <-reply-- SerialDevice                  *)
(*                                                                         *)
(* DeviceTask (serial/device.rs) runs the rig file's scripts: init after   *)
(* every (re)connection, status at every poll tick, a command's script for *)
(* every client request.  A script's write() only enqueues a command for   *)
(* SerialDevice; its read() enqueues one and awaits the answer.            *)
(* SerialDevice executes the commands in order and, when one fails,        *)
(* announces Disconnected, empties its command queue, drops the port and   *)
(* reopens it until that succeeds, then announces Reconnected.             *)
(***************************************************************************)
EXTENDS Naturals, Sequences

CONSTANTS
  Requests,       \* client requests, each submitted at most once
  InitScript,     \* the operations of the rig file's init block
  StatusScript,   \* the operations of its status block
  CommandScript,  \* the operations of the command each request names
  Values,         \* the values the status block may read
  NoValue,        \* no value: not read, not cached, not yet published
  CommandCap,     \* capacity of the channel of serial commands (32)
  MessageCap,     \* capacity of the channel of serial messages (8)
  TaskCap,        \* capacity of the channel of task commands (16)
  MaxFaults       \* bound: the fault counter saturates here, and the link
                  \* worsens only while the counter is below it

(***************************************************************************)
(* A script is the sequence of its port operations: "ask" is a write() the *)
(* radio answers, "tell" a write() it does not answer, "read" a read().    *)
(* In every rig file a read() follows the write() that causes its answer.  *)
(***************************************************************************)
Op == {"ask", "tell", "read"}

IsScript(s) ==
  /\ s \in Seq(Op)
  /\ \A i \in 1..Len(s) :
       /\ s[i] = "read" => i > 1 /\ s[i-1] = "ask"
       /\ s[i] = "ask"  => i < Len(s) /\ s[i+1] = "read"

ASSUME RequestsAssumption ==
  Requests \cap {"none", "init", "poll", "shutdown"} = {}

ASSUME ScriptsAssumption ==
  /\ IsScript(InitScript)
  /\ IsScript(StatusScript)
  \* a poll that reads nothing would report a rig connected without a port
  /\ Len(StatusScript) > 0 /\ StatusScript[Len(StatusScript)] = "read"
  /\ \A r \in Requests : IsScript(CommandScript[r])

ASSUME CapacityAssumption ==
  /\ CommandCap \in Nat \ {0}
  /\ MessageCap \in Nat \ {0}
  /\ TaskCap \in Nat \ {0}
  /\ MaxFaults \in Nat

ASSUME ValuesAssumption == NoValue \notin Values

VARIABLES
  \* the serial line and the radio behind it
  link,       \* "good", "noisy" (garbled answers), "off", "unplugged"
  port,       \* SerialDevice.port: "open", "broken" (its node is gone), "closed"
  air,        \* the write whose answer waits on the port, or NoAnswer
  stray,      \* whether bytes that answer no write wait before it: "some", "none"
  \* SerialDevice
  serial,     \* where SerialDevice::run is
  cmdQ,       \* command_rx
  msgs,       \* message_tx
  reply,      \* the response channel of the read in progress
  faults,     \* handled errors so far (history, saturating)
  \* DeviceTask
  task,       \* where DeviceTask::run is: in a script ("run"), awaiting the
              \* answer to a read ("await"), leaving it with an error
              \* ("failed"), in select! ("idle"), ending ("closing")
  job,        \* the script it runs
  pos,        \* operations of that script already executed
  status,     \* DeviceTask.status
  previous,   \* DeviceTask.previous_values, of one variable
  \* shared with the rest of the program
  cache,      \* status_cache[id], of the same variable
  taskQ,      \* task_command_rx
  handle,     \* the manager's DeviceHandle: "held" or "dropped"
  reqs,       \* what became of each request
  reached     \* per request, the script positions written to an open port
              \* (history)

serialVars == <<serial, cmdQ, msgs, reply, faults>>
taskVars   == <<task, job, pos, status, previous, cache>>
clientVars == <<taskQ, handle, reqs>>
vars == <<link, port, air, stray, serial, cmdQ, msgs, reply, faults, task, job, pos,
          status, previous, cache, taskQ, handle, reqs, reached>>

Jobs == {"init", "poll"} \cup Requests

Script(j) == IF j = "init" THEN InitScript
             ELSE IF j = "poll" THEN StatusScript
             ELSE CommandScript[j]

\* A request refused by a rig that is not connected is never begun.
Answered == {"ok", "error", "refused"}

\* DeviceCommand: Write and ReadExact carry the position they come from
Entry(op, j, i) == [op |-> op, job |-> j, at |-> i]

ShutdownEntry == Entry("shutdown", "none", 0)

NoAnswer == <<"none", 0>>

Init ==
  \* SerialDevice::new has opened the port
  /\ link = "good" /\ port = "open" /\ air = NoAnswer /\ stray = "none"
  /\ serial = "recv" /\ cmdQ = <<>> /\ msgs = <<>> /\ reply = "none"
  /\ faults = 0
  \* DeviceTask::run starts with initialize_and_notify
  /\ task = "run" /\ job = "init" /\ pos = 0
  /\ status = "Connecting" /\ previous = NoValue
  /\ cache \in {NoValue} \cup Values   \* left by an earlier task of this rig
  /\ taskQ = <<>> /\ handle = "held"
  /\ reqs = [r \in Requests |-> "new"]
  /\ reached = [r \in Requests |-> {}]

-----------------------------------------------------------------------------
(* Steps shared by several actions.                                        *)

\* A handled error is counted, as far as the bound goes.
CountFault == faults' = IF faults < MaxFaults THEN faults + 1 ELSE faults

\* An unbounded channel, and a channel that drops what it has no room for.
SendMessageUnbounded(m) == msgs' = IF task = "done" THEN msgs ELSE Append(msgs, m)

TrySendMessage(m) ==
  msgs' = IF task = "done" \/ Len(msgs) = MessageCap THEN msgs ELSE Append(msgs, m)

\* message_tx.send(m).await: waits for room, and is lost once the receiver,
\* DeviceTask, is gone
SendMessage(m) ==
  /\ task = "done" \/ Len(msgs) < MessageCap
  /\ msgs' = IF task = "done" THEN msgs ELSE Append(msgs, m)

Start(j) == task' = "run" /\ job' = j /\ pos' = 0

Idle == task' = "idle" /\ job' = "none" /\ pos' = 0

ScriptEnds == task = "run" /\ pos = Len(Script(job))

-----------------------------------------------------------------------------
(***************************************************************************)
(* Variants of the actions below, each with a mistake that a change of the *)
(* code could bring.  Next uses none of them: they show that the           *)
(* properties at the end of this module notice such a change.              *)
(***************************************************************************)

\* A read that failed stays in the queue to be tried again, although its
\* reader has its answer.
SerialReadRetried ==
  /\ serial = "recv" /\ cmdQ # <<>> /\ Head(cmdQ).op = "read"
  /\ port # "open" \/ air = NoAnswer \/ link = "noisy"
  /\ reply' = "err"
  /\ serial' = "notify" /\ CountFault
  /\ UNCHANGED <<link, port, air, stray, cmdQ, msgs, taskVars, clientVars, reached>>

\* A port that is still there after an error is used on as it is.
SerialKeepsPort ==
  /\ serial = "drain" /\ cmdQ = <<>>
  /\ port' = IF port = "open" THEN port ELSE "closed"
  /\ air'  = IF port = "open" THEN air ELSE NoAnswer
  /\ stray' = IF port = "open" THEN stray ELSE "none"
  /\ serial' = IF port = "open" THEN "announce" ELSE "reopen"
  /\ UNCHANGED <<link, cmdQ, msgs, reply, faults, taskVars, clientVars, reached>>

\* SerialDevice gives up when the port does not reopen at once.
SerialReopenOnce ==
  /\ serial = "reopen"
  /\ port' = IF link # "unplugged" THEN "open" ELSE port
  /\ serial' = IF link # "unplugged" THEN "announce" ELSE "done"
  /\ UNCHANGED <<link, air, stray, cmdQ, msgs, reply, faults, taskVars, clientVars, reached>>

\* Every attempt that fails is announced.
SerialReopenTold ==
  /\ serial = "reopen"
  /\ IF link # "unplugged" THEN port' = "open" /\ serial' = "announce" /\ UNCHANGED msgs
                           ELSE SendMessage("Disconnected") /\ UNCHANGED <<port, serial>>
  /\ UNCHANGED <<link, air, stray, cmdQ, reply, faults, taskVars, clientVars, reached>>

\* SerialDevice ends on Shutdown only.
SerialExitOnShutdown ==
  /\ serial = "recv" /\ cmdQ # <<>> /\ Head(cmdQ).op = "shutdown"
  /\ serial' = "done" /\ cmdQ' = <<>>
  /\ port' = "closed" /\ air' = NoAnswer /\ stray' = "none"
  /\ UNCHANGED <<link, msgs, reply, faults, taskVars, clientVars, reached>>

\* A command that failed is answered with Success, or not at all.
TaskFailsWith(answer) ==
  /\ task = "failed"
  /\ reqs' = IF job \in Requests THEN [reqs EXCEPT ![job] = answer] ELSE reqs
  /\ Idle
  /\ UNCHANGED <<link, port, air, stray, serialVars, status, previous, cache,
                 taskQ, handle, reached>>

TaskFailsHidden == TaskFailsWith("ok")

TaskFailsSilent == TaskFailsWith("running")

\* A script that fails is run again.
TaskScriptRetried ==
  /\ task = "run"
  /\ pos < Len(Script(job)) => Script(job)[pos + 1] # "read"
  /\ Start(job)
  /\ UNCHANGED <<link, port, air, stray, serialVars, status, previous, cache, clientVars, reached>>

\* The end of a rig is noticed before the commands that wait, as if it were
\* signalled beside the channel.
TaskStopAtOnce ==
  /\ task = "idle" /\ handle = "dropped"
  /\ task' = "closing"
  /\ UNCHANGED <<link, port, air, stray, serialVars, job, pos, status,
                 previous, cache, taskQ, handle, reqs, reached>>

\* The values of the first poll are only what later ones are compared with.
TaskPolledBaseline(v) ==
  /\ ScriptEnds /\ job = "poll"
  /\ status' = IF status = "Connecting" THEN "Connected" ELSE status
  /\ cache' = IF v # NoValue /\ previous # NoValue /\ v # previous THEN v ELSE cache
  /\ previous' = v
  /\ Idle
  /\ UNCHANGED <<link, port, air, stray, serialVars, clientVars, reached>>

\* Only the first poll reports the rig connected.
TaskPolledFirst(v) ==
  /\ ScriptEnds /\ job = "poll"
  /\ status' = IF previous = NoValue THEN "Connected" ELSE status
  /\ cache' = IF v # NoValue /\ v # previous THEN v ELSE cache
  /\ previous' = v
  /\ Idle
  /\ UNCHANGED <<link, port, air, stray, serialVars, clientVars, reached>>

-----------------------------------------------------------------------------
(* The serial line: the cable and the radio change state at any time.      *)

LinkImproves(l) ==
  /\ link # "good" /\ l = "good"
  /\ link' = l
  /\ UNCHANGED <<port, air, stray, serialVars, taskVars, clientVars, reached>>

\* A radio switched off may have sent its answer or not; a cable pulled out
\* takes the device node and what was received away.
LinkWorsens(l) ==
  /\ faults < MaxFaults
  /\ l # link /\ l # "good"
  /\ link' = l
  /\ port' = IF l = "unplugged" /\ port = "open" THEN "broken" ELSE port
  /\ air' \in IF l = "unplugged" THEN {NoAnswer}
              ELSE IF l = "off" THEN {air, NoAnswer} ELSE {air}
  /\ stray' = IF l = "unplugged" THEN "none" ELSE stray
  /\ UNCHANGED <<serialVars, taskVars, clientVars, reached>>

\* The radio sends what it was not asked for (a dial is turned, a second answer).
LinkStray ==
  /\ port = "open" /\ link \in {"good", "noisy"} /\ stray = "none"
  /\ stray' = "some"
  /\ UNCHANGED <<link, port, air, serialVars, taskVars, clientVars, reached>>

-----------------------------------------------------------------------------
(* SerialDevice                                                            *)

\* Write, on a port that takes the bytes
SerialWrite ==
  /\ serial = "recv" /\ cmdQ # <<>>
  /\ LET c == Head(cmdQ) IN
       /\ c.op \in {"ask", "tell"}
       /\ port = "open"
       /\ air' = IF c.op = "ask" /\ link \in {"good", "noisy"}
                 THEN <<c.job, c.at>> ELSE air
       /\ reached' = IF c.job \in Requests
                     THEN [reached EXCEPT ![c.job] = @ \cup {c.at}]
                     ELSE reached
  /\ cmdQ' = Tail(cmdQ)
  /\ UNCHANGED <<link, port, stray, serial, msgs, reply, faults, taskVars, clientVars>>

\* Write, on a port whose node is gone: nobody is told but DeviceTask
SerialWriteFails ==
  /\ serial = "recv" /\ cmdQ # <<>> /\ Head(cmdQ).op \in {"ask", "tell"}
  /\ port # "open"
  /\ cmdQ' = Tail(cmdQ)
  /\ serial' = "notify" /\ CountFault
  /\ UNCHANGED <<link, port, air, stray, msgs, reply, taskVars, clientVars, reached>>

\* ReadExact, when as many bytes as the script expects are there: the answer,
\* or part of it behind stray bytes, as many as which are left.  Stray bytes
\* may look like a status answer, but not like the answer to a command, which
\* repeats it.
SerialRead ==
  /\ serial = "recv" /\ cmdQ # <<>> /\ Head(cmdQ).op = "read"
  /\ port = "open"
  /\ air # NoAnswer \/ stray = "some"
  /\ reply' \in IF stray = "none" /\ link # "noisy" THEN {"ok"}
                ELSE IF air # NoAnswer \/ Head(cmdQ).job = "poll" THEN {"ok", "bad"}
                ELSE {"bad"}
  /\ air' = NoAnswer
  /\ stray' \in IF air # NoAnswer /\ link # "noisy" THEN {stray} ELSE {"none", "some"}
  /\ cmdQ' = Tail(cmdQ)
  /\ UNCHANGED <<link, port, serial, msgs, faults, taskVars, clientVars, reached>>

\* ReadExact, failing or timing out: the reader is answered first
SerialReadFails ==
  /\ serial = "recv" /\ cmdQ # <<>> /\ Head(cmdQ).op = "read"
  /\ port # "open" \/ air = NoAnswer \/ link = "noisy"
  /\ reply' = "err"
  /\ cmdQ' = Tail(cmdQ)
  /\ serial' = "notify" /\ CountFault
  /\ UNCHANGED <<link, port, air, stray, msgs, taskVars, clientVars, reached>>

\* handle_error tells DeviceTask first
SerialNotify ==
  /\ serial = "notify"
  /\ SendMessage("Disconnected")
  /\ serial' = "drain"
  /\ UNCHANGED <<link, port, air, stray, cmdQ, reply, faults, taskVars, clientVars, reached>>

\* handle_error: one turn of the try_recv loop; a write or a shutdown is lost
SerialDrain ==
  /\ serial = "drain" /\ cmdQ # <<>>
  /\ reply' = IF Head(cmdQ).op = "read" THEN "err" ELSE reply
  /\ cmdQ' = Tail(cmdQ)
  /\ UNCHANGED <<link, port, air, stray, serial, msgs, faults, taskVars, clientVars, reached>>

\* the try_recv loop ends; attempt_reconnect takes the port
SerialDropPort ==
  /\ serial = "drain" /\ cmdQ = <<>>
  /\ port' = "closed" /\ air' = NoAnswer /\ stray' = "none"
  /\ serial' = "reopen"
  /\ UNCHANGED <<link, cmdQ, msgs, reply, faults, taskVars, clientVars, reached>>

\* attempt_reconnect: open_port succeeds
SerialReopen ==
  /\ serial = "reopen" /\ link # "unplugged"
  /\ port' = "open"
  /\ serial' = "announce"
  /\ UNCHANGED <<link, air, stray, cmdQ, msgs, reply, faults, taskVars, clientVars, reached>>

\* attempt_reconnect ends by telling DeviceTask
SerialAnnounce ==
  /\ serial = "announce"
  /\ SendMessage("Reconnected")
  /\ serial' = "recv"
  /\ UNCHANGED <<link, port, air, stray, cmdQ, reply, faults, taskVars, clientVars, reached>>

\* Shutdown, or every sender of the command channel gone: the task ends, its
\* port closes and its command channel with it
SerialExit ==
  /\ serial = "recv"
  /\ \/ cmdQ # <<>> /\ Head(cmdQ).op = "shutdown"
     \/ cmdQ = <<>> /\ task = "done"
  /\ serial' = "done" /\ cmdQ' = <<>>
  /\ port' = "closed" /\ air' = NoAnswer /\ stray' = "none"
  /\ UNCHANGED <<link, msgs, reply, faults, taskVars, clientVars, reached>>

SerialStep ==
  \/ SerialWrite \/ SerialWriteFails \/ SerialRead \/ SerialReadFails
  \/ SerialNotify \/ SerialDrain \/ SerialDropPort \/ SerialReopen
  \/ SerialAnnounce \/ SerialExit

-----------------------------------------------------------------------------
(* DeviceTask: the script being run                                        *)

\* DeviceExternalApi::write, and the first half of read
TaskSend ==
  /\ task = "run" /\ pos < Len(Script(job))
  /\ Len(cmdQ) < CommandCap
  /\ LET op == Script(job)[pos + 1] IN
       /\ cmdQ' = Append(cmdQ, Entry(op, job, pos + 1))
       /\ IF op = "read" THEN task' = "await" /\ UNCHANGED pos
                        ELSE pos' = pos + 1 /\ UNCHANGED task
  /\ UNCHANGED <<link, port, air, stray, serial, msgs, reply, faults, job,
                 status, previous, cache, clientVars, reached>>

\* read's answer arrives and is what the script expects
TaskReadOk ==
  /\ task = "await" /\ reply = "ok"
  /\ reply' = "none" /\ task' = "run" /\ pos' = pos + 1
  /\ UNCHANGED <<link, port, air, stray, serial, cmdQ, msgs, faults, job,
                 status, previous, cache, clientVars, reached>>

\* read fails, or its answer is not what the script expects
TaskReadFails ==
  /\ task = "await" /\ reply \in {"bad", "err"}
  /\ reply' = "none" /\ task' = "failed"
  /\ UNCHANGED <<link, port, air, stray, serial, cmdQ, msgs, faults, job, pos, status,
                 previous, cache, clientVars, reached>>

\* any other statement of the script fails: error(), a conversion, a parameter.
\* Nothing but the read follows a write that is answered.
TaskScriptFails ==
  /\ task = "run"
  /\ pos < Len(Script(job)) => Script(job)[pos + 1] # "read"
  /\ task' = "failed"
  /\ UNCHANGED <<link, port, air, stray, serialVars, job, pos, status, previous, cache,
                 clientVars, reached>>

\* The script ends with its error: a command is answered with it, init and
\* status only log it.
TaskFails ==
  /\ task = "failed"
  /\ reqs' = IF job \in Requests THEN [reqs EXCEPT ![job] = "error"] ELSE reqs
  /\ Idle
  /\ UNCHANGED <<link, port, air, stray, serialVars, status, previous, cache,
                 taskQ, handle, reached>>

\* initialize_and_notify, and handle_execute_command's answer
TaskScriptEnds ==
  /\ ScriptEnds /\ job # "poll"
  /\ reqs' = IF job \in Requests THEN [reqs EXCEPT ![job] = "ok"] ELSE reqs
  /\ Idle
  /\ UNCHANGED <<link, port, air, stray, serialVars, status, previous, cache,
                 taskQ, handle, reached>>

\* poll_status, after a status block that ended well
TaskPolled(v) ==
  /\ ScriptEnds /\ job = "poll"
  /\ status' = IF status = "Connecting" THEN "Connected" ELSE status
  /\ cache' = IF v # NoValue /\ v # previous THEN v ELSE cache
  /\ previous' = v
  /\ Idle
  /\ UNCHANGED <<link, port, air, stray, serialVars, clientVars, reached>>

-----------------------------------------------------------------------------
(* DeviceTask: the branches of its select!                                 *)

\* poll_interval.tick()
TaskTick ==
  /\ task = "idle"
  /\ Start("poll")
  /\ UNCHANGED <<link, port, air, stray, serialVars, status, previous, cache,
                 clientVars, reached>>

\* ExecuteCommand, on a connected rig
TaskExecute ==
  /\ task = "idle" /\ taskQ # <<>> /\ Head(taskQ) \in Requests
  /\ status = "Connected"
  /\ Start(Head(taskQ))
  /\ taskQ' = Tail(taskQ)
  /\ reqs' = [reqs EXCEPT ![Head(taskQ)] = "running"]
  /\ UNCHANGED <<link, port, air, stray, serialVars, status, previous, cache,
                 handle, reached>>

\* ExecuteCommand, answered with an error at once
TaskRefuse ==
  /\ task = "idle" /\ taskQ # <<>> /\ Head(taskQ) \in Requests
  /\ status # "Connected"
  /\ taskQ' = Tail(taskQ)
  /\ reqs' = [reqs EXCEPT ![Head(taskQ)] = "refused"]
  /\ UNCHANGED <<link, port, air, stray, serialVars, taskVars, handle, reached>>

\* Shutdown, or the manager's sender dropped and nothing left to receive
TaskStop ==
  /\ task = "idle"
  /\ \/ taskQ # <<>> /\ Head(taskQ) = "shutdown"
     \/ taskQ = <<>> /\ handle = "dropped"
  /\ taskQ' = IF taskQ = <<>> THEN <<>> ELSE Tail(taskQ)
  /\ task' = "closing"
  /\ UNCHANGED <<link, port, air, stray, serialVars, job, pos, status,
                 previous, cache, handle, reqs, reached>>

\* serial_command_tx.send(Shutdown).await, then the task ends: the answers
\* of the requests it never took are lost, and both channels close
TaskDone ==
  /\ task = "closing" /\ Len(cmdQ) < CommandCap
  /\ cmdQ' = Append(cmdQ, ShutdownEntry)
  /\ task' = "done"
  /\ taskQ' = <<>> /\ msgs' = <<>>
  /\ reqs' = [r \in Requests |-> IF reqs[r] = "queued" THEN "lost" ELSE reqs[r]]
  /\ UNCHANGED <<link, port, air, stray, serial, reply, faults, job, pos,
                 status, previous, cache, handle, reached>>

\* serial_message_rx: Disconnected
TaskDisconnected ==
  /\ task = "idle" /\ msgs # <<>> /\ Head(msgs) = "Disconnected"
  /\ msgs' = Tail(msgs)
  /\ status' = "Connecting"
  /\ UNCHANGED <<link, port, air, stray, serial, cmdQ, reply, faults, task, job, pos,
                 previous, cache, clientVars, reached>>

\* serial_message_rx: Reconnected, which runs init again
TaskReconnected ==
  /\ task = "idle" /\ msgs # <<>> /\ Head(msgs) = "Reconnected"
  /\ msgs' = Tail(msgs)
  /\ Start("init")
  /\ UNCHANGED <<link, port, air, stray, serial, cmdQ, reply, faults, status,
                 previous, cache, clientVars, reached>>

TaskStep ==
  \/ TaskSend \/ TaskReadOk \/ TaskReadFails \/ TaskScriptFails \/ TaskFails \/ TaskScriptEnds
  \/ \E v \in Values \cup {NoValue} : TaskPolled(v)
  \/ TaskTick \/ TaskExecute \/ TaskRefuse \/ TaskStop \/ TaskDone
  \/ TaskDisconnected \/ TaskReconnected

-----------------------------------------------------------------------------
(* The device manager, as this rig sees it                                 *)

\* ExecuteCommand: a full channel makes the manager wait
Submit(r) ==
  /\ reqs[r] = "new" /\ handle = "held" /\ Len(taskQ) < TaskCap
  /\ taskQ' = Append(taskQ, r)
  /\ reqs' = [reqs EXCEPT ![r] = "queued"]
  /\ UNCHANGED <<link, port, air, stray, serialVars, taskVars, handle, reached>>

\* RemoveDevice sends Shutdown and then drops the handle
RemoveDevice ==
  /\ handle = "held" /\ Len(taskQ) < TaskCap
  /\ taskQ' = Append(taskQ, "shutdown")
  /\ handle' = "dropped"
  /\ UNCHANGED <<link, port, air, stray, serialVars, taskVars, reqs, reached>>

\* UpdateDevice only drops the handle
ReplaceDevice ==
  /\ handle = "held"
  /\ handle' = "dropped"
  /\ UNCHANGED <<link, port, air, stray, serialVars, taskVars, taskQ, reqs, reached>>

Next ==
  \/ \E l \in {"good", "noisy", "off", "unplugged"} :
       LinkImproves(l) \/ LinkWorsens(l)
  \/ LinkStray
  \/ SerialStep
  \/ TaskStep
  \/ \E r \in Requests : Submit(r)
  \/ RemoveDevice
  \/ ReplaceDevice

Spec == Init /\ [][Next]_vars

-----------------------------------------------------------------------------
(* Types and safety                                                        *)

Statuses == {"Connecting", "Connected"}

Entries ==
  [op : Op, job : Jobs, at : Nat \ {0}] \cup {ShutdownEntry}

(***************************************************************************)
(* Every variable stays in its range; in particular no queue exceeds its   *)
(* channel's capacity and DeviceTask.status never becomes Error, the       *)
(* variant that set_status receives only from an error attempt_reconnect   *)
(* never returns.                                                          *)
(***************************************************************************)
TypeOK ==
  /\ link \in {"good", "noisy", "off", "unplugged"}
  /\ port \in {"open", "broken", "closed"}
  /\ air \in (Jobs \X (Nat \ {0})) \cup {NoAnswer}
  /\ stray \in {"none", "some"}
  /\ serial \in {"recv", "notify", "drain", "reopen", "announce", "done"}
  /\ cmdQ \in Seq(Entries) /\ Len(cmdQ) <= CommandCap
  /\ msgs \in Seq({"Disconnected", "Reconnected"}) /\ Len(msgs) <= MessageCap
  /\ reply \in {"none", "ok", "bad", "err"}
  /\ faults \in 0..MaxFaults
  /\ task \in {"run", "await", "failed", "idle", "closing", "done"}
  /\ job \in Jobs \cup {"none"}
  /\ pos \in Nat
  /\ status \in Statuses
  /\ previous \in Values \cup {NoValue}
  /\ cache \in Values \cup {NoValue}
  /\ taskQ \in Seq(Requests \cup {"shutdown"}) /\ Len(taskQ) <= TaskCap
  /\ handle \in {"held", "dropped"}
  /\ reqs \in [Requests -> {"new", "queued", "running", "lost"} \cup Answered]
  /\ reached \in [Requests -> SUBSET (Nat \ {0})]

(***************************************************************************)
(* DeviceExternalApi::read never waits for an answer nobody will give, and *)
(* never receives that of another read: while DeviceTask awaits, either    *)
(* the answer is there or its read is the last command of the queue, and   *)
(* at no other time is there a read or an answer.  The read may meet an    *)
(* error, the drain, a reconnection, or be queued after the drain.         *)
(***************************************************************************)
ReadsPaired ==
  /\ task = "await" => \/ reply # "none"
                       \/ cmdQ # <<>> /\ cmdQ[Len(cmdQ)].op = "read"
  /\ reply # "none" => task = "await"
  /\ \A i \in 1..Len(cmdQ) :
       cmdQ[i].op = "read" => i = Len(cmdQ) /\ task = "await" /\ reply = "none"

(***************************************************************************)
(* What the radio sent is only ever consumed by the read that follows the  *)
(* write it answers, in the same run of the script: an answer waits on a   *)
(* port in use only while that script is at that write.  After a timeout,  *)
(* a garbled answer or a drained write no later read picks up the older    *)
(* answer, since the port is reopened before the next command is taken.    *)
(* The radio answers before the timeout or not at all; what it sends after *)
(* it is LinkStray, a byte nobody asked for.                               *)
(***************************************************************************)
AnswersOwnWrite ==
  serial = "recv" /\ air # NoAnswer
    => task \in {"run", "await"} /\ reply = "none" /\ air = <<job, pos>>

(***************************************************************************)
(* While SerialDevice has lost its port and the rig still counts as        *)
(* Connected, the news is on its way: the last message of the channel is   *)
(* Disconnected.  A poll cannot have reported the rig Connected in between.*)
(***************************************************************************)
LossIsAnnounced ==
  status = "Connected" /\ serial \in {"drain", "reopen", "announce"} /\ task # "done"
    => msgs # <<>> /\ msgs[Len(msgs)] = "Disconnected"

(***************************************************************************)
(* No write of a client's command is ever repeated: one lost in an outage  *)
(* is lost, and what waits in the queue has not been written before.       *)
(***************************************************************************)
NeverReplayed ==
  \A i \in 1..Len(cmdQ) :
    cmdQ[i].op \in {"ask", "tell"} /\ cmdQ[i].job \in Requests
      => cmdQ[i].at \notin reached[cmdQ[i].job]

(***************************************************************************)
(* A command answered with Success whose every write is acknowledged by    *)
(* the radio (no "tell") has reached it completely, whatever happened to   *)
(* the port while the command ran.                                         *)
(***************************************************************************)
SuccessIsDelivered ==
  \A r \in Requests :
    reqs[r] = "ok" =>
      \A i \in 1..Len(CommandScript[r]) :
        CommandScript[r][i] = "ask" => i \in reached[r]

(***************************************************************************)
(* The two tasks wait on each other for ever when SerialDevice cannot send *)
(* a message because the channel is full, and DeviceTask cannot empty it   *)
(* because it awaits a read that SerialDevice has not executed or waits    *)
(* for room in the command channel.                                        *)
(***************************************************************************)
CircularWait ==
  /\ serial \in {"notify", "announce"} /\ Len(msgs) = MessageCap
  /\ \/ task = "await" /\ reply = "none"
     \/ /\ task = "run" /\ pos < Len(Script(job))
        /\ Len(cmdQ) = CommandCap
     \/ task = "closing" /\ Len(cmdQ) = CommandCap

(***************************************************************************)
(* The circular wait needs the port to fail often enough to fill the       *)
(* message channel: an error sends two messages, so with the capacity of 8 *)
(* at least five errors must have been handled.                            *)
(***************************************************************************)
CircularWaitNeedsFaults ==
  CircularWait => faults = MaxFaults \/ MessageCap + 1 <= 2 * faults

(***************************************************************************)
(* status_cache holds the value of the last successful poll, whatever      *)
(* changes the polls before it saw.                                        *)
(***************************************************************************)
CacheHoldsLastPoll == previous # NoValue => cache = previous

(***************************************************************************)
(* SerialDevice ends only after DeviceTask: DeviceTask never meets a       *)
(* closed serial channel, so its "Serial I/O task exited" branch and the   *)
(* "Failed to send" errors of a script cannot happen.                      *)
(***************************************************************************)
SerialOutlivesTask == serial = "done" => task = "done"

-----------------------------------------------------------------------------
(* Fairness and liveness                                                   *)

\* DeviceTask goes on with what it has begun
TaskContinues ==
  \/ TaskSend \/ TaskReadOk \/ TaskReadFails \/ TaskFails \/ TaskScriptEnds \/ TaskDone
  \/ \E v \in Values \cup {NoValue} : TaskPolled(v)

(***************************************************************************)
(* The runtime schedules both tasks.  tokio::select! picks at random among *)
(* its ready branches, so that a branch that is ready again and again is   *)
(* taken in the end: strong fairness.  The poll timer is always ready in   *)
(* the end.  Nothing is assumed of clients, manager, cable and radio.      *)
(***************************************************************************)
FairSpec ==
  /\ Spec
  /\ WF_vars(SerialStep)
  /\ WF_vars(TaskContinues)
  /\ SF_vars(TaskTick)
  /\ SF_vars(TaskExecute \/ TaskRefuse \/ TaskStop)
  /\ SF_vars(TaskDisconnected \/ TaskReconnected)

\* The link ends up good.
LinkRecovers == <>[](link = "good")

\* A drain that takes the write and leaves its read: the read then times out
\* on the reopened port, which is one more error.  Each needs DeviceTask to
\* send between two turns of the drain loop.
DrainTakesWrite == SerialDrain /\ Head(cmdQ).op = "ask"

Settles == <>[][~DrainTakesWrite /\ ~TaskScriptFails]_vars

\* Nothing but answers arrives in the end; and bytes that nobody asked for stay
\* on the port for ever.
GetsQuiet == <>[][~LinkStray]_vars

StaysMisread == <>[](stray = "some")

(***************************************************************************)
(* Once the cable and the radio work for good, the rig is Connected again  *)
(* and again (unless it is removed): what the radio application promises   *)
(* with "Rig disconnected - reconnecting".                                 *)
(***************************************************************************)
Reconnects ==
  LinkRecovers /\ GetsQuiet /\ Settles
    => []<>(status = "Connected" \/ task = "done") \/ StaysMisread

(***************************************************************************)
(* The circular wait of the two tasks, and bytes on the port that belong   *)
(* to no answer, are all that can prevent it.                              *)
(***************************************************************************)
ReconnectsUnlessStuck ==
  LinkRecovers /\ GetsQuiet /\ Settles
    => \/ []<>(status = "Connected" \/ task = "done")
       \/ StaysMisread \/ <>CircularWait

(***************************************************************************)
(* Every request given to the rig is answered once the link works: its     *)
(* answer channel does not just close, although the rig may be removed or  *)
(* replaced at any time, and the drain may race with DeviceTask for ever.  *)
(***************************************************************************)
RequestsAnswered ==
  LinkRecovers
    => (\A r \in Requests : reqs[r] = "queued" ~> reqs[r] \in Answered) \/ <>CircularWait

(***************************************************************************)
(* A removed or replaced rig releases its port and both tasks end once     *)
(* the link works, even if the drain takes the Shutdown command.           *)
(***************************************************************************)
RemovedRigEnds ==
  LinkRecovers
    => (handle = "dropped" ~> serial = "done" /\ port = "closed") \/ <>CircularWait
=============================================================================
