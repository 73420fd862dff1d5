------------------------- MODULE RigDeviceInvariant -------------------------
(***************************************************************************)
(* The inductive invariant of RigDevice, in the parts its proofs use.      *)
(***************************************************************************)
EXTENDS RigDevice

InScript == task \in {"run", "await"}

\* DeviceTask's own state: which script it is in, and where.
TaskConsistent ==
  /\ InScript \/ task = "failed" => job \in Jobs
  /\ InScript => pos <= Len(Script(job))
  /\ task = "await" => pos < Len(Script(job)) /\ Script(job)[pos + 1] = "read"
  /\ ~InScript /\ task # "failed" => job = "none"

\* Every queued command is an operation of a script.  One that is answered
\* belongs to the operation DeviceTask is at; a read is the last in the queue.
QueueFromTask ==
  \A i \in 1..Len(cmdQ) :
    /\ cmdQ[i].op = "shutdown" => task = "done"
    /\ cmdQ[i].op \in Op => /\ cmdQ[i].at <= Len(Script(cmdQ[i].job))
                            /\ cmdQ[i].op = Script(cmdQ[i].job)[cmdQ[i].at]
    /\ cmdQ[i].op = "ask"  => /\ InScript /\ reply = "none"
                              /\ job = cmdQ[i].job /\ pos = cmdQ[i].at
    /\ cmdQ[i].op = "read" => /\ i = Len(cmdQ)
                              /\ task = "await" /\ reply = "none"
                              /\ job = cmdQ[i].job /\ pos + 1 = cmdQ[i].at

\* A read in progress is in the queue or answered, and after a successful one
\* SerialDevice has nothing to do and its port.
ReplyConsistent ==
  /\ reply # "none" => task = "await"
  /\ task = "await" /\ reply = "none" => cmdQ # <<>> /\ cmdQ[Len(cmdQ)].op = "read"
  /\ reply \in {"ok", "bad"} => serial = "recv" /\ cmdQ = <<>>
  /\ task = "run" /\ pos > 0 /\ Script(job)[pos] = "read"
       => serial = "recv" /\ cmdQ = <<>>

\* An answer waiting on a port in use belongs to the last write of the script
\* being run, which waits for it.
AirConsistent ==
  /\ serial \in {"reopen", "announce"} => air = NoAnswer
  /\ serial = "recv" /\ air # NoAnswer
       => /\ InScript /\ reply = "none"
          /\ air = <<job, pos>> /\ pos > 0
          /\ Script(job)[pos] = "ask"
          /\ job \in Requests => pos \in reached[job]

Recovering == serial \in {"drain", "reopen", "announce"}

\* LossIsAnnounced, by itself inductive given ReplyConsistent.
LossConsistent ==
  Recovering /\ task # "done" =>
    \/ status = "Connecting"
    \/ msgs # <<>> /\ msgs[Len(msgs)] = "Disconnected"

\* The messages of a handled error that are not sent yet.
Unsent == IF serial = "notify" THEN 2 ELSE IF Recovering THEN 1 ELSE 0

FaultsConsistent ==
  faults < MaxFaults => Len(msgs) + Unsent <= 2 * faults

\* Where each request is: a request is queued once, its script is started
\* once, and nothing of it is written before or if it is refused.
RequestsConsistent ==
  /\ \A r \in Requests : reqs[r] \in {"new", "queued", "refused"} =>
       reached[r] = {} /\ \A i \in 1..Len(cmdQ) : cmdQ[i].job # r
  /\ \A i \in 1..Len(taskQ) : taskQ[i] \in Requests => reqs[taskQ[i]] = "queued"
  /\ \A i, j \in 1..Len(taskQ) :
       i < j /\ taskQ[i] \in Requests => taskQ[i] # taskQ[j]
  /\ job \in Requests => reqs[job] = "running"

\* No request is lost: one accepted is in the channel or being run, and no
\* request is accepted after Shutdown or once the handle is dropped.
AcceptedConsistent ==
  /\ \A r \in Requests : /\ reqs[r] # "lost"
                         /\ reqs[r] = "running" => job = r
                         /\ reqs[r] = "queued" => \E i \in 1..Len(taskQ) : taskQ[i] = r
  /\ \A i \in 1..Len(taskQ) :
       taskQ[i] = "shutdown" => i = Len(taskQ) /\ handle = "dropped"
  /\ task \in {"closing", "done"} => taskQ = <<>> /\ handle = "dropped"

IsWrite(c) == c.op \in {"ask", "tell"} /\ c.job \in Requests

\* The writes of a request reach the port in the order of its script, and
\* those still queued come after those written.
WritesConsistent ==
  /\ job \in Requests => \A k \in reached[job] : k <= pos
  /\ \A i \in 1..Len(cmdQ) : IsWrite(cmdQ[i]) =>
       /\ cmdQ[i].job = job => cmdQ[i].at <= pos
       /\ \A k \in reached[cmdQ[i].job] : k < cmdQ[i].at
       /\ \A j \in 1..Len(cmdQ) :
            i < j /\ cmdQ[j].job = cmdQ[i].job /\ IsWrite(cmdQ[j])
              => cmdQ[i].at < cmdQ[j].at

\* Writes left by earlier requests are queued before those of the one being run.
WritesInTurn ==
  job \in Requests =>
    \A i \in 1..Len(cmdQ) : cmdQ[i].job \in Requests /\ cmdQ[i].job # job =>
      /\ reached[job] = {}
      /\ \A j \in 1..i : cmdQ[j].job # job

\* A read that succeeded proves that the write before it was delivered.
DeliveryConsistent ==
  /\ job \in Requests =>
       \A i \in 1..pos : Script(job)[i] = "read" => i - 1 \in reached[job]
  /\ job \in Requests /\ reply = "ok" => pos \in reached[job]
  /\ SuccessIsDelivered

\* SerialDevice has its port, or a dead file, but while it reopens it.
PortConsistent ==
  serial \in {"recv", "notify", "drain", "announce"} => port # "closed"

IInv ==
  /\ TypeOK
  /\ TaskConsistent
  /\ QueueFromTask
  /\ ReplyConsistent
  /\ AirConsistent
  /\ LossConsistent
  /\ FaultsConsistent
  /\ RequestsConsistent
  /\ AcceptedConsistent
  /\ WritesConsistent
  /\ WritesInTurn
  /\ DeliveryConsistent
  /\ CacheHoldsLastPoll
  /\ SerialOutlivesTask
  /\ PortConsistent
=============================================================================
