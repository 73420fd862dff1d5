--------------------------- MODULE RigDeviceProofs ---------------------------
(***************************************************************************)
(* Proofs about RigDevice.                                                 *)
(***************************************************************************)
EXTENDS RigDeviceInvariant, RigDeviceService, RigDeviceManaged, FiniteSetTheorems, TLAPS

LEMMA ScriptType ==
  ASSUME NEW j \in Jobs
  PROVE  IsScript(Script(j)) /\ Script(j) \in Seq(Op) /\ Len(Script(j)) \in Nat
BY ScriptsAssumption DEF Jobs, Script, IsScript

\* A write that is answered is followed by its read, and a read follows one.
LEMMA AskThenRead ==
  ASSUME NEW j \in Jobs, NEW i \in 1..Len(Script(j))
  PROVE  /\ Script(j)[i] = "ask"  => i < Len(Script(j)) /\ Script(j)[i+1] = "read"
         /\ Script(j)[i] = "read" => i > 1 /\ Script(j)[i-1] = "ask"
<1>1. IsScript(Script(j))
  BY ScriptType
<1> HIDE DEF Script
<1> QED BY <1>1 DEF IsScript

USE CapacityAssumption
    DEF Answered, NoAnswer, Statuses, Entry, ShutdownEntry, vars, serialVars,
        taskVars, clientVars, Start, Idle, CountFault, ScriptEnds,
        SendMessage, InScript

\* Taking the first element of a sequence of several leaves the last in place.
LEMMA TailKeepsLast ==
  ASSUME NEW S, NEW s \in Seq(S), s # <<>>, Len(s) # 1
  PROVE  Tail(s) # <<>> /\ Tail(s)[Len(Tail(s))] = s[Len(s)]
<1>1. Len(s) \in Nat /\ Len(s) # 0
  OBVIOUS
<1>2. /\ Tail(s) \in Seq(S) /\ Len(Tail(s)) = Len(s) - 1
      /\ \A i \in 1..Len(s) - 1 : Tail(s)[i] = s[i + 1]
  OBVIOUS
<1> QED BY <1>1, <1>2

-----------------------------------------------------------------------------
(* Type correctness.                                                       *)

LEMMA TypeInit == Init => TypeOK
BY DEF Init, TypeOK, Jobs

LEMMA TaskInit == Init => TaskConsistent
BY ScriptType DEF Init, TaskConsistent, Jobs

LEMMA TypeStep == TypeOK /\ TaskConsistent /\ [Next]_vars => TypeOK'
<1> SUFFICES ASSUME TypeOK, TaskConsistent, [Next]_vars
             PROVE  TypeOK'
  OBVIOUS
<1> USE DEF TypeOK
<1>1. ASSUME NEW l \in {"good", "noisy", "off", "unplugged"}, LinkImproves(l)
      PROVE  TypeOK'
  BY <1>1 DEF LinkImproves
<1>2. ASSUME NEW l \in {"good", "noisy", "off", "unplugged"}, LinkWorsens(l)
      PROVE  TypeOK'
  BY <1>2 DEF LinkWorsens
<1>3. CASE SerialWrite
  BY <1>3, SMTT(20) DEF SerialWrite, Entries
<1>4. CASE SerialWriteFails
  BY <1>4 DEF SerialWriteFails
<1>5. CASE SerialRead
  BY <1>5 DEF SerialRead
<1>6. CASE SerialReadFails
  BY <1>6 DEF SerialReadFails
<1>7. CASE SerialNotify
  BY <1>7 DEF SerialNotify
<1>8. CASE SerialDrain
  BY <1>8 DEF SerialDrain
<1>9. CASE SerialDropPort
  BY <1>9 DEF SerialDropPort
<1>10. CASE SerialReopen
  BY <1>10 DEF SerialReopen
<1>11. CASE SerialAnnounce
  BY <1>11 DEF SerialAnnounce
<1>12. CASE SerialExit
  BY <1>12 DEF SerialExit
<1>13. CASE TaskSend
  <2>1. /\ job \in Jobs /\ Script(job)[pos + 1] \in Op
        /\ Len(cmdQ) < CommandCap
        /\ cmdQ' = Append(cmdQ, [op |-> Script(job)[pos + 1], job |-> job, at |-> pos + 1])
    BY <1>13, ScriptType DEF TaskSend, TaskConsistent
  <2>2. cmdQ' \in Seq(Entries) /\ Len(cmdQ') <= CommandCap
    BY <2>1 DEF Entries
  <2>3. task' \in {"run", "await"} /\ pos' \in Nat
    BY <1>13 DEF TaskSend
  <2>4. UNCHANGED <<link, port, air, stray, serial, msgs, reply, faults, job, status, previous,
                    cache, taskQ, handle, reqs, reached>>
    BY <1>13 DEF TaskSend
  <2> QED BY <2>2, <2>3, <2>4
<1>14. CASE TaskReadOk
  BY <1>14 DEF TaskReadOk
<1>15. CASE TaskReadFails
  BY <1>15 DEF TaskReadFails
<1>16. CASE TaskScriptFails
  BY <1>16 DEF TaskScriptFails
<1>31. CASE TaskFails
  BY <1>31 DEF TaskFails
<1>17. CASE TaskScriptEnds
  BY <1>17 DEF TaskScriptEnds
<1>18. ASSUME NEW v \in Values \cup {NoValue}, TaskPolled(v)
       PROVE  TypeOK'
  BY <1>18 DEF TaskPolled
<1>19. CASE TaskTick
  BY <1>19 DEF TaskTick, Jobs
<1>20. CASE TaskExecute
  BY <1>20 DEF TaskExecute, Jobs
<1>21. CASE TaskRefuse
  BY <1>21 DEF TaskRefuse
<1>22. CASE TaskStop
  BY <1>22 DEF TaskStop
<1>23. CASE TaskDone
  BY <1>23 DEF TaskDone, Entries
<1>24. CASE TaskDisconnected
  BY <1>24 DEF TaskDisconnected
<1>25. CASE TaskReconnected
  BY <1>25 DEF TaskReconnected, Jobs
<1>26. ASSUME NEW r \in Requests, Submit(r)
       PROVE  TypeOK'
  BY <1>26 DEF Submit
<1>27. CASE RemoveDevice
  BY <1>27 DEF RemoveDevice
<1>28. CASE ReplaceDevice
  BY <1>28 DEF ReplaceDevice
<1>29. CASE UNCHANGED vars
  BY <1>29
<1>30. CASE LinkStray
  BY <1>30 DEF LinkStray
<1> QED
  BY <1>30, <1>31, <1>1, <1>2, <1>3, <1>4, <1>5, <1>6, <1>7, <1>8, <1>9, <1>10, <1>11, <1>12,
     <1>13, <1>14, <1>15, <1>16, <1>17, <1>18, <1>19, <1>20, <1>21, <1>22, <1>23,
     <1>24, <1>25, <1>26, <1>27, <1>28, <1>29 DEF Next, SerialStep, TaskStep

LEMMA TaskStepConsistent == TypeOK /\ TaskConsistent /\ [Next]_vars => TaskConsistent'
<1> SUFFICES ASSUME TypeOK, TaskConsistent, [Next]_vars
             PROVE  TaskConsistent'
  OBVIOUS
<1> USE DEF TaskConsistent
<1>1. CASE UNCHANGED <<task, job, pos>>
  BY <1>1 DEF Script
<1>2. CASE TaskSend
  BY <1>2, ScriptType, SMTT(20) DEF TaskSend, Script, TypeOK
<1>3. CASE TaskReadOk
  BY <1>3, ScriptType DEF TaskReadOk, Script, TypeOK
<1>4. CASE TaskReadFails \/ TaskScriptFails \/ TaskFails \/ TaskScriptEnds \/ TaskStop \/ TaskDone
           \/ \E v \in Values \cup {NoValue} : TaskPolled(v)
  BY <1>4 DEF TaskReadFails, TaskScriptFails, TaskFails, TaskScriptEnds, TaskPolled, TaskStop, TaskDone
<1>5. CASE TaskTick \/ TaskExecute \/ TaskReconnected
  BY <1>5, ScriptType DEF TaskTick, TaskExecute, TaskReconnected, Jobs
<1> QED
  BY <1>1, <1>2, <1>3, <1>4, <1>5
  DEF Next, SerialStep, TaskStep, LinkImproves, LinkWorsens, LinkStray, SerialWrite,
      SerialWriteFails, SerialRead, SerialReadFails, SerialNotify, SerialDrain,
      SerialDropPort, SerialReopen, SerialAnnounce, SerialExit, TaskRefuse,
      TaskDisconnected, Submit, RemoveDevice, ReplaceDevice

(* Every variable of a rig keeps its type in every behaviour, and no queue *)
(* exceeds the capacity of its channel.                                    *)
THEOREM TypeCorrect == Spec => []TypeOK
<1>1. Init => TypeOK /\ TaskConsistent
  BY TypeInit, TaskInit
<1>2. TypeOK /\ TaskConsistent /\ [Next]_vars => (TypeOK /\ TaskConsistent)'
  BY TypeStep, TaskStepConsistent
<1> QED BY <1>1, <1>2, PTL DEF Spec

-----------------------------------------------------------------------------
(* The queue of serial commands.                                           *)

LEMMA QueueInit == Init => QueueFromTask
BY DEF Init, QueueFromTask

LEMMA QueueStep ==
  TypeOK /\ TaskConsistent /\ QueueFromTask /\ ReplyConsistent /\ [Next]_vars
    => QueueFromTask'
<1> SUFFICES ASSUME TypeOK, TaskConsistent, QueueFromTask, ReplyConsistent, [Next]_vars
             PROVE  QueueFromTask'
  OBVIOUS
<1>0. /\ cmdQ \in Seq(Entries) /\ pos \in Nat
      /\ \A i \in 1..Len(cmdQ) : cmdQ[i] \in Entries
  BY DEF TypeOK
<1>1. CASE UNCHANGED <<cmdQ, task, job, pos, reply>>
  BY <1>1 DEF QueueFromTask, Script
<1>2. CASE SerialWrite \/ SerialWriteFails
  <2>1. cmdQ # <<>> /\ cmdQ' = Tail(cmdQ) /\ UNCHANGED <<task, job, pos, reply>>
    BY <1>2 DEF SerialWrite, SerialWriteFails
  <2> QED BY <1>0, <2>1 DEF QueueFromTask, Script
<1>3. CASE SerialRead \/ SerialReadFails
  <2>1. cmdQ # <<>> /\ cmdQ[1].op = "read" /\ cmdQ' = Tail(cmdQ)
    BY <1>3, <1>0 DEF SerialRead, SerialReadFails
  <2>2. cmdQ' = <<>>
    BY <1>0, <2>1 DEF QueueFromTask
  <2> QED BY <2>2 DEF QueueFromTask
<1>4. CASE SerialDrain
  <2>1. cmdQ # <<>> /\ cmdQ' = Tail(cmdQ) /\ UNCHANGED <<task, job, pos>>
    BY <1>4 DEF SerialDrain
  <2>2. CASE Head(cmdQ).op = "read"
    <3>1. cmdQ' = <<>>
      BY <1>0, <2>1, <2>2 DEF QueueFromTask
    <3> QED BY <3>1 DEF QueueFromTask
  <2>3. CASE Head(cmdQ).op # "read"
    <3>1. UNCHANGED reply
      BY <1>4, <2>3 DEF SerialDrain
    <3> QED BY <1>0, <2>1, <3>1 DEF QueueFromTask, Script
  <2> QED BY <2>2, <2>3
<1>5. CASE SerialExit
  BY <1>5 DEF SerialExit, QueueFromTask
<1>6. CASE TaskSend
  <2> DEFINE op == Script(job)[pos + 1]
             e  == [op |-> op, job |-> job, at |-> pos + 1]
  <2>1. /\ job \in Jobs /\ pos + 1 \in 1..Len(Script(job)) /\ op \in Op
        /\ task = "run" /\ reply = "none" /\ reply' = reply /\ job' = job
        /\ cmdQ' = Append(cmdQ, e)
    BY <1>6, <1>0, ScriptType DEF TaskSend, TaskConsistent, ReplyConsistent
  <2>2. \A i \in 1..Len(cmdQ) : cmdQ[i].op # "read"
    BY <2>1 DEF QueueFromTask
  <2>3. ASSUME NEW i \in 1..Len(cmdQ), cmdQ[i].op = "ask"
        PROVE  op = "read" /\ job = cmdQ[i].job /\ pos = cmdQ[i].at
    <3>1. /\ cmdQ[i].job = job /\ cmdQ[i].at = pos /\ pos \in 1..Len(Script(job))
          /\ Script(job)[pos] = "ask"
      BY <1>0, <2>1, <2>3, ScriptType DEF QueueFromTask, Op, Entries
    <3> QED BY <2>1, <3>1, AskThenRead
  <2>4. CASE op = "read"
    <3>1. task' = "await" /\ pos' = pos
      BY <1>6, <2>4 DEF TaskSend
    <3> QED BY <1>0, <2>1, <2>2, <2>3, <2>4, <3>1 DEF QueueFromTask, Script, Op
  <2>5. CASE op # "read"
    <3>1. task' = task /\ pos' = pos + 1
      BY <1>6, <2>5 DEF TaskSend
    <3>2. \A i \in 1..Len(cmdQ) : cmdQ[i].op # "ask"
      BY <2>3, <2>5
    <3> QED BY <1>0, <2>1, <2>2, <3>2, <2>5, <3>1 DEF QueueFromTask, Script, Op
  <2> QED BY <2>4, <2>5
<1>7. CASE TaskReadOk \/ TaskReadFails \/ TaskFails
  BY <1>7 DEF TaskReadOk, TaskReadFails, TaskFails, QueueFromTask, ReplyConsistent, Script
<1>8. CASE TaskScriptFails \/ TaskScriptEnds \/ \E v \in Values \cup {NoValue} : TaskPolled(v)
  <2>1. /\ task = "run" /\ job \in Jobs
        /\ pos < Len(Script(job)) => Script(job)[pos + 1] # "read"
        /\ UNCHANGED cmdQ
    BY <1>8, <1>0, ScriptType DEF TaskScriptFails, TaskScriptEnds, TaskPolled, TaskConsistent
  <2>2. \A i \in 1..Len(cmdQ) : cmdQ[i].op # "ask" /\ cmdQ[i].op # "read"
    <3> SUFFICES ASSUME NEW i \in 1..Len(cmdQ), cmdQ[i].op = "ask"
                 PROVE  FALSE
      BY <2>1 DEF QueueFromTask
    <3>1. /\ cmdQ[i].job = job /\ cmdQ[i].at = pos /\ pos \in 1..Len(Script(job))
          /\ Script(job)[pos] = "ask"
      BY <1>0, <2>1, ScriptType DEF QueueFromTask, Op, Entries
    <3> QED BY <2>1, <3>1, AskThenRead
  <2> QED BY <2>1, <2>2 DEF QueueFromTask, Script
<1>9. CASE TaskTick \/ TaskExecute \/ TaskReconnected \/ TaskStop
  BY <1>9 DEF TaskTick, TaskExecute, TaskReconnected, TaskStop, QueueFromTask, Script
<1>10. CASE TaskDone
  BY <1>10, <1>0 DEF TaskDone, QueueFromTask, Script, Op
<1> QED
  BY <1>1, <1>2, <1>3, <1>4, <1>5, <1>6, <1>7, <1>8, <1>9, <1>10
  DEF Next, SerialStep, TaskStep, LinkImproves, LinkWorsens, LinkStray, SerialNotify,
      SerialDropPort, SerialReopen, SerialAnnounce, TaskRefuse,
      TaskDisconnected, Submit, RemoveDevice, ReplaceDevice

-----------------------------------------------------------------------------
(* The read in progress.                                                   *)

LEMMA ReplyInit == Init => ReplyConsistent
BY DEF Init, ReplyConsistent

LEMMA ReplyStep ==
  TypeOK /\ TaskConsistent /\ QueueFromTask /\ ReplyConsistent /\ [Next]_vars
    => ReplyConsistent'
<1> SUFFICES ASSUME TypeOK, TaskConsistent, QueueFromTask, ReplyConsistent, [Next]_vars
             PROVE  ReplyConsistent'
  OBVIOUS
<1>0. cmdQ \in Seq(Entries) /\ pos \in Nat /\ reply \in {"none", "ok", "bad", "err"}
  BY DEF TypeOK
<1>1. CASE UNCHANGED <<cmdQ, task, job, pos, reply, serial>>
  BY <1>1 DEF ReplyConsistent, Script
<1>2. CASE SerialWrite \/ SerialWriteFails
  <2>1. /\ cmdQ # <<>> /\ cmdQ' = Tail(cmdQ) /\ UNCHANGED <<task, job, pos, reply>>
        /\ cmdQ[1].op # "read"
    BY <1>2, <1>0 DEF SerialWrite, SerialWriteFails
  <2>2. reply \notin {"ok", "bad"} /\ ~(task = "run" /\ pos > 0 /\ Script(job)[pos] = "read")
    BY <2>1 DEF ReplyConsistent
  <2>3. reply # "none" => task = "await"
    BY DEF ReplyConsistent
  <2>4. task = "await" /\ reply = "none" => cmdQ' # <<>> /\ cmdQ'[Len(cmdQ')].op = "read"
    BY <1>0, <2>1, TailKeepsLast DEF ReplyConsistent
  <2> QED BY <2>1, <2>2, <2>3, <2>4 DEF ReplyConsistent, Script
<1>3. CASE SerialRead \/ SerialReadFails
  <2>1. /\ cmdQ # <<>> /\ cmdQ[1].op = "read" /\ cmdQ' = Tail(cmdQ) /\ serial = "recv"
        /\ UNCHANGED <<task, job, pos>>
        /\ \/ reply' \in {"ok", "bad"} /\ serial' = serial
           \/ reply' = "err"
    BY <1>3, <1>0 DEF SerialRead, SerialReadFails
  <2>2. cmdQ' = <<>> /\ task = "await"
    BY <1>0, <2>1 DEF QueueFromTask
  <2> QED BY <2>1, <2>2 DEF ReplyConsistent
<1>4. CASE SerialDrain
  <2>1. cmdQ # <<>> /\ cmdQ' = Tail(cmdQ) /\ UNCHANGED <<task, job, pos, serial>>
    BY <1>4 DEF SerialDrain
  <2>2. CASE Head(cmdQ).op = "read"
    <3>1. cmdQ' = <<>> /\ task = "await" /\ reply' = "err"
      BY <1>0, <1>4, <2>1, <2>2 DEF QueueFromTask, SerialDrain
    <3> QED BY <3>1, <2>1 DEF ReplyConsistent
  <2>3. CASE Head(cmdQ).op # "read"
    <3>1. UNCHANGED reply
      BY <1>4, <2>3 DEF SerialDrain
    <3>2. reply \notin {"ok", "bad"} /\ ~(task = "run" /\ pos > 0 /\ Script(job)[pos] = "read")
      BY <2>1 DEF ReplyConsistent
    <3>3. reply # "none" => task = "await"
      BY DEF ReplyConsistent
    <3>4. task = "await" /\ reply = "none" => cmdQ' # <<>> /\ cmdQ'[Len(cmdQ')].op = "read"
      BY <1>0, <2>1, <2>3, TailKeepsLast DEF ReplyConsistent
    <3> QED BY <2>1, <3>1, <3>2, <3>3, <3>4 DEF ReplyConsistent, Script
  <2> QED BY <2>2, <2>3
<1>5. CASE SerialExit
  <2>1. task = "done"
    BY <1>0, <1>5 DEF SerialExit, QueueFromTask
  <2> QED BY <1>5, <2>1 DEF SerialExit, ReplyConsistent
<1>6. CASE SerialNotify \/ SerialDropPort \/ SerialReopen \/ SerialAnnounce
  BY <1>6 DEF SerialNotify, SerialDropPort, SerialReopen, SerialAnnounce, ReplyConsistent, Script
<1>7. CASE TaskSend
  <2> DEFINE op == Script(job)[pos + 1]
             e  == [op |-> op, job |-> job, at |-> pos + 1]
  <2>1. /\ job \in Jobs /\ op \in Op /\ task = "run" /\ reply = "none"
        /\ UNCHANGED <<reply, serial, job>>
        /\ cmdQ' = Append(cmdQ, e)
    BY <1>7, <1>0, ScriptType DEF TaskSend, TaskConsistent, ReplyConsistent
  <2>2. CASE op = "read"
    <3>1. task' = "await"
      BY <1>7, <2>2 DEF TaskSend
    <3> QED BY <1>0, <2>1, <2>2, <3>1 DEF ReplyConsistent
  <2>3. CASE op # "read"
    <3>1. task' = "run" /\ pos' = pos + 1 /\ Script(job')[pos'] # "read"
      BY <1>7, <2>1, <2>3 DEF TaskSend, Script
    <3> QED BY <1>0, <2>1, <2>3, <3>1 DEF ReplyConsistent, Script
  <2> QED BY <2>2, <2>3
<1>8. CASE TaskReadOk
  BY <1>8 DEF TaskReadOk, ReplyConsistent
<1>9. CASE TaskReadFails \/ TaskScriptFails \/ TaskFails \/ TaskScriptEnds \/ TaskTick \/ TaskExecute
           \/ TaskReconnected \/ TaskStop \/ TaskDone
           \/ \E v \in Values \cup {NoValue} : TaskPolled(v)
  BY <1>9, <1>0
  DEF TaskReadFails, TaskScriptFails, TaskFails, TaskScriptEnds, TaskPolled, TaskTick, TaskExecute,
      TaskReconnected, TaskStop, TaskDone, ReplyConsistent
<1> QED
  BY <1>1, <1>2, <1>3, <1>4, <1>5, <1>6, <1>7, <1>8, <1>9
  DEF Next, SerialStep, TaskStep, LinkImproves, LinkWorsens, LinkStray, TaskRefuse,
      TaskDisconnected, Submit, RemoveDevice, ReplaceDevice

-----------------------------------------------------------------------------
(* The messages of SerialDevice.                                           *)

LEMMA LossInit == Init => LossConsistent
BY DEF Init, LossConsistent, Recovering

LEMMA LossStep ==
  TypeOK /\ TaskConsistent /\ ReplyConsistent /\ LossConsistent /\ [Next]_vars
    => LossConsistent'
<1> SUFFICES ASSUME TypeOK, TaskConsistent, ReplyConsistent, LossConsistent, [Next]_vars
             PROVE  LossConsistent'
  OBVIOUS
<1> USE DEF LossConsistent, Recovering
<1>0. /\ msgs \in Seq({"Disconnected", "Reconnected"})
      /\ status \in {"Connecting", "Connected"}
      /\ serial \in {"recv", "notify", "drain", "reopen", "announce", "done"}
  BY DEF TypeOK
<1>1. CASE UNCHANGED <<msgs, status, serial, task>>
  BY <1>1
<1>2. CASE SerialNotify
  BY <1>2, <1>0 DEF SerialNotify
<1>3. CASE SerialWrite \/ SerialWriteFails \/ SerialRead \/ SerialReadFails
           \/ SerialAnnounce \/ SerialExit
  BY <1>3 DEF SerialWrite, SerialWriteFails, SerialRead, SerialReadFails, SerialAnnounce, SerialExit
<1>4. CASE SerialDropPort \/ SerialReopen
  BY <1>4 DEF SerialDropPort, SerialReopen
<1>5. ASSUME NEW v \in Values \cup {NoValue}, TaskPolled(v)
      PROVE  LossConsistent'
  <2>1. pos > 0 /\ Script(job)[pos] = "read" /\ task = "run" /\ serial' = serial
    BY <1>5, ScriptsAssumption DEF TaskPolled, Script
  <2> QED BY <2>1 DEF ReplyConsistent
<1>6. CASE TaskDisconnected
  BY <1>6, <1>0 DEF TaskDisconnected
<1>7. CASE TaskReconnected
  <2>1. msgs # <<>> /\ msgs' = Tail(msgs) /\ msgs[1] = "Reconnected"
        /\ UNCHANGED <<serial, status>> /\ task = "idle"
    BY <1>7, <1>0 DEF TaskReconnected
  <2>2. CASE Len(msgs) = 1
    <3>1. msgs[Len(msgs)] # "Disconnected"
      BY <2>1, <2>2
    <3> QED BY <2>1, <3>1
  <2>3. CASE Len(msgs) # 1
    <3>1. Tail(msgs) # <<>> /\ Tail(msgs)[Len(Tail(msgs))] = msgs[Len(msgs)]
      BY <1>0, <2>1, <2>3, TailKeepsLast
    <3> QED BY <2>1, <3>1
  <2> QED BY <2>2, <2>3
<1>8. CASE TaskDone
  BY <1>8 DEF TaskDone
<1>9. CASE TaskSend \/ TaskReadOk \/ TaskReadFails \/ TaskScriptFails \/ TaskFails \/ TaskScriptEnds
           \/ TaskTick \/ TaskExecute \/ TaskStop
  BY <1>9 DEF TaskSend, TaskReadOk, TaskReadFails, TaskScriptFails, TaskFails, TaskScriptEnds, TaskTick,
              TaskExecute, TaskStop
<1> QED
  BY <1>1, <1>2, <1>3, <1>4, <1>5, <1>6, <1>7, <1>8, <1>9
  DEF Next, SerialStep, TaskStep, LinkImproves, LinkWorsens, LinkStray, SerialDrain, TaskRefuse,
      Submit, RemoveDevice, ReplaceDevice

LEMMA FaultsInit == Init => FaultsConsistent
BY DEF Init, FaultsConsistent, Unsent, Recovering

LEMMA FaultsStep == TypeOK /\ FaultsConsistent /\ [Next]_vars => FaultsConsistent'
<1> SUFFICES ASSUME TypeOK, FaultsConsistent, [Next]_vars
             PROVE  FaultsConsistent'
  OBVIOUS
<1> USE DEF FaultsConsistent, Unsent, Recovering
<1>0. msgs \in Seq({"Disconnected", "Reconnected"}) /\ faults \in Nat /\ MaxFaults \in Nat
  BY DEF TypeOK
<1>1. CASE UNCHANGED <<msgs, serial, faults>>
  BY <1>1
<1>2. CASE SerialWriteFails \/ SerialReadFails
  BY <1>2, <1>0 DEF SerialWriteFails, SerialReadFails
<1>3. CASE SerialNotify \/ SerialAnnounce
  BY <1>3, <1>0 DEF SerialNotify, SerialAnnounce
<1>4. CASE SerialDropPort \/ SerialReopen \/ SerialExit
  BY <1>4, <1>0 DEF SerialDropPort, SerialReopen, SerialExit
<1>5. CASE TaskDisconnected
  BY <1>5, <1>0 DEF TaskDisconnected
<1>6. CASE TaskReconnected
  BY <1>6, <1>0 DEF TaskReconnected
<1>7. CASE TaskDone
  BY <1>7, <1>0 DEF TaskDone
<1> QED
  BY <1>1, <1>2, <1>3, <1>4, <1>5, <1>6, <1>7
  DEF Next, SerialStep, TaskStep, LinkImproves, LinkWorsens, LinkStray, SerialWrite, SerialRead,
      SerialDrain, TaskSend, TaskReadOk, TaskReadFails, TaskScriptFails, TaskFails, TaskScriptEnds,
      TaskPolled, TaskTick, TaskExecute, TaskRefuse, TaskStop, Submit, RemoveDevice,
      ReplaceDevice

-----------------------------------------------------------------------------
(* The answer of the radio.                                                *)

LEMMA AirInit == Init => AirConsistent
BY DEF Init, AirConsistent

LEMMA AirStep ==
  TypeOK /\ TaskConsistent /\ QueueFromTask /\ ReplyConsistent /\ AirConsistent /\ [Next]_vars
    => AirConsistent'
<1> SUFFICES ASSUME TypeOK, TaskConsistent, QueueFromTask, ReplyConsistent, AirConsistent,
                    [Next]_vars
             PROVE  AirConsistent'
  OBVIOUS
<1>0. /\ cmdQ \in Seq(Entries) /\ pos \in Nat
      /\ \A i \in 1..Len(cmdQ) : cmdQ[i] \in Entries
      /\ reached \in [Requests -> SUBSET (Nat \ {0})]
  BY DEF TypeOK
<1>1. CASE UNCHANGED <<air, serial, task, job, pos, reply, reached>>
  BY <1>1 DEF AirConsistent, Script
<1>2. ASSUME NEW l \in {"good", "noisy", "off", "unplugged"}, LinkWorsens(l)
      PROVE  AirConsistent'
  <2>1. air' \in {air, NoAnswer} /\ UNCHANGED <<serial, task, job, pos, reply, reached>>
    BY <1>2 DEF LinkWorsens
  <2> QED BY <2>1 DEF AirConsistent, Script
<1>3. CASE SerialWrite
  <2>1. /\ serial = "recv" /\ cmdQ # <<>> /\ cmdQ[1] \in Entries /\ cmdQ[1].op \in {"ask", "tell"}
        /\ UNCHANGED <<serial, task, job, pos, reply>>
        /\ \/ air' = air
           \/ cmdQ[1].op = "ask" /\ air' = <<cmdQ[1].job, cmdQ[1].at>>
    BY <1>3, <1>0 DEF SerialWrite
  <2>2. \A r \in Requests : reached[r] \subseteq reached'[r]
    BY <1>3, <1>0 DEF SerialWrite
  <2>3. CASE air' = air
    <3>1. job \in Requests /\ pos \in reached[job] => pos \in reached'[job]
      BY <2>2
    <3> QED BY <2>1, <2>3, <3>1 DEF AirConsistent, Script
  <2>4. CASE cmdQ[1].op = "ask" /\ air' = <<cmdQ[1].job, cmdQ[1].at>>
    <3>1. /\ InScript /\ reply = "none" /\ cmdQ[1].job = job /\ cmdQ[1].at = pos
          /\ Script(job)[pos] = "ask"
      BY <1>0, <2>1, <2>4 DEF QueueFromTask, Op
    <3>2. job \in Requests => pos \in reached'[job]
      BY <1>0, <1>3, <3>1 DEF SerialWrite
    <3>3. pos > 0
      BY <1>0, <2>1, <2>4, <3>1 DEF Entries
    <3> QED BY <2>1, <2>4, <3>1, <3>2, <3>3 DEF AirConsistent, Script
  <2> QED BY <2>1, <2>3, <2>4
<1>4. CASE SerialWriteFails \/ SerialRead \/ SerialReadFails \/ SerialNotify \/ SerialDrain
           \/ SerialDropPort \/ SerialReopen \/ SerialAnnounce \/ SerialExit
  BY <1>4 DEF SerialWriteFails, SerialRead, SerialReadFails, SerialNotify, SerialDrain,
              SerialDropPort, SerialReopen, SerialAnnounce, SerialExit, AirConsistent
<1>5. CASE TaskSend
  <2>1. /\ job \in Jobs /\ pos + 1 \in 1..Len(Script(job)) /\ task = "run"
        /\ UNCHANGED <<serial, air, reply, reached, job>>
        /\ task' \in {"run", "await"}
        /\ Script(job)[pos + 1] = "read" => pos' = pos
    BY <1>5, <1>0, ScriptType DEF TaskSend, TaskConsistent
  <2>2. serial = "recv" /\ air # NoAnswer => Script(job)[pos + 1] = "read"
    BY <1>0, <2>1, AskThenRead, ScriptType DEF AirConsistent
  <2> QED BY <2>1, <2>2 DEF AirConsistent, Script
<1>6. CASE TaskReadOk \/ TaskReadFails \/ TaskFails
  BY <1>6 DEF TaskReadOk, TaskReadFails, TaskFails, AirConsistent
<1>7. CASE TaskScriptFails \/ TaskScriptEnds \/ \E v \in Values \cup {NoValue} : TaskPolled(v)
  <2>1. /\ job \in Jobs /\ pos <= Len(Script(job)) /\ task = "run"
        /\ pos < Len(Script(job)) => Script(job)[pos + 1] # "read"
        /\ UNCHANGED <<serial, air, reply, reached>>
    BY <1>7, <1>0, ScriptType
    DEF TaskScriptFails, TaskScriptEnds, TaskPolled, TaskConsistent
  <2>2. serial = "recv" => air = NoAnswer
    BY <1>0, <2>1, AskThenRead, ScriptType DEF AirConsistent
  <2> QED BY <2>1, <2>2 DEF AirConsistent
<1>8. CASE TaskTick \/ TaskExecute \/ TaskReconnected \/ TaskStop \/ TaskDone
  BY <1>8 DEF TaskTick, TaskExecute, TaskReconnected, TaskStop, TaskDone, AirConsistent
<1> QED
  BY <1>1, <1>2, <1>3, <1>4, <1>5, <1>6, <1>7, <1>8
  DEF Next, SerialStep, TaskStep, LinkImproves, LinkStray, TaskRefuse,
      TaskDisconnected, Submit, RemoveDevice, ReplaceDevice

-----------------------------------------------------------------------------
(* The requests, and the writes of their scripts.                          *)

LEMMA RequestsInit == Init => RequestsConsistent
BY RequestsAssumption DEF Init, RequestsConsistent

LEMMA RequestsStep ==
  TypeOK /\ TaskConsistent /\ QueueFromTask /\ RequestsConsistent /\ [Next]_vars
    => RequestsConsistent'
<1> SUFFICES ASSUME TypeOK, TaskConsistent, QueueFromTask, RequestsConsistent, [Next]_vars
             PROVE  RequestsConsistent'
  OBVIOUS
<1> USE DEF RequestsConsistent
<1>0. /\ cmdQ \in Seq(Entries) /\ taskQ \in Seq(Requests \cup {"shutdown"})
      /\ \A i \in 1..Len(cmdQ) : cmdQ[i] \in Entries
      /\ reached \in [Requests -> SUBSET (Nat \ {0})]
      /\ reqs \in [Requests -> {"new", "queued", "running", "lost"} \cup Answered]
      /\ {"none", "init", "poll", "shutdown"} \cap Requests = {}
  BY RequestsAssumption DEF TypeOK
<1>1. CASE UNCHANGED <<cmdQ, taskQ, reqs, reached, job>>
  BY <1>1
<1>2. CASE SerialWrite
  <2>1. /\ cmdQ # <<>> /\ cmdQ' = Tail(cmdQ) /\ UNCHANGED <<taskQ, reqs, job>>
        /\ \A r \in Requests : r # cmdQ[1].job => reached'[r] = reached[r]
    BY <1>2, <1>0 DEF SerialWrite
  <2> QED BY <1>0, <2>1
<1>3. CASE SerialWriteFails \/ SerialRead \/ SerialReadFails \/ SerialDrain \/ SerialExit
  <2>1. /\ UNCHANGED <<taskQ, reqs, reached, job>>
        /\ \/ cmdQ # <<>> /\ cmdQ' = Tail(cmdQ)
           \/ cmdQ' = <<>>
    BY <1>3 DEF SerialWriteFails, SerialRead, SerialReadFails, SerialDrain, SerialExit
  <2> QED BY <1>0, <2>1
<1>4. CASE TaskSend
  <2>1. /\ UNCHANGED <<taskQ, reqs, reached, job>>
        /\ cmdQ' = Append(cmdQ, [op |-> Script(job)[pos + 1], job |-> job, at |-> pos + 1])
    BY <1>4 DEF TaskSend
  <2>2. ASSUME NEW r \in Requests, reqs'[r] \in {"new", "queued", "refused"}
        PROVE  reached'[r] = {} /\ \A i \in 1..Len(cmdQ') : cmdQ'[i].job # r
    <3>1. r # job
      BY <1>0, <2>1, <2>2
    <3> QED BY <1>0, <2>1, <2>2, <3>1
  <2> QED BY <1>0, <2>1, <2>2
<1>12. CASE TaskReadFails \/ TaskScriptFails
  <2>1. UNCHANGED <<cmdQ, taskQ, reqs, reached, job>>
    BY <1>12 DEF TaskReadFails, TaskScriptFails
  <2> QED BY <2>1
<1>5. CASE TaskFails \/ TaskScriptEnds
           \/ \E v \in Values \cup {NoValue} : TaskPolled(v)
  <2>1. /\ UNCHANGED <<cmdQ, taskQ, reached>> /\ job' = "none"
        /\ \A r \in Requests : \/ reqs'[r] = reqs[r]
                               \/ r = job /\ reqs'[r] \in {"ok", "error"}
    BY <1>5, <1>0 DEF TaskFails, TaskScriptEnds, TaskPolled
  <2> QED BY <1>0, <2>1
<1>6. CASE TaskTick \/ TaskReconnected
  <2>1. job' \notin Requests /\ UNCHANGED <<cmdQ, taskQ, reqs, reached>>
    BY <1>6, <1>0 DEF TaskTick, TaskReconnected
  <2> QED BY <2>1
<1>7. CASE TaskExecute \/ TaskRefuse
  <2> DEFINE r0 == taskQ[1]
  <2>1. /\ taskQ # <<>> /\ r0 \in Requests /\ taskQ' = Tail(taskQ)
        /\ UNCHANGED <<cmdQ, reached>>
        /\ \/ job' = r0 /\ reqs' = [reqs EXCEPT ![r0] = "running"]
           \/ job' = job /\ task = "idle" /\ reqs' = [reqs EXCEPT ![r0] = "refused"]
    BY <1>7, <1>0 DEF TaskExecute, TaskRefuse
  <2>2. job' \in Requests => reqs'[job'] = "running"
    <3>1. CASE job' = job /\ task = "idle"
      BY <1>0, <3>1 DEF TaskConsistent
    <3>2. CASE job' = r0 /\ reqs' = [reqs EXCEPT ![r0] = "running"]
      BY <1>0, <2>1, <3>2
    <3> QED BY <2>1, <3>1, <3>2
  <2>3. \A r \in Requests : r # r0 => reqs'[r] = reqs[r]
    BY <1>0, <2>1
  <2>4. reqs'[r0] \in {"running", "refused"} /\ reqs[r0] = "queued"
    BY <1>0, <2>1
  <2>5. \A i \in 1..Len(taskQ') : taskQ'[i] = taskQ[i + 1] /\ i + 1 \in 1..Len(taskQ)
                                  /\ taskQ'[i] # r0
    <3>1. /\ Len(taskQ) \in Nat \ {0} /\ Len(taskQ') = Len(taskQ) - 1
          /\ \A i \in 1..Len(taskQ') : taskQ'[i] = taskQ[i + 1]
      BY <1>0, <2>1
    <3>2. ASSUME NEW j \in 1..Len(taskQ), 1 < j
          PROVE  taskQ[1] # taskQ[j]
      <4>1. 1 \in 1..Len(taskQ)
        BY <3>1
      <4>2. taskQ[1] \in Requests
        BY <2>1
      <4> QED BY <3>2, <4>1, <4>2
    <3> QED BY <3>1, <3>2
  <2>6. \A i \in 1..Len(taskQ') : taskQ'[i] \in Requests => reqs'[taskQ'[i]] = "queued"
    BY <2>3, <2>5
  <2>7. \A i, j \in 1..Len(taskQ') :
          i < j /\ taskQ'[i] \in Requests => taskQ'[i] # taskQ'[j]
    BY <1>0, <2>1, <2>5
  <2>8. \A r \in Requests : reqs'[r] \in {"new", "queued", "refused"}
                             => reqs[r] \in {"new", "queued", "refused"}
    BY <2>3, <2>4
  <2> QED BY <2>1, <2>2, <2>6, <2>7, <2>8
<1>8. CASE TaskStop
  BY <1>8, <1>0 DEF TaskStop
<1>9. CASE TaskDone
  <2>1. /\ job' = job /\ job = "none" /\ taskQ' = <<>> /\ reached' = reached
        /\ cmdQ' = Append(cmdQ, ShutdownEntry)
        /\ \A r \in Requests : reqs'[r] = reqs[r] \/ reqs'[r] = "lost"
    BY <1>9, <1>0 DEF TaskDone, TaskConsistent
  <2> QED BY <1>0, <2>1
<1>10. ASSUME NEW r \in Requests, Submit(r)
       PROVE  RequestsConsistent'
  <2>1. /\ taskQ' = Append(taskQ, r) /\ UNCHANGED <<cmdQ, reached, job>>
        /\ reqs[r] = "new" /\ reqs' = [reqs EXCEPT ![r] = "queued"]
    BY <1>10 DEF Submit
  <2> QED BY <1>0, <2>1
<1>11. CASE RemoveDevice
  BY <1>11, <1>0 DEF RemoveDevice
<1> QED
  BY <1>1, <1>2, <1>3, <1>4, <1>5, <1>6, <1>7, <1>8, <1>9, <1>10, <1>11, <1>12
  DEF Next, SerialStep, TaskStep, LinkImproves, LinkWorsens, LinkStray, SerialNotify, SerialDropPort,
      SerialReopen, SerialAnnounce, TaskReadOk, TaskDisconnected, ReplaceDevice

LEMMA WritesInit == Init => WritesConsistent
BY RequestsAssumption DEF Init, WritesConsistent

LEMMA WritesStep ==
  TypeOK /\ TaskConsistent /\ QueueFromTask /\ RequestsConsistent /\ WritesConsistent
    /\ [Next]_vars => WritesConsistent'
<1> SUFFICES ASSUME TypeOK, TaskConsistent, QueueFromTask, RequestsConsistent,
                    WritesConsistent, [Next]_vars
             PROVE  WritesConsistent'
  OBVIOUS
<1> USE DEF WritesConsistent, IsWrite
<1>0. /\ cmdQ \in Seq(Entries) /\ pos \in Nat
      /\ \A i \in 1..Len(cmdQ) : cmdQ[i] \in Entries
      /\ reached \in [Requests -> SUBSET (Nat \ {0})]
      /\ {"none", "init", "poll", "shutdown"} \cap Requests = {}
  BY RequestsAssumption DEF TypeOK
<1>1. CASE UNCHANGED <<cmdQ, job, pos, reached>>
  BY <1>1
<1>2. CASE SerialWrite
  <2> DEFINE c == cmdQ[1]
  <2>1. /\ cmdQ # <<>> /\ cmdQ' = Tail(cmdQ) /\ UNCHANGED <<job, pos>>
        /\ Head(cmdQ) = c /\ c \in Entries
    BY <1>2, <1>0 DEF SerialWrite
  <2>a. /\ c.op \in {"ask", "tell"}
        /\ reached' = IF c.job \in Requests
                      THEN [reached EXCEPT ![c.job] = @ \cup {c.at}] ELSE reached
    BY <1>2, <2>1 DEF SerialWrite
  <2>2. \A r \in Requests : \A k \in reached'[r] :
          k \in reached[r] \/ (r = c.job /\ k = c.at)
    BY <1>0, <2>a
  <2>3. \A i \in 1..Len(cmdQ') : i + 1 \in 1..Len(cmdQ) /\ cmdQ'[i] = cmdQ[i + 1]
    BY <1>0, <2>1
  <2>4. job \in Requests => \A k \in reached'[job] : k <= pos
    BY <1>0, <2>1, <2>a, <2>2
  <2>5. ASSUME NEW i \in 1..Len(cmdQ'), IsWrite(cmdQ'[i])
        PROVE  /\ cmdQ'[i].job = job => cmdQ'[i].at <= pos
               /\ \A k \in reached'[cmdQ'[i].job] : k < cmdQ'[i].at
    <3>1. c.job = cmdQ[i + 1].job => c.at < cmdQ[i + 1].at
      BY <1>0, <2>1, <2>a, <2>3, <2>5
    <3> QED BY <2>2, <2>3, <2>5, <3>1
  <2>6. ASSUME NEW i \in 1..Len(cmdQ'), NEW j \in 1..Len(cmdQ'), i < j,
               IsWrite(cmdQ'[i]), IsWrite(cmdQ'[j]), cmdQ'[j].job = cmdQ'[i].job
        PROVE  cmdQ'[i].at < cmdQ'[j].at
    <3>1. /\ i + 1 \in 1..Len(cmdQ) /\ cmdQ'[i] = cmdQ[i + 1]
          /\ j + 1 \in 1..Len(cmdQ) /\ cmdQ'[j] = cmdQ[j + 1]
          /\ i + 1 < j + 1
      BY <2>3, <2>6
    <3> QED BY <2>6, <3>1
  <2> QED BY <2>1, <2>4, <2>5, <2>6
<1>3. CASE SerialWriteFails \/ SerialRead \/ SerialReadFails \/ SerialDrain \/ SerialExit
  <2>1. /\ UNCHANGED <<job, pos, reached>>
        /\ \/ cmdQ # <<>> /\ cmdQ' = Tail(cmdQ)
           \/ cmdQ' = <<>>
    BY <1>3 DEF SerialWriteFails, SerialRead, SerialReadFails, SerialDrain, SerialExit
  <2>2. \A i \in 1..Len(cmdQ') : i + 1 \in 1..Len(cmdQ) /\ cmdQ'[i] = cmdQ[i + 1]
    <3>1. CASE cmdQ # <<>> /\ cmdQ' = Tail(cmdQ)
      BY <1>0, <3>1
    <3>2. CASE cmdQ' = <<>>
      BY <3>2
    <3> QED BY <2>1, <3>1, <3>2
  <2>3. ASSUME NEW i \in 1..Len(cmdQ'), NEW j \in 1..Len(cmdQ'), i < j,
               IsWrite(cmdQ'[i]), IsWrite(cmdQ'[j]), cmdQ'[j].job = cmdQ'[i].job
        PROVE  cmdQ'[i].at < cmdQ'[j].at
    <3>1. /\ i + 1 \in 1..Len(cmdQ) /\ cmdQ'[i] = cmdQ[i + 1]
          /\ j + 1 \in 1..Len(cmdQ) /\ cmdQ'[j] = cmdQ[j + 1]
          /\ i + 1 < j + 1
      BY <2>2, <2>3
    <3> QED BY <2>3, <3>1
  <2> QED BY <2>1, <2>2, <2>3
<1>4. CASE TaskSend
  <2> DEFINE op == Script(job)[pos + 1]
             e  == [op |-> op, job |-> job, at |-> pos + 1]
  <2>1. /\ job \in Jobs /\ UNCHANGED <<job, reached>>
        /\ cmdQ' = Append(cmdQ, e)
        /\ pos' = IF op = "read" THEN pos ELSE pos + 1
    BY <1>4, <1>0, ScriptType DEF TaskSend, TaskConsistent
  <2>2. /\ Len(cmdQ') = Len(cmdQ) + 1 /\ cmdQ'[Len(cmdQ')] = e
        /\ \A i \in 1..Len(cmdQ) : cmdQ'[i] = cmdQ[i]
    BY <1>0, <2>1
  <2>3. job \in Requests => \A k \in reached[job] : k <= pos /\ k \in Nat
    BY <1>0
  <2>4. \A i \in 1..Len(cmdQ) :
          IsWrite(cmdQ[i]) /\ cmdQ[i].job = job => cmdQ[i].at <= pos /\ cmdQ[i].at \in Nat
    BY <1>0 DEF Entries
  <2>5. ASSUME NEW i \in 1..Len(cmdQ'), IsWrite(cmdQ'[i])
        PROVE  /\ cmdQ'[i].job = job => cmdQ'[i].at <= pos'
               /\ \A k \in reached[cmdQ'[i].job] : k < cmdQ'[i].at
    BY <1>0, <2>1, <2>2, <2>3, <2>4, <2>5
  <2>6. ASSUME NEW i \in 1..Len(cmdQ'), NEW j \in 1..Len(cmdQ'), i < j,
               IsWrite(cmdQ'[i]), IsWrite(cmdQ'[j]), cmdQ'[j].job = cmdQ'[i].job
        PROVE  cmdQ'[i].at < cmdQ'[j].at
    <3>1. CASE j = Len(cmdQ')
      BY <1>0, <2>2, <2>4, <2>6, <3>1
    <3>2. CASE j # Len(cmdQ')
      <4>1. /\ i \in 1..Len(cmdQ) /\ cmdQ'[i] = cmdQ[i]
            /\ j \in 1..Len(cmdQ) /\ cmdQ'[j] = cmdQ[j]
        <5>1. Len(cmdQ) \in Nat /\ Len(cmdQ') = Len(cmdQ) + 1
          BY <1>0, <2>2
        <5>2. i \in 1..Len(cmdQ) /\ j \in 1..Len(cmdQ)
          BY <2>6, <3>2, <5>1
        <5> QED BY <2>2, <5>2
      <4> QED BY <1>0, <2>6, <4>1
    <3> QED BY <3>1, <3>2
  <2>7. job \in Requests => \A k \in reached[job] : k <= pos'
    BY <1>0, <2>1, <2>3
  <2> QED BY <2>1, <2>5, <2>6, <2>7
<1>5. CASE TaskReadOk
  <2>1. UNCHANGED <<cmdQ, reached, job>> /\ pos' = pos + 1
    BY <1>5 DEF TaskReadOk
  <2>2. \A i \in 1..Len(cmdQ) : IsWrite(cmdQ[i]) => cmdQ[i].at \in Nat
    BY <1>0 DEF Entries
  <2> QED BY <1>0, <2>1, <2>2
<1>11. CASE TaskReadFails \/ TaskScriptFails
  BY <1>11, <1>0 DEF TaskReadFails, TaskScriptFails
<1>6. CASE TaskFails \/ TaskScriptEnds
           \/ \E v \in Values \cup {NoValue} : TaskPolled(v)
  <2>1. UNCHANGED <<cmdQ, reached>> /\ job' = "none"
    BY <1>6 DEF TaskFails, TaskScriptEnds, TaskPolled
  <2> QED BY <1>0, <2>1
<1>7. CASE TaskTick \/ TaskReconnected
  <2>1. UNCHANGED <<cmdQ, reached>> /\ job' \notin Requests
    BY <1>7, <1>0 DEF TaskTick, TaskReconnected
  <2> QED BY <1>0, <2>1
<1>8. CASE TaskExecute
  <2>1. /\ UNCHANGED <<cmdQ, reached>> /\ job' \in Requests /\ pos' = 0
        /\ taskQ # <<>> /\ job' = taskQ[1]
    BY <1>8 DEF TaskExecute
  <2>2. reqs[job'] = "queued"
    BY <2>1 DEF RequestsConsistent, TypeOK
  <2>3. reached[job'] = {} /\ \A i \in 1..Len(cmdQ) : cmdQ[i].job # job'
    BY <2>1, <2>2 DEF RequestsConsistent
  <2> QED BY <1>0, <2>1, <2>3
<1>9. CASE TaskStop
  BY <1>9 DEF TaskStop
<1>10. CASE TaskDone
  <2>1. UNCHANGED <<job, pos, reached>> /\ cmdQ' = Append(cmdQ, ShutdownEntry)
    BY <1>10 DEF TaskDone
  <2>2. /\ Len(cmdQ') = Len(cmdQ) + 1 /\ cmdQ'[Len(cmdQ')] = ShutdownEntry
        /\ \A i \in 1..Len(cmdQ) : cmdQ'[i] = cmdQ[i]
    BY <1>0, <2>1
  <2>3. \A i \in 1..Len(cmdQ') : IsWrite(cmdQ'[i]) => i \in 1..Len(cmdQ)
    BY <1>0, <2>2
  <2> QED BY <1>0, <2>1, <2>2, <2>3
<1> QED
  BY <1>1, <1>2, <1>3, <1>4, <1>5, <1>6, <1>7, <1>8, <1>9, <1>10, <1>11
  DEF Next, SerialStep, TaskStep, LinkImproves, LinkWorsens, LinkStray, SerialNotify, SerialDropPort,
      SerialReopen, SerialAnnounce, TaskRefuse, TaskDisconnected, Submit, RemoveDevice,
      ReplaceDevice

-----------------------------------------------------------------------------
(* No accepted request is lost, and the writes of two do not mix.          *)

LEMMA AcceptedInit == Init => AcceptedConsistent
BY RequestsAssumption DEF Init, AcceptedConsistent

LEMMA AcceptedStep ==
  TypeOK /\ TaskConsistent /\ RequestsConsistent /\ AcceptedConsistent /\ [Next]_vars
    => AcceptedConsistent'
<1> SUFFICES ASSUME TypeOK, TaskConsistent, RequestsConsistent, AcceptedConsistent, [Next]_vars
             PROVE  AcceptedConsistent'
  OBVIOUS
<1> USE DEF AcceptedConsistent
<1>0. /\ taskQ \in Seq(Requests \cup {"shutdown"}) /\ "shutdown" \notin Requests
      /\ reqs \in [Requests -> {"new", "queued", "running", "lost"} \cup Answered]
      /\ "none" \notin Requests /\ "init" \notin Requests /\ "poll" \notin Requests
  BY RequestsAssumption DEF TypeOK
<1>1. ASSUME UNCHANGED <<taskQ, handle, reqs, job>>, task' = task \/ task' \in {"run", "await", "failed"}
      PROVE  AcceptedConsistent'
  BY <1>1
<1>2. CASE TaskFails \/ TaskScriptEnds
           \/ \E v \in Values \cup {NoValue} : TaskPolled(v)
  <2>1. /\ UNCHANGED <<taskQ, handle>> /\ task' = "idle"
        /\ \A r \in Requests : \/ r # job /\ reqs'[r] = reqs[r]
                               \/ r = job /\ reqs'[r] \in {"ok", "error"}
    BY <1>2, <1>0 DEF TaskFails, TaskScriptEnds, TaskPolled, Idle
  <2> QED BY <1>0, <2>1
<1>3. CASE TaskTick \/ TaskReconnected
  <2>1. UNCHANGED <<taskQ, handle, reqs>> /\ task' = "run" /\ job = "none"
    BY <1>3 DEF TaskTick, TaskReconnected, Start, TaskConsistent, InScript
  <2> QED BY <1>0, <2>1
<1>4. CASE TaskExecute \/ TaskRefuse
  <2> DEFINE r0 == taskQ[1]
  <2>1. /\ taskQ # <<>> /\ r0 \in Requests /\ taskQ' = Tail(taskQ)
        /\ UNCHANGED handle /\ task' \in {"run", "idle"} /\ job = "none"
        /\ \/ job' = r0 /\ reqs' = [reqs EXCEPT ![r0] = "running"]
           \/ job' = job /\ reqs' = [reqs EXCEPT ![r0] = "refused"]
    BY <1>4, <1>0 DEF TaskExecute, TaskRefuse, Start, TaskConsistent, InScript
  <2>2. /\ Len(taskQ) \in Nat \ {0} /\ Len(taskQ') = Len(taskQ) - 1
        /\ \A i \in 1..Len(taskQ') : taskQ'[i] = taskQ[i + 1]
    BY <1>0, <2>1
  <2>3. \A r \in Requests : r # r0 => reqs'[r] = reqs[r]
    BY <1>0, <2>1
  <2>4. \/ reqs'[r0] = "running" /\ job' = r0
        \/ reqs'[r0] = "refused" /\ job' = job
    <3>1. CASE reqs' = [reqs EXCEPT ![r0] = "running"] /\ job' = r0
      BY <1>0, <2>1, <3>1
    <3>2. CASE reqs' = [reqs EXCEPT ![r0] = "refused"] /\ job' = job
      BY <1>0, <2>1, <3>2
    <3> QED BY <2>1, <3>1, <3>2
  <2>5. ASSUME NEW r \in Requests
        PROVE  reqs'[r] # "lost" /\ (reqs'[r] = "running" => job' = r)
    BY <1>0, <2>1, <2>3, <2>4
  <2>6. ASSUME NEW r \in Requests, reqs'[r] = "queued"
        PROVE  \E i \in 1..Len(taskQ') : taskQ'[i] = r
    <3>1. r # r0 /\ reqs[r] = "queued"
      BY <2>3, <2>4, <2>6
    <3>2. PICK i \in 1..Len(taskQ) : taskQ[i] = r
      BY <3>1
    <3>3. i # 1
      BY <3>1, <3>2
    <3>4. i - 1 \in 1..Len(taskQ') /\ taskQ'[i - 1] = r
      BY <2>2, <3>2, <3>3
    <3> QED BY <3>4
  <2>7. ASSUME NEW i \in 1..Len(taskQ'), taskQ'[i] = "shutdown"
        PROVE  i = Len(taskQ') /\ handle' = "dropped"
    <3>1. i + 1 \in 1..Len(taskQ) /\ taskQ[i + 1] = "shutdown"
      BY <2>2, <2>7
    <3>2. i + 1 = Len(taskQ) /\ handle = "dropped"
      BY <3>1
    <3>3. Len(taskQ') = Len(taskQ) - 1 /\ Len(taskQ) \in Nat /\ i \in Nat
      BY <2>2
    <3>4. handle' = handle
      BY <2>1
    <3> QED BY <3>2, <3>3, <3>4
  <2> QED BY <2>1, <2>5, <2>6, <2>7
<1>5. CASE TaskStop
  <2>1. /\ UNCHANGED <<handle, reqs, job>>
        /\ \/ taskQ # <<>> /\ taskQ[1] = "shutdown" /\ taskQ' = Tail(taskQ)
           \/ taskQ = <<>> /\ taskQ' = taskQ /\ handle = "dropped"
    BY <1>5, <1>0 DEF TaskStop
  <2>2. taskQ' = <<>> /\ handle' = "dropped"
    <3>1. CASE taskQ # <<>> /\ taskQ[1] = "shutdown" /\ taskQ' = Tail(taskQ)
      <4>1. 1 \in 1..Len(taskQ)
        BY <1>0, <3>1
      <4>2. Len(taskQ) = 1 /\ handle = "dropped"
        BY <3>1, <4>1
      <4> QED BY <1>0, <2>1, <3>1, <4>2
    <3> QED BY <2>1, <3>1
  <2>3. \A r \in Requests : \A i \in 1..Len(taskQ) : taskQ[i] = r => i # 1 \/ taskQ = <<>>
    BY <1>0, <2>1
  <2>4. \A r \in Requests : reqs[r] # "queued"
    <3>1. taskQ = <<>> \/ (Len(taskQ) = 1 /\ taskQ[1] = "shutdown")
      <4>1. CASE taskQ # <<>> /\ taskQ[1] = "shutdown" /\ taskQ' = Tail(taskQ)
        <5>1. 1 \in 1..Len(taskQ)
          BY <1>0, <4>1
        <5> QED BY <4>1, <5>1
      <4> QED BY <2>1, <4>1
    <3> QED BY <1>0, <3>1
  <2> QED BY <2>1, <2>2, <2>4
<1>6. CASE TaskDone
  <2>1. /\ taskQ = <<>> /\ taskQ' = <<>> /\ UNCHANGED <<handle, job>> /\ handle = "dropped"
        /\ \A r \in Requests :
             reqs'[r] = IF reqs[r] = "queued" THEN "lost" ELSE reqs[r]
    BY <1>6 DEF TaskDone
  <2>2. \A r \in Requests : reqs[r] # "queued"
    BY <2>1
  <2> QED BY <2>1, <2>2
<1>7. ASSUME NEW r \in Requests, Submit(r)
      PROVE  AcceptedConsistent'
  <2>1. /\ taskQ' = Append(taskQ, r) /\ UNCHANGED <<task, handle, job>> /\ handle = "held"
        /\ reqs' = [reqs EXCEPT ![r] = "queued"]
    BY <1>7 DEF Submit
  <2>2. /\ Len(taskQ') = Len(taskQ) + 1 /\ Len(taskQ) \in Nat /\ taskQ'[Len(taskQ')] = r
        /\ \A i \in 1..Len(taskQ) : taskQ'[i] = taskQ[i]
    BY <1>0, <2>1
  <2>3. ASSUME NEW q \in Requests, reqs'[q] = "queued"
        PROVE  \E i \in 1..Len(taskQ') : taskQ'[i] = q
    <3>1. CASE q = r
      BY <2>2, <3>1
    <3>2. CASE q # r
      <4>1. PICK i \in 1..Len(taskQ) : taskQ[i] = q
        BY <1>0, <2>1, <2>3, <3>2
      <4> QED BY <2>2, <4>1
    <3> QED BY <3>1, <3>2
  <2>4. \A i \in 1..Len(taskQ') : taskQ'[i] # "shutdown"
    BY <1>0, <2>1, <2>2
  <2>5. \A q \in Requests : reqs'[q] # "lost" /\ (reqs'[q] = "running" => job' = q)
    BY <1>0, <2>1
  <2> QED BY <2>1, <2>3, <2>4, <2>5
<1>8. CASE RemoveDevice
  <2>1. /\ taskQ' = Append(taskQ, "shutdown") /\ UNCHANGED <<task, reqs, job>>
        /\ handle = "held" /\ handle' = "dropped"
    BY <1>8 DEF RemoveDevice
  <2>2. /\ Len(taskQ') = Len(taskQ) + 1 /\ Len(taskQ) \in Nat
        /\ \A i \in 1..Len(taskQ) : taskQ'[i] = taskQ[i] /\ taskQ[i] # "shutdown"
    BY <1>0, <2>1
  <2>3. ASSUME NEW q \in Requests, reqs'[q] = "queued"
        PROVE  \E i \in 1..Len(taskQ') : taskQ'[i] = q
    <3>1. PICK i \in 1..Len(taskQ) : taskQ[i] = q
      BY <2>1, <2>3
    <3> QED BY <2>2, <3>1
  <2> QED BY <2>1, <2>2, <2>3
<1>9. CASE ReplaceDevice
  BY <1>9 DEF ReplaceDevice
<1> QED
  BY <1>1, <1>2, <1>3, <1>4, <1>5, <1>6, <1>7, <1>8, <1>9
  DEF Next, SerialStep, TaskStep, LinkImproves, LinkWorsens, LinkStray, SerialWrite,
      SerialWriteFails, SerialRead, SerialReadFails, SerialNotify, SerialDrain, SerialDropPort,
      SerialReopen, SerialAnnounce, SerialExit, TaskSend, TaskReadOk, TaskReadFails,
      TaskScriptFails, TaskDisconnected, vars, taskVars, clientVars

LEMMA InTurnInit == Init => WritesInTurn
BY DEF Init, WritesInTurn

LEMMA InTurnStep ==
  TypeOK /\ TaskConsistent /\ RequestsConsistent /\ WritesInTurn /\ [Next]_vars
    => WritesInTurn'
<1> SUFFICES ASSUME TypeOK, TaskConsistent, RequestsConsistent, WritesInTurn, [Next]_vars
             PROVE  WritesInTurn'
  OBVIOUS
<1> USE DEF WritesInTurn
<1>0. /\ cmdQ \in Seq(Entries) /\ reached \in [Requests -> SUBSET (Nat \ {0})]
      /\ "none" \notin Requests /\ "init" \notin Requests /\ "poll" \notin Requests
  BY RequestsAssumption DEF TypeOK
<1>1. CASE UNCHANGED <<cmdQ, reached, job>>
  BY <1>1
<1>2. CASE SerialWrite \/ SerialWriteFails \/ SerialRead \/ SerialReadFails
           \/ SerialDrain \/ SerialExit
  <2>1. /\ job' = job
        /\ \/ cmdQ # <<>> /\ cmdQ' = Tail(cmdQ)
           \/ cmdQ' = <<>>
        /\ \A r \in Requests : \/ reached'[r] = reached[r]
                               \/ cmdQ # <<>> /\ r = cmdQ[1].job /\ cmdQ' = Tail(cmdQ)
    BY <1>0, <1>2 DEF SerialWrite, SerialWriteFails, SerialRead, SerialReadFails,
                      SerialDrain, SerialExit
  <2> SUFFICES ASSUME job \in Requests, NEW i \in 1..Len(cmdQ'),
                      cmdQ'[i].job \in Requests, cmdQ'[i].job # job
               PROVE  reached'[job] = {} /\ \A j \in 1..i : cmdQ'[j].job # job
    BY <2>1
  <2>2. cmdQ # <<>> /\ cmdQ' = Tail(cmdQ)
    BY <2>1
  <2>3. /\ 1 \in 1..(i + 1) /\ i + 1 \in 1..Len(cmdQ)
        /\ \A j \in 1..i : cmdQ'[j] = cmdQ[j + 1] /\ j + 1 \in 1..(i + 1)
        /\ i \in 1..i
    BY <1>0, <2>2
  <2>4. reached[job] = {} /\ \A j \in 1..(i + 1) : cmdQ[j].job # job
    BY <2>3
  <2> QED BY <2>1, <2>3, <2>4
<1>3. CASE TaskSend
  <2>1. /\ UNCHANGED <<job, reached>>
        /\ cmdQ' = Append(cmdQ, [op |-> Script(job)[pos + 1], job |-> job, at |-> pos + 1])
    BY <1>3 DEF TaskSend, Entry
  <2>2. /\ Len(cmdQ') = Len(cmdQ) + 1 /\ Len(cmdQ) \in Nat /\ cmdQ'[Len(cmdQ')].job = job
        /\ \A i \in 1..Len(cmdQ) : cmdQ'[i] = cmdQ[i]
    BY <1>0, <2>1
  <2> SUFFICES ASSUME job \in Requests, NEW i \in 1..Len(cmdQ'),
                      cmdQ'[i].job \in Requests, cmdQ'[i].job # job
               PROVE  reached[job] = {} /\ \A j \in 1..i : cmdQ'[j].job # job
    BY <2>1
  <2>3. i \in 1..Len(cmdQ) /\ \A j \in 1..i : j \in 1..Len(cmdQ)
    BY <2>2
  <2> QED BY <2>2, <2>3
<1>4. CASE TaskFails \/ TaskScriptEnds
           \/ \E v \in Values \cup {NoValue} : TaskPolled(v)
  <2>1. job' = "none"
    BY <1>4 DEF TaskFails, TaskScriptEnds, TaskPolled, Idle
  <2> QED BY <1>0, <2>1
<1>5. CASE TaskTick \/ TaskReconnected
  <2>1. job' \in {"init", "poll"}
    BY <1>5 DEF TaskTick, TaskReconnected, Start
  <2> QED BY <1>0, <2>1
<1>6. CASE TaskExecute
  <2>1. /\ UNCHANGED <<cmdQ, reached>> /\ job' \in Requests
        /\ taskQ # <<>> /\ job' = taskQ[1]
    BY <1>6 DEF TaskExecute, Start
  <2>2. reqs[job'] = "queued"
    BY <2>1 DEF RequestsConsistent, TypeOK
  <2>3. reached[job'] = {} /\ \A i \in 1..Len(cmdQ) : cmdQ[i].job # job'
    BY <2>1, <2>2 DEF RequestsConsistent
  <2> QED BY <1>0, <2>1, <2>3
<1>7. CASE TaskDone
  <2>1. job' = "none"
    BY <1>7 DEF TaskDone, TaskConsistent, InScript
  <2> QED BY <1>0, <2>1
<1> QED
  BY <1>1, <1>2, <1>3, <1>4, <1>5, <1>6, <1>7
  DEF Next, SerialStep, TaskStep, LinkImproves, LinkWorsens, LinkStray, SerialNotify,
      SerialDropPort, SerialReopen, SerialAnnounce, TaskReadOk, TaskReadFails, TaskScriptFails,
      TaskRefuse, TaskStop, TaskDisconnected, Submit, RemoveDevice, ReplaceDevice,
      vars, taskVars, clientVars

-----------------------------------------------------------------------------
(* Delivery.                                                               *)

LEMMA DeliveryInit == Init => DeliveryConsistent
BY RequestsAssumption DEF Init, DeliveryConsistent, SuccessIsDelivered

LEMMA DeliveryStep ==
  TypeOK /\ TaskConsistent /\ QueueFromTask /\ ReplyConsistent /\ AirConsistent
    /\ RequestsConsistent /\ DeliveryConsistent /\ [Next]_vars => DeliveryConsistent'
<1> SUFFICES ASSUME TypeOK, TaskConsistent, QueueFromTask, ReplyConsistent, AirConsistent,
                    RequestsConsistent, DeliveryConsistent, [Next]_vars
             PROVE  DeliveryConsistent'
  OBVIOUS
<1> USE DEF DeliveryConsistent, SuccessIsDelivered
<1>0. /\ cmdQ \in Seq(Entries) /\ pos \in Nat
      /\ reached \in [Requests -> SUBSET (Nat \ {0})]
      /\ reqs \in [Requests -> {"new", "queued", "running", "lost"} \cup Answered]
      /\ {"none", "init", "poll", "shutdown"} \cap Requests = {}
  BY RequestsAssumption DEF TypeOK
<1>1. CASE UNCHANGED <<job, pos, reply, reached, reqs>>
  BY <1>1 DEF Script
<1>2. CASE SerialWrite
  <2>1. UNCHANGED <<job, pos, reply, reqs>>
    BY <1>2 DEF SerialWrite
  <2>2. \A r \in Requests : reached[r] \subseteq reached'[r]
    BY <1>2, <1>0 DEF SerialWrite
  <2> QED BY <1>0, <2>1, <2>2 DEF Script
<1>3. CASE SerialRead
  <2>1. /\ UNCHANGED <<job, pos, reqs, reached>>
        /\ serial = "recv" /\ cmdQ # <<>> /\ cmdQ[1].op = "read"
        /\ reply' = "ok" => air # NoAnswer \/ cmdQ[1].job = "poll"
    BY <1>3, <1>0 DEF SerialRead
  <2>2. job \in Requests => cmdQ[1].job # "poll"
    BY <1>0, <2>1 DEF QueueFromTask
  <2>3. job \in Requests /\ reply' = "ok" => pos \in reached[job]
    BY <2>1, <2>2 DEF AirConsistent
  <2> QED BY <2>1, <2>3 DEF Script
<1>4. CASE SerialReadFails \/ SerialDrain
  <2>1. UNCHANGED <<job, pos, reqs, reached>> /\ reply' \in {"err", reply}
    BY <1>4 DEF SerialReadFails, SerialDrain
  <2> QED BY <2>1 DEF Script
<1>5. CASE TaskSend
  <2>1. /\ UNCHANGED <<job, reply, reqs, reached>>
        /\ \/ pos' = pos
           \/ pos' = pos + 1 /\ Script(job)[pos + 1] # "read" /\ task = "run"
    BY <1>5 DEF TaskSend
  <2>2. CASE pos' = pos
    BY <2>1, <2>2 DEF Script
  <2>3. CASE pos' = pos + 1 /\ Script(job)[pos + 1] # "read" /\ task = "run"
    <3>1. reply = "none" \/ ~(job \in Requests)
      BY <1>5, <2>3 DEF TaskSend, ReplyConsistent
    <3> QED BY <1>0, <2>1, <2>3, <3>1 DEF Script
  <2> QED BY <2>1, <2>2, <2>3
<1>6. CASE TaskReadOk
  <2>1. /\ UNCHANGED <<job, reqs, reached>> /\ reply = "ok" /\ reply' = "none"
        /\ pos' = pos + 1
    BY <1>6 DEF TaskReadOk
  <2> QED BY <1>0, <2>1 DEF Script
<1>16. CASE TaskReadFails \/ TaskScriptFails
  BY <1>16, <1>0 DEF TaskReadFails, TaskScriptFails, Script
<1>7. CASE TaskFails
  <2>1. /\ job' = "none" /\ reached' = reached
        /\ \A r \in Requests : reqs'[r] \in {reqs[r], "error"}
    BY <1>7, <1>0 DEF TaskFails
  <2> QED BY <1>0, <2>1
<1>8. CASE TaskScriptEnds
  <2>1. /\ job' = "none" /\ reached' = reached /\ job \in Jobs /\ pos = Len(Script(job))
        /\ \A r \in Requests : r # job => reqs'[r] = reqs[r]
    BY <1>8, <1>0 DEF TaskScriptEnds, TaskConsistent
  <2>2. ASSUME job \in Requests, NEW i \in 1..Len(CommandScript[job]),
               CommandScript[job][i] = "ask"
        PROVE  i \in reached[job]
    <3>1. Script(job) = CommandScript[job]
      BY <1>0, <2>2 DEF Script
    <3>2. i + 1 \in 1..Len(Script(job)) /\ Script(job)[i + 1] = "read" /\ i + 1 - 1 = i
      BY <2>1, <2>2, <3>1, AskThenRead, ScriptType
    <3> QED BY <2>1, <2>2, <3>2
  <2> QED BY <1>0, <2>1, <2>2
<1>9. ASSUME NEW v \in Values \cup {NoValue}, TaskPolled(v)
      PROVE  DeliveryConsistent'
  BY <1>9, <1>0 DEF TaskPolled
<1>10. CASE TaskTick \/ TaskReconnected
  <2>1. job' \notin Requests /\ UNCHANGED <<reqs, reached>>
    BY <1>10, <1>0 DEF TaskTick, TaskReconnected
  <2> QED BY <2>1
<1>11. CASE TaskExecute
  <2>1. /\ pos' = 0 /\ reached' = reached /\ reply' = reply /\ task = "idle"
        /\ \A r \in Requests : reqs'[r] \in {reqs[r], "running"}
    BY <1>11, <1>0 DEF TaskExecute
  <2> QED BY <2>1 DEF ReplyConsistent
<1>12. CASE TaskRefuse
  <2>1. /\ UNCHANGED <<job, pos, reply, reached>>
        /\ \A r \in Requests : reqs'[r] \in {reqs[r], "refused"}
    BY <1>12, <1>0 DEF TaskRefuse
  <2> QED BY <2>1 DEF Script
<1>13. CASE TaskDone
  <2>1. /\ UNCHANGED <<job, pos, reply, reached>>
        /\ \A r \in Requests : reqs'[r] \in {reqs[r], "lost"}
    BY <1>13, <1>0 DEF TaskDone
  <2> QED BY <2>1 DEF Script
<1>14. ASSUME NEW r \in Requests, Submit(r)
       PROVE  DeliveryConsistent'
  <2>1. /\ UNCHANGED <<job, pos, reply, reached>>
        /\ \A q \in Requests : reqs'[q] \in {reqs[q], "queued"}
    BY <1>14, <1>0 DEF Submit
  <2> QED BY <2>1 DEF Script
<1>15. CASE TaskStop
  <2>1. UNCHANGED <<job, pos, reply, reached, reqs>>
    BY <1>15 DEF TaskStop
  <2> QED BY <1>1, <2>1
<1> QED
  BY <1>1, <1>2, <1>3, <1>4, <1>5, <1>6, <1>7, <1>8, <1>9, <1>10, <1>11, <1>12, <1>13,
     <1>14, <1>15, <1>16
  DEF Next, SerialStep, TaskStep, LinkImproves, LinkWorsens, LinkStray, SerialWriteFails, SerialNotify,
      SerialDropPort, SerialReopen, SerialAnnounce, SerialExit, TaskDisconnected,
      RemoveDevice, ReplaceDevice

-----------------------------------------------------------------------------
(* The status cache, the end of the tasks, and the port.                   *)

LEMMA CacheStep == CacheHoldsLastPoll /\ [Next]_vars => CacheHoldsLastPoll'
<1> SUFFICES ASSUME CacheHoldsLastPoll, [Next]_vars
             PROVE  CacheHoldsLastPoll'
  OBVIOUS
<1>1. CASE UNCHANGED <<previous, cache>>
  BY <1>1 DEF CacheHoldsLastPoll
<1>2. ASSUME NEW v \in Values \cup {NoValue}, TaskPolled(v)
      PROVE  CacheHoldsLastPoll'
  BY <1>2 DEF TaskPolled, CacheHoldsLastPoll
<1> QED
  BY <1>1, <1>2
  DEF Next, SerialStep, TaskStep, LinkImproves, LinkWorsens, LinkStray, SerialWrite, SerialWriteFails,
      SerialRead, SerialReadFails, SerialNotify, SerialDrain, SerialDropPort, SerialReopen,
      SerialAnnounce, SerialExit, TaskSend, TaskReadOk, TaskReadFails, TaskScriptFails, TaskFails,
      TaskScriptEnds, TaskTick, TaskExecute, TaskRefuse, TaskStop, TaskDone,
      TaskDisconnected, TaskReconnected, Submit, RemoveDevice, ReplaceDevice

LEMMA OutlivesStep ==
  TypeOK /\ QueueFromTask /\ SerialOutlivesTask /\ [Next]_vars => SerialOutlivesTask'
<1> SUFFICES ASSUME TypeOK, QueueFromTask, SerialOutlivesTask, [Next]_vars
             PROVE  SerialOutlivesTask'
  OBVIOUS
<1> USE DEF SerialOutlivesTask
<1>1. CASE UNCHANGED <<serial, task>>
  BY <1>1
<1>2. CASE SerialExit
  <2>1. cmdQ \in Seq(Entries) /\ task' = task
    BY <1>2 DEF TypeOK, SerialExit
  <2> QED BY <1>2, <2>1 DEF SerialExit, QueueFromTask
<1>3. CASE SerialWriteFails \/ SerialReadFails \/ SerialNotify \/ SerialDropPort
           \/ SerialReopen \/ SerialAnnounce
  BY <1>3 DEF SerialWriteFails, SerialReadFails, SerialNotify, SerialDropPort, SerialReopen,
              SerialAnnounce
<1>4. CASE TaskSend \/ TaskReadOk \/ TaskReadFails \/ TaskScriptFails \/ TaskFails \/ TaskScriptEnds
           \/ TaskTick \/ TaskExecute \/ TaskStop \/ TaskDone \/ TaskReconnected
           \/ \E v \in Values \cup {NoValue} : TaskPolled(v)
  BY <1>4 DEF TaskSend, TaskReadOk, TaskReadFails, TaskScriptFails, TaskFails, TaskScriptEnds, TaskPolled,
              TaskTick, TaskExecute, TaskStop, TaskDone, TaskReconnected
<1> QED
  BY <1>1, <1>2, <1>3, <1>4
  DEF Next, SerialStep, TaskStep, LinkImproves, LinkWorsens, LinkStray, SerialWrite, SerialRead,
      SerialDrain, TaskRefuse, TaskDisconnected, Submit, RemoveDevice, ReplaceDevice

LEMMA PortInit == Init => PortConsistent
BY DEF Init, PortConsistent

LEMMA PortStep == TypeOK /\ PortConsistent /\ [Next]_vars => PortConsistent'
<1> SUFFICES ASSUME TypeOK, PortConsistent, [Next]_vars
             PROVE  PortConsistent'
  OBVIOUS
<1> USE DEF PortConsistent, TypeOK
<1>1. CASE UNCHANGED <<serial, port>>
  BY <1>1
<1>2. ASSUME NEW l \in {"good", "noisy", "off", "unplugged"}, LinkWorsens(l)
      PROVE  PortConsistent'
  BY <1>2 DEF LinkWorsens
<1>3. CASE SerialWriteFails \/ SerialReadFails \/ SerialNotify \/ SerialDropPort
           \/ SerialReopen \/ SerialAnnounce \/ SerialExit
  BY <1>3 DEF SerialWriteFails, SerialReadFails, SerialNotify, SerialDropPort, SerialReopen,
              SerialAnnounce, SerialExit
<1> QED
  BY <1>1, <1>2, <1>3
  DEF Next, SerialStep, TaskStep, LinkImproves, LinkStray, SerialWrite, SerialRead, SerialDrain,
      TaskSend, TaskReadOk, TaskReadFails, TaskScriptFails, TaskFails, TaskScriptEnds, TaskPolled,
      TaskTick, TaskExecute, TaskRefuse, TaskStop, TaskDone, TaskDisconnected, TaskReconnected,
      Submit, RemoveDevice, ReplaceDevice

-----------------------------------------------------------------------------
(* The invariant, and what follows from it.                                *)

LEMMA InvInit == Init => IInv
BY TypeInit, TaskInit, QueueInit, ReplyInit, AirInit, LossInit, FaultsInit, RequestsInit,
   WritesInit, AcceptedInit, InTurnInit, DeliveryInit, PortInit
DEF IInv, CacheHoldsLastPoll, SerialOutlivesTask, Init

LEMMA InvStep == IInv /\ [Next]_vars => IInv'
BY TypeStep, TaskStepConsistent, QueueStep, ReplyStep, AirStep, LossStep, FaultsStep,
   RequestsStep, AcceptedStep, WritesStep, InTurnStep, DeliveryStep, CacheStep, OutlivesStep,
   PortStep
DEF IInv

(* The parts of the inductive invariant hold together in every reachable   *)
(* state of the two tasks, their channels and the port.                    *)
THEOREM Invariance == Spec => []IInv
BY InvInit, InvStep, PTL DEF Spec

(* A script's read() is always answered exactly once: DeviceTask never     *)
(* waits for a read that is neither queued nor answered.                   *)
THEOREM ReadsArePaired == Spec => []ReadsPaired
<1>1. IInv => ReadsPaired
  BY DEF IInv, ReadsPaired, QueueFromTask, ReplyConsistent
<1> QED BY <1>1, Invariance, PTL

(* A read() only ever takes the radio's answer to the write() before it in *)
(* the same run of the same script, after any number of errors.            *)
THEOREM AnswersAreOwn == Spec => []AnswersOwnWrite
<1>1. IInv => AnswersOwnWrite
  BY DEF IInv, AirConsistent, AnswersOwnWrite
<1> QED BY <1>1, Invariance, PTL

(* A rig that lost its port and still counts as Connected is about to hear *)
(* of it: a poll cannot undo the news.                                     *)
THEOREM LossesAreAnnounced == Spec => []LossIsAnnounced
<1>1. IInv => LossIsAnnounced
  BY DEF IInv, LossIsAnnounced, LossConsistent, Recovering
<1> QED BY <1>1, Invariance, PTL

(* The two tasks can only block each other after enough handled errors to  *)
(* fill the message channel, whatever its capacity.                        *)
THEOREM CircularWaitsNeedFaults == Spec => []CircularWaitNeedsFaults
<1>1. IInv => CircularWaitNeedsFaults
  <2> SUFFICES ASSUME IInv, CircularWait
               PROVE  faults = MaxFaults \/ MessageCap + 1 <= 2 * faults
    BY DEF CircularWaitNeedsFaults
  <2>1. faults \in 0..MaxFaults /\ Len(msgs) = MessageCap /\ Unsent >= 1
    BY DEF IInv, TypeOK, CircularWait, Unsent, Recovering
  <2>2. Unsent \in Nat
    BY DEF Unsent
  <2> QED BY <2>1, <2>2 DEF IInv, FaultsConsistent
<1> QED BY <1>1, Invariance, PTL

(* No write of a client's command is written twice, by a retry, a          *)
(* reconnection or a second run of its script.                             *)
THEOREM WritesAreNotReplayed == Spec => []NeverReplayed
<1>1. IInv => NeverReplayed
  <2> SUFFICES ASSUME IInv, NEW i \in 1..Len(cmdQ), cmdQ[i].op \in {"ask", "tell"},
                      cmdQ[i].job \in Requests
               PROVE  cmdQ[i].at \notin reached[cmdQ[i].job]
    BY DEF NeverReplayed
  <2>1. cmdQ[i].at \in Nat
    BY DEF IInv, TypeOK, Entries
  <2>2. \A k \in reached[cmdQ[i].job] : k < cmdQ[i].at
    BY DEF IInv, WritesConsistent, IsWrite
  <2> QED BY <2>1, <2>2
<1> QED BY <1>1, Invariance, PTL

(* Success means that every write the radio acknowledges reached it.       *)
THEOREM SuccessMeansDelivered == Spec => []SuccessIsDelivered
<1>1. IInv => SuccessIsDelivered
  BY DEF IInv, DeliveryConsistent
<1> QED BY <1>1, Invariance, PTL

(* The status cache holds the last polled value, through any outage.       *)
THEOREM CacheIsCurrent == Spec => []CacheHoldsLastPoll
<1>1. IInv => CacheHoldsLastPoll
  BY DEF IInv
<1> QED BY <1>1, Invariance, PTL

(* SerialDevice never ends under a living DeviceTask.                      *)
THEOREM SerialEndsLast == Spec => []SerialOutlivesTask
<1>1. IInv => SerialOutlivesTask
  BY DEF IInv
<1> QED BY <1>1, Invariance, PTL

-----------------------------------------------------------------------------
(* The device keeps the promises of RigService                             *)

\* What an abstract step sees.
serviceVars == <<handle, taskQ, reqs, reached>>

LEMMA WaitingEmpty == taskQ = <<>> => Waiting = <<>>
BY DEF Waiting

\* Without Shutdown in it, the channel is what waits.
LEMMA WaitingAll ==
  ASSUME TypeOK, AcceptedConsistent, handle = "held"
  PROVE  Waiting = taskQ
BY DEF Waiting, AcceptedConsistent, TypeOK

\* What is taken from the channel is taken from what waits.
LEMMA WaitingHead ==
  ASSUME TypeOK, AcceptedConsistent, taskQ # <<>>, taskQ[1] \in Requests
  PROVE  /\ Waiting # <<>> /\ Waiting[1] = taskQ[1]
         /\ taskQ' = Tail(taskQ) => Waiting' = Tail(Waiting)
<1>0. /\ taskQ \in Seq(Requests \cup {"shutdown"}) /\ "shutdown" \notin Requests
      /\ Len(taskQ) \in Nat \ {0}
  BY RequestsAssumption DEF TypeOK
<1>1. CASE taskQ[Len(taskQ)] # "shutdown"
  <2>1. Waiting = taskQ
    BY <1>1 DEF Waiting
  <2>2. ASSUME taskQ' = Tail(taskQ)
        PROVE  Waiting' = Tail(taskQ)
    <3>1. taskQ' # <<>> => taskQ'[Len(taskQ')] = taskQ[Len(taskQ)]
      BY <1>0, <2>2
    <3> QED BY <1>1, <2>2, <3>1 DEF Waiting
  <2> QED BY <1>0, <2>1, <2>2
<1>2. CASE taskQ[Len(taskQ)] = "shutdown"
  <2>1. Waiting = SubSeq(taskQ, 1, Len(taskQ) - 1) /\ Len(taskQ) > 1
    BY <1>0, <1>2 DEF Waiting
  <2>2. /\ Waiting \in Seq(Requests \cup {"shutdown"}) /\ Len(Waiting) = Len(taskQ) - 1
        /\ \A i \in 1..Len(Waiting) : Waiting[i] = taskQ[i]
    BY <1>0, <2>1
  <2>3. ASSUME taskQ' = Tail(taskQ)
        PROVE  Waiting' = Tail(Waiting)
    <3>1. /\ taskQ' \in Seq(Requests \cup {"shutdown"}) /\ Len(taskQ') = Len(taskQ) - 1
          /\ \A i \in 1..Len(taskQ') : taskQ'[i] = taskQ[i + 1]
          /\ taskQ' # <<>> /\ taskQ'[Len(taskQ')] = "shutdown"
      BY <1>0, <1>2, <2>1, <2>3
    <3>2. Waiting' = SubSeq(taskQ', 1, Len(taskQ') - 1)
      BY <3>1 DEF Waiting
    <3>3. /\ Waiting' \in Seq(Requests \cup {"shutdown"}) /\ Len(Waiting') = Len(taskQ) - 2
          /\ \A i \in 1..Len(Waiting') : Waiting'[i] = taskQ[i + 1]
      BY <1>0, <2>1, <3>1, <3>2
    <3>4. /\ Tail(Waiting) \in Seq(Requests \cup {"shutdown"})
          /\ Len(Tail(Waiting)) = Len(taskQ) - 2
          /\ \A i \in 1..(Len(taskQ) - 2) : Tail(Waiting)[i] = taskQ[i + 1]
      <4>1. /\ Tail(Waiting) \in Seq(Requests \cup {"shutdown"})
            /\ Len(Tail(Waiting)) = Len(taskQ) - 2
            /\ \A i \in 1..(Len(taskQ) - 2) : Tail(Waiting)[i] = Waiting[i + 1]
        <5>1. /\ Waiting \in Seq(Requests \cup {"shutdown"}) /\ Waiting # <<>>
              /\ Len(Waiting) = Len(taskQ) - 1
          <6>1. Len(taskQ) > 1
            BY <2>1
          <6> QED BY <1>0, <2>2, <6>1
        <5> QED BY <1>0, <5>1
      <4>2. \A i \in 1..(Len(taskQ) - 2) : i + 1 \in 1..Len(Waiting)
        BY <1>0, <2>2
      <4> QED BY <2>2, <4>1, <4>2
    <3> QED BY <3>3, <3>4
  <2>4. Waiting # <<>> /\ Waiting[1] = taskQ[1]
    <3>1. 1 \in 1..Len(Waiting)
      BY <1>0, <2>1, <2>2
    <3> QED BY <2>2, <3>1
  <2> QED BY <2>3, <2>4
<1> QED BY <1>1, <1>2

LEMMA ServiceInit == Init => Service!Init
BY WaitingEmpty DEF Init, Service!Init

-----------------------------------------------------------------------------
(* A write of a request that reaches the port                              *)

LEMMA WriteReaches ==
  ASSUME IInv, SerialWrite, cmdQ[1].job \in Requests
  PROVE  Service!Reach(cmdQ[1].job, cmdQ[1].at) /\ cmdQ[1].at \in WritesOf[cmdQ[1].job]
<1> DEFINE c == cmdQ[1]
           r == c.job
           k == c.at
<1>0. /\ c \in Entries /\ r \in Requests /\ 1 \in 1..Len(cmdQ)
      /\ Head(cmdQ) = c /\ c.op \in {"ask", "tell"}
      /\ reqs \in [Requests -> {"new", "queued", "running", "lost"} \cup Answered]
  <2>1. cmdQ \in Seq(Entries) /\ cmdQ # <<>>
    BY DEF SerialWrite, IInv, TypeOK
  <2>2. /\ 1 \in 1..Len(cmdQ) /\ Head(cmdQ) = c /\ c \in Entries
    BY <2>1
  <2>3. Head(cmdQ).op \in {"ask", "tell"}
    BY DEF SerialWrite
  <2> QED BY <2>2, <2>3 DEF IInv, TypeOK
<1>1. /\ UNCHANGED <<handle, taskQ, reqs>>
      /\ reached' = [reached EXCEPT ![r] = @ \cup {k}]
  <2>1. UNCHANGED clientVars
    BY DEF SerialWrite
  <2>2. reached' = IF Head(cmdQ).job \in Requests
                   THEN [reached EXCEPT ![Head(cmdQ).job] = @ \cup {Head(cmdQ).at}]
                   ELSE reached
    BY DEF SerialWrite
  <2> QED BY <1>0, <2>1, <2>2 DEF clientVars
<1>a. k \in Nat \ {0}
  BY <1>0 DEF Entries, ShutdownEntry, Entry
<1>2. /\ k <= Len(Script(r)) /\ Script(r)[k] = c.op
      /\ c.op = "ask" => r = job /\ InScript
  <2>1. QueueFromTask
    BY DEF IInv
  <2> QED BY <1>0, <2>1 DEF QueueFromTask, Op
<1>3. Script(r) = CommandScript[r]
  BY <1>0, RequestsAssumption DEF Script
<1>4. k \in WritesOf[r] /\ (k \in AsksOf[r] => c.op = "ask")
  BY <1>0, <1>a, <1>2, <1>3 DEF WritesOf, AsksOf, Positions
<1>5. \A j \in reached[r] : j < k
  BY <1>0, <1>1 DEF IInv, WritesConsistent, IsWrite
<1>6. reqs[r] \in {"running", "ok", "error"}
  BY <1>0 DEF IInv, RequestsConsistent, AcceptedConsistent, Answered
<1>7. reqs[r] # "running" => r # job
  BY <1>0 DEF IInv, RequestsConsistent
<1>8. r # job => \A q \in Requests : reqs[q] = "running" => reached[q] = {}
  BY <1>0 DEF IInv, AcceptedConsistent, WritesInTurn
<1>9. Service!Reach(r, k)
  <2>1. \/ Service!Running(r)
        \/ /\ reqs[r] \in {"ok", "error"} /\ k \notin AsksOf[r]
           /\ \A q \in Requests : Service!Running(q) => reached[q] = {}
    BY <1>2, <1>4, <1>6, <1>7, <1>8 DEF Service!Running
  <2> QED BY <1>1, <1>4, <1>5, <2>1 DEF Service!Reach, Waiting
<1> QED BY <1>4, <1>9

-----------------------------------------------------------------------------
(* Each step of RigDevice is one of RigService, or leaves it as it is.     *)

LEMMA ServiceStep == IInv /\ IInv' /\ [Next]_vars => [Service!Next]_(Service!vars)
<1> SUFFICES ASSUME IInv, IInv', [Next]_vars
             PROVE  Service!Next \/ UNCHANGED Service!vars
  OBVIOUS
<1>0. /\ taskQ \in Seq(Requests \cup {"shutdown"}) /\ "shutdown" \notin Requests
      /\ reqs \in [Requests -> {"new", "queued", "running", "lost"} \cup Answered]
      /\ handle \in {"held", "dropped"}
      /\ "none" \notin Requests /\ "init" \notin Requests /\ "poll" \notin Requests
  BY RequestsAssumption DEF IInv, TypeOK
<1>1. CASE UNCHANGED serviceVars
  BY <1>1 DEF serviceVars, Service!vars, Waiting
<1>2. CASE SerialWrite
  <2>1. cmdQ # <<>> /\ Head(cmdQ) = cmdQ[1] /\ UNCHANGED <<handle, taskQ, reqs>>
    BY <1>2 DEF SerialWrite, clientVars, IInv, TypeOK
  <2>2. CASE cmdQ[1].job \in Requests
    BY <1>2, <2>2, WriteReaches DEF Service!Next
  <2>3. CASE cmdQ[1].job \notin Requests
    <3>1. reached' = reached
      BY <1>2, <2>1, <2>3 DEF SerialWrite
    <3> QED BY <1>1, <2>1, <3>1 DEF serviceVars
  <2> QED BY <2>2, <2>3
<1>3. CASE TaskFails \/ TaskScriptEnds
  <2>1. UNCHANGED <<handle, taskQ, reached>> /\ Waiting' = Waiting
    BY <1>3 DEF TaskFails, TaskScriptEnds, Waiting
  <2>2. CASE job \notin Requests
    BY <1>1, <1>3, <2>1, <2>2 DEF TaskFails, TaskScriptEnds, serviceVars
  <2>3. CASE job \in Requests /\ TaskFails
    <3>1. Service!Fail(job)
      BY <2>1, <2>3 DEF TaskFails, Service!Fail, Service!Running, IInv, RequestsConsistent
    <3> QED BY <2>3, <3>1 DEF Service!Next
  <2>4. CASE job \in Requests /\ TaskScriptEnds
    <3>1. reqs[job] = "running" /\ reqs' = [reqs EXCEPT ![job] = "ok"]
      BY <2>4 DEF TaskScriptEnds, IInv, RequestsConsistent
    <3>2. SuccessIsDelivered' /\ reqs'[job] = "ok"
      BY <1>0, <2>4, <3>1 DEF IInv, DeliveryConsistent
    <3>3. AsksOf[job] \subseteq reached[job]
      BY <2>1, <2>4, <3>2 DEF SuccessIsDelivered, AsksOf, Positions
    <3>4. Service!Succeed(job)
      BY <2>1, <3>1, <3>3 DEF Service!Succeed, Service!Running
    <3> QED BY <2>4, <3>4 DEF Service!Next
  <2> QED BY <1>3, <2>2, <2>3, <2>4
<1>4. CASE TaskExecute \/ TaskRefuse
  <2>1. /\ taskQ # <<>> /\ taskQ[1] \in Requests /\ taskQ' = Tail(taskQ)
        /\ UNCHANGED <<handle, reached>> /\ job = "none"
        /\ \/ reqs' = [reqs EXCEPT ![taskQ[1]] = "running"]
           \/ reqs' = [reqs EXCEPT ![taskQ[1]] = "refused"]
    BY <1>4, <1>0 DEF TaskExecute, TaskRefuse, taskVars, IInv, TaskConsistent, InScript
  <2>2. Waiting # <<>> /\ Head(Waiting) = taskQ[1] /\ Waiting' = Tail(Waiting)
    BY <2>1, WaitingHead DEF IInv
  <2>3. \A r \in Requests : ~ Service!Running(r)
    BY <1>0, <2>1 DEF IInv, AcceptedConsistent, Service!Running
  <2>4. Service!Begin \/ Service!Refuse
    BY <2>1, <2>2, <2>3 DEF Service!Begin, Service!Refuse, Service!Take
  <2> QED BY <2>4 DEF Service!Next
<1>5. CASE TaskStop
  <2>1. taskQ' = <<>> /\ UNCHANGED <<handle, reqs, reached>>
    BY <1>5 DEF TaskStop, IInv, AcceptedConsistent
  <2>2. Waiting = <<>>
    <3>1. CASE taskQ = <<>>
      BY <3>1, WaitingEmpty
    <3>2. CASE taskQ # <<>> /\ taskQ[1] = "shutdown"
      <4>1. 1 \in 1..Len(taskQ)
        BY <1>0, <3>2
      <4>2. Len(taskQ) = 1
        BY <3>2, <4>1 DEF IInv, AcceptedConsistent
      <4>3. Waiting = SubSeq(taskQ, 1, 0)
        BY <3>2, <4>2 DEF Waiting
      <4> QED BY <1>0, <4>3
    <3> QED BY <1>5, <1>0, <3>1, <3>2 DEF TaskStop
  <2>3. Waiting' = Waiting
    BY <2>1, <2>2 DEF Waiting
  <2> QED BY <2>1, <2>3 DEF Service!vars
<1>6. CASE TaskDone
  <2>1. taskQ = <<>> /\ taskQ' = <<>> /\ UNCHANGED <<handle, reached>>
    BY <1>6 DEF TaskDone, IInv, AcceptedConsistent
  <2>2. \A r \in Requests : reqs[r] # "queued"
    BY <2>1 DEF IInv, AcceptedConsistent
  <2>3. reqs' = reqs
    BY <1>0, <1>6, <2>2 DEF TaskDone
  <2> QED BY <1>1, <2>1, <2>3 DEF serviceVars
<1>7. ASSUME NEW r \in Requests, Submit(r)
      PROVE  Service!Next
  <2>1. /\ taskQ' = Append(taskQ, r) /\ UNCHANGED <<handle, reached>> /\ handle = "held"
        /\ reqs[r] = "new" /\ reqs' = [reqs EXCEPT ![r] = "queued"]
    BY <1>7 DEF Submit
  <2>2. Waiting = taskQ
    BY <2>1, WaitingAll DEF IInv
  <2>3. Waiting' = Append(taskQ, r)
    BY <1>0, <2>1 DEF Waiting
  <2>4. Service!Accept(r)
    BY <2>1, <2>2, <2>3 DEF Service!Accept
  <2> QED BY <2>4 DEF Service!Next
<1>8. CASE RemoveDevice
  <2>1. /\ taskQ' = Append(taskQ, "shutdown") /\ UNCHANGED <<reqs, reached>>
        /\ handle = "held" /\ handle' = "dropped"
    BY <1>8 DEF RemoveDevice
  <2>2. Waiting = taskQ
    BY <2>1, WaitingAll DEF IInv
  <2>3. Waiting' = taskQ
    <3>1. /\ taskQ' # <<>> /\ Len(taskQ') = Len(taskQ) + 1
          /\ taskQ'[Len(taskQ')] = "shutdown"
      BY <1>0, <2>1
    <3>2. Waiting' = SubSeq(taskQ', 1, Len(taskQ))
      BY <1>0, <3>1 DEF Waiting
    <3> QED BY <1>0, <2>1, <3>2
  <2>4. Service!Close
    BY <2>1, <2>2, <2>3 DEF Service!Close
  <2> QED BY <2>4 DEF Service!Next
<1>9. CASE ReplaceDevice
  <2>1. /\ UNCHANGED <<taskQ, reqs, reached>> /\ handle = "held" /\ handle' = "dropped"
    BY <1>9 DEF ReplaceDevice
  <2>2. Service!Close
    BY <2>1 DEF Service!Close, Waiting
  <2> QED BY <2>2 DEF Service!Next
<1> QED
  BY <1>1, <1>2, <1>3, <1>4, <1>5, <1>6, <1>7, <1>8, <1>9
  DEF Next, SerialStep, TaskStep, LinkImproves, LinkWorsens, LinkStray, SerialWriteFails,
      SerialRead, SerialReadFails, SerialNotify, SerialDrain, SerialDropPort, SerialReopen,
      SerialAnnounce, SerialExit, TaskSend, TaskReadOk, TaskReadFails, TaskScriptFails,
      TaskPolled, TaskTick, TaskDisconnected, TaskReconnected,
      vars, serialVars, taskVars, clientVars, serviceVars

(* A rig keeps every promise of RigService: requests are taken in order    *)
(* and one at a time, none is lost, written twice, written after a refusal *)
(* or mixed with another, whatever the radio and the cable do.             *)
THEOREM RigKeepsPromises == Spec => ImplementsService
<1>1. Init => Service!Init
  BY ServiceInit
<1>2. IInv /\ IInv' /\ [Next]_vars => [Service!Next]_(Service!vars)
  BY ServiceStep
<1>3. Spec => []IInv
  BY Invariance
<1> QED BY <1>1, <1>2, <1>3, PTL DEF Spec, Service!Spec, ImplementsService

-----------------------------------------------------------------------------
(* A rig is a device of the manager: what it has of its channels           *)

LEMMA DisconnectedFinite ==
  ASSUME NEW M, NEW m \in Seq(M)
  PROVE  /\ IsFiniteSet(DisconnectedIn(m)) /\ Cardinality(DisconnectedIn(m)) \in Nat
         /\ Cardinality(DisconnectedIn(m)) <= Len(m)
<1>1. Len(m) \in Nat /\ DisconnectedIn(m) \in SUBSET (1..Len(m))
  BY DEF DisconnectedIn
<1>2. IsFiniteSet(1..Len(m)) /\ Cardinality(1..Len(m)) = Len(m)
  BY <1>1, FS_Interval
<1>3. IsFiniteSet(DisconnectedIn(m)) /\ Cardinality(DisconnectedIn(m)) <= Cardinality(1..Len(m))
  BY <1>1, <1>2, FS_Subset
<1>4. Cardinality(DisconnectedIn(m)) \in Nat
  BY <1>3, FS_CardinalityType
<1> QED
  BY <1>2, <1>3, <1>4

LEMMA DisconnectedAppend ==
  ASSUME NEW M, NEW m \in Seq(M), NEW x \in M
  PROVE  Cardinality(DisconnectedIn(Append(m, x))) =
           IF x = "Disconnected" THEN Cardinality(DisconnectedIn(m)) + 1 ELSE Cardinality(DisconnectedIn(m))
<1>1. /\ Len(m) \in Nat /\ Len(Append(m, x)) = Len(m) + 1
      /\ \A i \in 1..Len(m) : Append(m, x)[i] = m[i]
      /\ Append(m, x)[Len(m) + 1] = x
  OBVIOUS
<1>2. DisconnectedIn(Append(m, x)) =
        IF x = "Disconnected" THEN DisconnectedIn(m) \cup {Len(m) + 1} ELSE DisconnectedIn(m)
  <2>1. ASSUME NEW i
        PROVE  i \in DisconnectedIn(Append(m, x)) <=>
                 \/ i \in DisconnectedIn(m)
                 \/ i = Len(m) + 1 /\ x = "Disconnected"
    <3>1. i \in 1..Len(Append(m, x)) <=> i \in 1..Len(m) \/ i = Len(m) + 1
      BY <1>1
    <3>2. Len(m) + 1 \notin 1..Len(m)
      BY <1>1
    <3> QED BY <1>1, <3>1, <3>2 DEF DisconnectedIn
  <2> QED BY <2>1
<1>3. Len(m) + 1 \notin DisconnectedIn(m)
  BY <1>1 DEF DisconnectedIn
<1>4. Cardinality(DisconnectedIn(m) \cup {Len(m) + 1}) = Cardinality(DisconnectedIn(m)) + 1
  BY <1>3, DisconnectedFinite, FS_AddElement
<1> QED
  BY <1>2, <1>4

LEMMA DisconnectedTail ==
  ASSUME NEW M, NEW m \in Seq(M), m # <<>>
  PROVE  Cardinality(DisconnectedIn(Tail(m))) =
           IF Head(m) = "Disconnected" THEN Cardinality(DisconnectedIn(m)) - 1
                                       ELSE Cardinality(DisconnectedIn(m))
<1>1. /\ Len(m) \in Nat \ {0} /\ Len(Tail(m)) = Len(m) - 1 /\ Head(m) = m[1]
      /\ Tail(m) \in Seq(M)
      /\ \A i \in 1..Len(m) - 1 : Tail(m)[i] = m[i + 1]
  OBVIOUS
<1> DEFINE S == DisconnectedIn(Tail(m))
           T == DisconnectedIn(m) \ {1}
           f == [i \in S |-> i + 1]
<1>2. S \subseteq 1..Len(m) - 1 /\ T \subseteq 2..Len(m)
  BY <1>1 DEF DisconnectedIn
<1>3. \A i \in 1..Len(m) - 1 : i \in S <=> i + 1 \in T
  BY <1>1 DEF DisconnectedIn
<1>4. f \in Bijection(S, T)
  <2>1. f \in [S -> T]
    BY <1>2, <1>3
  <2>2. \A a, b \in S : f[a] = f[b] => a = b
    BY <1>2
  <2>3. \A t \in T : \E s \in S : f[s] = t
    <3> SUFFICES ASSUME NEW t \in T PROVE \E s \in S : f[s] = t
      OBVIOUS
    <3>1. t - 1 \in 1..Len(m) - 1 /\ (t - 1) + 1 = t
      BY <1>1, <1>2
    <3>2. t - 1 \in S
      BY <1>3, <3>1
    <3> QED BY <3>1, <3>2
  <2> QED BY <2>1, <2>2, <2>3 DEF Bijection, Injection, Surjection, IsInjective
<1>5. IsFiniteSet(S) /\ ExistsBijection(S, T)
  BY <1>1, <1>4, DisconnectedFinite DEF ExistsBijection
<1>6. Cardinality(T) = Cardinality(S)
  BY <1>5, FS_Bijection
<1>7. Cardinality(T) = IF 1 \in DisconnectedIn(m) THEN Cardinality(DisconnectedIn(m)) - 1
                                             ELSE Cardinality(DisconnectedIn(m))
  BY DisconnectedFinite, FS_RemoveElement
<1>8. 1 \in DisconnectedIn(m) <=> Head(m) = "Disconnected"
  BY <1>1 DEF DisconnectedIn
<1> QED
  BY <1>6, <1>7, <1>8

LEMMA KindsType ==
  ASSUME NEW Q, NEW q \in Seq(Q)
  PROVE  Kinds(q) \in Seq({"execute", "shutdown"}) /\ Len(Kinds(q)) = Len(q)
BY DEF Kinds, Kind

LEMMA KindsAppend ==
  ASSUME NEW Q, NEW q \in Seq(Q), NEW x \in Q
  PROVE  Kinds(Append(q, x)) = Append(Kinds(q), Kind(x))
<1>1. /\ Len(Append(q, x)) = Len(q) + 1 /\ Len(q) \in Nat
      /\ \A i \in 1..Len(q) : Append(q, x)[i] = q[i]
      /\ Append(q, x)[Len(q) + 1] = x
      /\ Append(q, x) \in Seq(Q)
  OBVIOUS
<1>2. /\ Kinds(q) \in Seq({"execute", "shutdown"}) /\ Len(Kinds(q)) = Len(q)
      /\ Kinds(Append(q, x)) \in Seq({"execute", "shutdown"})
      /\ Len(Kinds(Append(q, x))) = Len(q) + 1
  BY <1>1, KindsType
<1>3. Kind(x) \in {"execute", "shutdown"}
  BY DEF Kind
<1>4. \A i \in 1..Len(q) + 1 : Kinds(Append(q, x))[i] = IF i = Len(q) + 1 THEN Kind(x) ELSE Kinds(q)[i]
  BY <1>1 DEF Kinds
<1> HIDE DEF Kinds, Kind
<1> QED
  BY <1>1, <1>2, <1>3, <1>4

LEMMA KindsTail ==
  ASSUME NEW Q, NEW q \in Seq(Q), q # <<>>
  PROVE  /\ Kinds(q) # <<>> /\ Kinds(Tail(q)) = Tail(Kinds(q))
         /\ Head(Kinds(q)) = Kind(Head(q))
<1>1. /\ Len(q) \in Nat \ {0} /\ Tail(q) \in Seq(Q) /\ Len(Tail(q)) = Len(q) - 1
      /\ \A i \in 1..Len(q) - 1 : Tail(q)[i] = q[i + 1]
      /\ Head(q) = q[1]
  OBVIOUS
<1>2. /\ Kinds(q) \in Seq({"execute", "shutdown"}) /\ Len(Kinds(q)) = Len(q)
      /\ Kinds(Tail(q)) \in Seq({"execute", "shutdown"})
      /\ Len(Kinds(Tail(q))) = Len(q) - 1
  BY <1>1, KindsType
<1>3. \A i \in 1..Len(q) - 1 : Kinds(Tail(q))[i] = Kinds(q)[i + 1]
  BY <1>1 DEF Kinds
<1>4. Kinds(q)[1] = Kind(q[1])
  BY <1>1 DEF Kinds
<1> HIDE DEF Kinds, Kind
<1>5. Kinds(q) # <<>> /\ Head(Kinds(q)) = Kinds(q)[1]
  BY <1>1, <1>2
<1>6. Kinds(Tail(q)) = Tail(Kinds(q))
  BY <1>1, <1>2, <1>3
<1> QED
  BY <1>1, <1>4, <1>5, <1>6

-----------------------------------------------------------------------------
\* The steps of DeviceManager, on its only device.

DeviceRecord ==
  [id : {0}, config : {"config"}, phase : {"free", "serving", "closing"}, handle : BOOLEAN,
   port : {"open", "broken", "closed"}, lost : Nat, status : {"Connecting", "Connected"},
   queue : Seq({"execute", "shutdown"}), stuck : BOOLEAN]

LEMMA DeviceType ==
  ASSUME TypeOK
  PROVE  Device \in DeviceRecord
<1>1. Lost \in Nat
  BY DisconnectedFinite DEF Lost, TypeOK
<1>2. Kinds(taskQ) \in Seq({"execute", "shutdown"})
  BY KindsType DEF TypeOK
<1>3. PortInUse \in {"open", "broken", "closed"}
  BY DEF PortInUse, TypeOK
<1>4. Stuck \in BOOLEAN
  BY DEF Stuck, CircularWait
<1> QED
  BY <1>1, <1>2, <1>3, <1>4 DEF Device, DeviceRecord, NoDevice, TypeOK

USE DEF Manager!mgrVars, Manager!Openable, Manager!Slots, Manager!Ended, Manager!Receives,
        Manager!DropHandle, Manager!Serves, Manager!Closes

LEMMA OneSlot ==
  ASSUME NEW d, NEW e
  PROVE  /\ [s \in 1..1 |-> e] = [[s \in 1..1 |-> d] EXCEPT ![1] = e]
         /\ [s \in 1..1 |-> d][1] = d
OBVIOUS

LEMMA ManagerBecomes ==
  ASSUME NEW d \in DeviceRecord, NEW b \in BOOLEAN, b => d.port # "closed",
         Device' = [d EXCEPT !.stuck = b]
  PROVE  Manager!Becomes(1, d)
<1> DEFINE e == [d EXCEPT !.stuck = b]
<1>1. [s \in 1..1 |-> e] = [[s \in 1..1 |-> Device] EXCEPT ![1] = e]
  BY OneSlot
<1>2. [s \in 1..1 |-> Device'] = [s \in 1..1 |-> e]
  OBVIOUS
<1>3. [s \in 1..1 |-> Device'] = [[s \in 1..1 |-> Device] EXCEPT ![1] = [d EXCEPT !.stuck = b]]
  BY <1>1, <1>2
<1> QED BY <1>3 DEF Manager!Becomes

LEMMA ManagerLoses ==
  ASSUME Device \in DeviceRecord, UNCHANGED <<Plugged, status>>, Device.port # "closed",
         ~Device.stuck,
         \/ /\ Device.phase = "serving" /\ Device.lost < MessageCap
            /\ Device' = [Device EXCEPT !.port = "closed", !.lost = @ + 1]
         \/ /\ Device.phase = "closing"
            /\ Device' = [Device EXCEPT !.port = "closed"]
  PROVE  Manager!SerialLoses(1)
<1>1. CASE Device.phase = "serving" /\ Device' = [Device EXCEPT !.port = "closed", !.lost = @ + 1]
           /\ Device.lost < MessageCap
  <2>1. [s \in 1..1 |-> Device'] =
          [[s \in 1..1 |-> Device] EXCEPT ![1].port = "closed", ![1].lost = @ + 1]
    BY <1>1 DEF DeviceRecord
  <2> QED BY <1>1, <2>1 DEF Manager!SerialLoses
<1>2. CASE Device.phase = "closing" /\ Device' = [Device EXCEPT !.port = "closed"]
  BY <1>2 DEF Manager!SerialLoses, DeviceRecord
<1> QED BY <1>1, <1>2

LEMMA ManagerReopens ==
  ASSUME Device \in DeviceRecord, UNCHANGED <<Plugged, status>>, Device.port = "closed",
         Device.phase # "free", Plugged = {ThePort},
         NEW b \in BOOLEAN, Device' = [Device EXCEPT !.port = "open", !.stuck = b]
  PROVE  Manager!SerialReopens(1)
<1> DEFINE d == [Device EXCEPT !.port = "open"]
<1>1. d \in DeviceRecord /\ d.port = "open" /\ Device' = [d EXCEPT !.stuck = b]
  BY DEF DeviceRecord
<1> HIDE DEF d
<1>2. Manager!Becomes(1, d)
  BY <1>1, ManagerBecomes
<1>3. Manager!Becomes(1, [[s \in 1..1 |-> Device][1] EXCEPT !.port = "open"])
  BY <1>2, OneSlot DEF d
<1>4. Manager!Openable([c \in {"config"} |-> ThePort][[s \in 1..1 |-> Device][1].config])
  BY DEF DeviceRecord
<1> HIDE DEF Manager!Openable
<1> QED BY <1>3, <1>4 DEF Manager!SerialReopens

LEMMA ManagerSticks ==
  ASSUME Device \in DeviceRecord, UNCHANGED <<Plugged, status>>, Device.port # "closed",
         Device.phase # "free", ~Device.stuck, Device' = [Device EXCEPT !.stuck = TRUE]
  PROVE  Manager!Sticks(1)
<1>1. [s \in 1..1 |-> Device'] = [[s \in 1..1 |-> Device] EXCEPT ![1].stuck = TRUE]
  <2>1. [s \in 1..1 |-> Device'] = [[s \in 1..1 |-> Device] EXCEPT ![1] = Device']
    BY OneSlot
  <2>2. Device' = [[s \in 1..1 |-> Device][1] EXCEPT !.stuck = TRUE]
    BY OneSlot
  <2> QED BY <2>1, <2>2
<1>2. Device.phase = "serving" \/ Device.phase = "closing"
  BY DEF DeviceRecord
<1> QED BY <1>1, <1>2 DEF Manager!Sticks

LEMMA ManagerFree == Manager!FreeTask = NoDevice
<1>1. (CHOOSE c \in {"config"} : TRUE) = "config"
  OBVIOUS
<1> QED BY <1>1 DEF Manager!FreeTask, NoDevice

LEMMA ManagerEnds ==
  ASSUME Device \in DeviceRecord, UNCHANGED <<Plugged, status>>, Device.port # "closed",
         Device.phase = "closing", ~Device.stuck, Device' = NoDevice
  PROVE  Manager!SerialEnds(1)
BY ManagerFree DEF Manager!SerialEnds, DeviceRecord

LEMMA ManagerConnected ==
  ASSUME Device \in DeviceRecord, UNCHANGED Plugged, Device.port # "closed",
         Device.phase = "serving", ~Device.stuck,
         Device.status = "Connecting", status' = "Connected",
         Device' = [Device EXCEPT !.status = "Connected"]
  PROVE  Manager!TaskConnected(1)
BY DEF Manager!TaskConnected, DeviceRecord

LEMMA ManagerDisconnected ==
  ASSUME Device \in DeviceRecord, UNCHANGED Plugged,
         Device.phase = "serving", ~Device.stuck, Device.lost > 0, status' = "Connecting",
         Device' = [Device EXCEPT !.status = "Connecting", !.lost = @ - 1]
  PROVE  Manager!TaskDisconnected(1)
BY DEF Manager!TaskDisconnected, DeviceRecord

LEMMA ManagerTakes ==
  ASSUME Device \in DeviceRecord, UNCHANGED <<Plugged, status>>,
         Device.phase = "serving", ~Device.stuck, Device.queue # <<>>,
         Head(Device.queue) # "shutdown",
         Device' = [Device EXCEPT !.queue = Tail(@)]
  PROVE  Manager!TaskTakes(1)
<1> DEFINE d == [Device EXCEPT !.queue = Tail(@)]
<1>0. Device' = d
  OBVIOUS
<1> HIDE DEF d
<1>1. [s \in 1..1 |-> Device'] = [[s \in 1..1 |-> Device] EXCEPT ![1] = d]
  <2>1. [s \in 1..1 |-> Device'] = [[s \in 1..1 |-> Device] EXCEPT ![1] = Device']
    BY OneSlot
  <2> QED BY <1>0, <2>1
<1> USE DEF d
<1> QED BY <1>1 DEF Manager!TaskTakes

LEMMA ManagerTakesShutdown ==
  ASSUME Device \in DeviceRecord, UNCHANGED <<Plugged, status>>,
         Device.phase = "serving", ~Device.stuck, Device.queue # <<>>,
         Head(Device.queue) = "shutdown",
         NEW b \in BOOLEAN, b => Device.port # "closed",
         Device' = [Device EXCEPT !.queue = Tail(@), !.phase = "closing", !.lost = 0,
                                  !.stuck = b]
  PROVE  Manager!TaskTakes(1)
<1> DEFINE t == Tail(Device.queue)
           q == [Device EXCEPT !.queue = t]
           d == Manager!Ended(q)
<1>0. t \in Seq({"execute", "shutdown"})
  BY DEF DeviceRecord
<1>1. Device' = [Device EXCEPT !.queue = t, !.phase = "closing", !.lost = 0, !.stuck = b]
  OBVIOUS
<1> HIDE DEF t
<1>2. d \in DeviceRecord /\ d.port = Device.port
  BY <1>0 DEF DeviceRecord
<1>3. Device' = [d EXCEPT !.stuck = b]
  BY <1>0, <1>1 DEF DeviceRecord
<1> HIDE DEF d
<1>4. Manager!Becomes(1, d)
  BY <1>2, <1>3, ManagerBecomes
<1>5. Manager!Becomes(1, Manager!Ended([[s \in 1..1 |-> Device][1] EXCEPT !.queue = Tail(@)]))
  BY <1>4, OneSlot DEF d, t
<1> HIDE DEF Manager!Becomes
<1> QED BY <1>5 DEF Manager!TaskTakes

LEMMA ManagerDropped ==
  ASSUME Device \in DeviceRecord, UNCHANGED <<Plugged, status>>,
         Device.phase = "serving", ~Device.stuck, Device.queue = <<>>, ~Device.handle,
         NEW b \in BOOLEAN, b => Device.port # "closed",
         Device' = [Device EXCEPT !.phase = "closing", !.lost = 0, !.stuck = b]
  PROVE  Manager!TaskDropped(1)
<1> DEFINE d == Manager!Ended(Device)
<1>1. d \in DeviceRecord /\ d.port = Device.port /\ Device' = [d EXCEPT !.stuck = b]
  BY DEF DeviceRecord
<1> HIDE DEF d
<1>2. Manager!Becomes(1, d)
  BY <1>1, ManagerBecomes
<1> QED BY <1>2, OneSlot DEF Manager!TaskDropped, d

LEMMA ManagerSends ==
  ASSUME Device \in DeviceRecord, NEW what \in {"execute", "shutdown"},
         Len(Device.queue) < TaskCap,
         Device' = [Device EXCEPT !.queue = Append(@, what),
                                  !.handle = IF what = "shutdown" THEN FALSE ELSE @]
  PROVE  Manager!Receives(1, what)
BY DEF DeviceRecord

LEMMA ManagerDrops ==
  ASSUME Device \in DeviceRecord, Device' = [Device EXCEPT !.handle = FALSE]
  PROVE  Manager!DropHandle(1)
BY DEF DeviceRecord

LEMMA ManagerUnplugs ==
  ASSUME Device \in DeviceRecord, UNCHANGED status, Plugged = {ThePort}, Plugged' = {},
         Device' = IF Device.port = "open" THEN [Device EXCEPT !.port = "broken"] ELSE Device
  PROVE  Manager!Unplug(ThePort)
BY DEF Manager!Unplug, DeviceRecord

LEMMA ManagerPlugs ==
  ASSUME UNCHANGED <<Device, status>>, Plugged = {}, Plugged' = {ThePort}
  PROVE  Manager!Plug(ThePort)
BY DEF Manager!Plug

-----------------------------------------------------------------------------
\* What a step of the rig does to the device the manager knows.

DeviceFields ==
  /\ Device \in DeviceRecord
  /\ serial # "done" =>
       /\ Device.phase = IF Closing THEN "closing" ELSE "serving"
       /\ Device.handle <=> handle = "held"
       /\ Device.port = PortInUse /\ Device.lost = Lost
       /\ Device.status = status /\ Device.queue = Kinds(taskQ)
       /\ Device.stuck <=> Stuck

LEMMA FieldsHold == TypeOK => DeviceFields
BY DeviceType DEF DeviceFields, Device

LEMMA FieldsHoldNext == TypeOK' => DeviceFields'
BY FieldsHold, PTL

LEMMA SameRecord ==
  ASSUME NEW d \in DeviceRecord, NEW e \in DeviceRecord,
         e.phase = d.phase, e.handle <=> d.handle, e.port = d.port, e.lost = d.lost,
         e.status = d.status, e.queue = d.queue, e.stuck <=> d.stuck
  PROVE  e = d
BY DEF DeviceRecord

\* What has changed of a device when its fields are those of d but for a few
LEMMA NewPort ==
  ASSUME NEW d \in DeviceRecord, NEW e \in DeviceRecord,
         e.phase = d.phase, e.handle <=> d.handle, e.status = d.status, e.queue = d.queue
  PROVE  /\ e.lost = d.lost => e = [d EXCEPT !.port = e.port, !.stuck = e.stuck]
         /\ (e.stuck <=> d.stuck) => e = [d EXCEPT !.port = e.port, !.lost = e.lost]
<1> DEFINE p == e.port  l == e.lost  b == e.stuck
           f == [d EXCEPT !.port = p, !.stuck = b]
           g == [d EXCEPT !.port = p, !.lost = l]
<1>1. p = e.port /\ l = e.lost /\ b = e.stuck /\ e.port \in {"open", "broken", "closed"}
      /\ l \in Nat /\ b \in BOOLEAN
  BY DEF DeviceRecord
<1> HIDE DEF p, l, b
<1>2. /\ f \in DeviceRecord /\ f.phase = d.phase /\ f.handle = d.handle /\ f.port = p
      /\ f.lost = d.lost /\ f.status = d.status /\ f.queue = d.queue /\ f.stuck = b
  BY <1>1 DEF DeviceRecord
<1>3. /\ g \in DeviceRecord /\ g.phase = d.phase /\ g.handle = d.handle /\ g.port = p
      /\ g.lost = l /\ g.status = d.status /\ g.queue = d.queue /\ g.stuck = d.stuck
  BY <1>1 DEF DeviceRecord
<1> HIDE DEF f, g
<1>4. e.lost = d.lost => e = f
  BY <1>1, <1>2, SameRecord
<1>5. (e.stuck <=> d.stuck) => e = g
  BY <1>1, <1>3, SameRecord
<1> QED BY <1>4, <1>5 DEF f, g, p, l, b

LEMMA NewStatus ==
  ASSUME NEW d \in DeviceRecord, NEW e \in DeviceRecord,
         e.phase = d.phase, e.handle <=> d.handle, e.port = d.port, e.queue = d.queue,
         e.stuck <=> d.stuck
  PROVE  e = [d EXCEPT !.status = e.status, !.lost = e.lost]
<1> DEFINE s == e.status  l == e.lost
           f == [d EXCEPT !.status = s, !.lost = l]
<1>1. s = e.status /\ l = e.lost /\ s \in {"Connecting", "Connected"} /\ l \in Nat
  BY DEF DeviceRecord
<1> HIDE DEF s, l
<1>2. /\ f \in DeviceRecord /\ f.phase = d.phase /\ f.handle = d.handle /\ f.port = d.port
      /\ f.lost = l /\ f.status = s /\ f.queue = d.queue /\ f.stuck = d.stuck
  BY <1>1 DEF DeviceRecord
<1> HIDE DEF f
<1>3. e = f
  BY <1>1, <1>2, SameRecord
<1> QED BY <1>3 DEF f, s, l

LEMMA NewQueue ==
  ASSUME NEW d \in DeviceRecord, NEW e \in DeviceRecord,
         e.phase = d.phase, e.port = d.port, e.lost = d.lost, e.status = d.status,
         e.stuck <=> d.stuck
  PROVE  e = [d EXCEPT !.queue = e.queue, !.handle = e.handle]
<1> DEFINE q == e.queue  h == e.handle
           f == [d EXCEPT !.queue = q, !.handle = h]
<1>1. q = e.queue /\ h = e.handle /\ q \in Seq({"execute", "shutdown"}) /\ h \in BOOLEAN
  BY DEF DeviceRecord
<1> HIDE DEF q, h
<1>2. /\ f \in DeviceRecord /\ f.phase = d.phase /\ f.handle = h /\ f.port = d.port
      /\ f.lost = d.lost /\ f.status = d.status /\ f.queue = q /\ f.stuck = d.stuck
  BY <1>1 DEF DeviceRecord
<1> HIDE DEF f
<1>3. e = f
  BY <1>1, <1>2, SameRecord
<1> QED BY <1>3 DEF f, q, h

\* A device whose DeviceTask has ended, by a command or without one
LEMMA EndedByCommand ==
  ASSUME NEW d \in DeviceRecord, NEW e \in DeviceRecord,
         e.phase = "closing", e.lost = 0, e.status = d.status, e.port = d.port,
         e.handle = d.handle, e.queue = Tail(d.queue), d.queue # <<>>
  PROVE  e = [d EXCEPT !.queue = Tail(@), !.phase = "closing", !.lost = 0, !.stuck = e.stuck]
<1> DEFINE b == e.stuck
           f == [d EXCEPT !.queue = Tail(@), !.phase = "closing", !.lost = 0, !.stuck = b]
<1>1. e.stuck = b /\ b \in BOOLEAN
  BY DEF DeviceRecord
<1> HIDE DEF b
<1>2. /\ f \in DeviceRecord /\ f.phase = "closing" /\ f.lost = 0 /\ f.status = d.status
      /\ f.port = d.port /\ f.handle = d.handle /\ f.queue = Tail(d.queue) /\ f.stuck = b
  BY <1>1 DEF DeviceRecord
<1> DEFINE q == Tail(d.queue)
<1>3. e.queue = q /\ f.queue = q
  BY <1>2
<1> HIDE DEF f, q
<1>4. e = f
  BY <1>1, <1>2, <1>3 DEF DeviceRecord
<1> QED BY <1>4 DEF f, b

LEMMA EndedByDrop ==
  ASSUME NEW d \in DeviceRecord, NEW e \in DeviceRecord,
         e.phase = "closing", e.lost = 0, e.status = d.status, e.port = d.port,
         e.handle = d.handle, e.queue = d.queue
  PROVE  e = [d EXCEPT !.phase = "closing", !.lost = 0, !.stuck = e.stuck]
<1> DEFINE b == e.stuck
           g == [d EXCEPT !.phase = "closing", !.lost = 0, !.stuck = b]
<1>1. e.stuck = b /\ b \in BOOLEAN
  BY DEF DeviceRecord
<1> HIDE DEF b
<1>2. /\ g \in DeviceRecord /\ g.phase = "closing" /\ g.lost = 0 /\ g.status = d.status
      /\ g.port = d.port /\ g.handle = d.handle /\ g.queue = d.queue /\ g.stuck = b
  BY <1>1 DEF DeviceRecord
<1> HIDE DEF g
<1>3. e = g
  BY <1>1, <1>2 DEF DeviceRecord
<1> QED BY <1>3 DEF g, b

managedVars == <<Device, Plugged, status>>

\* Two tasks that wait on each other do nothing more.
LEMMA StuckWaits ==
  ASSUME IInv, Stuck
  PROVE  ~SerialStep /\ ~TaskStep
<1>1. /\ serial \in {"notify", "announce"} /\ Len(msgs) = MessageCap
      /\ \/ task = "await" /\ reply = "none"
         \/ /\ task = "run" /\ pos < Len(Script(job)) /\ Len(cmdQ) = CommandCap
            /\ Script(job)[pos + 1] = "read"
         \/ task = "closing" /\ Len(cmdQ) = CommandCap
  BY DEF Stuck, CircularWait
<1>2. ~SerialStep
  BY <1>1, CapacityAssumption
     DEF SerialStep, SerialWrite, SerialWriteFails, SerialRead, SerialReadFails, SerialNotify,
         SerialDrain, SerialDropPort, SerialReopen, SerialAnnounce, SerialExit, SendMessage
<1>3. ~TaskStep
  BY <1>1, CapacityAssumption
     DEF TaskStep, TaskSend, TaskReadOk, TaskReadFails, TaskScriptFails, TaskFails,
         TaskScriptEnds, TaskPolled, TaskTick, TaskExecute, TaskRefuse, TaskStop, TaskDone,
         TaskDisconnected, TaskReconnected, ScriptEnds
<1> QED BY <1>2, <1>3

LEMMA StuckHasPort ==
  ASSUME IInv, Stuck
  PROVE  serial # "done" /\ PortInUse # "closed"
BY DEF Stuck, CircularWait, IInv, PortConsistent, PortInUse

LEMMA StuckHasPortNext == IInv' /\ Stuck' => serial' # "done" /\ PortInUse' # "closed"
BY DEF Stuck, CircularWait, IInv, PortConsistent, PortInUse

\* A step of which the manager only sees that the device does nothing from then on, if it
\* sees anything.
LEMMA DeviceStays ==
  ASSUME DeviceFields, DeviceFields', IInv', ~Stuck, serial # "done", serial' # "done",
         UNCHANGED <<PortInUse, status, handle, taskQ, Lost, Plugged>>, Closing' = Closing
  PROVE  Manager!DeviceStep(1) \/ UNCHANGED managedVars
<1>1. CASE ~Stuck'
  <2>1. Device' = Device
    BY <1>1, SameRecord DEF DeviceFields
  <2> QED BY <2>1 DEF managedVars
<1>2. CASE Stuck'
  <2>1. PortInUse # "closed"
    BY <1>2, StuckHasPortNext
  <2>2. /\ Device \in DeviceRecord /\ Device' \in DeviceRecord
        /\ Device.port # "closed" /\ Device.phase # "free" /\ ~Device.stuck
    BY <2>1 DEF DeviceFields
  <2>3. Device' = [Device EXCEPT !.stuck = TRUE]
    <3>1. /\ Device'.stuck = TRUE
          /\ Device'.phase = Device.phase
          /\ Device'.handle = Device.handle
          /\ Device'.port = Device.port
          /\ Device'.lost = Device.lost
          /\ Device'.status = Device.status
          /\ Device'.queue = Device.queue
      BY <1>2, <2>2 DEF DeviceFields, DeviceRecord
    <3> QED BY <2>2, <3>1 DEF DeviceRecord
  <2>4. Manager!Sticks(1)
    BY <2>2, <2>3, ManagerSticks
  <2> QED BY <2>4 DEF Manager!DeviceStep
<1> QED BY <1>1, <1>2

\* DeviceTask still runs when there is anything for it to do, or to be given.
LEMMA Alive ==
  ASSUME IInv, \/ task # "done" \/ handle = "held"
  PROVE  serial # "done" /\ (handle = "held" => ~Closing)
BY DEF IInv, SerialOutlivesTask, AcceptedConsistent, Closing

LEMMA LinkManaged ==
  ASSUME IInv, UNCHANGED <<serialVars, taskVars, clientVars>>,
         \/ LinkStray
         \/ \E l \in {"good", "noisy", "off", "unplugged"} : LinkImproves(l) \/ LinkWorsens(l)
  PROVE  Manager!Unplug(ThePort) \/ Manager!Plug(ThePort) \/ UNCHANGED managedVars
<1>0. Device \in DeviceRecord
  BY DeviceType DEF IInv
<1>1. Lost' = Lost /\ Closing' = Closing /\ status' = status /\ Stuck' = Stuck
  BY DEF Lost, Closing, Stuck, CircularWait
<1>2. CASE port' = port
  <2>1. PortInUse' = PortInUse
    BY <1>2 DEF PortInUse
  <2>2. UNCHANGED Device
    BY <1>1, <2>1 DEF Device
  <2>3. CASE Plugged' = Plugged
    BY <1>1, <2>2, <2>3 DEF managedVars
  <2>4. CASE Plugged = {} /\ Plugged' = {ThePort}
    BY <1>1, <2>2, <2>4, ManagerPlugs
  <2>5. CASE Plugged = {ThePort} /\ Plugged' = {}
    <3>1. port # "open"
      BY <1>2, <2>5 DEF Plugged, LinkStray, LinkImproves, LinkWorsens
    <3>2. Device.port # "open"
      BY <3>1 DEF Device, NoDevice, PortInUse
    <3> QED BY <1>0, <1>1, <2>2, <2>5, <3>2, ManagerUnplugs
  <2> QED BY <2>3, <2>4, <2>5 DEF Plugged
<1>3. CASE port' # port
  <2>1. /\ port = "open" /\ port' = "broken"
        /\ Plugged = {ThePort} /\ Plugged' = {}
    BY <1>3 DEF LinkStray, LinkImproves, LinkWorsens, Plugged
  <2>2. CASE Device.port = "open"
    <3>1. serial # "done" /\ PortInUse = "open" /\ PortInUse' = "broken"
      BY <2>1, <2>2 DEF Device, NoDevice, PortInUse
    <3>2. Device' = [Device EXCEPT !.port = "broken"]
      BY <1>1, <3>1 DEF Device
    <3> QED BY <1>0, <1>1, <2>1, <2>2, <3>2, ManagerUnplugs
  <2>3. CASE Device.port # "open"
    <3>1. serial # "done" => PortInUse' = PortInUse
      BY <2>1, <2>3 DEF Device, PortInUse
    <3>2. Device' = Device
      BY <1>1, <3>1 DEF Device
    <3> QED BY <1>0, <1>1, <2>1, <2>3, <3>2, ManagerUnplugs
  <2> QED BY <2>2, <2>3
<1> QED BY <1>2, <1>3

LEMMA SerialManaged ==
  ASSUME IInv, IInv', SerialStep
  PROVE  Manager!DeviceStep(1) \/ UNCHANGED managedVars
<1>f. DeviceFields /\ DeviceFields'
  BY FieldsHold, FieldsHoldNext DEF IInv
<1>s. ~Stuck
  BY StuckWaits
<1>0. /\ Device \in DeviceRecord /\ msgs \in Seq({"Disconnected", "Reconnected"})
      /\ Len(msgs) <= MessageCap /\ cmdQ \in Seq(Entries)
  BY DeviceType DEF IInv, TypeOK
<1>1. /\ serial # "done" /\ UNCHANGED <<taskVars, clientVars>> /\ Closing' = Closing
  BY DEF SerialStep, SerialWrite, SerialWriteFails, SerialRead, SerialReadFails, SerialNotify,
         SerialDrain, SerialDropPort, SerialReopen, SerialAnnounce, SerialExit, Closing
<1>2. CASE SerialWrite \/ SerialWriteFails \/ SerialRead \/ SerialReadFails \/ SerialDrain
           \/ SerialDropPort
  <2>1. UNCHANGED <<link, msgs, PortInUse>> /\ serial' # "done"
    BY <1>2 DEF SerialWrite, SerialWriteFails, SerialRead, SerialReadFails, SerialDrain,
                SerialDropPort, PortInUse
  <2>2. Lost' = Lost
    BY <1>1, <2>1 DEF Lost
  <2> QED BY <1>f, <1>s, <1>1, <2>1, <2>2, DeviceStays DEF Plugged
<1>3. CASE SerialAnnounce
  <2>1. UNCHANGED <<link, PortInUse>> /\ serial' # "done"
    BY <1>3 DEF SerialAnnounce, PortInUse
  <2>2. Lost' = Lost
    <3>1. CASE task = "done"
      BY <1>1, <3>1 DEF Lost, Closing
    <3>2. CASE task # "done"
      <4>1. msgs' = Append(msgs, "Reconnected")
        BY <1>3, <3>2 DEF SerialAnnounce
      <4> QED BY <1>0, <1>1, <4>1, DisconnectedAppend DEF Lost
    <3> QED BY <3>1, <3>2
  <2> QED BY <1>f, <1>s, <1>1, <2>1, <2>2, DeviceStays DEF Plugged
<1>4. CASE SerialReopen
  <2>1. /\ serial = "reopen" /\ serial' = "announce" /\ port' = "open"
        /\ link # "unplugged" /\ UNCHANGED <<link, msgs>>
    BY <1>4 DEF SerialReopen
  <2>2. Lost' = Lost /\ PortInUse = "closed" /\ PortInUse' = "open"
    BY <1>1, <2>1 DEF Lost, PortInUse
  <2>3. /\ Device' = [Device EXCEPT !.port = "open", !.stuck = Device'.stuck]
        /\ Device.port = "closed" /\ Device.phase # "free" /\ Device'.stuck \in BOOLEAN
    <3>1. /\ Device'.port = "open" /\ Device.port = "closed" /\ Device'.lost = Device.lost
          /\ Device'.phase = Device.phase /\ (Device'.handle <=> Device.handle)
          /\ Device'.status = Device.status /\ Device'.queue = Device.queue
          /\ Device.phase # "free"
      BY <1>f, <1>1, <2>1, <2>2 DEF DeviceFields
    <3>2. Device' = [Device EXCEPT !.port = Device'.port, !.stuck = Device'.stuck]
      BY <1>f, <3>1, NewPort DEF DeviceFields
    <3> QED BY <1>f, <3>1, <3>2 DEF DeviceFields, DeviceRecord
  <2>4. Plugged = {ThePort} /\ UNCHANGED <<Plugged, status>>
    BY <1>1, <2>1 DEF Plugged
  <2>5. Manager!SerialReopens(1)
    BY <1>0, <2>3, <2>4, ManagerReopens
  <2> QED BY <2>5 DEF Manager!DeviceStep
<1>5. CASE SerialNotify
  <2>1. /\ serial = "notify" /\ serial' = "drain" /\ UNCHANGED link /\ port # "closed"
    BY <1>5 DEF SerialNotify, IInv, PortConsistent
  <2>2. PortInUse = port /\ PortInUse' = "closed" /\ UNCHANGED <<Plugged, status>>
    BY <1>1, <2>1 DEF PortInUse, Plugged
  <2>3. Device.port # "closed" /\ ~Device.stuck /\ ~Stuck'
    BY <1>s, <1>1, <2>1, <2>2 DEF Device, Stuck, CircularWait
  <2>4. CASE Closing
    <3>1. Lost' = Lost /\ Device.phase = "closing"
      BY <1>1, <2>4 DEF Lost, Device
    <3>2. Device' = [Device EXCEPT !.port = "closed"]
      <4>1. /\ Device'.port = "closed" /\ Device'.lost = Device.lost
            /\ Device'.phase = Device.phase /\ (Device'.handle <=> Device.handle)
            /\ Device'.status = Device.status /\ Device'.queue = Device.queue
            /\ ~Device'.stuck /\ ~Device.stuck
        BY <1>f, <1>1, <2>1, <2>2, <2>3, <3>1 DEF DeviceFields
      <4>2. Device' = [Device EXCEPT !.port = Device'.port, !.lost = Device'.lost]
        BY <1>f, <4>1, NewPort DEF DeviceFields
      <4>3. [Device EXCEPT !.port = "closed", !.lost = Device.lost] = [Device EXCEPT !.port = "closed"]
        BY <1>0 DEF DeviceRecord
      <4> QED BY <4>1, <4>2, <4>3
    <3>3. Manager!SerialLoses(1)
      BY <1>0, <2>2, <2>3, <3>1, <3>2, ManagerLoses
    <3> QED BY <3>3 DEF Manager!DeviceStep
  <2>5. CASE ~Closing
    <3>1. msgs' = Append(msgs, "Disconnected") /\ Len(msgs) < MessageCap
      BY <1>5, <2>5 DEF SerialNotify, Closing
    <3>2. Lost = Cardinality(DisconnectedIn(msgs)) /\ Lost' = Cardinality(DisconnectedIn(msgs'))
      BY <1>1, <2>5 DEF Lost
    <3>3. Lost' = Lost + 1 /\ Lost \in Nat /\ Lost < MessageCap
      <4>1. Lost \in Nat /\ Lost <= Len(msgs)
        BY <1>0, <3>2, DisconnectedFinite
      <4>2. Lost' = Lost + 1
        BY <1>0, <3>1, <3>2, DisconnectedAppend
      <4> QED BY <1>0, <3>1, <4>1, <4>2
    <3>4. Device.phase = "serving" /\ Device.lost = Lost
      BY <1>1, <2>5 DEF Device
    <3>5. Device' = [Device EXCEPT !.port = "closed", !.lost = @ + 1]
      <4>1. /\ Device'.port = "closed"
            /\ Device'.lost = Device.lost + 1
            /\ Device'.phase = Device.phase
            /\ Device'.handle = Device.handle
            /\ Device'.status = Device.status
            /\ Device'.queue = Device.queue
            /\ Device'.stuck = Device.stuck
        BY <1>f, <1>s, <1>1, <2>1, <2>2, <2>3, <2>5, <3>3, <3>4
           DEF DeviceFields, DeviceRecord, Closing
      <4>2. Device' = [Device EXCEPT !.port = Device'.port, !.lost = Device'.lost]
        BY <1>f, <4>1, NewPort DEF DeviceFields
      <4> QED BY <4>1, <4>2
    <3>6. Manager!SerialLoses(1)
      BY <1>0, <2>2, <2>3, <3>3, <3>4, <3>5, ManagerLoses
    <3> QED BY <3>6 DEF Manager!DeviceStep
  <2> QED BY <2>4, <2>5
<1>6. CASE SerialExit
  <2>1. /\ serial = "recv" /\ serial' = "done" /\ UNCHANGED link /\ port # "closed"
        /\ task = "done"
    BY <1>0, <1>6 DEF SerialExit, IInv, PortConsistent, QueueFromTask
  <2>2. /\ Device.phase = "closing" /\ Device.port # "closed" /\ Device' = NoDevice
        /\ ~Device.stuck /\ UNCHANGED <<Plugged, status>>
    BY <1>s, <1>1, <2>1 DEF Device, PortInUse, Closing, Plugged
  <2>3. Manager!SerialEnds(1)
    BY <1>0, <2>2, ManagerEnds
  <2> QED BY <2>3 DEF Manager!DeviceStep
<1> QED
  BY <1>2, <1>3, <1>4, <1>5, <1>6 DEF SerialStep

LEMMA TaskManaged ==
  ASSUME IInv, IInv', TaskStep
  PROVE  Manager!DeviceStep(1) \/ UNCHANGED managedVars
<1>f. DeviceFields /\ DeviceFields'
  BY FieldsHold, FieldsHoldNext DEF IInv
<1>s. ~Stuck
  BY StuckWaits
<1>0. /\ Device \in DeviceRecord /\ msgs \in Seq({"Disconnected", "Reconnected"})
      /\ taskQ \in Seq(Requests \cup {"shutdown"}) /\ handle \in {"held", "dropped"}
      /\ status \in {"Connecting", "Connected"} /\ "shutdown" \notin Requests
  BY DeviceType, RequestsAssumption DEF IInv, TypeOK
<1>1. /\ task # "done" /\ UNCHANGED <<link, port, serial, handle>>
  BY DEF TaskStep, TaskSend, TaskReadOk, TaskReadFails, TaskScriptFails, TaskFails,
         TaskScriptEnds, TaskPolled, TaskTick, TaskExecute, TaskRefuse, TaskStop, TaskDone,
         TaskDisconnected, TaskReconnected
<1>2. /\ serial # "done" /\ serial' # "done" /\ UNCHANGED <<PortInUse, Plugged>>
  BY <1>1, Alive DEF PortInUse, Plugged
<1>3. CASE TaskSend \/ TaskReadOk \/ TaskReadFails \/ TaskScriptFails \/ TaskFails
           \/ TaskScriptEnds \/ TaskTick
  <2>1. UNCHANGED <<msgs, taskQ, status>> /\ ~Closing /\ ~Closing'
    BY <1>3 DEF TaskSend, TaskReadOk, TaskReadFails, TaskScriptFails, TaskFails,
                TaskScriptEnds, TaskTick, Closing
  <2>2. Lost' = Lost
    BY <2>1 DEF Lost
  <2> QED BY <1>f, <1>s, <1>1, <1>2, <2>1, <2>2, DeviceStays DEF Closing
<1>4. ASSUME NEW v \in Values \cup {NoValue}, TaskPolled(v)
      PROVE  Manager!DeviceStep(1) \/ UNCHANGED managedVars
  <2>1. UNCHANGED <<msgs, taskQ>> /\ ~Closing /\ ~Closing' /\ status' = "Connected"
    BY <1>0, <1>4 DEF TaskPolled, Closing
  <2>2. Lost' = Lost
    BY <2>1 DEF Lost
  <2>3. CASE status = "Connected"
    BY <1>f, <1>s, <1>1, <1>2, <2>1, <2>2, <2>3, DeviceStays DEF Closing
  <2>4. CASE status = "Connecting"
    <3>1. pos > 0 /\ Script(job)[pos] = "read" /\ task = "run"
      BY <1>4, ScriptsAssumption DEF TaskPolled, Script
    <3>2. serial = "recv"
      BY <3>1 DEF IInv, ReplyConsistent
    <3>3. /\ Device.port # "closed" /\ Device.phase = "serving" /\ ~Device.stuck
          /\ Device.status = "Connecting"
      BY <1>s, <1>2, <2>1, <2>4, <3>2 DEF Device, PortInUse, IInv, PortConsistent
    <3>4. Device' = [Device EXCEPT !.status = "Connected"]
      <4>1. ~Stuck'
        BY <1>1, <3>2 DEF Stuck, CircularWait
      <4>2. /\ Device'.status = "Connected" /\ Device'.lost = Device.lost
            /\ Device'.phase = Device.phase /\ (Device'.handle <=> Device.handle)
            /\ Device'.port = Device.port /\ Device'.queue = Device.queue
            /\ ~Device'.stuck /\ ~Device.stuck
        BY <1>f, <1>s, <1>1, <1>2, <2>1, <2>2, <4>1 DEF DeviceFields
      <4>3. Device' = [Device EXCEPT !.status = Device'.status, !.lost = Device'.lost]
        BY <1>f, <4>2, NewStatus DEF DeviceFields
      <4>4. [Device EXCEPT !.status = "Connected", !.lost = Device.lost]
              = [Device EXCEPT !.status = "Connected"]
        BY <1>0 DEF DeviceRecord
      <4> QED BY <4>2, <4>3, <4>4
    <3>5. Manager!TaskConnected(1)
      BY <1>0, <1>2, <2>1, <3>3, <3>4, ManagerConnected
    <3> QED BY <3>5 DEF Manager!DeviceStep
  <2> QED BY <1>0, <2>3, <2>4
<1>5. CASE TaskDisconnected
  <2>1. /\ msgs # <<>> /\ Head(msgs) = "Disconnected" /\ msgs' = Tail(msgs)
        /\ status' = "Connecting" /\ taskQ' = taskQ /\ ~Closing /\ ~Closing'
    BY <1>5 DEF TaskDisconnected, Closing
  <2>2. Lost = Cardinality(DisconnectedIn(msgs)) /\ Lost' = Cardinality(DisconnectedIn(msgs'))
    BY <2>1 DEF Lost
  <2>3. Lost' = Lost - 1 /\ Lost \in Nat /\ Lost > 0
    <3>1. Lost \in Nat /\ Lost' \in Nat
      <4>1. msgs' \in Seq({"Disconnected", "Reconnected"})
        BY <1>0, <2>1
      <4> QED BY <1>0, <2>2, <4>1, DisconnectedFinite
    <3>2. Lost' = Lost - 1
      BY <1>0, <2>1, <2>2, DisconnectedTail
    <3> QED BY <3>1, <3>2
  <2>4. Device.lost = Lost /\ Device.phase = "serving" /\ ~Device.stuck /\ ~Stuck'
    BY <1>s, <1>2, <1>5, <2>1 DEF Device, Stuck, CircularWait, TaskDisconnected
  <2>5. Device' = [Device EXCEPT !.status = "Connecting", !.lost = @ - 1]
    <3>1. /\ Device'.lost = Device.lost - 1
          /\ Device'.status = "Connecting"
          /\ Device'.phase = Device.phase
          /\ Device'.handle = Device.handle
          /\ Device'.port = Device.port
          /\ Device'.queue = Device.queue
          /\ Device'.stuck = Device.stuck
      BY <1>f, <1>s, <1>1, <1>2, <2>1, <2>3, <2>4 DEF DeviceFields, DeviceRecord, Closing
    <3>2. Device' = [Device EXCEPT !.status = Device'.status, !.lost = Device'.lost]
      BY <1>f, <3>1, NewStatus DEF DeviceFields
    <3> QED BY <3>1, <3>2
  <2>6. Manager!TaskDisconnected(1)
    BY <1>0, <1>2, <2>1, <2>3, <2>4, <2>5, ManagerDisconnected
  <2> QED BY <2>6 DEF Manager!DeviceStep
<1>6. CASE TaskReconnected
  <2>1. /\ msgs # <<>> /\ Head(msgs) = "Reconnected" /\ msgs' = Tail(msgs)
        /\ UNCHANGED <<status, taskQ>> /\ ~Closing /\ ~Closing'
    BY <1>6 DEF TaskReconnected, Closing
  <2>2. Lost' = Lost
    BY <1>0, <2>1, DisconnectedTail DEF Lost
  <2> QED BY <1>f, <1>s, <1>1, <1>2, <2>1, <2>2, DeviceStays DEF Closing
<1>7. CASE TaskExecute \/ TaskRefuse
  <2>1. /\ taskQ # <<>> /\ Head(taskQ) \in Requests /\ taskQ' = Tail(taskQ)
        /\ UNCHANGED <<msgs, status>> /\ ~Closing /\ ~Closing'
    BY <1>7 DEF TaskExecute, TaskRefuse, Closing
  <2>2. Lost' = Lost /\ Kind(Head(taskQ)) = "execute"
    BY <1>0, <2>1 DEF Lost, Kind
  <2>3. Kinds(taskQ) # <<>> /\ Kinds(taskQ') = Tail(Kinds(taskQ)) /\ Head(Kinds(taskQ)) = "execute"
    BY <1>0, <2>1, <2>2, KindsTail
  <2>s. ~Stuck'
    <3>1. CASE TaskRefuse
      BY <3>1 DEF TaskRefuse, Stuck, CircularWait
    <3>2. CASE TaskExecute
      <4>1. task' = "run" /\ pos' = 0 /\ job' \in Requests
        BY <2>1, <3>2 DEF TaskExecute, Start
      <4>2. IsScript(Script(job'))
        BY <4>1, ScriptsAssumption, RequestsAssumption DEF Script
      <4>3. 0 < Len(Script(job')) => Script(job')[1] # "read"
        BY <4>2 DEF IsScript
      <4> QED BY <4>1, <4>3 DEF Stuck, CircularWait
    <3> QED BY <1>7, <3>1, <3>2
  <2>4. /\ Device.queue = Kinds(taskQ) /\ Device.phase = "serving" /\ ~Device.stuck
        /\ Device' = [Device EXCEPT !.queue = Tail(@)]
    BY <1>f, <1>s, <1>1, <1>2, <2>s, <2>1, <2>2, <2>3 DEF DeviceFields, DeviceRecord, Closing
  <2>5. Manager!TaskTakes(1)
    BY <1>0, <1>2, <2>1, <2>3, <2>4, ManagerTakes
  <2> QED BY <2>5 DEF Manager!DeviceStep
<1>8. CASE TaskStop
  <2>1. UNCHANGED <<msgs, status>> /\ ~Closing /\ Closing' /\ Lost' = 0
    BY <1>8 DEF TaskStop, Closing, Lost
  <2>s. /\ Device'.stuck \in BOOLEAN
        /\ Device'.stuck => Device.port # "closed"
    <3>1. Stuck' => PortInUse # "closed"
      BY <1>2, StuckHasPortNext
    <3> QED BY <1>f, <1>2, <3>1 DEF DeviceFields, DeviceRecord
  <2>2. CASE taskQ # <<>> /\ Head(taskQ) = "shutdown" /\ taskQ' = Tail(taskQ)
    <3>1. /\ Kinds(taskQ) # <<>> /\ Kinds(taskQ') = Tail(Kinds(taskQ))
          /\ Head(Kinds(taskQ)) = "shutdown"
      BY <1>0, <2>2, KindsTail DEF Kind
    <3>2. Device' = [Device EXCEPT !.queue = Tail(@), !.phase = "closing", !.lost = 0,
                                   !.stuck = Device'.stuck]
      <4>1. /\ Device'.phase = "closing"
            /\ Device'.lost = 0
            /\ Device'.queue = Tail(Device.queue)
            /\ Device'.handle = Device.handle
            /\ Device'.port = Device.port
            /\ Device'.status = Device.status
        BY <1>f, <1>1, <1>2, <2>1, <3>1 DEF DeviceFields, DeviceRecord, Closing
      <4>2. Device.queue # <<>>
        BY <1>f, <1>2, <3>1 DEF DeviceFields
      <4> QED BY <1>f, <4>1, <4>2, EndedByCommand DEF DeviceFields
    <3>3. Device.queue = Kinds(taskQ) /\ Device.phase = "serving" /\ ~Device.stuck
      BY <1>f, <1>s, <1>2, <2>1 DEF DeviceFields
    <3>4. Manager!TaskTakes(1)
      BY <1>0, <1>2, <2>s, <2>1, <3>1, <3>2, <3>3, ManagerTakesShutdown
    <3> QED BY <3>4 DEF Manager!DeviceStep
  <2>3. CASE taskQ = <<>> /\ handle = "dropped" /\ taskQ' = <<>>
    <3>1. Kinds(taskQ) = <<>>
      BY <2>3 DEF Kinds
    <3>2. Device' = [Device EXCEPT !.phase = "closing", !.lost = 0, !.stuck = Device'.stuck]
      <4>1. /\ Device'.phase = "closing"
            /\ Device'.lost = 0
            /\ Device'.handle = Device.handle
            /\ Device'.port = Device.port
            /\ Device'.status = Device.status
            /\ Device'.queue = Device.queue
        BY <1>f, <1>1, <1>2, <2>1, <2>3, <3>1 DEF DeviceFields, DeviceRecord, Closing
      <4> QED BY <1>f, <4>1, EndedByDrop DEF DeviceFields
    <3>3. Device.queue = <<>> /\ Device.phase = "serving" /\ ~Device.handle /\ ~Device.stuck
      BY <1>f, <1>s, <1>2, <2>1, <2>3, <3>1 DEF DeviceFields
    <3>4. Manager!TaskDropped(1)
      BY <1>0, <1>2, <2>s, <2>1, <3>2, <3>3, ManagerDropped
    <3> QED BY <3>4 DEF Manager!DeviceStep
  <2> QED BY <1>8, <2>2, <2>3 DEF TaskStop
<1>9. CASE TaskDone
  <2>1. Closing /\ Closing' /\ UNCHANGED status /\ taskQ' = <<>>
    BY <1>9 DEF TaskDone, Closing
  <2>2. taskQ = <<>> /\ Lost' = Lost
    BY <2>1 DEF IInv, AcceptedConsistent, Closing, Lost
  <2> QED BY <1>f, <1>s, <1>1, <1>2, <2>1, <2>2, DeviceStays
<1> QED
  BY <1>3, <1>4, <1>5, <1>6, <1>7, <1>8, <1>9 DEF TaskStep

LEMMA ClientManaged ==
  ASSUME IInv, IInv', (\E r \in Requests : Submit(r)) \/ RemoveDevice \/ ReplaceDevice
  PROVE  Managed
<1>f. DeviceFields /\ DeviceFields'
  BY FieldsHold, FieldsHoldNext DEF IInv
<1>0. /\ Device \in DeviceRecord /\ taskQ \in Seq(Requests \cup {"shutdown"})
      /\ "shutdown" \notin Requests
  BY DeviceType, RequestsAssumption DEF IInv, TypeOK
<1>1. /\ handle = "held"
      /\ UNCHANGED <<link, port, serial, msgs, task, status>> /\ Stuck' = Stuck
  BY DEF Submit, RemoveDevice, ReplaceDevice, Stuck, CircularWait
<1>2. serial # "done" /\ ~Closing /\ Device.handle /\ Device.queue = Kinds(taskQ)
  BY <1>1, Alive DEF Device
<1>3. /\ serial' # "done" /\ ~Closing' /\ Lost' = Lost
      /\ UNCHANGED <<PortInUse, Plugged, status>>
  BY <1>1, <1>2 DEF Lost, Closing, PortInUse, Plugged
<1>4. ASSUME NEW r \in Requests, Submit(r)
      PROVE  Manager!Receives(1, "execute")
  <2>1. taskQ' = Append(taskQ, r) /\ Len(taskQ) < TaskCap /\ handle' = handle
    BY <1>4 DEF Submit
  <2>2. Kinds(taskQ') = Append(Kinds(taskQ), "execute") /\ Len(Kinds(taskQ)) < TaskCap
    <3>1. Kind(r) = "execute"
      BY <1>0 DEF Kind
    <3> QED BY <1>0, <2>1, <3>1, KindsAppend, KindsType
  <2>3. Device' = [Device EXCEPT !.queue = Append(@, "execute")]
    BY <1>f, <1>1, <1>2, <1>3, <2>1, <2>2 DEF DeviceFields, DeviceRecord, Closing
  <2> QED BY <1>0, <1>2, <2>2, <2>3, ManagerSends
<1>5. CASE RemoveDevice
  <2>1. taskQ' = Append(taskQ, "shutdown") /\ Len(taskQ) < TaskCap /\ handle' = "dropped"
    BY <1>5 DEF RemoveDevice
  <2>2. Kinds(taskQ') = Append(Kinds(taskQ), "shutdown") /\ Len(Kinds(taskQ)) < TaskCap
    BY <1>0, <2>1, KindsAppend, KindsType DEF Kind
  <2>3. Device' = [Device EXCEPT !.queue = Append(@, "shutdown"), !.handle = FALSE]
    <3>1. /\ Device'.handle = FALSE
          /\ Device'.queue = Append(Device.queue, "shutdown")
          /\ Device'.phase = Device.phase
          /\ Device'.port = Device.port
          /\ Device'.lost = Device.lost
          /\ Device'.status = Device.status
          /\ Device'.stuck = Device.stuck
      BY <1>f, <1>1, <1>2, <1>3, <2>1, <2>2 DEF DeviceFields, DeviceRecord, Closing
    <3>2. Device' = [Device EXCEPT !.queue = Device'.queue, !.handle = Device'.handle]
      BY <1>f, <3>1, NewQueue DEF DeviceFields
    <3> QED BY <3>1, <3>2
  <2>4. Manager!Receives(1, "shutdown")
    BY <1>0, <1>2, <2>2, <2>3, ManagerSends
  <2> QED BY <1>2, <1>3, <2>4 DEF Managed
<1>6. CASE ReplaceDevice
  <2>1. taskQ' = taskQ /\ handle' = "dropped"
    BY <1>6 DEF ReplaceDevice
  <2>2. Device' = [Device EXCEPT !.handle = FALSE]
    BY <1>f, <1>1, <1>2, <1>3, <2>1 DEF DeviceFields, DeviceRecord, Closing
  <2>3. Manager!DropHandle(1)
    BY <1>0, <2>2, ManagerDrops
  <2> QED BY <1>2, <1>3, <2>3 DEF Managed
<1> QED
  BY <1>2, <1>3, <1>4, <1>5, <1>6 DEF Managed

LEMMA ManagedInit == Init => Device = Manager!NewTask(TheRig) /\ Plugged = {ThePort}
<1> SUFFICES ASSUME Init PROVE Device = Manager!NewTask(TheRig) /\ Plugged = {ThePort}
  OBVIOUS
<1>1. DisconnectedIn(msgs) = {}
  BY DEF Init, DisconnectedIn
<1>2. Lost = 0 /\ ~Closing /\ PortInUse = "open" /\ Kinds(taskQ) = <<>> /\ ~Stuck
  BY <1>1, FS_EmptySet DEF Init, Lost, Closing, PortInUse, Kinds, Stuck, CircularWait
<1>3. Manager!NewTask(TheRig) =
        [NoDevice EXCEPT !.id = 0, !.config = "config", !.phase = "serving",
                         !.handle = TRUE, !.port = "open"]
  BY ManagerFree DEF Manager!NewTask, TheRig
<1>4. /\ DeviceFields /\ NoDevice \in DeviceRecord
      /\ serial # "done" /\ handle = "held" /\ status = "Connecting"
  BY TypeInit, FieldsHold DEF Init, NoDevice, DeviceRecord
<1>5. Device = [NoDevice EXCEPT !.id = 0, !.config = "config", !.phase = "serving",
                                !.handle = TRUE, !.port = "open"]
  <2> DEFINE f == [NoDevice EXCEPT !.id = 0, !.config = "config", !.phase = "serving",
                                   !.handle = TRUE, !.port = "open"]
  <2>1. /\ f \in DeviceRecord /\ f.phase = "serving" /\ f.handle /\ f.port = "open"
        /\ f.lost = 0 /\ f.status = "Connecting" /\ f.queue = <<>> /\ ~f.stuck
    BY <1>4 DEF DeviceRecord, NoDevice
  <2>2. /\ Device \in DeviceRecord /\ Device.phase = "serving" /\ Device.handle
        /\ Device.port = "open" /\ Device.lost = 0 /\ Device.status = "Connecting"
        /\ Device.queue = <<>> /\ ~Device.stuck
    BY <1>2, <1>4 DEF DeviceFields
  <2> HIDE DEF f
  <2>3. Device = f
    BY <2>1, <2>2 DEF DeviceRecord
  <2> QED BY <2>3 DEF f
<1> QED
  BY <1>3, <1>5 DEF Init, Plugged

LEMMA ManagedStep ==
  IInv /\ IInv' /\ [Next]_vars
    => [\/ Manager!DeviceStep(1) \/ Managed
        \/ Manager!Unplug(ThePort) \/ Manager!Plug(ThePort)]_managedVars
<1> SUFFICES ASSUME IInv, IInv', [Next]_vars
             PROVE  \/ Manager!DeviceStep(1) \/ Managed
                    \/ Manager!Unplug(ThePort) \/ Manager!Plug(ThePort)
                    \/ UNCHANGED managedVars
  OBVIOUS
<1>1. CASE UNCHANGED vars
  BY <1>1 DEF managedVars, Device, NoDevice, Plugged, PortInUse, Lost, Closing, Stuck,
              CircularWait
<1>2. CASE \/ LinkStray
           \/ \E l \in {"good", "noisy", "off", "unplugged"} : LinkImproves(l) \/ LinkWorsens(l)
  <2>1. UNCHANGED <<serialVars, taskVars, clientVars>>
    BY <1>2 DEF LinkStray, LinkImproves, LinkWorsens
  <2> QED BY <1>2, <2>1, LinkManaged
<1> QED
  BY <1>1, <1>2, SerialManaged, TaskManaged, ClientManaged DEF Next

(* A rig made of DeviceTask and SerialDevice is a device as the device     *)
(* manager's model has them: each of its steps is one of the device, of    *)
(* its port or of the manager there, or changes nothing the manager knows. *)
THEOREM RigActsAsManaged == Spec => ActsAsManaged
<1>1. Init => Device = Manager!NewTask(TheRig) /\ Plugged = {ThePort}
  BY ManagedInit
<1>2. IInv /\ IInv' /\ [Next]_vars
        => [\/ Manager!DeviceStep(1) \/ Managed
            \/ Manager!Unplug(ThePort) \/ Manager!Plug(ThePort)]_<<Device, Plugged, status>>
  BY ManagedStep DEF managedVars
<1>3. Spec => []IInv
  BY Invariance
<1> QED BY <1>1, <1>2, <1>3, PTL DEF Spec, ActsAsManaged
=============================================================================
