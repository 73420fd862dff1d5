------------------------------- MODULE Rigctld -------------------------------
(***************************************************************************)
(* The rigctld server (rigctld.rs): lines of text from any number of       *)
(* connections, one status for all of them.                                *)
(*                                                                         *)
(*   clients --inbox--> handle_client --manQ--> DeviceManager --> rig 0    *)
(*   clients <--log---- handle_client <-status- run_server <--bus-- rigs   *)
(*                                                                         *)
(* run_server accepts connections and merges what the rigs broadcast into  *)
(* the status; a task per connection answers its lines one by one.  A read *)
(* is answered from the status, a command once it is queued: nobody waits  *)
(* for the rig.  The manager and the rigs are what the server sees of them.*)
(***************************************************************************)
EXTENDS Naturals, Sequences, FiniteSets

CONSTANTS
  Conns,        \* connections
  Lines,        \* what a client may send: name, arguments, ended by a newline or not
  Numbers,      \* the words that parse as a number
  Booleans,     \* the words that parse as a bool
  Rigs,         \* the rigs; every command goes to RigId::default()
  Fields,       \* the status variables some rig has
  KindOf,       \* the kind of Value a rig publishes each of them as
  Words,        \* the values a rig's own panel may choose
  NoLine,       \* no command is on its way
  QueueCap,     \* capacity of the manager's channel (10)
  BusCap,       \* capacity of the broadcast (10)
  MaxLines,     \* bound: lines sent
  MaxMessages,  \* bound: messages broadcast
  MaxTurns      \* bound: changes at a rig's own panel, and devices replaced

DefaultRig == 0

ASSUME RigctldAssumption ==
  /\ DefaultRig \in Rigs
  /\ KindOf \in [Fields -> {"Integer", "Boolean", "String", "EnumVariant", "Float"}]
  /\ QueueCap \in Nat \ {0} /\ BusCap \in Nat \ {0}
  /\ MaxLines \in Nat /\ MaxMessages \in Nat /\ MaxTurns \in Nat

VARIABLES
  \* the connections
  conn,     \* "none", "waiting" to be accepted, "open", "ended"
  inbox,    \* lines sent and not yet read
  eof,      \* the client sends nothing more
  pc,       \* handle_client: "reading", "queueing" or "acking"
  held,     \* the line whose command is being sent
  log,      \* the lines handled, each with its answer
  \* run_server
  server,   \* "selecting", "accepting" only, or "ended"
  status,   \* DeviceStatus
  bus,      \* what message_receiver has still to receive
  lagged,   \* it has missed messages and was not told yet
  \* the manager and the rigs
  up,       \* the manager runs
  manQ,     \* its commands, with the connection they come from
  actual,   \* what each rig is set to
  polled,   \* what it last published
  \* history and bounds
  queued,   \* the lines of each connection whose command was queued
  shown,    \* the value last published for each variable, by any rig
  lost,     \* variables whose last value was overwritten in the broadcast
  messages, turns

connVars == <<conn, inbox, eof, pc, held, log>>
serverVars == <<server, status, bus, lagged>>
rigVars == <<up, manQ, actual, polled>>
history == <<queued, shown, lost, messages, turns>>
vars == <<conn, inbox, eof, pc, held, log, server, status, bus, lagged, up, manQ,
          actual, polled, queued, shown, lost, messages, turns>>

\* DeviceStatus::default()
DefaultStatus(f) ==
  CASE f \in {"freq_a", "freq_b"} -> "0"
    [] f = "vfo" -> "A"
    [] f = "mode" -> "USB"
    [] OTHER -> "false"

\* The kind of Value each variable is taken as
TakenAs(f) ==
  CASE f \in {"freq_a", "freq_b"} -> "Integer"
    [] f \in {"vfo", "mode"} -> "String"
    [] f \in {"transmit", "rit", "xit"} -> "Boolean"
    [] OTHER -> "nothing"

Followed == {f \in Fields : KindOf[f] = TakenAs(f)}

(***************************************************************************)
(* parse_rigctl_command.  The line keeps its newline, which is part of the *)
(* last word: a number or a bool there does not parse, a name is taken as  *)
(* it is.                                                                  *)
(***************************************************************************)
Whole(l) == Len(l.args) > 1 \/ ~ l.ended

Parses(l) ==
  CASE l.name \in {"F", "J", "Z"} -> l.args # <<>> /\ Whole(l) /\ l.args[1] \in Numbers
    [] l.name \in {"T", "S"} -> l.args # <<>> /\ Whole(l) /\ l.args[1] \in Booleans
    [] l.name \in {"M", "V", "f", "m", "s"} -> l.args # <<>>
    [] l.name \in {"v", "t", "j", "z", "q"} -> TRUE
    [] l.name \in {"\\get_powerstat", "\\chk_vfo", "\\dump_state"} -> l.args = <<>>
    [] OTHER -> FALSE

Sets == {"F", "M", "V", "T", "S"}
Unsupported == {"J", "Z"}
Reads == {"f", "m", "v", "t", "s", "j", "z"}

\* GetFreq of another VFO than these ends the connection.
KnownVfo(l) == l.name = "f" => l.args[1] \in {"VFOA", "VFOB"}

FieldRead(l) ==
  CASE l.name = "f" -> IF l.args[1] = "VFOA" THEN "freq_a" ELSE "freq_b"
    [] l.name = "m" -> "mode"
    [] l.name \in {"v", "s"} -> "vfo"
    [] l.name = "t" -> "transmit"
    [] l.name = "j" -> "rit"
    [] l.name = "z" -> "xit"

Answer(l) ==
  CASE l.name \in Unsupported -> "RPRT -1"
    [] l.name \in Reads -> status[FieldRead(l)]
    [] l.name = "\\dump_state" -> "the dump"
    [] OTHER -> "1"

(***************************************************************************)
(* What the rig makes of a command.  The shipped rig files have no VFO     *)
(* called Current or VFOA, and no mode that ends with a newline: the       *)
(* script fails, and nobody is told.  A split is not in the status.        *)
(***************************************************************************)
Runs(l) == l.name \in {"T", "S"} \/ (l.name = "M" /\ Whole(l))
FieldSet(l) == CASE l.name = "T" -> {"transmit"} [] l.name = "M" -> {"mode"} [] OTHER -> {}

Init ==
  /\ conn = [c \in Conns |-> "none"] /\ inbox = [c \in Conns |-> <<>>]
  /\ eof = [c \in Conns |-> FALSE] /\ pc = [c \in Conns |-> "reading"]
  /\ held = [c \in Conns |-> NoLine] /\ log = [c \in Conns |-> <<>>]
  /\ server \in {"selecting", "ended"}     \* the port may be taken
  /\ status = [f \in Fields |-> DefaultStatus(f)]
  /\ bus = <<>> /\ lagged = FALSE
  /\ up = TRUE /\ manQ = <<>>
  /\ actual = [r \in Rigs |-> status] /\ polled = actual
  /\ queued = [c \in Conns |-> <<>>] /\ shown = status /\ lost = {}
  /\ messages = 0 /\ turns = 0

-----------------------------------------------------------------------------
(* The clients                                                             *)

Sent == {p \in Conns \X (1..MaxLines) :
           p[2] <= Len(inbox[p[1]]) + Len(log[p[1]]) + (IF held[p[1]] = NoLine THEN 0 ELSE 1)}

Connect(c) ==
  /\ conn[c] = "none" /\ server # "ended"
  /\ conn' = [conn EXCEPT ![c] = "waiting"]
  /\ UNCHANGED <<inbox, eof, pc, held, log, serverVars, rigVars, history>>

\* A line without a newline is the last one.
ClientSends(c, l) ==
  /\ conn[c] \in {"waiting", "open"} /\ ~ eof[c] /\ Cardinality(Sent) < MaxLines
  /\ inbox' = [inbox EXCEPT ![c] = Append(@, l)]
  /\ eof' = [eof EXCEPT ![c] = ~ l.ended]
  /\ UNCHANGED <<conn, pc, held, log, serverVars, rigVars, history>>

ClientCloses(c) ==
  /\ conn[c] \in {"waiting", "open"} /\ ~ eof[c]
  /\ eof' = [eof EXCEPT ![c] = TRUE]
  /\ UNCHANGED <<conn, inbox, pc, held, log, serverVars, rigVars, history>>

-----------------------------------------------------------------------------
(* handle_client                                                           *)

End(c) == conn' = [conn EXCEPT ![c] = "ended"]

Line(c) == Head(inbox[c])

Handles(c) ==
  /\ conn[c] = "open" /\ pc[c] = "reading" /\ inbox[c] # <<>>
  /\ inbox' = [inbox EXCEPT ![c] = Tail(@)]

Says(c, l, a) == log' = [log EXCEPT ![c] = Append(@, [line |-> l, answer |-> a])]

AnswerLine(c) ==
  /\ Handles(c)
  /\ Parses(Line(c)) /\ Line(c).name \notin Sets \cup {"q"} /\ KnownVfo(Line(c))
  /\ Says(c, Line(c), Answer(Line(c)))
  /\ UNCHANGED <<conn, eof, pc, held, serverVars, rigVars, history>>

RefuseLine(c) ==
  /\ Handles(c) /\ ~ Parses(Line(c)) /\ Says(c, Line(c), "RPRT 1")
  /\ UNCHANGED <<conn, eof, pc, held, serverVars, rigVars, history>>

\* Quit, or a VFO that is not known: bail!, and the task panics
LeaveLine(c) ==
  /\ Handles(c) /\ Parses(Line(c))
  /\ Line(c).name = "q" \/ ~ KnownVfo(Line(c))
  /\ End(c)
  /\ UNCHANGED <<eof, pc, held, log, serverVars, rigVars, history>>

SetLine(c) ==
  /\ Handles(c) /\ Parses(Line(c)) /\ Line(c).name \in Sets
  /\ held' = [held EXCEPT ![c] = Line(c)] /\ pc' = [pc EXCEPT ![c] = "queueing"]
  /\ UNCHANGED <<conn, eof, log, serverVars, rigVars, history>>

\* With try_send and its error dropped, as a mistake
QueueIfRoom(c) ==
  /\ conn[c] = "open" /\ pc[c] = "queueing" /\ up
  /\ IF Len(manQ) < QueueCap
     THEN /\ manQ' = Append(manQ, held[c])
          /\ queued' = [queued EXCEPT ![c] = Append(@, held[c])]
     ELSE UNCHANGED <<manQ, queued>>
  /\ pc' = [pc EXCEPT ![c] = "acking"]
  /\ UNCHANGED <<conn, inbox, eof, held, log, serverVars, up, actual, polled, shown,
                 lost, messages, turns>>

\* command_sender.send waits for room.
Queue(c) ==
  /\ conn[c] = "open" /\ pc[c] = "queueing" /\ up /\ Len(manQ) < QueueCap
  /\ manQ' = Append(manQ, held[c])
  /\ queued' = [queued EXCEPT ![c] = Append(@, held[c])]
  /\ pc' = [pc EXCEPT ![c] = "acking"]
  /\ UNCHANGED <<conn, inbox, eof, held, log, serverVars, up, actual, polled, shown,
                 lost, messages, turns>>

\* The command is tried again for ever, as a mistake
QueueRetries(c) ==
  /\ conn[c] = "open" /\ pc[c] = "queueing" /\ ~ up
  /\ UNCHANGED vars

QueueFails(c) ==
  /\ conn[c] = "open" /\ pc[c] = "queueing" /\ ~ up
  /\ End(c)
  /\ UNCHANGED <<inbox, eof, pc, held, log, serverVars, rigVars, history>>

Ack(c) ==
  /\ conn[c] = "open" /\ pc[c] = "acking"
  /\ Says(c, held[c], "RPRT 0")
  /\ pc' = [pc EXCEPT ![c] = "reading"] /\ held' = [held EXCEPT ![c] = NoLine]
  /\ UNCHANGED <<conn, inbox, eof, serverVars, rigVars, history>>

\* read_line returns 0, or a read or write fails as the client is gone
EndOfInput(c) ==
  /\ conn[c] = "open" /\ eof[c]
  /\ pc[c] # "queueing"
  /\ End(c)
  /\ UNCHANGED <<inbox, eof, pc, held, log, serverVars, rigVars, history>>

HandleClient(c) ==
  \/ AnswerLine(c) \/ RefuseLine(c) \/ LeaveLine(c) \/ SetLine(c)
  \/ Queue(c) \/ QueueFails(c) \/ Ack(c) \/ EndOfInput(c)

-----------------------------------------------------------------------------
(* run_server                                                              *)

\* An accepted connection starts the select! again, with both branches.
Accept(c) ==
  /\ server # "ended" /\ conn[c] = "waiting"
  /\ conn' = [conn EXCEPT ![c] = "open"] /\ server' = "selecting"
  /\ UNCHANGED <<inbox, eof, pc, held, log, status, bus, lagged, rigVars, history>>

AcceptFails ==
  /\ server # "ended" /\ server' = "ended"
  /\ UNCHANGED <<connVars, status, bus, lagged, rigVars, history>>

Taken(m) == {f \in DOMAIN m : m[f].kind = TakenAs(f)}

\* As a mistake: only the first value of a variable is taken.
MergedOnce(m) ==
  [f \in Fields |-> IF f \in Taken(m) /\ status[f] = DefaultStatus(f) THEN m[f].text ELSE status[f]]

Merged(m) == [f \in Fields |-> IF f \in Taken(m) THEN m[f].text ELSE status[f]]

\* A variable of another kind is left as it is.
Receive ==
  /\ server = "selecting" /\ ~ lagged /\ bus # <<>>
  /\ status' = Merged(Head(bus)) /\ bus' = Tail(bus)
  /\ UNCHANGED <<connVars, server, lagged, rigVars, history>>

\* The branch `Ok(msg) = recv()` is disabled until select! is entered again.
ReceiveLagged ==
  /\ server = "selecting" /\ lagged
  /\ server' = "accepting" /\ lagged' = FALSE
  /\ UNCHANGED <<connVars, status, bus, rigVars, history>>

RunServer == (\E c \in Conns : Accept(c)) \/ Receive \/ ReceiveLagged

-----------------------------------------------------------------------------
(* The manager and the rigs                                                *)

ManagerTakes ==
  /\ up /\ manQ # <<>> /\ manQ' = Tail(manQ)
  /\ LET l == Head(manQ) IN
     actual' = IF Runs(l)
               THEN [actual EXCEPT ![DefaultRig] =
                       [f \in Fields |-> IF f \in FieldSet(l) THEN l.args[1] ELSE @[f]]]
               ELSE actual
  /\ UNCHANGED <<connVars, serverVars, up, polled, history>>

ManagerEnds ==
  /\ up /\ up' = FALSE /\ manQ' = <<>>
  /\ UNCHANGED <<connVars, serverVars, actual, polled, history>>

\* Somebody turns a knob of the rig.
Turn(r, f) ==
  /\ turns < MaxTurns /\ turns' = turns + 1
  /\ \E w \in Words[f] : w # actual[r][f] /\ actual' = [actual EXCEPT ![r][f] = w]
  /\ UNCHANGED <<connVars, serverVars, up, manQ, polled, queued, shown, lost, messages>>

Changed(r) == {f \in Fields : actual[r][f] # polled[r][f]}

\* DeviceTask publishes what it has read of some variables.
Publish(r, told) ==
  /\ told # {} /\ messages < MaxMessages /\ messages' = messages + 1
  /\ LET m == [f \in told |-> [kind |-> KindOf[f], text |-> actual[r][f]]]
         full == Len(bus) = BusCap
     IN
     /\ bus' = Append(IF full THEN Tail(bus) ELSE bus, m)
     /\ lagged' = (lagged \/ full)
     /\ lost' = (lost \cup (IF full THEN DOMAIN Head(bus) \ UNION {DOMAIN bus[k] : k \in 2..Len(bus)}
                            ELSE {})) \ told
     /\ shown' = [f \in Fields |-> IF f \in told THEN actual[r][f] ELSE shown[f]]
  /\ polled' = [polled EXCEPT ![r] = actual[r]]
  /\ UNCHANGED <<connVars, server, status, up, manQ, actual, queued>>

\* A poll finds values that changed since the last one.
Poll(r) == Publish(r, Changed(r)) /\ UNCHANGED turns

\* The device of the rig was replaced, and the new one has no values yet to compare with.
FirstPoll(r) == turns < MaxTurns /\ turns' = turns + 1 /\ Publish(r, Fields)

-----------------------------------------------------------------------------
Clients ==
  \E c \in Conns : Connect(c) \/ ClientCloses(c) \/ (\E l \in Lines : ClientSends(c, l))

Next ==
  \/ Clients \/ (\E c \in Conns : HandleClient(c))
  \/ RunServer \/ AcceptFails
  \/ ManagerTakes \/ ManagerEnds
  \/ \E r \in Rigs : Poll(r) \/ FirstPoll(r) \/ (\E f \in Fields : Turn(r, f))

Spec == Init /\ [][Next]_vars

(***************************************************************************)
(* The runtime polls the server's loop and every connection's task, and    *)
(* the manager takes every command: it waits for no device, as one that is *)
(* stuck or never gets its port back would make it (DeviceManager,         *)
(* ManagerGoesOn).                                                         *)
(***************************************************************************)
Fairness ==
  /\ WF_vars(RunServer) /\ WF_vars(ManagerTakes)
  /\ \A c \in Conns : WF_vars(HandleClient(c))

FairSpec == Spec /\ Fairness

-----------------------------------------------------------------------------
(* Properties                                                              *)

\* A command was acknowledged; a read may be answered any text.
Acknowledges(e) == e.line.name \in Sets /\ e.answer = "RPRT 0"

\* The places of a connection's log where one was
Acked(told) == {k \in 1..Len(told) : Acknowledges(told[k])}

AckedUpTo(told, k) == Cardinality({j \in Acked(told) : j <= k})

(***************************************************************************)
(* RPRT 0 means that the command is with the manager: what a connection    *)
(* was told is what was queued for it, the first the first and so on, but  *)
(* for the command whose answer is still to be written (rigctld.rs:286).   *)
(***************************************************************************)
AckedIsQueued ==
  \A c \in Conns :
    /\ Len(queued[c]) = Cardinality(Acked(log[c])) + (IF pc[c] = "acking" THEN 1 ELSE 0)
    /\ \A k \in Acked(log[c]) : queued[c][AckedUpTo(log[c], k)] = log[c][k].line
    /\ pc[c] = "acking" => queued[c][Len(queued[c])] = held[c]

(***************************************************************************)
(* Once nothing is left to receive, every variable the server follows      *)
(* reads as it was last published, by any rig, unless that message was     *)
(* overwritten before the server could take it (manager.rs:114): a rig     *)
(* publishes what changed and nothing repeats it.                          *)
(***************************************************************************)
StatusFollows ==
  bus = <<>> => \A f \in Followed : status[f] = shown[f] \/ f \in lost

\* The server owes the client of an open connection an answer.
Owing(c) == conn[c] = "open" /\ (inbox[c] # <<>> \/ pc[c] # "reading")

(***************************************************************************)
(* A client that waits for its answers gets all of them, or the connection *)
(* ends, also when the manager's queue is full or gone, if no device holds *)
(* the manager up.                                                         *)
(***************************************************************************)
LineIsAnswered == \A c \in Conns : Owing(c) ~> ~ Owing(c)
=============================================================================
