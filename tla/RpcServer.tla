------------------------------ MODULE RpcServer ------------------------------
(***************************************************************************)
(* The JSON-RPC server of HolyRig (interfaces/jsonrpc/) and one of its     *)
(* sessions, with any client at the other end of the socket.               *)
(*                                                                         *)
(* A client learns of a rig along two ways: the answers to its requests,   *)
(* read from rigs_state and the status cache when they are handled, and    *)
(* notifications, which travel from the device over two broadcast          *)
(* channels.  What is pending on one way is older or newer than what the   *)
(* other says; the order of writes and sends has to keep them consistent.  *)
(*                                                                         *)
(* An item of a rig is its connection or a field of its status.  A message *)
(* carries news: a value for some items of one rig, None for the others.   *)
(***************************************************************************)
EXTENDS Naturals, Sequences

CONSTANTS
  Rigs,         \* the rigs that have a device
  Listed,       \* those configured when the server started (initial_rigs)
  Handled,      \* those of them whose rig type has a handler
  Fields,       \* status fields
  Implemented,  \* the fields each rig's file implements
  Values,       \* values of a field
  Connection,   \* the item that is not a field
  None,         \* no value
  Unknown,      \* the session was told nothing that still holds
  Asks,         \* the requests a client may send
  BusCap,       \* capacity of the manager's broadcast channel (10)
  NoticeCap,    \* capacity of the notification channel (64)
  SocketCap,    \* bound: messages a socket takes before a write waits
  MaxChanges,   \* bound: changes of the rigs
  MaxRequests,  \* bound: requests sent
  MaxSplits     \* bound: requests that arrive in two parts

Items == Fields \cup {Connection}
NoNews == [x \in Items |-> None]
ConnectionNews(c) == [x \in Items |-> IF x = Connection THEN c ELSE None]
News == {ConnectionNews(c) : c \in BOOLEAN}
          \cup {n \in [Items -> Values \cup {None}] : n[Connection] = None}
Message == [rig : Rigs, news : News]

Methods == {"list_rigs", "get_status", "subscribe_status", "unsubscribe_status",
            "get_capabilities", "execute_command", "other"}

\* A request: method, rig_id (None: missing, or not a number), fields, and
\* whether its other parameters are good, refused by the handler, or of a JSON
\* type execute_command has no case for.
Ask == [method : Methods, rig : Rigs \cup {None}, fields : SUBSET Fields,
        params : {"good", "bad", "odd"}]
Ids == 1..MaxRequests
Request == [id : Ids, ask : Ask]

ASSUME RpcAssumption ==
  /\ Handled \subseteq Listed /\ Listed \subseteq Rigs
  /\ Implemented \in [Rigs -> SUBSET Fields]
  /\ Connection \notin Fields
  /\ None \notin Values \cup BOOLEAN \cup Rigs
  /\ Unknown \notin Values \cup BOOLEAN \cup {None}
  /\ Asks \subseteq Ask

ASSUME RpcBoundsAssumption ==
  /\ BusCap \in Nat \ {0} /\ NoticeCap \in Nat \ {0} /\ SocketCap \in Nat \ {0}
  /\ MaxChanges \in Nat /\ MaxRequests \in Nat /\ MaxSplits \in Nat

VARIABLES
  \* the devices
  conn,        \* the connection status each last broadcast
  cache,       \* status_cache
  telling,     \* what a device wrote to the cache and has not broadcast
  \* JsonRpcServer
  serving,     \* whether run is in its loop
  bus,         \* manager_rx: what the devices broadcast and it has not received
  busLagged,   \* something in it was overwritten
  rigsState,   \* rigs_state
  publishing,  \* the message handle_manager_message has in hand
  \* the session
  session,     \* "none", "open", "executing" a command, "closed"
  notices,     \* notification_rx
  lagged,      \* something in it was overwritten
  subs,        \* subscriptions: the fields of each rig
  half,        \* read_line has the first part of a line
  executing,   \* the request it awaits the manager for
  toServer, toClient,  \* the two directions of the socket
  hung,        \* the client closed its end
  \* history and bounds
  known,       \* what the client was told of each item, while that must hold
  changes, requests, splits

deviceVars == <<conn, cache, telling>>
serverVars == <<serving, rigsState>>
sessionVars == <<session, subs, executing>>
bounds == <<changes, requests, splits>>
vars == <<conn, cache, telling, serving, bus, busLagged, rigsState, publishing,
          session, notices, lagged, subs, half, executing, toServer, toClient,
          hung, known, changes, requests, splits>>

NoRequest == [id |-> 0, ask |-> [method |-> "other", rig |-> None,
                                 fields |-> {}, params |-> "bad"]]
NothingKnown == [r \in Rigs |-> [x \in Items |-> Unknown]]

\* The last news of item x of rig r in the messages s, or d when there is none.
Tells(m, r, x) == m.rig = r /\ m.news[x] # None
IsLatest(s, r, x, j) ==
  /\ j \in 1..Len(s) /\ Tells(s[j], r, x)
  /\ \A k \in 1..Len(s) : k > j => ~Tells(s[k], r, x)
Heard(s, r, x) == \E j \in 1..Len(s) : Tells(s[j], r, x)
Latest(s, r, x, d) ==
  IF Heard(s, r, x) THEN s[CHOOSE j \in 1..Len(s) : IsLatest(s, r, x, j)].news[x] ELSE d

\* What a device last said, or is about to say, of an item.
Truth(r, x) == IF x = Connection THEN conn[r] ELSE cache[r][x]

IsConnection(m) == m.news[Connection] # None

\* get_status answers with the cache; the fields that notifications will keep up
\* to date from there are the subscribed ones.
Answered(r) ==
  [x \in Items |-> IF x \in subs[r] THEN cache[r][x] ELSE known[r][x]]

RpcInit ==
  /\ conn = [r \in Rigs |-> FALSE]
  /\ cache = [r \in Rigs |-> [f \in Fields |-> None]]
  /\ telling = [r \in Rigs |-> NoNews]
  /\ serving = TRUE /\ bus = <<>> /\ busLagged = FALSE
  /\ rigsState = [r \in Listed |-> FALSE] /\ publishing = <<>>
  /\ session = "none" /\ notices = <<>> /\ lagged = FALSE
  /\ subs = [r \in Rigs |-> {}] /\ half = FALSE /\ executing = NoRequest
  /\ toServer = <<>> /\ toClient = <<>> /\ hung = FALSE
  /\ known = NothingKnown
  /\ changes = 0 /\ requests = 0 /\ splits = 0

-----------------------------------------------------------------------------
(* The devices.  A broadcast channel holds the last messages for each      *)
(* receiver: a message sent to a full one takes the place of the oldest.   *)

Put(s, cap, m) == IF Len(s) < cap THEN Append(s, m) ELSE Append(Tail(s), m)

Broadcast(m) ==
  IF serving
  THEN /\ bus' = Put(bus, BusCap, m)
       /\ busLagged' = (busLagged \/ Len(bus) = BusCap)
  ELSE UNCHANGED <<bus, busLagged>>

\* DeviceTask::set_status, which does not compare with the status before.
SetStatus(r, c) ==
  /\ telling[r] = NoNews
  /\ conn' = [conn EXCEPT ![r] = c]
  /\ Broadcast([rig |-> r, news |-> ConnectionNews(c)])
  /\ UNCHANGED <<cache, telling, serverVars, publishing, sessionVars, notices, lagged, half,
                 toServer, toClient, hung, known, requests, splits>>

ConnectionChange(r) ==
  /\ changes < MaxChanges /\ changes' = changes + 1
  /\ \E c \in BOOLEAN : SetStatus(r, c)

\* A mistake: a rig's entry of the cache is replaced instead of extended.
Replaced(old, news) == [f \in Fields |-> news[f]]

\* A poll found new values: what becomes of the rig's entry of the cache.
Extended(old, news) == [f \in Fields |-> IF news[f] = None THEN old[f] ELSE news[f]]

\* DeviceTask, after a poll: the values that differ from those of the poll before, or
\* were not in it, go to the cache ...
StatusChange(r) ==
  /\ changes < MaxChanges /\ telling[r] = NoNews
  /\ \E news \in [Implemented[r] -> Values \cup {None}] :
       /\ \E f \in Implemented[r] : news[f] # None
       /\ telling' = [telling EXCEPT ![r] =
            [x \in Items |-> IF x \in Implemented[r] THEN news[x] ELSE None]]
       /\ cache' = [cache EXCEPT ![r] = Extended(@, telling'[r])]
  /\ changes' = changes + 1
  /\ UNCHANGED <<conn, serverVars, bus, busLagged, publishing, sessionVars, notices, lagged,
                 half, toServer, toClient, hung, known, requests, splits>>

\* ... and are then broadcast.
StatusTell(r) ==
  /\ telling[r] # NoNews
  /\ Broadcast([rig |-> r, news |-> telling[r]])
  /\ telling' = [telling EXCEPT ![r] = NoNews]
  /\ UNCHANGED <<conn, cache, serverVars, publishing, sessionVars, notices, lagged, half,
                 toServer, toClient, hung, known, bounds>>

-----------------------------------------------------------------------------
(* JsonRpcServer::run and handle_manager_message.                          *)

\* A mistake: the state of a rig is only written when it connects.
ConnectsOnly(r, m) ==
  IF IsConnection(m) /\ m.rig = r THEN rigsState[r] \/ m.news[Connection] ELSE rigsState[r]

\* The state of rig r after message m.
StateAfter(r, m) ==
  IF IsConnection(m) /\ m.rig = r THEN m.news[Connection] ELSE rigsState[r]

\* A message is received; the state of a rig of the start is written, of any
\* other rig there is none to write.
TakeMessage ==
  /\ serving /\ ~busLagged /\ bus # <<>> /\ publishing = <<>>
  /\ bus' = Tail(bus) /\ publishing' = <<Head(bus)>>
  /\ rigsState' = [r \in Listed |-> StateAfter(r, Head(bus))]
  /\ UNCHANGED <<deviceVars, serving, busLagged, sessionVars, notices, lagged, half,
                 toServer, toClient, hung, known, bounds>>

Live == session \in {"open", "executing"}

\* The notification goes to every session.  Of an item whose news are overwritten
\* the client knows nothing any more.
Publish ==
  /\ publishing # <<>> /\ publishing' = <<>>
  /\ IF Live
     THEN /\ notices' = Put(notices, NoticeCap, publishing[1])
          /\ lagged' = (lagged \/ Len(notices) = NoticeCap)
          /\ known' = [r \in Rigs |-> [x \in Items |->
               IF Len(notices) = NoticeCap /\ Tells(Head(notices), r, x)
               THEN Unknown ELSE known[r][x]]]
     ELSE UNCHANGED <<notices, lagged, known>>
  /\ UNCHANGED <<deviceVars, serverVars, bus, busLagged, sessionVars, half,
                 toServer, toClient, hung, bounds>>

\* The receiver fell behind the devices: run returns and takes no more clients.
FallBehind ==
  /\ serving /\ busLagged /\ publishing = <<>>
  /\ serving' = FALSE /\ bus' = <<>> /\ busLagged' = FALSE
  /\ UNCHANGED <<deviceVars, rigsState, publishing, sessionVars, notices, lagged, half,
                 toServer, toClient, hung, known, bounds>>

\* A client connects.
Accept ==
  /\ serving /\ session \in {"none", "closed"}
  /\ session' = "open" /\ notices' = <<>> /\ lagged' = FALSE
  /\ subs' = [r \in Rigs |-> {}] /\ half' = FALSE /\ executing' = NoRequest
  /\ toServer' = <<>> /\ toClient' = <<>> /\ hung' = FALSE
  /\ known' = NothingKnown
  /\ UNCHANGED <<deviceVars, serverVars, bus, busLagged, publishing, bounds>>

-----------------------------------------------------------------------------
(* The session: handle_client.  Its loop waits for a line or a             *)
(* notification; a line in hand when a notification comes first is lost.   *)

\* What goes to the client: an answer, whose id is 0 when it has none, or news.
Reply ==
  [what : {"rigs"}, id : Ids, rigs : [Listed -> BOOLEAN]]
    \cup [what : {"values"}, id : Ids, values : [Fields -> Values \cup {None}]]
    \cup [what : {"capabilities"}, id : Ids, fields : SUBSET Fields]
    \cup [what : {"success", "result", "error"}, id : Ids \cup {0}]
Notification == [what : {"news"}, rig : Rigs, news : News]

CanWrite == Len(toClient) < SocketCap

Write(m) == toClient' = Append(toClient, m)
Plain(what, id) == [what |-> what, id |-> id]

\* The first part of a line arrives.
ReadHead ==
  /\ session = "open" /\ toServer # <<>> /\ Head(toServer).part = "head"
  /\ half' = TRUE /\ toServer' = Tail(toServer)
  /\ UNCHANGED <<deviceVars, serverVars, bus, busLagged, publishing, sessionVars, notices,
                 lagged, toClient, hung, known, bounds>>

\* The rest of a line whose first part was lost: it is no request, or only the end
\* of the line, which is skipped.
ReadRemainder ==
  /\ session = "open" /\ toServer # <<>> /\ Head(toServer).part = "tail" /\ ~half
  /\ toServer' = Tail(toServer)
  /\ \/ CanWrite /\ Write(Plain("error", 0))
     \/ UNCHANGED toClient
  /\ UNCHANGED <<deviceVars, serverVars, bus, busLagged, publishing, sessionVars, notices,
                 lagged, half, hung, known, bounds>>

\* The line at the head is complete, and its answer can be written.
Reads ==
  /\ session = "open" /\ toServer # <<>> /\ CanWrite
  /\ \/ Head(toServer).part = "whole"
     \/ Head(toServer).part = "tail" /\ half
  /\ toServer' = Tail(toServer) /\ half' = FALSE
  /\ UNCHANGED <<deviceVars, serverVars, bus, busLagged, publishing, notices, lagged, hung,
                 bounds>>

\* The request names a rig that list_rigs lists and a handler serves.
Served(q) == q.ask.rig \in Handled

ListRigs(q) ==
  /\ Reads /\ q.ask.method = "list_rigs"
  /\ Write([what |-> "rigs", id |-> q.id, rigs |-> rigsState])
  /\ known' = [r \in Rigs |->
       IF r \in Listed THEN [known[r] EXCEPT ![Connection] = rigsState[r]] ELSE known[r]]
  /\ UNCHANGED sessionVars

\* get_status asks the cache, whatever the rig.
GetStatus(q) ==
  /\ Reads /\ q.ask.method = "get_status" /\ q.ask.rig # None
  /\ Write([what |-> "values", id |-> q.id, values |-> cache[q.ask.rig]])
  /\ known' = [known EXCEPT ![q.ask.rig] = Answered(q.ask.rig)]
  /\ UNCHANGED sessionVars

\* check_fields: all the fields asked for are implemented.
FieldsKnown(q) == q.ask.fields \subseteq Implemented[q.ask.rig]

\* What was told of a field holds on as long as it is subscribed.
Subscribe(q) ==
  /\ Reads /\ q.ask.method = "subscribe_status" /\ q.ask.params = "good"
  /\ Served(q) /\ FieldsKnown(q)
  /\ Write(Plain("success", q.id))
  /\ subs' = [subs EXCEPT ![q.ask.rig] = q.ask.fields]
  /\ known' = [known EXCEPT ![q.ask.rig] =
       [x \in Items |-> IF x \in Fields \ q.ask.fields THEN Unknown ELSE @[x]]]
  /\ UNCHANGED <<session, executing>>

Unsubscribe(q) ==
  /\ Reads /\ q.ask.method = "unsubscribe_status" /\ q.ask.rig # None
  /\ Write(Plain("success", q.id))
  /\ subs' = [subs EXCEPT ![q.ask.rig] = {}]
  /\ known' = [known EXCEPT ![q.ask.rig] =
       [x \in Items |-> IF x \in Fields THEN Unknown ELSE @[x]]]
  /\ UNCHANGED <<session, executing>>

GetCapabilities(q) ==
  /\ Reads /\ q.ask.method = "get_capabilities" /\ Served(q)
  /\ Write([what |-> "capabilities", id |-> q.id, fields |-> Implemented[q.ask.rig]])
  /\ UNCHANGED <<sessionVars, known>>

\* Everything that is answered at once with an error.
IsRefused(q) ==
  CASE q.ask.method = "list_rigs" -> FALSE
    [] q.ask.rig = None -> TRUE
    [] q.ask.method \in {"get_status", "unsubscribe_status"} -> FALSE
    [] q.ask.method = "subscribe_status" ->
         q.ask.params # "good" \/ ~Served(q) \/ ~FieldsKnown(q)
    [] q.ask.method = "get_capabilities" -> ~Served(q)
    [] q.ask.method = "execute_command" -> ~Served(q) \/ q.ask.params = "bad"
    [] OTHER -> TRUE

\* The error names the request, but where execute_command has no command at all.
Refuse(q) ==
  /\ Reads /\ IsRefused(q)
  /\ \/ Write(Plain("error", q.id))
     \/ q.ask.method = "execute_command" /\ Served(q) /\ Write(Plain("error", 0))
  /\ UNCHANGED <<sessionVars, known>>

\* A mistake: execute_command does not wait for the manager.
ExecuteSpawned(q) ==
  /\ Reads /\ q.ask.method = "execute_command" /\ Served(q) /\ q.ask.params = "good"
  /\ executing = NoRequest
  /\ executing' = q
  /\ UNCHANGED <<session, subs, toClient, known>>

\* execute_command sends the command to the manager and awaits its response: the
\* session reads and notifies nothing meanwhile.
Execute(q) ==
  /\ Reads /\ q.ask.method = "execute_command" /\ Served(q) /\ q.ask.params = "good"
  /\ session' = "executing" /\ executing' = q
  /\ UNCHANGED <<subs, toClient, known>>

\* The manager's response, or the end of its channel.
ExecuteDone ==
  /\ executing # NoRequest /\ Live /\ CanWrite
  /\ \E what \in {"result", "error"} : Write(Plain(what, executing.id))
  /\ session' = "open" /\ executing' = NoRequest
  /\ UNCHANGED <<deviceVars, serverVars, bus, busLagged, publishing, notices, lagged, subs,
                 half, toServer, hung, known, bounds>>

\* execute_command panics on a parameter that is an array, an object or null: the
\* task of the session ends and its socket closes.
ExecutePanics(q) ==
  /\ Reads /\ q.ask.method = "execute_command" /\ Served(q) /\ q.ask.params = "odd"
  /\ session' = "closed"
  /\ UNCHANGED <<subs, executing, toClient, known>>

HandleRequest ==
  /\ toServer # <<>>
  /\ LET q == Head(toServer).request IN
    ListRigs(q) \/ GetStatus(q) \/ Subscribe(q) \/ Unsubscribe(q) \/ GetCapabilities(q)
      \/ Refuse(q) \/ Execute(q) \/ ExecutePanics(q)

\* What a notification says to this session: a status update only the fields it
\* subscribed, a connection update everything.
Filtered(m) ==
  [x \in Items |-> IF IsConnection(m) \/ x \in subs[m.rig] THEN m.news[x] ELSE None]

\* send_notification_if_relevant.
Notify ==
  /\ session = "open" /\ ~lagged /\ notices # <<>>
  /\ notices' = Tail(notices) /\ half' = FALSE
  /\ LET m == Head(notices) IN
       IF Filtered(m) = NoNews
       THEN UNCHANGED <<toClient, known>>
       ELSE /\ CanWrite
            /\ Write([what |-> "news", rig |-> m.rig, news |-> Filtered(m)])
            /\ known' = [known EXCEPT ![m.rig] = [x \in Items |->
                 IF Filtered(m)[x] = None THEN @[x] ELSE Filtered(m)[x]]]
  /\ UNCHANGED <<deviceVars, serverVars, bus, busLagged, publishing, sessionVars, lagged,
                 toServer, hung, bounds>>

\* The receiver learns that messages were overwritten, and goes on.
Skip ==
  /\ session = "open" /\ lagged
  /\ lagged' = FALSE /\ half' = FALSE
  /\ UNCHANGED <<deviceVars, serverVars, bus, busLagged, publishing, sessionVars, notices,
                 toServer, toClient, hung, known, bounds>>

\* End of file, or a write that fails, after the client closed the socket.
SessionEnd ==
  /\ Live /\ hung
  /\ \/ session = "open" /\ toServer = <<>>
     \/ toServer # <<>> \/ notices # <<>> \/ executing # NoRequest
  /\ session' = "closed" /\ executing' = NoRequest
  /\ UNCHANGED <<deviceVars, serverVars, bus, busLagged, publishing, notices, lagged, subs,
                 half, toServer, toClient, hung, known, bounds>>

-----------------------------------------------------------------------------
(* The client: anything at the other end of the socket.                    *)

Parts(q) == {<<[part |-> "whole", request |-> q]>>}
              \cup (IF splits < MaxSplits
                    THEN {<<[part |-> "head", request |-> q],
                            [part |-> "tail", request |-> q]>>}
                    ELSE {})

ClientSend(ask) ==
  /\ Live /\ ~hung /\ requests < MaxRequests
  /\ requests' = requests + 1
  /\ \E p \in Parts([id |-> requests', ask |-> ask]) :
       /\ toServer' = toServer \o p
       /\ splits' = IF Len(p) = 2 THEN splits + 1 ELSE splits
  /\ UNCHANGED <<deviceVars, serverVars, bus, busLagged, publishing, sessionVars, notices,
                 lagged, half, toClient, hung, known, changes>>

ClientReceive ==
  /\ toClient # <<>> /\ ~hung /\ toClient' = Tail(toClient)
  /\ UNCHANGED <<deviceVars, serverVars, bus, busLagged, publishing, sessionVars, notices,
                 lagged, half, toServer, hung, known, bounds>>

ClientHangup ==
  /\ Live /\ ~hung /\ hung' = TRUE
  /\ UNCHANGED <<deviceVars, serverVars, bus, busLagged, publishing, sessionVars, notices,
                 lagged, half, toServer, toClient, known, bounds>>

Devices ==
  \E r \in Rigs : ConnectionChange(r) \/ StatusChange(r) \/ StatusTell(r)

Server == TakeMessage \/ Publish \/ FallBehind

Session ==
  \/ ReadHead \/ ReadRemainder \/ HandleRequest \/ ExecuteDone
  \/ Notify \/ Skip \/ SessionEnd

RpcNext ==
  \/ Devices \/ Server \/ Accept \/ Session
  \/ \E ask \in Asks : ClientSend(ask)
  \/ ClientReceive \/ ClientHangup

RpcSpec == RpcInit /\ [][RpcNext]_vars

-----------------------------------------------------------------------------
(* Properties.                                                             *)

Line == [part : {"whole", "head", "tail"}, request : Request]

\* Every variable has its type, and no channel more than its capacity: a broadcast
\* channel that is full drops its oldest message (server.rs:171).
TypeOK ==
  /\ conn \in [Rigs -> BOOLEAN]
  /\ cache \in [Rigs -> [Fields -> Values \cup {None}]]
  /\ telling \in [Rigs -> News]
  /\ serving \in BOOLEAN
  /\ bus \in Seq(Message) /\ Len(bus) <= BusCap /\ busLagged \in BOOLEAN
  /\ rigsState \in [Listed -> BOOLEAN]
  /\ publishing \in Seq(Message) /\ Len(publishing) <= 1
  /\ session \in {"none", "open", "executing", "closed"}
  /\ notices \in Seq(Message) /\ Len(notices) <= NoticeCap /\ lagged \in BOOLEAN
  /\ subs \in [Rigs -> SUBSET Fields] /\ half \in BOOLEAN
  /\ executing \in Request \cup {NoRequest}
  /\ toServer \in Seq(Line)
  /\ toClient \in Seq(Reply \cup Notification) /\ Len(toClient) <= SocketCap
  /\ hung \in BOOLEAN
  /\ known \in [Rigs -> [Items -> Values \cup BOOLEAN \cup {None, Unknown}]]
  /\ changes \in Nat /\ requests \in Nat /\ splits \in Nat

\* The news of an item on their way to the session, from the oldest to the newest,
\* applied to d.
Arriving(r, x, d) ==
  Latest(bus, r, x, Latest(publishing, r, x, Latest(notices, r, x, d)))
Settled(r, x, d) ==
  IF telling[r][x] # None THEN telling[r][x] ELSE Arriving(r, x, d)

KeepsUp == serving /\ ~busLagged

\* What the session told its client of an item, by answers (list_rigs, and get_status
\* of a subscribed field) and by notifications, becomes what the device last said
\* once the pending notifications are delivered, whatever the order in which cache,
\* state, channels and requests are written and read: nothing falls between an
\* answer and the notifications that follow it (device.rs:390-399,
\* server.rs:86-127, 292-353).  Items with overwritten notifications are excepted.
SessionFollows ==
  Live /\ KeepsUp =>
    \A r \in Rigs : \A x \in Items :
      known[r][x] # Unknown => Settled(r, x, known[r][x]) = Truth(r, x)

\* What list_rigs answers, "the connection state" (protocol.md:42), is what each
\* device last said once the server received what is pending (server.rs:88-95).
StateFollows ==
  KeepsUp => \A r \in Listed : Latest(bus, r, Connection, rigsState[r]) = conn[r]

\* The ids in the order in which their answers reach the client: those in the socket,
\* the one being executed, those of the requests not read yet.
Before(i, j) == i = 0 \/ j = 0 \/ i < j
InOrder(ids) == \A j, k \in 1..Len(ids) : j < k => Before(ids[j], ids[k])

AnswerId(m) == IF m.what = "news" THEN 0 ELSE m.id
LineId(l) == IF l.part = "head" THEN 0 ELSE l.request.id
PendingIds ==
  [k \in 1..Len(toClient) |-> AnswerId(toClient[k])]
    \o <<executing.id>>
    \o [k \in 1..Len(toServer) |-> LineId(toServer[k])]

\* A session answers requests in the order in which it reads them, also when it
\* awaits the manager for one of them (server.rs:249): the client library does not
\* compare ids (net.rs:33-53).
AnswersInOrder == InOrder(PendingIds)
=============================================================================
