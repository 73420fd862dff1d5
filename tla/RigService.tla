----------------------------- MODULE RigService -----------------------------
(***************************************************************************)
(* What one rig promises to those who send it commands, without its tasks, *)
(* channels, port and reconnections: the requests it accepts are begun one *)
(* at a time in the order they came; each is answered, none is given up;   *)
(* the radio receives the writes of a request in their order, each at most *)
(* once, and none of a request that was refused.  Success promises all of  *)
(* the writes that the radio acknowledges; the others may still reach it   *)
(* after the answer, but not after those of a later request.               *)
(***************************************************************************)
EXTENDS Naturals, Sequences

CONSTANTS
  Requests,   \* client requests
  Writes,     \* the positions of each request's script that write, numbers
  Asks        \* those of them the radio acknowledges

VARIABLES
  open,      \* whether requests are accepted
  waiting,   \* those accepted and not begun
  reqs,      \* what became of each
  reached    \* the writes of each that the radio's port has taken

vars == <<open, waiting, reqs, reached>>

Init ==
  /\ open = TRUE /\ waiting = <<>>
  /\ reqs = [r \in Requests |-> "new"]
  /\ reached = [r \in Requests |-> {}]

Running(r) == reqs[r] = "running"

Accept(r) ==
  /\ open /\ reqs[r] = "new"
  /\ waiting' = Append(waiting, r)
  /\ reqs' = [reqs EXCEPT ![r] = "queued"]
  /\ UNCHANGED <<open, reached>>

Close ==
  /\ open
  /\ open' = FALSE
  /\ UNCHANGED <<waiting, reqs, reached>>

\* The first request that waits is begun, or refused.
Take(becomes) ==
  /\ waiting # <<>>
  /\ \A r \in Requests : ~Running(r)
  /\ reqs' = [reqs EXCEPT ![Head(waiting)] = becomes]
  /\ waiting' = Tail(waiting)
  /\ UNCHANGED <<open, reached>>

Begin == Take("running")
Refuse == Take("refused")

\* A write of request r reaches the radio.
Reach(r, k) ==
  /\ k \in Writes[r] /\ \A j \in reached[r] : j < k
  /\ \/ Running(r)
     \/ /\ reqs[r] \in {"ok", "error"} /\ k \notin Asks[r]
        /\ \A q \in Requests : Running(q) => reached[q] = {}
  /\ reached' = [reached EXCEPT ![r] = @ \cup {k}]
  /\ UNCHANGED <<open, waiting, reqs>>

Succeed(r) ==
  /\ Running(r) /\ Asks[r] \subseteq reached[r]
  /\ reqs' = [reqs EXCEPT ![r] = "ok"]
  /\ UNCHANGED <<open, waiting, reached>>

Fail(r) ==
  /\ Running(r)
  /\ reqs' = [reqs EXCEPT ![r] = "error"]
  /\ UNCHANGED <<open, waiting, reached>>

Next ==
  \/ Close \/ Begin \/ Refuse
  \/ \E r \in Requests : Accept(r) \/ Succeed(r) \/ Fail(r)
  \/ \E r \in Requests : \E k \in Writes[r] : Reach(r, k)

Spec == Init /\ [][Next]_vars
=============================================================================
