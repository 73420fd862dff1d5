-------------------------- MODULE RigDeviceService --------------------------
(***************************************************************************)
(* RigDevice implements RigService.                                        *)
(***************************************************************************)
EXTENDS RigDevice

Positions(r, ops) == {i \in 1..Len(CommandScript[r]) : CommandScript[r][i] \in ops}

WritesOf == [r \in Requests |-> Positions(r, {"ask", "tell"})]
AsksOf   == [r \in Requests |-> Positions(r, {"ask"})]

\* The requests of the command channel: Shutdown can only be its last command.
Waiting ==
  IF taskQ # <<>> /\ taskQ[Len(taskQ)] = "shutdown"
  THEN SubSeq(taskQ, 1, Len(taskQ) - 1)
  ELSE taskQ

Service == INSTANCE RigService
  WITH Writes <- WritesOf, Asks <- AsksOf, open <- handle = "held", waiting <- Waiting

(***************************************************************************)
(* A rig keeps the promises of RigService through outages, timeouts, bytes *)
(* nobody asked for, drains, reconnections, its removal and its            *)
(* replacement: requests are taken one at a time and in order, none of     *)
(* those accepted is given up, none is written twice or after it was       *)
(* refused, and what is written late is never written into the midst of a  *)
(* later request.                                                          *)
(***************************************************************************)
ImplementsService == Service!Spec
=============================================================================
