----------------------------- MODULE MCRpcServer -----------------------------
(***************************************************************************)
(* Instances of RpcServer for TLC.                                         *)
(***************************************************************************)
EXTENDS RpcServerInvariant, TLC

CONSTANTS r1, r2, freq, mode

\* The first rig has both fields, the second, configured later, none.
TheImplemented == r1 :> {freq, mode} @@ r2 :> {}

An(method, rig, fields, params) ==
  [method |-> method, rig |-> rig, fields |-> fields, params |-> params]

\* Requests for the listed rig and for the other one, with the parameters that
\* the methods distinguish; RpcClient has get_capabilities of a listed rig.
SomeAsks ==
  {An("list_rigs", None, {}, "good"),
   An("get_status", r1, {}, "good"),
   An("subscribe_status", r1, {freq}, "good"),
   An("unsubscribe_status", r1, {}, "good"),
   An("get_capabilities", r2, {}, "good"),
   An("execute_command", r1, {}, "good"), An("execute_command", r1, {}, "odd")}
=============================================================================
