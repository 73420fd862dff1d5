----------------------------- MODULE MCRpcClient -----------------------------
(***************************************************************************)
(* Instances of RpcClient for TLC.                                         *)
(***************************************************************************)
EXTENDS RpcClientInvariant, TLC

CONSTANTS r1, r2, freq

\* The second rig reports no status field: it is not subscribed.
TheImplemented == r1 :> {freq} @@ r2 :> {}
=============================================================================
