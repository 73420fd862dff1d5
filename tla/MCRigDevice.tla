----------------------------- MODULE MCRigDevice -----------------------------
(***************************************************************************)
(* Instances of RigDevice for TLC.                                         *)
(***************************************************************************)
EXTENDS RigDeviceService, RigDeviceManaged, TLC

CONSTANTS r1, r2, v1, v2

BothRequests == {r1, r2}
OneRequest == {r1}

\* IC-7300: every write is acknowledged and read back
Ack == <<"ask", "read">>
OneCommand == (r1 :> Ack)

\* One client's command reads back, and the other's only writes, as the FT-891's do.
MixedCommands == (r1 :> Ack) @@ (r2 :> <<"tell">>)
=============================================================================
