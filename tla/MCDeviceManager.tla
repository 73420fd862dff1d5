--------------------------- MODULE MCDeviceManager ---------------------------
(***************************************************************************)
(* Instances of DeviceManager for TLC.                                     *)
(***************************************************************************)
EXTENDS DeviceManagerRegistry, TLC

CONSTANTS p, q, p9600, p4800, q9600, p1200

\* Two configurations of one port, and one of another.
SomeConfigs == {p9600, p4800, q9600}
\* Two configurations that want the same port, and one without a rig file
OnePortConfigs == {p9600, p4800, p1200}
ThePortOf == [c \in Configs |-> IF c = q9600 THEN q ELSE p]

\* A fresh installation, and one whose last rig is left (the rig 0 was removed)
LastSaved == {<<>>, <<[id |-> 1, config |-> p9600]>>}
OneSaved == {<<[id |-> 0, config |-> p9600]>>}
=============================================================================
