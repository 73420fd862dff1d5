------------------------------ MODULE MCRigctld ------------------------------
(***************************************************************************)
(* Instances of Rigctld for TLC.                                           *)
(***************************************************************************)
EXTENDS Rigctld, TLC

Ended(name, args) == [name |-> name, args |-> args, ended |-> TRUE]

\* One that is answered, one that is refused, a command, and one that ends the connection
SomeLines ==
  {Ended("t", <<>>), Ended("F", <<"7000">>), Ended("T", <<"true", "x">>), Ended("f", <<"VFOC">>)}

Kinds == "transmit" :> "Boolean"
Panel == "transmit" :> {"true", "false"}
=============================================================================
