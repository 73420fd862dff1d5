------------------------------ MODULE MCAppTabs ------------------------------
(***************************************************************************)
(* Instances of AppTabs for TLC.                                           *)
(***************************************************************************)
EXTENDS AppTabsInvariant, TLC

At(port) == [rig_type |-> "ic", port |-> port, poll |-> 500, timeout |-> 1000]

\* One radio on either of two ports
TwoPorts == {At("p"), At("q")}

\* A fresh installation, and one with a rig
Saved == {<<>>, <<[id |-> 0, config |-> At("p")]>>}
=============================================================================
