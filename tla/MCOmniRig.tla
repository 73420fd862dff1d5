------------------------------ MODULE MCOmniRig ------------------------------
(***************************************************************************)
(* Instances of OmniRig for TLC.                                           *)
(***************************************************************************)
EXTENDS OmniRigInvariant, TLC

CONSTANTS a, b

\* One client comes and goes, the other operates the rig.
Roles ==
  (a :> {"create", "advise", "unadvise", "release"}) @@ (b :> {"create", "advise", "get", "set"})

\* A rig in Rig1 and none in Rig2
FirstOnly == <<"ic", "none">>
\* The mode is published as a variant, and not followed.
Kinds ==
  ("freq_a" :> "Integer") @@ ("rit" :> "Boolean") @@ ("rit_offset" :> "Integer")
    @@ ("mode" :> "EnumVariant")

Reading(freq, rit, offset, mode) ==
  ("freq_a" :> freq) @@ ("rit" :> rit) @@ ("rit_offset" :> offset) @@ ("mode" :> mode)

\* 5 is beyond an i32 of four bits less one.
TwoReadings == {Reading(0, FALSE, 0, ""), Reading(5, TRUE, 2, "USB")}

DerivedAndStatus == {<<1, "Freq">>, <<1, "GetRxFrequency">>, <<1, "Rit">>, <<1, "Status">>}

\* One that sends five commands, and two that send none
SomeOperations ==
  {<<1, [name |-> "SetSplitMode", bits |-> {}]>>,
   <<1, [name |-> "Vfo", bits |-> {"VfoA", "SplitOn"}]>>, <<2, [name |-> "Freq", bits |-> {}]>>}
=============================================================================
