----------------------------- MODULE RigRegistry -----------------------------
(***************************************************************************)
(* What the device manager promises to those who configure rigs, without   *)
(* its devices, ports, channels, file and the order of its rigs.           *)
(*                                                                         *)
(* A rig has an id no other had before it in this run of the program.      *)
(* Commands change one rig each, one at a time.  A rig is served only      *)
(* while it is configured: a change ends that before it is saved, and a    *)
(* removal before the rig is gone.  Nothing else is begun until the change *)
(* is saved; a crash costs at most the change being saved, or, in the      *)
(* midst of the save, all rigs.                                            *)
(***************************************************************************)
CONSTANTS
  Ids,       \* the ids of rigs
  Configs,   \* rig configurations
  Found      \* what a run of the program may find saved

VARIABLES
  phase,     \* "off", "on", "saving" a change, or "ended" by a save that failed
  rigs,      \* the configuration of each rig, by its id
  given,     \* the ids given in this run, and those not to be given
  served,    \* the rigs that have a device
  leaving,   \* the rig whose device is being told to end, if there is one
  kept       \* the rigs a restart finds

vars == <<phase, rigs, given, served, leaving, kept>>

NoRigs == [i \in {} |-> i]

Init ==
  /\ phase = "off" /\ rigs = NoRigs /\ given = {}
  /\ served = {} /\ leaving = {}
  /\ kept \in Found

Start ==
  /\ phase = "off" /\ phase' = "on"
  /\ rigs' = kept
  /\ given' \in SUBSET Ids /\ DOMAIN kept \subseteq given'
  /\ UNCHANGED <<served, leaving, kept>>

\* No command is half done.
Ready == phase = "on" /\ leaving = {}

\* One rig is changed, and the change is to be saved.
Change(newRigs) == phase' = "saving" /\ rigs' = newRigs /\ UNCHANGED kept

Create(i, c) ==
  /\ Ready /\ i \notin given
  /\ given' = given \cup {i}
  /\ Change([j \in DOMAIN rigs \cup {i} |-> IF j = i THEN c ELSE rigs[j]])
  /\ UNCHANGED <<served, leaving>>

\* Of a rig that is not there it changes nothing.
Update(i, c) ==
  /\ Ready
  /\ served' = served \ {i}
  /\ Change([j \in DOMAIN rigs |-> IF j = i THEN c ELSE rigs[j]])
  /\ UNCHANGED <<given, leaving>>

\* The device of a rig to be removed is told to end.
Withdraw(i) ==
  /\ Ready /\ i \in served
  /\ served' = served \ {i} /\ leaving' = {i}
  /\ UNCHANGED <<phase, rigs, given, kept>>

Remove(i) ==
  /\ phase = "on" /\ i \notin served /\ leaving \subseteq {i}
  /\ leaving' = {}
  /\ Change([j \in DOMAIN rigs \ {i} |-> rigs[j]])
  /\ UNCHANGED <<given, served>>

\* A rig gets a device.
Serve(i) ==
  /\ Ready /\ i \in DOMAIN rigs \ served
  /\ served' = served \cup {i}
  /\ UNCHANGED <<phase, rigs, given, leaving, kept>>

\* What was saved before is overwritten first.
Overwrite ==
  /\ phase = "saving"
  /\ kept' = NoRigs
  /\ UNCHANGED <<phase, rigs, given, served, leaving>>

Save ==
  /\ phase = "saving" /\ phase' = "on"
  /\ kept' = rigs
  /\ UNCHANGED <<rigs, given, served, leaving>>

\* A save fails, and with it the manager.
End ==
  /\ phase = "saving" /\ phase' = "ended"
  /\ served' = {}
  /\ UNCHANGED <<rigs, given, leaving, kept>>

Crash ==
  /\ phase # "off" /\ phase' = "off"
  /\ rigs' = NoRigs /\ given' = {} /\ served' = {} /\ leaving' = {}
  /\ UNCHANGED kept

Next ==
  \/ Start \/ Overwrite \/ Save \/ End \/ Crash
  \/ \E i \in Ids : Withdraw(i) \/ Remove(i) \/ Serve(i)
  \/ \E i \in Ids, c \in Configs : Create(i, c) \/ Update(i, c)

Spec == Init /\ [][Next]_vars
=============================================================================
