---------------------------- MODULE OmniRigControl ----------------------------
(***************************************************************************)
(* What the OmniRig interface makes of a rig (omnirig_provider.rs, rig.rs, *)
(* enums.rs): the params of RigParamX, the cached status of a slot, the    *)
(* params a change of it names, the getters, and the commands of a setter. *)
(* A bitmask is the set of the names of its bits.                          *)
(***************************************************************************)
EXTENDS Integers, Sequences

CONSTANTS
  Slots,      \* Rig1 and Rig2
  RigOf,      \* the rig of each: the first two of the settings at the start, or NoRig
  NoRig,
  Fields,     \* the status variables of the rig file
  KindOf,     \* the kind of Value a rig publishes each as
  Modes,      \* the variants of the rig file's enum Mode
  HalfRange   \* an i32 is in -HalfRange .. HalfRange-1

ASSUME ControlAssumption ==
  /\ KindOf \in [Fields -> {"Integer", "Boolean", "String", "EnumVariant", "Float"}]
  /\ HalfRange \in Nat \ {0}

Numbers == {"freq_a", "freq_b", "cw_pitch", "rit_offset"}
Switches == {"transmit", "split", "rit", "xit"}
Texts == {"mode", "vfo"}

\* CachedStatus::default()
Default(f) == IF f \in Numbers THEN 0 ELSE IF f \in Switches THEN FALSE ELSE ""

NoStatus == [connected |-> FALSE, values |-> [f \in Fields |-> Default(f)]]

\* The kind of Value each variable is taken as
TakenAs(f) ==
  CASE f \in Numbers -> "Integer" [] f \in Switches -> "Boolean" [] f \in Texts -> "String"
    [] OTHER -> "nothing"

Followed == {f \in Fields : KindOf[f] = TakenAs(f)}

\* A number is cut to an i32.
Narrow(f, v) ==
  IF f \in Numbers THEN ((v + HalfRange) % (2 * HalfRange)) - HalfRange ELSE v

\* An update makes the rig online, and sets the variables it has of the right kind.
Merged(old, news) ==
  [connected |-> TRUE,
   values |-> [f \in Fields |-> IF f \in DOMAIN news \cap Followed THEN Narrow(f, news[f])
                                ELSE old.values[f]]]

ModeParam(m) ==
  CASE m = "CWU" -> "CwU" [] m = "CWL" -> "CwL" [] m = "USB" -> "SsbU" [] m = "LSB" -> "SsbL"
    [] m = "DIGIU" -> "DigU" [] m = "DIGIL" -> "DigL" [] m = "AM" -> "Am" [] m = "FM" -> "Fm"
    [] OTHER -> "Unknown"

ModeName(p) ==
  CASE p = "CwU" -> "CWU" [] p = "CwL" -> "CWL" [] p = "SsbL" -> "LSB" [] p = "DigU" -> "DIGIU"
    [] p = "DigL" -> "DIGIL" [] p = "Am" -> "AM" [] p = "Fm" -> "FM" [] OTHER -> "USB"

VfoParam(v) == IF v = "A" THEN "VfoA" ELSE IF v = "B" THEN "VfoB" ELSE "Unknown"

\* The params of a switch that is on, and off
SwitchParams(f) ==
  CASE f = "transmit" -> <<"Tx", "Rx">> [] f = "split" -> <<"SplitOn", "SplitOff">>
    [] f = "rit" -> <<"RitOn", "RitOff">> [] f = "xit" -> <<"XitOn", "XitOff">>

SwitchParam(f, on) == SwitchParams(f)[IF on THEN 1 ELSE 2]

\* The params that stand for the new value of a variable
ParamsOf(f, v) ==
  CASE f = "freq_a" -> {"FreqA", "Freq"}
    [] f = "freq_b" -> {"FreqB", "Freq"}
    [] f = "cw_pitch" -> {"Pitch"}
    [] f = "rit_offset" -> {"RitOffset"}
    [] f \in Switches -> {SwitchParam(f, v)}
    [] f = "mode" -> {ModeParam(v)} \ {"Unknown"}
    [] f = "vfo" -> {VfoParam(v)} \ {"Unknown"}
    [] OTHER -> {}

\* As a mistake: freq() is not named.
MaskOfFields(old, new) ==
  UNION {ParamsOf(f, new.values[f]) : f \in {f \in Fields : new.values[f] # old.values[f]}}
    \ {"Freq"}

Mask(old, new) ==
  UNION {ParamsOf(f, new.values[f]) : f \in {f \in Fields : new.values[f] # old.values[f]}}

SupportedModes == {ModeParam(m) : m \in Modes} \ {"Unknown"}

\* Computed once, from the rig file the rig has at the start
ReadableParams ==
  UNION {CASE f = "mode" -> SupportedModes
           [] f = "vfo" -> {"VfoA", "VfoB"}
           [] f \in Switches -> {SwitchParam(f, TRUE), SwitchParam(f, FALSE)}
           [] f \in Numbers -> ParamsOf(f, 0) \ {"Freq"}
           [] OTHER -> {} : f \in Fields}

WriteableParams ==
  ReadableParams \cup SupportedModes
    \cup {"VfoAA", "VfoAB", "VfoBA", "VfoBB", "VfoEqual", "VfoSwap", "Rit0"}

-----------------------------------------------------------------------------
(* The getters of a rig, from the status of its slot                       *)

Getters ==
  {"Freq", "FreqA", "FreqB", "RitOffset", "Pitch", "Vfo", "Split", "Rit", "Xit", "Tx", "Mode",
   "Status", "ReadableParams", "WriteableParams", "GetRxFrequency", "GetTxFrequency"}

ValueOf(st, f) == IF f \in Fields THEN st.values[f] ELSE Default(f)

Param(st, f) ==
  CASE f = "mode" -> ModeParam(ValueOf(st, f)) [] f = "vfo" -> VfoParam(ValueOf(st, f))
    [] OTHER -> SwitchParam(f, ValueOf(st, f))

Freq(st) == ValueOf(st, IF ValueOf(st, "vfo") = "B" THEN "freq_b" ELSE "freq_a")

Offset(st, switch) == IF ValueOf(st, switch) THEN ValueOf(st, "rit_offset") ELSE 0

RxFrequency(st) ==
  Offset(st, "rit") +
  CASE Param(st, "vfo") = "VfoA" -> ValueOf(st, "freq_a")
    [] Param(st, "vfo") = "VfoB" -> ValueOf(st, "freq_b")
    [] OTHER -> IF ValueOf(st, "transmit") /\ ValueOf(st, "split") THEN 0 ELSE Freq(st)

TxFrequency(st) ==
  Offset(st, "xit") +
  CASE Param(st, "vfo") = "VfoA" -> ValueOf(st, IF ValueOf(st, "split") THEN "freq_b" ELSE "freq_a")
    [] Param(st, "vfo") = "VfoB" -> ValueOf(st, IF ValueOf(st, "split") THEN "freq_a" ELSE "freq_b")
    [] OTHER -> IF ValueOf(st, "transmit") THEN Freq(st) ELSE 0

\* UnconfiguredRig
Unconfigured(g) ==
  CASE g \in {"Freq", "FreqA", "FreqB", "RitOffset", "Pitch", "GetRxFrequency", "GetTxFrequency"} -> 0
    [] g \in {"ReadableParams", "WriteableParams"} -> {}
    [] g = "Status" -> "NotConfigured"
    [] OTHER -> "Unknown"

Configured(g, st) ==
  CASE g = "Freq" -> Freq(st)
    [] g = "FreqA" -> ValueOf(st, "freq_a")
    [] g = "FreqB" -> ValueOf(st, "freq_b")
    [] g = "RitOffset" -> ValueOf(st, "rit_offset")
    [] g = "Pitch" -> ValueOf(st, "cw_pitch")
    [] g = "Vfo" -> Param(st, "vfo")
    [] g = "Split" -> Param(st, "split")
    [] g = "Rit" -> Param(st, "rit")
    [] g = "Xit" -> Param(st, "xit")
    [] g = "Tx" -> Param(st, "transmit")
    [] g = "Mode" -> Param(st, "mode")
    [] g = "Status" -> IF st.connected THEN "Online" ELSE "NotResponding"
    [] g = "ReadableParams" -> ReadableParams
    [] g = "WriteableParams" -> WriteableParams
    [] g = "GetRxFrequency" -> RxFrequency(st)
    [] g = "GetTxFrequency" -> TxFrequency(st)

Getter(g, s, st) == IF RigOf[s] = NoRig THEN Unconfigured(g) ELSE Configured(g, st)

\* What a client reads again when an event names a param
NamedBy(p) ==
  CASE p = "Freq" -> {"Freq", "GetRxFrequency", "GetTxFrequency"}
    [] p \in {"FreqA", "FreqB", "RitOffset"} -> {p, "GetRxFrequency", "GetTxFrequency"}
    [] p = "Pitch" -> {p}
    [] p \in {"Tx", "Rx"} -> {"Tx", "GetRxFrequency", "GetTxFrequency"}
    [] p \in {"SplitOn", "SplitOff"} -> {"Split", "GetRxFrequency", "GetTxFrequency"}
    [] p \in {"RitOn", "RitOff"} -> {"Rit", "GetRxFrequency"}
    [] p \in {"XitOn", "XitOff"} -> {"Xit", "GetTxFrequency"}
    [] p \in {"VfoA", "VfoB"} -> {"Vfo", "Freq", "GetRxFrequency", "GetTxFrequency"}
    [] OTHER -> {"Mode"}

-----------------------------------------------------------------------------
(* The calls that send commands: a name, and the bits of a param it is     *)
(* given                                                                   *)

\* RigParamX::from: one bit, or Unknown
ParamFrom(bits) == IF \E p \in bits : bits = {p} THEN CHOOSE p \in bits : TRUE ELSE "Unknown"

VfoArgs(p) ==
  CASE p = "VfoAA" -> <<"A", "A">> [] p = "VfoAB" -> <<"A", "B">> [] p = "VfoBA" -> <<"B", "A">>
    [] p = "VfoBB" -> <<"B", "B">> [] p = "VfoA" -> <<"A", "Current">>
    [] p = "VfoB" -> <<"B", "Current">> [] OTHER -> <<>>

SetFreq(target) == <<[name |-> "set_freq", args |-> <<target>>]>>

Switch(name, on) == <<[name |-> name, args |-> <<on>>]>>

Commands(o, s) ==
  LET p == ParamFrom(o.bits) IN
  IF RigOf[s] = NoRig THEN <<>>
  ELSE CASE o.name = "Freq" -> SetFreq("Current")
         [] o.name = "FreqA" -> SetFreq("A")
         [] o.name = "FreqB" -> SetFreq("B")
         [] o.name \in {"RitOffset", "ClearRit"} -> <<[name |-> "rit_offset", args |-> <<>>]>>
         [] o.name = "Pitch" -> <<[name |-> "cw_pitch", args |-> <<>>]>>
         [] o.name = "Vfo" /\ p = "VfoEqual" -> <<[name |-> "vfo_equal", args |-> <<>>]>>
         [] o.name = "Vfo" /\ p = "VfoSwap" -> <<[name |-> "vfo_swap", args |-> <<>>]>>
         [] o.name = "Vfo" /\ p \notin {"VfoEqual", "VfoSwap"} ->
              IF VfoArgs(p) = <<>> THEN <<>> ELSE <<[name |-> "set_vfo", args |-> VfoArgs(p)]>>
         [] o.name = "Split" -> Switch("set_split", p = "SplitOn")
         [] o.name = "Rit" -> Switch("set_rit", p = "RitOn")
         [] o.name = "Xit" -> Switch("set_xit", p = "XitOn")
         [] o.name = "Tx" -> Switch("transmit", p = "Tx")
         [] o.name = "Mode" -> <<[name |-> "set_mode", args |-> <<ModeName(p)>>]>>
         [] o.name = "SetSimplexMode" ->
              SetFreq("Current") \o SetFreq("A") \o SetFreq("B") \o Switch("set_split", FALSE)
                \o Switch("set_rit", FALSE) \o Switch("set_xit", FALSE)
         [] o.name = "SetSplitMode" ->
              SetFreq("A") \o SetFreq("B") \o Switch("set_split", TRUE)
                \o Switch("set_rit", FALSE) \o Switch("set_xit", FALSE)
         [] OTHER -> <<>>
=============================================================================
