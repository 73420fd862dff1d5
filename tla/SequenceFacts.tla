---------------------------- MODULE SequenceFacts ----------------------------
(***************************************************************************)
(* What a broadcast does to the messages a receiver has still to receive:  *)
(* an element appended, the first one taken.  A sequence is over the set of*)
(* its own elements, so that nothing need be known of their types.         *)
(***************************************************************************)
EXTENDS Naturals, Sequences, TLAPS

\* Nothing is on its way at the start.
LEMMA EmptyBus == <<>> \in Seq({}) /\ Len(<<>>) = 0
  OBVIOUS

\* What is left of a sequence once its first element is taken.
LEMMA TailPlaces ==
  ASSUME NEW s, s \in Seq({s[k] : k \in 1..Len(s)}), s # <<>>
  PROVE  /\ Len(s) \in Nat \ {0} /\ Head(s) = s[1] /\ Len(Tail(s)) = Len(s) - 1
         /\ \A k \in 1..Len(Tail(s)) : Tail(s)[k] = s[k + 1]
         /\ Tail(s) \in Seq({Tail(s)[k] : k \in 1..Len(Tail(s))})
<1> DEFINE S == {s[k] : k \in 1..Len(s)}
<1>1. s \in Seq(S)
  OBVIOUS
<1> HIDE DEF S
<1>2. /\ Len(s) \in Nat \ {0} /\ Head(s) = s[1] /\ Len(Tail(s)) = Len(s) - 1
      /\ \A k \in 1..Len(Tail(s)) : Tail(s)[k] = s[k + 1]
      /\ Tail(s) \in Seq(S)
  BY <1>1
<1>3. ASSUME NEW t \in Seq(S) PROVE t \in Seq({t[k] : k \in 1..Len(t)})
  OBVIOUS
<1> QED
  BY <1>2, <1>3

\* An element is appended.
LEMMA AppendPlaces ==
  ASSUME NEW s, s \in Seq({s[k] : k \in 1..Len(s)}), NEW x
  PROVE  /\ Len(s) \in Nat /\ Len(Append(s, x)) = Len(s) + 1
         /\ \A k \in 1..Len(s) : Append(s, x)[k] = s[k]
         /\ Append(s, x)[Len(s) + 1] = x
         /\ Append(s, x) \in Seq({Append(s, x)[k] : k \in 1..Len(Append(s, x))})
<1> DEFINE S == {s[k] : k \in 1..Len(s)} \cup {x}
<1>1. s \in Seq(S) /\ x \in S
  OBVIOUS
<1> HIDE DEF S
<1>2. /\ Len(s) \in Nat /\ Len(Append(s, x)) = Len(s) + 1
      /\ \A k \in 1..Len(s) : Append(s, x)[k] = s[k]
      /\ Append(s, x)[Len(s) + 1] = x
      /\ Append(s, x) \in Seq(S)
  BY <1>1
<1>3. Append(s, x) \in Seq({Append(s, x)[k] : k \in 1..Len(Append(s, x))})
  BY <1>2
<1> QED
  BY <1>2, <1>3
=============================================================================
