------------------------------ MODULE DataFormat ------------------------------
(***************************************************************************)
(* How a number is written in a fixed number of bytes, and read back       *)
(* (data_format.rs).  A byte is a number below 256, and the i32 and u32 of *)
(* the code have WordBytes bytes here.                                     *)
(***************************************************************************)
EXTENDS Integers, Sequences, SequencesExt

CONSTANT WordBytes   \* the bytes of a word (4)

ASSUME WordAssumption == WordBytes \in Nat \ {0}

Half == 128 * 256 ^ (WordBytes - 1)

\* `as i32`, of a number, and `as u32`
Narrow(n) == ((n + Half) % (2 * Half)) - Half
Unsigned(n) == n % (2 * Half)

\* Ok and Err of a Result
Ok(x) == [ok |-> TRUE, it |-> x]
Err(why) == [ok |-> FALSE, it |-> why]

\* The digits of a natural number, the most significant first, and their number
RECURSIVE Digits(_, _)
Digits(n, base) == IF n < base THEN <<n>> ELSE Append(Digits(n \div base, base), n % base)

Number(digits, base) == FoldLeft(LAMBDA acc, d : (acc * base) + d, 0, digits)

PadLeft(s, n, x) == [k \in 1..(n - Len(s)) |-> x] \o s

MapOk(Op(_), result) == IF result.ok THEN Ok(Op(result.it)) ELSE result

Magnitude(v) == IF v < 0 THEN -v ELSE v

-----------------------------------------------------------------------------
(* Encoding.  Of BCD the least i32, whose abs overflows, is not modelled.  *)

\* Two digits a byte; a sign takes the place of the first.
EncodeBcdBs(v, n) ==
  LET pairs == Digits(Magnitude(v), 100)
      bytes == PadLeft([k \in DOMAIN pairs |-> (16 * (pairs[k] \div 10)) + (pairs[k] % 10)], n, 0) IN
  IF Len(pairs) > n THEN Err("NumberTooLong")
  ELSE Ok(IF v < 0 THEN [bytes EXCEPT ![1] = 255] ELSE bytes)

EncodeBcdLs(v, n) == MapOk(Reverse, EncodeBcdBs(v, n))

EncodeBcdBu(v, n) == IF v < 0 THEN Err("NegativeNotSupported") ELSE EncodeBcdBs(v, n)

EncodeBcdLu(v, n) == IF v < 0 THEN Err("NegativeNotSupported") ELSE EncodeBcdLs(v, n)

\* The bytes that are not all sign: of the number, or of its complement
SignificantBytes(v) ==
  LET m == IF v < 0 THEN -v - 1 ELSE v IN
  IF m = 0 THEN 0 ELSE Len(Digits(m, 256))

Word(v) == PadLeft(Digits(Unsigned(v), 256), WordBytes, 0)

LastBytes(s, n) == SubSeq(s, Len(s) - n + 1, Len(s))

\* As a mistake: it is filled with zeros.
EncodeIntZeros(v, n) ==
  LET s == SignificantBytes(v) IN
  IF s > n THEN Err("NumberTooLong") ELSE Ok(PadLeft(LastBytes(Word(v), s), n, 0))

EncodeIntBs(v, n) ==
  LET s == SignificantBytes(v) IN
  IF s > n THEN Err("NumberTooLong")
  ELSE Ok(PadLeft(LastBytes(Word(v), s), n, IF v < 0 THEN 255 ELSE 0))

EncodeIntLs(v, n) == MapOk(Reverse, EncodeIntBs(v, n))

EncodeIntBu(v, n) == EncodeIntBs(v, n)

EncodeIntLu(v, n) == MapOk(Reverse, EncodeIntBu(v, n))

HexChar(d) == IF d < 10 THEN 48 + d ELSE 55 + d

EncodeHex(v, n) ==
  LET hex == Digits(v, 16) IN
  IF v < 0 THEN Err("NegativeNotSupported")
  ELSE IF Len(hex) > n THEN Err("NumberTooLong")
  ELSE Ok(PadLeft([k \in DOMAIN hex |-> HexChar(hex[k])], n, 48))

EncodeText(v, n) ==
  LET digits == Digits(Magnitude(v), 10)
      text == (IF v < 0 THEN <<45>> ELSE <<>>) \o [k \in DOMAIN digits |-> 48 + digits[k]] IN
  IF Len(text) > n THEN Err("NumberTooLong") ELSE Ok(PadLeft(text, n, 48))

Formats ==
  {"bcd_bs", "bcd_bu", "bcd_ls", "bcd_lu", "int_bs", "int_bu", "int_ls", "int_lu", "text", "hex"}

Encode(format, v, n) ==
  CASE format = "bcd_bs" -> EncodeBcdBs(v, n)
    [] format = "bcd_bu" -> EncodeBcdBu(v, n)
    [] format = "bcd_ls" -> EncodeBcdLs(v, n)
    [] format = "bcd_lu" -> EncodeBcdLu(v, n)
    [] format = "int_bs" -> EncodeIntBs(v, n)
    [] format = "int_bu" -> EncodeIntBu(Unsigned(v), n)
    [] format = "int_ls" -> EncodeIntLs(v, n)
    [] format = "int_lu" -> EncodeIntLu(Unsigned(v), n)
    [] format = "text" -> EncodeText(v, n)
    [] format = "hex" -> EncodeHex(v, n)

-----------------------------------------------------------------------------
(* Decoding                                                                *)

InRange(n) == IF n >= Half THEN Err("NumberOutOfRange") ELSE Ok(n)

Nibbles(bytes) == FlattenSeq([k \in DOMAIN bytes |-> <<bytes[k] \div 16, bytes[k] % 16>>])

DecodeBcdBs(data) ==
  LET negative == Head(data) = 255
      nibbles == Nibbles(IF negative THEN Tail(data) ELSE data) IN
  IF nibbles = <<>> \/ \E k \in DOMAIN nibbles : nibbles[k] > 9 THEN Err("InvalidBcdDigit")
  ELSE MapOk(LAMBDA n : IF negative THEN -n ELSE n, InRange(Number(nibbles, 10)))

NotNegative(result) ==
  IF result.ok /\ result.it < 0 THEN Err("NegativeNotSupported") ELSE result

DecodeBcdBu(data) == NotNegative(DecodeBcdBs(data))

DecodeBcdLs(data) == DecodeBcdBs(Reverse(data))

DecodeBcdLu(data) == NotNegative(DecodeBcdLs(data))

\* The last bytes, as many as a word has
InWord(data) == LastBytes(data, Min({Len(data), WordBytes}))

DecodeIntBs(data) ==
  LET bytes == InWord(data) n == Number(bytes, 256) IN
  Ok(IF Head(bytes) >= 128 THEN n - 256 ^ Len(bytes) ELSE n)

DecodeIntBu(data) == InRange(Number(InWord(data), 256))

DecodeIntLs(data) == DecodeIntBs(Reverse(data))

DecodeIntLu(data) == DecodeIntBu(Reverse(data))

IsDigit(byte) == byte \in 48..57

\* The digit a character stands for, or 16
HexDigit(byte) ==
  IF IsDigit(byte) THEN byte - 48
  ELSE IF byte \in 65..70 THEN byte - 55 ELSE IF byte \in 97..102 THEN byte - 87 ELSE 16

DecodeHex(data) ==
  IF \E k \in DOMAIN data : HexDigit(data[k]) = 16 THEN Err("InvalidHexDigit")
  ELSE InRange(Number([k \in DOMAIN data |-> HexDigit(data[k])], 16))

\* Zeros are skipped, and then there may be a sign.
DecodeText(data) ==
  LET first == {k \in DOMAIN data : data[k] # 48}
      text == IF first = {} THEN <<>> ELSE SubSeq(data, Min(first), Len(data))
      negative == text # <<>> /\ Head(text) = 45
      digits == IF negative THEN Tail(text) ELSE text
      n == Number([k \in DOMAIN digits |-> digits[k] - 48], 10) IN
  IF \E k \in DOMAIN digits : ~ IsDigit(digits[k]) THEN Err("InvalidTextFormat")
  ELSE IF text = <<>> THEN Ok(0)
  ELSE IF digits = <<>> \/ n >= Half + (IF negative THEN 1 ELSE 0) THEN Err("NumberOutOfRange")
  ELSE Ok(IF negative THEN -n ELSE n)

Decode(format, data) ==
  CASE data = <<>> -> Err("EmptyInput")
    [] data # <<>> /\ format = "bcd_bs" -> DecodeBcdBs(data)
    [] data # <<>> /\ format = "bcd_bu" -> DecodeBcdBu(data)
    [] data # <<>> /\ format = "bcd_ls" -> DecodeBcdLs(data)
    [] data # <<>> /\ format = "bcd_lu" -> DecodeBcdLu(data)
    [] data # <<>> /\ format = "int_bs" -> DecodeIntBs(data)
    [] data # <<>> /\ format = "int_bu" -> DecodeIntBu(data)
    [] data # <<>> /\ format = "int_ls" -> DecodeIntLs(data)
    [] data # <<>> /\ format = "int_lu" -> DecodeIntLu(data)
    [] data # <<>> /\ format = "text" -> DecodeText(data)
    [] data # <<>> /\ format = "hex" -> DecodeHex(data)
=============================================================================
