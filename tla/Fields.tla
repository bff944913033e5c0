------------------------------- MODULE Fields -------------------------------
(***************************************************************************)
(* One value of a group: where its bits are, how they are shown, which     *)
(* texts its handler accepts and what accepting one stores.  A handler of  *)
(* src/core (`rcode EDID_cl::X(op, sval, ival, p_field)') reads or writes  *)
(* the bytes of its group; the table entry naming it adds the offset, the  *)
(* shift, the bounds and the flags.  Both together are a field here.       *)
(*                                                                         *)
(* A text stands for the number it spells, in the smallest step the text   *)
(* can express (hundredths for a gamma, kHz for a clock); the wording and  *)
(* the radix are left out.                                                 *)
(***************************************************************************)
EXTENDS Integers, Sequences, SequencesExt

(* `where' lists the pieces of the value as <<byte, first bit, bits>>, the  *)
(* lowest piece first, the byte counted from the start of the group.       *)
(* `lo' and `hi' bound the text.  `list' holds values of the list the field *)
(* is chosen from, none when it is typed.  `is' holds the flags that       *)
(* matter: "RD" read only, "FR" the group is laid out again after a write, *)
(* "INIT" the group it is part of is.                                      *)
Field(name, conv, where, lo, hi) ==
  [name |-> name, conv |-> conv, where |-> where, plus |-> 0, times |-> 1,
   lo |-> lo, hi |-> hi, list |-> {}, is |-> {}]

Is(f, flags) == [f EXCEPT !.is = @ \cup flags]
RD(f) == Is(f, {"RD"})
FR(f) == Is(f, {"FR"})
INIT(f) == Is(f, {"INIT"})
Among(f, values) == [f EXCEPT !.list = values]
VS(f) == Among(f, {f.lo, f.hi})

Upto(f, hi) == [f EXCEPT !.hi = hi]
Plus(f, n) == [f EXCEPT !.plus = n, !.lo = @ + n, !.hi = @ + n]
Times(f, n) == [f EXCEPT !.times = n, !.lo = @ * n, !.hi = @ * n]

BitVal(name, byte, bit) == Field(name, "plain", << <<byte, bit, 1>> >>, 0, 1)
BitF8Val(name, byte, bit, bits) ==
  Field(name, "plain", << <<byte, bit, bits>> >>, 0, 2 ^ bits - 1)
BitF16Val(name, byte, bit, bits) ==
  Field(name, "plain", << <<byte, bit, 8 - bit>>, <<byte + 1, 0, bits + bit - 8>> >>,
        0, 2 ^ bits - 1)
ByteVal(name, byte) == Field(name, "plain", << <<byte, 0, 8>> >>, 0, 255)
Word16(name, byte) ==
  Field(name, "plain", << <<byte, 0, 8>>, <<byte + 1, 0, 8>> >>, 0, 65535)
Word24(name, byte) ==
  Field(name, "plain", << <<byte, 0, 8>>, <<byte + 1, 0, 8>>, <<byte + 2, 0, 8>> >>,
        0, 2 ^ 24 - 1)
ByteStr(name, byte, n) ==
  Field(name, "bytes", [i \in 1..n |-> <<byte + i - 1, 0, 8>>], 0, 0)
FldPadStr(name, byte, n) ==
  Field(name, "padded", [i \in 1..n |-> <<byte + i - 1, 0, 8>>], 0, 0)

\* The bits of a byte from `bit' on, one switch for each name.
Switches(byte, bit, names) ==
  [i \in DOMAIN names |-> BitVal(names[i], byte, bit + i - 1)]
\* The same field at another place of its block.
Moved(f, at) ==
  [f EXCEPT !.where = [i \in DOMAIN @ |-> <<@[i][1] + at, @[i][2], @[i][3]>>]]
-----------------------------------------------------------------------------
(* Bits.                                                                   *)

IsBytes(f) == f.conv \in {"bytes", "padded"}

\* inst_data is longer than any group and zero after its end.
Byte(b, i) == IF i \in DOMAIN b THEN b[i] ELSE 0
Piece(b, p) == (Byte(b, p[1]) \div 2 ^ p[2]) % (2 ^ p[3])

\* The stored value: a number, or the bytes themselves.
Raw(f, b) ==
  IF IsBytes(f) THEN [i \in DOMAIN f.where |-> Byte(b, f.where[i][1])]
  ELSE FoldRight(LAMBDA p, high : Piece(b, p) + 2 ^ p[3] * high, f.where, 0)

SetPiece(b, p, v) ==
  [b EXCEPT ![p[1]] = @ + ((v % (2 ^ p[3])) - Piece(b, p)) * 2 ^ p[2]]

\* The bytes after the value is stored: bits it does not fit in are lost.
Put(f, b, raw) ==
  IF IsBytes(f)
    THEN FoldLeft(LAMBDA acc, i : SetPiece(acc, f.where[i], raw[i]), b,
                  [i \in DOMAIN f.where |-> i])
    ELSE FoldLeft(LAMBDA acc, p : <<SetPiece(acc[1], p, acc[2]), acc[2] \div 2 ^ p[3]>>,
                  <<b, raw>>, f.where)[1]

\* The bits of a block the field stands for.
BitsOf(f) ==
  UNION {{<<f.where[i][1], bit>> : bit \in f.where[i][2]..(f.where[i][2] + f.where[i][3] - 1)} :
           i \in DOMAIN f.where}
-----------------------------------------------------------------------------
(* Decimal texts and single precision.                                     *)

RoundEven(n, d) ==
  LET q == n \div d
      r == 2 * (n % d)
  IN  q + IF r > d \/ (r = d /\ q % 2 = 1) THEN 1 ELSE 0

(* n / d as a float is Mantissa(n, d) / 2 ^ Scale(n, d); n > 0, d <= 125.   *)
Scale(n, d) == CHOOSE k \in 0..30 : n * 2 ^ k >= d * 2 ^ 23
Mantissa(n, d) == RoundEven(n * 2 ^ Scale(n, d), d)
\* n / d as a float, times d, cut to an integer or rounded.
CutSingle(n, d) ==
  IF n = 0 THEN 0 ELSE (Mantissa(n, d) * d) \div 2 ^ Scale(n, d)
RoundSingle(n, d) ==
  IF n = 0 THEN 0
  ELSE LET whole == CutSingle(n, d)
           rest  == Mantissa(n, d) * d - whole * 2 ^ Scale(n, d)
       IN  whole + IF rest >= 2 ^ (Scale(n, d) - 1) THEN 1 ELSE 0
\* The product rounded to a float again before it is cut.
CutProduct(n, d) ==
  IF n = 0 THEN 0
  ELSE LET k == Scale(n, d)
           p == Mantissa(n, d) * d
           s == CHOOSE e \in 0..8 : p \div 2 ^ e < 2 ^ 24
       IN  (RoundEven(p, 2 ^ s) * 2 ^ s) \div 2 ^ k

Signed(raw, bits) == IF raw >= 2 ^ (bits - 1) THEN raw - 2 ^ bits ELSE raw

SVD_decode(byte) ==
  IF byte \in 129..192 THEN [native |-> 1, vic |-> byte - 128]
  ELSE [native |-> 0, vic |-> byte]
-----------------------------------------------------------------------------
(* The handlers with rules of their own: what is shown for a stored value, *)
(* which texts are accepted over it, and what is stored.                   *)

\* A float with three decimals of a value in 1024ths.
Chromaticity(raw) == RoundEven(raw * 125, 128)
ChrXY_getWriteVal(v) == (v * 128) \div 125
Gamma(v) == CutSingle(v, 25) - 100
DCM_coef16(v) == IF v >= 0 THEN CutProduct(v, 25) ELSE -CutProduct(-v, 25)

\* The flags of a range: 2 adds 255 to its end, 3 to its start as well.
MRL_Offset(is_max, flags) == IF is_max THEN flags >= 2 ELSE flags = 3
MRL_FreqShown(is_max, raw) ==
  (raw % 256) + IF MRL_Offset(is_max, raw \div 256) THEN 255 ELSE 0
\* Mutant: the start needs its own flag to be set already.
MRL_FreqAcceptsFlagged(is_max, raw, v) ==
  IF is_max THEN v > 255 \/ raw \div 256 # 3 ELSE v <= 255 \/ raw \div 256 = 3
MRL_FreqAccepts(is_max, raw, v) ==
  IF is_max THEN v > 255 \/ raw \div 256 # 3 ELSE v <= 255 \/ raw \div 256 >= 2
MRL_Freq(is_max, raw, v) ==
  LET over  == v > 255
      ends  == IF is_max THEN over ELSE raw \div 256 >= 2
      start == IF is_max THEN raw \div 256 = 3 ELSE over
  IN  ((v - IF over THEN 255 ELSE 0) % 256)
        + 256 * ((IF ends THEN 2 ELSE 0) + (IF start THEN 1 ELSE 0))

\* Tens of MHz, less quarters of one when the extension is CVT; the text in
\* quarters.  raw: tens, quarters, extension.
MRL_Tens(raw) == raw % 256
MRL_Quarters(raw) == (raw \div 256) % 64
MRL_Ext(raw) == raw \div 16384
MRL_PixClkShown(raw) ==
  40 * MRL_Tens(raw) - IF MRL_Ext(raw) = 4 THEN MRL_Quarters(raw) ELSE 0
\* Mutant: a whole number of tens is rounded up as well.
MRL_MaxPixClkUp(raw, v) ==
  IF MRL_Ext(raw) # 4 THEN ((v \div 40) % 256) + 256 * (raw \div 256)
  ELSE ((v \div 40 + 1) % 256) + 256 * ((-v) % 40) + 65536
MRL_MaxPixClk(raw, v) ==
  LET up   == v \div 40 + 1
      less == 40 * up - v
      tens == IF MRL_Ext(raw) # 4 \/ less >= 40 THEN v \div 40 ELSE up
      frac == IF MRL_Ext(raw) # 4 THEN MRL_Quarters(raw) ELSE less % 40
  IN  (tens % 256) + 256 * frac + 16384 * MRL_Ext(raw)
\* The quarters alone (raw: quarters, tens): 40 of them are taken off the tens.
MRL_04_PixClk(raw, v) ==
  IF v >= 40 THEN (v - 40) + 64 * (raw \div 64 - 1) ELSE v + 64 * (raw \div 64)

\* A video code keeps the native bit where the new code can carry it.
SVD_VIC(raw, v) ==
  IF SVD_decode(raw).native = 1 /\ v \in 1..64 THEN v + 128 ELSE v
SVD_Native(raw, v) == SVD_decode(raw).vic + 128 * v

\* Text of a padded string: up to the first line feed or zero.
PadText(raw) ==
  LET ends == {i \in DOMAIN raw : raw[i] \in {0, 10}}
  IN  IF ends = {} THEN raw
      ELSE SubSeq(raw, 1, (CHOOSE i \in ends : \A j \in ends : i <= j) - 1)
PadStr(n, text) ==
  [i \in 1..n |-> IF i <= Len(text) THEN text[i]
                  ELSE IF i = Len(text) + 1 THEN 10 ELSE 32]
-----------------------------------------------------------------------------
(* OP_READ.                                                                *)
Shown(f, b) ==
  LET raw == Raw(f, b)
  IN  CASE f.conv = "plain"    -> (raw + f.plus) * f.times
        [] f.conv = "bytes"    -> raw
        [] f.conv = "padded"   -> PadText(raw)
        [] f.conv = "none"     -> 0
        [] f.conv = "week"     -> raw
        [] f.conv = "letters"  -> raw % 32768
        [] f.conv = "gamma"    -> raw + 100
        [] f.conv = "chroma"   -> Chromaticity(raw)
        [] f.conv = "coef"     -> Signed(raw, 16)
        [] f.conv = "signed"   -> Signed(raw, 8)
        [] f.conv = "minfreq"  -> MRL_FreqShown(FALSE, raw)
        [] f.conv = "maxfreq"  -> MRL_FreqShown(TRUE, raw)
        [] f.conv = "maxclock" -> MRL_PixClkShown(raw)
        [] f.conv = "quarters" -> raw % 64
        [] f.conv = "vic"      -> SVD_decode(raw).vic
        [] f.conv = "native"   -> SVD_decode(raw).native
        [] f.conv = "latency"  -> IF raw = 0 THEN 0 ELSE 2 * (raw - 1)
        [] f.conv = "delay"    -> 2 * (raw % 128)
        [] f.conv = "zeroed"   -> raw + f.plus
        [] f.conv = "kHz"      ->
             IF raw = 0 THEN 0 ELSE RoundEven(Mantissa(raw, 125) * 125, 2 ^ Scale(raw, 125))
        [] f.conv \in {"clock25", "clock125"} -> raw + 1

(* OP_WRSTR: is the text taken over what is stored now?                    *)
Accepts(f, b, v) ==
  LET raw == Raw(f, b)
  IN  CASE f.conv = "bytes"  -> Len(v) <= Len(f.where)
        [] f.conv = "padded" -> Len(v) <= Len(f.where)
        [] f.conv = "none"   -> FALSE
        [] OTHER ->
             /\ v \in f.lo..f.hi
             /\ f.conv = "week" => v \in 1..52 \cup {255}
             /\ f.conv = "minfreq" => MRL_FreqAccepts(FALSE, raw, v)
             /\ f.conv = "maxfreq" => MRL_FreqAccepts(TRUE, raw, v)
             /\ f.conv = "quarters" => (v >= 40 => raw \div 64 > 1)
             /\ f.conv = "vic" => v \notin 128..192
             /\ f.conv = "native" => (v = 1 => SVD_decode(raw).vic \in 1..64)

(* What an accepted text, or a choice from a list, leaves of the value.    *)
Stored(f, b, v) ==
  LET raw == Raw(f, b)
  IN  CASE f.conv = "plain"    -> v \div f.times - f.plus
        [] f.conv = "bytes"    -> [i \in DOMAIN raw |-> IF i <= Len(v) THEN v[i] ELSE raw[i]]
        [] f.conv = "padded"   -> PadStr(Len(f.where), v)
        [] f.conv = "gamma"    -> Gamma(v)
        [] f.conv = "chroma"   -> ChrXY_getWriteVal(v)
        [] f.conv = "coef"     -> DCM_coef16(v)
        [] f.conv = "minfreq"  -> MRL_Freq(FALSE, raw, v)
        [] f.conv = "maxfreq"  -> MRL_Freq(TRUE, raw, v)
        [] f.conv = "maxclock" -> MRL_MaxPixClk(raw, v)
        [] f.conv = "quarters" -> MRL_04_PixClk(raw, v)
        [] f.conv = "vic"      -> SVD_VIC(raw, v)
        [] f.conv = "native"   -> SVD_Native(raw, v)
        [] f.conv = "latency"  -> v \div 2 + 1
        [] f.conv = "delay"    -> (v \div 2) % 128
        [] f.conv = "zeroed"   -> 0
        [] f.conv = "kHz"      -> RoundSingle(v, 125)
        [] f.conv = "clock25"  -> RoundSingle(v, 25) - 1
        [] f.conv = "clock125" -> RoundSingle(v, 125) - 1
        [] OTHER               -> v

Write(f, b, v) == Put(f, b, Stored(f, b, v))
Gamma8(name, byte) == Field(name, "gamma", << <<byte, 0, 8>> >>, 100, 354)
-----------------------------------------------------------------------------
(* A group or sub-group of a block: what it is, where it is, its fields.   *)
Part(class, at, size, fields) ==
  [class |-> class, at |-> at, size |-> size,
   fields |-> [i \in DOMAIN fields |-> Moved(fields[i], at)]]

\* unknown_byte_fld: a byte nothing is known of, shown and not to be edited.
insert_unk_byte(from, n) == [i \in 1..n |-> RD(ByteVal("byte", from + i - 1))]
=============================================================================
