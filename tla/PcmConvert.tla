------------------------------ MODULE PcmConvert ------------------------------
(***************************************************************************)
(* The number conversions of foo_input_hybrid: scaling lossy samples to the*)
(* steps of the original ones (pcm_convert.cpp), and the conversions by    *)
(* tricks on the bits of floating-point numbers (typeconvert.h).  Each call*)
(* is a step that takes an argument and leaves its result.                 *)
(*                                                                         *)
(* A real number is an integer, in units of 2^-Grid.  A format with m bits *)
(* of mantissa holds those that m + 1 significant bits suffice for; float  *)
(* and double are FMant and DMant bits wide (23 and 52).  The widths are   *)
(* scaled down for TLC, the constants of the code go with them.            *)
(***************************************************************************)
EXTENDS Integers

CONSTANTS
  Grid,                 \* binary digits after the point, finer than any format needs
  FMant, FWord, FShift, \* float: bits of its mantissa, of int32_t (32), the shift 15
  DMant, DWord, DShift, \* double: likewise, of int64_t (64), 31
  Half,                 \* the split of an int64_t in convert_to_double (32)
  Byte,                 \* the width kept as unsigned bytes (8)
  Narrow,               \* the widths scaled in float (8 and 16)
  Wide                  \* the width scaled in double (24)

ASSUME PcmAssumption ==
  /\ {Grid, FMant, FWord, FShift, DMant, DWord, DShift, Half, Wide} \subseteq Nat \ {0}
  /\ Narrow \subseteq 2 .. FMant - 1 /\ Byte \in Narrow
  /\ Wide = FMant + 1 /\ Wide < FWord /\ FWord < DMant
  /\ FShift + 1 < FMant /\ FWord - 1 - FShift < FMant /\ FWord <= 2 * FMant
  /\ DShift + 1 < DMant /\ DWord - 1 - DShift < DMant /\ DWord <= DMant + Half
  /\ DMant + 1 < DWord
  /\ Half < DMant /\ Grid >= DMant

VARIABLES
  op,       \* the function called last
  arg,      \* its argument
  res       \* its result

vars == <<op, arg, res>>

\* The powers of two, and the largest one that the numbers below come to.
Pow2[n \in Nat] == IF n = 0 THEN 1 ELSE 2 * Pow2[n - 1]
Digits == Grid + 2 * DMant

One == Pow2[Grid]
Abs(v) == IF v < 0 THEN -v ELSE v

\* v rounded to a multiple of s, a tie to the even one.
Nearest(v, s) ==
  LET q == v \div s
      r == v % s
  IN  IF 2 * r > s \/ (2 * r = s /\ q % 2 = 1) THEN (q + 1) * s ELSE q * s

\* The exponent of v # 0, counted from the finest digit of the grid.
Exponent(v) == CHOOSE e \in 0 .. Digits : Pow2[e] <= Abs(v) /\ Abs(v) \div 2 < Pow2[e]

\* What the processor makes of a result: the nearest number of the format.
Fl(v, m) ==
  IF v = 0 \/ Exponent(v) <= m THEN v ELSE Nearest(v, Pow2[Exponent(v) - m])

Shifted(x, n) == IF n >= 0 THEN x * Pow2[n] ELSE x \div Pow2[-n]

(* A number of the format as an integer, by its bits: exponent and mantissa  *)
(* side by side.  The sign bit is kept apart.                                *)
Bits(v, m) ==
  IF v = 0 THEN 0 ELSE Exponent(v) * Pow2[m] + Shifted(Abs(v), m - Exponent(v))

FromBits(b, m) ==
  IF b < Pow2[m] THEN 0 ELSE Shifted(Pow2[m] + (b % Pow2[m]), (b \div Pow2[m]) - 1 - m)

\* The low w bits of an integer, as a signed one.
Signed(i, w) == LET r == i % Pow2[w] IN IF r < Pow2[w - 1] THEN r ELSE r - Pow2[w]

Clip(i, w) == IF i > Pow2[w - 1] - 1 THEN Pow2[w - 1] - 1
              ELSE IF i < -Pow2[w - 1] THEN -Pow2[w - 1] ELSE i
-----------------------------------------------------------------------------
(* pcmfloat_scale_to_int8, _int16 and _int24.                                *)

\* Mutant of Magic: a power of two; below it the steps are half as large.
Magic_Power(k, m) == Pow2[m - k + 1] * One

\* 98304.0f, 384.0f and 805306368.0: among numbers of this size the steps of the format
\* are those of width k.
Magic(k, m) == 3 * Pow2[m - k] * One

ScaleIn(v, k, m) == Fl(Fl(v + Magic(k, m), m) - Magic(k, m), m)

\* Mutant of Scale: the widest one in float too, with the constants 1.0f and -1.0f.
Scale_WideInFloat(v, k) ==
  IF k \in Narrow THEN ScaleIn(v, k, FMant)
  ELSE LET c == IF v < 0 THEN -One ELSE One IN Fl(Fl(v + c, FMant) - c, FMant)

Scale(v, k) ==
  IF k \in Narrow THEN ScaleIn(v, k, FMant) ELSE Fl(ScaleIn(v, k, DMant), FMant)

\* An integer sample as a number of the format: decoders, too, hand samples out like this.
AsFloat(i, k) == Fl((i * One) \div Pow2[k - 1], FMant)

\* ^ 0x80, as a byte: its top bit is the other one.
Flip(i) == (i + Pow2[Byte - 1]) % Pow2[Byte]

\* Mutant of FromInt: the byte is not taken for a signed one.
FromInt_Unsigned(b, k) == AsFloat(IF k = Byte THEN Flip(b) ELSE b, k)

\* convert_from_uint8, _int16, _int32.
FromInt(b, k) == AsFloat(IF k = Byte THEN Signed(Flip(b), Byte) ELSE b, k)
-----------------------------------------------------------------------------
(* convert_to_uint8, convert_to_int16 and convert_to_int32 with FROUND, the  *)
(* instruction cvtss2si: out of its range it returns the smallest integer.   *)
FRound(f) ==
  LET i == Nearest(f, One) \div One
  IN  IF i \in -Pow2[FWord - 1] .. Pow2[FWord - 1] - 1 THEN i ELSE -Pow2[FWord - 1]

Stored(i, k) == IF k = Byte THEN Flip(i) ELSE i

\* Mutant of ToInt: the sample is not clipped.
ToInt_Wraps(v, k) == Stored(Signed(FRound(Fl(v * Pow2[k - 1], FMant)), k), k)

ToInt(v, k) == Stored(Clip(FRound(Fl(v * Pow2[k - 1], FMant)), k), k)
-----------------------------------------------------------------------------
(* typeconvert.h, for either format: m bits of mantissa, words of w bits.    *)

Mid(m) == 3 * Pow2[m - 1] * One
Top(m) == Pow2[m] * One

\* convert_to_int23, convert_to_int52: adding 1.5 * 2^m leaves the integer in the bits.
ByMid(v, m) == Bits(Fl(v + Mid(m), m), m) - Bits(Mid(m), m)

\* convert_to_int24, convert_to_int53.
ByTop(v, m) ==
  IF v < 0 THEN -(Bits(Fl(v - Top(m), m), m) % Pow2[m]) ELSE Bits(Fl(v + Top(m), m), m) % Pow2[m]

\* convert_to_int32(double): the low word of the bits.
LowWord(v) == Signed(Bits(Fl(v + Mid(DMant), DMant), DMant), FWord)

\* convert23_to_float, convert52_to_double.
OfMid(i, m) == Fl(FromBits(i + Bits(Mid(m), m), m) - Mid(m), m)

\* convert24_to_float, convert53_to_double: 0xCB000000 is 0x4B000000 and the sign.
OfTop(i, m) ==
  IF i < 0 THEN Fl(Top(m) - FromBits(Bits(Top(m), m) - i, m), m)
           ELSE Fl(FromBits(Bits(Top(m), m) + i, m) - Top(m), m)

\* Mutant of Split: the lower half is cut off, not rounded.
Split_Truncates(v, m, s) ==
  LET a == FromBits(Bits(v, m) - s * Pow2[m], m)
      i == a \div One
  IN  i * Pow2[s] + ((a - i * One) * Pow2[s]) \div One

(* The large numbers of convert_to_int32(float) and convert_to_int64: v is   *)
(* divided by 2^s in its exponent, the integer part is taken as in ByTop, and*)
(* the rest, added to 1.5 * 2^(m - s), leaves its s digits in the low bits.  *)
Split(v, m, s) ==
  LET a == FromBits(Bits(v, m) - s * Pow2[m], m)
      i == Bits(Fl(a + Top(m), m), m) % Pow2[m]
      b == Fl(Fl(a - OfMid(i, m), m) + 3 * Pow2[m - s - 1] * One, m)
  IN  i * Pow2[s] + Signed(Bits(b, m), s + 1)

ToWord(v, m, s, w) ==
  IF v >= Pow2[w - 1] * One THEN Pow2[w - 1] - 1
  ELSE IF v < -(Pow2[w - 1] * One) THEN -Pow2[w - 1]
  ELSE LET i == IF Abs(v) > Top(m) - One THEN Split(Abs(v), m, s) ELSE ByTop(Abs(v), m)
       IN  Signed(IF v < 0 THEN -i ELSE i, w)

\* The lower part of a word; an int64_t takes convert52_to_double for it.
LowPart(n, m) == IF m = DMant THEN OfMid(n, m) ELSE OfTop(n, m)

\* Mutant of OfWord: numbers of m + 1 bits, which the format holds, are not split.
OfWord_Late(i, m, l) ==
  LET n == Abs(i)
      a == IF n <= Pow2[m + 1] - 1 THEN OfTop(n, m)
           ELSE Fl(LowPart(n % Pow2[l], m) + (n \div Pow2[l]) * Pow2[l] * One, m)
  IN  IF i < 0 THEN -a ELSE a

(* convert_to_float(int32_t), convert_to_double(int64_t): a large number is  *)
(* split at l bits; the upper part goes into the bits of 2^(m + l).          *)
OfWord(i, m, l) ==
  LET n == Abs(i)
      a == IF n <= Pow2[m] - 1 THEN OfTop(n, m)
           ELSE LET c == Pow2[l] * Top(m)
                    u == Fl(FromBits(Bits(c, m) + n \div Pow2[l], m) - c, m)
                IN  Fl(LowPart(n % Pow2[l], m) + u, m)
  IN  IF i < 0 THEN -a ELSE a

\* convert_to_float(int64_t): by way of convert_to_double.
OfLong(i) == Fl(OfWord(i, DMant, Half), FMant)
-----------------------------------------------------------------------------
(* The arguments: numbers of a format up to b, samples of width k, words.    *)
Numbers(m, b) ==
  LET positive == {FromBits(x, m) : x \in 0 .. Bits(b * One, m)}
  IN  positive \cup {-v : v \in positive}

Samples(k) == -Pow2[k - 1] .. Pow2[k - 1] - 1
Words(k)   == IF k = Byte THEN 0 .. Pow2[k] - 1 ELSE Samples(k)
Widths     == Narrow \cup {Wide}

Init == op = "none" /\ arg = <<0>> /\ res = 0

Called(o, a, r) == op' = o /\ arg' = a /\ res' = r

\* Lossy samples may overshoot full scale.
CallScale ==
  \E k \in Widths : \E v \in Numbers(FMant, 2) : Called("scale", <<v, k>>, Scale(v, k))

\* The remainder of original sample i, in the .tak file: made by a tool of its own, it is
\* i less the lossy sample v at the nearest step of i's width.
Remainder(i, v, k) == i - Nearest(v * Pow2[k - 1], One) \div One

(* Where the wrapper uses it: the remainder, if it fits the width, is added  *)
(* to the scaled sample (input_hybrid.cpp:155, 171).                         *)
CallRestore ==
  \E k \in Widths : \E v \in Numbers(FMant, 2), i \in Samples(k) :
    /\ Remainder(i, v, k) \in Samples(k)
    /\ Called("restore", <<i, k>>, Fl(Scale(v, k) + AsFloat(Remainder(i, v, k), k), FMant))

CallToInt ==
  \E k \in Widths : \E v \in Numbers(FMant, 2) : Called("toInt", <<v, k>>, ToInt(v, k))

CallFromInt ==
  \E k \in Widths : \E b \in Words(k) : Called("fromInt", <<b, k>>, FromInt(b, k))

\* The ranges are those that the comments in typeconvert.h give.
Formats == {<<FMant, FShift, FWord, FMant>>, <<DMant, DShift, DWord, Half>>}

CallByMid ==
  \E f \in Formats : \E v \in Numbers(f[1], Pow2[f[1] - 1] + 1) :
    /\ v >= -(Pow2[f[1] - 1] * One) /\ 2 * v <= (Pow2[f[1]] + 1) * One
    /\ Called("toInteger", <<v, 0>>, ByMid(v, f[1]))

CallByTop ==
  \E f \in Formats : \E v \in Numbers(f[1], Pow2[f[1]] - 1) :
    Called("toInteger", <<v, 0>>, ByTop(v, f[1]))

CallLowWord ==
  \E v \in Numbers(DMant, Pow2[DMant - 1]) :
    Called("toInteger", <<v, FWord>>, LowWord(v))

\* A float passed to convert_to_int64 becomes a double, of which these are some.
CallToWord ==
  \E f \in Formats : \E v \in Numbers(f[1], Pow2[f[3]]) :
    Called("toWord", <<v, f[3]>>, ToWord(v, f[1], f[2], f[3]))

\* convert_to_double(int32_t) is the one of these for doubles.
CallOfMid ==
  \E f \in Formats : \E i \in -Pow2[f[1] - 1] .. Pow2[f[1] - 1] :
    Called("ofInteger", <<i, f[1]>>, OfMid(i, f[1]))

CallOfTop ==
  \E f \in Formats : \E i \in -(Pow2[f[1]] - 1) .. Pow2[f[1]] - 1 :
    Called("ofInteger", <<i, f[1]>>, OfTop(i, f[1]))

CallOfWord ==
  \E f \in Formats : \E i \in Samples(f[3]) :
    Called("ofInteger", <<i, f[1]>>, OfWord(i, f[1], f[4]))

CallOfLong ==
  \E i \in Samples(DWord) : Called("ofLong", <<i, FMant>>, OfLong(i))

\* The functions keep no state: one call makes a behaviour.
Next ==
  /\ op = "none"
  /\ \/ CallScale \/ CallRestore \/ CallToInt \/ CallFromInt
     \/ CallByMid \/ CallByTop \/ CallLowWord \/ CallToWord
     \/ CallOfMid \/ CallOfTop \/ CallOfWord \/ CallOfLong

Spec == Init /\ [][Next]_vars
-----------------------------------------------------------------------------
(* Adding the constant and taking it off again rounds a sample to the nearest*)
(* step of the width asked for (pcm_convert.h:39-52), ties to even, also     *)
(* beyond full scale and on both sides of zero, although two results are     *)
(* rounded on the way.                                                       *)
ScalesToStep ==
  op = "scale" => res = Nearest(arg[1], One \div Pow2[arg[2] - 1])

(* "this component is to restore the original audio" (input_hybrid.cpp:263): *)
(* whatever the lossy sample is, adding the remainder to it gives the        *)
(* original sample to the last bit, in single precision, for each width.     *)
RestoresExactly ==
  op = "restore" => res * Pow2[arg[2] - 1] = arg[1] * One

\* The sample that a word stands for: bytes count from the most negative one.
Meant(b, k) == IF k = Byte THEN b - Pow2[k - 1] ELSE b

(* A sample is rounded and clipped to its width, not wrapped, as long as it  *)
(* is in the range of the instruction; bytes are unsigned (pcm_convert.cpp:  *)
(* 103-120), the flipped bit never leaves them.                              *)
ClipsToWidth ==
  op = "toInt" =>
    /\ res \in Words(arg[2])
    /\ Abs(arg[1]) * Pow2[arg[2] - 1] < Pow2[FWord - 1] * One =>
         Meant(res, arg[2]) = Clip(Nearest(arg[1] * Pow2[arg[2] - 1], One) \div One, arg[2])

(* The number of the format is that of the sample the word stands for, by a  *)
(* different way than the code takes for bytes (pcm_convert.cpp:81), and it  *)
(* makes the word it came from again.                                        *)
RoundTrip ==
  op = "fromInt" =>
    /\ res * Pow2[arg[2] - 1] = Meant(arg[1], arg[2]) * One
    /\ ToInt(res, arg[2]) = arg[1]

(* "all implementations below are strictly tested and guaranteed correct"    *)
(* (typeconvert.h:5): within the ranges their comments give, the conversions *)
(* to integers round to nearest, ties to even; those of a whole word clip.   *)
RoundsToInteger ==
  LET n == Nearest(arg[1], One) \div One
  IN  /\ op = "toInteger" => res = IF arg[2] = 0 THEN n ELSE Signed(n, arg[2])
      /\ op = "toWord" => res = Clip(n, arg[2])

\* v is half way between two numbers of m + 1 significant bits.
Midway(v, m) ==
  v # 0 /\ Exponent(v) > m /\ 2 * (v % Pow2[Exponent(v) - m]) = Pow2[Exponent(v) - m]

(* The conversions from integers give the nearest number of the format,      *)
(* rounded once, for every word including the smallest.  The exception is    *)
(* convert_to_float(int64_t) (typeconvert.h:187-191), which rounds twice: it *)
(* gives the float nearest to the nearest double, and this is another one    *)
(* than the nearest to the integer only if the double was rounded to a       *)
(* number half way between two floats.                                       *)
NearestOfInteger ==
  /\ op = "ofInteger" => res = Fl(arg[1] * One, arg[2])
  /\ op = "ofLong" =>
       LET v == arg[1] * One
           d == Fl(v, DMant)
       IN  /\ res = Fl(d, FMant)
           /\ res = Fl(v, FMant) \/ (d # v /\ Midway(d, FMant))

(* Violated: "all implementations below are strictly tested and guaranteed   *)
(* correct" (typeconvert.h:5).  2^54 + 2^30 + 1 becomes 2^54, although       *)
(* 2^54 + 2^31 is nearer: the 1 is lost in the double, and then the tie goes *)
(* to the even float.                                                        *)
LongToFloatNearest == op = "ofLong" => res = Fl(arg[1] * One, FMant)
=============================================================================
