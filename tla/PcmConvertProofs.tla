-------------------------- MODULE PcmConvertProofs --------------------------
(***************************************************************************)
(* Proofs about the number conversions, for formats and words of every     *)
(* width that PcmAssumption allows: the six properties of PcmConvert.      *)
(*                                                                         *)
(* First the powers of two and the laws of products; then Rounds, nearest  *)
(* without a division, and what the processor's rounding Fl makes of       *)
(* numbers between two powers; then the bits; then the functions, each     *)
(* with a lemma that says what it returns; last, per property, the calls.  *)
(*                                                                         *)
(* Sums and products are abbreviated by DEFINE and hidden where the        *)
(* arithmetic of a step does not look into them.                           *)
(***************************************************************************)
EXTENDS PcmConvert, NatLemmas, TLAPS

(* The powers of two. *)

Doubling(n) == [p \in (1 .. n) \X Nat |-> 2 * p[2]]
Powers(f)   == f \in [Nat -> Nat] /\ f[0] = 1 /\ \A n \in Nat : f[n + 1] = 2 * f[n]

\* Powers up to n and up to n + 1 agree.
LEMMA PowersAgree ==
  ASSUME NEW n \in Nat, NEW f, NEW g,
         Recurs(f, n, 1, Doubling(n)), Recurs(g, n + 1, 1, Doubling(n + 1))
  PROVE  g[n + 1] = 2 * f[n] /\ f[n] \in Nat
<1> DEFINE S == {i \in 0 .. n : f[i] = g[i]}
<1>1. 0 \in S
  BY DEF Recurs
<1>2. ASSUME NEW i \in 1 .. n, i - 1 \in S PROVE i \in S
  <2>1. f[i] = Doubling(n)[<<i, f[i - 1]>>] /\ f[i - 1] \in Nat
    BY DEF Recurs
  <2>2. g[i] = Doubling(n + 1)[<<i, g[i - 1]>>] /\ i \in 1 .. n + 1
    BY DEF Recurs
  <2>3. f[i - 1] = g[i - 1]
    BY <1>2
  <2> QED BY <2>1, <2>2, <2>3 DEF Doubling
<1>3. 0 .. n \subseteq S
  <2> HIDE DEF S
  <2> QED BY <1>1, <1>2, InductUpTo
<1>4. f[n] = g[n] /\ f[n] \in Nat
  BY <1>3 DEF Recurs
<1>5. g[n + 1] = Doubling(n + 1)[<<n + 1, g[n]>>] /\ n + 1 \in 1 .. n + 1
  BY DEF Recurs
<1> QED BY <1>4, <1>5 DEF Doubling

LEMMA PowersExist == \E f : Powers(f)
<1> DEFINE g(n) == CHOOSE f : Recurs(f, n, 1, Doubling(n))
           h == [n \in Nat |-> g(n)[n]]
<1>1. ASSUME NEW n \in Nat PROVE Recurs(g(n), n, 1, Doubling(n))
  <2>1. Doubling(n) \in [(1 .. n) \X Nat -> Nat]
    BY DEF Doubling
  <2>2. \E f : Recurs(f, n, 1, Doubling(n))
    BY <2>1, Defined
  <2> QED BY <2>2
<1> HIDE DEF g
<1>2. ASSUME NEW n \in Nat PROVE g(n + 1)[n + 1] = 2 * g(n)[n] /\ g(n)[n] \in Nat
  BY <1>1, PowersAgree
<1>3. g(0)[0] = 1
  BY <1>1 DEF Recurs
<1>4. Powers(h)
  BY <1>2, <1>3 DEF Powers
<1> HIDE DEF h
<1> QED BY <1>4

LEMMA PowerStep ==
  /\ Pow2[0] = 1
  /\ \A n \in Nat : Pow2[n] \in Nat /\ Pow2[n + 1] = 2 * Pow2[n]
<1>1. PICK f : Powers(f)
  BY PowersExist
<1>2. f = [n \in Nat |-> IF n = 0 THEN 1 ELSE 2 * f[n - 1]]
  <2>1. ASSUME NEW n \in Nat PROVE f[n] = IF n = 0 THEN 1 ELSE 2 * f[n - 1]
    <3>1. CASE n = 0  BY <1>1, <3>1 DEF Powers
    <3>2. CASE n # 0
      <4>1. n - 1 \in Nat /\ (n - 1) + 1 = n
        BY <3>2
      <4>2. f[(n - 1) + 1] = 2 * f[n - 1]
        BY <1>1, <4>1 DEF Powers
      <4> QED BY <3>2, <4>1, <4>2
    <3> QED BY <3>1, <3>2
  <2> QED BY <1>1, <2>1 DEF Powers
<1>3. Pow2 = [n \in Nat |-> IF n = 0 THEN 1 ELSE 2 * Pow2[n - 1]]
  BY <1>2 DEF Pow2
<1>4. Pow2[0] = 1
  BY <1>3
<1>5. \A n \in Nat : Pow2[n + 1] = 2 * Pow2[n]
  BY <1>3
<1> DEFINE S == {n \in Nat : Pow2[n] \in Nat}
<1>6. \A n \in Nat : n \in S => n + 1 \in S
  BY <1>5
<1>7. Nat \subseteq S
  <2>1. 0 \in S  BY <1>4
  <2> HIDE DEF S
  <2> QED BY <1>6, <2>1, Induct
<1> QED BY <1>4, <1>5, <1>7

LEMMA PowerOf ==
  /\ Pow2[0] = 1 /\ Pow2[1] = 2
  /\ \A n \in Nat : Pow2[n] \in Nat \ {0} /\ Pow2[n + 1] = 2 * Pow2[n]
<1> DEFINE S == {n \in Nat : Pow2[n] # 0}
<1>1. \A n \in Nat : n \in S => n + 1 \in S
  BY PowerStep
<1>2. Nat \subseteq S
  <2>1. 0 \in S  BY PowerStep
  <2> HIDE DEF S
  <2> QED BY <1>1, <2>1, Induct
<1>3. Pow2[0 + 1] = 2 * Pow2[0]
  BY PowerStep
<1> QED BY <1>2, <1>3, PowerStep

LEMMA TwiceTimes ==
  ASSUME NEW a \in Int, NEW b \in Int
  PROVE  2 * (a * b) = a * (2 * b) /\ a * b \in Int /\ a * b = b * a
  BY SMTT(30)

\* The product of two powers.
LEMMA PowerSum ==
  ASSUME NEW a \in Nat, NEW b \in Nat
  PROVE  Pow2[a + b] = Pow2[a] * Pow2[b]
<1> DEFINE S == {n \in Nat : Pow2[a + n] = Pow2[a] * Pow2[n]}
<1>1. 0 \in S
  <2>1. Pow2[a] * 1 = Pow2[a] /\ a + 0 = a
    BY PowerOf
  <2> QED BY <2>1, PowerOf
<1>2. \A n \in Nat : n \in S => n + 1 \in S
  <2>1. SUFFICES ASSUME NEW n \in Nat, n \in S PROVE Pow2[a + (n + 1)] = Pow2[a] * Pow2[n + 1]
    OBVIOUS
  <2>2. Pow2[a + (n + 1)] = 2 * Pow2[a + n] /\ Pow2[n + 1] = 2 * Pow2[n]
    <3>1. a + (n + 1) = (a + n) + 1 /\ a + n \in Nat
      OBVIOUS
    <3> QED BY <3>1, PowerOf
  <2>3. Pow2[a] \in Int /\ Pow2[n] \in Int
    BY PowerOf
  <2> QED BY <2>1, <2>2, <2>3, TwiceTimes
<1>3. Nat \subseteq S
  <2> HIDE DEF S
  <2> QED BY <1>1, <1>2, Induct
<1> QED BY <1>3

\* p * q is at least p, when q is positive.
LEMMA TimesGrows ==
  ASSUME NEW p \in Nat, NEW q \in Nat \ {0}
  PROVE  p * q \in Nat /\ p <= p * q /\ (p > 0 => q <= p * q)
  BY SMTT(30)

\* Powers keep the order of their exponents.
LEMMA PowerMono ==
  ASSUME NEW a \in Nat, NEW b \in Nat, a <= b
  PROVE  Pow2[a] <= Pow2[b]
<1>1. b - a \in Nat /\ b = a + (b - a)
  OBVIOUS
<1>2. Pow2[b] = Pow2[a] * Pow2[b - a]
  BY <1>1, PowerSum
<1> QED BY <1>1, <1>2, PowerOf, TimesGrows

LEMMA PowerLess ==
  ASSUME NEW a \in Nat, NEW b \in Nat, a < b
  PROVE  2 * Pow2[a] <= Pow2[b]
<1>1. Pow2[a + 1] = 2 * Pow2[a] /\ a + 1 <= b
  BY PowerOf
<1> QED BY <1>1, PowerMono

LEMMA PowerOrder ==
  ASSUME NEW a \in Nat, NEW b \in Nat, Pow2[a] < Pow2[b]
  PROVE  a < b
  BY PowerMono, PowerOf

(* Integer division, and rounding to a multiple. *)

LEMMA DivMod ==
  ASSUME NEW v \in Int, NEW s \in Nat \ {0}
  PROVE  /\ v \div s \in Int /\ v % s \in 0 .. s - 1
         /\ v = s * (v \div s) + (v % s)
  BY SMTT(30)

\* A multiple of s above another is above it by s at least.
LEMMA Apart ==
  ASSUME NEW a \in Int, NEW b \in Int, NEW s \in Nat \ {0}
  PROVE  /\ a * s \in Int
         /\ a < b => a * s + s <= b * s
         /\ a <= b <=> a * s <= b * s
         /\ a * s + b * s = (a + b) * s /\ a * s - b * s = (a - b) * s
         /\ a * s + s = (a + 1) * s /\ -(a * s) = (-a) * s
  BY SMTT(30)

LEMMA DivIs ==
  ASSUME NEW q \in Int, NEW r \in Int, NEW s \in Nat \ {0}, 0 <= r, r < s
  PROVE  (q * s + r) \div s = q /\ (q * s + r) % s = r
<1> DEFINE v == q * s + r
           d == v \div s
           e == v % s
<1>1. v \in Int
  BY Apart
<1>2. d \in Int /\ e \in 0 .. s - 1 /\ v = s * d + e
  <2> HIDE DEF v
  <2> QED BY <1>1, DivMod
<1> HIDE DEF d, e
<1>3. s * d = d * s
  BY <1>2, TwiceTimes
<1>4. q * s + r = d * s + e /\ q * s \in Int /\ d * s \in Int
  BY <1>2, <1>3, Apart
<1>5. ~ (q < d) /\ ~ (d < q)
  BY <1>2, <1>4, Apart
<1>6. d = q /\ e = r
  BY <1>2, <1>4, <1>5
<1> QED BY <1>6 DEF d, e

\* j is v / s, rounded to nearest, a tie to even.
Rounds(v, s, j) ==
  /\ j \in Int /\ 2 * (v - j * s) <= s /\ 2 * (j * s - v) <= s
  /\ 2 * (v - j * s) = s \/ 2 * (j * s - v) = s => j % 2 = 0

\* Nearest does that.
LEMMA NearestRounds ==
  ASSUME NEW v \in Int, NEW s \in Nat \ {0}
  PROVE  \E j \in Int : Rounds(v, s, j) /\ Nearest(v, s) = j * s
<1> DEFINE q == v \div s
           r == v % s
<1>1. q \in Int /\ r \in 0 .. s - 1 /\ v = s * q + r
  BY DivMod
<1>2. Nearest(v, s) = IF 2 * r > s \/ (2 * r = s /\ q % 2 = 1) THEN (q + 1) * s ELSE q * s
  BY DEF Nearest
<1> HIDE DEF q, r
<1>3. s * q = q * s /\ q * s \in Int /\ (q + 1) * s = q * s + s
  BY <1>1, TwiceTimes, Apart
<1>4. CASE 2 * r > s \/ (2 * r = s /\ q % 2 = 1)
  <2>1. Nearest(v, s) = (q + 1) * s /\ q + 1 \in Int
    BY <1>1, <1>2, <1>4
  <2>2. v - (q + 1) * s = r - s /\ (q + 1) * s - v = s - r
    BY <1>1, <1>3
  <2>3. 2 * r = s => (q + 1) % 2 = 0
    BY <1>1, <1>4
  <2>4. Rounds(v, s, q + 1)
    BY <1>1, <1>4, <2>2, <2>3 DEF Rounds
  <2> QED BY <2>1, <2>4
<1>5. CASE ~ (2 * r > s \/ (2 * r = s /\ q % 2 = 1))
  <2>1. Nearest(v, s) = q * s
    BY <1>2, <1>5
  <2>2. v - q * s = r /\ q * s - v = -r
    BY <1>1, <1>3
  <2>3. 2 * r = s => q % 2 = 0
    BY <1>1, <1>5
  <2>4. Rounds(v, s, q)
    BY <1>1, <1>5, <2>2, <2>3 DEF Rounds
  <2> QED BY <1>1, <2>1, <2>4
<1> QED BY <1>4, <1>5

\* There is but one such number.
LEMMA RoundsOnce ==
  ASSUME NEW v \in Int, NEW s \in Nat \ {0}, NEW i \in Int, NEW j \in Int,
         Rounds(v, s, i), Rounds(v, s, j)
  PROVE  i = j
<1>1. ASSUME NEW a \in Int, NEW b \in Int, Rounds(v, s, a), Rounds(v, s, b), a < b
      PROVE  FALSE
  <2>1. a * s \in Int /\ b * s \in Int /\ a * s + s <= b * s
    BY <1>1, Apart
  <2>2. 2 * (v - a * s) <= s /\ 2 * (b * s - v) <= s
    BY <1>1 DEF Rounds
  <2>3. b * s = a * s + s /\ 2 * (v - a * s) = s /\ 2 * (b * s - v) = s
    BY <2>1, <2>2
  <2>4. a % 2 = 0 /\ b % 2 = 0
    BY <1>1, <2>3 DEF Rounds
  <2>5. a + 1 < b
    BY <1>1, <2>4
  <2>6. (a + 1) * s = a * s + s /\ (a + 1) * s + s <= b * s
    BY <1>1, <2>5, Apart
  <2> QED BY <2>1, <2>3, <2>6
<1> QED BY <1>1

LEMMA NearestIs ==
  ASSUME NEW v \in Int, NEW s \in Nat \ {0}, NEW j \in Int, Rounds(v, s, j)
  PROVE  Nearest(v, s) = j * s
  BY NearestRounds, RoundsOnce

\* A multiple is its own nearest one.
LEMMA NearestExact ==
  ASSUME NEW j \in Int, NEW s \in Nat \ {0}
  PROVE  Rounds(j * s, s, j) /\ Nearest(j * s, s) = j * s
<1>1. j * s \in Int
  BY Apart
<1>2. Rounds(j * s, s, j)
  BY <1>1 DEF Rounds
<1> QED BY <1>1, <1>2, NearestIs

\* Rounding passes no multiple.
LEMMA RoundsWithin ==
  ASSUME NEW v \in Int, NEW s \in Nat \ {0}, NEW j \in Int, Rounds(v, s, j), NEW b \in Int
  PROVE  /\ v <= b * s => j <= b
         /\ v >= b * s => j >= b
<1>1. j * s \in Int /\ b * s \in Int /\ (j < b => j * s + s <= b * s) /\ (b < j => b * s + s <= j * s)
  BY Apart
<1> QED BY <1>1 DEF Rounds

\* Rounding commutes with adding an even multiple, with the sign and with a change of unit.
LEMMA RoundsShift ==
  ASSUME NEW v \in Int, NEW s \in Nat \ {0}, NEW j \in Int, Rounds(v, s, j),
         NEW q \in Int, q % 2 = 0
  PROVE  Rounds(v + q * s, s, j + q)
<1>1. (j + q) * s = j * s + q * s /\ j * s \in Int /\ q * s \in Int
  BY Apart
<1>2. j % 2 = 0 => (j + q) % 2 = 0
  OBVIOUS
<1> QED BY <1>1, <1>2 DEF Rounds

LEMMA RoundsNegative ==
  ASSUME NEW v \in Int, NEW s \in Nat \ {0}, NEW j \in Int, Rounds(v, s, j)
  PROVE  Rounds(-v, s, -j)
<1>1. (-j) * s = -(j * s) /\ j * s \in Int
  BY Apart
<1>2. j % 2 = 0 => (-j) % 2 = 0
  OBVIOUS
<1> QED BY <1>1, <1>2 DEF Rounds

LEMMA Distributes ==
  ASSUME NEW a \in Int, NEW b \in Int, NEW s \in Int
  PROVE  /\ (a * b) * s = a * (b * s) /\ (a * b) * s = (a * s) * b
         /\ (a - b) * s = a * s - b * s /\ (a + b) * s = a * s + b * s
         /\ a * b \in Int /\ a * s \in Int /\ b * s \in Int
  BY SMTT(30)

LEMMA RoundsScaled ==
  ASSUME NEW v \in Int, NEW s \in Nat \ {0}, NEW j \in Int, NEW c \in Nat \ {0}
  PROVE  Rounds(v * c, s * c, j) <=> Rounds(v, s, j)
<1> DEFINE d == v - j * s
           x == 2 * d
           y == 2 * (-d)
<1>1. j * s \in Int /\ d \in Int /\ s * c \in Nat \ {0}
  BY Apart, TimesGrows
<1>2. j * (s * c) = (j * s) * c
  BY Distributes
<1>3. v * c - j * (s * c) = d * c /\ j * (s * c) - v * c = (-d) * c
  BY <1>1, <1>2, Distributes
<1>4. 2 * (d * c) = x * c /\ 2 * ((-d) * c) = y * c
  BY <1>1, Distributes
<1>5. v - j * s = d /\ j * s - v = -d /\ x \in Int /\ y \in Int
  BY <1>1
<1> HIDE DEF d, x, y
<1>6. (x * c <= s * c <=> x <= s) /\ (s * c <= x * c <=> s <= x)
  BY <1>5, Apart
<1>7. (y * c <= s * c <=> y <= s) /\ (s * c <= y * c <=> s <= y)
  BY <1>5, Apart
<1>8. (x * c = s * c <=> x = s) /\ (y * c = s * c <=> y = s) /\ x * c \in Int /\ y * c \in Int
  BY <1>1, <1>5, <1>6, <1>7, Apart
<1>9. 2 * d = x /\ 2 * (-d) = y
  BY DEF x, y
<1>10. Rounds(v, s, j) <=> x <= s /\ y <= s /\ (x = s \/ y = s => j % 2 = 0)
  BY <1>5, <1>9 DEF Rounds
<1>11. Rounds(v * c, s * c, j) <=>
         x * c <= s * c /\ y * c <= s * c /\ (x * c = s * c \/ y * c = s * c => j % 2 = 0)
  BY <1>3, <1>4, <1>9 DEF Rounds
<1> QED BY <1>6, <1>7, <1>8, <1>10, <1>11

(* Numbers of a format. *)

LEMMA Constants ==
  /\ Grid \in Nat /\ FMant \in Nat /\ FWord \in Nat /\ FShift \in Nat
  /\ DMant \in Nat /\ DWord \in Nat /\ DShift \in Nat /\ Half \in Nat /\ Wide \in Nat
  /\ Grid > 0 /\ FMant > 1 /\ DMant > 1 /\ FShift > 0 /\ DShift > 0 /\ Half > 0
  /\ Digits \in Nat /\ Digits = Grid + 2 * DMant
  BY PcmAssumption DEF Digits

LEMMA AbsSays ==
  ASSUME NEW v \in Int
  PROVE  /\ Abs(v) \in Nat /\ (Abs(v) = v \/ Abs(v) = -v) /\ (Abs(v) = 0 <=> v = 0)
         /\ Abs(-v) = Abs(v) /\ (v >= 0 => Abs(v) = v) /\ (v <= 0 => Abs(v) = -v)
         /\ v <= Abs(v) /\ -v <= Abs(v)
  BY DEF Abs

LEMMA ExponentIs ==
  ASSUME NEW v \in Int, NEW e \in 0 .. Digits, Pow2[e] <= Abs(v), Abs(v) < 2 * Pow2[e]
  PROVE  Exponent(v) = e
<1>0. e \in Nat /\ Pow2[e] \in Nat \ {0} /\ Abs(v) \in Nat /\ Digits \in Nat
  BY PowerOf, AbsSays, Constants
<1>1. Abs(v) \div 2 < Pow2[e]
  BY <1>0
<1>2. ASSUME NEW f \in 0 .. Digits, Pow2[f] <= Abs(v), Abs(v) \div 2 < Pow2[f] PROVE f = e
  <2>1. f \in Nat /\ Pow2[f] \in Nat \ {0}
    BY <1>0, PowerOf
  <2>2. Abs(v) < 2 * Pow2[f]
    BY <1>0, <1>2, <2>1
  <2>3. ~ (f < e)
    BY <1>0, <2>1, <2>2, PowerLess
  <2>4. ~ (e < f)
    BY <1>0, <1>2, <2>1, PowerLess
  <2> QED BY <1>0, <2>1, <2>3, <2>4
<1> QED BY <1>1, <1>2 DEF Exponent

\* Every number but 0 has an exponent.
LEMMA ExponentSays ==
  ASSUME NEW v \in Int, v # 0, Abs(v) <= Pow2[Digits]
  PROVE  /\ Exponent(v) \in 0 .. Digits
         /\ Pow2[Exponent(v)] <= Abs(v) /\ Abs(v) < 2 * Pow2[Exponent(v)]
<1> DEFINE T == {e \in Nat : Abs(v) < Pow2[e + 1]}
<1>0. Abs(v) \in Nat \ {0} /\ Digits \in Nat
  BY AbsSays, Constants
<1>1. Digits \in T
  BY <1>0, PowerOf
<1>2. PICK e \in T : \A f \in T : e <= f
  <2>1. T # {} /\ T \subseteq Nat
    BY <1>1
  <2> HIDE DEF T
  <2> QED BY <2>1, Least
<1>3. e \in 0 .. Digits /\ Abs(v) < 2 * Pow2[e]
  BY <1>0, <1>1, <1>2, PowerOf
<1>4. Pow2[e] <= Abs(v)
  <2>1. CASE e = 0
    BY <1>0, <2>1, PowerOf
  <2>2. CASE e # 0
    <3>1. e - 1 \in Nat /\ e - 1 \notin T /\ (e - 1) + 1 = e
      BY <1>2, <1>3, <2>2
    <3>2. ~ (Abs(v) < Pow2[(e - 1) + 1])
      BY <3>1
    <3>3. Pow2[e] \in Nat
      BY <1>3, PowerOf
    <3> QED BY <1>0, <3>1, <3>2, <3>3
  <2> QED BY <2>1, <2>2
<1>5. Exponent(v) = e
  BY <1>3, <1>4, ExponentIs
<1> QED BY <1>3, <1>4, <1>5

\* A power is a multiple of the smaller ones.
LEMMA PowerMultiple ==
  ASSUME NEW a \in Nat, NEW b \in Nat, a <= b
  PROVE  /\ b - a \in Nat /\ Pow2[b - a] \in Nat \ {0}
         /\ Pow2[b] = Pow2[b - a] * Pow2[a] /\ Pow2[b] = Pow2[a] * Pow2[b - a]
<1>1. b - a \in Nat /\ a + (b - a) = b /\ (b - a) + a = b
  OBVIOUS
<1>2. Pow2[a + (b - a)] = Pow2[a] * Pow2[b - a]
  BY <1>1, PowerSum
<1>3. Pow2[(b - a) + a] = Pow2[b - a] * Pow2[a]
  BY <1>1, PowerSum
<1> QED BY <1>1, <1>2, <1>3, PowerOf

\* Within one exponent, and at its upper end, a result is rounded to the same step.
LEMMA FlNear ==
  ASSUME NEW m \in Nat, NEW e \in Nat, m <= e, e < Digits,
         NEW v \in Int, Pow2[e] <= Abs(v), Abs(v) <= 2 * Pow2[e]
  PROVE  Fl(v, m) = Nearest(v, Pow2[e - m])
<1>0. /\ e - m \in Nat /\ Pow2[e - m] \in Nat \ {0} /\ Pow2[e] \in Nat \ {0}
      /\ e \in 0 .. Digits /\ e + 1 \in 0 .. Digits /\ Digits \in Nat
  BY PowerOf, Constants
<1>1. v # 0 /\ Abs(v) \in Nat
  BY <1>0, AbsSays
<1>2. CASE Abs(v) < 2 * Pow2[e]
  <2>1. Exponent(v) = e
    BY <1>0, <1>2, ExponentIs
  <2>2. CASE e = m
    <3>1. Fl(v, m) = v
      BY <1>1, <2>1, <2>2 DEF Fl
    <3>2. Pow2[e - m] = 1
      BY <2>2, PowerOf
    <3> QED BY <1>0, <3>1, <3>2, NearestExact
  <2>3. CASE e # m
    BY <1>1, <2>1, <2>3 DEF Fl
  <2> QED BY <2>2, <2>3
<1>3. CASE Abs(v) = 2 * Pow2[e]
  <2>1. Pow2[e + 1] = Abs(v)
    BY <1>3, PowerOf
  <2>2. Exponent(v) = e + 1
    BY <1>0, <1>1, <2>1, ExponentIs
  <2>3. (e + 1) - m \in Nat \ {0} /\ Pow2[(e + 1) - m] \in Nat \ {0}
    BY PowerOf
  <2>4. Fl(v, m) = Nearest(v, Pow2[(e + 1) - m])
    BY <1>1, <2>2, <2>3 DEF Fl
  <2>5. ASSUME NEW n \in Nat, n <= e + 1 PROVE Nearest(v, Pow2[n]) = v
    <3>1. Pow2[e + 1] = Pow2[(e + 1) - n] * Pow2[n] /\ Pow2[(e + 1) - n] \in Int
      BY <1>0, <2>5, PowerMultiple
    <3>2. Pow2[n] \in Nat \ {0}
      BY PowerOf
    <3>3. PICK j \in Int : v = j * Pow2[n]
      <4>1. -(Pow2[(e + 1) - n] * Pow2[n]) = (-Pow2[(e + 1) - n]) * Pow2[n]
        BY <3>1, <3>2, Apart
      <4>2. v = Pow2[(e + 1) - n] * Pow2[n] \/ v = (-Pow2[(e + 1) - n]) * Pow2[n]
        <5>1. v = Pow2[e + 1] \/ v = -Pow2[e + 1]
          BY <2>1, AbsSays
        <5> QED BY <3>1, <4>1, <5>1
      <4> QED BY <3>1, <4>2
    <3> QED BY <3>2, <3>3, NearestExact
  <2> QED BY <1>0, <2>3, <2>4, <2>5
<1> QED BY <1>0, <1>1, <1>2, <1>3

\* Numbers of m + 1 significant bits are in the format.
LEMMA FlExact ==
  ASSUME NEW m \in Nat, NEW n \in Nat, n + m < Digits,
         NEW j \in Int, Abs(j * Pow2[n]) <= 2 * Pow2[n + m]
  PROVE  Fl(j * Pow2[n], m) = j * Pow2[n]
<1> DEFINE v == j * Pow2[n]
           f == Exponent(v)
<1>0. /\ Digits \in Nat /\ Pow2[n] \in Nat \ {0} /\ n + m \in Nat /\ (n + m) + 1 \in Nat
      /\ Pow2[n + m] \in Nat
      /\ Pow2[(n + m) + 1] = 2 * Pow2[n + m] /\ v \in Int /\ Abs(v) \in Nat
  BY Constants, PowerOf, AbsSays, Apart
<1>1. Pow2[(n + m) + 1] <= Pow2[Digits] /\ Pow2[Digits] \in Nat
  BY <1>0, PowerMono, PowerOf
<1>2. Abs(v) <= Pow2[(n + m) + 1] /\ Abs(v) <= Pow2[Digits]
  <2>1. Abs(v) <= 2 * Pow2[n + m]
    OBVIOUS
  <2> HIDE DEF v
  <2> QED BY <1>0, <1>1, <2>1
<1>3. CASE v = 0
  BY <1>3 DEF Fl
<1>4. CASE v # 0
  <2>1. f \in 0 .. Digits /\ Pow2[f] <= Abs(v) /\ Abs(v) < 2 * Pow2[f]
    <3> HIDE DEF v
    <3> QED BY <1>0, <1>2, <1>4, ExponentSays
  <2>2. CASE f <= m
    BY <2>2 DEF Fl
  <2>3. CASE m < f /\ f <= n + m
    <3>1. f - m \in Nat /\ f - m <= n
      BY <2>1, <2>3
    <3>2. Pow2[n] = Pow2[n - (f - m)] * Pow2[f - m] /\ Pow2[n - (f - m)] \in Int
      BY <3>1, PowerMultiple
    <3>3. Pow2[f - m] \in Nat \ {0}
      BY <3>1, PowerOf
    <3>4. v = (j * Pow2[n - (f - m)]) * Pow2[f - m] /\ j * Pow2[n - (f - m)] \in Int
      BY <3>2, <3>3, Distributes
    <3>5. Fl(v, m) = Nearest(v, Pow2[f - m])
      <4> HIDE DEF v
      <4>1. Exponent(v) \in Int /\ ~ (Exponent(v) <= m)
        BY <2>1, <2>3 DEF f
      <4> QED BY <1>4, <4>1 DEF Fl, f
    <3> QED BY <3>3, <3>4, <3>5, NearestExact
  <2>4. CASE n + m < f
    <3>1. Pow2[(n + m) + 1] <= Pow2[f]
      BY <1>0, <2>1, <2>4, PowerMono
    <3>2. Abs(v) = 2 * Pow2[n + m] /\ Pow2[f] \in Nat /\ Pow2[n + m] \in Nat
      <4>1. Pow2[f] \in Nat /\ Pow2[n + m] \in Nat
        BY <1>0, <2>1, PowerOf
      <4> HIDE DEF v, f
      <4> QED BY <1>0, <1>2, <2>1, <3>1, <4>1
    <3>3. Fl(v, m) = Nearest(v, Pow2[(n + m) - m])
      <4>1. m <= n + m /\ Pow2[n + m] <= Abs(v)
        BY <3>2
      <4> HIDE DEF v
      <4> QED BY <1>0, <3>2, <4>1, FlNear
    <3>4. (n + m) - m = n
      OBVIOUS
    <3> QED BY <1>0, <3>3, <3>4, NearestExact
  <2> QED BY <1>0, <2>1, <2>2, <2>3, <2>4
<1> QED BY <1>3, <1>4

\* The sign does not matter to a rounding.
LEMMA FlNegative ==
  ASSUME NEW m \in Nat, NEW v \in Int, Abs(v) <= Pow2[Digits]
  PROVE  Fl(-v, m) = -Fl(v, m)
<1>1. Exponent(-v) = Exponent(v)
  BY AbsSays DEF Exponent
<1>2. CASE v = 0
  <2>1. Fl(v, m) = v
    BY <1>2 DEF Fl
  <2>2. \A w \in Int : w <= 0 /\ 0 <= w => -w = w
    OBVIOUS
  <2>3. v <= 0 /\ 0 <= v
    BY <1>2
  <2>4. -v = v
    BY <2>2, <2>3
  <2> QED BY <2>1, <2>4
<1>3. CASE v # 0 /\ Exponent(v) <= m
  BY <1>1, <1>3 DEF Fl
<1>4. CASE v # 0 /\ ~ (Exponent(v) <= m)
  <2> DEFINE n == Exponent(v) - m
  <2>1. Exponent(v) \in Nat /\ n \in Nat /\ Pow2[n] \in Nat \ {0}
    BY <1>4, ExponentSays, Constants, PowerOf
  <2>2. Fl(v, m) = Nearest(v, Pow2[n]) /\ Fl(-v, m) = Nearest(-v, Pow2[n])
    BY <1>1, <1>4, <2>1 DEF Fl
  <2> HIDE DEF n
  <2>3. PICK j \in Int : Rounds(v, Pow2[n], j) /\ Nearest(v, Pow2[n]) = j * Pow2[n]
    BY <2>1, NearestRounds
  <2>4. Nearest(-v, Pow2[n]) = (-j) * Pow2[n]
    BY <2>1, <2>3, RoundsNegative, NearestIs
  <2> QED BY <2>1, <2>2, <2>3, <2>4, Apart
<1> QED BY <1>2, <1>3, <1>4

(* The bits of a number. *)

LEMMA MultipleDiv ==
  ASSUME NEW q \in Int, NEW s \in Nat \ {0}
  PROVE  (q * s) \div s = q /\ (q * s) % s = 0
<1>1. q * s + 0 = q * s /\ 0 < s
  BY Apart
<1> QED BY <1>1, DivIs

LEMMA ShiftedDown ==
  ASSUME NEW y \in Nat, NEW n \in Nat, NEW k \in Int, k + n = 0
  PROVE  Shifted(y * Pow2[n], k) = y
<1>1. CASE n = 0
  <2>1. k >= 0 /\ Pow2[k] = 1 /\ Pow2[n] = 1
    BY <1>1, PowerOf
  <2>2. Shifted(y * Pow2[n], k) = (y * Pow2[n]) * Pow2[k]
    BY <2>1 DEF Shifted
  <2>3. (y * 1) * 1 = y
    OBVIOUS
  <2> QED BY <2>1, <2>2, <2>3
<1>2. CASE n # 0
  <2>1. -k = n /\ ~ (k >= 0)
    BY <1>2
  <2>2. Shifted(y * Pow2[n], k) = (y * Pow2[n]) \div Pow2[n]
    BY <2>1 DEF Shifted
  <2>3. y \in Int /\ Pow2[n] \in Nat \ {0}
    BY PowerOf
  <2>4. (y * Pow2[n]) \div Pow2[n] = y
    BY <2>3, MultipleDiv
  <2> QED BY <2>2, <2>4
<1> QED BY <1>1, <1>2

LEMMA TimesNext ==
  ASSUME NEW a \in Int, NEW s \in Int
  PROVE  (a + 1) * s = a * s + s /\ a * s \in Int
  BY SMTT(30)

LEMMA BitsIs ==
  ASSUME NEW m \in Nat, NEW e \in Nat, m <= e, e < Digits,
         NEW y \in Nat, Pow2[m] <= y, y <= 2 * Pow2[m],
         NEW w \in Int, Abs(w) = y * Pow2[e - m]
  PROVE  Bits(w, m) = e * Pow2[m] + y
<1> DEFINE n == e - m
           v == y * Pow2[n]
<1>0. /\ n \in Nat /\ Pow2[n] \in Nat \ {0} /\ Pow2[m] \in Nat \ {0} /\ Pow2[e] \in Nat \ {0}
      /\ Pow2[e] = Pow2[m] * Pow2[n] /\ Digits \in Nat
      /\ Pow2[e + 1] = 2 * Pow2[e]
  BY PowerOf, PowerMultiple, Constants
<1>1. 2 * Pow2[e] = (2 * Pow2[m]) * Pow2[n]
  BY <1>0, TwiceTimes
<1> HIDE DEF n
<1>2. Pow2[e] <= v /\ v <= 2 * Pow2[e] /\ (y < 2 * Pow2[m] => v < 2 * Pow2[e]) /\ v \in Nat
  <2>1. v \in Int /\ Pow2[m] * Pow2[n] <= v /\ v <= (2 * Pow2[m]) * Pow2[n]
    BY <1>0, Apart
  <2>2. y < 2 * Pow2[m] => v + Pow2[n] <= (2 * Pow2[m]) * Pow2[n]
    BY <1>0, Apart
  <2> HIDE DEF v
  <2> QED BY <1>0, <1>1, <2>1, <2>2
<1>3. Abs(w) = v /\ w # 0
  <2>1. Abs(w) = v
    BY DEF n
  <2> HIDE DEF v
  <2> QED BY <1>0, <1>2, <2>1, AbsSays
<1>4. CASE y < 2 * Pow2[m]
  <2>1. Exponent(w) = e
    <3> HIDE DEF v
    <3> QED BY <1>0, <1>2, <1>3, <1>4, ExponentIs
  <2>2. Bits(w, m) = e * Pow2[m] + Shifted(v, m - e)
    <3> HIDE DEF v
    <3> QED BY <1>3, <2>1 DEF Bits
  <2>3. Shifted(v, m - e) = y
    BY <1>0, ShiftedDown DEF n
  <2> QED BY <2>2, <2>3
<1>5. CASE y = 2 * Pow2[m]
  <2>0. Pow2[e] \in Nat \ {0} /\ v = 2 * Pow2[e] /\ e + 1 \in 0 .. Digits
    BY <1>0, <1>1, <1>5
  <2>1. Exponent(w) = e + 1
    <3> HIDE DEF v
    <3> QED BY <1>0, <1>3, <2>0, ExponentIs
  <2>2. Bits(w, m) = (e + 1) * Pow2[m] + Shifted(v, m - (e + 1))
    <3> HIDE DEF v
    <3> QED BY <1>3, <2>1 DEF Bits
  <2>3. v = Pow2[m] * Pow2[n + 1]
    <3>1. Pow2[n + 1] = 2 * Pow2[n] /\ Pow2[m] \in Int /\ Pow2[n] \in Int
      BY <1>0, PowerOf
    <3> QED BY <1>0, <2>0, <3>1, TwiceTimes
  <2>4. Shifted(v, m - (e + 1)) = Pow2[m]
    <3>1. n + 1 \in Nat /\ (m - (e + 1)) + (n + 1) = 0 /\ m - (e + 1) \in Int
      BY <1>0 DEF n
    <3> HIDE DEF v
    <3> QED BY <1>0, <2>3, <3>1, ShiftedDown
  <2>5. (e + 1) * Pow2[m] = e * Pow2[m] + Pow2[m] /\ e * Pow2[m] \in Int
    <3>1. e \in Int /\ Pow2[m] \in Int
      BY <1>0
    <3> QED BY <3>1, TimesNext
  <2>6. Bits(w, m) = (e * Pow2[m] + Pow2[m]) + Pow2[m]
    BY <2>2, <2>4, <2>5
  <2>7. \A a, p \in Int : (a + p) + p = a + 2 * p
    OBVIOUS
  <2>8. Pow2[m] \in Int
    BY <1>0
  <2>9. (e * Pow2[m] + Pow2[m]) + Pow2[m] = e * Pow2[m] + 2 * Pow2[m]
    BY <2>5, <2>7, <2>8
  <2>10. Bits(w, m) = e * Pow2[m] + 2 * Pow2[m]
    BY <2>6, <2>9
  <2> QED BY <1>5, <2>10
<1>6. y < 2 * Pow2[m] \/ y = 2 * Pow2[m]
  <2>1. Pow2[m] \in Nat
    BY <1>0
  <2> HIDE DEF v
  <2> QED BY <2>1
<1> QED BY <1>4, <1>5, <1>6

LEMMA FromBitsIs ==
  ASSUME NEW m \in Nat, NEW e \in Nat, m <= e,
         NEW y \in Nat, Pow2[m] <= y, y <= 2 * Pow2[m]
  PROVE  FromBits(e * Pow2[m] + y, m) = y * Pow2[e - m]
<1> DEFINE b == e * Pow2[m] + y
<1>0. Pow2[m] \in Nat \ {0} /\ e * Pow2[m] \in Nat /\ e - m \in Nat
  BY PowerOf, TimesGrows
<1>1. (e + 1) * Pow2[m] = e * Pow2[m] + Pow2[m] /\ ((e + 1) + 1) * Pow2[m] = (e + 1) * Pow2[m] + Pow2[m]
  BY <1>0, Apart
<1>2. ~ (b < Pow2[m])
  BY <1>0
<1>3. CASE y < 2 * Pow2[m]
  <2>1. b = (e + 1) * Pow2[m] + (y - Pow2[m])
    BY <1>0, <1>1
  <2>2. b \div Pow2[m] = e + 1 /\ b % Pow2[m] = y - Pow2[m]
    <3>1. y - Pow2[m] \in Int /\ 0 <= y - Pow2[m] /\ y - Pow2[m] < Pow2[m]
      BY <1>0, <1>3
    <3>2. /\ ((e + 1) * Pow2[m] + (y - Pow2[m])) \div Pow2[m] = e + 1
          /\ ((e + 1) * Pow2[m] + (y - Pow2[m])) % Pow2[m] = y - Pow2[m]
      <4>1. e + 1 \in Int /\ Pow2[m] \in Nat \ {0}
        BY <1>0
      <4> QED BY <3>1, <4>1, DivIs
    <3> HIDE DEF b
    <3> QED BY <2>1, <3>2
  <2> HIDE DEF b
  <2>3. (e + 1) - 1 - m = e - m /\ Pow2[m] + (y - Pow2[m]) = y
    BY <1>0
  <2>4. FromBits(b, m) = Shifted(Pow2[m] + (y - Pow2[m]), (e + 1) - 1 - m)
    BY <1>2, <2>2 DEF FromBits
  <2>5. FromBits(b, m) = Shifted(y, e - m)
    BY <2>3, <2>4
  <2> QED BY <1>0, <2>5 DEF Shifted, b
<1>4. CASE y = 2 * Pow2[m]
  <2>1. b = ((e + 1) + 1) * Pow2[m] + 0
    BY <1>0, <1>1, <1>4
  <2>2. b \div Pow2[m] = (e + 1) + 1 /\ b % Pow2[m] = 0
    <3>1. /\ (((e + 1) + 1) * Pow2[m] + 0) \div Pow2[m] = (e + 1) + 1
          /\ (((e + 1) + 1) * Pow2[m] + 0) % Pow2[m] = 0
      <4>1. (e + 1) + 1 \in Int /\ 0 \in Int /\ Pow2[m] \in Nat \ {0} /\ 0 < Pow2[m] /\ 0 <= 0
        BY <1>0
      <4> QED BY <4>1, DivIs
    <3> HIDE DEF b
    <3> QED BY <2>1, <3>1
  <2> HIDE DEF b
  <2>3. ((e + 1) + 1) - 1 - m = (e - m) + 1 /\ Pow2[m] + 0 = Pow2[m]
    BY <1>0
  <2>4. FromBits(b, m) = Shifted(Pow2[m] + 0, ((e + 1) + 1) - 1 - m)
    BY <1>2, <2>2 DEF FromBits
  <2>5. FromBits(b, m) = Shifted(Pow2[m], (e - m) + 1)
    BY <2>3, <2>4
  <2>6. FromBits(b, m) = Pow2[m] * Pow2[(e - m) + 1]
    BY <1>0, <2>5 DEF Shifted
  <2>7. Pow2[m] * Pow2[(e - m) + 1] = (2 * Pow2[m]) * Pow2[e - m]
    <3>1. Pow2[(e - m) + 1] = 2 * Pow2[e - m] /\ Pow2[e - m] \in Int
      BY <1>0, PowerOf
    <3> QED BY <1>0, <3>1, TwiceTimes
  <2> QED BY <1>4, <2>6, <2>7 DEF b
<1> QED BY <1>0, <1>3, <1>4

\* What the bits of a number that is not 0 say, those of small numbers included, whose lower
\* digits are finer than the grid.
LEMMA FromBitsSays ==
  ASSUME NEW m \in Nat, NEW x \in Nat, Pow2[m] <= x
  PROVE  \E f \in Nat, y \in Nat :
           /\ Pow2[m] <= y /\ y < 2 * Pow2[m] /\ x = f * Pow2[m] + y
           /\ m <= f => FromBits(x, m) = y * Pow2[f - m]
           /\ f < m => FromBits(x, m) \in Nat /\ FromBits(x, m) < Pow2[m]
<1> DEFINE q == x \div Pow2[m]
           r == x % Pow2[m]
           f == q - 1
           y == Pow2[m] + r
<1>0. Pow2[m] \in Nat \ {0} /\ q \in Int /\ r \in 0 .. Pow2[m] - 1 /\ x = Pow2[m] * q + r
  <2>1. Pow2[m] \in Nat \ {0} /\ x \in Int
    BY PowerOf
  <2> QED BY <2>1, DivMod
<1>1. FromBits(x, m) = Shifted(Pow2[m] + r, q - 1 - m)
  <2>1. ~ (x < Pow2[m])
    BY <1>0
  <2> QED BY <2>1 DEF FromBits
<1> HIDE DEF q, r
<1>2. Pow2[m] * q = q * Pow2[m] /\ q * Pow2[m] \in Int
  BY <1>0, TwiceTimes
<1>3. q >= 1
  <2>1. SUFFICES ASSUME q <= 0 PROVE FALSE
    BY <1>0
  <2>2. q * Pow2[m] <= 0 * Pow2[m] /\ 0 * Pow2[m] = 0
    <3>1. q \in Int /\ 0 \in Int /\ Pow2[m] \in Nat \ {0}
      BY <1>0
    <3>2. 0 * Pow2[m] = 0
      BY <1>0
    <3> QED BY <2>1, <3>1, <3>2, Apart
  <2> QED BY <1>0, <1>2, <2>2
<1>4. f \in Nat /\ y \in Nat /\ Pow2[m] <= y /\ y < 2 * Pow2[m] /\ f + 1 = q
  BY <1>0, <1>3
<1>5. x = f * Pow2[m] + y
  <2>1. (f + 1) * Pow2[m] = f * Pow2[m] + Pow2[m] /\ f * Pow2[m] \in Int
    <3>1. f \in Int /\ Pow2[m] \in Int
      BY <1>0, <1>4
    <3> HIDE DEF f
    <3> QED BY <3>1, TimesNext
  <2>2. q * Pow2[m] = f * Pow2[m] + Pow2[m]
    BY <1>4, <2>1
  <2> HIDE DEF f
  <2> QED BY <1>0, <1>2, <2>1, <2>2
<1>6. FromBits(x, m) = Shifted(y, f - m)
  BY <1>1
<1> HIDE DEF f, y
<1>7. ASSUME m <= f PROVE FromBits(x, m) = y * Pow2[f - m]
  BY <1>4, <1>6, <1>7 DEF Shifted
<1>8. ASSUME f < m PROVE FromBits(x, m) \in Nat /\ FromBits(x, m) < Pow2[m]
  <2> DEFINE d == m - f
             z == y \div Pow2[d]
  <2>1. d \in Nat \ {0} /\ ~ (f - m >= 0) /\ -(f - m) = d
    BY <1>4, <1>8
  <2>2. FromBits(x, m) = z
    BY <1>6, <2>1 DEF Shifted
  <2>3. Pow2[d] \in Nat \ {0} /\ 2 <= Pow2[d]
    <3>1. Pow2[0] = 1 /\ 2 * Pow2[0] <= Pow2[d]
      BY <2>1, PowerOf, PowerLess
    <3> QED BY <2>1, <3>1, PowerOf
  <2> HIDE DEF d
  <2>4. z \in Int /\ y % Pow2[d] \in 0 .. Pow2[d] - 1 /\ y = Pow2[d] * z + (y % Pow2[d])
    <3>1. y \in Int
      BY <1>4
    <3> QED BY <2>3, <3>1, DivMod
  <2> HIDE DEF z
  <2>5. Pow2[d] * z <= y /\ y < Pow2[d] * z + Pow2[d] /\ Pow2[d] * z \in Int
    <3>1. Pow2[d] * z \in Int
      BY <2>3, <2>4, TwiceTimes
    <3> QED BY <1>4, <2>3, <2>4, <3>1
  <2>6. z >= 0
    <3>1. \A p \in Nat \ {0}, a \in Int : a < 0 => p * a + p <= 0
      BY SMTT(30)
    <3>2. z < 0 => Pow2[d] * z + Pow2[d] <= 0
      BY <2>3, <2>4, <3>1
    <3> QED BY <1>4, <2>3, <2>4, <2>5, <3>2
  <2>7. z < Pow2[m]
    <3>1. \A p, a, c \in Nat : p >= 2 /\ a >= c => p * a >= 2 * c
      BY SMTT(30)
    <3>2. z >= Pow2[m] => Pow2[d] * z >= 2 * Pow2[m]
      BY <1>0, <2>3, <2>4, <2>6, <3>1
    <3> QED BY <1>0, <1>4, <2>4, <2>5, <3>2
  <2> QED BY <2>2, <2>4, <2>6, <2>7
<1> QED BY <1>4, <1>5, <1>7, <1>8

\* A number of the format, but for the sign.
Form(a, m) ==
  \/ a \in Nat /\ a < Pow2[m]
  \/ \E f \in Nat, y \in Nat :
       m <= f /\ Pow2[m] <= y /\ y < 2 * Pow2[m] /\ a = y * Pow2[f - m]

\* The numbers up to b are all such, and not beyond b.
LEMMA FromBitsWithin ==
  ASSUME NEW m \in Nat, m <= Grid, NEW b \in Nat \ {0}, b * One <= Pow2[Digits],
         NEW x \in Nat, x <= Bits(b * One, m)
  PROVE  FromBits(x, m) \in Nat /\ FromBits(x, m) <= b * One /\ Form(FromBits(x, m), m)
<1> DEFINE w == b * One
           v == FromBits(x, m)
<1>0. One \in Nat \ {0} /\ Pow2[m] \in Nat \ {0} /\ Pow2[m] <= One
  BY PowerOf, PowerMono, Constants DEF One
<1>1. w \in Nat \ {0} /\ One <= w
  BY <1>0, TimesGrows
<1>2. CASE x < Pow2[m]
  <2>1. v = 0
    BY <1>2 DEF FromBits
  <2> QED BY <1>0, <1>1, <2>1 DEF Form
<1>3. CASE Pow2[m] <= x
  <2>1. PICK f \in Nat, y \in Nat :
           /\ Pow2[m] <= y /\ y < 2 * Pow2[m] /\ x = f * Pow2[m] + y
           /\ m <= f => FromBits(x, m) = y * Pow2[f - m]
           /\ f < m => FromBits(x, m) \in Nat /\ FromBits(x, m) < Pow2[m]
    BY <1>3, FromBitsSays
  <2>2. Form(v, m)
    <3>1. CASE m <= f  BY <2>1, <3>1 DEF Form
    <3>2. CASE f < m  BY <2>1, <3>2 DEF Form
    <3> QED BY <3>1, <3>2
  <2> HIDE DEF w
  <2> DEFINE e == Exponent(w)
             s == w \div Pow2[e - m]
  <2>3. e \in 0 .. Digits /\ Pow2[e] <= w /\ w < 2 * Pow2[e]
    <3>1. w \in Int /\ w # 0 /\ Abs(w) = w /\ Abs(w) <= Pow2[Digits]
      <4>1. w <= Pow2[Digits] BY DEF w
      <4> QED BY <1>1, <4>1, AbsSays
    <3> QED BY <3>1, ExponentSays
  <2> HIDE DEF e
  <2>4. Grid <= e /\ e \in Nat /\ m <= e
    <3>1. e \in Nat /\ Grid \in Nat
      BY <2>3, Constants
    <3>2. e < Grid => 2 * Pow2[e] <= One
      BY <3>1, PowerLess DEF One
    <3>3. Pow2[e] \in Nat
      BY <3>1, PowerOf
    <3> QED BY <1>0, <1>1, <2>3, <3>1, <3>2, <3>3
  <2>5. e - m \in Nat /\ Pow2[e - m] \in Nat \ {0} /\ Pow2[e] = Pow2[m] * Pow2[e - m]
    BY <2>4, PowerOf, PowerMultiple
  <2>6. s \in Int /\ w % Pow2[e - m] \in 0 .. Pow2[e - m] - 1 /\ w = Pow2[e - m] * s + (w % Pow2[e - m])
    <3>1. w \in Int
      BY <1>1
    <3> QED BY <2>5, <3>1, DivMod
  <2>7. Bits(w, m) = e * Pow2[m] + Shifted(w, m - e)
    <3>1. w # 0 /\ Abs(w) = w
      BY <1>1, AbsSays
    <3> QED BY <3>1 DEF Bits, e
  <2>8. Shifted(w, m - e) = s
    <3>1. CASE m = e
      <4>1. m - e >= 0 /\ Pow2[m - e] = 1 /\ Pow2[e - m] = 1
        BY <2>4, <3>1, PowerOf
      <4>2. Shifted(w, m - e) = w * 1
        BY <4>1 DEF Shifted
      <4>3. s = w \div 1
        BY <4>1
      <4> HIDE DEF s
      <4> QED BY <1>1, <4>2, <4>3
    <3>2. CASE m # e
      <4>1. ~ (m - e >= 0) /\ -(m - e) = e - m
        BY <2>4, <3>2
      <4> QED BY <4>1 DEF Shifted
    <3> QED BY <3>1, <3>2
  <2> HIDE DEF s
  <2> DEFINE d == Pow2[e - m]
  <2>9. s * d <= w /\ w < s * d + d /\ s * d \in Int /\ d \in Nat \ {0}
    <3>1. Pow2[e - m] * s = s * Pow2[e - m] /\ s * Pow2[e - m] \in Int
      BY <2>5, <2>6, TwiceTimes
    <3> QED BY <1>1, <2>5, <2>6, <3>1
  <2>10. s < 2 * Pow2[m]
    <3>1. 2 * Pow2[e] = (2 * Pow2[m]) * d
      BY <1>0, <2>5, TwiceTimes
    <3> HIDE DEF d
    <3>2. s * d < (2 * Pow2[m]) * d
      <4>1. (2 * Pow2[m]) * d \in Int /\ Pow2[e] \in Int
        BY <1>0, <2>4, <2>9, PowerOf, TwiceTimes
      <4> QED BY <1>1, <2>3, <2>9, <3>1, <4>1
    <3>3. 2 * Pow2[m] <= s => (2 * Pow2[m]) * d <= s * d
      <4>1. 2 * Pow2[m] \in Int /\ s \in Int /\ d \in Nat \ {0}
        BY <1>0, <2>6, <2>9
      <4> QED BY <4>1, Apart
    <3>4. (2 * Pow2[m]) * d \in Int
      BY <1>0, <2>9, TwiceTimes
    <3> QED BY <1>0, <2>6, <2>9, <3>2, <3>3, <3>4
  <2>11. f * Pow2[m] + y <= e * Pow2[m] + s
    BY <2>1, <2>7, <2>8 DEF w
  <2>12. f <= e
    <3>1. SUFFICES ASSUME e < f PROVE FALSE
      BY <2>4
    <3>2. e * Pow2[m] + Pow2[m] <= f * Pow2[m] /\ e * Pow2[m] \in Int /\ f * Pow2[m] \in Int
      <4>1. e \in Int /\ f \in Int /\ Pow2[m] \in Nat \ {0}
        BY <1>0, <2>4
      <4> QED BY <3>1, <4>1, Apart
    <3> QED BY <1>0, <2>1, <2>6, <2>10, <2>11, <3>2
  <2>13. v \in Nat /\ v <= w
    <3>1. CASE f < m
      <4> HIDE DEF v
      <4>1. v \in Nat /\ v < Pow2[m]
        BY <2>1, <3>1 DEF v
      <4> QED BY <1>0, <1>1, <4>1
    <3>2. CASE m <= f /\ f < e
      <4>1. v = y * Pow2[f - m] /\ f - m \in Nat /\ Pow2[f - m] \in Nat \ {0}
        BY <2>1, <3>2, PowerOf
      <4>2. y * Pow2[f - m] <= (2 * Pow2[m]) * Pow2[f - m] /\ y * Pow2[f - m] \in Nat
        <5>1. y \in Int /\ 2 * Pow2[m] \in Int /\ y <= 2 * Pow2[m]
          BY <1>0, <2>1
        <5> QED BY <4>1, <5>1, Apart, TimesGrows
      <4>3. (2 * Pow2[m]) * Pow2[f - m] = 2 * Pow2[f]
        <5>1. Pow2[f] = Pow2[m] * Pow2[f - m]
          BY <3>2, PowerMultiple
        <5> QED BY <1>0, <4>1, <5>1, TwiceTimes
      <4>4. 2 * Pow2[f] <= Pow2[e] /\ Pow2[f] \in Nat /\ Pow2[e] \in Nat
        BY <2>4, <3>2, PowerLess, PowerOf
      <4> HIDE DEF v
      <4> QED BY <1>1, <2>3, <4>1, <4>2, <4>3, <4>4
    <3>3. CASE f = e
      <4>1. v = y * d
        BY <2>1, <2>4, <3>3
      <4>2. y <= s
        <5>1. e * Pow2[m] \in Int
          BY <1>0, <2>4, TwiceTimes
        <5> QED BY <2>1, <2>6, <2>11, <3>3, <5>1
      <4> HIDE DEF v, d
      <4>3. y * d <= s * d /\ y * d \in Nat
        <5>1. y \in Int /\ s \in Int
          BY <2>1, <2>6
        <5> QED BY <2>1, <2>9, <4>2, <5>1, Apart, TimesGrows
      <4> QED BY <1>1, <2>9, <4>1, <4>3
    <3> QED BY <2>4, <2>12, <3>1, <3>2, <3>3
  <2> QED BY <2>2, <2>13 DEF w
<1> QED BY <1>0, <1>2, <1>3

LEMMA NumberSays ==
  ASSUME NEW m \in Nat, m <= Grid, NEW b \in Nat \ {0}, b * One <= Pow2[Digits],
         NEW v \in Numbers(m, b)
  PROVE  v \in Int /\ Abs(v) <= b * One /\ Form(Abs(v), m)
<1> DEFINE positive == {FromBits(x, m) : x \in 0 .. Bits(b * One, m)}
<1>1. ASSUME NEW a \in positive PROVE a \in Nat /\ a <= b * One /\ Form(a, m)
  <2>1. PICK x \in 0 .. Bits(b * One, m) : a = FromBits(x, m)
    OBVIOUS
  <2>2. x \in Nat /\ x <= Bits(b * One, m)
    OBVIOUS
  <2> QED BY <2>1, <2>2, FromBitsWithin
<1>2. PICK a \in positive : v = a \/ v = -a
  BY DEF Numbers
<1>3. a \in Nat /\ a <= b * One /\ Form(a, m)
  <2> HIDE DEF positive
  <2> QED BY <1>1
<1>4. v \in Int /\ Abs(v) = a
  BY <1>2, <1>3, AbsSays
<1> QED BY <1>3, <1>4

LEMMA AbsTimes ==
  ASSUME NEW j \in Int, NEW s \in Nat \ {0}
  PROVE  Abs(j * s) = Abs(j) * s
<1>1. j * s \in Int /\ (-j) * s = -(j * s) /\ 0 * s = 0
  BY Apart
<1>2. (0 <= j <=> 0 * s <= j * s) /\ (j <= 0 <=> j * s <= 0 * s)
  BY Apart
<1>3. CASE 0 <= j
  <2>1. Abs(j) = j /\ Abs(j * s) = j * s
    BY <1>1, <1>2, <1>3, AbsSays
  <2> QED BY <2>1
<1>4. CASE ~ (0 <= j)
  <2>1. Abs(j) = -j /\ Abs(j * s) = -(j * s)
    BY <1>1, <1>2, <1>4, AbsSays
  <2> QED BY <1>1, <2>1
<1> QED BY <1>3, <1>4

\* A multiple of a power, of m + 1 significant bits at most.
LEMMA FlHolds ==
  ASSUME NEW m \in Nat, NEW n \in Nat, n + m < Digits, NEW j \in Int, Abs(j) <= 2 * Pow2[m]
  PROVE  Fl(j * Pow2[n], m) = j * Pow2[n]
<1>1. Pow2[n] \in Nat \ {0} /\ Pow2[m] \in Nat \ {0} /\ Abs(j) \in Int /\ 2 * Pow2[m] \in Int
  BY PowerOf, AbsSays
<1>2. Abs(j) * Pow2[n] <= (2 * Pow2[m]) * Pow2[n]
  BY <1>1, Apart
<1>3. (2 * Pow2[m]) * Pow2[n] = 2 * Pow2[n + m]
  <2>1. Pow2[n + m] = Pow2[n] * Pow2[m]
    BY PowerSum
  <2>2. (2 * Pow2[m]) * Pow2[n] = Pow2[n] * (2 * Pow2[m])
    BY <1>1, TwiceTimes
  <2> QED BY <1>1, <2>1, <2>2, TwiceTimes
<1>4. Abs(j * Pow2[n]) <= 2 * Pow2[n + m]
  BY <1>1, <1>2, <1>3, AbsTimes
<1> QED BY <1>4, FlExact
-----------------------------------------------------------------------------
(* Scaling.                                                                  *)

\* The steps of the samples of width k.
Step(k) == Pow2[Grid - (k - 1)]

LEMMA StepSays ==
  ASSUME NEW k \in Nat, 2 <= k, k <= Wide
  PROVE  /\ Grid - (k - 1) \in Nat /\ k - 1 \in Nat /\ Step(k) \in Nat \ {0} /\ One \in Nat \ {0}
         /\ Pow2[k - 1] \in Nat \ {0} /\ Pow2[k] \in Nat \ {0}
         /\ One = Step(k) * Pow2[k - 1] /\ One = Pow2[k - 1] * Step(k)
         /\ 2 * One = Pow2[k] * Step(k)
         /\ Pow2[k] = 2 * Pow2[k - 1] /\ Pow2[k] <= 2 * Pow2[FMant]
         /\ (Grid - (k - 1)) + FMant < Digits /\ (Grid - (k - 1)) + DMant < Digits
         /\ One \div Pow2[k - 1] = Step(k)
<1>0. /\ Wide = FMant + 1 /\ Wide < DMant /\ Grid >= DMant
  BY PcmAssumption, Constants
<1>1. Grid - (k - 1) \in Nat /\ k - 1 \in Nat /\ (k - 1) + 1 = k /\ k - 1 <= Grid /\ k <= FMant + 1
  BY <1>0, Constants
<1>2. Step(k) \in Nat \ {0} /\ One \in Nat \ {0} /\ Pow2[k - 1] \in Nat \ {0}
  BY <1>1, PowerOf, Constants DEF Step, One
<1>3. One = Step(k) * Pow2[k - 1] /\ One = Pow2[k - 1] * Step(k)
  BY <1>1, Constants, PowerMultiple DEF Step, One
<1>4. Pow2[k] = 2 * Pow2[k - 1] /\ Pow2[k] \in Nat \ {0}
  BY <1>1, PowerOf
<1>5. Pow2[k] <= 2 * Pow2[FMant]
  <2>1. Pow2[FMant + 1] = 2 * Pow2[FMant] /\ FMant + 1 \in Nat
    BY Constants, PowerOf
  <2> QED BY <1>1, <2>1, PowerMono
<1>6. 2 * One = Pow2[k] * Step(k)
  <2>1. Step(k) \in Int /\ Pow2[k - 1] \in Int
    BY <1>2
  <2>2. 2 * (Step(k) * Pow2[k - 1]) = Step(k) * (2 * Pow2[k - 1])
    BY <2>1, TwiceTimes
  <2>3. Step(k) * Pow2[k] = Pow2[k] * Step(k)
    BY <1>4, <2>1, TwiceTimes
  <2> QED BY <1>3, <1>4, <2>2, <2>3
<1>7. One \div Pow2[k - 1] = Step(k)
  <2>1. Step(k) \in Int
    BY <1>2
  <2>2. (Step(k) * Pow2[k - 1]) \div Pow2[k - 1] = Step(k)
    BY <1>2, <2>1, MultipleDiv
  <2> QED BY <1>3, <2>2
<1>8. (Grid - (k - 1)) + FMant < Digits /\ (Grid - (k - 1)) + DMant < Digits
  BY <1>0, <1>1, Constants
<1> QED BY <1>1, <1>2, <1>3, <1>4, <1>5, <1>6, <1>7, <1>8

LEMMA WidthSays == \A k \in Widths : k \in Nat /\ 2 <= k /\ k <= Wide
  BY PcmAssumption DEF Widths

\* A sum with Magic is rounded to the step of width k.
LEMMA ScaleInSays ==
  ASSUME NEW k \in Nat, 2 <= k, k <= Wide, NEW m \in {FMant, DMant}, k < m,
         NEW v \in Int, Abs(v) <= 2 * One
  PROVE  \E j \in Int : /\ Rounds(v, Step(k), j) /\ Abs(j) <= Pow2[k]
                        /\ ScaleIn(v, k, m) = j * Step(k)
<1> DEFINE n == Grid - (k - 1)
           s == Step(k)
           p == Pow2[m - k]
           e == n + m
           q == 3 * Pow2[m - 1]
<1>0. /\ m \in Nat /\ m - k \in Nat /\ m - 1 \in Nat /\ m - 2 \in Nat /\ n \in Nat
      /\ m <= DMant /\ FMant \in Nat /\ Grid \in Nat /\ Digits \in Nat /\ e < Digits
  <2>1. m \in Nat /\ m <= DMant
    BY Constants, PcmAssumption
  <2> QED BY <2>1, Constants, StepSays
<1>1. s \in Nat \ {0} /\ One \in Nat \ {0} /\ Pow2[k] \in Nat \ {0} /\ Pow2[k] <= 2 * Pow2[m]
  <2>1. Pow2[k] <= Pow2[m] /\ Pow2[m] \in Nat
    BY <1>0, PowerMono, PowerOf
  <2> QED BY <2>1, StepSays
<1>2. p \in Nat /\ 2 <= p
  <2>1. 2 * Pow2[0] <= Pow2[m - k]
    BY <1>0, PowerLess
  <2> QED BY <1>0, <2>1, PowerOf
<1>3. q \in Int /\ q % 2 = 0
  <2>1. (m - 2) + 1 = m - 1
    BY <1>0
  <2>2. Pow2[m - 1] = 2 * Pow2[m - 2] /\ Pow2[m - 2] \in Nat
    BY <1>0, <2>1, PowerOf
  <2> QED BY <2>2
<1>4. Magic(k, m) = q * s
  <2>1. Pow2[m - 1] = p * Pow2[k - 1]
    <3>1. (m - k) + (k - 1) = m - 1 /\ k - 1 \in Nat
      BY <1>0
    <3>2. Pow2[(m - k) + (k - 1)] = Pow2[m - k] * Pow2[k - 1]
      BY <1>0, <3>1, PowerSum
    <3> QED BY <3>1, <3>2
  <2>2. Magic(k, m) = (3 * p) * (Pow2[k - 1] * s)
    BY StepSays DEF Magic
  <2>3. Pow2[k - 1] \in Int /\ p \in Int /\ 3 * p \in Int /\ s \in Int
    BY <1>1, <1>2, StepSays
  <2> HIDE DEF p, s
  <2>4. (3 * p) * (Pow2[k - 1] * s) = ((3 * p) * Pow2[k - 1]) * s
    BY <2>3, Distributes
  <2>5. (3 * p) * Pow2[k - 1] = 3 * (p * Pow2[k - 1])
    BY <2>3, Distributes
  <2> QED BY <2>1, <2>2, <2>4, <2>5
<1>5. Magic(k, m) = 3 * (p * One) /\ Pow2[e] = 2 * (p * One) /\ 2 * One <= p * One /\ p * One \in Nat
  <2>1. Magic(k, m) = (3 * p) * One
    BY DEF Magic
  <2>2. p \in Int /\ One \in Int /\ 2 \in Int /\ 3 \in Int
    BY <1>1, <1>2
  <2>3. Pow2[e] = (2 * p) * One
    <3>1. (m - k) + 1 \in Nat /\ e = ((m - k) + 1) + Grid
      BY <1>0
    <3>2. Pow2[((m - k) + 1) + Grid] = Pow2[(m - k) + 1] * One
      BY <1>0, <3>1, PowerSum DEF One
    <3>3. Pow2[(m - k) + 1] = 2 * p
      BY <1>0, PowerOf
    <3> QED BY <3>1, <3>2, <3>3
  <2> HIDE DEF p, e
  <2>4. (3 * p) * One = 3 * (p * One) /\ (2 * p) * One = 2 * (p * One)
    BY <2>2, Distributes
  <2>5. 2 * One <= p * One
    BY <1>1, <1>2, <2>2, Apart
  <2>6. p * One \in Nat
    BY <1>1, <1>2, TimesGrows
  <2> QED BY <2>1, <2>3, <2>4, <2>5, <2>6
<1> HIDE DEF p, q, e, n, s
<1>6. /\ v + Magic(k, m) \in Int /\ Pow2[e] <= Abs(v + Magic(k, m))
      /\ Abs(v + Magic(k, m)) <= 2 * Pow2[e]
  <2> DEFINE t == p * One
  <2>1. t \in Nat /\ 2 * One <= t /\ Magic(k, m) = 3 * t /\ Pow2[e] = 2 * t
    BY <1>5
  <2> HIDE DEF t
  <2>2. v <= 2 * One /\ -v <= 2 * One
    BY <1>1, AbsSays
  <2>3. v + Magic(k, m) \in Nat /\ 2 * t <= v + Magic(k, m) /\ v + Magic(k, m) <= 4 * t
    BY <1>1, <2>1, <2>2
  <2>4. Abs(v + Magic(k, m)) = v + Magic(k, m)
    BY <2>3, AbsSays
  <2> QED BY <2>1, <2>3, <2>4
<1>7. Fl(v + Magic(k, m), m) = Nearest(v + Magic(k, m), s)
  <2>1. e \in Nat /\ m <= e /\ e - m = n /\ s = Pow2[n]
    BY <1>0 DEF e, s, Step, n
  <2> QED BY <1>0, <1>6, <2>1, FlNear
<1>8. PICK j \in Int : Rounds(v, s, j)
  BY <1>1, NearestRounds
<1>9. Fl(v + Magic(k, m), m) = (j + q) * s
  <2>1. Rounds(v + q * s, s, j + q)
    BY <1>1, <1>3, <1>8, RoundsShift
  <2>2. v + q * s \in Int /\ j + q \in Int
    BY <1>3, <1>4, <1>6
  <2>3. Nearest(v + q * s, s) = (j + q) * s
    BY <1>1, <2>1, <2>2, NearestIs
  <2> QED BY <1>4, <1>7, <2>3
<1>10. Fl(v + Magic(k, m), m) - Magic(k, m) = j * s
  <2>1. (j + q) * s = j * s + q * s /\ j * s \in Int /\ q * s \in Int
    BY <1>1, <1>3, Distributes
  <2> QED BY <1>4, <1>9, <2>1
<1>11. Abs(j) <= Pow2[k]
  <2>1. 2 * One = Pow2[k] * s /\ Pow2[k] \in Int /\ -Pow2[k] \in Int
    BY <1>1, StepSays DEF s
  <2>2. v <= Pow2[k] * s /\ (-Pow2[k]) * s <= v
    <3>1. (-Pow2[k]) * s = -(Pow2[k] * s)
      BY <1>1, <2>1, Apart
    <3>2. v <= 2 * One /\ -(2 * One) <= v
      BY <1>1, AbsSays
    <3> QED BY <2>1, <3>1, <3>2
  <2>3. j <= Pow2[k] /\ -Pow2[k] <= j
    BY <1>1, <1>8, <2>1, <2>2, RoundsWithin
  <2> QED BY <2>1, <2>3, AbsSays
<1>12. Fl(j * s, m) = j * s
  <2>1. s = Pow2[n] /\ n + m < Digits
    BY <1>0 DEF s, Step, n, e
  <2>2. Abs(j) <= 2 * Pow2[m]
    BY <1>0, <1>1, <1>11, AbsSays, PowerOf
  <2> QED BY <1>0, <2>1, <2>2, FlHolds
<1>13. ScaleIn(v, k, m) = j * s
  BY <1>10, <1>12 DEF ScaleIn
<1> QED BY <1>8, <1>11, <1>13 DEF s

LEMMA ScaleSays ==
  ASSUME NEW k \in Widths, NEW v \in Int, Abs(v) <= 2 * One
  PROVE  \E j \in Int : /\ Rounds(v, Step(k), j) /\ Abs(j) <= Pow2[k]
                        /\ Scale(v, k) = j * Step(k)
<1>0. k \in Nat /\ 2 <= k /\ k <= Wide
  BY WidthSays
<1>1. CASE k \in Narrow
  <2>1. k < FMant
    BY <1>1, PcmAssumption
  <2>2. Scale(v, k) = ScaleIn(v, k, FMant)
    BY <1>1 DEF Scale
  <2> QED BY <1>0, <2>1, <2>2, ScaleInSays
<1>2. CASE k \notin Narrow
  <2>1. k < DMant
    BY <1>0, Constants, PcmAssumption
  <2>2. PICK j \in Int : /\ Rounds(v, Step(k), j) /\ Abs(j) <= Pow2[k]
                         /\ ScaleIn(v, k, DMant) = j * Step(k)
    BY <1>0, <2>1, ScaleInSays
  <2>3. Scale(v, k) = Fl(j * Step(k), FMant)
    BY <1>2, <2>2 DEF Scale
  <2>4. Abs(j) <= 2 * Pow2[FMant]
    BY <1>0, <2>2, AbsSays, Constants, StepSays, PowerOf
  <2>5. Fl(j * Step(k), FMant) = j * Step(k)
    <3>1. Grid - (k - 1) \in Nat /\ (Grid - (k - 1)) + FMant < Digits /\ FMant \in Nat
      BY <1>0, StepSays, Constants
    <3> QED BY <2>4, <3>1, FlHolds DEF Step
  <2> QED BY <2>2, <2>3, <2>5
<1> QED BY <1>1, <1>2

LEMMA SampleSays ==
  ASSUME NEW k \in Widths, NEW i \in Samples(k)
  PROVE  i \in Int /\ i < Pow2[k - 1] /\ -Pow2[k - 1] <= i /\ Abs(i) <= Pow2[k - 1]
         /\ Abs(i) <= Pow2[k] /\ Abs(i) <= 2 * Pow2[FMant]
<1>1. Pow2[k - 1] \in Nat \ {0} /\ Pow2[k] = 2 * Pow2[k - 1] /\ Pow2[k] <= 2 * Pow2[FMant]
      /\ Pow2[FMant] \in Nat
  BY WidthSays, StepSays, PowerOf, Constants
<1>2. i \in Int /\ i < Pow2[k - 1] /\ -Pow2[k - 1] <= i
  BY <1>1 DEF Samples
<1> QED BY <1>1, <1>2, AbsSays

LEMMA AsFloatSays ==
  ASSUME NEW k \in Widths, NEW i \in Samples(k)
  PROVE  AsFloat(i, k) = i * Step(k)
<1>0. k \in Nat /\ 2 <= k /\ k <= Wide /\ i \in Int /\ Abs(i) <= 2 * Pow2[FMant]
  BY WidthSays, SampleSays
<1>1. i * One = (i * Step(k)) * Pow2[k - 1] /\ i * Step(k) \in Int /\ Pow2[k - 1] \in Nat \ {0}
  <2>1. One = Step(k) * Pow2[k - 1] /\ Step(k) \in Int /\ Pow2[k - 1] \in Int
        /\ Pow2[k - 1] \in Nat \ {0}
    BY <1>0, StepSays
  <2>2. (i * Step(k)) * Pow2[k - 1] = i * (Step(k) * Pow2[k - 1]) /\ i * Step(k) \in Int
    BY <1>0, <2>1, Distributes
  <2> QED BY <2>1, <2>2
<1>2. (i * One) \div Pow2[k - 1] = i * Step(k)
  BY <1>1, MultipleDiv
<1>3. Grid - (k - 1) \in Nat /\ (Grid - (k - 1)) + FMant < Digits /\ FMant \in Nat
  BY <1>0, StepSays, Constants
<1>4. Fl(i * Step(k), FMant) = i * Step(k)
  BY <1>0, <1>3, FlHolds DEF Step
<1> QED BY <1>2, <1>4 DEF AsFloat

\* A byte with its top bit flipped is the sample, as a signed number, and the other way.
LEMMA ByteSays ==
  /\ \A b \in 0 .. Pow2[Byte] - 1 : Signed(Flip(b), Byte) = b - Pow2[Byte - 1]
  /\ \A i \in Samples(Byte) : Flip(i) = i + Pow2[Byte - 1]
<1> DEFINE h == Pow2[Byte - 1]
<1>1. Byte \in Widths /\ Byte \in Nat /\ 2 <= Byte /\ Byte - 1 \in Nat
  BY PcmAssumption, WidthSays DEF Widths
<1>2. h \in Nat \ {0} /\ Pow2[Byte] = 2 * h
  <2>1. (Byte - 1) + 1 = Byte
    BY <1>1
  <2> QED BY <1>1, <2>1, PowerOf
<1>3. ASSUME NEW r \in 0 .. 2 * h - 1 PROVE r % (2 * h) = r /\ (1 * (2 * h) + r) % (2 * h) = r
  <2>1. 2 * h \in Nat \ {0} /\ r \in Int /\ 0 <= r /\ r < 2 * h
    BY <1>2, <1>3
  <2> HIDE DEF h
  <2>2. (0 * (2 * h) + r) % (2 * h) = r
    BY <2>1, DivIs
  <2>3. (1 * (2 * h) + r) % (2 * h) = r
    BY <2>1, DivIs
  <2>4. 0 * (2 * h) + r = r
    BY <2>1
  <2> QED BY <2>2, <2>3, <2>4
<1> HIDE DEF h
<1>4. ASSUME NEW i \in Int PROVE Flip(i) = (i + h) % (2 * h)
  BY <1>2 DEF Flip, h
<1>5. ASSUME NEW r \in 0 .. 2 * h - 1
      PROVE  Signed(r, Byte) = IF r < h THEN r ELSE r - 2 * h
  <2>1. r % (2 * h) = r
    BY <1>3
  <2> QED BY <1>2, <2>1 DEF Signed, h
<1>6. ASSUME NEW b \in 0 .. 2 * h - 1 PROVE Signed(Flip(b), Byte) = b - h
  <2>1. CASE b < h
    <3>1. b + h \in 0 .. 2 * h - 1 /\ b \in Int
      BY <1>2, <2>1
    <3>2. Flip(b) = b + h
      BY <1>3, <1>4, <3>1
    <3> QED BY <1>2, <1>5, <3>1, <3>2
  <2>2. CASE ~ (b < h)
    <3>1. b - h \in 0 .. 2 * h - 1 /\ b \in Int /\ b - h < h
      BY <1>2, <2>2
    <3>2. b + h = 1 * (2 * h) + (b - h)
      BY <1>2, <3>1
    <3>3. Flip(b) = b - h
      BY <1>3, <1>4, <3>1, <3>2
    <3> QED BY <1>2, <1>5, <3>1, <3>3
  <2> QED BY <2>1, <2>2
<1>7. ASSUME NEW i \in Samples(Byte) PROVE Flip(i) = i + h
  <2>1. i \in Int /\ i + h \in 0 .. 2 * h - 1
    BY <1>2 DEF Samples, h
  <2> QED BY <1>3, <1>4, <2>1
<1> QED BY <1>2, <1>6, <1>7 DEF h

\* What a word stands for, and how a sample is stored.
LEMMA WordSays ==
  ASSUME NEW k \in Widths
  PROVE  /\ \A b \in Words(k) : /\ FromInt(b, k) = AsFloat(Meant(b, k), k)
                                 /\ Meant(b, k) \in Samples(k) /\ Stored(Meant(b, k), k) = b
         /\ \A i \in Samples(k) : Stored(i, k) \in Words(k) /\ Meant(Stored(i, k), k) = i
<1>1. CASE k = Byte
  <2>0. Pow2[k - 1] \in Nat \ {0} /\ Pow2[k] = 2 * Pow2[k - 1]
    BY WidthSays, StepSays, PowerOf
  <2>1. ASSUME NEW b \in Words(k)
        PROVE  /\ FromInt(b, k) = AsFloat(Meant(b, k), k)
               /\ Meant(b, k) \in Samples(k) /\ Stored(Meant(b, k), k) = b
    <3>1. b \in 0 .. Pow2[k] - 1 /\ b \in Int /\ Meant(b, k) = b - Pow2[k - 1]
      BY <1>1, <2>0 DEF Words, Meant
    <3>2. FromInt(b, k) = AsFloat(Meant(b, k), k)
      BY <1>1, <3>1, ByteSays DEF FromInt
    <3>3. Meant(b, k) \in Samples(k)
      BY <2>0, <3>1 DEF Samples
    <3>4. Stored(Meant(b, k), k) = (b - Pow2[k - 1]) + Pow2[k - 1]
      BY <1>1, <3>1, <3>3, ByteSays DEF Stored
    <3> QED BY <2>0, <3>1, <3>2, <3>3, <3>4
  <2>2. ASSUME NEW i \in Samples(k)
        PROVE  Stored(i, k) \in Words(k) /\ Meant(Stored(i, k), k) = i
    <3>1. Stored(i, k) = i + Pow2[k - 1]
      BY <1>1, ByteSays DEF Stored
    <3>2. i \in Int /\ i + Pow2[k - 1] \in 0 .. Pow2[k] - 1
      BY <2>0 DEF Samples
    <3> QED BY <1>1, <2>0, <3>1, <3>2 DEF Words, Meant
  <2> QED BY <2>1, <2>2
<1>2. CASE k # Byte
  BY <1>2 DEF Words, Meant, Stored, FromInt
<1> QED BY <1>1, <1>2

\* The sum of the lossy sample at its step and of the remainder.
LEMMA RestoreSays ==
  ASSUME NEW k \in Widths, NEW v \in Int, Abs(v) <= 2 * One, NEW i \in Samples(k),
         Remainder(i, v, k) \in Samples(k)
  PROVE  Fl(Scale(v, k) + AsFloat(Remainder(i, v, k), k), FMant) * Pow2[k - 1] = i * One
<1>0. k \in Nat /\ 2 <= k /\ k <= Wide /\ i \in Int /\ Abs(i) <= 2 * Pow2[FMant]
  BY WidthSays, SampleSays
<1>1. /\ One = Step(k) * Pow2[k - 1] /\ Step(k) \in Nat \ {0} /\ Pow2[k - 1] \in Nat \ {0}
      /\ One \in Nat \ {0}
  BY <1>0, StepSays
<1>2. PICK j \in Int : Rounds(v, Step(k), j) /\ Scale(v, k) = j * Step(k)
  BY ScaleSays
<1> DEFINE r == i - j
<1>3. Remainder(i, v, k) = r
  <2>1. Rounds(v * Pow2[k - 1], Step(k) * Pow2[k - 1], j)
    BY <1>1, <1>2, RoundsScaled
  <2>2. v * Pow2[k - 1] \in Int
    BY <1>1, Apart
  <2>3. Nearest(v * Pow2[k - 1], One) = j * One
    BY <1>1, <2>1, <2>2, NearestIs
  <2>4. (j * One) \div One = j
    BY <1>1, MultipleDiv
  <2> QED BY <2>3, <2>4 DEF Remainder
<1>4. AsFloat(Remainder(i, v, k), k) = r * Step(k)
  BY <1>3, AsFloatSays
<1>5. j * Step(k) + r * Step(k) = i * Step(k)
  <2>1. j * Step(k) + r * Step(k) = (j + r) * Step(k)
    <3>1. Step(k) \in Int /\ r \in Int
      BY <1>0, <1>1
    <3> HIDE DEF r
    <3> QED BY <3>1, Distributes
  <2>2. j + r = i
    BY <1>0
  <2> QED BY <2>1, <2>2
<1>6. Fl(i * Step(k), FMant) = i * Step(k)
  <2>1. Grid - (k - 1) \in Nat /\ (Grid - (k - 1)) + FMant < Digits /\ FMant \in Nat
    BY <1>0, StepSays, Constants
  <2> QED BY <1>0, <2>1, FlHolds DEF Step
<1>7. (i * Step(k)) * Pow2[k - 1] = i * One
  <2>1. Step(k) \in Int /\ Pow2[k - 1] \in Int
    BY <1>1
  <2>2. (i * Step(k)) * Pow2[k - 1] = i * (Step(k) * Pow2[k - 1])
    BY <1>0, <2>1, Distributes
  <2> QED BY <1>1, <2>2
<1> HIDE DEF r
<1> QED BY <1>2, <1>4, <1>5, <1>6, <1>7
-----------------------------------------------------------------------------
(* Integer samples.                                                          *)

\* What FRound and Clip make of a multiple of One.
LEMMA FRoundIs ==
  ASSUME NEW x \in Int, NEW j \in Int, Rounds(x, One, j),
         -Pow2[FWord - 1] <= j, j < Pow2[FWord - 1]
  PROVE  FRound(x) = j /\ Nearest(x, One) \div One = j
<1>1. One \in Nat \ {0}
  BY PowerOf, Constants DEF One
<1>2. Nearest(x, One) = j * One
  BY <1>1, NearestIs
<1>3. (j * One) \div One = j
  BY <1>1, MultipleDiv
<1>4. FWord - 1 \in Nat /\ Pow2[FWord - 1] \in Nat
  <2>1. FWord - 1 \in Nat
    BY Constants, PcmAssumption
  <2> QED BY <2>1, PowerOf
<1>5. j \in -Pow2[FWord - 1] .. Pow2[FWord - 1] - 1
  BY <1>4
<1> QED BY <1>2, <1>3, <1>5 DEF FRound

LEMMA RoundTripSays ==
  ASSUME NEW k \in Widths, NEW i \in Samples(k)
  PROVE  AsFloat(i, k) * Pow2[k - 1] = i * One /\ ToInt(AsFloat(i, k), k) = Stored(i, k)
<1>0. /\ k \in Nat /\ 2 <= k /\ k <= Wide /\ i \in Int /\ Abs(i) <= 2 * Pow2[FMant]
      /\ i < Pow2[k - 1] /\ -Pow2[k - 1] <= i
  BY WidthSays, SampleSays
<1>1. /\ One = Step(k) * Pow2[k - 1] /\ Step(k) \in Nat \ {0} /\ Pow2[k - 1] \in Nat \ {0}
      /\ One \in Nat \ {0}
  BY <1>0, StepSays
<1>2. AsFloat(i, k) * Pow2[k - 1] = i * One
  <2>1. Step(k) \in Int /\ Pow2[k - 1] \in Int
    BY <1>1
  <2>2. (i * Step(k)) * Pow2[k - 1] = i * (Step(k) * Pow2[k - 1])
    BY <1>0, <2>1, Distributes
  <2> QED BY <1>1, <2>2, AsFloatSays
<1>3. Fl(i * One, FMant) = i * One
  <2>1. Grid \in Nat /\ FMant \in Nat /\ Grid + FMant < Digits
    BY Constants, PcmAssumption
  <2> QED BY <1>0, <2>1, FlHolds DEF One
<1>4. FRound(i * One) = i
  <2>1. Rounds(i * One, One, i) /\ i * One \in Int
    <3>1. Rounds(i * One, One, i)
      BY <1>0, <1>1, NearestExact
    <3> QED BY <1>0, <1>1, <3>1, Apart
  <2>2. Pow2[k - 1] <= Pow2[FWord - 1] /\ Pow2[FWord - 1] \in Nat
    <3>1. k - 1 \in Nat /\ FWord - 1 \in Nat /\ k - 1 <= FWord - 1
      BY <1>0, Constants, PcmAssumption
    <3> QED BY <3>1, PowerMono, PowerOf
  <2>3. -Pow2[FWord - 1] <= i /\ i < Pow2[FWord - 1]
    BY <1>0, <1>1, <2>2
  <2> QED BY <1>0, <2>1, <2>3, FRoundIs
<1>5. Clip(i, k) = i
  <2>1. ~ (i > Pow2[k - 1] - 1) /\ ~ (i < -Pow2[k - 1])
    BY <1>0, <1>1
  <2> QED BY <2>1 DEF Clip
<1> QED BY <1>2, <1>3, <1>4, <1>5 DEF ToInt

\* A number of the format is a multiple of a power, by a factor of m + 1 bits.
LEMMA FormSays ==
  ASSUME NEW m \in Nat, NEW v \in Int, Form(Abs(v), m), NEW t \in Nat, Abs(v) <= Pow2[t]
  PROVE  \E n \in Nat, j \in Int : v = j * Pow2[n] /\ Abs(j) <= 2 * Pow2[m] /\ (n = 0 \/ n + m <= t)
<1>0. Pow2[m] \in Nat \ {0} /\ Abs(v) \in Nat
  BY PowerOf, AbsSays
<1>1. CASE Abs(v) < Pow2[m]
  <2>1. Pow2[0] = 1 /\ v * 1 = v /\ Abs(v) <= 2 * Pow2[m]
    BY <1>0, <1>1, PowerOf
  <2>2. 0 \in Nat /\ v = v * Pow2[0] /\ Abs(v) <= 2 * Pow2[m]
    BY <2>1
  <2> QED BY <2>2
<1>2. CASE ~ (Abs(v) < Pow2[m])
  <2>1. PICK f \in Nat, y \in Nat :
          m <= f /\ Pow2[m] <= y /\ y < 2 * Pow2[m] /\ Abs(v) = y * Pow2[f - m]
    BY <1>0, <1>2 DEF Form
  <2>2. f - m \in Nat /\ Pow2[f - m] \in Nat \ {0} /\ Pow2[f] = Pow2[m] * Pow2[f - m]
    BY <2>1, PowerOf, PowerMultiple
  <2>3. f <= t
    <3>1. Pow2[m] * Pow2[f - m] <= y * Pow2[f - m]
      <4>1. Pow2[m] \in Int /\ y \in Int
        BY <1>0
      <4> QED BY <2>1, <2>2, <4>1, Apart
    <3>2. Pow2[f] <= Pow2[t]
      <4>1. Pow2[f] \in Nat /\ Pow2[t] \in Nat
        BY PowerOf
      <4> QED BY <1>0, <2>1, <2>2, <3>1, <4>1
    <3>3. t < f => 2 * Pow2[t] <= Pow2[f] /\ Pow2[t] \in Nat \ {0} /\ Pow2[f] \in Nat
      BY PowerLess, PowerOf
    <3> QED BY <3>2, <3>3
  <2>4. \E j \in Int : v = j * Pow2[f - m] /\ Abs(j) <= 2 * Pow2[m]
    <3>1. v = Abs(v) \/ v = -Abs(v)
      BY AbsSays
    <3>2. Abs(y) = y /\ Abs(-y) = y /\ y \in Int /\ -y \in Int
      BY AbsSays
    <3>3. (-y) * Pow2[f - m] = -(y * Pow2[f - m])
      BY <2>2, <3>2, Apart
    <3>4. y <= 2 * Pow2[m]
      BY <1>0, <2>1
    <3> QED BY <2>1, <3>1, <3>2, <3>3, <3>4
  <2>5. (f - m) + m <= t
    BY <2>3
  <2> QED BY <2>2, <2>4, <2>5
<1> QED BY <1>1, <1>2

\* Beyond 2^m only integers are left.
LEMMA WholeAbove ==
  ASSUME NEW m \in Nat, NEW n \in Nat, NEW j \in Int, Abs(j) <= 2 * Pow2[m],
         Abs(j * Pow2[n]) > Pow2[m] * One
  PROVE  \E c \in Int : j * Pow2[n] = c * One
<1>0. Pow2[n] \in Nat \ {0} /\ Pow2[m] \in Nat \ {0} /\ One \in Nat \ {0} /\ Grid \in Nat
      /\ One = Pow2[Grid]
  BY PowerOf, Constants DEF One
<1>1. CASE Grid <= n
  <2>1. Pow2[n] = Pow2[n - Grid] * One /\ Pow2[n - Grid] \in Int /\ One \in Int
    BY <1>0, <1>1, PowerMultiple
  <2>2. (j * Pow2[n - Grid]) * One = j * (Pow2[n - Grid] * One) /\ j * Pow2[n - Grid] \in Int
    BY <2>1, Distributes
  <2> QED BY <2>1, <2>2
<1>2. CASE n < Grid
  <2>1. 2 * Pow2[n] <= One
    BY <1>0, <1>2, PowerLess
  <2>2. Abs(j) * Pow2[n] <= (2 * Pow2[m]) * Pow2[n]
    <3>1. Abs(j) \in Int /\ 2 * Pow2[m] \in Int
      BY <1>0, AbsSays
    <3> QED BY <1>0, <3>1, Apart
  <2>3. (2 * Pow2[m]) * Pow2[n] = (2 * Pow2[n]) * Pow2[m]
    <3>1. Pow2[m] \in Int /\ Pow2[n] \in Int /\ 2 \in Int
      BY <1>0
    <3> QED BY <3>1, Distributes, TwiceTimes
  <2>4. (2 * Pow2[n]) * Pow2[m] <= One * Pow2[m] /\ One * Pow2[m] = Pow2[m] * One
    <3>1. 2 * Pow2[n] \in Int /\ One \in Int /\ Pow2[m] \in Int
      BY <1>0
    <3> QED BY <1>0, <2>1, <3>1, Apart, TwiceTimes
  <2>5. Abs(j * Pow2[n]) = Abs(j) * Pow2[n]
    BY <1>0, AbsTimes
  <2>6. Abs(j) * Pow2[n] \in Int /\ (2 * Pow2[n]) * Pow2[m] \in Int /\ Pow2[m] * One \in Int
    BY <1>0, AbsSays, TwiceTimes
  <2>7. Abs(j * Pow2[n]) <= Pow2[m] * One
    BY <2>2, <2>3, <2>4, <2>5, <2>6
  <2>8. Abs(j * Pow2[n]) \in Int
    BY <2>5, <2>6
  <2> QED BY <2>6, <2>7, <2>8
<1> QED BY <1>0, <1>1, <1>2

\* The rounding of FRound stays below 2^(w - 1) when its argument does.
LEMMA RoundsBelow ==
  ASSUME NEW m \in Nat, NEW n \in Nat, NEW j \in Int, Abs(j) <= 2 * Pow2[m],
         NEW w \in Nat, m + 1 < w, Abs(j * Pow2[n]) < Pow2[w - 1] * One,
         NEW i \in Int, Rounds(j * Pow2[n], One, i)
  PROVE  Abs(i) < Pow2[w - 1]
<1> DEFINE x == j * Pow2[n]
<1>0. /\ One \in Nat \ {0} /\ Pow2[m] \in Nat \ {0} /\ Pow2[w - 1] \in Nat \ {0}
      /\ 2 * Pow2[m] <= Pow2[w - 1]
  BY PowerOf, PowerLess, Constants DEF One
<1>1. x \in Int /\ Abs(x) < Pow2[w - 1] * One
  BY PowerOf, Apart
<1>2. CASE Abs(x) > Pow2[m] * One
  <2>1. PICK c \in Int : x = c * One
    BY <1>2, WholeAbove
  <2> HIDE DEF x
  <2>2. Rounds(x, One, i)
    BY DEF x
  <2>3. i = c
    <3>1. Rounds(x, One, c)
      BY <1>0, <2>1, NearestExact
    <3> QED BY <1>0, <1>1, <2>2, <3>1, RoundsOnce
  <2>4. Abs(c) * One < Pow2[w - 1] * One
    BY <1>0, <1>1, <2>1, AbsTimes
  <2>5. Abs(c) \in Int /\ Pow2[w - 1] \in Int
    BY <1>0, AbsSays
  <2>6. Pow2[w - 1] <= Abs(c) => Pow2[w - 1] * One <= Abs(c) * One
    BY <1>0, <2>5, Apart
  <2>7. Pow2[w - 1] * One \in Int /\ Abs(c) * One \in Int
    BY <1>0, <2>5, Apart
  <2> QED BY <2>3, <2>4, <2>5, <2>6, <2>7
<1>3. CASE ~ (Abs(x) > Pow2[m] * One)
  <2> HIDE DEF x
  <2>1. Rounds(x, One, i) /\ Pow2[m] \in Int /\ -Pow2[m] \in Int
    BY <1>0 DEF x
  <2>2. Pow2[m] * One \in Int /\ (-Pow2[m]) * One = -(Pow2[m] * One)
    BY <1>0, <2>1, Apart
  <2>3. x <= Pow2[m] * One /\ (-Pow2[m]) * One <= x
    BY <1>1, <1>3, <2>2, AbsSays
  <2>4. i <= Pow2[m] /\ -Pow2[m] <= i
    BY <1>0, <1>1, <2>1, <2>3, RoundsWithin
  <2> QED BY <1>0, <2>4, AbsSays
<1> QED BY <1>2, <1>3

\* What is clipped fits the width.
LEMMA ClipSays ==
  ASSUME NEW k \in Widths, NEW i \in Int
  PROVE  Clip(i, k) \in Samples(k)
<1>1. Pow2[k - 1] \in Nat \ {0}
  BY WidthSays, StepSays
<1> QED BY <1>1 DEF Clip, Samples

LEMMA ToIntSays ==
  ASSUME NEW k \in Widths, NEW v \in Int, Abs(v) <= 2 * One, Form(Abs(v), FMant)
  PROVE  \E i \in Int :
           /\ ToInt(v, k) = Stored(Clip(i, k), k)
           /\ Abs(v) * Pow2[k - 1] < Pow2[FWord - 1] * One =>
                i = Nearest(v * Pow2[k - 1], One) \div One
<1>0. /\ k \in Nat /\ 2 <= k /\ k <= Wide /\ k - 1 \in Nat /\ Pow2[k - 1] \in Nat \ {0}
      /\ One \in Nat \ {0} /\ FMant \in Nat /\ Grid \in Nat /\ Grid + 1 \in Nat
  BY WidthSays, StepSays, Constants
<1>1. Abs(v) <= Pow2[Grid + 1]
  BY <1>0, PowerOf DEF One
<1>2. PICK n \in Nat, j \in Int :
        v = j * Pow2[n] /\ Abs(j) <= 2 * Pow2[FMant] /\ (n = 0 \/ n + FMant <= Grid + 1)
  BY <1>0, <1>1, FormSays
<1> DEFINE x == v * Pow2[k - 1]
<1>3. x = j * Pow2[n + (k - 1)] /\ n + (k - 1) \in Nat
  <2>1. Pow2[n + (k - 1)] = Pow2[n] * Pow2[k - 1] /\ Pow2[n] \in Int /\ Pow2[k - 1] \in Int
    <3>1. Pow2[n + (k - 1)] = Pow2[n] * Pow2[k - 1]
      BY <1>0, PowerSum
    <3> QED BY <1>0, <3>1, PowerOf
  <2>2. (j * Pow2[n]) * Pow2[k - 1] = j * (Pow2[n] * Pow2[k - 1])
    BY <2>1, Distributes
  <2> QED BY <1>0, <1>2, <2>1, <2>2
<1>4. Fl(x, FMant) = x
  <2>1. (n + (k - 1)) + FMant < Digits
    BY <1>0, <1>2, Constants, PcmAssumption
  <2> HIDE DEF x
  <2> QED BY <1>0, <1>2, <1>3, <2>1, FlHolds
<1>5. x \in Int /\ Abs(x) = Abs(v) * Pow2[k - 1]
  BY <1>0, AbsTimes, Apart
<1>6. PICK i \in Int : Rounds(x, One, i)
  <2> HIDE DEF x
  <2> QED BY <1>0, <1>5, NearestRounds
<1>7. FRound(x) \in Int
  <2> HIDE DEF x
  <2>1. Nearest(x, One) \div One = i
    BY <1>0, <1>5, <1>6, NearestIs, MultipleDiv
  <2>2. -Pow2[FWord - 1] \in Int
    <3>1. FWord - 1 \in Nat
      BY Constants, PcmAssumption
    <3> QED BY <3>1, PowerOf
  <2> QED BY <2>1, <2>2 DEF FRound
<1>8. ASSUME Abs(v) * Pow2[k - 1] < Pow2[FWord - 1] * One
      PROVE  FRound(x) = Nearest(x, One) \div One
  <2>1. FWord \in Nat /\ FMant + 1 < FWord /\ FWord - 1 \in Nat
    BY Constants, PcmAssumption
  <2>2. Abs(x) < Pow2[FWord - 1] * One
    BY <1>5, <1>8
  <2> HIDE DEF x
  <2>3. Abs(j * Pow2[n + (k - 1)]) < Pow2[FWord - 1] * One /\ Rounds(j * Pow2[n + (k - 1)], One, i)
    BY <1>3, <1>6, <2>2
  <2>4. Abs(i) < Pow2[FWord - 1]
    BY <1>0, <1>2, <1>3, <2>1, <2>3, RoundsBelow
  <2>5. -Pow2[FWord - 1] <= i /\ i < Pow2[FWord - 1]
    BY <2>1, <2>4, PowerOf, AbsSays
  <2> QED BY <1>5, <1>6, <2>5, FRoundIs
<1>9. ToInt(v, k) = Stored(Clip(FRound(x), k), k)
  BY <1>4 DEF ToInt
<1> QED BY <1>7, <1>8, <1>9
-----------------------------------------------------------------------------
(* The calls, and the properties of their results.                           *)

LEMMA FloatNumbers ==
  ASSUME NEW v \in Numbers(FMant, 2)
  PROVE  v \in Int /\ Abs(v) <= 2 * One /\ Form(Abs(v), FMant)
<1>1. FMant \in Nat /\ FMant <= Grid
  BY Constants, PcmAssumption
<1>2. 2 * One <= Pow2[Digits]
  <2>1. Grid \in Nat /\ Digits \in Nat /\ Grid < Digits
    BY Constants, PcmAssumption
  <2> QED BY <2>1, PowerLess DEF One
<1> QED BY <1>1, <1>2, NumberSays

\* Only the call itself sets op to its name.
LEMMA Callers ==
  ASSUME Next
  PROVE  /\ op' = "scale" => CallScale
         /\ op' = "restore" => CallRestore
         /\ op' = "toInt" => CallToInt
         /\ op' = "fromInt" => CallFromInt
         /\ op' = "toInteger" => CallByMid \/ CallByTop \/ CallLowWord
         /\ op' = "toWord" => CallToWord
         /\ op' = "ofInteger" => CallOfMid \/ CallOfTop \/ CallOfWord
         /\ op' = "ofLong" => CallOfLong
  BY DEF Next, Called, CallScale, CallRestore, CallToInt, CallFromInt, CallByMid, CallByTop,
         CallLowWord, CallToWord, CallOfMid, CallOfTop, CallOfWord, CallOfLong

(* Adding the constant and taking it off again rounds to the nearest step of *)
(* the width, in float and in double, for every width of sample and mantissa *)
(* (pcm_convert.cpp:5-27).                                                   *)
THEOREM ScalesToStepHolds == Spec => []ScalesToStep
<1>1. Init => ScalesToStep
  BY DEF Init, ScalesToStep
<1>2. ScalesToStep /\ [Next]_vars => ScalesToStep'
  <2>1. CASE Next
    <3>1. SUFFICES ASSUME op' = "scale"
                   PROVE  res' = Nearest(arg'[1], One \div Pow2[arg'[2] - 1])
      BY DEF ScalesToStep
    <3>2. PICK k \in Widths, v \in Numbers(FMant, 2) : Called("scale", <<v, k>>, Scale(v, k))
      BY <2>1, <3>1, Callers DEF CallScale
    <3>3. arg'[1] = v /\ arg'[2] = k /\ res' = Scale(v, k)
      BY <3>2 DEF Called
    <3>4. k \in Nat /\ 2 <= k /\ k <= Wide /\ v \in Int /\ Abs(v) <= 2 * One
      BY WidthSays, FloatNumbers
    <3>5. PICK j \in Int : Rounds(v, Step(k), j) /\ Scale(v, k) = j * Step(k)
      BY <3>4, ScaleSays
    <3>6. One \div Pow2[k - 1] = Step(k) /\ Step(k) \in Nat \ {0}
      BY <3>4, StepSays
    <3>7. Scale(v, k) = Nearest(v, Step(k))
      BY <3>4, <3>5, <3>6, NearestIs
    <3> QED BY <3>3, <3>6, <3>7
  <2>2. CASE UNCHANGED vars
    BY <2>2 DEF vars, ScalesToStep
  <2> QED BY <2>1, <2>2
<1> QED BY <1>1, <1>2, PTL DEF Spec

(* A lossy sample and its remainder make the original sample, to the last    *)
(* bit (input_hybrid.cpp:137-175), whatever the lossy sample is.             *)
THEOREM RestoresExactlyHolds == Spec => []RestoresExactly
<1>1. Init => RestoresExactly
  BY DEF Init, RestoresExactly
<1>2. RestoresExactly /\ [Next]_vars => RestoresExactly'
  <2>1. CASE Next
    <3>1. SUFFICES ASSUME op' = "restore"
                   PROVE  res' * Pow2[arg'[2] - 1] = arg'[1] * One
      BY DEF RestoresExactly
    <3>0. PICK k \in Widths : \E v \in Numbers(FMant, 2), i \in Samples(k) :
            /\ Remainder(i, v, k) \in Samples(k)
            /\ Called("restore", <<i, k>>,
                      Fl(Scale(v, k) + AsFloat(Remainder(i, v, k), k), FMant))
      BY <2>1, <3>1, Callers DEF CallRestore
    <3>2. PICK v \in Numbers(FMant, 2), i \in Samples(k) :
            /\ Remainder(i, v, k) \in Samples(k)
            /\ Called("restore", <<i, k>>,
                      Fl(Scale(v, k) + AsFloat(Remainder(i, v, k), k), FMant))
      BY <3>0
    <3>3. /\ arg'[1] = i /\ arg'[2] = k
          /\ res' = Fl(Scale(v, k) + AsFloat(Remainder(i, v, k), k), FMant)
      BY <3>2 DEF Called
    <3>4. v \in Int /\ Abs(v) <= 2 * One
      BY FloatNumbers
    <3> QED BY <3>2, <3>3, <3>4, RestoreSays
  <2>2. CASE UNCHANGED vars
    BY <2>2 DEF vars, RestoresExactly
  <2> QED BY <2>1, <2>2
<1> QED BY <1>1, <1>2, PTL DEF Spec

(* A sample is clipped, never wrapped, and where FROUND is in its range,     *)
(* rounded to nearest first (pcm_convert.cpp:103-170): no number of the      *)
(* format just below the limit is rounded beyond it, and the flipped bit     *)
(* makes a byte of every sample of that width.                               *)
THEOREM ClipsToWidthHolds == Spec => []ClipsToWidth
<1>1. Init => ClipsToWidth
  BY DEF Init, ClipsToWidth
<1>2. ClipsToWidth /\ [Next]_vars => ClipsToWidth'
  <2>1. CASE Next
    <3>1. SUFFICES ASSUME op' = "toInt"
                   PROVE  /\ res' \in Words(arg'[2])
                          /\ Abs(arg'[1]) * Pow2[arg'[2] - 1] < Pow2[FWord - 1] * One =>
                               Meant(res', arg'[2]) =
                                 Clip(Nearest(arg'[1] * Pow2[arg'[2] - 1], One) \div One, arg'[2])
      BY DEF ClipsToWidth
    <3>2. PICK k \in Widths, v \in Numbers(FMant, 2) : Called("toInt", <<v, k>>, ToInt(v, k))
      BY <2>1, <3>1, Callers DEF CallToInt
    <3>3. arg'[1] = v /\ arg'[2] = k /\ res' = ToInt(v, k)
      BY <3>2 DEF Called
    <3>4. PICK i \in Int :
            /\ ToInt(v, k) = Stored(Clip(i, k), k)
            /\ Abs(v) * Pow2[k - 1] < Pow2[FWord - 1] * One =>
                 i = Nearest(v * Pow2[k - 1], One) \div One
      BY FloatNumbers, ToIntSays
    <3>5. Stored(Clip(i, k), k) \in Words(k) /\ Meant(Stored(Clip(i, k), k), k) = Clip(i, k)
      BY ClipSays, WordSays
    <3> QED BY <3>3, <3>4, <3>5
  <2>2. CASE UNCHANGED vars
    BY <2>2 DEF vars, ClipsToWidth
  <2> QED BY <2>1, <2>2
<1> QED BY <1>1, <1>2, PTL DEF Spec

(* An integer sample becomes the number it stands for, which comes back      *)
(* unchanged (pcm_convert.cpp:78-170).                                       *)
THEOREM RoundTripHolds == Spec => []RoundTrip
<1>1. Init => RoundTrip
  BY DEF Init, RoundTrip
<1>2. RoundTrip /\ [Next]_vars => RoundTrip'
  <2>1. CASE Next
    <3>1. SUFFICES ASSUME op' = "fromInt"
                   PROVE  /\ res' * Pow2[arg'[2] - 1] = Meant(arg'[1], arg'[2]) * One
                          /\ ToInt(res', arg'[2]) = arg'[1]
      BY DEF RoundTrip
    <3>0. PICK k \in Widths : \E b \in Words(k) : Called("fromInt", <<b, k>>, FromInt(b, k))
      BY <2>1, <3>1, Callers DEF CallFromInt
    <3>2. PICK b \in Words(k) : Called("fromInt", <<b, k>>, FromInt(b, k))
      BY <3>0
    <3>3. arg'[1] = b /\ arg'[2] = k /\ res' = FromInt(b, k)
      BY <3>2 DEF Called
    <3>4. /\ FromInt(b, k) = AsFloat(Meant(b, k), k)
          /\ Meant(b, k) \in Samples(k) /\ Stored(Meant(b, k), k) = b
      BY WordSays
    <3>5. /\ AsFloat(Meant(b, k), k) * Pow2[k - 1] = Meant(b, k) * One
          /\ ToInt(AsFloat(Meant(b, k), k), k) = Stored(Meant(b, k), k)
      BY <3>4, RoundTripSays
    <3> QED BY <3>3, <3>4, <3>5
  <2>2. CASE UNCHANGED vars
    BY <2>2 DEF vars, RoundTrip
  <2> QED BY <2>1, <2>2
<1> QED BY <1>1, <1>2, PTL DEF Spec
-----------------------------------------------------------------------------
(* The bits of integers.                                                     *)

LEMMA FormatSays ==
  ASSUME NEW f \in Formats
  PROVE  /\ f[1] \in Nat /\ f[2] \in Nat /\ f[3] \in Nat /\ f[4] \in Nat
         /\ 3 <= f[1] /\ f[1] <= DMant /\ f[1] <= Grid
         /\ 1 <= f[2] /\ f[2] + 2 <= f[1] /\ f[3] - 1 - f[2] < f[1] /\ f[1] + 1 < f[3]
         /\ f[3] <= f[1] + f[4] /\ f[4] <= f[1] /\ (f[1] = DMant => f[4] < f[1])
         /\ Grid + f[3] < Digits /\ (Grid + f[4]) + f[1] < Digits /\ Grid + f[1] < Digits
<1>1. CASE f = <<FMant, FShift, FWord, FMant>>
  <2>1. f[1] = FMant /\ f[2] = FShift /\ f[3] = FWord /\ f[4] = FMant
    BY <1>1
  <2> QED BY <2>1, Constants, PcmAssumption
<1>2. CASE f = <<DMant, DShift, DWord, Half>>
  <2>1. f[1] = DMant /\ f[2] = DShift /\ f[3] = DWord /\ f[4] = Half
    BY <1>2
  <2> QED BY <2>1, Constants, PcmAssumption
<1> QED BY <1>1, <1>2 DEF Formats

\* Numbers of m + 1 bits in units of 2^n.
LEMMA BitsUnit ==
  ASSUME NEW m \in Nat, NEW n \in Nat, n + m < Digits,
         NEW y \in Nat, Pow2[m] <= y, y <= 2 * Pow2[m]
  PROVE  /\ \A w \in Int : Abs(w) = y * Pow2[n] => Bits(w, m) = (n + m) * Pow2[m] + y
         /\ FromBits((n + m) * Pow2[m] + y, m) = y * Pow2[n]
<1> DEFINE e == n + m
<1>1. e \in Nat /\ m <= e /\ e < Digits /\ e - m = n
  OBVIOUS
<1> HIDE DEF e
<1>2. FromBits(e * Pow2[m] + y, m) = y * Pow2[e - m]
  BY <1>1, FromBitsIs
<1>3. \A w \in Int : Abs(w) = y * Pow2[e - m] => Bits(w, m) = e * Pow2[m] + y
  BY <1>1, BitsIs
<1>4. /\ \A w \in Int : Abs(w) = y * Pow2[n] => Bits(w, m) = e * Pow2[m] + y
      /\ FromBits(e * Pow2[m] + y, m) = y * Pow2[n]
  BY <1>1, <1>2, <1>3
<1> QED BY <1>4 DEF e

\* A sum that large is rounded to units of 2^n.
LEMMA FlUnit ==
  ASSUME NEW m \in Nat, NEW n \in Nat, n + m < Digits, NEW q \in Int, q % 2 = 0,
         NEW v \in Int, NEW j \in Int, Rounds(v, Pow2[n], j),
         Pow2[m] * Pow2[n] <= Abs(v + q * Pow2[n]),
         Abs(v + q * Pow2[n]) <= 2 * (Pow2[m] * Pow2[n])
  PROVE  Fl(v + q * Pow2[n], m) = (j + q) * Pow2[n]
<1> DEFINE x == v + q * Pow2[n]
<1>1. Pow2[n] \in Nat \ {0} /\ x \in Int /\ n + m \in Nat /\ m <= n + m /\ (n + m) - m = n
  BY PowerOf, Apart
<1>2. Pow2[n + m] = Pow2[m] * Pow2[n]
  <2>1. Pow2[n + m] = Pow2[n] * Pow2[m]
    BY PowerSum
  <2>2. Pow2[n] \in Int /\ Pow2[m] \in Int
    BY PowerOf
  <2> QED BY <2>1, <2>2, TwiceTimes
<1>3. Pow2[n + m] <= Abs(x) /\ Abs(x) <= 2 * Pow2[n + m]
  BY <1>2
<1>4. Rounds(x, Pow2[n], j + q)
  BY <1>1, RoundsShift
<1> HIDE DEF x
<1>5. Fl(x, m) = Nearest(x, Pow2[(n + m) - m])
  BY <1>1, <1>3, FlNear
<1>6. Nearest(x, Pow2[n]) = (j + q) * Pow2[n]
  <2>1. j + q \in Int
    OBVIOUS
  <2> QED BY <1>1, <1>4, <2>1, NearestIs
<1> QED BY <1>1, <1>5, <1>6 DEF x

LEMMA HalfSays ==
  ASSUME NEW m \in Nat, 2 <= m
  PROVE  /\ m - 1 \in Nat /\ Pow2[m - 1] \in Nat \ {0} /\ Pow2[m] = 2 * Pow2[m - 1]
         /\ Pow2[m] \in Nat /\ 2 <= Pow2[m - 1]
         /\ Pow2[m - 1] % 2 = 0 /\ (3 * Pow2[m - 1]) % 2 = 0 /\ Pow2[m] % 2 = 0
<1>1. m - 1 \in Nat /\ m - 2 \in Nat /\ (m - 1) + 1 = m /\ (m - 2) + 1 = m - 1
  OBVIOUS
<1>2. Pow2[m] = 2 * Pow2[m - 1] /\ Pow2[m - 1] = 2 * Pow2[m - 2]
      /\ Pow2[m - 1] \in Nat \ {0} /\ Pow2[m - 2] \in Nat \ {0} /\ Pow2[m] \in Nat
  BY <1>1, PowerOf
<1> QED BY <1>1, <1>2

\* The two constants of typeconvert.h.
LEMMA MidTop ==
  ASSUME NEW m \in Nat, 2 <= m, Grid + m < Digits
  PROVE  /\ Bits(Mid(m), m) = (Grid + m) * Pow2[m] + 3 * Pow2[m - 1]
         /\ Bits(Top(m), m) = (Grid + m) * Pow2[m] + Pow2[m]
         /\ Mid(m) = (3 * Pow2[m - 1]) * One /\ Top(m) = Pow2[m] * One
         /\ (Grid + m) * Pow2[m] \in Int
<1>0. /\ Pow2[m - 1] \in Nat /\ Pow2[m] = 2 * Pow2[m - 1] /\ Pow2[m] \in Nat
      /\ Grid \in Nat /\ Pow2[Grid] \in Nat \ {0} /\ One = Pow2[Grid]
  BY HalfSays, PowerOf, Constants DEF One
<1>1. Mid(m) = (3 * Pow2[m - 1]) * One /\ Top(m) = Pow2[m] * One
  BY DEF Mid, Top
<1>2. ASSUME NEW y \in Nat, Pow2[m] <= y, y <= 2 * Pow2[m]
      PROVE  Bits(y * One, m) = (Grid + m) * Pow2[m] + y
  <2>1. y * One \in Nat
    BY <1>0, TimesGrows
  <2>2. y * One \in Int /\ Abs(y * One) = y * Pow2[Grid]
    BY <1>0, <2>1, AbsSays
  <2> QED BY <1>0, <1>2, <2>2, BitsUnit
<1>3. 3 * Pow2[m - 1] \in Nat /\ Pow2[m] <= 3 * Pow2[m - 1] /\ 3 * Pow2[m - 1] <= 2 * Pow2[m]
      /\ Pow2[m] <= 2 * Pow2[m] /\ Pow2[m] <= Pow2[m]
  BY <1>0
<1>4. (Grid + m) * Pow2[m] \in Int
  <2>1. Grid + m \in Int /\ Pow2[m] \in Int
    BY <1>0
  <2> QED BY <2>1, TwiceTimes
<1> QED BY <1>0, <1>1, <1>2, <1>3, <1>4

\* The integer in the bits next to those of a multiple c of One.
LEMMA OfBits ==
  ASSUME NEW m \in Nat, 2 <= m, NEW n \in Nat, n + m < Digits, NEW c \in Int, NEW i \in Int,
         Pow2[m] <= c + i, c + i <= 2 * Pow2[m]
  PROVE  FromBits(((n + m) * Pow2[m] + c) + i, m) - c * Pow2[n] = i * Pow2[n]
<1>1. c + i \in Nat /\ Pow2[n] \in Int /\ Pow2[m] \in Nat
  BY PowerOf
<1>2. FromBits((n + m) * Pow2[m] + (c + i), m) = (c + i) * Pow2[n]
  BY <1>1, BitsUnit
<1>3. ((n + m) * Pow2[m] + c) + i = (n + m) * Pow2[m] + (c + i)
  <2>1. (n + m) * Pow2[m] \in Int
    <3>1. n + m \in Int /\ Pow2[m] \in Int
      BY <1>1
    <3> QED BY <3>1, TwiceTimes
  <2> QED BY <2>1
<1>4. (c + i) * Pow2[n] = c * Pow2[n] + i * Pow2[n] /\ c * Pow2[n] \in Int /\ i * Pow2[n] \in Int
  BY <1>1, Distributes
<1> QED BY <1>2, <1>3, <1>4

LEMMA OfMidSays ==
  ASSUME NEW m \in Nat, 2 <= m, Grid + m < Digits, NEW i \in Int, Abs(i) <= Pow2[m - 1]
  PROVE  OfMid(i, m) = Fl(i * One, m) /\ Fl(i * One, m) = i * One
<1> DEFINE c == 3 * Pow2[m - 1]
<1>0. c \in Int /\ Pow2[m] <= c + i /\ c + i <= 2 * Pow2[m] /\ Abs(i) <= 2 * Pow2[m]
  BY HalfSays, AbsSays
<1>1. FromBits(i + Bits(Mid(m), m), m) - Mid(m) = i * One
  <2>1. Bits(Mid(m), m) = (Grid + m) * Pow2[m] + c /\ Mid(m) = c * One /\ (Grid + m) * Pow2[m] \in Int
    BY MidTop
  <2> HIDE DEF c
  <2>2. i + ((Grid + m) * Pow2[m] + c) = ((Grid + m) * Pow2[m] + c) + i
    BY <1>0, <2>1
  <2>3. FromBits(((Grid + m) * Pow2[m] + c) + i, m) - c * One = i * One
    BY <1>0, OfBits, Constants DEF One
  <2> QED BY <2>1, <2>2, <2>3
<1>2. Fl(i * One, m) = i * One
  BY <1>0, FlHolds, Constants DEF One
<1> QED BY <1>1, <1>2 DEF OfMid

LEMMA OfTopSays ==
  ASSUME NEW m \in Nat, 2 <= m, Grid + m < Digits, NEW i \in Int, Abs(i) < Pow2[m]
  PROVE  OfTop(i, m) = Fl(i * One, m) /\ Fl(i * One, m) = i * One
<1>0. /\ Pow2[m] \in Nat /\ Abs(i) <= 2 * Pow2[m] /\ Abs(i) \in Nat
      /\ One \in Nat \ {0} /\ Grid \in Nat
  BY HalfSays, AbsSays, Constants, PowerOf DEF One
<1>1. ASSUME NEW n \in Nat, n < Pow2[m]
      PROVE  FromBits(Bits(Top(m), m) + n, m) - Top(m) = n * One
  <2>1. Pow2[m] <= Pow2[m] + n /\ Pow2[m] + n <= 2 * Pow2[m] /\ Pow2[m] \in Int /\ n \in Int
    BY <1>0, <1>1
  <2>2. FromBits(((Grid + m) * Pow2[m] + Pow2[m]) + n, m) - Pow2[m] * One = n * One
    BY <1>0, <2>1, OfBits DEF One
  <2> QED BY <2>2, MidTop
<1>2. Fl(i * One, m) = i * One
  BY <1>0, FlHolds DEF One
<1>3. CASE i < 0
  <2> DEFINE b == Bits(Top(m), m)
  <2>1. -i \in Nat /\ -i < Pow2[m]
    BY <1>0, <1>3, AbsSays
  <2>2. FromBits(b + (-i), m) - Top(m) = (-i) * One
    BY <1>1, <2>1
  <2>3. b + (-i) = b - i
    <3>1. b \in Int
      <4>1. b = (Grid + m) * Pow2[m] + Pow2[m] /\ (Grid + m) * Pow2[m] \in Int
        BY MidTop
      <4> QED BY <1>0, <4>1
    <3> HIDE DEF b
    <3> QED BY <3>1
  <2>4. (-i) * One = -(i * One) /\ i * One \in Int
    BY <1>0, Apart
  <2>5. Top(m) - FromBits(b - i, m) = i * One
    <3>1. Top(m) \in Int /\ FromBits(b - i, m) \in Int
      <4>1. Top(m) = Pow2[m] * One /\ Pow2[m] * One \in Int
        BY <1>0, MidTop, TwiceTimes
      <4>2. b - i = (Grid + m) * Pow2[m] + (Pow2[m] - i)
        <5>1. b = (Grid + m) * Pow2[m] + Pow2[m] /\ (Grid + m) * Pow2[m] \in Int
          BY MidTop
        <5> HIDE DEF b
        <5> QED BY <1>0, <5>1
      <4>3. FromBits((Grid + m) * Pow2[m] + (Pow2[m] - i), m) = (Pow2[m] - i) * Pow2[Grid]
        <5>1. Pow2[m] - i \in Nat /\ Pow2[m] <= Pow2[m] - i /\ Pow2[m] - i <= 2 * Pow2[m]
          BY <1>0, <1>3, <2>1
        <5> QED BY <1>0, <5>1, BitsUnit
      <4>4. (Pow2[m] - i) * Pow2[Grid] \in Int
        <5>1. Pow2[m] - i \in Int /\ Pow2[Grid] \in Int
          BY <1>0, PowerOf
        <5> QED BY <5>1, TwiceTimes
      <4> QED BY <4>1, <4>2, <4>3, <4>4
    <3> HIDE DEF b
    <3> QED BY <2>2, <2>3, <2>4, <3>1
  <2> QED BY <1>2, <1>3, <2>5 DEF OfTop
<1>4. CASE ~ (i < 0)
  <2>1. i \in Nat /\ i < Pow2[m]
    BY <1>0, <1>4, AbsSays
  <2>2. FromBits(Bits(Top(m), m) + i, m) - Top(m) = i * One
    BY <1>1, <2>1
  <2> QED BY <1>2, <1>4, <2>2 DEF OfTop
<1> QED BY <1>3, <1>4

\* The two parts of a word meet in the nearest number of the format.
LEMMA OfWordSays ==
  ASSUME NEW m \in Nat, 3 <= m, NEW l \in Nat, l <= m, m = DMant => l < m,
         NEW w \in Nat, m + 1 < w, w <= m + l, Grid + w < Digits, (Grid + l) + m < Digits, NEW i \in Samples(w)
  PROVE  OfWord(i, m, l) = Fl(i * One, m)
<1> DEFINE n == Abs(i)
           q == n \div Pow2[l]
           r == n % Pow2[l]
           c == Pow2[l] * Top(m)
           u == Fl(FromBits(Bits(c, m) + q, m) - c, m)
           a == IF n <= Pow2[m] - 1 THEN OfTop(n, m) ELSE Fl(LowPart(r, m) + u, m)
<1>0. /\ Grid \in Nat /\ Grid + l \in Nat /\ Pow2[l] \in Nat \ {0} /\ Pow2[m] \in Nat \ {0}
      /\ One \in Nat \ {0} /\ Pow2[Grid + l] \in Nat \ {0} /\ Grid + m < Digits
      /\ Pow2[l] <= Pow2[m] /\ Pow2[w - 1] \in Nat \ {0} /\ 2 <= m
  BY Constants, PowerOf, PowerMono DEF One
<1>1. i \in Int /\ n \in Nat /\ n <= Pow2[w - 1]
  <2>1. i \in Int /\ i < Pow2[w - 1] /\ -Pow2[w - 1] <= i
    BY <1>0 DEF Samples
  <2> QED BY <1>0, <2>1, AbsSays
<1> HIDE DEF n
<1>2. OfWord(i, m, l) = IF i < 0 THEN -a ELSE a
  BY DEF OfWord, n
<1>3. a = Fl(n * One, m)
  <2>1. CASE n <= Pow2[m] - 1
    <3>1. Abs(n) < Pow2[m] /\ n \in Int
      BY <1>0, <1>1, <2>1, AbsSays
    <3>2. OfTop(n, m) = Fl(n * One, m)
      BY <1>0, <3>1, OfTopSays
    <3> QED BY <2>1, <3>2
  <2>2. CASE ~ (n <= Pow2[m] - 1)
    <3>1. q \in Int /\ r \in 0 .. Pow2[l] - 1 /\ n = Pow2[l] * q + r
      <4>1. n \in Int
        BY <1>1
      <4> QED BY <1>0, <4>1, DivMod
    <3> HIDE DEF q, r
    <3>2. Pow2[l] * q = q * Pow2[l] /\ q * Pow2[l] \in Int
      <4>1. Pow2[l] \in Int
        BY <1>0
      <4> QED BY <3>1, <4>1, TwiceTimes
    <3>3. 0 <= q
      <4>1. q < 0 => q * Pow2[l] + Pow2[l] <= 0 * Pow2[l]
        BY <1>0, <3>1, Apart
      <4>2. 0 * Pow2[l] = 0
        BY <1>0
      <4> QED BY <1>0, <1>1, <3>1, <3>2, <4>1, <4>2
    <3>4. q <= Pow2[m]
      <4>1. Pow2[w - 1] <= Pow2[m + l] /\ Pow2[m + l] = Pow2[m] * Pow2[l]
        BY PowerMono, PowerSum
      <4>2. Pow2[m] * Pow2[l] \in Int /\ Pow2[m] \in Int
        BY <1>0, TwiceTimes
      <4>3. q * Pow2[l] <= Pow2[m] * Pow2[l]
        BY <1>0, <1>1, <3>1, <3>2, <4>1, <4>2
      <4> QED BY <1>0, <3>1, <4>2, <4>3, Apart
    <3>5. c = Pow2[m] * Pow2[Grid + l] /\ c \in Nat
      <4>1. Pow2[Grid + l] = One * Pow2[l]
        BY <1>0, PowerSum DEF One
      <4>2. c = Pow2[l] * (Pow2[m] * One)
        BY DEF Top
      <4>3. Pow2[l] \in Int /\ Pow2[m] \in Int /\ One \in Int
        BY <1>0
      <4>4. Pow2[l] * (Pow2[m] * One) = (Pow2[m] * One) * Pow2[l]
        BY <4>3, TwiceTimes
      <4>5. (Pow2[m] * One) * Pow2[l] = Pow2[m] * (One * Pow2[l])
        BY <4>3, Distributes
      <4>6. Pow2[m] * Pow2[Grid + l] \in Nat
        BY <1>0, TimesGrows
      <4> QED BY <4>1, <4>2, <4>4, <4>5, <4>6
    <3>6. Bits(c, m) = ((Grid + l) + m) * Pow2[m] + Pow2[m]
      <4>1. c \in Int /\ Abs(c) = Pow2[m] * Pow2[Grid + l]
        BY <3>5, AbsSays
      <4>2. Pow2[m] \in Nat /\ Pow2[m] <= Pow2[m] /\ Pow2[m] <= 2 * Pow2[m]
        BY <1>0
      <4> HIDE DEF c
      <4> QED BY <1>0, <4>1, <4>2, BitsUnit
    <3>7. FromBits(Bits(c, m) + q, m) - c = q * Pow2[Grid + l]
      <4>1. Pow2[m] <= Pow2[m] + q /\ Pow2[m] + q <= 2 * Pow2[m] /\ Pow2[m] \in Int
        BY <1>0, <3>1, <3>3, <3>4
      <4>2. FromBits((((Grid + l) + m) * Pow2[m] + Pow2[m]) + q, m) - Pow2[m] * Pow2[Grid + l]
              = q * Pow2[Grid + l]
        BY <1>0, <3>1, <4>1, OfBits
      <4> HIDE DEF c
      <4> QED BY <3>5, <3>6, <4>2
    <3>8. u = q * Pow2[Grid + l]
      <4>1. Abs(q) <= 2 * Pow2[m]
        BY <1>0, <3>1, <3>3, <3>4, AbsSays
      <4>2. Fl(q * Pow2[Grid + l], m) = q * Pow2[Grid + l]
        BY <1>0, <3>1, <4>1, FlHolds
      <4> QED BY <3>7, <4>2
    <3>9. LowPart(r, m) = r * One
      <4>1. r \in Int /\ Abs(r) < Pow2[l] /\ Abs(r) \in Nat
        BY <1>0, <3>1, AbsSays
      <4>2. CASE m = DMant
        <5>1. m - 1 \in Nat /\ l <= m - 1
          BY <4>2
        <5>2. Pow2[l] <= Pow2[m - 1] /\ Pow2[m - 1] \in Nat
          BY <5>1, PowerMono, PowerOf
        <5>3. Abs(r) <= Pow2[m - 1]
          BY <1>0, <4>1, <5>2
        <5> QED BY <1>0, <4>1, <4>2, <5>3, OfMidSays DEF LowPart
      <4>3. CASE m # DMant
        <5>1. Abs(r) < Pow2[m]
          BY <1>0, <4>1
        <5> QED BY <1>0, <4>1, <4>3, <5>1, OfTopSays DEF LowPart
      <4> QED BY <4>2, <4>3
    <3> HIDE DEF u
    <3>10. r * One + q * Pow2[Grid + l] = n * One
      <4>1. Pow2[Grid + l] = Pow2[l] * One
        <5>1. Pow2[Grid + l] = One * Pow2[l]
          BY <1>0, PowerSum DEF One
        <5> QED BY <1>0, <5>1, TwiceTimes
      <4>2. q * (Pow2[l] * One) = (q * Pow2[l]) * One
        <5>1. Pow2[l] \in Int /\ One \in Int
          BY <1>0
        <5> QED BY <3>1, <5>1, Distributes
      <4>3. r * One + (q * Pow2[l]) * One = (r + q * Pow2[l]) * One
        <5>1. r \in Int
          BY <1>0, <3>1
        <5> QED BY <1>0, <3>2, <5>1, Apart
      <4>4. r + q * Pow2[l] = n
        BY <1>0, <3>1, <3>2
      <4> QED BY <4>1, <4>2, <4>3, <4>4
    <3> QED BY <2>2, <3>8, <3>9, <3>10
  <2> QED BY <2>1, <2>2
<1> HIDE DEF a
<1>4. CASE i < 0
  <2>1. n = -i /\ (-n) * One = -(n * One) /\ -n = i /\ n \in Int
    BY <1>0, <1>1, <1>4, AbsSays, Apart DEF n
  <2>2. n * One \in Int /\ Abs(n * One) <= Pow2[Digits]
    <3>1. n * One \in Nat /\ Abs(n * One) = n * One
      BY <1>0, <1>1, TimesGrows, AbsSays
    <3>2. n * One <= Pow2[w - 1] * One
      <4>1. Pow2[w - 1] \in Int
        BY <1>0
      <4> QED BY <1>0, <1>1, <2>1, <4>1, Apart
    <3>3. Pow2[w - 1] * One = Pow2[(w - 1) + Grid]
      <4>1. w - 1 \in Nat
        OBVIOUS
      <4> QED BY <1>0, <4>1, PowerSum DEF One
    <3>4. Pow2[(w - 1) + Grid] <= Pow2[Digits] /\ Pow2[(w - 1) + Grid] \in Nat /\ Pow2[Digits] \in Nat
      <4>1. (w - 1) + Grid \in Nat /\ Digits \in Nat /\ (w - 1) + Grid <= Digits
        BY <1>0, Constants
      <4> QED BY <4>1, PowerMono, PowerOf
    <3> QED BY <3>1, <3>2, <3>3, <3>4
  <2>3. Fl(-(n * One), m) = -Fl(n * One, m)
    BY <2>2, FlNegative
  <2> QED BY <1>2, <1>3, <1>4, <2>1, <2>3
<1>5. CASE ~ (i < 0)
  <2>1. n = i
    BY <1>1, <1>5, AbsSays DEF n
  <2> QED BY <1>2, <1>3, <1>5, <2>1
<1> QED BY <1>4, <1>5

\* The integers of 64 bits, on the grid.
LEMMA WordRange ==
  ASSUME NEW i \in Samples(DWord)
  PROVE  /\ i * One \in Int /\ Abs(i * One) <= Pow2[(DWord - 1) + Grid]
         /\ (DWord - 1) + Grid \in Nat /\ (DWord - 1) + Grid < Digits
<1>1. DWord - 1 \in Nat /\ Grid \in Nat /\ (DWord - 1) + Grid < Digits
  BY Constants, PcmAssumption
<1>2. Pow2[DWord - 1] \in Nat \ {0} /\ One \in Nat \ {0}
  BY <1>1, PowerOf DEF One
<1>3. i \in Int /\ Abs(i) <= Pow2[DWord - 1] /\ Abs(i) \in Int
  <2>1. i \in Int /\ i < Pow2[DWord - 1] /\ -Pow2[DWord - 1] <= i
    BY <1>2 DEF Samples
  <2> QED BY <1>2, <2>1, AbsSays
<1>4. Abs(i * One) = Abs(i) * One /\ i * One \in Int
  BY <1>2, <1>3, AbsTimes, Apart
<1>5. Abs(i) * One <= Pow2[DWord - 1] * One
  BY <1>2, <1>3, Apart
<1>6. Pow2[(DWord - 1) + Grid] = Pow2[DWord - 1] * One
  BY <1>1, PowerSum DEF One
<1> QED BY <1>1, <1>4, <1>5, <1>6

LEMMA RoundsNearby ==
  ASSUME NEW x \in Int, NEW g \in Nat \ {0}, NEW t \in Int,
         2 * (x - t * g) < g, 2 * (t * g - x) < g
  PROVE  Rounds(x, g, t)
<1>1. t * g \in Int
  BY Apart
<1> QED BY <1>1 DEF Rounds

\* Rounded to s and then to a coarser step, a number is rounded to that step, unless what it
\* was rounded to first is half way.
LEMMA CoarseSays ==
  ASSUME NEW v \in Int, NEW j \in Int, NEW s \in Nat \ {0}, NEW c \in Nat \ {0},
         Rounds(v, s, j), 2 * (j % (2 * c)) # 2 * c
  PROVE  Nearest(j * s, (2 * c) * s) = Nearest(v, (2 * c) * s)
<1> DEFINE K == 2 * c
           q == j \div K
           r == j % K
           g == K * s
           h == c * s
<1>0. K \in Nat \ {0} /\ q \in Int /\ r \in 0 .. K - 1 /\ j = K * q + r
  <2>1. K \in Nat \ {0}
    OBVIOUS
  <2> HIDE DEF K
  <2> QED BY <2>1, DivMod
<1>1. g \in Nat \ {0} /\ h \in Nat \ {0} /\ g = 2 * h /\ s <= h
  <2>1. h \in Nat \ {0}
    BY TimesGrows
  <2>2. (2 * c) * s = 2 * (c * s)
    BY Distributes
  <2>3. s <= h
    BY TimesGrows
  <2> QED BY <2>1, <2>2, <2>3
<1>2. r # c /\ K = 2 * c
  OBVIOUS
<1> HIDE DEF q, r
<1>3. j * s = q * g + r * s /\ q * g \in Int /\ r * s \in Int /\ j * s \in Int
  <2>1. K * q = q * K /\ q * K \in Int /\ K \in Int /\ s \in Int /\ r \in Int
    BY <1>0, TwiceTimes
  <2> HIDE DEF K
  <2>2. (q * K + r) * s = (q * K) * s + r * s
    BY <2>1, Distributes
  <2>3. (q * K) * s = q * (K * s)
    BY <1>0, <2>1, Distributes
  <2>4. q * (K * s) \in Int /\ r * s \in Int /\ j * s \in Int
    BY <1>0, <1>1, <2>1, Apart
  <2> QED BY <1>0, <2>1, <2>2, <2>3, <2>4
<1>4. 2 * (v - j * s) <= s /\ 2 * (j * s - v) <= s
  BY DEF Rounds
<1>5. ASSUME NEW t \in Int, 2 * (v - t * g) < g, 2 * (t * g - v) < g,
             2 * (j * s - t * g) < g, 2 * (t * g - j * s) < g
      PROVE  Nearest(j * s, g) = Nearest(v, g)
  <2> HIDE DEF g
  <2>1. Nearest(j * s, g) = t * g
    BY <1>1, <1>3, <1>5, RoundsNearby, NearestIs
  <2>2. Nearest(v, g) = t * g
    BY <1>1, <1>5, RoundsNearby, NearestIs
  <2> QED BY <2>1, <2>2
<1>6. CASE r < c
  <2>1. r * s + s <= h /\ 0 <= r * s
    <3>1. r \in Int /\ 0 <= r /\ 0 * s = 0
      BY <1>0
    <3> QED BY <1>6, <3>1, Apart
  <2> HIDE DEF g, h
  <2>2. /\ 2 * (v - q * g) < g /\ 2 * (q * g - v) < g
        /\ 2 * (j * s - q * g) < g /\ 2 * (q * g - j * s) < g
    BY <1>1, <1>3, <1>4, <2>1
  <2>3. q \in Int
    BY <1>0
  <2> QED BY <1>5, <2>2, <2>3 DEF g
<1>7. CASE r > c
  <2>1. h + s <= r * s /\ r * s + s <= g
    <3>1. r \in Int /\ r < K /\ K \in Int
      BY <1>0
    <3> HIDE DEF K
    <3> QED BY <1>7, <3>1, Apart
  <2>2. q + 1 \in Int /\ (q + 1) * g = q * g + g
    BY <1>0, <1>1, Apart
  <2> HIDE DEF g, h
  <2>3. /\ 2 * (v - (q + 1) * g) < g /\ 2 * ((q + 1) * g - v) < g
        /\ 2 * (j * s - (q + 1) * g) < g /\ 2 * ((q + 1) * g - j * s) < g
    BY <1>1, <1>3, <1>4, <2>1, <2>2
  <2> QED BY <1>5, <2>2, <2>3 DEF g
<1>8. r < c \/ r > c
  BY <1>0, <1>2
<1> QED BY <1>6, <1>7, <1>8

\* Rounding to double and then to float.
LEMMA TwiceSays ==
  ASSUME NEW t \in Nat, t < Digits, NEW v \in Int, Abs(v) <= Pow2[t]
  PROVE  \/ Fl(Fl(v, DMant), FMant) = Fl(v, FMant)
         \/ Fl(v, DMant) # v /\ Midway(Fl(v, DMant), FMant)
<1> DEFINE d == Fl(v, DMant)
           e == Exponent(v)
           n == e - DMant
           s == Pow2[n]
           p == Pow2[DMant]
<1>0. FMant \in Nat /\ DMant \in Nat /\ FMant + 1 < DMant /\ Digits \in Nat
      /\ Pow2[t] <= Pow2[Digits] /\ Pow2[t] \in Nat /\ Pow2[Digits] \in Nat /\ Abs(v) \in Nat
  BY Constants, PcmAssumption, PowerMono, PowerOf, AbsSays
<1>1. CASE d = v
  BY <1>1
<1>2. CASE d # v
  <2>1. v # 0 /\ ~ (e <= DMant)
    BY <1>2 DEF Fl
  <2>2. e \in 0 .. Digits /\ Pow2[e] <= Abs(v) /\ Abs(v) < 2 * Pow2[e]
    BY <1>0, <2>1, ExponentSays
  <2>3. e <= t
    <3>1. e \in Nat /\ Pow2[e] \in Nat
      BY <2>2, PowerOf
    <3>2. t < e => 2 * Pow2[t] <= Pow2[e] /\ Pow2[t] \in Nat \ {0}
      BY <3>1, PowerLess, PowerOf
    <3> QED BY <1>0, <2>2, <3>1, <3>2
  <2>4. e \in Nat /\ e < Digits /\ n \in Nat /\ DMant <= e /\ FMant <= e
    BY <1>0, <2>1, <2>2, <2>3
  <2>5. d = Nearest(v, s)
    BY <2>1 DEF Fl
  <2> HIDE DEF d, e
  <2>6. s \in Nat \ {0} /\ p \in Nat \ {0} /\ Pow2[e] = p * s /\ Pow2[e] \in Nat \ {0}
    BY <1>0, <2>4, PowerMultiple, PowerOf
  <2>7. PICK j \in Int : Rounds(v, s, j) /\ d = j * s
    <3> HIDE DEF s
    <3> QED BY <2>5, <2>6, NearestRounds
  <2>8. p <= Abs(j) /\ Abs(j) <= 2 * p
    <3>1. (2 * p) * s = 2 * (p * s) /\ (-p) * s = -(p * s) /\ (-(2 * p)) * s = -((2 * p) * s)
          /\ p * s \in Int
      <4>1. p \in Int /\ s \in Int /\ 2 * p \in Int
        BY <2>6
      <4> HIDE DEF p, s
      <4>2. (2 * p) * s = 2 * (p * s)
        BY <4>1, Distributes
      <4> QED BY <2>6, <4>1, <4>2, Apart
    <3>2. -p \in Int /\ -(2 * p) \in Int /\ 2 * p \in Int /\ p \in Int
      BY <2>6
    <3> HIDE DEF p, s
    <3>3. CASE v >= 0
      <4>1. v >= p * s /\ v <= (2 * p) * s
        BY <2>2, <2>6, <3>1, <3>3, AbsSays
      <4>2. j >= p /\ j <= 2 * p
        BY <2>6, <2>7, <3>2, <4>1, RoundsWithin
      <4> QED BY <2>6, <4>2, AbsSays
    <3>4. CASE v < 0
      <4>1. v <= (-p) * s /\ v >= (-(2 * p)) * s
        BY <2>2, <2>6, <3>1, <3>4, AbsSays
      <4>2. j <= -p /\ j >= -(2 * p)
        BY <2>6, <2>7, <3>2, <4>1, RoundsWithin
      <4> QED BY <2>6, <4>2, AbsSays
    <3> QED BY <3>3, <3>4
  <2>9. d \in Int /\ Abs(d) = Abs(j) * s /\ Pow2[e] <= Abs(d) /\ Abs(d) <= 2 * Pow2[e]
        /\ (Abs(j) < 2 * p => Abs(d) < 2 * Pow2[e])
    <3> HIDE DEF p, s
    <3>1. d \in Int /\ Abs(d) = Abs(j) * s
      BY <2>6, <2>7, Apart, AbsTimes
    <3>2. Abs(j) \in Int /\ p \in Int /\ 2 * p \in Int
      BY <2>6, AbsSays
    <3>3. (2 * p) * s = 2 * (p * s)
      <4>1. s \in Int /\ 2 \in Int
        BY <2>6
      <4> QED BY <3>2, <4>1, Distributes
    <3>4. p * s <= Abs(j) * s /\ Abs(j) * s <= (2 * p) * s
      BY <2>6, <2>8, <3>2, Apart
    <3>5. Abs(j) < 2 * p => Abs(j) * s + s <= (2 * p) * s
      BY <2>6, <3>2, Apart
    <3>6. Abs(j) * s \in Int /\ p * s \in Int
      BY <2>6, <3>2, Apart
    <3> QED BY <2>6, <3>1, <3>3, <3>4, <3>5, <3>6
  <2> DEFINE c == Pow2[(DMant - FMant) - 1]
             K == 2 * c
             g == Pow2[e - FMant]
  <2>10. c \in Nat \ {0} /\ K = Pow2[DMant - FMant] /\ K \in Nat \ {0}
    <3>1. (DMant - FMant) - 1 \in Nat /\ ((DMant - FMant) - 1) + 1 = DMant - FMant
      BY <1>0
    <3> QED BY <3>1, PowerOf
  <2>11. g = K * s /\ g \in Nat \ {0}
    <3>1. e - FMant \in Nat /\ DMant - FMant \in Nat /\ (DMant - FMant) + n = e - FMant
      BY <1>0, <2>4
    <3>2. Pow2[(DMant - FMant) + n] = Pow2[DMant - FMant] * Pow2[n]
      BY <2>4, <3>1, PowerSum
    <3>3. g \in Nat \ {0}
      BY <3>1, PowerOf
    <3> QED BY <2>10, <3>1, <3>2, <3>3
  <2>12. Fl(d, FMant) = Nearest(d, g) /\ Fl(v, FMant) = Nearest(v, g)
    BY <1>0, <2>2, <2>4, <2>6, <2>9, FlNear
  <2>13. CASE 2 * (j % K) # K
    <3>1. Nearest(j * s, (2 * c) * s) = Nearest(v, (2 * c) * s)
      <4>1. 2 * (j % (2 * c)) # 2 * c
        BY <2>13
      <4> HIDE DEF c, s
      <4> QED BY <2>6, <2>7, <2>10, <4>1, CoarseSays
    <3> QED BY <2>7, <2>11, <2>12, <3>1 DEF d
  <2>14. CASE 2 * (j % K) = K
    <3> DEFINE q == j \div K
               r == j % K
    <3>1. q \in Int /\ r \in 0 .. K - 1 /\ j = K * q + r
      <4> HIDE DEF K
      <4> QED BY <2>10, DivMod
    <3>2. 2 * r = K
      BY <2>14
    <3> HIDE DEF q, r, K, g, s, p, c
    <3>3. Abs(j) # 2 * p
      <4>1. p = Pow2[FMant] * K /\ Pow2[FMant] \in Int
        <5>1. FMant \in Nat /\ DMant \in Nat /\ FMant <= DMant
          BY <1>0
        <5>2. Pow2[DMant] = Pow2[FMant] * Pow2[DMant - FMant]
          BY <5>1, PowerMultiple
        <5> QED BY <2>10, <5>1, <5>2, PowerOf DEF p
      <4> DEFINE a == 2 * Pow2[FMant]
      <4>2. a \in Int /\ -a \in Int /\ 2 * p = a * K /\ -(a * K) = (-a) * K /\ a * K \in Int
        <5>1. K \in Int /\ 2 \in Int
          BY <2>10
        <5>2. (2 * Pow2[FMant]) * K = 2 * (Pow2[FMant] * K)
          BY <4>1, <5>1, Distributes
        <5> QED BY <2>10, <4>1, <5>2, Apart
      <4> HIDE DEF a
      <4>3. ASSUME NEW b \in Int, j = b * K PROVE FALSE
        <5>1. b * K + 0 = b * K
          BY <2>10, Apart
        <5>2. (b * K + 0) % K = 0
          BY <2>10, DivIs
        <5>3. r = 0
          BY <4>3, <5>1, <5>2 DEF r
        <5> QED BY <2>10, <3>2, <5>3
      <4>4. j = Abs(j) \/ j = -Abs(j)
        BY AbsSays
      <4> QED BY <4>2, <4>3, <4>4
    <3>4. Exponent(d) = e
      <4>1. Abs(j) < 2 * p
        BY <2>6, <2>8, <3>3, AbsSays
      <4> QED BY <2>2, <2>9, <4>1, ExponentIs
    <3>5. d = q * g + r * s /\ r * s \in Int /\ 0 <= r * s /\ r * s < g /\ 2 * (r * s) = g
      <4>1. K * q = q * K /\ q * K \in Int /\ K \in Int /\ s \in Int /\ r \in Int
        BY <2>6, <2>10, <3>1, TwiceTimes
      <4>2. (q * K + r) * s = (q * K) * s + r * s /\ (q * K) * s = q * (K * s) /\ r * s \in Int
        BY <3>1, <4>1, Distributes
      <4>3. 2 * (r * s) = (2 * r) * s
        BY <4>1, Distributes
      <4>4. 0 * s <= r * s /\ 0 * s = 0
        BY <2>6, <3>1, <4>1, Apart
      <4> QED BY <2>7, <2>11, <3>1, <3>2, <4>1, <4>2, <4>3, <4>4
    <3>6. d % g = r * s
      BY <2>11, <3>1, <3>5, DivIs
    <3>7. d # 0
      BY <2>6, <2>9, AbsSays
    <3>8. Exponent(d) > FMant
      BY <1>0, <2>4, <3>4
    <3>9. Midway(d, FMant)
      BY <3>4, <3>5, <3>6, <3>7, <3>8 DEF Midway, g
    <3> QED BY <1>2, <3>9 DEF d
  <2> QED BY <2>13, <2>14
<1> QED BY <1>1, <1>2

(* Every conversion from an integer of typeconvert.h (lines 132-250) gives   *)
(* the nearest number of the format, rounded once: the constants leave no    *)
(* error, and where a word is split only the sum of its parts is rounded.    *)
(* The one from int64_t to float rounds twice, and is off only if the double *)
(* on the way is half way between two floats.                                *)
THEOREM NearestOfIntegerHolds == Spec => []NearestOfInteger
<1>1. Init => NearestOfInteger
  BY DEF Init, NearestOfInteger
<1>2. NearestOfInteger /\ [Next]_vars => NearestOfInteger'
  <2>1. CASE Next
    <3>1. SUFFICES /\ op' = "ofInteger" => res' = Fl(arg'[1] * One, arg'[2])
                   /\ op' = "ofLong" =>
                        /\ res' = Fl(Fl(arg'[1] * One, DMant), FMant)
                        /\ \/ res' = Fl(arg'[1] * One, FMant)
                           \/ /\ Fl(arg'[1] * One, DMant) # arg'[1] * One
                              /\ Midway(Fl(arg'[1] * One, DMant), FMant)
      BY DEF NearestOfInteger
    <3>2. CASE CallOfMid /\ op' = "ofInteger"
      <4>0. PICK f \in Formats : \E i \in -Pow2[f[1] - 1] .. Pow2[f[1] - 1] :
              Called("ofInteger", <<i, f[1]>>, OfMid(i, f[1]))
        BY <3>2 DEF CallOfMid
      <4>1. PICK i \in -Pow2[f[1] - 1] .. Pow2[f[1] - 1] :
              Called("ofInteger", <<i, f[1]>>, OfMid(i, f[1]))
        BY <4>0
      <4>2. arg'[1] = i /\ arg'[2] = f[1] /\ res' = OfMid(i, f[1])
        BY <4>1 DEF Called
      <4>3. f[1] \in Nat /\ 2 <= f[1] /\ Grid + f[1] < Digits
        BY FormatSays
      <4>4. i \in Int /\ Abs(i) <= Pow2[f[1] - 1]
        BY <4>3, HalfSays, AbsSays
      <4>5. OfMid(i, f[1]) = Fl(i * One, f[1])
        BY <4>3, <4>4, OfMidSays
      <4> QED BY <3>2, <4>2, <4>5
    <3>3. CASE CallOfTop /\ op' = "ofInteger"
      <4>0. PICK f \in Formats : \E i \in -(Pow2[f[1]] - 1) .. Pow2[f[1]] - 1 :
              Called("ofInteger", <<i, f[1]>>, OfTop(i, f[1]))
        BY <3>3 DEF CallOfTop
      <4>1. PICK i \in -(Pow2[f[1]] - 1) .. Pow2[f[1]] - 1 :
              Called("ofInteger", <<i, f[1]>>, OfTop(i, f[1]))
        BY <4>0
      <4>2. arg'[1] = i /\ arg'[2] = f[1] /\ res' = OfTop(i, f[1])
        BY <4>1 DEF Called
      <4>3. f[1] \in Nat /\ 2 <= f[1] /\ Grid + f[1] < Digits
        BY FormatSays
      <4>4. i \in Int /\ Abs(i) < Pow2[f[1]]
        BY <4>3, HalfSays, AbsSays
      <4>5. OfTop(i, f[1]) = Fl(i * One, f[1])
        BY <4>3, <4>4, OfTopSays
      <4> QED BY <3>3, <4>2, <4>5
    <3>4. CASE CallOfWord /\ op' = "ofInteger"
      <4>0. PICK f \in Formats : \E i \in Samples(f[3]) :
              Called("ofInteger", <<i, f[1]>>, OfWord(i, f[1], f[4]))
        BY <3>4 DEF CallOfWord
      <4>1. PICK i \in Samples(f[3]) : Called("ofInteger", <<i, f[1]>>, OfWord(i, f[1], f[4]))
        BY <4>0
      <4>2. arg'[1] = i /\ arg'[2] = f[1] /\ res' = OfWord(i, f[1], f[4])
        BY <4>1 DEF Called
      <4>3. OfWord(i, f[1], f[4]) = Fl(i * One, f[1])
        BY FormatSays, OfWordSays
      <4> QED BY <3>4, <4>2, <4>3
    <3>5. CASE CallOfLong /\ op' = "ofLong"
      <4>1. PICK i \in Samples(DWord) : Called("ofLong", <<i, FMant>>, OfLong(i))
        BY <3>5 DEF CallOfLong
      <4>2. arg'[1] = i /\ res' = OfLong(i)
        BY <4>1 DEF Called
      <4>3. OfWord(i, DMant, Half) = Fl(i * One, DMant)
        <5> DEFINE f == <<DMant, DShift, DWord, Half>>
        <5>1. f \in Formats /\ f[1] = DMant /\ f[3] = DWord /\ f[4] = Half
          BY DEF Formats
        <5> HIDE DEF f
        <5> QED BY <5>1, FormatSays, OfWordSays
      <4>4. i * One \in Int /\ Abs(i * One) <= Pow2[(DWord - 1) + Grid]
            /\ (DWord - 1) + Grid \in Nat /\ (DWord - 1) + Grid < Digits
        BY WordRange
      <4> QED BY <3>5, <4>2, <4>3, <4>4, TwiceSays DEF OfLong
    <3> QED BY <2>1, <3>1, <3>2, <3>3, <3>4, <3>5, Callers
  <2>2. CASE UNCHANGED vars
    BY <2>2 DEF vars, NearestOfInteger
  <2> QED BY <2>1, <2>2
<1> QED BY <1>1, <1>2, PTL DEF Spec
-----------------------------------------------------------------------------
(* Integers from the bits.                                                   *)

\* What the word has in common with a multiple of 2^w next to it.
LEMMA SignedIs ==
  ASSUME NEW w \in Nat, 1 <= w, NEW t \in Int, -Pow2[w - 1] <= t, t < Pow2[w - 1],
         NEW c \in Int
  PROVE  Signed(c * Pow2[w] + t, w) = t
<1>0. w - 1 \in Nat /\ Pow2[w] = 2 * Pow2[w - 1] /\ Pow2[w - 1] \in Nat \ {0}
      /\ Pow2[w] \in Nat \ {0}
  <2>1. w - 1 \in Nat /\ (w - 1) + 1 = w
    OBVIOUS
  <2> QED BY <2>1, PowerOf
<1>1. c * Pow2[w] \in Int
  BY <1>0, Apart
<1>2. CASE 0 <= t
  <2>1. (c * Pow2[w] + t) % Pow2[w] = t
    <3>1. t < Pow2[w]
      BY <1>0
    <3> QED BY <1>0, <1>2, <3>1, DivIs
  <2> QED BY <2>1 DEF Signed
<1>3. CASE t < 0
  <2>1. c * Pow2[w] + t = (c - 1) * Pow2[w] + (t + Pow2[w])
    <3>1. (c - 1) * Pow2[w] = c * Pow2[w] - Pow2[w]
      <4>1. ((c - 1) + 1) * Pow2[w] = (c - 1) * Pow2[w] + Pow2[w] /\ (c - 1) * Pow2[w] \in Int
        <5>1. c - 1 \in Int /\ Pow2[w] \in Int
          BY <1>0
        <5> QED BY <5>1, TimesNext
      <4>2. (c - 1) + 1 = c
        OBVIOUS
      <4> QED BY <1>0, <1>1, <4>1, <4>2
    <3> QED BY <1>0, <1>1, <3>1
  <2>2. ((c - 1) * Pow2[w] + (t + Pow2[w])) % Pow2[w] = t + Pow2[w]
    <3>1. c - 1 \in Int /\ t + Pow2[w] \in Int /\ 0 <= t + Pow2[w] /\ t + Pow2[w] < Pow2[w]
      BY <1>0, <1>3
    <3> QED BY <1>0, <3>1, DivIs
  <2>3. ~ (t + Pow2[w] < Pow2[w - 1]) /\ (t + Pow2[w]) - Pow2[w] = t
    BY <1>0
  <2>4. (c * Pow2[w] + t) % Pow2[w] = t + Pow2[w]
    BY <2>1, <2>2
  <2> QED BY <2>3, <2>4 DEF Signed
<1> QED BY <1>2, <1>3

LEMMA SignedShift ==
  ASSUME NEW w \in Nat, NEW i \in Int, NEW c \in Int
  PROVE  Signed(c * Pow2[w] + i, w) = Signed(i, w)
<1> DEFINE q == i \div Pow2[w]
           r == i % Pow2[w]
<1>0. Pow2[w] \in Nat \ {0}
  BY PowerOf
<1>1. q \in Int /\ r \in 0 .. Pow2[w] - 1 /\ i = Pow2[w] * q + r
  BY <1>0, DivMod
<1> HIDE DEF q
<1>2. c * Pow2[w] + i = (c + q) * Pow2[w] + r
  <2>1. Pow2[w] * q = q * Pow2[w] /\ c * Pow2[w] + q * Pow2[w] = (c + q) * Pow2[w]
        /\ c * Pow2[w] \in Int /\ q * Pow2[w] \in Int
    <3>1. Pow2[w] \in Int
      BY <1>0
    <3> QED BY <1>1, <3>1, TwiceTimes, Distributes
  <2> HIDE DEF r
  <2> QED BY <1>0, <1>1, <2>1
<1>3. ((c + q) * Pow2[w] + r) % Pow2[w] = r
  <2>1. c + q \in Int /\ r \in Int /\ 0 <= r /\ r < Pow2[w]
    BY <1>0, <1>1
  <2> HIDE DEF r
  <2> QED BY <1>0, <2>1, DivIs
<1>4. (c * Pow2[w] + i) % Pow2[w] = i % Pow2[w]
  BY <1>2, <1>3
<1> QED BY <1>4 DEF Signed

\* The number of steps v is off, and Nearest of it, as the property puts it.
LEMMA RoundedSays ==
  ASSUME NEW v \in Int, NEW j \in Int, Rounds(v, One, j)
  PROVE  Nearest(v, One) \div One = j
<1>1. One \in Nat \ {0}
  BY PowerOf, Constants DEF One
<1>2. Nearest(v, One) = j * One /\ (j * One) \div One = j
  BY <1>1, NearestIs, MultipleDiv
<1> QED BY <1>2

\* A number between -2^(m - 1) and 2^(m - 1), the half above included, added to Mid.
LEMMA MidSum ==
  ASSUME NEW m \in Nat, 3 <= m, Grid + m + 1 < Digits,
         NEW v \in Int, -(Pow2[m - 1] * One) <= v, 2 * v <= (Pow2[m] + 1) * One,
         NEW j \in Int, Rounds(v, One, j)
  PROVE  /\ -Pow2[m - 1] <= j /\ j <= Pow2[m - 1]
         /\ Bits(Fl(v + Mid(m), m), m) = ((Grid + m) * Pow2[m] + 3 * Pow2[m - 1]) + j
<1> DEFINE h == Pow2[m - 1]
<1>0. /\ h \in Nat \ {0} /\ Pow2[m] = 2 * h /\ h % 2 = 0 /\ 2 <= h /\ (3 * h) % 2 = 0
      /\ One \in Nat \ {0} /\ One = Pow2[Grid] /\ Grid \in Nat /\ Pow2[m] \in Nat \ {0}
  BY HalfSays, PowerOf, Constants DEF One
<1> HIDE DEF h
<1> DEFINE p == h * One
<1>1. /\ p \in Nat /\ -h \in Int /\ (-h) * One = -p /\ (Pow2[m] + 1) * One = 2 * p + One
      /\ (3 * h) * One = 3 * p /\ Pow2[m] * One = 2 * p /\ (h + 1) * One = p + One
  <2>1. h \in Int /\ One \in Int
    BY <1>0
  <2>2. p \in Nat /\ (-h) * One = -p
    BY <1>0, TimesGrows, Apart
  <2>3. (2 * h) * One = 2 * p /\ (3 * h) * One = 3 * p
    BY <2>1, Distributes
  <2>4. (2 * h + 1) * One = (2 * h) * One + One /\ (h + 1) * One = p + One
    BY <2>1, TimesNext
  <2> HIDE DEF p
  <2> QED BY <1>0, <2>1, <2>2, <2>3, <2>4
<1>2. -p <= v /\ 2 * v <= 2 * p + One
  BY <1>1 DEF h
<1> HIDE DEF p
<1>3. -h <= j
  <2>1. -h \in Int /\ v >= (-h) * One
    BY <1>1, <1>2
  <2>2. j >= -h
    BY <1>0, <2>1, RoundsWithin
  <2> QED BY <1>0, <2>2
<1>4. j <= h
  <2>1. j * One \in Int /\ 2 * (j * One - v) <= One /\ (2 * (j * One - v) = One => j % 2 = 0)
    BY <1>0, Apart DEF Rounds
  <2>2. h + 1 < j => (h + 1) * One + One <= j * One
    <3>1. h + 1 \in Int
      BY <1>0
    <3> QED BY <1>0, <3>1, Apart
  <2>3. ~ (h + 1 < j)
    BY <1>0, <1>1, <1>2, <2>1, <2>2
  <2>4. j # h + 1
    <3>1. SUFFICES ASSUME j = h + 1 PROVE FALSE
      OBVIOUS
    <3>2. j * One = p + One
      BY <1>1, <3>1
    <3>3. 2 * (j * One - v) = One
      <4>1. \A a, b, c \in Int : 2 * v <= 2 * b + c /\ a = b + c /\ 2 * (a - v) <= c
                                  => 2 * (a - v) = c
        OBVIOUS
      <4>2. p \in Int /\ One \in Int
        BY <1>0, <1>1
      <4> QED BY <1>2, <2>1, <3>2, <4>1, <4>2
    <3>4. j % 2 = 0
      BY <2>1, <3>3
    <3> QED BY <1>0, <3>1, <3>4
  <2> QED BY <1>0, <2>3, <2>4
<1>5. Mid(m) = 3 * p
  BY <1>1 DEF Mid, h
<1>6. Fl(v + Mid(m), m) = (j + 3 * h) * One
  <2>1. CASE v <= p
    <3>1. v + (3 * h) * One = v + 3 * p /\ v + 3 * p \in Nat /\ Abs(v + 3 * p) = v + 3 * p
      BY <1>1, <1>2, AbsSays
    <3>2. /\ Pow2[m] * Pow2[Grid] <= Abs(v + (3 * h) * Pow2[Grid])
          /\ Abs(v + (3 * h) * Pow2[Grid]) <= 2 * (Pow2[m] * Pow2[Grid])
      BY <1>0, <1>1, <1>2, <2>1, <3>1
    <3>3. 3 * h \in Int /\ Grid + m < Digits /\ Rounds(v, Pow2[Grid], j)
      BY <1>0, Constants
    <3>4. Fl(v + (3 * h) * Pow2[Grid], m) = (j + 3 * h) * Pow2[Grid]
      <4>1. Grid \in Nat /\ (3 * h) % 2 = 0
        BY <1>0
      <4> QED BY <3>2, <3>3, <4>1, FlUnit
    <3> QED BY <1>0, <1>1, <1>5, <3>4
  <2>2. CASE p < v
    <3> DEFINE x == v + 3 * p
               e == (Grid + m) + 1
    <3>1. x \in Nat /\ Abs(x) = x /\ 4 * p < x /\ 2 * x <= 8 * p + One /\ One <= p
      <4>1. One <= p
        BY <1>0, TimesGrows DEF p
      <4>2. x \in Nat
        BY <1>1, <2>2
      <4> QED BY <1>0, <1>1, <1>2, <2>2, <4>1, <4>2, AbsSays
    <3>2. Pow2[e] = 4 * p /\ e \in Nat /\ m <= e /\ e < Digits /\ e - m = Grid + 1
      <4>1. Grid + m \in Nat /\ m <= Grid + m
        BY <1>0
      <4>2. Pow2[e] = 2 * Pow2[Grid + m]
        BY <4>1, PowerOf
      <4>3. Pow2[Grid + m] = One * Pow2[m] /\ One * Pow2[m] = Pow2[m] * One
        <5>1. One \in Int /\ Pow2[m] \in Int
          BY <1>0
        <5> QED BY <1>0, <5>1, PowerSum, TwiceTimes
      <4>4. Pow2[e] = 4 * p
        BY <1>1, <4>2, <4>3
      <4>5. e \in Nat /\ m <= e /\ e < Digits /\ e - m = Grid + 1
        BY <1>0, Constants
      <4> QED BY <4>4, <4>5
    <3> HIDE DEF x, e
    <3>3. Fl(x, m) = Nearest(x, Pow2[Grid + 1])
      <4>1. x \in Int /\ Pow2[e] <= Abs(x) /\ Abs(x) <= 2 * Pow2[e]
        BY <1>0, <1>1, <3>1, <3>2
      <4> QED BY <3>2, <4>1, FlNear
    <3>4. Pow2[Grid + 1] = 2 * One
      BY <1>0, PowerOf
    <3>5. Rounds(x, 2 * One, 2 * h)
      <4>1. (2 * h) * (2 * One) = 4 * p
        <5>1. 2 * h \in Int /\ One \in Int
          BY <1>0
        <5>2. (2 * h) * (2 * One) = 2 * ((2 * h) * One)
          BY <5>1, TwiceTimes
        <5> QED BY <1>0, <1>1, <5>2
      <4>2. 2 * (x - 4 * p) <= One /\ 2 * (4 * p - x) <= One /\ One < 2 * One
        BY <1>0, <1>1, <3>1
      <4>3. 2 * (x - 4 * p) \in Int /\ 2 * (4 * p - x) \in Int
        BY <1>1, <3>1
      <4>4. (2 * h) % 2 = 0 /\ 2 * h \in Int
        BY <1>0
      <4>5. 2 * (x - 4 * p) <= 2 * One /\ 2 * (4 * p - x) <= 2 * One
        BY <1>0, <4>2, <4>3
      <4> QED BY <4>1, <4>4, <4>5 DEF Rounds
    <3>6. Nearest(x, 2 * One) = 4 * p
      <4>1. (2 * h) * (2 * One) = 4 * p
        <5>1. 2 * h \in Int /\ One \in Int
          BY <1>0
        <5>2. (2 * h) * (2 * One) = 2 * ((2 * h) * One)
          BY <5>1, TwiceTimes
        <5> QED BY <1>0, <1>1, <5>2
      <4>2. x \in Int /\ 2 * One \in Nat \ {0} /\ 2 * h \in Int
        BY <1>0, <3>1
      <4> QED BY <3>5, <4>1, <4>2, NearestIs
    <3>7. j = h
      <4>1. h * One <= v /\ h \in Int
        BY <1>0, <1>1, <2>2 DEF p
      <4>2. j >= h
        BY <1>0, <4>1, RoundsWithin
      <4> QED BY <1>0, <1>4, <4>2
    <3>8. (j + 3 * h) * One = 4 * p
      <4>1. j + 3 * h = 4 * h
        BY <1>0, <3>7
      <4>2. (4 * h) * One = 4 * p
        BY <1>0, Distributes DEF p
      <4> QED BY <4>1, <4>2
    <3> QED BY <1>5, <3>3, <3>4, <3>6, <3>8 DEF x
  <2> QED BY <1>1, <2>1, <2>2
<1>7. Bits(Fl(v + Mid(m), m), m) = ((Grid + m) * Pow2[m] + 3 * h) + j
  <2> DEFINE y == j + 3 * h
  <2>1. y \in Nat /\ Pow2[m] <= y /\ y <= 2 * Pow2[m]
    BY <1>0, <1>3, <1>4
  <2> HIDE DEF y
  <2>2. y * One \in Int /\ Abs(y * One) = y * Pow2[Grid]
    BY <1>0, <2>1, TimesGrows, AbsSays
  <2>3. Bits(y * One, m) = (Grid + m) * Pow2[m] + y
    <3>1. Grid + m < Digits
      BY <1>0, Constants
    <3> QED BY <1>0, <2>1, <2>2, <3>1, BitsUnit
  <2>4. (Grid + m) * Pow2[m] \in Int
    <3>1. Grid + m \in Int /\ Pow2[m] \in Int
      BY <1>0
    <3> QED BY <3>1, TwiceTimes
  <2>5. (Grid + m) * Pow2[m] + (j + 3 * h) = ((Grid + m) * Pow2[m] + 3 * h) + j
    BY <1>0, <2>4
  <2> QED BY <1>6, <2>3, <2>5 DEF y
<1> QED BY <1>3, <1>4, <1>7 DEF h

\* A number between 0 and 2^m - 1, with either sign, moved by Top.
LEMMA TopSum ==
  ASSUME NEW m \in Nat, 3 <= m, Grid + m + 1 < Digits,
         NEW v \in Int, 0 <= v, v <= (Pow2[m] - 1) * One, NEW j \in Int, Rounds(v, One, j)
  PROVE  /\ 0 <= j /\ j < Pow2[m]
         /\ Bits(Fl(v + Top(m), m), m) % Pow2[m] = j
         /\ Bits(Fl((-v) - Top(m), m), m) % Pow2[m] = j
<1> DEFINE p == Pow2[m]
           t == p * One
<1>0. /\ p \in Nat \ {0} /\ p % 2 = 0 /\ One \in Nat \ {0} /\ One = Pow2[Grid] /\ Grid \in Nat
      /\ Grid + m < Digits
  BY HalfSays, PowerOf, Constants DEF One
<1> HIDE DEF p
<1>1. t \in Nat /\ (p - 1) * One = t - One /\ Top(m) = t /\ 0 * One = 0
  <2>1. t \in Nat /\ 0 * One = 0
    BY <1>0, TimesGrows
  <2>2. ((p - 1) + 1) * One = (p - 1) * One + One /\ (p - 1) * One \in Int
    <3>1. p - 1 \in Int /\ One \in Int
      BY <1>0
    <3> QED BY <3>1, TimesNext
  <2>3. (p - 1) + 1 = p
    BY <1>0
  <2> QED BY <1>0, <2>1, <2>2, <2>3 DEF Top, p
<1>2. v <= t - One
  BY <1>1 DEF p
<1>3. 0 <= j /\ j <= p - 1
  <2>1. v >= 0 * One /\ v <= (p - 1) * One /\ 0 \in Int /\ p - 1 \in Int
    BY <1>0, <1>1, <1>2
  <2>2. j >= 0 /\ j <= p - 1
    BY <1>0, <2>1, RoundsWithin
  <2> QED BY <1>0, <2>2
<1> DEFINE y == j + p
<1>4. y \in Nat /\ p <= y /\ y <= 2 * p
  BY <1>0, <1>3
<1>5. Fl(v + t, m) = y * One
  <2> HIDE DEF t
  <2>1. v + t \in Nat /\ Abs(v + t) = v + t
    BY <1>1, AbsSays
  <2>2. t = p * One
    BY DEF t
  <2>3. /\ Pow2[m] * Pow2[Grid] <= Abs(v + p * Pow2[Grid])
        /\ Abs(v + p * Pow2[Grid]) <= 2 * (Pow2[m] * Pow2[Grid])
    <3>1. t <= v + t /\ v + t <= 2 * t
      BY <1>0, <1>1, <1>2
    <3> QED BY <1>0, <2>1, <2>2, <3>1 DEF p
  <2>4. Rounds(v, Pow2[Grid], j) /\ p \in Int
    BY <1>0
  <2>5. Fl(v + p * Pow2[Grid], m) = (j + p) * Pow2[Grid]
    <3>1. Grid \in Nat /\ Grid + m < Digits /\ p % 2 = 0
      BY <1>0
    <3> QED BY <2>3, <2>4, <3>1, FlUnit
  <2> QED BY <1>0, <2>2, <2>5
<1>6. Fl((-v) - t, m) = -(y * One)
  <2>1. v + t \in Int /\ (-v) - t = -(v + t)
    BY <1>1
  <2>2. Abs(v + t) <= Pow2[Digits]
    <3>1. v + t \in Nat /\ Abs(v + t) = v + t
      BY <1>1, AbsSays
    <3>2. v + t <= 2 * t
      BY <1>0, <1>1, <1>2
    <3>3. t = Pow2[Grid + m]
      <4>1. Pow2[Grid + m] = One * Pow2[m]
        BY <1>0, PowerSum
      <4> QED BY <1>0, <4>1, TwiceTimes DEF p
    <3>4. 2 * Pow2[Grid + m] <= Pow2[Digits] /\ Pow2[Digits] \in Nat
      <4>1. Grid + m \in Nat /\ Digits \in Nat
        BY <1>0, Constants
      <4> QED BY <1>0, <4>1, PowerLess, PowerOf
    <3> HIDE DEF t
    <3> QED BY <1>1, <3>1, <3>2, <3>3, <3>4
  <2> HIDE DEF t, y
  <2>3. Fl(-(v + t), m) = -Fl(v + t, m)
    BY <2>1, <2>2, FlNegative
  <2> QED BY <1>5, <2>1, <2>3
<1> HIDE DEF y
<1>7. ASSUME NEW w \in Int, Abs(w) = y * One PROVE Bits(w, m) % p = j
  <2>1. Bits(w, m) = (Grid + m) * p + y
    <3>1. Abs(w) = y * Pow2[Grid]
      BY <1>0, <1>7
    <3> QED BY <1>0, <1>4, <3>1, BitsUnit DEF p
  <2>2. (Grid + m) * p + y = ((Grid + m) + 1) * p + j
    <3>1. ((Grid + m) + 1) * p = (Grid + m) * p + p /\ (Grid + m) * p \in Int
      <4>1. Grid + m \in Int /\ p \in Int
        BY <1>0
      <4> QED BY <4>1, TimesNext
    <3> QED BY <1>0, <3>1 DEF y
  <2>3. (((Grid + m) + 1) * p + j) % p = j
    <3>1. (Grid + m) + 1 \in Int /\ j < p
      BY <1>0, <1>3
    <3> QED BY <1>0, <1>3, <3>1, DivIs
  <2> QED BY <2>1, <2>2, <2>3
<1>8. y * One \in Nat /\ y * One \in Int /\ -(y * One) \in Int
      /\ Abs(y * One) = y * One /\ Abs(-(y * One)) = y * One
  <2>1. y * One \in Nat
    BY <1>0, <1>4, TimesGrows
  <2> QED BY <2>1, AbsSays
<1>9. j < p
  BY <1>0, <1>3
<1> QED BY <1>1, <1>3, <1>5, <1>6, <1>7, <1>8, <1>9 DEF p

LEMMA ByTopSays ==
  ASSUME NEW m \in Nat, 3 <= m, Grid + m + 1 < Digits,
         NEW v \in Int, Abs(v) <= (Pow2[m] - 1) * One, NEW j \in Int, Rounds(v, One, j)
  PROVE  ByTop(v, m) = j
<1>0. One \in Nat \ {0}
  BY PowerOf, Constants DEF One
<1>1. CASE v < 0
  <2>1. -v \in Int /\ 0 <= -v /\ -v <= (Pow2[m] - 1) * One /\ -(-v) = v
    BY <1>1, AbsSays
  <2>2. Rounds(-v, One, -j) /\ -j \in Int
    BY <1>0, RoundsNegative
  <2>3. Bits(Fl((-(-v)) - Top(m), m), m) % Pow2[m] = -j
    BY <2>1, <2>2, TopSum
  <2>4. ByTop(v, m) = -(Bits(Fl(v - Top(m), m), m) % Pow2[m]) /\ -(-j) = j
    BY <1>1 DEF ByTop
  <2> QED BY <2>1, <2>3, <2>4
<1>2. CASE ~ (v < 0)
  <2>1. 0 <= v /\ v <= (Pow2[m] - 1) * One
    BY <1>2, AbsSays
  <2>2. Bits(Fl(v + Top(m), m), m) % Pow2[m] = j
    BY <2>1, TopSum
  <2> QED BY <1>2, <2>2 DEF ByTop
<1> QED BY <1>1, <1>2

\* The bits of Mid end in zeros.
LEMMA MidMultiple ==
  ASSUME NEW m \in Nat, NEW w \in Nat, w + 1 <= m, NEW e \in Nat
  PROVE  \E c \in Int : e * Pow2[m] + 3 * Pow2[m - 1] = c * Pow2[w]
<1> DEFINE d == Pow2[(m - 1) - w]
<1>0. m - 1 \in Nat /\ (m - 1) + 1 = m /\ w <= m - 1
  OBVIOUS
<1>1. Pow2[m] = 2 * Pow2[m - 1] /\ Pow2[m - 1] = d * Pow2[w] /\ d \in Int /\ Pow2[w] \in Int
  <2>1. Pow2[m] = 2 * Pow2[m - 1]
    BY <1>0, PowerOf
  <2>2. Pow2[m - 1] = d * Pow2[w] /\ d \in Nat \ {0}
    BY <1>0, PowerMultiple
  <2> QED BY <2>1, <2>2, PowerOf
<1> HIDE DEF d
<1>2. e * Pow2[m] + 3 * Pow2[m - 1] = (2 * e + 3) * Pow2[m - 1]
  <2>1. Pow2[m - 1] \in Int /\ 2 * e \in Int
    BY <1>1, Distributes
  <2>2. e * (2 * Pow2[m - 1]) = 2 * (e * Pow2[m - 1])
    BY <2>1, TwiceTimes
  <2>3. (2 * e) * Pow2[m - 1] = 2 * (e * Pow2[m - 1])
    BY <2>1, Distributes
  <2>4. (2 * e + 3) * Pow2[m - 1] = (2 * e) * Pow2[m - 1] + 3 * Pow2[m - 1]
    BY <2>1, Distributes
  <2> QED BY <1>1, <2>2, <2>3, <2>4
<1>3. (2 * e + 3) * (d * Pow2[w]) = ((2 * e + 3) * d) * Pow2[w] /\ (2 * e + 3) * d \in Int
  <2>1. 2 * e + 3 \in Int
    OBVIOUS
  <2> QED BY <1>1, <2>1, Distributes
<1> QED BY <1>1, <1>2, <1>3

\* A large number of the format: y units of 2^n, s more than the digits that fit.
LEMMA LargeForm ==
  ASSUME NEW m \in Nat, 3 <= m, m <= Grid, NEW s \in Nat, s + 2 <= m,
         NEW w \in Nat, w - 1 - s < m, m + 1 < w,
         NEW v \in Int, Form(v, m), v > Top(m) - One, v <= Pow2[w - 1] * One
  PROVE  \E k \in Nat, y \in Nat :
           /\ Pow2[m] <= y /\ y < 2 * Pow2[m] /\ v = y * Pow2[k + s]
           /\ k < Grid /\ Grid <= k + s + 1
<1>0. /\ One \in Nat \ {0} /\ One = Pow2[Grid] /\ Grid \in Nat /\ Pow2[m] \in Nat \ {0}
      /\ Pow2[m] <= One /\ Top(m) = Pow2[m] * One /\ 4 <= Pow2[m] /\ w - 1 \in Nat
      /\ Pow2[w - 1] \in Nat \ {0}
  <2>1. Pow2[m] = 2 * Pow2[m - 1] /\ 2 <= Pow2[m - 1] /\ Pow2[m - 1] \in Nat
    BY HalfSays
  <2> QED BY <2>1, PowerOf, PowerMono, Constants DEF One, Top
<1>1. Top(m) >= 4 * One /\ Top(m) \in Int
  <2>1. 4 * One <= Pow2[m] * One /\ Pow2[m] * One \in Int
    BY <1>0, Apart
  <2> QED BY <1>0, <2>1
<1>2. ~ (v < Pow2[m])
  BY <1>0, <1>1
<1>3. PICK f \in Nat, y \in Nat :
        m <= f /\ Pow2[m] <= y /\ y < 2 * Pow2[m] /\ v = y * Pow2[f - m]
  BY <1>2 DEF Form
<1> DEFINE n == f - m
<1>4. n \in Nat /\ Pow2[n] \in Nat \ {0}
  BY <1>3, PowerOf
<1> HIDE DEF n
<1>5. v = y * Pow2[n]
  BY <1>3 DEF n
<1>6. Grid <= n + 1
  <2>1. SUFFICES ASSUME n + 2 <= Grid PROVE FALSE
    BY <1>0, <1>4
  <2>2. 4 * Pow2[n] <= One
    <3>1. (n + 1) + 1 = n + 2 /\ n + 1 \in Nat /\ n + 2 \in Nat
      BY <1>4
    <3>2. Pow2[n + 1] = 2 * Pow2[n] /\ Pow2[(n + 1) + 1] = 2 * Pow2[n + 1]
      BY <1>4, <3>1, PowerOf
    <3>3. Pow2[n + 2] <= Pow2[Grid]
      BY <1>0, <2>1, <3>1, PowerMono
    <3> QED BY <1>0, <1>4, <3>1, <3>2, <3>3
  <2>3. v <= (2 * Pow2[m]) * Pow2[n] /\ v \in Int
    <3>1. y \in Int /\ 2 * Pow2[m] \in Int /\ y <= 2 * Pow2[m]
      BY <1>0, <1>3
    <3> QED BY <1>4, <1>5, <3>1, Apart
  <2>4. 2 * ((2 * Pow2[m]) * Pow2[n]) = (4 * Pow2[n]) * Pow2[m]
    <3>1. Pow2[m] \in Int /\ Pow2[n] \in Int
      BY <1>0, <1>4
    <3>2. (2 * Pow2[m]) * Pow2[n] = 2 * (Pow2[m] * Pow2[n])
      BY <3>1, Distributes
    <3>3. (4 * Pow2[n]) * Pow2[m] = 4 * (Pow2[n] * Pow2[m])
      BY <3>1, Distributes
    <3>4. Pow2[n] * Pow2[m] = Pow2[m] * Pow2[n] /\ Pow2[m] * Pow2[n] \in Int
      BY <3>1, TwiceTimes
    <3> QED BY <3>2, <3>3, <3>4
  <2>5. (4 * Pow2[n]) * Pow2[m] <= One * Pow2[m] /\ One * Pow2[m] = Top(m)
    <3>1. 4 * Pow2[n] \in Int /\ One \in Int /\ Pow2[m] \in Int
      BY <1>0, <1>4
    <3> QED BY <1>0, <2>2, <3>1, Apart, TwiceTimes
  <2>6. (2 * Pow2[m]) * Pow2[n] \in Int /\ (4 * Pow2[n]) * Pow2[m] \in Int
    <3>1. 4 * Pow2[n] \in Int /\ 2 * Pow2[m] \in Int /\ Pow2[m] \in Int /\ Pow2[n] \in Int
      BY <1>0, <1>4
    <3> QED BY <3>1, TwiceTimes
  <2>7. 2 * v <= Top(m)
    BY <1>1, <2>3, <2>4, <2>5, <2>6
  <2> QED BY <1>0, <1>1, <2>3, <2>7
<1>7. m + n <= Grid + (w - 1)
  <2>1. Pow2[m + n] = Pow2[m] * Pow2[n] /\ Pow2[Grid + (w - 1)] = One * Pow2[w - 1]
        /\ One * Pow2[w - 1] = Pow2[w - 1] * One
    <3>1. One \in Int /\ Pow2[w - 1] \in Int
      BY <1>0
    <3>2. One * Pow2[w - 1] = Pow2[w - 1] * One
      BY <3>1, TwiceTimes
    <3>3. Pow2[m + n] = Pow2[m] * Pow2[n]
      BY <1>4, PowerSum
    <3>4. Pow2[Grid + (w - 1)] = One * Pow2[w - 1]
      BY <1>0, PowerSum
    <3> QED BY <3>2, <3>3, <3>4
  <2>2. Pow2[m] * Pow2[n] <= y * Pow2[n] /\ Pow2[m] * Pow2[n] \in Int /\ y * Pow2[n] \in Int
    <3>1. y \in Int /\ Pow2[m] \in Int
      BY <1>0
    <3> QED BY <1>3, <1>4, <3>1, Apart
  <2>3. Pow2[w - 1] * One \in Int
    BY <1>0, Apart
  <2>4. Pow2[m + n] <= Pow2[Grid + (w - 1)]
    BY <1>5, <2>1, <2>2, <2>3
  <2>5. m + n \in Nat /\ Grid + (w - 1) \in Nat
    BY <1>0, <1>4
  <2>6. Grid + (w - 1) < m + n => 2 * Pow2[Grid + (w - 1)] <= Pow2[m + n]
    BY <2>5, PowerLess
  <2>7. Pow2[Grid + (w - 1)] \in Nat \ {0} /\ Pow2[m + n] \in Nat
    BY <2>5, PowerOf
  <2> QED BY <2>4, <2>5, <2>6, <2>7
<1> DEFINE k == n - s
<1>8. k \in Nat /\ k + s = n /\ k < Grid /\ Grid <= (k + s) + 1
  BY <1>0, <1>4, <1>6, <1>7
<1> HIDE DEF k
<1>9. v = y * Pow2[k + s]
  BY <1>5, <1>8
<1> QED BY <1>3, <1>8, <1>9

\* The integer part of a large number is taken from its upper digits, the rest from the lower
\* ones, and the two make the nearest integer.
LEMMA SplitSays ==
  ASSUME NEW m \in Nat, 3 <= m, m <= Grid, m <= DMant, NEW s \in Nat, 1 <= s, s + 2 <= m,
         NEW w \in Nat, w - 1 - s < m, m + 1 < w, Grid + w < Digits, Grid + m + 1 < Digits,
         NEW v \in Int, Form(v, m), v > Top(m) - One, v <= Pow2[w - 1] * One
  PROVE  \E i \in Int : Rounds(v, One, i) /\ Split(v, m, s) = i
<1>1. PICK k \in Nat, y \in Nat :
        /\ Pow2[m] <= y /\ y < 2 * Pow2[m] /\ v = y * Pow2[k + s]
        /\ k < Grid /\ Grid <= k + s + 1
  BY LargeForm
<1> DEFINE a == y * Pow2[k]
           h == Pow2[m - 1]
           g == Grid - s
<1>0. /\ One \in Nat \ {0} /\ One = Pow2[Grid] /\ Grid \in Nat /\ Pow2[m] = 2 * h
      /\ h \in Nat \ {0} /\ (3 * h) % 2 = 0 /\ 2 <= h /\ Pow2[s] \in Nat \ {0} /\ Pow2[s] % 2 = 0
      /\ Pow2[k] \in Nat \ {0} /\ g \in Nat /\ Pow2[g] \in Nat \ {0}
      /\ One = Pow2[s] * Pow2[g] /\ One = Pow2[g] * Pow2[s] /\ Pow2[s] <= h
      /\ Pow2[s] = 2 * Pow2[s - 1] /\ Pow2[s - 1] \in Nat \ {0} /\ s - 1 \in Nat
      /\ Pow2[s - 1] <= h
  <2>1. One \in Nat \ {0} /\ Grid \in Nat /\ Pow2[s] \in Nat \ {0} /\ Pow2[k] \in Nat \ {0}
    BY PowerOf, Constants DEF One
  <2>2. g \in Nat /\ Pow2[g] \in Nat \ {0} /\ One = Pow2[s] * Pow2[g] /\ One = Pow2[g] * Pow2[s]
    <3>1. s <= Grid /\ Grid - s \in Nat
      BY <2>1
    <3>2. Pow2[Grid] = Pow2[Grid - s] * Pow2[s] /\ Pow2[Grid] = Pow2[s] * Pow2[Grid - s]
          /\ Pow2[Grid - s] \in Nat \ {0}
      BY <2>1, <3>1, PowerMultiple
    <3> QED BY <3>1, <3>2 DEF One
  <2>3. s - 1 \in Nat /\ (s - 1) + 1 = s /\ s <= m - 1 /\ s - 1 <= m - 1 /\ m - 1 \in Nat
    OBVIOUS
  <2>4. Pow2[s] = 2 * Pow2[s - 1] /\ Pow2[s - 1] \in Nat \ {0}
    BY <2>3, PowerOf
  <2>5. Pow2[s] <= h /\ Pow2[s - 1] <= h
    BY <2>3, PowerMono
  <2>6. Pow2[m] = 2 * h /\ h \in Nat \ {0} /\ (3 * h) % 2 = 0 /\ 2 <= h
    BY HalfSays
  <2>7. Pow2[s] % 2 = 0
    BY <2>4
  <2> QED BY <2>1, <2>2, <2>3, <2>4, <2>5, <2>6, <2>7 DEF One
<1> HIDE DEF h, g, a
<1>2. a \in Nat /\ v = a * Pow2[s]
  <2>1. Pow2[k + s] = Pow2[k] * Pow2[s]
    BY PowerSum
  <2>2. y * (Pow2[k] * Pow2[s]) = (y * Pow2[k]) * Pow2[s]
    <3>1. y \in Int /\ Pow2[k] \in Int /\ Pow2[s] \in Int
      BY <1>0
    <3> QED BY <3>1, Distributes
  <2>3. a \in Nat
    BY <1>0, TimesGrows DEF a
  <2> QED BY <1>1, <2>1, <2>2, <2>3 DEF a
<1>3. FromBits(Bits(v, m) - s * Pow2[m], m) = a
  <2>1. y <= 2 * Pow2[m] /\ (k + s) + m < Digits /\ k + m < Digits /\ k + s \in Nat
    <3>1. y <= 2 * Pow2[m]
      BY <1>0, <1>1
    <3>2. k + m < Digits
      BY <1>0, <1>1, Constants
    <3>3. (k + s) + m < Digits
      BY <1>0, <1>1, Constants
    <3> QED BY <3>1, <3>2, <3>3
  <2>2. Abs(v) = y * Pow2[k + s]
    <3>1. v \in Nat
      BY <1>0, <1>2, TimesGrows
    <3> QED BY <1>1, <3>1, AbsSays
  <2>3. Bits(v, m) = ((k + s) + m) * Pow2[m] + y
    BY <1>1, <2>1, <2>2, BitsUnit
  <2>4. (((k + s) + m) * Pow2[m] + y) - s * Pow2[m] = (k + m) * Pow2[m] + y
    <3>1. /\ ((k + m) + s) * Pow2[m] = (k + m) * Pow2[m] + s * Pow2[m]
          /\ (k + m) * Pow2[m] \in Int /\ s * Pow2[m] \in Int
      <4>1. k + m \in Int /\ s \in Int /\ Pow2[m] \in Int
        BY <1>0
      <4> QED BY <4>1, Distributes
    <3>2. (k + s) + m = (k + m) + s
      OBVIOUS
    <3> QED BY <3>1, <3>2
  <2>5. FromBits((k + m) * Pow2[m] + y, m) = y * Pow2[k]
    BY <1>1, <2>1, BitsUnit
  <2> QED BY <2>3, <2>4, <2>5 DEF a
<1>4. a <= h * One /\ h * One <= (Pow2[m] - 1) * One
  <2>1. Pow2[w - 1] <= h * Pow2[s]
    <3>1. w - 1 \in Nat /\ (m - 1) + s \in Nat /\ m - 1 \in Nat /\ w - 1 <= (m - 1) + s
      OBVIOUS
    <3>2. Pow2[(m - 1) + s] = h * Pow2[s]
      BY <3>1, PowerSum DEF h
    <3> QED BY <3>1, <3>2, PowerMono
  <2>2. Pow2[w - 1] * One <= (h * Pow2[s]) * One
    <3>1. Pow2[w - 1] \in Int /\ h * Pow2[s] \in Int
      <4>1. w - 1 \in Nat /\ h \in Int /\ Pow2[s] \in Int
        BY <1>0
      <4> QED BY <4>1, PowerOf, TwiceTimes
    <3> QED BY <1>0, <2>1, <3>1, Apart
  <2>3. (h * Pow2[s]) * One = (h * One) * Pow2[s] /\ h * One \in Int
    <3>1. h \in Int /\ Pow2[s] \in Int /\ One \in Int
      BY <1>0
    <3> QED BY <3>1, Distributes
  <2>4. a * Pow2[s] <= (h * One) * Pow2[s]
    <3>1. (h * One) * Pow2[s] \in Int /\ Pow2[w - 1] * One \in Int /\ a * Pow2[s] \in Int
      <4>1. Pow2[w - 1] \in Int /\ One \in Int /\ Pow2[s] \in Int /\ a \in Int
        <5>1. w - 1 \in Nat
          OBVIOUS
        <5> QED BY <1>0, <1>2, <5>1, PowerOf
      <4> QED BY <2>3, <4>1, TwiceTimes
    <3> QED BY <1>2, <2>2, <2>3, <3>1
  <2>5. a \in Int
    BY <1>2
  <2>6. a <= h * One
    BY <1>0, <2>3, <2>4, <2>5, Apart
  <2>7. h <= Pow2[m] - 1 /\ Pow2[m] - 1 \in Int /\ h \in Int
    BY <1>0
  <2> QED BY <1>0, <2>6, <2>7, Apart
<1>5. PICK i \in Int : Rounds(a, One, i)
  <2>1. a \in Int
    BY <1>2
  <2> QED BY <1>0, <2>1, NearestRounds
<1>6. Bits(Fl(a + Top(m), m), m) % Pow2[m] = i
  <2>1. a \in Int /\ 0 <= a /\ a <= (Pow2[m] - 1) * One
    <3>1. (Pow2[m] - 1) * One \in Int /\ h * One \in Int
      <4>1. Pow2[m] - 1 \in Int /\ h \in Int /\ One \in Int
        BY <1>0
      <4> QED BY <4>1, TwiceTimes
    <3> QED BY <1>2, <1>4, <3>1
  <2> QED BY <1>5, <2>1, TopSum
<1>7. OfMid(i, m) = i * One
  <2>1. i <= h /\ i >= 0
    <3>1. a \in Int /\ 0 \in Int /\ h \in Int /\ a >= 0 * One
      <4>1. 0 * One = 0
        BY <1>0
      <4> QED BY <1>0, <1>2, <4>1
    <3> QED BY <1>0, <1>4, <1>5, <3>1, RoundsWithin
  <2>2. Abs(i) <= Pow2[m - 1]
    BY <2>1, AbsSays DEF h
  <2>3. Grid + m < Digits /\ 2 <= m
    BY <1>0, Constants
  <2> QED BY <2>2, <2>3, OfMidSays
<1> DEFINE d == a - i * One
<1>8. d \in Int /\ 2 * d <= One /\ 2 * (-d) <= One /\ i * One \in Int
  <2>1. i * One \in Int
    BY <1>0, Apart
  <2>2. 2 * (a - i * One) <= One /\ 2 * (i * One - a) <= One
    BY <1>5 DEF Rounds
  <2> QED BY <1>2, <2>1, <2>2
<1>9. Fl(a - OfMid(i, m), m) = d
  <2> DEFINE j == y - i * Pow2[Grid - k]
  <2>1. /\ Grid - k \in Nat /\ Pow2[Grid - k] \in Nat /\ One = Pow2[Grid - k] * Pow2[k]
    <3>1. k <= Grid /\ Grid \in Nat
      BY <1>0, <1>1
    <3>2. Grid - k \in Nat /\ Pow2[Grid - k] \in Nat \ {0} /\ Pow2[Grid] = Pow2[Grid - k] * Pow2[k]
      BY <3>1, PowerMultiple
    <3> QED BY <1>0, <3>2
  <2>2. j \in Int /\ d = j * Pow2[k]
    <3>1. y \in Int /\ Pow2[Grid - k] \in Int /\ Pow2[k] \in Int
      BY <1>0, <2>1
    <3>2. i * Pow2[Grid - k] \in Int /\ i * (Pow2[Grid - k] * Pow2[k]) = (i * Pow2[Grid - k]) * Pow2[k]
      BY <3>1, Distributes
    <3>3. (y - i * Pow2[Grid - k]) * Pow2[k] = y * Pow2[k] - (i * Pow2[Grid - k]) * Pow2[k]
      BY <3>1, <3>2, Distributes
    <3>4. j \in Int
      BY <3>1, <3>2
    <3> QED BY <2>1, <3>2, <3>3, <3>4 DEF a
  <2> HIDE DEF d, j
  <2>3. Abs(d) <= 2 * Pow2[k + m] /\ k + m < Digits
    <3>1. Abs(d) <= One
      BY <1>0, <1>8, AbsSays
    <3>2. k + m \in Nat /\ Grid <= k + m /\ k + m < Digits
      BY <1>0, <1>1, Constants
    <3>3. One <= Pow2[k + m] /\ Pow2[k + m] \in Nat
      BY <1>0, <3>2, PowerMono, PowerOf
    <3>4. Abs(d) \in Int
      BY <1>8, AbsSays
    <3> QED BY <1>0, <3>1, <3>2, <3>3, <3>4
  <2>4. Fl(j * Pow2[k], m) = j * Pow2[k]
    BY <2>2, <2>3, FlExact
  <2> QED BY <1>7, <2>2, <2>4 DEF d
<1> HIDE DEF d
<1>10. PICK t \in Int : Rounds(d, Pow2[g], t)
  BY <1>0, <1>8, NearestRounds
<1>11. t <= Pow2[s - 1] /\ -Pow2[s - 1] <= t
  <2>1. One = 2 * (Pow2[s - 1] * Pow2[g]) /\ Pow2[s - 1] * Pow2[g] \in Int
    <3>1. Pow2[s - 1] \in Int /\ Pow2[g] \in Int
      BY <1>0
    <3>2. (2 * Pow2[s - 1]) * Pow2[g] = 2 * (Pow2[s - 1] * Pow2[g])
      BY <3>1, Distributes
    <3>3. Pow2[s - 1] * Pow2[g] \in Int
      BY <3>1, TwiceTimes
    <3> QED BY <1>0, <3>2, <3>3
  <2>2. (-Pow2[s - 1]) * Pow2[g] = -(Pow2[s - 1] * Pow2[g])
    <3>1. Pow2[s - 1] \in Int
      BY <1>0
    <3> QED BY <1>0, <3>1, Apart
  <2>3. d <= Pow2[s - 1] * Pow2[g] /\ d >= (-Pow2[s - 1]) * Pow2[g]
    BY <1>8, <2>1, <2>2
  <2>4. Pow2[s - 1] \in Int /\ -Pow2[s - 1] \in Int
    BY <1>0
  <2>5. t <= Pow2[s - 1] /\ t >= -Pow2[s - 1]
    BY <1>0, <1>8, <1>10, <2>3, <2>4, RoundsWithin
  <2> QED BY <2>4, <2>5
<1> DEFINE K == 3 * Pow2[m - s - 1] * One
           b == Fl(d + K, m)
<1>12. K = (3 * h) * Pow2[g]
  <2>1. h = Pow2[m - s - 1] * Pow2[s] /\ Pow2[m - s - 1] \in Int
    <3>1. m - 1 \in Nat /\ s <= m - 1 /\ (m - 1) - s = m - s - 1
      OBVIOUS
    <3>2. Pow2[m - 1] = Pow2[(m - 1) - s] * Pow2[s] /\ Pow2[(m - 1) - s] \in Nat \ {0}
      BY <3>1, PowerMultiple
    <3> QED BY <3>1, <3>2 DEF h
  <2> DEFINE z == Pow2[m - s - 1]
  <2>2. z \in Int /\ Pow2[s] \in Int /\ Pow2[g] \in Int /\ 3 * z \in Int
    BY <1>0, <2>1
  <2>3. K = (3 * z) * (Pow2[s] * Pow2[g])
    BY <1>0
  <2> HIDE DEF z, K
  <2>4. (3 * z) * (Pow2[s] * Pow2[g]) = ((3 * z) * Pow2[s]) * Pow2[g]
    BY <2>2, Distributes
  <2>5. (3 * z) * Pow2[s] = 3 * (z * Pow2[s])
    BY <2>2, Distributes
  <2> QED BY <2>1, <2>3, <2>4, <2>5 DEF z
<1> HIDE DEF K
<1>13. b = (t + 3 * h) * Pow2[g]
  <2> DEFINE u == h * Pow2[g]
  <2>1. u \in Nat /\ One <= u
    <3>1. Pow2[s] \in Int /\ h \in Int
      BY <1>0
    <3>2. Pow2[s] * Pow2[g] <= h * Pow2[g]
      BY <1>0, <3>1, Apart
    <3> QED BY <1>0, <3>2, TimesGrows
  <2>2. (3 * h) * Pow2[g] = 3 * u /\ Pow2[m] * Pow2[g] = 2 * u
    <3>1. h \in Int /\ Pow2[g] \in Int
      BY <1>0
    <3> QED BY <1>0, <3>1, Distributes
  <2> HIDE DEF u
  <2>3. d + 3 * u \in Nat /\ Abs(d + 3 * u) = d + 3 * u /\ 2 * u <= d + 3 * u /\ d + 3 * u <= 4 * u
    <3>1. d <= u /\ -u <= d
      BY <1>0, <1>8, <2>1
    <3>2. d + 3 * u \in Nat /\ 2 * u <= d + 3 * u /\ d + 3 * u <= 4 * u
      BY <1>8, <2>1, <3>1
    <3> QED BY <3>2, AbsSays
  <2>4. /\ Pow2[m] * Pow2[g] <= Abs(d + (3 * h) * Pow2[g])
        /\ Abs(d + (3 * h) * Pow2[g]) <= 2 * (Pow2[m] * Pow2[g])
    BY <2>1, <2>2, <2>3
  <2>5. g \in Nat /\ g + m < Digits /\ 3 * h \in Int /\ (3 * h) % 2 = 0
    <3>1. g + m < Digits
      BY <1>0, Constants DEF g
    <3> QED BY <1>0, <3>1
  <2>6. Fl(d + (3 * h) * Pow2[g], m) = (t + 3 * h) * Pow2[g]
    BY <1>8, <1>10, <2>4, <2>5, FlUnit
  <2> QED BY <1>12, <2>6
<1> HIDE DEF b
<1>14. Signed(Bits(b, m), s + 1) = t
  <2> DEFINE x == t + 3 * h
  <2>1. x \in Nat /\ Pow2[m] <= x /\ x <= 2 * Pow2[m]
    BY <1>0, <1>11
  <2> HIDE DEF x
  <2>2. x * Pow2[g] \in Int /\ Abs(x * Pow2[g]) = x * Pow2[g]
    BY <1>0, <2>1, TimesGrows, AbsSays
  <2>3. g + m < Digits /\ g \in Nat
    BY <1>0, Constants DEF g
  <2>4. Bits(b, m) = (g + m) * Pow2[m] + x
    BY <1>13, <2>1, <2>2, <2>3, BitsUnit DEF x
  <2>5. PICK c \in Int : (g + m) * Pow2[m] + 3 * Pow2[m - 1] = c * Pow2[s + 1]
    <3>1. s + 1 \in Nat /\ (s + 1) + 1 <= m /\ g + m \in Nat
      BY <2>3
    <3> QED BY <3>1, MidMultiple
  <2>6. Bits(b, m) = c * Pow2[s + 1] + t
    <3>1. (g + m) * Pow2[m] \in Int
      <4>1. g + m \in Int /\ Pow2[m] \in Int
        BY <1>0, <2>3
      <4> QED BY <4>1, TwiceTimes
    <3>2. (g + m) * Pow2[m] + (t + 3 * h) = ((g + m) * Pow2[m] + 3 * h) + t
      BY <1>0, <3>1
    <3> QED BY <2>4, <2>5, <3>2 DEF x, h
  <2>7. (s + 1) - 1 = s /\ -Pow2[s] <= t /\ t < Pow2[s] /\ s + 1 \in Nat /\ 1 <= s + 1
    BY <1>0, <1>11
  <2>8. Signed(c * Pow2[s + 1] + t, s + 1) = t
    <3>1. -Pow2[(s + 1) - 1] <= t /\ t < Pow2[(s + 1) - 1]
      BY <2>7
    <3> QED BY <2>7, <3>1, SignedIs
  <2> QED BY <2>6, <2>8
<1>15. Split(v, m, s) = i * Pow2[s] + t
  BY <1>3, <1>6, <1>9, <1>14 DEF Split, b, K
<1>16. Rounds(v, One, i * Pow2[s] + t)
  <2>1. Rounds(d * Pow2[s], One, t)
    <3>1. Rounds(d * Pow2[s], Pow2[g] * Pow2[s], t)
      BY <1>0, <1>8, <1>10, RoundsScaled
    <3> QED BY <1>0, <3>1
  <2> DEFINE q == i * Pow2[s]
  <2>2. q \in Int /\ q % 2 = 0
    <3>1. q = 2 * (i * Pow2[s - 1]) /\ i * Pow2[s - 1] \in Int
      <4>1. Pow2[s - 1] \in Int
        BY <1>0
      <4> QED BY <1>0, <4>1, TwiceTimes
    <3> HIDE DEF q
    <3> QED BY <3>1
  <2>3. d * Pow2[s] + q * One = v
    <3>1. Pow2[s] \in Int /\ a \in Int /\ One \in Int /\ i * One \in Int
      BY <1>0, <1>2, <1>8
    <3>2. (a - i * One) * Pow2[s] = a * Pow2[s] - (i * One) * Pow2[s]
      BY <3>1, Distributes
    <3>3. (i * Pow2[s]) * One = (i * One) * Pow2[s] /\ (i * One) * Pow2[s] \in Int
      BY <3>1, Distributes
    <3>4. a * Pow2[s] \in Int
      BY <3>1, TwiceTimes
    <3>5. d * Pow2[s] = v - (i * One) * Pow2[s]
      BY <1>2, <3>2 DEF d
    <3> QED BY <3>3, <3>5
  <2> HIDE DEF q
  <2>4. d * Pow2[s] \in Int
    BY <1>0, <1>8, Apart
  <2>5. Rounds(d * Pow2[s] + q * One, One, t + q)
    BY <1>0, <2>1, <2>2, <2>4, RoundsShift
  <2>6. t + q = q + t
    BY <2>2
  <2> QED BY <2>3, <2>5, <2>6 DEF q
<1>17. i * Pow2[s] + t \in Int
  BY <1>0, Apart
<1> QED BY <1>15, <1>16, <1>17

LEMMA ToWordSays ==
  ASSUME NEW m \in Nat, 3 <= m, m <= Grid, m <= DMant, NEW s \in Nat, 1 <= s, s + 2 <= m,
         NEW w \in Nat, w - 1 - s < m, m + 1 < w, Grid + w < Digits, Grid + m + 1 < Digits,
         NEW v \in Int, Form(Abs(v), m)
  PROVE  ToWord(v, m, s, w) = Clip(Nearest(v, One) \div One, w)
<1> DEFINE p == Pow2[w - 1]
           a == Abs(v)
           i0 == IF a > Top(m) - One THEN Split(a, m, s) ELSE ByTop(a, m)
<1>0. /\ One \in Nat \ {0} /\ One = Pow2[Grid] /\ Grid \in Nat /\ p \in Nat \ {0} /\ w - 1 \in Nat
      /\ p * One \in Int /\ -p \in Int /\ (-p) * One = -(p * One) /\ a \in Nat /\ a \in Int
  <2>1. One \in Nat \ {0} /\ Grid \in Nat /\ w - 1 \in Nat /\ p \in Nat \ {0}
    BY PowerOf, Constants DEF One
  <2> HIDE DEF p
  <2>2. p \in Int
    BY <2>1
  <2>3. p * One \in Int /\ (-p) * One = -(p * One)
    BY <2>1, <2>2, Apart
  <2> QED BY <2>1, <2>2, <2>3, AbsSays DEF One
<1>1. PICK j \in Int : Rounds(v, One, j)
  BY <1>0, NearestRounds
<1>2. Nearest(v, One) \div One = j
  BY <1>1, RoundedSays
<1>3. Clip(j, w) = IF j > p - 1 THEN p - 1 ELSE IF j < -p THEN -p ELSE j
  BY DEF Clip
<1>4. ToWord(v, m, s, w) = IF v >= p * One THEN p - 1
                           ELSE IF v < -(p * One) THEN -p
                           ELSE Signed(IF v < 0 THEN -i0 ELSE i0, w)
  BY DEF ToWord
<1> HIDE DEF p, i0
<1>5. CASE v >= p * One
  <2>1. p \in Int
    BY <1>0
  <2>2. j >= p
    BY <1>0, <1>1, <1>5, <2>1, RoundsWithin
  <2>3. j > p - 1
    BY <2>1, <2>2
  <2> QED BY <1>2, <1>3, <1>4, <1>5, <2>3
<1>6. CASE v < -(p * One)
  <2>1. v <= (-p) * One /\ ~ (v >= p * One)
    <3>1. p * One >= 0
      BY <1>0, TimesGrows
    <3> QED BY <1>0, <1>6, <3>1
  <2>2. j <= -p
    BY <1>0, <1>1, <2>1, RoundsWithin
  <2>3. ~ (j > p - 1) /\ (j < -p \/ j = -p)
    BY <1>0, <2>2
  <2>4. Clip(j, w) = -p
    BY <1>3, <2>3
  <2>5. ToWord(v, m, s, w) = -p
    BY <1>4, <1>6, <2>1
  <2> QED BY <1>2, <2>4, <2>5
<1>7. CASE ~ (v >= p * One) /\ ~ (v < -(p * One))
  <2>1. a <= p * One
    BY <1>0, <1>7, AbsSays
  <2> HIDE DEF a
  <2>2. Form(a, m)
    BY DEF a
  <2>3. PICK i \in Int : Rounds(a, One, i) /\ i0 = i
    <3>1. CASE a > Top(m) - One
      <4>1. \E i \in Int : Rounds(a, One, i) /\ Split(a, m, s) = i
        BY <1>0, <2>1, <2>2, <3>1, SplitSays DEF p
      <4> QED BY <3>1, <4>1 DEF i0
    <3>2. CASE ~ (a > Top(m) - One)
      <4>1. PICK i \in Int : Rounds(a, One, i)
        BY <1>0, NearestRounds
      <4>2. Abs(a) <= (Pow2[m] - 1) * One
        <5>1. Pow2[m] - 1 \in Int /\ One \in Int /\ Pow2[m] \in Int
          BY <1>0, PowerOf
        <5>2. ((Pow2[m] - 1) + 1) * One = (Pow2[m] - 1) * One + One /\ (Pow2[m] - 1) * One \in Int
          BY <5>1, TimesNext
        <5>3. (Pow2[m] - 1) + 1 = Pow2[m]
          BY <5>1
        <5>4. Top(m) = (Pow2[m] - 1) * One + One
          BY <5>2, <5>3 DEF Top
        <5>5. Abs(a) = a
          BY <1>0, AbsSays
        <5> QED BY <1>0, <3>2, <5>1, <5>2, <5>4, <5>5
      <4>3. ByTop(a, m) = i
        BY <1>0, <4>1, <4>2, ByTopSays
      <4> QED BY <3>2, <4>1, <4>3 DEF i0
    <3> QED BY <3>1, <3>2
  <2>4. 0 <= i /\ i <= p
    <3>1. 0 \in Int /\ p \in Int /\ a >= 0 * One /\ 0 * One = 0
      <4>1. 0 * One = 0
        BY <1>0
      <4> QED BY <1>0, <4>1
    <3>2. i <= p /\ i >= 0
      BY <1>0, <2>1, <2>3, <3>1, RoundsWithin
    <3> QED BY <3>2
  <2>5. ASSUME NEW z \in Int, -p <= z, z < p, Rounds(v, One, z)
        PROVE  Signed(z, w) = Clip(Nearest(v, One) \div One, w)
    <3>1. z = j
      BY <1>0, <1>1, <2>5, RoundsOnce
    <3>2. Clip(j, w) = j
      <4>1. ~ (j > p - 1) /\ ~ (j < -p)
        BY <1>0, <2>5, <3>1
      <4> QED BY <1>3, <4>1
    <3>3. Signed(0 * Pow2[w] + z, w) = z
      <4>1. 0 \in Int /\ 1 <= w
        OBVIOUS
      <4> QED BY <2>5, <4>1, SignedIs DEF p
    <3>4. 0 * Pow2[w] + z = z
      <4>1. Pow2[w] \in Int
        BY PowerOf
      <4> QED BY <4>1
    <3> QED BY <1>2, <3>1, <3>2, <3>3, <3>4
  <2>6. CASE v < 0
    <3>1. -i \in Int /\ -p <= -i /\ -i < p
      BY <1>0, <2>4
    <3>2. Rounds(v, One, -i)
      <4>1. Rounds(-a, One, -i)
        BY <1>0, <2>3, RoundsNegative
      <4>2. -a = v
        BY <2>6, AbsSays DEF a
      <4> QED BY <4>1, <4>2
    <3>3. ToWord(v, m, s, w) = Signed(-i, w)
      BY <1>4, <1>7, <2>3, <2>6
    <3> QED BY <2>5, <3>1, <3>2, <3>3
  <2>7. CASE ~ (v < 0)
    <3>1. a = v /\ a < p * One
      BY <1>0, <1>7, <2>7, AbsSays DEF a
    <3>2. i < p
      <4>1. Abs(a) = a /\ Abs(a) <= Pow2[(w - 1) + Grid] /\ (w - 1) + Grid \in Nat
        <5>1. p * One = Pow2[(w - 1) + Grid]
          BY <1>0, PowerSum DEF p
        <5>2. Abs(a) = a
          BY <1>0, AbsSays
        <5> QED BY <1>0, <2>1, <5>1, <5>2
      <4>2. PICK n \in Nat, c \in Int : a = c * Pow2[n] /\ Abs(c) <= 2 * Pow2[m]
        BY <1>0, <2>2, <4>1, FormSays
      <4>3. Abs(c * Pow2[n]) < Pow2[w - 1] * One /\ Rounds(c * Pow2[n], One, i)
        BY <2>3, <3>1, <4>1, <4>2 DEF p
      <4>4. Abs(i) < Pow2[w - 1]
        BY <4>2, <4>3, RoundsBelow
      <4>5. Abs(i) = i
        BY <2>4, AbsSays
      <4> QED BY <4>4, <4>5 DEF p
    <3>3. -p <= i
      BY <1>0, <2>4
    <3>4. ToWord(v, m, s, w) = Signed(i, w)
      BY <1>4, <1>7, <2>3, <2>7
    <3> QED BY <2>3, <2>5, <3>1, <3>2, <3>3, <3>4
  <2> QED BY <2>6, <2>7
<1> QED BY <1>5, <1>6, <1>7

LEMMA ByMidSays ==
  ASSUME NEW m \in Nat, 3 <= m, Grid + m + 1 < Digits,
         NEW v \in Int, -(Pow2[m - 1] * One) <= v, 2 * v <= (Pow2[m] + 1) * One,
         NEW j \in Int, Rounds(v, One, j)
  PROVE  ByMid(v, m) = j
<1> DEFINE x == (Grid + m) * Pow2[m] + 3 * Pow2[m - 1]
<1>1. Bits(Fl(v + Mid(m), m), m) = x + j
  BY MidSum
<1>2. Bits(Mid(m), m) = x /\ x \in Int
  <2>1. 2 <= m /\ Grid + m < Digits
    BY Constants
  <2>2. Bits(Mid(m), m) = x /\ (Grid + m) * Pow2[m] \in Int
    BY <2>1, MidTop
  <2>3. 3 * Pow2[m - 1] \in Int
    BY HalfSays
  <2> QED BY <2>2, <2>3
<1> HIDE DEF x
<1> QED BY <1>1, <1>2 DEF ByMid

\* The low word is that of the number itself.
LEMMA LowWordSays ==
  ASSUME NEW v \in Int, Abs(v) <= Pow2[DMant - 1] * One, NEW j \in Int, Rounds(v, One, j)
  PROVE  LowWord(v) = Signed(j, FWord)
<1>0. /\ DMant \in Nat /\ 3 <= DMant /\ Grid + DMant + 1 < Digits /\ Grid + DMant \in Nat
      /\ FWord \in Nat /\ FWord + 1 <= DMant
  BY Constants, PcmAssumption
<1> DEFINE p == Pow2[DMant - 1] * One
<1>1. -p <= v /\ 2 * v <= (Pow2[DMant] + 1) * One
  <2>1. p \in Int /\ (2 * Pow2[DMant - 1] + 1) * One = 2 * p + One /\ One \in Nat
    <3>1. Pow2[DMant - 1] \in Int /\ One \in Int /\ One \in Nat
      BY <1>0, HalfSays, Constants, PowerOf DEF One
    <3>2. (2 * Pow2[DMant - 1]) * One = 2 * p /\ 2 * Pow2[DMant - 1] \in Int /\ p \in Int
      BY <3>1, Distributes, TwiceTimes
    <3>3. (2 * Pow2[DMant - 1] + 1) * One = (2 * Pow2[DMant - 1]) * One + One
      BY <3>1, <3>2, TimesNext
    <3> QED BY <3>1, <3>2, <3>3
  <2>2. Pow2[DMant] = 2 * Pow2[DMant - 1]
    BY <1>0, HalfSays
  <2>3. Abs(v) <= p
    OBVIOUS
  <2> HIDE DEF p
  <2> QED BY <2>1, <2>2, <2>3, AbsSays
<1>2. Bits(Fl(v + Mid(DMant), DMant), DMant) = ((Grid + DMant) * Pow2[DMant] + 3 * Pow2[DMant - 1]) + j
  BY <1>0, <1>1, MidSum
<1>3. PICK c \in Int : (Grid + DMant) * Pow2[DMant] + 3 * Pow2[DMant - 1] = c * Pow2[FWord]
  BY <1>0, MidMultiple
<1>4. Signed(c * Pow2[FWord] + j, FWord) = Signed(j, FWord)
  BY <1>0, SignedShift
<1> QED BY <1>2, <1>3, <1>4 DEF LowWord

LEMMA FormatNumbers ==
  ASSUME NEW m \in Nat, m <= Grid, NEW t \in Nat, Grid + t <= Digits,
         NEW b \in Nat \ {0}, b <= Pow2[t], NEW v \in Numbers(m, b)
  PROVE  v \in Int /\ Abs(v) <= b * One /\ Form(Abs(v), m)
<1>0. One \in Nat \ {0} /\ Grid \in Nat /\ Digits \in Nat /\ Pow2[t] \in Int
  BY Constants, PowerOf DEF One
<1>1. b * One <= Pow2[Digits]
  <2>1. b * One <= Pow2[t] * One /\ b * One \in Int
    <3>1. b \in Int
      OBVIOUS
    <3> QED BY <1>0, <3>1, Apart
  <2>2. Pow2[t + Grid] = Pow2[t] * One
    BY <1>0, PowerSum DEF One
  <2>3. t + Grid \in Nat /\ t + Grid <= Digits
    BY <1>0
  <2>4. Pow2[t + Grid] <= Pow2[Digits] /\ Pow2[t + Grid] \in Int /\ Pow2[Digits] \in Int
    BY <1>0, <2>3, PowerMono, PowerOf
  <2> QED BY <2>1, <2>2, <2>4
<1> QED BY <1>1, NumberSays

\* What the three lemmas above ask of either format.
LEMMA FormatRoom ==
  ASSUME NEW f \in Formats
  PROVE  /\ f[1] \in Nat /\ 3 <= f[1] /\ 2 <= f[1] /\ f[1] <= Grid /\ f[1] <= DMant
         /\ Grid + f[1] <= Digits /\ Grid + f[1] + 1 < Digits
  BY FormatSays, Constants

(* Within the ranges their comments give, the conversions to integers of     *)
(* typeconvert.h (lines 10-131) round to nearest, ties to even, and those of *)
(* a whole word clip: also where the word is put together from two parts.    *)
THEOREM RoundsToIntegerHolds == Spec => []RoundsToInteger
<1>0. One \in Nat \ {0} /\ One \in Int
  BY PowerOf, Constants DEF One
<1>1. Init => RoundsToInteger
  BY DEF Init, RoundsToInteger
<1>2. RoundsToInteger /\ [Next]_vars => RoundsToInteger'
  <2>1. CASE Next
    <3>1. ASSUME op' = "toInteger"
          PROVE  res' = IF arg'[2] = 0 THEN Nearest(arg'[1], One) \div One
                        ELSE Signed(Nearest(arg'[1], One) \div One, arg'[2])
      <4>1. CASE CallByMid
        <5>0. PICK f \in Formats : \E v \in Numbers(f[1], Pow2[f[1] - 1] + 1) :
                /\ v >= -(Pow2[f[1] - 1] * One) /\ 2 * v <= (Pow2[f[1]] + 1) * One
                /\ Called("toInteger", <<v, 0>>, ByMid(v, f[1]))
          BY <4>1 DEF CallByMid
        <5>1. PICK v \in Numbers(f[1], Pow2[f[1] - 1] + 1) :
                /\ v >= -(Pow2[f[1] - 1] * One) /\ 2 * v <= (Pow2[f[1]] + 1) * One
                /\ Called("toInteger", <<v, 0>>, ByMid(v, f[1]))
          BY <5>0
        <5>2. arg'[1] = v /\ arg'[2] = 0 /\ res' = ByMid(v, f[1])
          BY <5>1 DEF Called
        <5>3. Pow2[f[1] - 1] + 1 \in Nat \ {0} /\ Pow2[f[1] - 1] + 1 <= Pow2[f[1]]
              /\ Pow2[f[1] - 1] \in Int
          BY FormatRoom, HalfSays
        <5>4. v \in Int
          BY <5>3, FormatRoom, FormatNumbers
        <5>5. -(Pow2[f[1] - 1] * One) <= v /\ 2 * v <= (Pow2[f[1]] + 1) * One
          <6>1. Pow2[f[1] - 1] * One \in Int
            BY <1>0, <5>3, Distributes
          <6> QED BY <5>1, <5>4, <6>1
        <5>6. PICK j \in Int : Rounds(v, One, j)
          BY <1>0, <5>4, NearestRounds
        <5>7. ByMid(v, f[1]) = j
          BY <5>4, <5>5, <5>6, FormatRoom, ByMidSays
        <5> QED BY <5>2, <5>4, <5>6, <5>7, RoundedSays
      <4>2. CASE CallByTop
        <5>0. PICK f \in Formats : \E v \in Numbers(f[1], Pow2[f[1]] - 1) :
                Called("toInteger", <<v, 0>>, ByTop(v, f[1]))
          BY <4>2 DEF CallByTop
        <5>1. PICK v \in Numbers(f[1], Pow2[f[1]] - 1) :
                Called("toInteger", <<v, 0>>, ByTop(v, f[1]))
          BY <5>0
        <5>2. arg'[1] = v /\ arg'[2] = 0 /\ res' = ByTop(v, f[1])
          BY <5>1 DEF Called
        <5>3. Pow2[f[1]] - 1 \in Nat \ {0} /\ Pow2[f[1]] - 1 <= Pow2[f[1]]
          BY FormatRoom, HalfSays
        <5>4. v \in Int /\ Abs(v) <= (Pow2[f[1]] - 1) * One
          BY <5>3, FormatRoom, FormatNumbers
        <5>5. PICK j \in Int : Rounds(v, One, j)
          BY <1>0, <5>4, NearestRounds
        <5>6. ByTop(v, f[1]) = j
          BY <5>4, <5>5, FormatRoom, ByTopSays
        <5> QED BY <5>2, <5>4, <5>5, <5>6, RoundedSays
      <4>3. CASE CallLowWord
        <5>1. PICK v \in Numbers(DMant, Pow2[DMant - 1]) :
                Called("toInteger", <<v, FWord>>, LowWord(v))
          BY <4>3 DEF CallLowWord
        <5>2. arg'[1] = v /\ arg'[2] = FWord /\ res' = LowWord(v) /\ FWord # 0
          BY <5>1, PcmAssumption DEF Called
        <5>3. /\ DMant \in Nat /\ DMant <= Grid /\ DMant - 1 \in Nat /\ 2 <= DMant
              /\ Grid + (DMant - 1) <= Digits
          BY Constants, PcmAssumption
        <5>4. Pow2[DMant - 1] \in Nat \ {0} /\ Pow2[DMant - 1] <= Pow2[DMant - 1]
          BY <5>3, HalfSays
        <5>5. v \in Int /\ Abs(v) <= Pow2[DMant - 1] * One
          BY <5>3, <5>4, FormatNumbers
        <5>6. PICK j \in Int : Rounds(v, One, j)
          BY <1>0, <5>5, NearestRounds
        <5>7. LowWord(v) = Signed(j, FWord)
          BY <5>5, <5>6, LowWordSays
        <5> QED BY <5>2, <5>5, <5>6, <5>7, RoundedSays
      <4> QED BY <2>1, <3>1, <4>1, <4>2, <4>3, Callers
    <3>2. ASSUME op' = "toWord"
          PROVE  res' = Clip(Nearest(arg'[1], One) \div One, arg'[2])
      <4>0. PICK f \in Formats : \E v \in Numbers(f[1], Pow2[f[3]]) :
              Called("toWord", <<v, f[3]>>, ToWord(v, f[1], f[2], f[3]))
        BY <2>1, <3>2, Callers DEF CallToWord
      <4>1. PICK v \in Numbers(f[1], Pow2[f[3]]) :
              Called("toWord", <<v, f[3]>>, ToWord(v, f[1], f[2], f[3]))
        BY <4>0
      <4>2. arg'[1] = v /\ arg'[2] = f[3] /\ res' = ToWord(v, f[1], f[2], f[3])
        BY <4>1 DEF Called
      <4>3. /\ f[2] \in Nat /\ f[3] \in Nat /\ 1 <= f[2] /\ f[2] + 2 <= f[1]
            /\ f[3] - 1 - f[2] < f[1] /\ f[1] + 1 < f[3] /\ Grid + f[3] < Digits
            /\ Grid + f[3] <= Digits
        BY FormatSays, Constants
      <4>4. Pow2[f[3]] \in Nat \ {0} /\ Pow2[f[3]] <= Pow2[f[3]]
        <5>1. Pow2[f[3]] \in Nat \ {0}
          BY <4>3, PowerOf
        <5> QED BY <5>1
      <4>5. v \in Int /\ Form(Abs(v), f[1])
        BY <4>3, <4>4, FormatRoom, FormatNumbers
      <4>6. ToWord(v, f[1], f[2], f[3]) = Clip(Nearest(v, One) \div One, f[3])
        BY <4>3, <4>5, FormatRoom, ToWordSays
      <4> QED BY <4>2, <4>6
    <3> QED BY <3>1, <3>2 DEF RoundsToInteger
  <2>2. CASE UNCHANGED vars
    BY <2>2 DEF vars, RoundsToInteger
  <2> QED BY <2>1, <2>2
<1> QED BY <1>1, <1>2, PTL DEF Spec
=============================================================================
