----------------------------- MODULE NatLemmas ------------------------------
(***************************************************************************)
(* Induction on the natural numbers in a form that speaks of sets and      *)
(* functions only, and what it gives for functions defined by recursion.   *)
(***************************************************************************)
EXTENDS Integers, WellFoundedInduction, TLAPS

\* A nonempty set of naturals has a least member.
LEMMA Least ==
  ASSUME NEW T, T \subseteq Nat, T # {}
  PROVE  \E x \in T : \A y \in T : x <= y
<1>1. PICK x \in T : \A y \in T : ~ (<<y, x>> \in OpToRel(<,Nat))
  BY NatLessThanWellFounded, WFMin
<1>2. \A y \in T : ~ (y < x)
  BY <1>1 DEF OpToRel
<1> QED BY <1>2

\* A set with 0 and the successors of its members holds every natural number.
LEMMA Induct ==
  ASSUME NEW S, 0 \in S, \A n \in Nat : n \in S => n + 1 \in S
  PROVE  Nat \subseteq S
<1> DEFINE T == Nat \ S
<1>1. SUFFICES ASSUME T # {} PROVE FALSE
  OBVIOUS
<1>2. PICK x \in T : \A y \in T : x <= y
  <2> HIDE DEF T
  <2> QED BY <1>1, Least DEF T
<1>3. x \in Nat \ {0} /\ x - 1 \in Nat /\ x - 1 \notin T
  BY <1>2
<1>4. (x - 1) + 1 \in S
  BY <1>3
<1> QED BY <1>2, <1>3, <1>4

\* The same up to a bound.
LEMMA InductUpTo ==
  ASSUME NEW n \in Nat, NEW S, 0 \in S, \A i \in 1 .. n : i - 1 \in S => i \in S
  PROVE  0 .. n \subseteq S
<1> DEFINE R == {i \in Nat : i <= n => i \in S}
<1>1. 0 \in R
  OBVIOUS
<1>2. \A i \in Nat : i \in R => i + 1 \in R
  <2>1. SUFFICES ASSUME NEW i \in Nat, i \in R, i + 1 <= n PROVE i + 1 \in S
    OBVIOUS
  <2>2. i + 1 \in 1 .. n /\ (i + 1) - 1 \in S
    BY <2>1
  <2> QED BY <2>2
<1>3. Nat \subseteq R
  <2> HIDE DEF R
  <2> QED BY <1>1, <1>2, Induct
<1> QED BY <1>3

\* The function f[i \in 0 .. n] == IF i = 0 THEN z ELSE F[i, f[i - 1]] on natural numbers.
Recurs(f, n, z, F) ==
  /\ f \in [0 .. n -> Nat] /\ f[0] = z
  /\ \A i \in 1 .. n : f[i] = F[<<i, f[i - 1]>>]

\* There is one.
LEMMA Defined ==
  ASSUME NEW n \in Nat, NEW z \in Nat, NEW F \in [(1 .. n) \X Nat -> Nat]
  PROVE  \E f : Recurs(f, n, z, F)
<1> DEFINE S == {m \in 0 .. n : \E f : Recurs(f, m, z, F)}
<1>1. 0 \in S
  <2> DEFINE h == [i \in 0 .. 0 |-> z]
  <2>1. h \in [0 .. 0 -> Nat] /\ h[0] = z
    OBVIOUS
  <2>2. \A i \in 1 .. 0 : h[i] = F[<<i, h[i - 1]>>]
    OBVIOUS
  <2> HIDE DEF h
  <2> QED BY <2>1, <2>2 DEF Recurs
<1>2. \A m \in 1 .. n : m - 1 \in S => m \in S
  <2>0. SUFFICES ASSUME NEW m \in 1 .. n, m - 1 \in S PROVE m \in S
    OBVIOUS
  <2>1. PICK g : Recurs(g, m - 1, z, F)
    BY <2>0
  <2>2. g[m - 1] \in Nat /\ F[<<m, g[m - 1]>>] \in Nat
    BY <2>1 DEF Recurs
  <2> DEFINE h == [i \in 0 .. m |-> IF i = m THEN F[<<m, g[m - 1]>>] ELSE g[i]]
  <2>3. h \in [0 .. m -> Nat] /\ h[0] = z
    BY <2>1, <2>2 DEF Recurs
  <2>4. ASSUME NEW i \in 1 .. m PROVE h[i] = F[<<i, h[i - 1]>>]
    <3>1. CASE i = m
      <4>1. h[m] = F[<<m, g[m - 1]>>] /\ h[m - 1] = g[m - 1]
        OBVIOUS
      <4> QED BY <3>1, <4>1
    <3>2. CASE i \in 1 .. m - 1
      <4>1. h[i] = g[i] /\ h[i - 1] = g[i - 1]
        BY <3>2
      <4> QED BY <2>1, <3>2, <4>1 DEF Recurs
    <3> QED BY <3>1, <3>2
  <2>5. Recurs(h, m, z, F)
    BY <2>3, <2>4 DEF Recurs
  <2> HIDE DEF h
  <2> QED BY <2>5
<1>3. 0 .. n \subseteq S
  <2> HIDE DEF S
  <2> QED BY <1>1, <1>2, InductUpTo
<1> QED BY <1>3
-----------------------------------------------------------------------------
(* Measures of several natural numbers, the first counting most: what every  *)
(* step makes smaller cannot go on for ever.                                 *)
Below(n) == LexProductOrdering(OpToRel(<, Nat), Nat, n)

LEMMA BelowIsWellFounded ==
  ASSUME NEW n \in Nat
  PROVE  IsWellFoundedOn(Below(n), [1 .. n -> Nat])
  BY NatLessThanWellFounded, WFLexProductOrdering DEF Below

\* One number is smaller and those before it are the same.
LEMMA Lowers ==
  ASSUME NEW n \in Nat, NEW x \in [1 .. n -> Nat], NEW y \in [1 .. n -> Nat],
         NEW j \in 1 .. n, x[j] < y[j], \A i \in 1 .. j - 1 : x[i] = y[i]
  PROVE  <<x, y>> \in Below(n)
<1>1. <<x[j], y[j]>> \in OpToRel(<, Nat)
  BY DEF OpToRel
<1> DEFINE R == OpToRel(<, Nat)
<1> HIDE DEF R
<1>2. <<x, y>> \in LexProductOrdering(R, Nat, n)
  BY <1>1 DEF LexProductOrdering, R
<1> QED BY <1>2 DEF Below, R

LEMMA LowersThree ==
  ASSUME NEW a \in Nat, NEW b \in Nat, NEW c \in Nat,
         NEW x \in Nat, NEW y \in Nat, NEW z \in Nat,
         \/ a < x
         \/ a = x /\ b < y
         \/ a = x /\ b = y /\ c < z
  PROVE  <<<<a, b, c>>, <<x, y, z>>>> \in Below(3)
<1> DEFINE m == <<a, b, c>>
           n == <<x, y, z>>
<1>1. m \in [1 .. 3 -> Nat] /\ n \in [1 .. 3 -> Nat]
  OBVIOUS
<1>2. m[1] = a /\ m[2] = b /\ m[3] = c /\ n[1] = x /\ n[2] = y /\ n[3] = z
  OBVIOUS
<1> HIDE DEF m, n
<1>3. \E j \in 1 .. 3 : m[j] < n[j] /\ \A i \in 1 .. j - 1 : m[i] = n[i]
  <2>1. CASE a < x
    BY <1>2, <2>1
  <2>2. CASE a = x /\ b < y
    BY <1>2, <2>2
  <2>3. CASE a = x /\ b = y /\ c < z
    BY <1>2, <2>3
  <2> QED BY <2>1, <2>2, <2>3
<1>4. <<m, n>> \in Below(3)
  BY <1>1, <1>3, Lowers
<1> QED BY <1>4 DEF m, n

LEMMA LowersFour ==
  ASSUME NEW a \in Nat, NEW b \in Nat, NEW c \in Nat, NEW d \in Nat,
         NEW w \in Nat, NEW x \in Nat, NEW y \in Nat, NEW z \in Nat,
         \/ a < w
         \/ a = w /\ b < x
         \/ a = w /\ b = x /\ c < y
         \/ a = w /\ b = x /\ c = y /\ d < z
  PROVE  <<<<a, b, c, d>>, <<w, x, y, z>>>> \in Below(4)
<1> DEFINE m == <<a, b, c, d>>
           n == <<w, x, y, z>>
<1>1. m \in [1 .. 4 -> Nat] /\ n \in [1 .. 4 -> Nat]
  OBVIOUS
<1>2. /\ m[1] = a /\ m[2] = b /\ m[3] = c /\ m[4] = d
      /\ n[1] = w /\ n[2] = x /\ n[3] = y /\ n[4] = z
  OBVIOUS
<1> HIDE DEF m, n
<1>3. \E j \in 1 .. 4 : m[j] < n[j] /\ \A i \in 1 .. j - 1 : m[i] = n[i]
  <2>1. CASE a < w
    BY <1>2, <2>1
  <2>2. CASE a = w /\ b < x
    BY <1>2, <2>2
  <2>3. CASE a = w /\ b = x /\ c < y
    BY <1>2, <2>3
  <2>4. CASE a = w /\ b = x /\ c = y /\ d < z
    BY <1>2, <2>4
  <2> QED BY <2>1, <2>2, <2>3, <2>4
<1>4. <<m, n>> \in Below(4)
  BY <1>1, <1>3, Lowers
<1> QED BY <1>4 DEF m, n
=============================================================================
