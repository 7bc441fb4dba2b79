--------------------------- MODULE FaadDecProofs ---------------------------
(***************************************************************************)
(* Proofs about faad_dec: its fields keep their types, the handle and the  *)
(* file are released by exit(), and run() hands out the samples of the     *)
(* caller's position, for every frame size, table, file, set of damaged    *)
(* frames and sequence of calls.                                           *)
(***************************************************************************)
EXTENDS FaadDec, TLAPS

(* Arithmetic of the machine integers. *)

\* A number below the modulus is its own remainder, a small negative one wraps once.
LEMMA ModOnce ==
  ASSUME NEW W \in Nat, NEW x \in Int, 0 < W
  PROVE  /\ x % W \in 0 .. W - 1
         /\ 0 <= x /\ x < W => x % W = x
         /\ -W <= x /\ x < 0 => x % W = x + W
  BY SMTT(30)

\* Division with remainder: a position is a frame and an offset in it.
LEMMA DivMod ==
  ASSUME NEW p \in Nat, NEW f \in Nat, 0 < f
  PROVE  /\ p \div f \in Nat /\ p % f \in 0 .. f - 1
         /\ p = ((p \div f) * f) + (p % f)
  BY SMTT(30)

\* Frames up to the k-th take no more samples than k frames.
LEMMA MulMono ==
  ASSUME NEW a \in Nat, NEW b \in Nat, NEW f \in Nat, a <= b
  PROVE  a * f \in Nat /\ a * f <= b * f
  BY SMTT(30)

LEMMA MulSucc ==
  ASSUME NEW a \in Int, NEW f \in Nat
  PROVE  a * f \in Int /\ (a + 1) * f = a * f + f /\ (a - 1) * f = a * f - f
  BY SMTT(30)

\* The three conversions: uint64_t, unsigned and long keep what fits them.
LEMMA Conversions ==
  ASSUME NEW x \in Int
  PROVE  /\ Wrap(x) \in 0 .. U64 - 1
         /\ 0 <= x /\ x < U64 => Wrap(x) = x
         /\ -U64 <= x /\ x < 0 => Wrap(x) = x + U64
         /\ 0 <= x /\ x < U32 => UInt(x) = x
         /\ Long(x) \in Int
         /\ 0 <= x /\ 2 * x < U32 => Long(x) = x
<1>1. U32 \in Nat /\ U64 \in Nat /\ 0 < U32 /\ 0 < U64
  <2>1. /\ U32 \in Nat /\ U64 \in Nat /\ U32 <= U64
        /\ MaxPos \in Nat /\ MaxLost \in Nat /\ Ents \in Nat
        /\ FrameSize \in Nat /\ OutSize \in Nat /\ FrameSize > 0
        /\ 2 * (MaxPos + MaxLost + (Ents * FrameSize) + 2 * FrameSize + OutSize) < U32
    BY FaadAssumption
  <2>2. Ents * FrameSize \in Nat
    BY <2>1, MulMono
  <2> QED BY <2>1, <2>2
<1>2. /\ x % U64 \in 0 .. U64 - 1
      /\ 0 <= x /\ x < U64 => x % U64 = x
      /\ -U64 <= x /\ x < 0 => x % U64 = x + U64
  BY <1>1, ModOnce
<1>3. x % U32 \in 0 .. U32 - 1 /\ (0 <= x /\ x < U32 => x % U32 = x)
  BY <1>1, ModOnce
<1>4. Long(x) \in Int /\ (0 <= x /\ 2 * x < U32 => Long(x) = x)
  BY <1>1, <1>3 DEF Long
<1> QED BY <1>1, <1>2, <1>3, <1>4 DEF Wrap, UInt
-----------------------------------------------------------------------------
\* What the assumptions on the constants give the arithmetic below.
LEMMA Sizes ==
  /\ FrameSize \in Nat /\ 0 < FrameSize /\ OutSize \in Nat
  /\ Ents \in Nat /\ Avail \in 0 .. Ents /\ Samples \in 0 .. MaxPos
  /\ MaxPos \in Nat /\ MaxLost \in Nat /\ Ents * FrameSize \in Nat
  /\ U32 \in Nat /\ U64 \in Nat /\ U32 <= U64
  /\ 2 * (MaxPos + MaxLost + (Ents * FrameSize) + 2 * FrameSize + OutSize) < U32
<1>1. Ents * FrameSize \in Nat
  BY FaadAssumption, MulMono
<1> QED BY <1>1, FaadAssumption

\* decoded, read through the wrap: below zero it is out of reach of any end.
LEMMA DecodedRead ==
  ASSUME TypeOK, Bounds, Bookkeeping, OutSize = FrameSize
  PROVE  LET x == sampleId * FrameSize - Delay - lost
         IN  /\ sampleId * FrameSize \in Nat /\ x \in Int /\ Delay \in 0 .. FrameSize
             /\ x >= 0 => decoded = x
             /\ x < 0 => decoded = x + U64 /\ decoded > MaxPos
             /\ x >= -FrameSize - MaxLost /\ x <= MaxPos + Ents * FrameSize
<1> DEFINE x == sampleId * FrameSize - Delay - lost
<1>1. sampleId * FrameSize \in Nat /\ lost \in Nat /\ Delay \in 0 .. FrameSize
  BY Sizes, MulMono DEF TypeOK, Delay
<1>2. /\ x \in Int /\ x >= -FrameSize - MaxLost /\ x <= MaxPos + Ents * FrameSize
      /\ decoded = Wrap(x)
  BY <1>1, Sizes DEF Bounds, Bookkeeping
<1> HIDE DEF x
<1>3. /\ 0 <= x /\ x < U64 => Wrap(x) = x
      /\ -U64 <= x /\ x < 0 => Wrap(x) = x + U64
  BY <1>2, Conversions
<1>4. (x >= 0 => decoded = x) /\ (x < 0 => decoded = x + U64 /\ decoded > MaxPos)
  BY <1>2, <1>3, Sizes
<1> QED BY <1>1, <1>2, <1>4 DEF x

\* The head of seek(): decoded less its frames is minus the delay and what was lost.
LEMMA OffsetValue ==
  ASSUME TypeOK, Bounds, Bookkeeping, OutSize = FrameSize
  PROVE  /\ Offset = Wrap(-Delay - lost)
         /\ Offset = IF Delay + lost = 0 THEN 0 ELSE U64 - Delay - lost
<1> DEFINE m == sampleId * FrameSize
           d == Delay + lost
<1>1. /\ m \in Nat /\ Delay \in 0 .. FrameSize
      /\ m - Delay - lost >= 0 => decoded = m - Delay - lost
      /\ m - Delay - lost < 0 => decoded = m - Delay - lost + U64
      /\ m <= MaxPos + Ents * FrameSize
  BY DecodedRead DEF Bounds
<1>2. d \in Nat /\ d <= FrameSize + MaxLost /\ lost \in Nat
  BY <1>1, Sizes DEF TypeOK, Bounds
<1>3. m - Delay - lost = m - d /\ -Delay - lost = -d
  BY <1>1, <1>2
<1>4. UInt(m) = m
  BY <1>1, Sizes, Conversions
<1>5. decoded - m = -d \/ decoded - m = U64 - d
  BY <1>1, <1>2, <1>3, Sizes
<1> HIDE DEF m, d
<1>6. decoded - m = U64 - d => d > 0
  BY <1>1, <1>2, <1>3, <1>5, Sizes
<1>7. /\ d = 0 => Wrap(-d) = 0
      /\ d > 0 => Wrap(-d) = U64 - d /\ Wrap(U64 - d) = U64 - d
  BY <1>2, Sizes, Conversions
<1>8. Wrap(decoded - m) = Wrap(-d) /\ Wrap(-d) = IF d = 0 THEN 0 ELSE U64 - d
  BY <1>2, <1>5, <1>6, <1>7, Sizes
<1>9. Offset = Wrap(decoded - m)
  BY <1>4 DEF Offset, m
<1>10. (d = 0 <=> Delay + lost = 0) /\ U64 - d = U64 - Delay - lost /\ -d = -Delay - lost
  BY <1>1, <1>2, Sizes DEF d
<1> QED BY <1>8, <1>9, <1>10
-----------------------------------------------------------------------------
\* What run() keeps of a frame is at most a frame, and what it skips is part of it.
LEMMA KeptRange ==
  ASSUME TypeOK
  PROVE  /\ Decodes \in Nat /\ Kept \in Int /\ Skipped \in Int
         /\ Wrap(decoded + Decodes) \in 0 .. U64 - 1
<1>1. Decodes \in Nat
  BY Sizes DEF Decodes
<1>2. Wrap(decoded + Decodes) \in 0 .. U64 - 1
  BY <1>1, Sizes, Conversions DEF TypeOK
<1>3. Kept \in Int
  BY <1>1, <1>2, Sizes DEF Kept, Min2, TypeOK
<1>4. Skipped \in Int
  BY <1>3 DEF Skipped, Min2, TypeOK
<1> QED BY <1>1, <1>2, <1>3, <1>4

\* The subscript of the specification, taken apart.
LEMMA Unchanged ==
  vars' = vars <=>
    /\ UNCHANGED <<phase, handle, file, opens, closes, decoded, sampleId, remSamples,
                   endSamples, current, primed, prev, pos, displaced, lost>>
    /\ out' = out
  BY DEF vars, object, fields, neaac, hist
OutType == [ret : Returns, from : Int, n : Int, clean : BOOLEAN]

LEMMA NothingType == \A r \in Returns : Nothing(r) \in OutType /\ Nothing(r).n = 0
  BY DEF Nothing, OutType

LEMMA Results ==
  "none" \in Returns /\ "ok" \in Returns /\ "end" \in Returns /\ "short" \in Returns
    /\ "null" \in Returns /\ "past" \in Returns /\ "fail" \in Returns
  BY DEF Returns
-----------------------------------------------------------------------------
Shape == TypeOK /\ Lifecycle /\ Bounds

LEMMA InitShape == Init => Shape
<1> SUFFICES ASSUME Init PROVE Shape
  OBVIOUS
<1>1. TypeOK
  <2>1. out \in OutType
    BY NothingType, Results DEF Init
  <2>2. 0 \in 0 .. U64 - 1 /\ 0 \in 0 .. MaxPos /\ 0 \in 0 .. Ents
    BY Sizes
  <2>3. prev \in NoFrame .. Ents - 1
    BY Sizes DEF Init, NoFrame
  <2>4. /\ phase = "new" /\ handle = "null" /\ opens = 0 /\ closes = 0
        /\ decoded = 0 /\ endSamples = 0 /\ current = 0
        /\ sampleId = 0 /\ remSamples = 0 /\ pos = 0 /\ displaced = 0 /\ lost = 0
    BY DEF Init
  <2>5. file \in BOOLEAN /\ primed \in BOOLEAN
    BY DEF Init
  <2> QED BY <2>1, <2>2, <2>3, <2>4, <2>5 DEF TypeOK, OutType
<1>2. Lifecycle
  BY DEF Init, Lifecycle, NothingHeld
<1>3. Bounds
  BY Sizes DEF Init, Bounds
<1> QED BY <1>1, <1>2, <1>3 DEF Shape

LEMMA DecInitShape == Shape /\ DecInit => Shape'
<1> SUFFICES ASSUME Shape, DecInit PROVE Shape'
  OBVIOUS
<1> USE DEF Shape, fields, neaac, hist
<1>1. CASE InitUnreadable
  <2>1. TypeOK'
    BY <1>1 DEF InitUnreadable, TypeOK, Nothing, Returns
  <2>2. Lifecycle' /\ Bounds'
    BY <1>1 DEF InitUnreadable, Lifecycle, NothingHeld, Nothing, Bounds
  <2> QED BY <2>1, <2>2
<1>2. CASE InitRejected
  <2>1. TypeOK'
    BY <1>2 DEF InitRejected, TypeOK, Lifecycle, Nothing, Returns
  <2>2. Lifecycle' /\ Bounds'
    BY <1>2 DEF InitRejected, Lifecycle, NothingHeld, Nothing, Bounds, TypeOK
  <2> QED BY <2>1, <2>2
<1>3. CASE InitDone
  <2>1. TypeOK'
    BY <1>3, Sizes DEF InitDone, TypeOK, Lifecycle, Nothing, Returns
  <2>2. Lifecycle' /\ Bounds'
    BY <1>3, Sizes DEF InitDone, Lifecycle, NothingHeld, Bounds
  <2> QED BY <2>1, <2>2
<1> QED BY <1>1, <1>2, <1>3 DEF DecInit

LEMMA SeekShape == Shape /\ Reposition => Shape'
<1> SUFFICES ASSUME Shape,
                    NEW p \in 0 .. MaxPos, NEW e \in 0 .. MaxPos,
                    p > e => lost + sampleId * FrameSize <= MaxLost,
                    Seek(p, e)
             PROVE  Shape'
  BY DEF Reposition
<1> USE DEF Shape, object, neaac
<1>1. phase = "open" /\ UNCHANGED <<phase, handle, file, opens, closes, primed, prev>>
  BY DEF Seek, SeekTo, SeekPast
<1>2. Lifecycle'
  BY <1>1 DEF Lifecycle, NothingHeld
<1>3. sampleId * FrameSize \in Nat /\ Offset \in 0 .. U64 - 1
  <2>1. sampleId * FrameSize \in Nat
    BY Sizes, MulMono DEF TypeOK
  <2>2. UInt(sampleId * FrameSize) \in Int
    BY <2>1, Sizes DEF UInt
  <2> QED BY <2>1, <2>2, Conversions DEF Offset, TypeOK
<1>4. CASE SeekPast(p, e)
  <2>1. TypeOK'
    BY <1>1, <1>3, <1>4, Sizes DEF SeekPast, TypeOK, Nothing, Returns
  <2>2. Bounds'
    BY <1>3, <1>4, Sizes DEF SeekPast, Bounds, TypeOK
  <2> QED BY <1>2, <2>1, <2>2
<1>5. CASE SeekTo(p, e)
  <2>1. /\ p \div FrameSize \in Nat /\ p % FrameSize \in Nat
        /\ (p \div FrameSize) * FrameSize <= p
    <3>1. /\ p \div FrameSize \in Nat /\ p % FrameSize \in 0 .. FrameSize - 1
          /\ p = ((p \div FrameSize) * FrameSize) + (p % FrameSize)
      BY Sizes, DivMod
    <3>2. (p \div FrameSize) * FrameSize \in Nat
      BY <3>1, Sizes, MulMono
    <3> QED BY <3>1, <3>2, Sizes
  <2>2. remSamples' \in Int
    <3>1. Wrap((p % FrameSize) - Offset) \in Int
      BY <1>3, <2>1, Sizes, Conversions
    <3> QED BY <1>5, <3>1, Conversions DEF SeekTo
  <2>3. decoded' \in 0 .. U64 - 1
    BY <1>5, <2>2, Sizes, Conversions DEF SeekTo
  <2>4. current' \in 0 .. Ents
    BY <1>5, <2>1, Sizes DEF SeekTo, SeekFrame, TypeOK
  <2>5. TypeOK'
    BY <1>1, <1>5, <2>1, <2>2, <2>3, <2>4, Sizes
    DEF SeekTo, TypeOK, Nothing, Returns
  <2>6. Bounds'
    BY <1>5, <2>1, Sizes DEF SeekTo, Bounds
  <2> QED BY <1>2, <2>5, <2>6
<1> QED BY <1>4, <1>5 DEF Seek

LEMMA RunShape == Shape /\ Run => Shape'
<1> SUFFICES ASSUME Shape, Run PROVE Shape'
  OBVIOUS
<1> USE DEF Shape, object, fields, neaac, hist
<1>1. Lifecycle'
  BY DEF Run, Lifecycle, NothingHeld, RunRefused, RunUnread, RunNull, RunDecoded
<1>2. CASE RunRefused \/ RunUnread
  <2>1. out' \in OutType
    BY <1>2, NothingType, Results DEF RunRefused, RunUnread
  <2>2. TypeOK'
    BY <1>2, <2>1 DEF Run, RunRefused, RunUnread, TypeOK, OutType
  <2>3. Bounds'
    BY <1>2 DEF RunRefused, RunUnread, Bounds
  <2> QED BY <1>1, <2>2, <2>3
<1>3. CASE RunNull
  <2>1. TypeOK'
    BY <1>3, Sizes DEF Run, RunNull, FrameReadable, TypeOK, Nothing, Returns, NoFrame
  <2>2. Bounds'
    BY <1>3 DEF RunNull, Bounds
  <2> QED BY <1>1, <2>1, <2>2
<1>4. CASE RunDecoded
  <2>1. /\ Decodes \in Nat /\ Kept \in Int /\ Skipped \in Int
        /\ Wrap(decoded + Decodes) \in 0 .. U64 - 1
    BY KeptRange
  <2>2. out' \in [ret : Returns, from : Int, n : Int, clean : BOOLEAN]
    <3>1. (current - 1) * OutSize + remSamples \in Int
      BY Sizes, MulSucc DEF TypeOK
    <3>2. CASE current \in Soft
      BY <1>4, <3>2, NothingType, Results DEF RunDecoded, OutType
    <3>3. CASE current \notin Soft
      <4>1. out' = [ret |-> "ok", n |-> Kept - Skipped,
                    from |-> (current - 1) * OutSize + remSamples,
                    clean |-> prev = current - 1]
        BY <1>4, <3>3 DEF RunDecoded
      <4>2. Kept - Skipped \in Int /\ (prev = current - 1) \in BOOLEAN
        BY <2>1
      <4> QED BY <3>1, <4>1, <4>2, Results
    <3> QED BY <3>2, <3>3
  <2>3. TypeOK'
    <3>1. /\ UNCHANGED <<phase, handle, file, opens, closes, endSamples, lost>>
          /\ decoded' \in 0 .. U64 - 1 /\ sampleId' \in Nat /\ current' \in 0 .. Ents
          /\ primed' = TRUE /\ prev' \in NoFrame .. Ents - 1
      BY <1>4, <2>1, Sizes DEF Run, RunDecoded, FrameReadable, TypeOK, NoFrame
    <3>2. remSamples' \in Int /\ pos' \in Int /\ displaced' \in Nat
      BY <1>4, <2>1 DEF RunDecoded, TypeOK
    <3> QED BY <2>2, <3>1, <3>2 DEF TypeOK
  <2>4. Bounds'
    <3>1. sampleId < Ents /\ sampleId' = sampleId + 1 /\ lost' = lost
      BY <1>4, Sizes DEF RunDecoded, Refuses, TypeOK
    <3>2. (sampleId + 1) * FrameSize <= Ents * FrameSize
      BY <3>1, Sizes, MulMono DEF TypeOK
    <3> QED BY <3>1, <3>2, Sizes DEF Bounds, TypeOK
  <2> QED BY <1>1, <2>3, <2>4
<1> QED BY <1>2, <1>3, <1>4 DEF Run

LEMMA ExitShape == Shape /\ Exit => Shape'
<1> SUFFICES ASSUME Shape, Exit PROVE Shape'
  OBVIOUS
<1> USE DEF Shape, Exit, Mp4Close, fields, neaac, hist
<1>1. \/ handle = "null" /\ opens = 0 /\ closes = 0
      \/ handle = "live" /\ opens = 1 /\ closes = 0
      \/ handle = "freed" /\ opens = 1 /\ closes = 1 /\ out.ret = "fail"
  BY DEF TypeOK, Lifecycle
<1>2. TypeOK'
  <2>1. closes' \in 0 .. 2
    BY <1>1
  <2> QED BY <2>1 DEF TypeOK
<1>3. NothingHeld'
  BY <1>1 DEF NothingHeld
<1>4. Lifecycle' /\ Bounds'
  BY <1>3 DEF Lifecycle, Bounds
<1> QED BY <1>2, <1>4

LEMMA ShapeStep == Shape /\ [Next]_vars => Shape'
<1>1. ASSUME Shape, UNCHANGED vars PROVE Shape'
  BY <1>1, Unchanged DEF Shape, TypeOK, Lifecycle, NothingHeld, Bounds
<1> QED BY <1>1, DecInitShape, SeekShape, RunShape, ExitShape DEF Next

(* The variables keep their types and ranges: above all the reader's frame   *)
(* never leaves the frame table, whatever frame seek() is asked for.         *)
THEOREM TypeCorrect == Spec => []TypeOK
<1>1. Shape => TypeOK
  BY DEF Shape
<1> QED BY <1>1, InitShape, ShapeStep, PTL DEF Spec

(* However init() ended and whatever run() and seek() returned, after exit() *)
(* every decoder that was opened has been closed, none twice but one that    *)
(* init() refused, and the file is closed.                                   *)
THEOREM Released == Spec => []NothingHeld
<1>1. Shape => NothingHeld
  BY DEF Shape, Lifecycle
<1> QED BY <1>1, InitShape, ShapeStep, PTL DEF Spec
-----------------------------------------------------------------------------
(* The position of what is handed out, when a frame of the time line is a    *)
(* frame of the decoder.                                                     *)
Steady == Bookkeeping /\ InStep /\ OverlapReady /\ InPlace /\ CleanOverlap

\* A call that hands out nothing says nothing about the position.
LEMMA SilentCall ==
  ASSUME NEW r \in Returns, out' = Nothing(r)
  PROVE  InPlace' /\ CleanOverlap'
  BY NothingType DEF InPlace, CleanOverlap

LEMMA InitSteady == ASSUME Init PROVE Steady
<1>1. FrameSize \in Nat /\ 0 * FrameSize = 0 /\ Wrap(0) = 0
  BY Sizes, Conversions
<1>2. out.n = 0
  BY NothingType, Results DEF Init
<1>3. /\ decoded = 0 /\ sampleId = 0 /\ remSamples = 0 /\ current = 0 /\ Delay = 0
      /\ ~primed /\ pos = 0 /\ displaced = 0 /\ lost = 0
  BY DEF Init, Delay
<1>4. Bookkeeping
  BY <1>1, <1>3 DEF Bookkeeping
<1>5. InStep /\ OverlapReady
  BY <1>1, <1>3 DEF InStep, OverlapReady
<1> QED BY <1>2, <1>4, <1>5 DEF Steady, InPlace, CleanOverlap

LEMMA DecInitSteady == ASSUME Shape, Steady, DecInit PROVE Steady'
<1> USE DEF fields, neaac, hist
<1>1. InPlace' /\ CleanOverlap'
  BY SilentCall, Results DEF DecInit, InitUnreadable, InitRejected, InitDone
<1>2. CASE InitUnreadable \/ InitRejected
  BY <1>1, <1>2 DEF InitUnreadable, InitRejected,
     Steady, Bookkeeping, InStep, OverlapReady, Delay
<1>3. CASE InitDone
  <2>1. FrameSize \in Nat /\ 0 * FrameSize = 0 /\ Wrap(0) = 0
    BY Sizes, Conversions
  <2>2. ~primed /\ pos = 0 /\ displaced = 0 /\ lost = 0
    BY <1>3 DEF InitDone, Shape, Lifecycle
  <2>3. /\ decoded' = 0 /\ sampleId' = 0 /\ remSamples' = 0 /\ current' = 0
        /\ ~primed' /\ pos' = 0 /\ displaced' = 0 /\ lost' = 0 /\ Delay' = 0
    BY <1>3, <2>2 DEF InitDone, Delay
  <2>4. Bookkeeping'
    BY <2>1, <2>3 DEF Bookkeeping
  <2>5. InStep' /\ OverlapReady'
    BY <2>1, <2>3 DEF InStep, OverlapReady
  <2> QED BY <1>1, <2>4, <2>5 DEF Steady
<1> QED BY <1>2, <1>3 DEF DecInit

\* What seek() leaves to be skipped, for any position: the offset in the frame, the
\* decoder's delay and what failed seeks have lost.
LEMMA SkipValue ==
  ASSUME Shape, Bookkeeping, OutSize = FrameSize, NEW p \in 0 .. MaxPos
  PROVE  Long(Wrap((p % FrameSize) - Offset)) = (p % FrameSize) + Delay + lost
<1> DEFINE r == p % FrameSize
           d == Delay + lost
<1>1. r \in 0 .. FrameSize - 1
  BY Sizes, DivMod
<1>2. /\ Delay \in 0 .. FrameSize /\ lost \in Nat /\ d \in Nat /\ d <= FrameSize + MaxLost
      /\ Offset = IF d = 0 THEN 0 ELSE U64 - d
  <2>1. Delay \in 0 .. FrameSize
    BY Sizes DEF Delay
  <2>2. lost \in Nat /\ lost <= MaxLost
    BY DEF Shape, TypeOK, Bounds
  <2>3. Offset = IF Delay + lost = 0 THEN 0 ELSE U64 - Delay - lost
    BY OffsetValue DEF Shape
  <2> QED BY <2>1, <2>2, <2>3, Sizes
<1> HIDE DEF r, d
<1>3. /\ d = 0 => Wrap(r) = r
      /\ d > 0 => Wrap(r - (U64 - d)) = r + d
  BY <1>1, <1>2, Sizes, Conversions
<1>4. Wrap(r - Offset) = r + d
  BY <1>1, <1>2, <1>3
<1>5. Long(r + d) = r + d
  BY <1>1, <1>2, Sizes, Conversions
<1>6. r + d = r + Delay + lost
  BY <1>1, <1>2 DEF d
<1> QED BY <1>4, <1>5, <1>6 DEF r

\* A successful seek.
LEMMA SeekToFields ==
  ASSUME Shape, Steady, OutSize = FrameSize,
         NEW p \in 0 .. MaxPos, NEW e \in 0 .. MaxPos, SeekTo(p, e)
  PROVE  /\ remSamples' = (p % FrameSize) + Delay + lost
         /\ decoded' = Wrap((p \div FrameSize) * FrameSize - Delay - lost)
<1> DEFINE r == p % FrameSize
           m == (p \div FrameSize) * FrameSize
<1>1. r \in 0 .. FrameSize - 1 /\ m \in Nat /\ p = m + r
  <2>1. /\ p \div FrameSize \in Nat /\ r \in 0 .. FrameSize - 1
        /\ p = ((p \div FrameSize) * FrameSize) + r
    BY Sizes, DivMod
  <2>2. m \in Nat
    BY <2>1, Sizes, MulMono
  <2> QED BY <2>1, <2>2
<1>2. Delay \in 0 .. FrameSize /\ lost \in Nat
  BY Sizes DEF Delay, Shape, TypeOK
<1>3. remSamples' = r + Delay + lost /\ decoded' = Wrap(p - remSamples')
  BY SkipValue DEF SeekTo, Steady
<1> HIDE DEF r, m
<1>4. p - remSamples' = m - Delay - lost
  BY <1>1, <1>2, <1>3
<1> QED BY <1>3, <1>4 DEF r, m

LEMMA SeekSteady ==
  ASSUME Shape, Steady, OutSize = FrameSize, Reposition
  PROVE  Steady'
<1> SUFFICES ASSUME NEW p \in 0 .. MaxPos, NEW e \in 0 .. MaxPos, Seek(p, e)
             PROVE  Steady'
  BY DEF Reposition
<1> USE DEF neaac
<1>1. InPlace' /\ CleanOverlap'
  BY SilentCall, Results DEF Seek, SeekTo, SeekPast
<1>2. /\ Delay' = Delay /\ Delay \in 0 .. FrameSize /\ (primed => Delay = FrameSize)
      /\ lost \in Nat /\ lost <= MaxLost
      /\ displaced \in Nat /\ primed' = primed /\ prev' = prev
  BY Sizes DEF Seek, SeekTo, SeekPast, Delay, Shape, TypeOK, Bounds
<1>3. CASE SeekTo(p, e)
  <2>1. /\ remSamples' = (p % FrameSize) + Delay + lost
        /\ decoded' = Wrap((p \div FrameSize) * FrameSize - Delay - lost)
    BY <1>3, SeekToFields
  <2>2. /\ sampleId' = p \div FrameSize /\ lost' = lost
        /\ pos' = p /\ displaced' = lost
        /\ sampleId' < Ents => current' = sampleId'
    BY <1>3, Sizes, DivMod DEF SeekTo, SeekFrame
  <2>3. /\ p % FrameSize \in Nat /\ (p \div FrameSize) * FrameSize \in Nat
        /\ p = ((p \div FrameSize) * FrameSize) + (p % FrameSize)
    <3>1. /\ p \div FrameSize \in Nat /\ p % FrameSize \in 0 .. FrameSize - 1
          /\ p = ((p \div FrameSize) * FrameSize) + (p % FrameSize)
      BY Sizes, DivMod
    <3>2. (p \div FrameSize) * FrameSize \in Nat
      BY <3>1, Sizes, MulMono
    <3> QED BY <3>1, <3>2
  <2>4. Bookkeeping'
    BY <1>2, <2>1, <2>2 DEF Bookkeeping
  <2>5. InStep'
    <3>1. remSamples' >= 0
      BY <1>2, <2>1, <2>3
    <3>2. ASSUME sampleId' < Ents
          PROVE  current' * FrameSize - Delay' + remSamples' = pos' + displaced'
      <4>1. current' * FrameSize = (p \div FrameSize) * FrameSize
        BY <2>2, <3>2
      <4> QED BY <1>2, <2>1, <2>2, <2>3, <4>1, Sizes
    <3> QED BY <3>1, <3>2 DEF InStep
  <2>6. OverlapReady'
    BY <1>2, <2>1, <2>3, Sizes DEF OverlapReady
  <2> QED BY <1>1, <2>4, <2>5, <2>6 DEF Steady
<1>4. CASE SeekPast(p, e)
  <2>1. /\ UNCHANGED <<sampleId, remSamples, current, pos, displaced>>
        /\ decoded' = Offset /\ endSamples' = e /\ lost' = lost + sampleId * FrameSize
    BY <1>4 DEF SeekPast
  <2>2. /\ Offset = Wrap(-Delay - lost)
        /\ Offset = IF Delay + lost = 0 THEN 0 ELSE U64 - Delay - lost
    BY OffsetValue DEF Shape, Steady
  <2>3. sampleId * FrameSize \in Nat
    BY Sizes, MulMono DEF Shape, TypeOK
  <2>4. Bookkeeping'
    <3>1. sampleId' * FrameSize - Delay' - lost' = -Delay - lost
      BY <1>2, <2>1, <2>3, Sizes
    <3> QED BY <2>1, <2>2, <3>1 DEF Bookkeeping
  <2>5. InStep'
    <3>1. primed => decoded' > endSamples'
      BY <1>2, <2>1, <2>2, Sizes
    <3> QED BY <1>2, <2>1, <3>1 DEF Steady, InStep
  <2>6. OverlapReady'
    BY <1>2, <2>1 DEF Steady, OverlapReady
  <2> QED BY <1>1, <2>4, <2>5, <2>6 DEF Steady
<1> QED BY <1>3, <1>4 DEF Seek
\* A frame is decoded only while decoded has not wrapped; all of it is kept unless
\* endSamples lies in it.
LEMMA DecodedFrame ==
  ASSUME Shape, Steady, OutSize = FrameSize, ~Refuses
  PROVE  /\ sampleId < Ents /\ sampleId * FrameSize \in Nat
         /\ decoded = sampleId * FrameSize - Delay - lost
         /\ Decodes = Delay /\ Delay \in 0 .. FrameSize
         /\ Wrap(decoded + Decodes) = decoded + Decodes
         /\ Kept \in 0 .. Decodes /\ Skipped \in 0 .. Kept
         /\ Skipped <= remSamples /\ (Skipped < Kept => Skipped = remSamples)
         /\ decoded + Decodes <= endSamples => Kept = Decodes
<1>1. /\ decoded \in Nat /\ endSamples \in 0 .. MaxPos /\ remSamples \in Nat
      /\ sampleId < Ents /\ decoded < endSamples /\ sampleId \in Nat
  BY Sizes DEF Refuses, Shape, TypeOK, Steady, InStep
<1>2. /\ sampleId * FrameSize \in Nat /\ decoded = sampleId * FrameSize - Delay - lost
      /\ Delay \in 0 .. FrameSize
  BY <1>1, DecodedRead, Sizes DEF Shape, Steady
<1>3. Decodes = Delay
  BY DEF Decodes, Delay
<1>4. Wrap(decoded + Decodes) = decoded + Decodes
  BY <1>1, <1>2, <1>3, Sizes, Conversions
<1>5. Kept \in 0 .. Decodes /\ (decoded + Decodes <= endSamples => Kept = Decodes)
  BY <1>1, <1>2, <1>3, <1>4, Sizes DEF Kept, Min2
<1>6. /\ Skipped \in 0 .. Kept /\ Skipped <= remSamples
      /\ Skipped < Kept => Skipped = remSamples
  BY <1>1, <1>2, <1>3, <1>5 DEF Skipped, Min2
<1> QED BY <1>1, <1>2, <1>3, <1>4, <1>5, <1>6

LEMMA RunNullSteady ==
  ASSUME Shape, Steady, RunNull
  PROVE  Steady'
<1> USE DEF RunNull
<1>1. InPlace' /\ CleanOverlap'
  BY SilentCall, Results
<1>2. /\ current' = current + 1 /\ displaced' = displaced + FrameSize /\ Delay' = Delay
      /\ current \in Int /\ displaced \in Nat /\ remSamples \in Int /\ pos \in Int
      /\ FrameSize \in Nat /\ FrameSize > 0 /\ Delay \in Int
      /\ UNCHANGED <<decoded, sampleId, remSamples, endSamples, primed, pos, lost>>
  BY Sizes DEF Shape, TypeOK, Delay
<1>3. Bookkeeping'
  BY <1>2 DEF Steady, Bookkeeping
<1>4. InStep'
  <2>1. current' * FrameSize = current * FrameSize + FrameSize
        /\ current * FrameSize \in Int
    BY <1>2, MulSucc
  <2> QED BY <1>2, <2>1 DEF Steady, InStep
<1>5. OverlapReady'
  BY <1>2 DEF OverlapReady
<1> QED BY <1>1, <1>3, <1>4, <1>5 DEF Steady

LEMMA RunDecodedSteady ==
  ASSUME Shape, Steady, OutSize = FrameSize, RunDecoded
  PROVE  Steady'
<1>1. /\ sampleId < Ents /\ sampleId * FrameSize \in Nat
      /\ decoded = sampleId * FrameSize - Delay - lost
      /\ Decodes = Delay /\ Delay \in 0 .. FrameSize
      /\ Wrap(decoded + Decodes) = decoded + Decodes
      /\ Kept \in 0 .. Decodes /\ Skipped \in 0 .. Kept
      /\ Skipped <= remSamples /\ (Skipped < Kept => Skipped = remSamples)
      /\ decoded + Decodes <= endSamples => Kept = Decodes
  BY DecodedFrame DEF RunDecoded
<1>2. /\ current' = current + 1 /\ sampleId' = sampleId + 1
      /\ decoded' = decoded + Decodes /\ decoded' = Wrap(decoded + Decodes)
      /\ primed' /\ prev' = current
      /\ endSamples' = endSamples /\ lost' = lost /\ Delay' = FrameSize
  BY <1>1 DEF RunDecoded, Delay
<1>3. /\ current \in Int /\ sampleId \in Int /\ lost \in Nat /\ displaced \in Nat
      /\ remSamples \in Nat /\ pos \in Int /\ decoded < endSamples
      /\ endSamples \in Int /\ decoded \in Int /\ FrameSize \in Nat /\ FrameSize > 0
  BY Sizes DEF RunDecoded, Refuses, Shape, TypeOK, Steady, InStep
<1>4. /\ current * FrameSize \in Int /\ (current + 1) * FrameSize = current * FrameSize + FrameSize
      /\ (current - 1) * FrameSize = current * FrameSize - FrameSize
      /\ (sampleId + 1) * FrameSize = sampleId * FrameSize + FrameSize
  BY <1>3, MulSucc
<1>5. current * FrameSize - Delay + remSamples = pos + displaced
  BY <1>1, <1>3 DEF Steady, InStep
<1>6. Bookkeeping'
  <2>1. sampleId' * FrameSize - Delay' - lost' = decoded + Decodes
    BY <1>1, <1>2, <1>3, <1>4
  <2> QED BY <1>2, <2>1 DEF Bookkeeping
<1>7. OverlapReady'
  BY <1>2, <1>3 DEF OverlapReady
<1>8. CASE current \in Soft
  <2>1. /\ out' = Nothing("ok") /\ remSamples' = remSamples /\ pos' = pos
        /\ displaced' = displaced + Decodes
    BY <1>8 DEF RunDecoded
  <2>2. InPlace' /\ CleanOverlap'
    BY <2>1, SilentCall, Results
  <2>3. InStep'
    BY <1>1, <1>2, <1>3, <1>4, <1>5, <2>1 DEF InStep
  <2> QED BY <1>6, <1>7, <2>2, <2>3 DEF Steady
<1>9. CASE current \notin Soft
  <2>1. /\ out' = [ret |-> "ok", n |-> Kept - Skipped,
                   from |-> (current - 1) * OutSize + remSamples,
                   clean |-> prev = current - 1]
        /\ remSamples' = remSamples - Skipped /\ pos' = pos + (Kept - Skipped)
        /\ displaced' = displaced
    BY <1>9 DEF RunDecoded
  <2>2. /\ out'.n = Kept - Skipped
        /\ out'.from = (current - 1) * FrameSize + remSamples
        /\ out'.clean <=> prev = current - 1
    BY <2>1
  <2>3. ASSUME out'.n > 0
        PROVE  primed /\ Delay = FrameSize /\ remSamples < FrameSize
    BY <1>1, <1>3, <2>2, <2>3 DEF Delay
  <2>4. InPlace'
    <3>1. ASSUME out'.n > 0 PROVE out'.from = (pos' - out'.n) + displaced'
      BY <1>1, <1>3, <1>4, <1>5, <2>1, <2>2, <2>3, <3>1
    <3> QED BY <3>1 DEF InPlace
  <2>5. CleanOverlap'
    <3>1. ASSUME out'.n > 0, displaced' = 0 PROVE out'.clean
      BY <2>1, <2>2, <2>3, <3>1 DEF Steady, OverlapReady
    <3> QED BY <3>1 DEF CleanOverlap
  <2>6. InStep'
    BY <1>1, <1>2, <1>3, <1>4, <1>5, <2>1 DEF InStep
  <2> QED BY <1>6, <1>7, <2>4, <2>5, <2>6 DEF Steady
<1> QED BY <1>8, <1>9

LEMMA SteadyStep ==
  ASSUME OutSize = FrameSize, Shape, Steady, [Next]_vars
  PROVE  Steady'
<1> USE DEF fields, neaac, hist
<1>1. CASE UNCHANGED vars
  BY <1>1, Unchanged DEF Steady, Bookkeeping, InStep, OverlapReady, InPlace,
     CleanOverlap, Delay
<1>2. CASE Exit
  BY <1>2 DEF Exit, Steady, Bookkeeping, InStep, OverlapReady, InPlace,
     CleanOverlap, Delay
<1>3. CASE Run
  <2>1. CASE RunRefused \/ RunUnread
    <3>1. InPlace' /\ CleanOverlap'
      BY <2>1, SilentCall, Results DEF RunRefused, RunUnread
    <3> QED BY <2>1, <3>1 DEF RunRefused, RunUnread, Steady, Bookkeeping, InStep,
            OverlapReady, Delay
  <2> QED BY <1>3, <2>1, RunNullSteady, RunDecodedSteady DEF Run
<1> QED BY <1>1, <1>2, <1>3, DecInitSteady, SeekSteady DEF Next

\* The arithmetic is exact because the fields are bounded and decoded is what
\* Bookkeeping says.
LEMMA Exact == ASSUME Shape, Bookkeeping, OutSize = FrameSize PROVE SeekExact
<1>1. /\ sampleId * FrameSize \in Nat
      /\ sampleId * FrameSize <= MaxPos + Ents * FrameSize
  BY Sizes, MulMono DEF Shape, TypeOK, Bounds
<1>2. UInt(sampleId * FrameSize) = sampleId * FrameSize
  BY <1>1, Sizes, Conversions
<1> QED BY <1>2, SkipValue DEF SeekExact

LEMMA IInvIs == IInv <=> Shape /\ (OutSize = FrameSize => Steady)
  BY Exact DEF IInv, Shape, Steady

LEMMA IInvIsNext == (IInv <=> Shape /\ (OutSize = FrameSize => Steady))'
  BY IInvIs, PTL

LEMMA IInvInit == Init => IInv
  BY IInvIs, InitShape, InitSteady

LEMMA IInvStep == IInv /\ [Next]_vars => IInv'
<1> SUFFICES ASSUME IInv, [Next]_vars PROVE IInv'
  OBVIOUS
<1>1. Shape'
  BY IInvIs, ShapeStep
<1>2. OutSize = FrameSize => Steady'
  BY IInvIs, SteadyStep
<1> QED BY <1>1, <1>2, IInvIsNext

THEOREM Inductive == Spec => []IInv
  BY IInvInit, IInvStep, PTL DEF Spec

(* No width is exceeded where seek() calculates, in any state a decoder can  *)
(* be in, as long as the positions asked for, the table and what failed      *)
(* seeks lost stay within the assumed 2^31 samples.                          *)
THEOREM SeekIsExact ==
  ASSUME OutSize = FrameSize
  PROVE  Spec => []SeekExact
<1>1. IInv => SeekExact
  BY DEF IInv
<1> QED BY <1>1, Inductive, PTL

(* decoded is a function of sampleId, the decoder's delay and the failed     *)
(* seeks, for any number of seeks and any frames damaged.                    *)
THEOREM BookkeepingHolds == Spec => []Bookkeeping
<1>1. IInv => Bookkeeping
  BY DEF IInv, Bookkeeping
<1> QED BY <1>1, Inductive, PTL

(* What run() hands out is what lies at the caller's position, displaced by  *)
(* dropped frames and failed seeks only; with neither, it is exact.          *)
THEOREM InPlaceHolds == Spec => []InPlace
<1>1. IInv => InPlace
  BY DEF IInv, InPlace
<1> QED BY <1>1, Inductive, PTL

(* After a seek no sample is handed out that mixes frames which are not      *)
(* neighbours in the file.                                                   *)
THEOREM CleanOverlapHolds ==
  ASSUME OutSize = FrameSize
  PROVE  Spec => []CleanOverlap
<1>1. IInv => CleanOverlap
  BY DEF IInv
<1> QED BY <1>1, Inductive, PTL
-----------------------------------------------------------------------------
(* The end of the stream is reported at the end of it, when a frame of the   *)
(* time line is a frame of the decoder.                                      *)

\* The caller is where the decoder is, or has all it asked for, or decoded has wrapped.
Ending ==
  \/ Wrapped
  \/ /\ sampleId <= current
     /\ current * FrameSize - Delay + remSamples = pos + displaced
  \/ primed /\ pos + displaced >= endSamples
  \/ sampleId >= Ents /\ pos + displaced >= (Avail - 1) * FrameSize

EndInv == Shape /\ Steady /\ Ending /\ EndsAtEnd

\* What the invariants of FaadDecProofs say of the numbers used below.
LEMMA Numbers ==
  ASSUME Shape, Steady, OutSize = FrameSize
  PROVE  /\ sampleId \in Nat /\ current \in 0 .. Ents /\ remSamples \in Nat
         /\ pos \in Int /\ displaced \in Nat /\ lost \in Nat
         /\ decoded \in Nat /\ endSamples \in 0 .. MaxPos
         /\ Delay \in 0 .. FrameSize /\ Delay \in Int /\ primed \in BOOLEAN
         /\ (primed => Delay = FrameSize) /\ (~primed => Delay = 0)
         /\ sampleId * FrameSize \in Nat /\ current * FrameSize \in Nat
         /\ (Avail - 1) * FrameSize \in Int
<1>1. sampleId * FrameSize \in Nat /\ current * FrameSize \in Nat
  BY Sizes, MulMono DEF Shape, TypeOK
<1>2. (Avail - 1) * FrameSize \in Int
  BY Sizes, MulSucc
<1>3. remSamples \in Nat
  BY DEF Shape, TypeOK, Steady, InStep
<1> QED BY <1>1, <1>2, <1>3, Sizes DEF Shape, TypeOK, Delay

\* run() goes on only while decoded has not wrapped.
LEMMA NotWrapped ==
  ASSUME Shape, Steady, OutSize = FrameSize, decoded < endSamples
  PROVE  ~Wrapped /\ decoded = sampleId * FrameSize - Delay - lost
<1>1. LET x == sampleId * FrameSize - Delay - lost
      IN  x \in Int /\ (x >= 0 => decoded = x) /\ (x < 0 => decoded > MaxPos)
  BY DecodedRead DEF Shape, Steady
<1> QED BY <1>1, Numbers, Sizes DEF Wrapped

\* Of a frame that is cut run() keeps all that lies before endSamples.
LEMMA KeptReaches ==
  ASSUME Shape, Steady, OutSize = FrameSize, ~Refuses
  PROVE  Kept = Decodes \/ Kept >= endSamples - decoded
<1>1. /\ Decodes = Delay /\ Delay \in 0 .. FrameSize
      /\ Wrap(decoded + Decodes) = decoded + Decodes
  BY DecodedFrame
<1> QED BY <1>1, Numbers, Sizes DEF Kept, Min2

\* A call that says anything but "end" or "short" says nothing about the end.
LEMMA OtherCall == ASSUME out.ret \notin {"end", "short"} PROVE EndsAtEnd
  BY DEF EndsAtEnd

LEMMA InitEnd == ASSUME Init, OutSize = FrameSize PROVE EndInv
<1>1. Shape /\ Steady
  BY InitShape, InitSteady
<1>2. EndsAtEnd
  BY OtherCall DEF Init, Nothing
<1>3. Ending
  BY Sizes DEF Init, Ending, Delay
<1> QED BY <1>1, <1>2, <1>3 DEF EndInv

LEMMA DecInitEnd ==
  ASSUME EndInv, OutSize = FrameSize, DecInit
  PROVE  Ending' /\ EndsAtEnd'
<1> USE DEF fields, neaac, hist
<1>1. EndsAtEnd'
  BY DEF DecInit, InitUnreadable, InitRejected, InitDone, Nothing, EndsAtEnd
<1>2. CASE InitUnreadable \/ InitRejected
  BY <1>1, <1>2 DEF InitUnreadable, InitRejected, EndInv, Ending, Wrapped, Delay
<1>3. CASE InitDone
  <2>1. /\ current' = 0 /\ sampleId' = 0 /\ remSamples' = 0
        /\ ~primed' /\ pos' = 0 /\ displaced' = 0
    BY <1>3 DEF InitDone, EndInv, Shape, Lifecycle
  <2>2. Delay' = 0 /\ 0 * FrameSize = 0
    BY <2>1, Sizes DEF Delay
  <2> QED BY <1>1, <2>1, <2>2 DEF Ending
<1> QED BY <1>2, <1>3, <1>1 DEF DecInit

LEMMA SeekEnd ==
  ASSUME EndInv, OutSize = FrameSize, Reposition
  PROVE  Ending' /\ EndsAtEnd'
<1> SUFFICES ASSUME NEW p \in 0 .. MaxPos, NEW e \in 0 .. MaxPos, Seek(p, e)
             PROVE  Ending' /\ EndsAtEnd'
  BY DEF Reposition
<1> USE DEF neaac
<1>1. EndsAtEnd'
  BY DEF Seek, SeekTo, SeekPast, Nothing, EndsAtEnd
<1>2. Delay' = Delay /\ Shape /\ Steady
  BY DEF Seek, SeekTo, SeekPast, Delay, EndInv
<1>3. CASE SeekTo(p, e)
  <2> DEFINE k == p \div FrameSize
             r == p % FrameSize
  <2>1. /\ k \in Nat /\ r \in 0 .. FrameSize - 1 /\ p = (k * FrameSize) + r
        /\ k * FrameSize \in Nat
    BY Sizes, DivMod, MulMono
  <2>2. /\ remSamples' = r + Delay + lost /\ sampleId' = k
        /\ pos' = p /\ displaced' = lost
        /\ k <= Ents => current' = k
    BY <1>2, <1>3, <2>1, SeekToFields, Sizes DEF SeekTo, SeekFrame
  <2> HIDE DEF k, r
  <2>3. CASE k <= Ents
    <3>1. current' * FrameSize = k * FrameSize /\ sampleId' <= current'
      BY <2>1, <2>2, <2>3
    <3>2. current' * FrameSize - Delay' + remSamples' = pos' + displaced'
      BY <1>2, <2>1, <2>2, <3>1, Numbers, Sizes
    <3> QED BY <1>1, <3>1, <3>2 DEF Ending
  <2>4. CASE k > Ents
    <3>1. Avail * FrameSize <= k * FrameSize /\ Avail * FrameSize \in Nat
      BY <2>1, <2>4, Sizes, MulMono
    <3>2. (Avail - 1) * FrameSize = Avail * FrameSize - FrameSize
      BY Sizes, MulSucc
    <3>3. sampleId' >= Ents /\ pos' + displaced' >= (Avail - 1) * FrameSize
      BY <1>2, <2>1, <2>2, <2>4, <3>1, <3>2, Numbers, Sizes
    <3> QED BY <1>1, <3>3 DEF Ending
  <2> QED BY <2>1, <2>3, <2>4, Sizes
<1>4. CASE SeekPast(p, e)
  <2>1. /\ UNCHANGED <<sampleId, remSamples, current, pos, displaced, primed>>
        /\ lost' = lost + sampleId * FrameSize
    BY <1>4 DEF SeekPast
  <2>2. CASE primed \/ Wrapped
    <3>1. sampleId' * FrameSize < Delay' + lost'
      BY <1>2, <2>1, <2>2, Numbers, Sizes DEF Wrapped
    <3> QED BY <1>1, <3>1 DEF Ending, Wrapped
  <2>3. CASE ~primed /\ ~Wrapped
    BY <1>1, <1>2, <2>1, <2>3 DEF EndInv, Ending
  <2> QED BY <2>2, <2>3
<1> QED BY <1>3, <1>4 DEF Seek

\* run() reports the end without a frame: what Ending says is what EndsAtEnd asks.
LEMMA RunEndsEnd ==
  ASSUME EndInv, OutSize = FrameSize, Run, RunRefused \/ RunUnread
  PROVE  Ending' /\ EndsAtEnd'
<1>1. UNCHANGED <<fields, neaac, hist>> /\ Shape /\ Steady
  BY DEF RunRefused, RunUnread, EndInv
<1>2. Ending'
  BY <1>1 DEF EndInv, Ending, Wrapped, Delay, fields, neaac, hist
<1>3. ASSUME ~Wrapped
      PROVE  \/ pos + displaced >= endSamples
             \/ pos + displaced >= (Avail - 1) * FrameSize
  <2>1. CASE primed /\ pos + displaced >= endSamples
    BY <2>1
  <2>2. CASE sampleId >= Ents /\ pos + displaced >= (Avail - 1) * FrameSize
    BY <2>2
  <2>3. CASE /\ sampleId <= current
             /\ current * FrameSize - Delay + remSamples = pos + displaced
    <3>1. sampleId * FrameSize <= current * FrameSize
      BY <1>1, <2>3, Numbers, Sizes, MulMono
    <3>2. CASE decoded >= endSamples
      <4>1. decoded = sampleId * FrameSize - Delay - lost
        <5>1. LET x == sampleId * FrameSize - Delay - lost
              IN  x \in Int /\ (x >= 0 => decoded = x)
          BY <1>1, DecodedRead DEF Shape, Steady
        <5> QED BY <1>1, <1>3, <5>1, Numbers DEF Wrapped
      <4> QED BY <1>1, <2>3, <3>1, <3>2, <4>1, Numbers, Sizes
    <3>3. CASE current >= Avail
      <4>1. Avail * FrameSize <= current * FrameSize /\ Avail * FrameSize \in Nat
        BY <1>1, <3>3, Numbers, Sizes, MulMono
      <4>2. (Avail - 1) * FrameSize = Avail * FrameSize - FrameSize
        BY Sizes, MulSucc
      <4> QED BY <1>1, <2>3, <4>1, <4>2, Numbers, Sizes
    <3>4. decoded >= endSamples \/ current >= Avail
      <4>1. sampleId >= Ents \/ decoded >= endSamples \/ ~FrameReadable
        BY DEF RunRefused, RunUnread, Refuses
      <4> QED BY <1>1, <2>3, <4>1, Numbers, Sizes DEF FrameReadable
    <3> QED BY <3>2, <3>3, <3>4
  <2> QED BY <1>3, <2>1, <2>2, <2>3 DEF EndInv, Ending
<1>4. EndsAtEnd'
  <2>1. \/ Wrapped
        \/ pos + displaced >= Min2(endSamples, (Avail - 1) * FrameSize)
    BY <1>1, <1>3, Numbers DEF Min2
  <2> QED BY <1>1, <2>1 DEF EndsAtEnd, Wrapped, Delay, fields, neaac, hist
<1> QED BY <1>2, <1>4

LEMMA RunNullEnd ==
  ASSUME EndInv, OutSize = FrameSize, RunNull
  PROVE  Ending' /\ EndsAtEnd'
<1> USE DEF RunNull
<1>1. EndsAtEnd'
  BY DEF Nothing, EndsAtEnd
<1>2. /\ current' = current + 1 /\ displaced' = displaced + FrameSize /\ Delay' = Delay
      /\ UNCHANGED <<decoded, sampleId, remSamples, endSamples, primed, pos, lost>>
      /\ Shape /\ Steady
  BY DEF Delay, EndInv
<1>3. sampleId < Ents /\ ~Wrapped
  BY <1>2, Numbers, NotWrapped, Sizes DEF Refuses
<1>4. (current + 1) * FrameSize = current * FrameSize + FrameSize
  BY <1>2, Numbers, Sizes, MulSucc
<1>5. CASE primed /\ pos + displaced >= endSamples
  BY <1>1, <1>2, <1>5, Numbers, Sizes DEF Ending
<1>6. CASE /\ sampleId <= current
           /\ current * FrameSize - Delay + remSamples = pos + displaced
  <2>1. current' * FrameSize = current * FrameSize + FrameSize /\ sampleId' <= current'
    BY <1>2, <1>4, <1>6, Numbers
  <2>2. /\ Delay' = Delay /\ remSamples' = remSamples
        /\ pos' = pos /\ displaced' = displaced + FrameSize
    BY <1>2
  <2>3. /\ current * FrameSize \in Int /\ current' * FrameSize \in Int /\ FrameSize \in Int
        /\ remSamples \in Int /\ pos \in Int /\ displaced \in Int /\ Delay \in Int
    BY <1>2, <2>1, Numbers, Sizes
  <2>4. current' * FrameSize - Delay' + remSamples' = pos' + displaced'
    <3> DEFINE c == current * FrameSize
               d == current' * FrameSize
    <3>1. /\ c \in Int /\ d \in Int /\ d = c + FrameSize
          /\ c - Delay + remSamples = pos + displaced
      BY <1>6, <2>1, <2>3
    <3> HIDE DEF c, d
    <3>2. d - Delay' + remSamples' = pos' + displaced'
      BY <2>2, <2>3, <3>1
    <3> QED BY <3>2 DEF d
  <2> QED BY <1>1, <2>1, <2>4 DEF Ending
<1> QED BY <1>2, <1>3, <1>5, <1>6, Numbers, Sizes DEF EndInv, Ending

LEMMA RunDecodedEnd ==
  ASSUME EndInv, OutSize = FrameSize, RunDecoded
  PROVE  Ending' /\ EndsAtEnd'
<1>1. EndsAtEnd'
  BY DEF RunDecoded, Nothing, EndsAtEnd
<1>2. /\ Shape /\ Steady /\ ~Refuses
      /\ current' = current + 1 /\ sampleId' = sampleId + 1
      /\ primed' /\ Delay' = FrameSize /\ endSamples' = endSamples
  BY DEF EndInv, RunDecoded, Delay
<1>3. /\ sampleId < Ents /\ ~Wrapped
      /\ decoded = sampleId * FrameSize - Delay - lost
  BY <1>2, Numbers, NotWrapped, Sizes DEF Refuses
<1>4. /\ Decodes = Delay /\ Kept \in 0 .. Decodes /\ Skipped \in 0 .. Kept
      /\ Skipped <= remSamples
      /\ decoded + Decodes <= endSamples => Kept = Decodes
      /\ Kept = Decodes \/ Kept >= endSamples - decoded
  BY <1>2, DecodedFrame, KeptReaches
<1>5. \/ remSamples' = remSamples /\ pos' = pos /\ displaced' = displaced + Decodes
      \/ /\ remSamples' = remSamples - Skipped /\ displaced' = displaced
         /\ pos' = pos + (Kept - Skipped)
  BY DEF RunDecoded
<1>6. (current + 1) * FrameSize = current * FrameSize + FrameSize
  BY <1>2, Numbers, Sizes, MulSucc
<1>7. CASE primed /\ pos + displaced >= endSamples
  <2>1. pos' + displaced' >= pos + displaced
    BY <1>2, <1>4, <1>5, Numbers
  <2> QED BY <1>1, <1>2, <1>7, <2>1, <1>4, <1>5, Numbers DEF Ending
<1>8. CASE /\ sampleId <= current
           /\ current * FrameSize - Delay + remSamples = pos + displaced
  <2>1. sampleId * FrameSize <= current * FrameSize
    BY <1>2, <1>8, Numbers, Sizes, MulMono
  <2>2. CASE Kept = Decodes
    <3>0. current' * FrameSize = current * FrameSize + FrameSize
      BY <1>2, <1>6
    <3>1. current' * FrameSize - Delay' + remSamples' = pos' + displaced'
      <4>1. /\ current * FrameSize \in Int /\ current' * FrameSize \in Int /\ FrameSize \in Int
            /\ remSamples \in Int /\ pos \in Int /\ displaced \in Int /\ Delay \in Int
            /\ Skipped \in Int
        BY <1>2, <1>4, <3>0, Numbers, Sizes
      <4> DEFINE c == current * FrameSize
                 d == current' * FrameSize
      <4>2. /\ c \in Int /\ d \in Int /\ d = c + FrameSize
            /\ c - Delay + remSamples = pos + displaced
        BY <1>8, <3>0, <4>1
      <4> HIDE DEF c, d
      <4>3. d - Delay' = c
        BY <1>2, <4>1, <4>2
      <4>4. remSamples' + pos + displaced + Delay = remSamples + pos' + displaced'
        <5>1. CASE remSamples' = remSamples /\ pos' = pos /\ displaced' = displaced + Decodes
          BY <1>4, <4>1, <5>1
        <5>2. CASE /\ remSamples' = remSamples - Skipped /\ displaced' = displaced
                   /\ pos' = pos + (Kept - Skipped)
          BY <1>4, <2>2, <4>1, <5>2
        <5> QED BY <1>5, <5>1, <5>2
      <4>5. remSamples' \in Int /\ pos' \in Int /\ displaced' \in Int
        BY <1>4, <1>5, <2>2, <4>1
      <4>6. d - Delay' + remSamples' = pos' + displaced'
        BY <4>1, <4>2, <4>3, <4>4, <4>5
      <4> QED BY <4>6 DEF d
    <3>2. sampleId' <= current'
      BY <1>2, <1>8, Numbers
    <3> QED BY <1>1, <3>1, <3>2 DEF Ending
  <2>3. CASE Kept >= endSamples - decoded /\ Kept # Decodes
    <3>1. pos' + displaced' >= pos + displaced + Kept - Skipped
      BY <1>2, <1>4, <1>5, Numbers
    <3>2. pos + displaced + Kept - Skipped >= endSamples
      BY <1>2, <1>3, <1>4, <1>8, <2>1, <2>3, Numbers, Sizes
    <3>3. pos' + displaced' >= endSamples'
      BY <1>2, <1>4, <1>5, <3>1, <3>2, Numbers
    <3> QED BY <1>1, <1>2, <3>3 DEF Ending
  <2> QED BY <1>4, <2>2, <2>3
<1> QED BY <1>2, <1>3, <1>7, <1>8, Numbers, Sizes DEF EndInv, Ending

LEMMA EndStep ==
  ASSUME EndInv, OutSize = FrameSize, [Next]_vars
  PROVE  EndInv'
<1>1. Shape' /\ Steady'
  BY ShapeStep, SteadyStep DEF EndInv
<1>2. Ending' /\ EndsAtEnd'
  <2>1. CASE UNCHANGED vars
    BY <2>1, Unchanged DEF EndInv, Ending, EndsAtEnd, Wrapped, Delay
  <2>2. CASE Exit
    BY <2>2 DEF Exit, EndInv, Ending, EndsAtEnd, Wrapped, Delay, fields, neaac, hist
  <2>3. CASE Run
    BY <2>3, RunEndsEnd, RunNullEnd, RunDecodedEnd DEF Run
  <2> QED BY <2>1, <2>2, <2>3, DecInitEnd, SeekEnd DEF Next
<1> QED BY <1>1, <1>2 DEF EndInv

(* run() reports the end of the stream only when the caller has all samples  *)
(* before endSamples, or all the readable frames hold, but for a decoder     *)
(* whose decoded has wrapped below zero.                                     *)
THEOREM EndsAtEndHolds == Spec => []EndsAtEnd
<1>1. CASE OutSize = FrameSize
  <2>1. Init => EndInv
    BY <1>1, InitEnd
  <2>2. EndInv /\ [Next]_vars => EndInv'
    BY <1>1, EndStep
  <2>3. EndInv => EndsAtEnd
    BY DEF EndInv
  <2> QED BY <2>1, <2>2, <2>3, PTL DEF Spec
<1>2. CASE OutSize # FrameSize
  <2>1. EndsAtEnd
    BY <1>2 DEF EndsAtEnd
  <2> QED BY <2>1, PTL
<1> QED BY <1>1, <1>2
=============================================================================
