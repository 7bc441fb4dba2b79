---------------------------- MODULE SfaadProofs ----------------------------
(***************************************************************************)
(* Proofs about the plug-in: it implements SampleStream, its chunks fit    *)
(* their buffer and the end is reported early for two reasons only, for    *)
(* every file and every album whose frames and rates are plain (one frame  *)
(* of the time line for one of the decoder, no resampling).  At the end,   *)
(* for every file: each step goes down in a well-founded order.            *)
(***************************************************************************)
EXTENDS InputSfaad, FaadDecProofs, NatLemmas

BuildType == [from : Int, n : Nat, solid : BOOLEAN]

\* No failed seek has shifted anything yet; the reader is at the decoder's frame
\* unless frames were dropped.
Track ==
  /\ lost = 0 /\ pos \in Nat
  /\ sampleId = 0 => pos < FrameSize
  /\ displaced = 0 => current = sampleId \/ sampleId > Ents

\* The part of a chunk that is there ends where the caller is.
Building ==
  host = "decoding" =>
    /\ build.n < BufSize /\ build.n <= pos
    /\ (displaced = 0 /\ build.n > 0) =>
         /\ build.solid /\ build.from + build.n = pos
         /\ pos <= endSamples /\ pos <= Playable

\* Between calls: the subsong, and what the end was reported for.
Hosted ==
  /\ host = "none" => song = 0
  /\ host \in {"ready", "decoding"} => song \in 1 .. Len(Lengths)
  /\ host = "ready" /\ eof => out.ret \in {"end", "short", "null"}

Alive == host \notin {"broken", "gone"}

\* What a caller may do, one that calls run again after it has returned false included,
\* as input_hybrid does.
AnyNext == SfaadNext \/ CallRun

SInv ==
  /\ build \in BuildType /\ ChunkFits
  /\ Alive => EndInv /\ Track /\ Building /\ Hosted
-----------------------------------------------------------------------------
\* Times become samples in their order.
LEMMA Monotone ==
  ASSUME NEW a \in Nat, NEW b \in Nat, a <= b
  PROVE  /\ TimeToSamples(a) \in Nat /\ TimeToSamples(b) \in Nat
         /\ TimeToSamples(a) <= TimeToSamples(b)
<1> DEFINE y == 2 * TicksPerSample
           x1 == 2 * a + TicksPerSample
           x2 == 2 * b + TicksPerSample
<1>1. y \in Nat /\ 0 < y /\ x1 \in Nat /\ x2 \in Nat /\ x1 <= x2
  BY SfaadAssumption
<1>2. TimeToSamples(a) = x1 \div y /\ TimeToSamples(b) = x2 \div y
  BY DEF TimeToSamples
<1> HIDE DEF y, x1, x2
<1> DEFINE q1 == x1 \div y
           q2 == x2 \div y
<1>3. /\ q1 \in Nat /\ x1 = (q1 * y) + (x1 % y) /\ x1 % y \in 0 .. y - 1
      /\ q2 \in Nat /\ x2 = (q2 * y) + (x2 % y) /\ x2 % y \in 0 .. y - 1
  BY <1>1, DivMod
<1> HIDE DEF q1, q2
<1>4. ASSUME q2 + 1 <= q1 PROVE FALSE
  <2>1. (q2 + 1) * y \in Nat /\ (q2 + 1) * y <= q1 * y /\ q1 * y \in Nat
    BY <1>1, <1>3, <1>4, MulMono
  <2>2. (q2 + 1) * y = q2 * y + y /\ q2 * y \in Int
    BY <1>1, <1>3, MulSucc
  <2>3. x2 < (q2 + 1) * y /\ (q2 + 1) * y <= x1
    BY <1>1, <1>3, <2>1, <2>2
  <2> QED BY <1>1, <2>1, <2>3
<1>5. q1 <= q2
  BY <1>3, <1>4
<1> QED BY <1>2, <1>3, <1>5 DEF q1, q2

\* A seek within its end succeeds and is a step of FaadDec; one beyond it fails.
LEMMA SeekSucceedsWithin ==
  ASSUME Plain, EndInv, Track,
         NEW p \in 0 .. MaxPos, NEW e \in 0 .. MaxPos, Seek(p, e), p <= e
  PROVE  /\ EndInv' /\ Track' /\ out'.ret = "ok"
         /\ pos' = p /\ endSamples' = e
<1>1. SeekTo(p, e) /\ phase = "open"
  BY DEF Seek, SeekPast
<1>2. Reposition
  BY DEF Reposition
<1>3. EndInv'
  BY <1>2, EndStep DEF Next, Plain
<1>4. /\ sampleId' = p \div FrameSize /\ endSamples' = e /\ out'.ret = "ok"
      /\ pos' = p /\ displaced' = lost /\ lost' = lost
      /\ p \div FrameSize <= Ents => current' = p \div FrameSize
  <2>1. p \div FrameSize \in Nat
    BY Sizes, DivMod
  <2> QED BY <1>1, <2>1, Sizes DEF SeekTo, SeekFrame, Nothing
<1>5. p \div FrameSize \in Nat /\ (p \div FrameSize = 0 => p < FrameSize)
  <2>1. /\ p \div FrameSize \in Nat /\ p % FrameSize \in 0 .. FrameSize - 1
        /\ p = ((p \div FrameSize) * FrameSize) + (p % FrameSize)
    BY Sizes, DivMod
  <2>2. ASSUME p \div FrameSize = 0 PROVE p < FrameSize
    <3>1. (p \div FrameSize) * FrameSize = 0
      BY <2>2, Sizes
    <3> QED BY <2>1, <3>1, Sizes
  <2> QED BY <2>1, <2>2
<1>6. Track'
  BY <1>4, <1>5, Sizes DEF Track
<1> QED BY <1>3, <1>4, <1>6

LEMMA SeekFailsBeyond ==
  ASSUME NEW p \in Int, NEW e \in Int, Seek(p, e), p > e
  PROVE  out'.ret = "past" /\ pos' = pos /\ endSamples' = e /\ displaced' = displaced
<1>1. SeekPast(p, e)
  BY DEF Seek, SeekTo
<1> QED BY <1>1 DEF SeekPast, Nothing
-----------------------------------------------------------------------------
(* One call of faad_dec::run in the loop of decode_run.                      *)

\* What the loop may rely on: samples follow on the caller's position, up to the end of
\* the subsong and of the readable frames, and only with a result that goes on.
RunSays ==
  /\ Track' /\ out'.n \in 0 .. FrameSize /\ pos' = pos + out'.n
  /\ endSamples' = endSamples /\ displaced' \in Nat /\ displaced <= displaced'
  /\ displaced' = 0 => displaced = 0 /\ out'.ret # "null"
  /\ out'.ret \in {"ok", "end", "short", "null"}
  /\ out'.n > 0 /\ displaced' = 0 =>
       /\ out'.from \in Int /\ out'.from = pos
       /\ pos' <= endSamples /\ pos' <= Playable
  /\ out'.from \in Int /\ (out'.n > 0 => out'.ret = "ok")

LEMMA RunSilentSays ==
  ASSUME Plain, EndInv, Track, Run, RunRefused \/ RunUnread \/ RunNull
  PROVE  RunSays
<1> USE DEF Nothing
<1>1. Shape /\ Steady /\ OutSize = FrameSize
  BY DEF EndInv, Plain
<1>2. CASE RunRefused \/ RunUnread
  <2>1. UNCHANGED <<fields, hist>> /\ out'.n = 0 /\ out'.ret \in {"end", "short"}
        /\ out'.from = 0
    BY <1>2 DEF RunRefused, RunUnread
  <2>2. Track'
    BY <2>1 DEF Track, fields, hist
  <2> QED BY <1>1, <2>1, <2>2, Numbers, Sizes DEF RunSays, Track, fields, hist
<1>3. CASE RunNull
  <2>1. /\ UNCHANGED <<sampleId, endSamples, pos, lost>>
        /\ displaced' = displaced + FrameSize
        /\ out'.n = 0 /\ out'.from = 0 /\ out'.ret = "null"
    BY <1>3 DEF RunNull
  <2>2. displaced' \in Nat /\ displaced' > 0 /\ displaced <= displaced'
    BY <1>1, <2>1, Numbers, Sizes
  <2>3. Track'
    BY <2>1, <2>2 DEF Track
  <2> QED BY <1>1, <2>1, <2>2, <2>3, Numbers, Sizes DEF RunSays, Track
<1> QED BY <1>2, <1>3

\* The samples of a frame lie before the end asked for and in the readable frames.
LEMMA RunDecodedSays ==
  ASSUME Plain, EndInv, Track, Run, RunDecoded
  PROVE  RunSays
<1>1. Shape /\ Steady /\ OutSize = FrameSize /\ ~Refuses
  BY DEF EndInv, Plain, RunDecoded
<1>2. /\ sampleId < Ents /\ sampleId * FrameSize \in Nat
      /\ decoded = sampleId * FrameSize - Delay - lost
      /\ Decodes = Delay /\ Delay \in 0 .. FrameSize
      /\ Kept \in 0 .. Decodes /\ Skipped \in 0 .. Kept
      /\ Skipped <= remSamples /\ (Skipped < Kept => Skipped = remSamples)
      /\ decoded + Decodes <= endSamples => Kept = Decodes
      /\ Wrap(decoded + Decodes) = decoded + Decodes
  BY <1>1, DecodedFrame
<1>3. /\ current' = current + 1 /\ sampleId' = sampleId + 1
      /\ UNCHANGED <<endSamples, lost>>
  BY DEF RunDecoded
<1>4. sampleId \in Nat /\ sampleId < Ents /\ Ents \in Nat /\ current \in Int
  BY <1>1, <1>2, Numbers, Sizes
<1>5. CASE current \in Soft
  <2>1. /\ out'.n = 0 /\ out'.ret = "ok" /\ out'.from = 0
        /\ displaced' = displaced + Decodes /\ pos' = pos
    BY <1>5 DEF RunDecoded, Nothing
  <2>2. displaced' \in Nat /\ displaced <= displaced' /\ (displaced' = 0 => displaced = 0)
    BY <1>1, <1>2, <2>1, Numbers, Sizes
  <2>3. Track'
    BY <1>4, <1>3, <2>1, <2>2 DEF Track
  <2> QED BY <1>3, <2>1, <2>2, <2>3, Sizes, Numbers, <1>1 DEF RunSays
<1>6. CASE current \notin Soft
  <2>1. /\ out'.n = Kept - Skipped /\ out'.ret = "ok"
        /\ out'.from = (current - 1) * OutSize + remSamples
        /\ displaced' = displaced /\ pos' = pos + (Kept - Skipped)
    BY <1>6 DEF RunDecoded
  <2>2. /\ out'.n \in 0 .. FrameSize /\ out'.from \in Int /\ pos' = pos + out'.n
        /\ displaced' \in Nat /\ displaced <= displaced'
    <3>1. (current - 1) * FrameSize \in Int
      BY <1>1, Numbers, Sizes, MulSucc
    <3> QED BY <1>1, <1>2, <2>1, <3>1, Numbers, Sizes
  <2>3. Track'
    BY <1>4, <1>3, <2>1, <2>2 DEF Track
  <2>4. ASSUME out'.n > 0, displaced' = 0
        PROVE  out'.from = pos /\ pos' <= endSamples /\ pos' <= Playable
    <3>1. InPlace'
      BY <1>1, RunDecodedSteady DEF Steady
    <3>2. out'.from = pos' - out'.n + 0
      BY <1>1, <2>4, <3>1 DEF InPlace
    <3>3. out'.from = pos
      BY <2>2, <3>2 DEF Track
    <3>4. Skipped = remSamples /\ primed /\ Delay = FrameSize
      BY <1>1, <1>2, <2>1, <2>4, Numbers, Sizes
    <3>5. current = sampleId /\ current < Avail
      BY <1>1, <1>2, <2>1, <2>4, Numbers, Sizes DEF Track, RunDecoded, FrameReadable
    <3>6. pos = (current - 1) * FrameSize + remSamples
      BY <1>1, <2>1, <3>3
    <3>7. /\ (current - 1) * FrameSize = current * FrameSize - FrameSize
          /\ (current - 1) * FrameSize \in Int /\ current * FrameSize \in Int
      BY <1>1, Numbers, Sizes, MulSucc
    <3>8. pos' = (current - 1) * FrameSize + Kept
      BY <1>1, <1>2, <2>1, <3>4, <3>6, <3>7, Numbers
    <3>9. decoded = (current - 1) * FrameSize
      BY <1>1, <1>2, <3>4, <3>5, <3>7, Numbers, Sizes DEF Track
    <3>10. Kept <= endSamples - decoded
      <4>1. decoded < endSamples
        BY <1>1, Numbers DEF Refuses
      <4>2. CASE decoded + Decodes <= endSamples
        BY <1>1, <1>2, <4>2, Numbers, Sizes
      <4>3. CASE decoded + Decodes > endSamples
        BY <1>1, <1>2, <4>1, <4>3, Numbers, Sizes DEF Kept, Min2, Plain
      <4> QED BY <1>1, <1>2, <4>2, <4>3, Numbers, Sizes
    <3>11. pos' <= endSamples
      BY <1>1, <1>2, <3>7, <3>8, <3>9, <3>10, Numbers
    <3>12. current * FrameSize <= (Avail - 1) * FrameSize
      BY <1>1, <3>5, Numbers, Sizes, MulMono
    <3>13. pos' <= Playable
      BY <1>1, <1>2, <3>7, <3>8, <3>12, Numbers, Sizes DEF Playable
    <3> QED BY <3>3, <3>11, <3>13
  <2> QED BY <1>3, <2>1, <2>2, <2>3, <2>4 DEF RunSays
<1> QED BY <1>5, <1>6

LEMMA RunSaysAll == ASSUME Plain, EndInv, Track, Run PROVE RunSays
  BY RunSilentSays, RunDecodedSays DEF Run
-----------------------------------------------------------------------------
(* The plug-in's invariant.                                                  *)

LEMMA SInvInit == ASSUME Plain, SfaadInit PROVE SInv
<1>1. EndInv
  BY InitEnd DEF Plain, SfaadInit
<1>2. Track
  BY Sizes DEF SfaadInit, Init, Track
<1>3. build \in BuildType /\ ChunkFits
  BY Sizes, SfaadAssumption DEF SfaadInit, NoChunk, BuildType, ChunkFits, FrameYield
<1>4. Building /\ Hosted
  BY DEF SfaadInit, Building, Hosted
<1> QED BY <1>1, <1>2, <1>3, <1>4 DEF SInv

LEMMA NoChunkFits ==
  ASSUME build' = NoChunk
  PROVE  build' \in BuildType /\ ChunkFits' /\ build'.n = 0
  BY Sizes, SfaadAssumption DEF NoChunk, BuildType, ChunkFits, FrameYield

\* A call of the decoder object that is not made: its invariants stay.
LEMMA Idle ==
  ASSUME EndInv, Track, UNCHANGED vars
  PROVE  EndInv' /\ Track'
  BY Unchanged DEF EndInv, Shape, TypeOK, Lifecycle, NothingHeld, Bounds, Steady, Bookkeeping, InStep,
     OverlapReady, InPlace, CleanOverlap, Ending, EndsAtEnd, Wrapped, Delay, Track

\* The sums decode_initialize adds up: natural numbers that grow by the subsongs' lengths.
LEMMA UntilSays ==
  /\ Until \in [0 .. Len(Lengths) -> Nat] /\ Until[0] = 0
  /\ \A i \in 1 .. Len(Lengths) : Until[i] = Until[i - 1] + Lengths[i]
<1> DEFINE n == Len(Lengths)
           F == [p \in (1 .. n) \X Nat |-> p[2] + Lengths[p[1]]]
<1>1. n \in Nat /\ \A i \in 1 .. n : Lengths[i] \in Nat
  BY SfaadAssumption
<1>2. PICK g : Recurs(g, n, 0, F)
  <2>1. F \in [(1 .. n) \X Nat -> Nat]
    BY <1>1
  <2> HIDE DEF F, n
  <2> QED BY <1>1, <2>1, Defined
<1>3. ASSUME NEW i \in 1 .. n PROVE g[i] = g[i - 1] + Lengths[i]
  <2>1. <<i, g[i - 1]>> \in (1 .. n) \X Nat
    <3>1. g[i - 1] \in Nat
      BY <1>1, <1>2 DEF Recurs
    <3> HIDE DEF n
    <3> QED BY <3>1
  <2>2. F[<<i, g[i - 1]>>] = g[i - 1] + Lengths[i]
    BY <2>1
  <2> HIDE DEF F
  <2> QED BY <1>2, <2>2 DEF Recurs
<1>4. g = [i \in 0 .. n |-> IF i = 0 THEN 0 ELSE g[i - 1] + Lengths[i]]
  BY <1>1, <1>2, <1>3 DEF Recurs
<1>5. Until = [i \in 0 .. n |-> IF i = 0 THEN 0 ELSE Until[i - 1] + Lengths[i]]
  BY <1>4 DEF Until
<1>6. \A i \in 0 .. n : Until[i] \in Nat
  <2> DEFINE S == {i \in 0 .. n : Until[i] \in Nat}
  <2>1. 0 \in S
    BY <1>1, <1>5
  <2>2. \A i \in 1 .. n : i - 1 \in S => i \in S
    BY <1>1, <1>5
  <2> HIDE DEF S
  <2>3. 0 .. n \subseteq S
    BY <1>1, <2>1, <2>2, InductUpTo
  <2> QED BY <2>3 DEF S
<1>7. Until \in [0 .. n -> Nat]
  BY <1>5, <1>6
<1>8. Until[0] = 0 /\ \A i \in 1 .. n : Until[i] = Until[i - 1] + Lengths[i]
  BY <1>1, <1>5
<1> HIDE DEF n
<1> QED BY <1>7, <1>8 DEF n

\* The subsong's bounds, which decode_initialize seeks and decodes to.
LEMMA SongBounds ==
  ASSUME Plain, NEW i \in 1 .. Len(Lengths)
  PROVE  /\ TimeToSamples(Until[i - 1]) \in 0 .. MaxPos
         /\ TimeToSamples(Until[i]) \in 0 .. MaxPos
         /\ TimeToSamples(Until[i - 1]) <= TimeToSamples(Until[i])
         /\ Until[i - 1] \in Nat
<1>1. /\ Until[i - 1] \in Nat /\ Until[i] \in Nat /\ Until[i - 1] <= Until[i]
      /\ TimeToSamples(Until[i]) <= MaxPos
  BY UntilSays, SfaadAssumption DEF Plain, Album
<1>2. /\ TimeToSamples(Until[i - 1]) \in Nat /\ TimeToSamples(Until[i]) \in Nat
      /\ TimeToSamples(Until[i - 1]) <= TimeToSamples(Until[i])
  BY <1>1, Monotone
<1> QED BY <1>1, <1>2, Sizes

\* What decode_initialize does: it cannot fail.
LEMMA InitializeSays ==
  ASSUME Plain, SInv, DecodeInitialize
  PROVE  /\ EndInv' /\ Track' /\ host' = "ready" /\ song' \in 1 .. Len(Lengths)
         /\ pos' \in 0 .. MaxPos /\ endSamples' \in 0 .. MaxPos /\ pos' <= endSamples'
         /\ eof' = FALSE /\ build' = NoChunk /\ chunk' = NoChunk /\ seeks' = seeks + 1
         /\ pos' = TimeToSamples(Until[song' - 1]) /\ endSamples' = TimeToSamples(Until[song'])
<1>1. EndInv /\ Track
  BY DEF SInv, Alive, DecodeInitialize
<1>2. PICK i \in 1 .. Len(Lengths) :
        /\ Seek(TimeToSamples(Until[i - 1]), TimeToSamples(Until[i]))
        /\ song' = i
  BY DEF DecodeInitialize
<1>3. /\ EndInv' /\ Track' /\ out'.ret = "ok"
      /\ pos' = TimeToSamples(Until[i - 1]) /\ endSamples' = TimeToSamples(Until[i])
  BY <1>1, <1>2, SongBounds, SeekSucceedsWithin
<1> QED BY <1>2, <1>3, SongBounds DEF DecodeInitialize, Repositioned

\* What decode_seek does: positioned within the subsong's end, or nothing else works.
LEMMA DecodeSeekSays ==
  ASSUME Plain, SInv, DecodeSeek
  PROVE  /\ song' = song
         /\ \/ /\ EndInv' /\ Track' /\ host' = "ready"
               /\ pos' \in 0 .. MaxPos /\ endSamples' \in 0 .. MaxPos /\ pos' <= endSamples'
               /\ eof' = FALSE /\ build' = NoChunk /\ chunk' = NoChunk
               /\ endSamples' = endSamples /\ seeks' = seeks + 1
            \/ /\ host' = "broken" /\ UNCHANGED <<eof, build, chunk, seeks>>
               /\ pos' = pos /\ endSamples' = endSamples /\ displaced' = displaced
<1>1. EndInv /\ Track /\ host = "ready" /\ song \in 1 .. Len(Lengths)
  BY DEF SInv, Alive, DecodeSeek, Hosted
<1>2. PICK t \in 0 .. MaxPos * TicksPerSample :
        /\ TimeToSamples(Until[song - 1] + t) <= MaxPos
        /\ Seek(TimeToSamples(Until[song - 1] + t), endSamples)
  BY DEF DecodeSeek
<1> DEFINE p == TimeToSamples(Until[song - 1] + t)
<1>3. p \in 0 .. MaxPos /\ endSamples \in 0 .. MaxPos
  <2>1. t \in Nat
    <3>1. MaxPos * TicksPerSample \in Int
      BY Sizes, SfaadAssumption, MulSucc
    <3> QED BY <3>1
  <2>2. Until[song - 1] \in Nat /\ Until[song - 1] + t \in Nat
    BY <1>1, <2>1, SongBounds
  <2>3. p \in Nat
    BY <2>2, Monotone
  <2> QED BY <1>1, <1>2, <2>3, Sizes DEF EndInv, Shape, TypeOK
<1> HIDE DEF p
<1>4. Seek(p, endSamples)
  BY <1>2 DEF p
<1>5. CASE p <= endSamples
  <2>1. /\ EndInv' /\ Track' /\ out'.ret = "ok" /\ pos' = p /\ endSamples' = endSamples
    BY <1>1, <1>3, <1>4, <1>5, SeekSucceedsWithin
  <2> QED BY <1>3, <1>5, <2>1 DEF DecodeSeek, Repositioned
<1>6. CASE p > endSamples
  <2>1. out'.ret = "past" /\ pos' = pos /\ endSamples' = endSamples /\ displaced' = displaced
    BY <1>3, <1>4, <1>6, SeekFailsBeyond
  <2>2. out'.ret # "ok"
    BY <2>1
  <2>3. host' = "broken" /\ song' = song /\ UNCHANGED <<eof, build, chunk, seeks>>
    BY <2>2 DEF DecodeSeek
  <2> QED BY <2>1, <2>3
<1>7. p <= endSamples \/ p > endSamples
  BY <1>3
<1> QED BY <1>5, <1>6, <1>7

\* What one pass of the loop adds to the chunk.
LEMMA AppendedSays ==
  ASSUME Plain, SInv, RunFrame
  PROVE  /\ EndInv' /\ RunSays
         /\ build' \in BuildType /\ build'.n = build.n + out'.n
         /\ build'.n <= pos' /\ pos' - build'.n = pos - build.n
         /\ build'.n < BufSize + FrameSize
         /\ (displaced' = 0 /\ build'.n > 0) =>
              /\ build'.solid /\ build'.from + build'.n = pos'
              /\ pos' <= endSamples' /\ pos' <= Playable
<1>1. /\ EndInv /\ Track /\ Building /\ host = "decoding" /\ build \in BuildType
      /\ build.n \in Nat /\ build.from \in Int
  BY DEF SInv, Alive, RunFrame, BuildType
<1>2. Run /\ build' = Appended
  BY DEF RunFrame
<1>3. RunSays
  BY <1>1, <1>2, RunSaysAll
<1>4. EndInv'
  BY <1>1, <1>2, EndStep DEF Next, Plain
<1>5. /\ out'.n \in Nat /\ out'.n <= FrameSize /\ out'.from \in Int
      /\ pos \in Nat /\ pos' = pos + out'.n /\ endSamples' = endSamples
  BY <1>1, <1>3, Sizes DEF RunSays, Track
<1>6. build.n < BufSize /\ build.n <= pos
  BY <1>1 DEF Building
<1>7. displaced' = 0 => displaced = 0
  BY <1>3 DEF RunSays
<1>8. /\ build' \in BuildType /\ build'.n = build.n + out'.n
      /\ out'.n = 0 => build' = build
      /\ out'.n # 0 /\ build.n = 0 => build'.from = out'.from /\ build'.solid
      /\ out'.n # 0 /\ build.n # 0 =>
           /\ build'.from = build.from
           /\ build.solid /\ out'.from = build.from + build.n => build'.solid
  <2>1. CASE out'.n = 0
    BY <1>1, <1>2, <2>1 DEF Appended
  <2>2. CASE out'.n # 0 /\ build.n = 0
    <3>1. build' = [from |-> out'.from, n |-> out'.n, solid |-> TRUE]
      BY <1>2, <2>2 DEF Appended
    <3> QED BY <1>5, <2>2, <3>1 DEF BuildType
  <2>3. CASE out'.n # 0 /\ build.n # 0
    <3> DEFINE joins == build.solid /\ out'.from = build.from + build.n
    <3>1. build' = [build EXCEPT !.n = @ + out'.n, !.solid = joins]
      BY <1>2, <2>3 DEF Appended
    <3>2. build.n + out'.n \in Nat /\ joins \in BOOLEAN
      BY <1>1, <1>5 DEF BuildType
    <3> HIDE DEF joins
    <3>3. /\ build' \in BuildType /\ build'.n = build.n + out'.n
          /\ build'.from = build.from /\ build'.solid = joins
      BY <1>1, <3>1, <3>2 DEF BuildType
    <3> QED BY <2>3, <3>3 DEF joins
  <2> QED BY <2>1, <2>2, <2>3
<1>9. ASSUME displaced' = 0, build'.n > 0
      PROVE  /\ build'.solid /\ build'.from + build'.n = pos'
             /\ pos' <= endSamples' /\ pos' <= Playable
  <2>1. CASE out'.n = 0
    BY <1>1, <1>5, <1>7, <1>8, <1>9, <2>1 DEF Building
  <2>2. CASE out'.n # 0
    <3>1. out'.from = pos /\ pos' <= endSamples' /\ pos' <= Playable
      BY <1>3, <1>5, <1>9, <2>2 DEF RunSays
    <3>2. CASE build.n = 0
      BY <1>1, <1>5, <1>8, <2>2, <3>1, <3>2
    <3>3. CASE build.n # 0
      <4>1. build.solid /\ build.from + build.n = pos
        BY <1>1, <1>7, <1>9, <3>3 DEF Building
      <4> QED BY <1>1, <1>5, <1>8, <2>2, <3>1, <3>3, <4>1
    <3> QED BY <3>2, <3>3
  <2> QED BY <2>1, <2>2
<1>10. /\ build'.n <= pos' /\ pos' - build'.n = pos - build.n
       /\ build'.n < BufSize + FrameSize
  <2>1. build'.n = build.n + out'.n /\ build.n \in Nat /\ out'.n \in Nat
    BY <1>1, <1>5, <1>8
  <2>2. pos' = pos + out'.n /\ pos \in Nat /\ out'.n <= FrameSize
    BY <1>5
  <2>3. BufSize \in Nat /\ FrameSize \in Nat
    BY Sizes, SfaadAssumption
  <2> DEFINE b == build.n
             c == build'.n
             n == out'.n
  <2>4. c = b + n /\ b \in Nat /\ n \in Nat /\ n <= FrameSize /\ b < BufSize /\ b <= pos
    BY <2>1, <2>2, <1>6
  <2> HIDE DEF b, c, n
  <2>5. pos' = pos + n /\ pos \in Nat
    BY <2>2 DEF n
  <2>6. c <= pos' /\ pos' - c = pos - b /\ c < BufSize + FrameSize
    BY <2>3, <2>4, <2>5
  <2> QED BY <2>6 DEF b, c
<1>11. (displaced' = 0 /\ build'.n > 0) =>
         /\ build'.solid /\ build'.from + build'.n = pos'
         /\ pos' <= endSamples' /\ pos' <= Playable
  BY <1>9
<1> QED BY <1>3, <1>4, <1>8, <1>10, <1>11

\* A pass that does not go on ends the call; with nothing in the chunk, run() has said why.
LEMMA LoopEnds ==
  ASSUME Plain, SInv, RunFrame
  PROVE  \/ host' = "decoding" /\ build'.n < BufSize /\ eof' = eof /\ chunk' = chunk
         \/ /\ host' = "ready" /\ chunk' = build' /\ eof' = (build'.n = 0)
            /\ build'.n = 0 => out'.ret \in {"end", "short", "null"}
<1>1. host = "decoding"
  BY DEF RunFrame
<1>2. build'.n \in Nat /\ out'.ret \in {"ok", "end", "short", "null"}
  BY AppendedSays DEF BuildType, RunSays
<1>3. CASE out'.ret = "ok" /\ build'.n < BufSize
  BY <1>1, <1>3 DEF RunFrame
<1>4. CASE ~(out'.ret = "ok" /\ build'.n < BufSize)
  <2>1. host' = "ready" /\ chunk' = build' /\ eof' = (build'.n = 0)
    BY <1>4 DEF RunFrame
  <2>2. build'.n = 0 => out'.ret # "ok"
    BY <1>4, SfaadAssumption
  <2> QED BY <1>2, <2>1, <2>2
<1> QED BY <1>3, <1>4

\* Nothing is claimed of a decoder that threw or is gone, but that the chunk fits.
LEMMA NotAlive ==
  ASSUME SInv, build' = build, host' \in {"broken", "gone"}
  PROVE  SInv'
  BY DEF SInv, Alive, ChunkFits

\* Between two calls there is no chunk being filled.
LEMMA AliveBetween ==
  ASSUME build' \in BuildType, ChunkFits', EndInv', Track', host' # "decoding", Hosted'
  PROVE  SInv'
  BY DEF SInv, Building

\* Every call of the host keeps the invariant.
LEMMA SInvStep ==
  ASSUME Plain, SInv, [AnyNext]_svars
  PROVE  SInv'
<1>1. CASE UNCHANGED svars
  <2>1. /\ UNCHANGED vars /\ build' = build /\ host' = host /\ song' = song /\ eof' = eof
        /\ pos' = pos /\ out' = out /\ displaced' = displaced /\ endSamples' = endSamples
    BY <1>1 DEF svars, plugin, vars, hist, fields
  <2>2. Alive => EndInv' /\ Track'
    BY <2>1, Idle DEF SInv
  <2> QED BY <2>1, <2>2 DEF SInv, Alive, ChunkFits, Building, Hosted
<1>2. CASE OpenThrows
  BY <1>2, NotAlive DEF OpenThrows
<1>3. CASE OpenForInfo
  <2>1. /\ host = "none" /\ host' = "info" /\ build' = build /\ song' = song
        /\ EndInv' /\ Track'
    BY <1>3, Idle DEF OpenForInfo, SInv, Alive
  <2> QED BY <2>1, AliveBetween DEF SInv, ChunkFits, Hosted
<1>4. CASE OpenForDecoding
  <2>1. host = "none" /\ EndInv /\ DecInit /\ UNCHANGED <<eof, song, build, chunk>>
        /\ host' \in {"opened", "broken"}
    BY <1>4 DEF OpenForDecoding, SInv, Alive
  <2>2. EndInv'
    BY <2>1, EndStep DEF Next, Plain
  <2>3. Track'
    <3>1. Lifecycle /\ phase = "new"
      BY <2>1 DEF EndInv, Shape, DecInit, InitUnreadable, InitRejected, InitDone
    <3>2. Track
      BY <2>1 DEF SInv, Alive
    <3>3. pos' = pos /\ lost' = lost /\ displaced' = displaced
      BY <2>1 DEF DecInit, InitUnreadable, InitRejected, InitDone, hist
    <3>4. \/ sampleId' = sampleId /\ current' = current
          \/ sampleId' = 0 /\ current' = 0
      BY <2>1 DEF DecInit, InitUnreadable, InitRejected, InitDone, fields
    <3> QED BY <3>1, <3>2, <3>3, <3>4, Sizes DEF Track, Lifecycle
  <2> QED BY <2>1, <2>2, <2>3, AliveBetween DEF SInv, ChunkFits, Hosted
<1>5. CASE DecodeInitialize
  <2>1. build' \in BuildType /\ ChunkFits'
    BY <1>5, InitializeSays, NoChunkFits
  <2> QED BY <1>5, <2>1, InitializeSays, AliveBetween DEF Hosted
<1>6. CASE DecodeSeek
  <2>1. song \in 1 .. Len(Lengths)
    BY <1>6 DEF DecodeSeek, SInv, Alive, Hosted
  <2>2. CASE host' = "broken" /\ UNCHANGED build
    BY <2>2, NotAlive
  <2>3. CASE /\ EndInv' /\ Track' /\ host' = "ready" /\ eof' = FALSE
             /\ build' = NoChunk /\ song' = song
    BY <2>1, <2>3, NoChunkFits, AliveBetween DEF Hosted
  <2> QED BY <1>6, <2>2, <2>3, DecodeSeekSays
<1>7. CASE CallRun
  <2>1. /\ host = "ready" /\ host' = "decoding" /\ build' = NoChunk
        /\ UNCHANGED <<vars, eof, song>>
    BY <1>7 DEF CallRun
  <2>2. EndInv' /\ Track' /\ Hosted /\ Track
    BY <2>1, Idle DEF SInv, Alive
  <2>3. build' \in BuildType /\ ChunkFits' /\ build'.n = 0
    BY <2>1, NoChunkFits
  <2>4. pos' = pos
    BY <2>1 DEF vars, hist
  <2>5. Building'
    BY <2>1, <2>2, <2>3, <2>4, SfaadAssumption DEF Building, Track
  <2> QED BY <2>1, <2>2, <2>3, <2>5 DEF SInv, Hosted
<1>8. CASE RunFrame
  <2>1. /\ EndInv' /\ Track' /\ build' \in BuildType /\ ChunkFits'
    BY <1>8, AppendedSays DEF RunSays, ChunkFits, FrameYield, Plain
  <2>2. host = "decoding" /\ song' = song /\ song \in 1 .. Len(Lengths)
    BY <1>8 DEF RunFrame, SInv, Alive, Hosted
  <2>3. CASE host' = "decoding" /\ build'.n < BufSize
    <3>1. Building'
      BY <1>8, <2>3, AppendedSays DEF Building
    <3> QED BY <2>1, <2>2, <2>3, <3>1 DEF SInv, Hosted
  <2>4. CASE /\ host' = "ready" /\ eof' = (build'.n = 0)
             /\ build'.n = 0 => out'.ret \in {"end", "short", "null"}
    BY <2>1, <2>2, <2>4, AliveBetween DEF Hosted
  <2> QED BY <1>8, <2>3, <2>4, LoopEnds
<1>9. CASE Destroy
  BY <1>9, NotAlive DEF Destroy
<1> QED
  BY <1>1, <1>2, <1>3, <1>4, <1>5, <1>6, <1>7, <1>8, <1>9
  DEF AnyNext, SfaadNext, DecodeRun

LEMMA SInvAlways == ASSUME Plain PROVE SfaadSpec => []SInv
<1>1. SfaadInit => SInv
  BY SInvInit
<1>2. SInv /\ [SfaadNext]_svars => SInv'
  BY SInvStep DEF AnyNext
<1> QED BY <1>1, <1>2, PTL DEF SfaadSpec

-----------------------------------------------------------------------------
(* How far a chunk goes does not depend on Plain: what follows holds for     *)
(* every relation of frames and rates and any times the subsongs have.       *)

LEMMA LengthsNat == Len(Lengths) \in Nat /\ \A i \in 1 .. Len(Lengths) : Lengths[i] \in Nat
  BY SfaadAssumption

\* The numbers run() and seek() calculate with are numbers.
Loose ==
  /\ decoded \in Int /\ sampleId \in Int /\ remSamples \in Int /\ endSamples \in Int
  /\ current \in Int

\* What one call of run() hands out is at most what a frame yields.
LEMMA Handed ==
  ASSUME Loose
  PROVE  /\ Decodes \in Nat /\ Kept \in Int /\ Skipped \in Int
         /\ Kept - Skipped \in 0 .. FrameYield
<1>1. /\ Decodes \in Nat /\ Decodes <= OutSize
      /\ FrameSize \in Nat /\ OutSize \in Nat /\ SameRate \in BOOLEAN
  BY FaadAssumption DEF Decodes
<1>2. Wrap(decoded + Decodes) \in Int
  BY <1>1, Conversions DEF Loose
<1>3. Kept \in Int /\ Kept <= FrameYield
  BY <1>1, <1>2 DEF Loose, Kept, Min2, FrameYield
<1>4. Skipped \in Int /\ (Kept = Skipped \/ (Skipped >= 0 /\ Skipped <= Kept))
  BY <1>3 DEF Loose, Skipped, Min2
<1>5. FrameYield \in Nat
  BY <1>1 DEF FrameYield
<1> QED BY <1>1, <1>3, <1>4, <1>5

LEMMA LooseSeek ==
  ASSUME Loose, NEW p \in Nat, NEW e \in Int, Seek(p, e)
  PROVE  Loose'
<1>1. /\ p \div FrameSize \in Nat /\ p % FrameSize \in Int
  BY FaadAssumption, DivMod
<1>2. Offset \in Int
  <2>1. sampleId * FrameSize \in Int
    BY FaadAssumption, MulSucc DEF Loose
  <2>2. UInt(sampleId * FrameSize) \in Int
    BY <2>1, Sizes DEF UInt
  <2> QED BY <2>2, Conversions DEF Loose, Offset
<1>3. Long(Wrap((p % FrameSize) - Offset)) \in Int
  <2>1. Wrap((p % FrameSize) - Offset) \in Int
    BY <1>1, <1>2, Conversions
  <2> QED BY <2>1, Conversions
<1>4. CASE SeekTo(p, e)
  <2>1. remSamples' \in Int /\ sampleId' \in Int /\ endSamples' \in Int
    BY <1>1, <1>3, <1>4 DEF SeekTo
  <2>2. decoded' \in Int
    BY <1>4, <2>1, Conversions DEF SeekTo
  <2>3. current' \in Int
    BY <1>1, <1>4 DEF SeekTo, SeekFrame, Loose
  <2> QED BY <2>1, <2>2, <2>3 DEF Loose
<1>5. CASE SeekPast(p, e)
  BY <1>2, <1>5 DEF SeekPast, Loose
<1> QED BY <1>4, <1>5 DEF Seek

\* A call of run(): the numbers stay numbers, and so are those it returns.
LEMMA LooseRun ==
  ASSUME Loose, Run
  PROVE  Loose' /\ out'.n \in 0 .. FrameYield /\ out'.from \in Int
<1>0. FrameYield \in Nat
  BY FaadAssumption DEF FrameYield
<1>1. CASE RunRefused \/ RunUnread
  BY <1>0, <1>1 DEF RunRefused, RunUnread, Loose, fields, Nothing
<1>2. CASE RunNull
  BY <1>0, <1>2 DEF RunNull, Loose, Nothing
<1>3. CASE RunDecoded
  <2>1. /\ Decodes \in Nat /\ Kept \in Int /\ Skipped \in Int
        /\ Kept - Skipped \in 0 .. FrameYield
    BY Handed
  <2>2. (current - 1) * OutSize \in Int
    BY FaadAssumption, MulSucc DEF Loose
  <2>3. decoded' \in Int
    BY <1>3, <2>1, Conversions DEF RunDecoded, Loose
  <2>4. sampleId' \in Int /\ current' \in Int /\ endSamples' \in Int
    BY <1>3 DEF RunDecoded, Loose
  <2>5. remSamples' \in Int
    BY <1>3, <2>1 DEF RunDecoded, Loose
  <2>6. out'.n \in 0 .. FrameYield /\ out'.from \in Int
    BY <1>0, <1>3, <2>1, <2>2 DEF RunDecoded, Loose, Nothing
  <2> QED BY <2>3, <2>4, <2>5, <2>6 DEF Loose
<1> QED BY <1>1, <1>2, <1>3 DEF Run

\* Before a pass of the loop there is less than bufsize in the chunk; once initialized
\* there is a subsong.
RoomInv ==
  /\ Loose /\ build \in BuildType /\ ChunkFits
  /\ host = "decoding" => build.n < BufSize
  /\ host \in {"ready", "decoding"} => song \in 1 .. Len(Lengths)

LEMMA RoomInit == SfaadInit => RoomInv
  BY FaadAssumption, SfaadAssumption
  DEF SfaadInit, Init, NoChunk, RoomInv, Loose, BuildType, ChunkFits, FrameYield

LEMMA RoomStep == ASSUME RoomInv, [SfaadNext]_svars PROVE RoomInv'
<1> USE DEF RoomInv
<1>1. ASSUME UNCHANGED <<vars, build, song>>,
             host' \notin {"ready", "decoding"} \/ host' = host
      PROVE  RoomInv'
  <2>1. Loose'
    BY <1>1 DEF Loose, vars, fields
  <2> QED BY <1>1, <2>1 DEF ChunkFits
<1>2. ASSUME Loose', build' = NoChunk, song' \in 1 .. Len(Lengths) PROVE RoomInv'
  BY <1>2, NoChunkFits, SfaadAssumption
<1>3. CASE UNCHANGED svars
  BY <1>1, <1>3 DEF svars, plugin
<1>4. CASE OpenThrows \/ OpenForInfo
  BY <1>1, <1>4 DEF OpenThrows, OpenForInfo
<1>5. CASE OpenForDecoding
  <2>1. Loose'
    BY <1>5, FaadAssumption DEF OpenForDecoding, DecInit, InitUnreadable, InitRejected,
       InitDone, fields, Loose
  <2>2. build' = build /\ host' \notin {"ready", "decoding"}
    BY <1>5 DEF OpenForDecoding
  <2> QED BY <2>1, <2>2 DEF ChunkFits
<1>6. CASE DecodeInitialize
  <2>1. PICK i \in 1 .. Len(Lengths) :
          Seek(TimeToSamples(Until[i - 1]), TimeToSamples(Until[i])) /\ song' = i
    BY <1>6 DEF DecodeInitialize
  <2>2. TimeToSamples(Until[i - 1]) \in Nat /\ TimeToSamples(Until[i]) \in Nat
    <3>1. Until[i - 1] \in Nat /\ Until[i] \in Nat /\ Until[i - 1] <= Until[i]
      BY UntilSays, SfaadAssumption, LengthsNat
    <3> QED BY <3>1, Monotone
  <2>3. Loose'
    BY <2>1, <2>2, LooseSeek
  <2> QED BY <1>2, <1>6, <2>1, <2>3 DEF DecodeInitialize, Repositioned
<1>7. CASE DecodeSeek
  <2>1. PICK t \in 0 .. MaxPos * TicksPerSample :
          Seek(TimeToSamples(Until[song - 1] + t), endSamples)
    BY <1>7 DEF DecodeSeek
  <2>2. TimeToSamples(Until[song - 1] + t) \in Nat
    <3>1. t \in Nat
      BY <2>1
    <3>2. song - 1 \in 0 .. Len(Lengths)
      BY <1>7, LengthsNat DEF DecodeSeek
    <3>3. Until[song - 1] + t \in Nat
      BY <3>1, <3>2, UntilSays
    <3> QED BY <3>3, Monotone
  <2>3. Loose'
    BY <2>1, <2>2, LooseSeek DEF Loose
  <2>4. song' = song /\ song \in 1 .. Len(Lengths)
    BY <1>7 DEF DecodeSeek
  <2>5. CASE host' = "broken" /\ build' = build
    BY <2>3, <2>5 DEF ChunkFits
  <2> QED BY <1>2, <1>7, <2>3, <2>4, <2>5 DEF DecodeSeek, Repositioned
<1>8. CASE DecodeRun
  <2>1. Loose'
    BY <1>8 DEF DecodeRun, CallRun, Loose, vars, fields
  <2> QED BY <1>2, <1>8, <2>1 DEF DecodeRun, CallRun
<1>9. CASE RunFrame
  <2>1. Loose' /\ out'.n \in 0 .. FrameYield /\ out'.from \in Int
    BY <1>9, LooseRun DEF RunFrame
  <2>2. FrameYield \in Nat /\ BufSize \in Nat /\ build.n < BufSize
    BY <1>9, FaadAssumption, SfaadAssumption DEF FrameYield, RunFrame
  <2>3. build' \in BuildType /\ build'.n = build.n + out'.n
    <3>1. build' = Appended
      BY <1>9 DEF RunFrame
    <3>2. CASE out'.n = 0
      BY <3>1, <3>2 DEF Appended, BuildType
    <3>3. CASE out'.n # 0 /\ build.n = 0
      BY <2>1, <3>1, <3>3 DEF Appended, BuildType
    <3>4. CASE out'.n # 0 /\ build.n # 0
      <4>1. Appended = [from |-> build.from, n |-> build.n + out'.n,
                        solid |-> build.solid /\ out'.from = build.from + build.n]
        BY <3>4 DEF Appended, BuildType
      <4> QED BY <2>1, <3>1, <4>1 DEF BuildType
    <3> QED BY <3>2, <3>3, <3>4
  <2>4. ChunkFits'
    BY <2>1, <2>2, <2>3 DEF BuildType, ChunkFits
  <2>5. host' = "decoding" => build'.n < BufSize
    BY <1>9 DEF RunFrame
  <2>6. song' = song /\ host = "decoding"
    BY <1>9 DEF RunFrame
  <2> QED BY <2>1, <2>3, <2>4, <2>5, <2>6
<1>10. CASE Destroy
  <2>1. Loose' /\ build' = build /\ host' = "gone"
    BY <1>10 DEF Destroy, Exit, fields, Loose
  <2> QED BY <2>1 DEF ChunkFits
<1> QED BY <1>3, <1>4, <1>5, <1>6, <1>7, <1>8, <1>9, <1>10 DEF SfaadNext

LEMMA RoomAlways == SfaadSpec => []RoomInv
  BY RoomInit, RoomStep, PTL DEF SfaadSpec

(* A chunk stays below bufsize and what one frame yields, for every relation *)
(* of frames and rates, every file, album and sequence of calls: 1024 samples*)
(* where the rate is kept, 2048 where implicit SBR doubles it.               *)
THEOREM ChunkFitsHolds == SfaadSpec => []ChunkFits
<1>1. RoomInv => ChunkFits
  BY DEF RoomInv
<1> QED BY <1>1, RoomAlways, PTL

(* What decode_run allocates is enough for its chunk wherever a frame yields *)
(* no more than framesize; SfaadChunkRoom shows that it is not elsewhere.    *)
THEOREM RoomSufficesHolds ==
  ASSUME SameRate \/ OutSize <= FrameSize
  PROVE  SfaadSpec => []RoomSuffices
<1>1. RoomInv => RoomSuffices
  BY FaadAssumption, SfaadAssumption
  DEF RoomInv, BuildType, ChunkFits, FrameYield, RoomSuffices
<1> QED BY <1>1, RoomAlways, PTL
-----------------------------------------------------------------------------
(* The end of the stream is reported early for two reasons only: a frame that*)
(* cannot be decoded at the start of a chunk, or a decoder that has decoded  *)
(* before and is positioned within its first frame.                          *)
THEOREM EofExplainedHolds == ASSUME Plain PROVE SfaadSpec => []EofExplained
<1>1. SInv => EofExplained
  BY DEF SInv, Alive, EndInv, EndsAtEnd, EofExplained, Playable, Hosted, Plain
<1> QED BY <1>1, SInvAlways, PTL
-----------------------------------------------------------------------------
(* The plug-in implements SampleStream.                                      *)

\* A chunk without samples is the empty chunk.
EmptyChunk == build.n = 0 => build = NoChunk

LEMMA EmptyStep ==
  ASSUME Plain, SInv, EmptyChunk, [AnyNext]_svars
  PROVE  EmptyChunk'
<1>1. CASE build' = build
  BY <1>1 DEF EmptyChunk
<1>2. CASE build' = NoChunk
  BY <1>2 DEF EmptyChunk
<1>3. CASE RunFrame
  <2>1. /\ build' = Appended /\ build.n \in Nat /\ out'.n \in Nat
        /\ build'.n = build.n + out'.n
    BY <1>3, AppendedSays DEF SInv, BuildType, RunFrame, RunSays
  <2>2. build'.n = 0 => build.n = 0 /\ out'.n = 0
    BY <2>1
  <2>3. out'.n = 0 => build' = build
    BY <2>1 DEF Appended
  <2> QED BY <2>2, <2>3 DEF EmptyChunk
<1>4. DecodeSeek => build' = build \/ build' = NoChunk
  BY DecodeSeekSays
<1>5. DecodeInitialize => build' = NoChunk
  BY InitializeSays
<1> QED
  BY <1>1, <1>2, <1>3, <1>4, <1>5
  DEF AnyNext, SfaadNext, svars, plugin, OpenThrows, OpenForInfo, OpenForDecoding, DecodeRun,
      CallRun, Destroy

\* This host does not call run again after it has returned false.
NotPast == host = "decoding" => ~eof

LEMMA NotPastStep ==
  ASSUME Plain, SInv, NotPast, [SfaadNext]_svars
  PROVE  NotPast'
<1>1. CASE RunFrame
  BY <1>1, LoopEnds DEF NotPast, RunFrame
<1>2. DecodeSeek => host' \in {"ready", "broken"}
  BY DEF DecodeSeek
<1>3. DecodeInitialize => host' \in {"ready", "broken"}
  BY DEF DecodeInitialize
<1>4. OpenForDecoding => host' \in {"opened", "broken"}
  BY DEF OpenForDecoding
<1> QED
  BY <1>1, <1>2, <1>3, <1>4
  DEF SfaadNext, svars, plugin, OpenThrows, OpenForInfo, DecodeRun, CallRun, Destroy, NotPast

\* What a decoder that ends with nothing in the chunk has left to hand out.
LEMMA NothingLeft ==
  ASSUME Plain, EndInv', Track', displaced' = 0, out'.ret \in {"end", "short"}
  PROVE  pos' >= endSamples' \/ pos' >= Playable \/ pos' < FrameSize
<1>1. /\ lost' = 0 /\ pos' \in Nat /\ sampleId' \in Nat /\ endSamples' \in Nat
      /\ Playable \in Int /\ Delay' \in 0 .. FrameSize
  <2>1. Playable \in Int
    BY Sizes, MulSucc DEF Playable
  <2> QED BY <2>1, Sizes DEF EndInv, Shape, TypeOK, Track, Delay
<1>2. CASE Wrapped'
  <2> DEFINE k == sampleId'
             d == Delay'
             l == lost'
  <2>1. k * FrameSize < d + l
    BY <1>2 DEF Wrapped
  <2>2. k \in Nat /\ d \in 0 .. FrameSize /\ l = 0
    BY <1>1
  <2>3. k = 0 => pos' < FrameSize
    BY DEF Track
  <2> HIDE DEF k, d, l
  <2>4. ASSUME k # 0 PROVE FALSE
    <3>1. 1 <= k /\ 1 \in Nat
      BY <2>2, <2>4
    <3>2. 1 * FrameSize <= k * FrameSize /\ k * FrameSize \in Nat /\ 1 * FrameSize = FrameSize
      BY <2>2, <3>1, Sizes, MulMono
    <3> QED BY <2>1, <2>2, <3>2, Sizes
  <2> QED BY <2>3, <2>4
<1>3. CASE pos' + displaced' >= Min2(endSamples', Playable)
  <2> DEFINE p == pos'
             e == endSamples'
             d == displaced'
             q == Playable
  <2>1. p + d >= Min2(e, q) /\ d = 0 /\ p \in Nat /\ e \in Nat /\ q \in Int
    BY <1>1, <1>3
  <2> HIDE DEF p, e, d, q
  <2>2. p >= e \/ p >= q
    BY <2>1 DEF Min2
  <2> QED BY <2>2 DEF p, e, q
<1>4. EndsAtEnd' /\ OutSize = FrameSize /\ SameRate
  BY DEF EndInv, Plain
<1>5. pos' + displaced' >= Min2(endSamples', Playable) \/ Wrapped'
  BY <1>4 DEF EndsAtEnd, Playable
<1> QED BY <1>2, <1>3, <1>5

LEMMA StreamPosition ==
  ASSUME host # "decoding", host' = "ready", song' # 0,
         pos' \in 0 .. MaxPos, endSamples' \in 0 .. MaxPos, pos' <= endSamples',
         eof' = FALSE, chunk' = NoChunk
  PROVE  Stream!Next
<1>1. Stream!Position(pos', endSamples')
  BY DEF Stream!Position, Stream!Empty, NoChunk
<1> QED BY <1>1 DEF Stream!Next

LEMMA StreamStutter ==
  ASSUME eof' = eof, chunk' = chunk,
         (IF host = "decoding" THEN pos - build.n ELSE pos)'
            = (IF host = "decoding" THEN pos - build.n ELSE pos),
         (IF song = 0 THEN 0 ELSE endSamples)' = (IF song = 0 THEN 0 ELSE endSamples)
  PROVE  UNCHANGED Stream!vars
  BY DEF Stream!vars

\* A call of decode_run returns: the chunk follows on the last one, or there is no more.
LEMMA StreamReturns ==
  ASSUME Plain, SInv, NotPast, EmptyChunk, EmptyChunk', RunFrame, displaced' = 0,
         host' = "ready", chunk' = build', eof' = (build'.n = 0),
         build'.n = 0 => out'.ret \in {"end", "short", "null"}
  PROVE  Stream!Next
<1>1. /\ host = "decoding" /\ eof = FALSE /\ song' = song /\ song # 0 /\ pos \in Nat
      /\ build.n \in Nat
  BY DEF SInv, NotPast, Alive, RunFrame, Hosted, Track, BuildType
<1>2. /\ build'.n \in Nat /\ build'.from \in Int /\ build'.n <= pos' /\ pos' \in Nat
      /\ pos' - build'.n = pos - build.n
      /\ endSamples' = endSamples /\ endSamples' \in 0 .. MaxPos
      /\ EndInv' /\ Track' /\ out'.ret # "null"
  BY AppendedSays DEF BuildType, RunSays, Track, EndInv, Shape, TypeOK
<1>3. CASE build'.n = 0
  <2>1. build' = NoChunk
    BY <1>3 DEF EmptyChunk
  <2>2. out'.ret \in {"end", "short"}
    BY <1>2, <1>3
  <2>3. pos' >= endSamples' \/ pos' >= Playable \/ pos' < FrameSize
    BY <1>2, <2>2, NothingLeft
  <2>4. pos - build.n = pos'
    BY <1>2, <1>3
  <2>5. eof' = TRUE /\ host' # "decoding" /\ endSamples = endSamples'
    BY <1>2, <1>3
  <2>6. Stream!Exhausted
    BY <1>1, <2>3, <2>4, <2>5 DEF Stream!Exhausted
  <2>7. chunk' = NoChunk
    BY <2>1
  <2>8. Stream!Finish
    BY <1>1, <2>4, <2>5, <2>6, <2>7 DEF Stream!Finish, Stream!Empty, NoChunk
  <2> QED BY <2>8 DEF Stream!Next
<1>4. CASE build'.n > 0
  <2>1. /\ build'.solid /\ build'.from + build'.n = pos'
        /\ pos' <= endSamples' /\ pos' <= Playable
    BY <1>4, AppendedSays
  <2> DEFINE n == build'.n
             p == pos - build.n
  <2>2. n \in 1 .. MaxPos /\ p \in Int /\ p + n = pos' /\ build'.from = p
    BY <1>1, <1>2, <1>4, <2>1, Sizes
  <2>3. eof' = FALSE
    <3>1. ~(build'.n = 0)
      BY <1>2, <1>4
    <3> QED BY <3>1
  <2>4. Stream!Deliver(n)
    <3> HIDE DEF n, p
    <3>1. /\ p + n <= endSamples /\ p + n <= Playable /\ pos' = p + n /\ n > 0
      BY <1>2, <2>1, <2>2
    <3>2. build'.from = p /\ build'.n = n
      BY <2>2 DEF n
    <3> QED
      BY <1>1, <1>2, <2>1, <2>3, <3>1, <3>2 DEF Stream!Deliver, n, p
  <2> QED BY <2>2, <2>4 DEF Stream!Next
<1> QED BY <1>2, <1>3, <1>4

\* As long as no frame was dropped, each call is a call of the stream or leaves it alone.
LEMMA StreamStep ==
  ASSUME Plain, SInv, NotPast, EmptyChunk, [SfaadNext]_svars, displaced' = 0
  PROVE  Stream!Next \/ UNCHANGED Stream!vars
<1>1. CASE UNCHANGED svars
  BY <1>1, StreamStutter DEF svars, plugin, vars, hist, fields
<1>2. CASE OpenThrows \/ OpenForInfo
  BY <1>2, StreamStutter DEF OpenThrows, OpenForInfo, vars, hist, fields
<1>3. CASE OpenForDecoding
  <2>1. /\ host = "none" /\ host' # "decoding" /\ song = 0
        /\ UNCHANGED <<eof, song, chunk>> /\ pos' = pos
    BY <1>3 DEF OpenForDecoding, SInv, Alive, Hosted, DecInit, InitUnreadable, InitRejected,
       InitDone, hist
  <2> QED BY <2>1, StreamStutter
<1>4. CASE DecodeInitialize
  <2>1. host # "decoding"
    BY <1>4 DEF DecodeInitialize
  <2>2. song' # 0
    BY <1>4, InitializeSays
  <2> QED BY <1>4, <2>1, <2>2, InitializeSays, StreamPosition
<1>5. CASE DecodeSeek
  <2>1. host = "ready" /\ song' # 0
    BY <1>5, DecodeSeekSays DEF DecodeSeek, SInv, Alive, Hosted
  <2> QED BY <1>5, <2>1, DecodeSeekSays, StreamPosition, StreamStutter
<1>6. CASE DecodeRun
  <2>1. /\ host = "ready" /\ host' = "decoding" /\ build' = NoChunk
        /\ UNCHANGED <<eof, song, chunk>> /\ pos' = pos /\ endSamples' = endSamples
        /\ pos \in Nat
    BY <1>6 DEF DecodeRun, CallRun, vars, hist, fields, SInv, Alive, Track
  <2>2. pos' - build'.n = pos
    BY <2>1 DEF NoChunk
  <2> QED BY <2>1, <2>2, StreamStutter
<1>7. CASE RunFrame
  <2>1. /\ host = "decoding" /\ eof = FALSE /\ song' = song
        /\ pos' - build'.n = pos - build.n /\ endSamples' = endSamples
    BY <1>7, AppendedSays DEF SInv, Alive, RunFrame, NotPast, RunSays
  <2>2. CASE host' = "decoding" /\ eof' = eof /\ chunk' = chunk
    BY <2>1, <2>2, StreamStutter
  <2>3. CASE /\ host' = "ready" /\ chunk' = build' /\ eof' = (build'.n = 0)
             /\ build'.n = 0 => out'.ret \in {"end", "short", "null"}
    BY <1>7, <2>3, EmptyStep, StreamReturns DEF AnyNext
  <2> QED BY <1>7, <2>2, <2>3, LoopEnds
<1>8. CASE Destroy
  <2>1. /\ host # "decoding" /\ host' = "gone" /\ UNCHANGED <<eof, song, chunk>>
        /\ pos' = pos /\ endSamples' = endSamples
    BY <1>8 DEF Destroy, Exit, hist, fields
  <2> QED BY <2>1, StreamStutter
<1> QED BY <1>1, <1>2, <1>3, <1>4, <1>5, <1>6, <1>7, <1>8 DEF SfaadNext

(* The plug-in is an input_decoder: whatever the host seeks, re-initializes  *)
(* and decodes, each chunk follows on the last one without a gap, up to the  *)
(* end of the subsong, as long as no frame was dropped since it was          *)
(* positioned; the next positioning makes it one again.                      *)
THEOREM ImplementsSampleStream == ASSUME Plain PROVE SfaadSpec => IsSampleStream
<1>1. SfaadInit => Stream!Init /\ EmptyChunk /\ NotPast
  BY DEF SfaadInit, Init, Stream!Init, Stream!Empty, NoChunk, EmptyChunk, NotPast
<1>2. SInv /\ EmptyChunk /\ [SfaadNext]_svars => EmptyChunk'
  BY EmptyStep DEF AnyNext
<1>3. SInv /\ NotPast /\ [SfaadNext]_svars => NotPast'
  BY NotPastStep
<1>4. SInv /\ NotPast /\ EmptyChunk /\ [SfaadNext]_svars
        => [displaced' # 0 \/ Stream!Next]_(Stream!vars)
  BY StreamStep
<1> QED BY <1>1, <1>2, <1>3, <1>4, SInvAlways, PTL DEF SfaadSpec, IsSampleStream
-----------------------------------------------------------------------------
(* Subsongs join.                                                            *)

\* Where the decoder stands with respect to the end of the subsong: never beyond it, and
\* at it when decode_run has ended, unless a frame was dropped or there is no more to read.
AtEnd ==
  /\ song \in 0 .. Len(Lengths) /\ displaced \in Nat
  /\ host \in {"none", "info", "opened"} => ~eof
  /\ host \in {"ready", "decoding"} =>
       /\ endSamples = TimeToSamples(Until[song])
       /\ displaced = 0 => pos <= endSamples
  /\ host = "ready" /\ eof /\ displaced = 0 =>
       pos >= endSamples \/ pos >= Playable \/ pos < FrameSize

JoinInv == SInv /\ NotPast /\ AtEnd

LEMMA JoinInit == ASSUME Plain, SfaadInit PROVE JoinInv
<1>1. Len(Lengths) \in Nat
  BY SfaadAssumption
<1>2. host = "none" /\ song = 0 /\ eof = FALSE /\ displaced = 0
  BY DEF SfaadInit, Init
<1>3. NotPast /\ AtEnd
  BY <1>1, <1>2 DEF NotPast, AtEnd
<1> QED BY <1>3, SInvInit DEF JoinInv

\* A pass of the loop stays within the subsong, and the last one ends at its end.
LEMMA RunAtEnd == ASSUME Plain, JoinInv, RunFrame PROVE AtEnd'
<1>1. /\ host = "decoding" /\ song' = song /\ SInv /\ AtEnd /\ ~eof
  BY DEF RunFrame, JoinInv, NotPast
<1>2. RunSays /\ EndInv' /\ Track' /\ build'.n = build.n + out'.n /\ build.n \in Nat
  BY <1>1, AppendedSays DEF RunSays, SInv, BuildType
<1>3. pos \in Nat /\ endSamples \in Nat
  BY <1>1, Sizes DEF SInv, Alive, EndInv, Shape, TypeOK, Track
<1>4. endSamples' = TimeToSamples(Until[song']) /\ displaced' \in Nat
  BY <1>1, <1>2 DEF AtEnd, RunSays
<1>5. displaced' = 0 => pos' <= endSamples'
  BY <1>1, <1>2, <1>3 DEF AtEnd, RunSays
<1>6. ASSUME host' = "ready", eof', displaced' = 0
      PROVE  pos' >= endSamples' \/ pos' >= Playable \/ pos' < FrameSize
  <2>1. out'.ret \in {"end", "short"}
    BY <1>1, <1>2, <1>6, LoopEnds DEF RunSays
  <2> QED BY <1>2, <1>6, <2>1, NothingLeft
<1>7. host' \in {"ready", "decoding"}
  BY <1>1, LoopEnds
<1> QED BY <1>1, <1>4, <1>5, <1>6, <1>7 DEF AtEnd

LEMMA JoinStep == ASSUME Plain, JoinInv, [SfaadNext]_svars PROVE JoinInv'
<1>1. SInv' /\ NotPast'
  BY SInvStep, NotPastStep DEF JoinInv, AnyNext
<1>2. AtEnd'
  <2>1. CASE UNCHANGED svars
    BY <2>1 DEF JoinInv, AtEnd, svars, plugin, vars, fields, hist
  <2>2. CASE RunFrame
    BY <2>2, RunAtEnd
  <2>3. CASE DecodeInitialize
    <3>1. /\ host' = "ready" /\ song' \in 1 .. Len(Lengths) /\ eof' = FALSE
          /\ pos' <= endSamples' /\ endSamples' = TimeToSamples(Until[song']) /\ Track'
          /\ EndInv'
      BY <2>3, InitializeSays DEF JoinInv
    <3>2. displaced' \in Nat
      BY <3>1 DEF EndInv, Shape, TypeOK
    <3> QED BY <3>1, <3>2 DEF AtEnd
  <2>4. CASE DecodeSeek
    <3>1. host = "ready" /\ SInv /\ AtEnd
      BY <2>4 DEF DecodeSeek, JoinInv
    <3>2. CASE /\ EndInv' /\ host' = "ready" /\ pos' <= endSamples' /\ eof' = FALSE
               /\ endSamples' = endSamples /\ song' = song
      <4>1. displaced' \in Nat
        BY <3>2 DEF EndInv, Shape, TypeOK
      <4> QED BY <3>1, <3>2, <4>1 DEF AtEnd
    <3>3. CASE host' = "broken" /\ song' = song /\ displaced' = displaced
      BY <3>1, <3>3 DEF AtEnd
    <3> QED BY <2>4, <3>1, <3>2, <3>3, DecodeSeekSays
  <2>5. CASE DecodeRun
    BY <2>5 DEF DecodeRun, CallRun, JoinInv, AtEnd, vars, fields, hist
  <2>6. CASE OpenThrows \/ OpenForInfo \/ Destroy
    <3>1. host' \notin {"ready", "decoding", "opened", "none"} /\ song' = song
      BY <2>6 DEF OpenThrows, OpenForInfo, Destroy
    <3> QED BY <2>6, <3>1 DEF OpenThrows, OpenForInfo, Destroy, Exit, JoinInv, AtEnd, vars, hist
  <2>7. CASE OpenForDecoding
    BY <2>7
    DEF OpenForDecoding, JoinInv, AtEnd, DecInit, InitUnreadable, InitRejected, InitDone, hist
  <2> QED BY <2>1, <2>2, <2>3, <2>4, <2>5, <2>6, <2>7 DEF SfaadNext
<1> QED BY <1>1, <1>2 DEF JoinInv

\* Only decode_initialize goes to another subsong, and it starts at the end of the one before.
LEMMA Joined ==
  ASSUME Plain, JoinInv, [SfaadNext]_svars, eof, song > 0, song' = song + 1, displaced = 0,
         pos \in FrameSize .. Playable - 1
  PROVE  pos' = pos
<1>1. song \in Nat
  BY SfaadAssumption DEF JoinInv, AtEnd
<1>2. DecodeInitialize
  <2>1. song' # song
    BY <1>1
  <2> QED BY <2>1 DEF SfaadNext, svars, plugin, OpenThrows, OpenForInfo, OpenForDecoding,
                      DecodeSeek, DecodeRun, CallRun, RunFrame, Destroy
<1>3. host = "ready"
  BY <1>2 DEF DecodeInitialize, JoinInv, AtEnd
<1>4. endSamples = TimeToSamples(Until[song]) /\ pos <= endSamples
      /\ (pos >= endSamples \/ pos >= Playable \/ pos < FrameSize)
  BY <1>3 DEF JoinInv, AtEnd
<1>5. pos' = TimeToSamples(Until[song' - 1])
  BY <1>2, InitializeSays DEF JoinInv
<1>6. pos \in Nat /\ endSamples \in Nat /\ Playable \in Int
  BY <1>3, Sizes, MulSucc DEF JoinInv, SInv, Alive, EndInv, Shape, TypeOK, Track, Playable
<1>7. pos = endSamples
  BY <1>4, <1>6, Sizes
<1>8. song' - 1 = song
  BY <1>1
<1> QED BY <1>4, <1>5, <1>7, <1>8

(* A subsong played after the one before it starts at the very sample where  *)
(* that one ended, for subsongs of any lengths, whose bounds fall between    *)
(* samples and inside frames, if no frame was dropped.                       *)
THEOREM SubsongsJoinHolds == ASSUME Plain PROVE SfaadSpec => SubsongsJoin
<1>1. SfaadInit => JoinInv
  BY JoinInit
<1>2. JoinInv /\ [SfaadNext]_svars => JoinInv'
  BY JoinStep
<1>3. JoinInv /\ [SfaadNext]_svars =>
        [(/\ eof /\ song > 0 /\ song' = song + 1 /\ displaced = 0
          /\ pos \in FrameSize .. Playable - 1) => pos' = pos]_svars
  BY Joined
<1> QED BY <1>1, <1>2, <1>3, PTL DEF SfaadSpec, SubsongsJoin
-----------------------------------------------------------------------------
(* That decode_run comes to an end, and the stream.                          *)

\* What the host has left, in this order: calls of open, initialize or the destructor,
\* frames to read, and calls of faad_dec::run that read none.
Life   == IF host = "none" THEN 3 ELSE IF host = "broken" THEN 1 ELSE IF host = "gone" THEN 0 ELSE 2
Frames == Ents - current
Turn   == IF host = "decoding" THEN IF build.n = 0 THEN 1 ELSE 3
          ELSE IF eof THEN 0 ELSE 2
ToPlay == <<Life, Frames, Turn>>

PlaysOn == <<ToPlay', ToPlay>> \in Below(3)

\* The reader is within the table, whatever the file and the host do.
Reading ==
  /\ current \in 0 .. Ents
  /\ host \in {"ready", "decoding"} => song \in 1 .. Len(Lengths)

LEMMA SongStarts ==
  ASSUME NEW i \in 1 .. Len(Lengths)
  PROVE  Until[i - 1] \in Nat /\ TimeToSamples(Until[i - 1]) \in Nat
<1>1. Until[i - 1] \in Nat
  BY UntilSays, SfaadAssumption
<1> QED BY <1>1, Monotone

LEMMA SeekReads ==
  ASSUME current \in 0 .. Ents, NEW p \in Nat, NEW e, Seek(p, e)
  PROVE  current' \in 0 .. Ents /\ (out'.ret = "ok" => pos' = p)
<1>1. p \div FrameSize \in Nat
  BY Sizes, DivMod
<1>2. CASE SeekTo(p, e)
  BY <1>1, <1>2, Sizes DEF SeekTo, SeekFrame
<1>3. CASE SeekPast(p, e)
  BY <1>3 DEF SeekPast, Nothing
<1> QED BY <1>2, <1>3 DEF Seek

\* A call of run reads one frame, or it is the last of its decode_run.
LEMMA RunReads ==
  ASSUME current \in 0 .. Ents, Run
  PROVE  \/ current' = current + 1 /\ current' \in 0 .. Ents
         \/ current' = current /\ out'.ret # "ok" /\ out'.n = 0
<1>1. CASE RunRefused \/ RunUnread
  BY <1>1 DEF RunRefused, RunUnread, Nothing, fields
<1>2. CASE RunNull \/ RunDecoded
  BY <1>2, Sizes DEF RunNull, RunDecoded, FrameReadable
<1> QED BY <1>1, <1>2 DEF Run

LEMMA DecodeSeekReads ==
  ASSUME Reading, DecodeSeek
  PROVE  /\ current' \in 0 .. Ents /\ host' \in {"ready", "broken"} /\ song' = song
         /\ host' = "ready" => pos' \in Nat
<1>1. host = "ready" /\ song \in 1 .. Len(Lengths) /\ song' = song
  BY DEF DecodeSeek, Reading
<1>2. PICK t \in 0 .. MaxPos * TicksPerSample : Seek(TimeToSamples(Until[song - 1] + t), endSamples)
  BY DEF DecodeSeek
<1>3. t \in Nat
  <2>1. MaxPos * TicksPerSample \in Int
    BY Sizes, SfaadAssumption, MulSucc
  <2> QED BY <2>1
<1>4. Until[song - 1] + t \in Nat
  <2>1. Until[song - 1] \in Nat
    BY <1>1, SongStarts
  <2> QED BY <1>3, <2>1
<1>5. TimeToSamples(Until[song - 1] + t) \in Nat
  BY <1>4, Monotone
<1>6. current' \in 0 .. Ents /\ (out'.ret = "ok" => pos' \in Nat)
  BY <1>2, <1>5, SeekReads DEF Reading
<1> QED BY <1>1, <1>6 DEF DecodeSeek

LEMMA InitializeReads ==
  ASSUME Reading, DecodeInitialize
  PROVE  /\ current' \in 0 .. Ents /\ song' \in 1 .. Len(Lengths) /\ seeks' = seeks + 1
         /\ host' \in {"ready", "broken"}
<1>1. PICK i \in 1 .. Len(Lengths) :
        Seek(TimeToSamples(Until[i - 1]), TimeToSamples(Until[i])) /\ song' = i
  BY DEF DecodeInitialize
<1>2. TimeToSamples(Until[i - 1]) \in Nat
  BY SongStarts
<1>3. current' \in 0 .. Ents
  BY <1>1, <1>2, SeekReads DEF Reading
<1> QED BY <1>1, <1>3 DEF DecodeInitialize, Repositioned

LEMMA ReadingInit == SfaadInit => Reading
  BY Sizes DEF SfaadInit, Init, Reading

LEMMA ReadingStep == Reading /\ [AnyNext]_svars => Reading'
<1> SUFFICES ASSUME Reading, [AnyNext]_svars PROVE Reading'
  OBVIOUS
<1>1. CASE OpenThrows \/ OpenForInfo \/ CallRun \/ Destroy
  BY <1>1 DEF OpenThrows, OpenForInfo, CallRun, Destroy, Exit, Reading, vars, fields
<1>2. CASE OpenForDecoding
  BY <1>2, Sizes
  DEF OpenForDecoding, DecInit, InitUnreadable, InitRejected, InitDone, Reading, fields
<1>3. CASE DecodeInitialize
  BY <1>3, InitializeReads DEF Reading
<1>4. CASE DecodeSeek
  <2>1. host = "ready"
    BY <1>4 DEF DecodeSeek
  <2> QED BY <1>4, <2>1, DecodeSeekReads DEF Reading
<1>5. CASE RunFrame
  BY <1>5, RunReads, Sizes DEF RunFrame, Reading
<1>6. CASE UNCHANGED svars
  BY <1>6 DEF svars, plugin, vars, fields, Reading
<1> QED BY <1>1, <1>2, <1>3, <1>4, <1>5, <1>6 DEF AnyNext, SfaadNext, DecodeRun

Natural == Life \in Nat /\ Frames \in Nat /\ Turn \in Nat

LEMMA ReadingCounts == Reading => Natural
  BY Sizes DEF Reading, Natural, Life, Frames, Turn

LEMMA NaturalIsMeasure == Natural => ToPlay \in [1 .. 3 -> Nat]
<1>1. \A a, b, c \in Nat : <<a, b, c>> \in [1 .. 3 -> Nat]
  OBVIOUS
<1> QED BY <1>1 DEF Natural, ToPlay

\* A pass of the loop reads a frame, or returns; what it returns when nothing was read is
\* empty, and that is the end.
LEMMA PassReads ==
  ASSUME Reading, RunFrame
  PROVE  \/ Frames' < Frames
         \/ Frames' = Frames /\ host' = "ready" /\ (build.n = 0 <=> eof')
<1>1. CASE current' = current + 1 /\ current' \in 0 .. Ents
  BY <1>1, Sizes DEF Frames, Reading
<1>2. CASE current' = current /\ out'.ret # "ok" /\ out'.n = 0
  <2>1. build' = build /\ host' = "ready" /\ eof' = (build'.n = 0)
    BY <1>2 DEF RunFrame, Appended
  <2>2. build.n = 0 <=> eof'
    BY <2>1
  <2> QED BY <1>2, <2>1, <2>2 DEF Frames
<1> QED BY <1>1, <1>2, RunReads DEF RunFrame, Reading

LEMMA PassPlays ==
  ASSUME Reading, RunFrame
  PROVE  Life' = Life /\ (Frames' < Frames \/ (Frames' = Frames /\ Turn' < Turn))
<1>1. host = "decoding" /\ host' \in {"decoding", "ready"}
  BY DEF RunFrame
<1>2. host' = "ready" /\ (build.n = 0 <=> eof') => Turn' < Turn
  BY <1>1 DEF Turn
<1> QED BY <1>1, <1>2, PassReads DEF Life

LEMMA PlaysStep ==
  ASSUME Reading, SfaadNext
  PROVE  \/ seeks' = seeks + 1
         \/ Life' < Life
         \/ Life' = Life /\ Frames' < Frames
         \/ Life' = Life /\ Frames' = Frames /\ Turn' < Turn
<1>1. CASE OpenThrows \/ OpenForInfo \/ OpenForDecoding \/ Destroy
  BY <1>1 DEF OpenThrows, OpenForInfo, OpenForDecoding, Destroy, Life
<1>2. CASE DecodeInitialize
  BY <1>2, InitializeReads
<1>3. CASE DecodeSeek
  BY <1>3 DEF DecodeSeek, Repositioned, Life
<1>4. CASE DecodeRun
  BY <1>4 DEF DecodeRun, CallRun, NoChunk, Life, Frames, Turn, vars, fields
<1>5. CASE RunFrame
  BY <1>5, PassPlays
<1> QED BY <1>1, <1>2, <1>3, <1>4, <1>5 DEF SfaadNext

(* decode_run never goes on for ever, and a host that only asks for chunks    *)
(* has soon asked for the last: every step that is not an initialize or a     *)
(* seek takes something off a measure that cannot go down for ever.  So it is *)
(* for every file, whatever frames cannot be decoded or yield no samples: a   *)
(* pass of the loop that does not return has read a frame, and a call that    *)
(* has read none reports the end.                                             *)
THEOREM ChunksRunOut ==
  /\ IsWellFoundedOn(Below(3), [1 .. 3 -> Nat])
  /\ SfaadSpec => [](ToPlay \in [1 .. 3 -> Nat])
  /\ SfaadSpec => [][seeks' = seeks + 1 \/ PlaysOn]_svars
<1>1. Reading /\ Natural /\ Natural' /\ [SfaadNext]_svars =>
        [seeks' = seeks + 1 \/ PlaysOn]_svars
  <2>1. SUFFICES ASSUME Reading, Natural, Natural', SfaadNext, seeks' # seeks + 1
                 PROVE  PlaysOn
    OBVIOUS
  <2>2. <<<<Life', Frames', Turn'>>, <<Life, Frames, Turn>>>> \in Below(3)
    BY <2>1, PlaysStep, LowersThree DEF Natural
  <2> QED BY <2>2 DEF PlaysOn, ToPlay
<1>2. [SfaadNext]_svars => [AnyNext]_svars
  BY DEF AnyNext
<1>3. SfaadSpec => [](Reading /\ Natural)
  BY <1>2, ReadingInit, ReadingStep, ReadingCounts, PTL DEF SfaadSpec
<1>4. SfaadSpec => [](ToPlay \in [1 .. 3 -> Nat])
  BY <1>3, NaturalIsMeasure, PTL
<1>5. SfaadSpec => [][seeks' = seeks + 1 \/ PlaysOn]_svars
  BY <1>1, <1>3, PTL DEF SfaadSpec
<1>6. IsWellFoundedOn(Below(3), [1 .. 3 -> Nat])
  BY BelowIsWellFounded
<1> QED BY <1>4, <1>5, <1>6
=============================================================================
