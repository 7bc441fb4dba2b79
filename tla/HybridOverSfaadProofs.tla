------------------------ MODULE HybridOverSfaadProofs ------------------------
(***************************************************************************)
(* Proofs about the two plug-ins together: for every plain file with any   *)
(* damaged frames, every album and additional file, and every sequence of  *)
(* calls, the wrapper over input_sfaad is the wrapper over the contract    *)
(* until a frame is dropped and again once repositioned; and what it mixes *)
(* after a dropped frame is off by the frames dropped.  At the end, for    *)
(* every file: each step goes down in a well-founded order.                *)
(***************************************************************************)
EXTENDS HybridOverSfaad, SfaadProofs

\* Where the wrapper is and where the plug-in is in its life.
HPhases ==
  /\ whost \in {"closed", "opened", "ready", "asking", "mixing", "draining", "broken"}
  /\ isAdd = TRUE
  /\ whost = "closed" => host = "none"
  /\ whost = "opened" => host = "opened"
  /\ whost \in {"ready", "mixing"} => host = "ready"
  /\ whost = "asking" => host = "decoding"
  /\ whost = "draining" => aeof /\ host \in {"ready", "decoding"}
  /\ whost \in {"asking", "mixing", "draining"} => ~weof
  /\ whost \in {"ready", "asking", "mixing", "draining"} => aend = AddLen

HTypes ==
  /\ apos \in 0 .. AddLen /\ aend \in 0 .. AddLen /\ aeof \in BOOLEAN /\ weof \in BOOLEAN
  /\ pStart \in Nat /\ pEnd \in Nat /\ pStart <= pEnd /\ base \in Nat
  /\ todo \in Nat /\ cur \in Nat /\ stale \in Nat
  /\ got \in Seq(Int) /\ fresh \in BOOLEAN /\ resumed \in BOOLEAN

\* Once input has ended it gives nothing more, unless it has dropped a frame: its chunk
\* stays empty.
Ended ==
  /\ eof => chunk = NoChunk
  /\ eof /\ displaced = 0 /\ host \in {"ready", "decoding"} =>
       /\ Refuses \/ ~FrameReadable
       /\ host = "decoding" => build.n = 0

\* After the end of the additional file input has ended as well, or has dropped a frame.
Final ==
  aeof /\ whost \in {"ready", "asking", "mixing"} =>
    \/ whost # "mixing" /\ eof
    \/ resumed /\ displaced > 0

\* The chunk that is mixed ends where input is.
Chunk ==
  whost = "mixing" => /\ cur + todo = pos
                      /\ todo <= chunk.n /\ chunk.n = Len(got) /\ chunk.n \in Nat

\* Input's next sample to be mixed.
NextMixed == IF whost = "mixing" THEN cur ELSE MainPos

\* What a seek left in chunk_add is what the streams are apart by, counted in positions;
\* or the main one is past the end of the additional one.
Apart ==
  ~aeof /\ whost \in {"ready", "asking", "mixing"} =>
    \/ apos - (pEnd - pStart) = NextMixed - stale
    \/ NextMixed > AddLen /\ apos = AddLen /\ ~fresh

\* What was read since positioned ends chunk_add.
AddTail == fresh /\ ~aeof => base + pEnd = apos

\* The samples of the chunk are ahead of their positions by the frames dropped before.
Shifted ==
  host = "decoding" \/ whost = "mixing" =>
    /\ host = "decoding" => Len(got) = build.n
    /\ \A k \in 1 .. Len(got) : got[k] - (pos - Len(got) + k - 1) \in 0 .. displaced

(* The inductive invariant: the plug-in's, and the parts above with the      *)
(* property they carry.                                                      *)
HInv ==
  /\ SInv /\ EmptyChunk
  /\ HTypes /\ HPhases /\ Ended /\ Final /\ Chunk /\ Apart /\ AddTail /\ Shifted
  /\ SkewExplained
-----------------------------------------------------------------------------
(* The plug-in under the wrapper.                                            *)

\* Whatever the wrapper does, the plug-in is called as any caller may call it, or not.
LEMMA CallsOfPlugin == HNext => [AnyNext]_svars
BY DEF HNext, HRun, HOpen, HInitialize, HSeek, AddThrows, AskInput, InputPass, InputGoesOn,
       InputGives, InputEnds, Mixes, MixThrows, AnyNext, SfaadNext

LEMMA PluginKeeps ==
  ASSUME Plain, HInv, [HNext]_wvars
  PROVE  SInv' /\ EmptyChunk'
<1>1. [AnyNext]_svars
  BY CallsOfPlugin DEF wvars
<1> QED BY <1>1, SInvStep, EmptyStep DEF HInv

\* The ranges of what the wrapper reads of it.
LEMMA Ranges ==
  ASSUME SInv, Alive
  PROVE  /\ pos \in Nat /\ displaced \in Nat /\ endSamples \in Nat
         /\ build.n \in Nat /\ build.from \in Int
         /\ MainPos \in Nat /\ (host = "decoding" => build.n <= pos)
<1>1. /\ pos \in Nat /\ displaced \in Nat /\ build.n \in Nat /\ build.from \in Int
      /\ endSamples \in Nat /\ (host = "decoding" => build.n <= pos)
  BY Sizes DEF SInv, Track, EndInv, Shape, TypeOK, BuildType, Building
<1> QED BY <1>1 DEF MainPos

\* A pass that starts with nothing left to decode gives nothing, and one that ends input
\* with no frame dropped leaves nothing to decode.
LEMMA EndedPass ==
  ASSUME Plain, SInv, EmptyChunk, EmptyChunk', Ended, RunFrame
  PROVE  Ended' /\ (eof /\ displaced' = 0 => build'.n = 0)
<1>1. /\ host = "decoding" /\ Run /\ build.n \in Nat /\ build'.n \in Nat
      /\ build'.n = build.n + out'.n /\ out'.n \in Nat
      /\ displaced' = 0 => displaced = 0 /\ out'.ret # "null"
  BY AppendedSays, Sizes DEF RunFrame, RunSays, SInv, BuildType
<1>2. \/ host' = "decoding" /\ out'.ret = "ok" /\ eof' = eof /\ chunk' = chunk
      \/ /\ host' = "ready" /\ chunk' = build' /\ eof' = (build'.n = 0)
         /\ build'.n = 0 => out'.ret \in {"end", "short", "null"}
  BY LoopEnds DEF RunFrame
<1> DEFINE Silent == RunRefused \/ RunUnread
<1>3. ASSUME Silent
      PROVE  (Refuses \/ ~FrameReadable)' /\ out'.n = 0 /\ out'.ret # "ok"
  BY <1>3 DEF RunRefused, RunUnread, Refuses, FrameReadable, fields, neaac, Nothing
<1>4. eof /\ displaced' = 0 => Silent
  BY <1>1 DEF Ended, Run, RunNull, RunDecoded
<1>5. out'.ret \in {"end", "short"} => Silent
  BY <1>1 DEF Run, RunNull, RunDecoded, Nothing
<1>6. eof /\ displaced' = 0 => build'.n = 0
  BY <1>1, <1>3, <1>4 DEF Ended
<1>7. CASE host' = "decoding" /\ out'.ret = "ok" /\ eof' = eof /\ chunk' = chunk
  <2>1. ~(eof /\ displaced' = 0)
    BY <1>3, <1>4, <1>7
  <2> QED BY <1>6, <1>7, <2>1 DEF Ended
<1>8. CASE /\ host' = "ready" /\ chunk' = build' /\ eof' = (build'.n = 0)
           /\ build'.n = 0 => out'.ret \in {"end", "short", "null"}
  <2>1. eof' => chunk' = NoChunk
    BY <1>8 DEF EmptyChunk
  <2>2. eof' /\ displaced' = 0 => (Refuses \/ ~FrameReadable)'
    BY <1>1, <1>3, <1>5, <1>8
  <2> QED BY <1>6, <1>8, <2>1, <2>2 DEF Ended
<1> QED BY <1>2, <1>7, <1>8

LEMMA EndedIdle == ASSUME Ended, UNCHANGED svars PROVE Ended'
BY DEF Ended, Refuses, FrameReadable, svars, plugin, vars, fields, neaac, hist

\* What is appended to a chunk is ahead of its positions by the frames dropped so far.
LEMMA GotGrows ==
  ASSUME Plain, HInv, InputPass
  PROVE  /\ got' \in Seq(Int) /\ Len(got') = build'.n
         /\ \A k \in 1 .. Len(got') : got'[k] - (pos' - Len(got') + k - 1) \in 0 .. displaced'
<1>1. /\ SInv /\ RunFrame /\ host = "decoding" /\ got \in Seq(Int) /\ Len(got) = build.n
      /\ \A k \in 1 .. Len(got) : got[k] - (pos - Len(got) + k - 1) \in 0 .. displaced
  BY DEF HInv, HTypes, Shifted, InputPass, RunFrame
<1>2. /\ build.n \in Nat /\ pos \in Nat /\ displaced \in Nat
  BY <1>1, Ranges DEF Alive
<1>3. /\ build'.n = build.n + out'.n /\ out'.n \in Nat /\ out'.from \in Int
      /\ pos' = pos + out'.n /\ displaced' \in Nat /\ displaced <= displaced'
  BY <1>1, AppendedSays, Sizes DEF RunSays
<1>4. out'.n > 0 => out'.from = pos + displaced'
  <2>1. InPlace' /\ OutSize = FrameSize
    BY <1>1, AppendedSays DEF EndInv, Steady, Plain
  <2> QED BY <1>2, <1>3, <2>1 DEF InPlace
<1> DEFINE n == out'.n
           f == out'.from
           b == build.n
           more == [i \in 1 .. n |-> f + i - 1]
<1>5. /\ b \in Nat /\ n \in Nat /\ f \in Int /\ pos' = pos + n /\ build'.n = b + n
      /\ Len(got) = b /\ (n > 0 => f = pos + displaced')
  BY <1>1, <1>2, <1>3, <1>4
<1>6. got' = got \o more
  BY <1>2, <1>3 DEF InputPass
<1> HIDE DEF n, f, b
<1>7. more \in Seq(Int) /\ Len(more) = n /\ \A i \in 1 .. n : more[i] = f + i - 1
  BY <1>5
<1> HIDE DEF more
<1>8. /\ got' \in Seq(Int) /\ Len(got') = b + n
      /\ \A k \in 1 .. b : got'[k] = got[k]
      /\ \A k \in b + 1 .. b + n : got'[k] = more[k - b]
  <2>1. /\ got \in Seq(Int) /\ Len(got) = b /\ b \in Nat /\ n \in Nat
        /\ more \in Seq(Int) /\ Len(more) = n
    BY <1>1, <1>5, <1>7
  <2>2. /\ got \o more \in Seq(Int) /\ Len(got \o more) = b + n
        /\ \A k \in 1 .. b : (got \o more)[k] = got[k]
        /\ \A k \in b + 1 .. b + n : (got \o more)[k] = more[k - b]
    BY <2>1
  <2> QED BY <1>6, <2>2
<1>9. ASSUME NEW k \in 1 .. b + n
      PROVE  got'[k] - (pos' - (b + n) + k - 1) \in 0 .. displaced'
  <2>1. CASE k <= b
    <3>1. got[k] \in Int /\ got'[k] = got[k]
          /\ got[k] - (pos - b + k - 1) \in 0 .. displaced
      BY <1>1, <1>5, <1>8, <2>1
    <3>2. pos' - (b + n) + k - 1 = pos - b + k - 1
      BY <1>2, <1>5
    <3>3. got'[k] - (pos' - (b + n) + k - 1) \in 0 .. displaced
      BY <3>1, <3>2
    <3> QED BY <1>2, <1>3, <3>3
  <2>2. CASE k > b
    <3>1. k \in b + 1 .. b + n /\ k - b \in 1 .. n /\ n > 0
      BY <1>5, <2>2
    <3>2. got'[k] = f + (k - b) - 1 /\ f = pos + displaced'
      BY <1>5, <1>7, <1>8, <3>1
    <3>3. got'[k] - (pos' - (b + n) + k - 1) = displaced'
      BY <1>2, <1>3, <1>5, <3>1, <3>2
    <3> QED BY <1>3, <3>3
  <2> QED BY <1>5, <2>1, <2>2
<1> QED BY <1>5, <1>8, <1>9
-----------------------------------------------------------------------------
(* The wrapper's part of the invariant, one lemma per action.                *)

\* Everything but what the plug-in keeps by itself.
Rest ==
  /\ HTypes /\ HPhases /\ Ended /\ Final /\ Chunk /\ Apart /\ AddTail /\ Shifted
  /\ SkewExplained

LEMMA Leftover == \A a, b \in Nat : a <= b => b - a \in Nat
OBVIOUS

LEMMA Clamped == \A l, p \in Nat : (IF p <= l THEN p ELSE l) \in 0 .. l
OBVIOUS

\* Both decoders stand at the position asked for, or input_add at its end.
LEMMA HRepositions ==
  ASSUME HInv, pos' \in Nat, host' = "ready", eof' = FALSE, build' = NoChunk,
         whost' = "ready", weof' = FALSE, W!AddPosition(pos'),
         skews' = {}, got' = <<>>, fresh' = FALSE, resumed' = FALSE,
         UNCHANGED <<isAdd, todo, cur, base>>,
         pStart' \in Nat, pEnd' \in Nat, pStart' <= pEnd', stale' = pEnd' - pStart'
  PROVE  Rest'
<1>1. /\ apos' = IF pos' <= AddLen THEN pos' ELSE AddLen
      /\ aend' = AddLen /\ aeof' = FALSE
  BY DEF W!AddPosition, W!Add!Position, W!Min2
<1>2. AddLen \in Nat
  BY CompositionAssumption, Sizes
<1>3. HTypes'
  <2>1. apos' \in 0 .. AddLen /\ aend' \in 0 .. AddLen /\ aeof' \in BOOLEAN
    BY <1>1, <1>2, Clamped
  <2>2. stale' \in Nat
    BY Leftover
  <2>3. got' \in Seq(Int)
    OBVIOUS
  <2>4. todo' \in Nat /\ cur' \in Nat /\ base' \in Nat
    BY DEF HInv, HTypes
  <2> QED BY <2>1, <2>2, <2>3, <2>4 DEF HTypes
<1>4. HPhases'
  BY <1>1 DEF HInv, HPhases
<1>5. Ended' /\ Final' /\ Chunk' /\ AddTail' /\ SkewExplained'
  BY <1>1 DEF Ended, Final, Chunk, AddTail, SkewExplained
<1>6. Apart'
  <2>1. NextMixed' = pos'
    BY DEF NextMixed, MainPos
  <2> DEFINE p == pos'
             a == pStart'
             b == pEnd'
  <2>2. p \in Nat /\ a \in Nat /\ b \in Nat /\ stale' = b - a
    OBVIOUS
  <2>3. NextMixed' = p /\ apos' = IF p <= AddLen THEN p ELSE AddLen
    BY <1>1, <2>1
  <2> HIDE DEF p, a, b
  <2>4. \/ apos' - (b - a) = NextMixed' - stale'
        \/ NextMixed' > AddLen /\ apos' = AddLen
    <3> DEFINE q == apos'
               t == stale'
               n == NextMixed'
    <3>1. /\ q = IF p <= AddLen THEN p ELSE AddLen
          /\ n = p /\ t = b - a
      BY <2>2, <2>3
    <3> HIDE DEF q, t, n
    <3>2. q - (b - a) = n - t \/ (n > AddLen /\ q = AddLen)
      BY <1>2, <2>2, <3>1
    <3> QED BY <3>2 DEF q, t, n
  <2> QED BY <2>4 DEF Apart, a, b
<1>7. Shifted'
  BY DEF Shifted
<1> QED BY <1>3, <1>4, <1>5, <1>6, <1>7 DEF Rest

LEMMA HInitializeStep == ASSUME Plain, HInv, HInitialize PROVE Rest'
<1>1. /\ DecodeInitialize /\ HPositioned(TimeToSamples(Until[song' - 1]))
      /\ pStart' = 0 /\ pEnd' = 0 /\ stale' = 0
  BY DEF HInitialize
<1>2. /\ host' = "ready" /\ pos' \in Nat /\ eof' = FALSE /\ build' = NoChunk
      /\ pos' = TimeToSamples(Until[song' - 1])
  BY <1>1, InitializeSays, Sizes DEF HInv
<1>3. HPositioned(pos') /\ host' # "broken"
  BY <1>1, <1>2
<1>4. pStart' \in Nat /\ pEnd' \in Nat /\ pStart' <= pEnd' /\ stale' = pEnd' - pStart'
  BY <1>1
<1> QED BY <1>2, <1>3, <1>4, HRepositions DEF HPositioned

LEMMA HBreaks ==
  ASSUME HInv, whost' = "broken", UNCHANGED <<wrapper, content, displaced, eof, chunk>>,
         host' \notin {"ready", "decoding"} \/ UNCHANGED svars
  PROVE  Rest'
<1> USE DEF wrapper, content, addVars, buffer, mixVars
<1>1. HTypes' /\ HPhases'
  BY DEF HInv, HTypes, HPhases
<1>2. Final' /\ Chunk' /\ Apart' /\ AddTail' /\ SkewExplained'
  BY DEF HInv, Final, Chunk, Apart, AddTail, SkewExplained
<1>3. Ended' /\ Shifted'
  <2>1. CASE host' \notin {"ready", "decoding"}
    BY <2>1 DEF HInv, Ended, Shifted
  <2>2. CASE UNCHANGED svars
    <3>1. Ended'
      BY <2>2, EndedIdle DEF HInv
    <3>2. Shifted'
      BY <2>2 DEF svars, plugin, vars, hist, HInv, Shifted
    <3> QED BY <3>1, <3>2
  <2> QED BY <2>1, <2>2
<1> QED BY <1>1, <1>2, <1>3 DEF Rest

LEMMA HSeekStep == ASSUME Plain, HInv, HSeek PROVE Rest'
<1>1. /\ DecodeSeek /\ HPositioned(pos') /\ whost = "ready"
      /\ host' # "broken" => stale' = pEnd - pStart /\ UNCHANGED <<pStart, pEnd>>
  BY DEF HSeek
<1>2. CASE /\ host' = "ready" /\ pos' \in 0 .. MaxPos /\ eof' = FALSE /\ build' = NoChunk
  <2>1. /\ pos' \in Nat /\ pStart' \in Nat /\ pEnd' \in Nat /\ pStart' <= pEnd'
        /\ stale' = pEnd' - pStart'
    BY <1>1, <1>2, Sizes DEF HInv, HTypes
  <2> QED BY <1>1, <1>2, <2>1, HRepositions DEF HPositioned
<1>3. CASE host' = "broken" /\ UNCHANGED <<eof, chunk, displaced>>
  BY <1>1, <1>3, HBreaks DEF HPositioned
<1> QED BY <1>1, <1>2, <1>3, DecodeSeekSays DEF HInv

LEMMA AddThrowsStep == ASSUME HInv, AddThrows PROVE Rest'
  BY HBreaks DEF AddThrows, svars, plugin, vars, hist

LEMMA HOpenStep == ASSUME HInv, HOpen PROVE Rest'
<1>1. /\ whost = "closed" /\ UNCHANGED <<wrapper, content, eof, chunk, displaced>>
      /\ whost' = host' /\ host' \in {"opened", "broken"}
  BY DEF HOpen, OpenForDecoding, OpenThrows, DecInit, InitUnreadable, InitRejected, InitDone,
         vars, hist
<1>2. CASE host' = "broken"
  BY <1>1, <1>2, HBreaks
<1>3. CASE host' = "opened"
  <2> USE DEF wrapper, content, addVars, buffer, mixVars
  <2>1. HTypes' /\ HPhases'
    BY <1>1, <1>3 DEF HInv, HTypes, HPhases
  <2>2. Final' /\ Chunk' /\ Apart' /\ AddTail' /\ SkewExplained' /\ Ended' /\ Shifted'
    BY <1>1, <1>3
    DEF HInv, Final, Chunk, Apart, AddTail, SkewExplained, Ended, Shifted
  <2> QED BY <2>1, <2>2 DEF Rest
<1> QED BY <1>1, <1>2, <1>3
\* Nothing is mixed: what has been mixed stays explained, since frames are only added to
\* those dropped.
LEMMA SkewStays ==
  ASSUME SkewExplained, displaced \in Nat, displaced' \in Nat, displaced <= displaced',
         UNCHANGED <<aeof, skews, stale>>
  PROVE  SkewExplained'
<1>1. ASSUME ~aeof PROVE skews \subseteq {-(stale + d) : d \in 0 .. displaced'}
  <2>1. skews \subseteq {-(stale + d) : d \in 0 .. displaced}
    BY <1>1 DEF SkewExplained
  <2>2. 0 .. displaced \subseteq 0 .. displaced'
    OBVIOUS
  <2> QED BY <2>1, <2>2
<1> QED BY <1>1 DEF SkewExplained

LEMMA AskInputStep == ASSUME Plain, HInv, AskInput PROVE Rest'
<1>1. /\ whost \in {"ready", "draining"} /\ whost' \in {"asking", "draining"}
      /\ whost = "ready" <=> whost' = "asking"
      /\ whost = "ready" => ~weof
      /\ host = "ready" /\ host' = "decoding" /\ build' = NoChunk /\ got' = <<>>
      /\ UNCHANGED <<vars, eof, chunk, wrapper, resumed, fresh, skews>>
  BY DEF AskInput, CallRun
<1>2. pos \in Nat /\ displaced \in Nat /\ build'.n = 0
  BY <1>1, Ranges DEF HInv, Alive, NoChunk
<1>3. pos' = pos /\ displaced' = displaced /\ (Refuses \/ ~FrameReadable <=> Refuses' \/ ~FrameReadable')
  BY <1>1 DEF vars, hist, fields, neaac, Refuses, FrameReadable
<1> USE DEF wrapper, addVars, buffer, mixVars
<1>4. HTypes' /\ HPhases' /\ Chunk' /\ AddTail'
  BY <1>1 DEF HInv, HTypes, HPhases, Chunk, AddTail
<1>5. Ended'
  BY <1>1, <1>2, <1>3 DEF HInv, Ended
<1>6. Final'
  BY <1>1, <1>3 DEF HInv, Final
<1>7. Apart'
  <2>1. NextMixed' = NextMixed
    BY <1>1, <1>2, <1>3 DEF NextMixed, MainPos
  <2> QED BY <1>1, <2>1 DEF HInv, Apart
<1>8. Shifted'
  BY <1>1, <1>2 DEF Shifted
<1>9. SkewExplained'
  BY <1>1, <1>2, <1>3, SkewStays DEF HInv
<1> QED BY <1>4, <1>5, <1>6, <1>7, <1>8, <1>9 DEF Rest

\* What the three outcomes of a pass have in common.
LEMMA PassSays ==
  ASSUME Plain, HInv, InputPass
  PROVE  /\ host = "decoding" /\ pos \in Nat /\ displaced \in Nat /\ build.n \in Nat
         /\ pos' \in Nat /\ displaced' \in Nat /\ displaced <= displaced'
         /\ build'.n \in Nat /\ pos' - build'.n = pos - build.n
         /\ build'.n < BufSize + FrameSize
         /\ UNCHANGED <<song, seeks, endSamples>>
         /\ Ended' /\ (eof => displaced' > 0 \/ build'.n = 0)
         /\ \/ host' = "decoding" /\ eof' = eof /\ chunk' = chunk
            \/ host' = "ready" /\ chunk' = build' /\ eof' = (build'.n = 0)
         /\ got' \in Seq(Int) /\ Len(got') = build'.n /\ Shifted'
<1>1. SInv /\ EmptyChunk /\ Ended /\ RunFrame
  BY DEF HInv, InputPass
<1>2. EmptyChunk'
  BY <1>1, EmptyStep DEF AnyNext, SfaadNext
<1>3. /\ host = "decoding" /\ pos \in Nat /\ displaced \in Nat /\ build.n \in Nat
  BY <1>1, Ranges DEF RunFrame, Alive
<1>4. /\ pos' \in Nat /\ displaced' \in Nat /\ displaced <= displaced'
      /\ build'.n \in Nat /\ pos' - build'.n = pos - build.n
      /\ build'.n < BufSize + FrameSize /\ endSamples' = endSamples
  BY <1>1, AppendedSays DEF RunSays, Track, BuildType
<1>5. song' = song /\ seeks' = seeks
  BY <1>1 DEF RunFrame
<1>6. Ended' /\ (eof => displaced' > 0 \/ build'.n = 0)
  BY <1>1, <1>2, <1>4, EndedPass
<1>7. \/ host' = "decoding" /\ eof' = eof /\ chunk' = chunk
      \/ host' = "ready" /\ chunk' = build' /\ eof' = (build'.n = 0)
  BY <1>1, LoopEnds
<1>8. got' \in Seq(Int) /\ Len(got') = build'.n /\ Shifted'
  BY GotGrows DEF Shifted
<1> QED BY <1>3, <1>4, <1>5, <1>6, <1>7, <1>8

LEMMA InputGoesOnStep == ASSUME Plain, HInv, InputGoesOn PROVE Rest'
<1>1. /\ InputPass /\ host' = "decoding" /\ whost \in {"asking", "draining"}
      /\ UNCHANGED <<whost, wrapper, resumed, fresh, skews>>
  BY DEF InputGoesOn, InputPass
<1>2. eof' = eof /\ Ended' /\ Shifted' /\ got' \in Seq(Int)
  BY <1>1, PassSays
<1>3. /\ displaced \in Nat /\ displaced' \in Nat /\ displaced <= displaced'
      /\ NextMixed' = NextMixed
  BY <1>1, PassSays DEF NextMixed, MainPos
<1> USE DEF wrapper, addVars, buffer, mixVars
<1>4. HTypes' /\ HPhases' /\ Chunk' /\ AddTail'
  BY <1>1, <1>2 DEF HInv, HTypes, HPhases, Chunk, AddTail
<1>5. Final'
  BY <1>1, <1>2, <1>3 DEF HInv, Final
<1>6. Apart'
  BY <1>1, <1>3 DEF HInv, Apart
<1>7. SkewExplained'
  BY <1>1, <1>3, SkewStays DEF HInv
<1> QED BY <1>2, <1>4, <1>5, <1>6, <1>7 DEF Rest

LEMMA InputGivesStep == ASSUME Plain, HInv, InputGives PROVE Rest'
<1>1. /\ InputPass /\ host' = "ready" /\ ~eof' /\ whost \in {"asking", "draining"}
      /\ resumed' = (resumed \/ eof)
      /\ \/ /\ whost = "asking" /\ whost' = "mixing"
            /\ todo' = chunk'.n /\ cur' = MainPos
         \/ whost = "draining" /\ whost' = "draining" /\ UNCHANGED <<todo, cur>>
      /\ UNCHANGED <<isAdd, weof, apos, aend, aeof, pStart, pEnd, base, stale, fresh, skews>>
  BY DEF InputGives, InputPass, addVars, buffer, mixVars
<1>2. /\ host = "decoding" /\ chunk' = build' /\ Ended' /\ Shifted'
      /\ got' \in Seq(Int) /\ Len(got') = build'.n /\ build'.n \in Nat /\ build'.n # 0
      /\ pos \in Nat /\ pos' \in Nat /\ pos' - build'.n = pos - build.n /\ build.n \in Nat
      /\ displaced \in Nat /\ displaced' \in Nat /\ displaced <= displaced'
      /\ eof => displaced' > 0
  BY <1>1, PassSays
<1>3. MainPos \in Nat /\ MainPos + build'.n = pos'
  <2>1. MainPos \in Nat /\ MainPos = pos - build.n
    BY <1>2, Ranges DEF HInv, Alive, MainPos
  <2>2. \A m, b, c, p, q \in Nat : m = p - b /\ q - c = p - b => m + c = q
    OBVIOUS
  <2> QED BY <1>2, <2>1, <2>2
<1>4. HTypes' /\ HPhases' /\ Chunk' /\ AddTail'
  BY <1>1, <1>2, <1>3 DEF HInv, HTypes, HPhases, Chunk, AddTail
<1>5. Final'
  <2>1. resumed \/ eof => resumed'
    BY <1>1
  <2>2. CASE whost' = "mixing"
    <3>1. whost = "asking" /\ (aeof' => aeof)
      BY <1>1, <2>2
    <3> QED BY <1>2, <2>1, <3>1 DEF HInv, Final
  <2>3. CASE whost' = "draining"
    BY <2>3 DEF Final
  <2> QED BY <1>1, <2>2, <2>3
<1>6. Apart'
  BY <1>1, <1>2 DEF HInv, Apart, NextMixed, HPhases
<1>7. SkewExplained'
  BY <1>1, <1>2, SkewStays DEF HInv
<1> QED BY <1>2, <1>4, <1>5, <1>6, <1>7 DEF Rest

LEMMA InputEndsStep == ASSUME Plain, HInv, InputEnds PROVE Rest'
<1>1. /\ InputPass /\ host' = "ready" /\ eof' /\ whost' = "ready"
      /\ whost \in {"asking", "draining"} /\ weof' \in {weof, TRUE}
      /\ UNCHANGED <<isAdd, apos, aend, aeof, pStart, pEnd, base, todo, cur, stale, resumed,
                     fresh, skews>>
  BY DEF InputEnds, InputPass, addVars, buffer, mixVars
<1>2. /\ host = "decoding" /\ Ended' /\ Shifted' /\ got' \in Seq(Int) /\ build'.n = 0
      /\ pos' \in Nat /\ pos' - build'.n = pos - build.n
      /\ displaced \in Nat /\ displaced' \in Nat /\ displaced <= displaced'
  BY <1>1, PassSays
<1>3. HTypes' /\ HPhases' /\ Chunk' /\ AddTail'
  BY <1>1, <1>2 DEF HInv, HTypes, HPhases, Chunk, AddTail
<1>4. Final'
  BY <1>1 DEF Final
<1>5. Apart'
  <2>1. whost = "asking" => NextMixed' = NextMixed
    BY <1>1, <1>2 DEF NextMixed, MainPos
  <2> QED BY <1>1, <2>1 DEF HInv, Apart, HPhases
<1>6. SkewExplained'
  BY <1>1, <1>2, SkewStays DEF HInv
<1> QED BY <1>2, <1>3, <1>4, <1>5, <1>6 DEF Rest
\* What is mixed: the streams are apart by what a seek left, and the samples of the chunk
\* ahead of their positions by the frames dropped; together that is what the skews say.
LEMMA SkewGrows ==
  ASSUME HInv, whost = "mixing", Compared, UNCHANGED <<displaced, stale>>, ~aeof,
         NEW n \in Nat, n <= todo, todo' = todo - n
  PROVE  skews' \subseteq {-(stale' + d) : d \in 0 .. displaced'}
<1>1. /\ skews \subseteq {-(stale + d) : d \in 0 .. displaced}
      /\ todo \in Nat /\ cur \in Nat /\ stale \in Nat /\ base \in Nat
      /\ pStart \in Nat /\ pEnd \in Nat /\ apos \in Nat
      /\ cur + todo = pos /\ todo <= Len(got) /\ Len(got) \in Nat
      /\ \A k \in 1 .. Len(got) : got[k] \in Int
      /\ \A k \in 1 .. Len(got) : got[k] - (pos - Len(got) + k - 1) \in 0 .. displaced
      /\ apos - (pEnd - pStart) = cur - stale \/ ~fresh
      /\ fresh => base + pEnd = apos
  BY CompositionAssumption, Sizes
  DEF HInv, SkewExplained, HTypes, Chunk, Shifted, Apart, NextMixed, AddTail
<1>2. CASE ~fresh
  BY <1>1, <1>2 DEF Compared
<1>3. CASE fresh
  <2> DEFINE l == Len(got)
             k(i) == l - todo + i + 1
  <2>1. skews' = skews \cup {(base + pStart + i) - got[k(i)] : i \in 0 .. n - 1}
    <3>1. todo - todo' = n
      BY <1>1
    <3> QED BY <1>3, <3>1 DEF Compared
  <2>2. ASSUME NEW i \in 0 .. n - 1
        PROVE  \E d \in 0 .. displaced : (base + pStart + i) - got[k(i)] = -(stale + d)
    <3>1. l \in Nat /\ todo <= l /\ i \in Nat /\ i < n
      BY <1>1
    <3>2. k(i) \in 1 .. l
      BY <1>1, <3>1
    <3> DEFINE g == got[k(i)]
               d == g - (pos - l + k(i) - 1)
    <3>3. g \in Int /\ d \in 0 .. displaced
      BY <1>1, <3>2
    <3>4. pos - l + k(i) - 1 = cur + i
      BY <1>1, <3>1
    <3>5. d = g - (cur + i)
      BY <3>4
    <3>6. base + pStart = cur - stale
      BY <1>1, <1>3
    <3> HIDE DEF g, d, k, l
    <3>7. (base + pStart + i) - g = -(stale + d)
      BY <1>1, <3>1, <3>3, <3>5, <3>6
    <3> QED BY <3>3, <3>7 DEF g
  <2> HIDE DEF k, l
  <2>3. skews' \subseteq {-(stale + d) : d \in 0 .. displaced}
    BY <1>1, <2>1, <2>2
  <2> QED BY <2>3
<1> QED BY <1>2, <1>3

\* The state of a wrapper that mixes.
LEMMA Mixing ==
  ASSUME HInv, whost = "mixing"
  PROVE  /\ host = "ready" /\ isAdd = TRUE /\ ~weof /\ aend = AddLen /\ W!Left = pEnd - pStart
         /\ WrapperHost = "mixing" /\ pos \in Nat /\ displaced \in Nat /\ MainPos = pos
         /\ AddLen \in Nat /\ cur + todo = pos /\ todo <= chunk.n /\ chunk.n = Len(got)
         /\ aeof => resumed /\ displaced > 0
         /\ W!Left \in Nat
<1>1. host = "ready" /\ isAdd = TRUE /\ ~weof /\ aend = AddLen /\ W!Left = pEnd - pStart
  BY DEF HInv, HPhases, W!Left
<1>2. pos \in Nat /\ displaced \in Nat /\ MainPos = pos
  BY <1>1, Ranges DEF HInv, Alive, MainPos
<1>3. /\ cur + todo = pos /\ todo <= chunk.n /\ chunk.n = Len(got)
      /\ aeof => resumed /\ displaced > 0
  BY DEF HInv, Chunk, Final
<1>4. AddLen \in Nat /\ WrapperHost = "mixing"
  BY CompositionAssumption, Sizes DEF WrapperHost
<1>5. W!Left \in Nat
  BY <1>1, Leftover DEF HInv, HTypes
<1> QED BY <1>1, <1>2, <1>3, <1>4, <1>5

\* While the wrapper mixes, the plug-in and the chunk stay.
LEMMA MixesIdle ==
  ASSUME HInv, whost = "mixing", UNCHANGED <<svars, got>>
  PROVE  /\ Ended' /\ pos' = pos /\ displaced' = displaced /\ host' = host /\ chunk' = chunk
         /\ MainPos' = MainPos /\ eof' = eof
         /\ host' # "decoding" /\ (whost' = "mixing" => Shifted') /\ (whost' # "mixing" => Shifted')
<1>1. /\ pos' = pos /\ displaced' = displaced /\ host' = host /\ chunk' = chunk
      /\ build' = build /\ got' = got /\ host' # "decoding" /\ eof' = eof
  BY Mixing DEF svars, plugin, vars, hist
<1>2. Ended'
  BY EndedIdle DEF HInv
<1>3. Shifted'
  BY <1>1 DEF HInv, Shifted
<1> QED BY <1>1, <1>2, <1>3 DEF MainPos

\* chunk_add is used up: what is mixed last comes right before input_add's position, where
\* the new chunk_add begins.
LEMMA MixRefillKeeps ==
  ASSUME HInv, Mixes, W!MixRefill
  PROVE  Rest'
<1>1. PICK n \in 1 .. MaxChunk : W!Add!Deliver(n) /\ pEnd' = n
  BY DEF W!MixRefill
<1>2. /\ whost = "mixing" /\ UNCHANGED <<svars, got, resumed>> /\ Compared
      /\ whost' \in {"mixing", "draining", "ready"}
  BY DEF Mixes
<1>3. WrapperHost' = "mixing" /\ todo > W!Left /\ todo' = todo - W!Left /\ cur' = cur + W!Left
      /\ pStart' = 0 /\ base' = apos /\ pEnd' = n
      /\ UNCHANGED <<isAdd, weof, stale>>
  BY <1>1 DEF W!MixRefill, W!Mix
<1>4. whost' = "mixing"
  BY <1>2, <1>3 DEF WrapperHost
<1>5. /\ n \in Nat /\ n > 0 /\ ~aeof /\ apos + n <= AddLen /\ apos' = apos + n
      /\ aend' = aend /\ aeof' = FALSE
  BY <1>1, <1>2, Mixing, CompositionAssumption DEF W!Add!Deliver, HInv, HTypes
<1>6. /\ Ended' /\ Shifted' /\ MainPos' = pos /\ displaced' = displaced /\ pos' = pos
      /\ host' = "ready" /\ chunk' = chunk
  BY <1>2, <1>4, Mixing, MixesIdle
<1> DEFINE l == W!Left
<1>7. /\ l \in Nat /\ l = pEnd - pStart /\ todo \in Nat /\ cur \in Nat /\ apos \in Nat
      /\ stale \in Nat /\ cur + todo = pos /\ todo > l /\ pos \in Nat
      /\ todo' = todo - l /\ cur' = cur + l
  BY <1>2, <1>3, Mixing, CompositionAssumption, Sizes DEF HInv, HTypes
<1> HIDE DEF l
<1>8. SkewExplained'
  <2>1. l <= todo
    BY <1>7
  <2>2. skews' \subseteq {-(stale' + d) : d \in 0 .. displaced'}
    BY <1>2, <1>3, <1>5, <1>6, <1>7, <2>1, SkewGrows
  <2> QED BY <2>2 DEF SkewExplained
<1>9. HTypes'
  <2>1. todo' \in Nat /\ cur' \in Nat /\ apos' \in 0 .. AddLen
    BY <1>5, <1>7, CompositionAssumption, Sizes
  <2>2. fresh' \in BOOLEAN
    BY <1>2 DEF Compared
  <2>3. /\ aend' \in 0 .. AddLen /\ aeof' \in BOOLEAN /\ weof' \in BOOLEAN
        /\ got' \in Seq(Int) /\ resumed' \in BOOLEAN
    BY <1>2, <1>3, <1>5 DEF HInv, HTypes
  <2>4. pStart' \in Nat /\ pEnd' \in Nat /\ pStart' <= pEnd' /\ base' \in Nat /\ stale' \in Nat
    BY <1>3, <1>5, <1>7
  <2> QED BY <2>1, <2>2, <2>3, <2>4 DEF HTypes
<1>10. HPhases' /\ Final'
  BY <1>2, <1>3, <1>4, <1>5, <1>6 DEF HInv, HPhases, Final
<1>11. Chunk'
  <2>1. cur' + todo' = pos
    BY <1>7
  <2>2. chunk.n \in Nat /\ todo <= chunk.n /\ chunk.n = Len(got)
    BY <1>2 DEF HInv, Chunk
  <2>3. todo' <= chunk.n
    BY <1>7, <2>2
  <2> QED BY <1>2, <1>6, <2>1, <2>2, <2>3 DEF Chunk
<1>12. AddTail'
  BY <1>3, <1>5 DEF AddTail
<1>13. Apart'
  <2>1. apos - l = cur - stale
    BY <1>2, <1>5, <1>7 DEF HInv, HTypes, Apart, NextMixed
  <2>2. apos' - (n - 0) = (cur + l) - stale
    BY <1>5, <1>7, <2>1
  <2> QED BY <1>3, <1>4, <1>7, <2>2 DEF Apart, NextMixed
<1> QED BY <1>6, <1>8, <1>9, <1>10, <1>11, <1>12, <1>13 DEF Rest
\* input_add has no more; what is left of the chunk is dropped.
LEMMA MixEndKeeps ==
  ASSUME HInv, Mixes, W!MixEnd
  PROVE  Rest'
<1>1. /\ whost = "mixing" /\ UNCHANGED <<svars, got, resumed>> /\ Compared
      /\ whost' \in {"mixing", "draining", "ready"}
  BY DEF Mixes
<1>2. /\ WrapperHost' = "draining" /\ todo > W!Left /\ todo' = todo - W!Left
      /\ cur' = cur + W!Left /\ pStart' = 0 /\ UNCHANGED <<isAdd, weof, pEnd, base, stale>>
  BY DEF W!MixEnd, W!Mix
<1>3. /\ UNCHANGED <<apos, aend>> /\ aeof' = TRUE
  BY DEF W!MixEnd, W!AddFinish, W!Add!Finish, W!addVars, HInv, HTypes
<1>4. whost' = "draining"
  BY <1>1, <1>2 DEF WrapperHost
<1>5. Ended' /\ Shifted' /\ host' = "ready"
  BY <1>1, <1>4, Mixing, MixesIdle
<1>6. HTypes'
  <2>1. todo' \in Nat /\ cur' \in Nat
    BY <1>1, <1>2, Mixing DEF HInv, HTypes
  <2>2. fresh' \in BOOLEAN
    BY <1>1 DEF Compared
  <2> QED BY <1>1, <1>2, <1>3, <2>1, <2>2 DEF HInv, HTypes
<1>7. HPhases'
  BY <1>1, <1>2, <1>3, <1>4, <1>5 DEF HInv, HPhases
<1>8. Final' /\ Chunk' /\ Apart' /\ AddTail' /\ SkewExplained'
  BY <1>3, <1>4 DEF Final, Chunk, Apart, AddTail, SkewExplained
<1> QED BY <1>5, <1>6, <1>7, <1>8 DEF Rest

\* An exception comes after the mixing of what there was.
LEMMA MixThrowsStep ==
  ASSUME HInv, MixThrows
  PROVE  Rest'
<1>1. /\ whost = "mixing" /\ UNCHANGED <<svars, got, resumed>> /\ Compared
      /\ whost' = "broken"
      /\ todo > W!Left /\ todo' = todo - W!Left /\ cur' = cur + W!Left /\ pStart' = 0
      /\ UNCHANGED <<isAdd, weof, pEnd, base, stale, apos, aend, aeof>>
  BY DEF MixThrows, W!MixThrows, W!Mix, W!Throw, W!addVars
<1>2. Ended' /\ Shifted' /\ host' = "ready" /\ displaced' = displaced
  BY <1>1, Mixing, MixesIdle
<1>3. todo \in Nat /\ W!Left \in Nat /\ todo' \in Nat /\ cur' \in Nat
  BY <1>1, Mixing DEF HInv, HTypes
<1>4. HTypes'
  <2>1. fresh' \in BOOLEAN
    BY <1>1 DEF Compared
  <2> QED BY <1>1, <1>3, <2>1 DEF HInv, HTypes
<1>5. HPhases' /\ Final' /\ Chunk' /\ Apart'
  BY <1>1 DEF HInv, HPhases, Final, Chunk, Apart
<1>6. AddTail'
  BY <1>1 DEF HInv, AddTail, Compared
<1>7. SkewExplained'
  <2>1. W!Left <= todo
    BY <1>1, <1>3
  <2>2. ~aeof => skews' \subseteq {-(stale' + d) : d \in 0 .. displaced'}
    BY <1>1, <1>2, <1>3, <2>1, SkewGrows
  <2> QED BY <1>1, <2>2 DEF SkewExplained
<1> QED BY <1>2, <1>4, <1>5, <1>6, <1>7 DEF Rest

\* The rest of the chunk is mixed: both streams move on by as much.
LEMMA MixRestKeeps ==
  ASSUME HInv, Mixes, W!MixRest
  PROVE  Rest'
<1>1. /\ whost = "mixing" /\ UNCHANGED <<svars, got, resumed>> /\ Compared
      /\ whost' \in {"mixing", "draining", "ready"}
  BY DEF Mixes
<1>2. /\ WrapperHost' = "ready" /\ todo <= W!Left /\ todo' = todo - todo /\ cur' = cur + todo
      /\ pStart' = pStart + todo
      /\ UNCHANGED <<isAdd, weof, pEnd, base, stale, apos, aend, aeof>>
  BY DEF W!MixRest, W!Mix, W!addVars
<1>3. whost' = "ready"
  BY <1>1, <1>2 DEF WrapperHost
<1>4. /\ Ended' /\ Shifted' /\ MainPos' = pos /\ displaced' = displaced /\ eof' = eof
      /\ host' = "ready"
  BY <1>1, <1>3, Mixing, MixesIdle
<1>5. /\ todo \in Nat /\ todo' = 0 /\ cur' \in Nat /\ W!Left = pEnd - pStart
      /\ pStart \in Nat /\ pEnd \in Nat /\ cur \in Nat /\ apos \in Nat /\ stale \in Nat
      /\ cur + todo = pos /\ pStart' \in Nat /\ pStart' <= pEnd
  <2>1. /\ todo \in Nat /\ pStart \in Nat /\ pEnd \in Nat /\ cur \in Nat /\ stale \in Nat
        /\ apos \in Nat /\ W!Left = pEnd - pStart /\ cur + todo = pos
    BY <1>1, Mixing, CompositionAssumption, Sizes DEF HInv, HTypes
  <2> QED BY <1>2, <2>1
<1>6. HTypes'
  <2>1. fresh' \in BOOLEAN
    BY <1>1 DEF Compared
  <2> QED BY <1>1, <1>2, <1>5, <2>1 DEF HInv, HTypes
<1>7. HPhases' /\ Chunk'
  BY <1>1, <1>2, <1>3, <1>4 DEF HInv, HPhases, Chunk
<1>8. Final'
  BY <1>1, <1>2, <1>4, Mixing DEF Final
<1>9. AddTail'
  BY <1>1, <1>2 DEF HInv, AddTail, Compared
<1>10. Apart'
  <2>1. ASSUME ~aeof
        PROVE  \/ apos - (pEnd - pStart) = cur - stale
               \/ cur > AddLen /\ apos = AddLen /\ ~fresh
    BY <1>1, <2>1 DEF HInv, Apart, NextMixed
  <2>2. NextMixed' = cur + todo
    BY <1>3, <1>4, <1>5 DEF NextMixed
  <2>3. fresh' <=> fresh
    BY <1>1, <1>2 DEF Compared
  <2>4. AddLen \in Nat
    BY <1>1, Mixing
  <2>5. ~aeof => \/ apos - (pEnd - (pStart + todo)) = (cur + todo) - stale
                 \/ cur + todo > AddLen /\ apos = AddLen /\ ~fresh
    BY <1>5, <2>1, <2>4
  <2> QED BY <1>2, <2>2, <2>3, <2>5 DEF Apart
<1>11. SkewExplained'
  <2>1. ~aeof => skews' \subseteq {-(stale' + d) : d \in 0 .. displaced'}
    BY <1>1, <1>2, <1>4, <1>5, SkewGrows
  <2> QED BY <1>2, <2>1 DEF SkewExplained
<1> QED BY <1>4, <1>6, <1>7, <1>8, <1>9, <1>10, <1>11 DEF Rest

LEMMA HStutter == ASSUME HInv, UNCHANGED wvars PROVE Rest'
<1>1. /\ UNCHANGED <<whost, isAdd, weof, apos, aend, aeof, pStart, pEnd, base, todo, cur, stale,
                     got, resumed, fresh, skews, svars>>
      /\ UNCHANGED <<host, eof, build, chunk, pos, displaced>>
  BY DEF wvars, wrapper, addVars, buffer, mixVars, content, svars, plugin, vars, hist
<1>2. HTypes' /\ HPhases' /\ Final' /\ Chunk' /\ AddTail' /\ SkewExplained'
  BY <1>1 DEF HInv, HTypes, HPhases, Final, Chunk, AddTail, SkewExplained
<1>3. Apart' /\ Shifted'
  BY <1>1 DEF HInv, Apart, NextMixed, MainPos, Shifted
<1>4. Ended'
  BY <1>1, EndedIdle DEF HInv
<1> QED BY <1>2, <1>3, <1>4 DEF Rest

LEMMA HInvStep == ASSUME Plain, HInv, [HNext]_wvars PROVE HInv'
<1>1. Mixes => Rest'
  BY MixRefillKeeps, MixEndKeeps, MixRestKeeps DEF Mixes
<1>2. Rest'
  BY <1>1, HOpenStep, HInitializeStep, HSeekStep, AddThrowsStep, MixThrowsStep, AskInputStep,
     InputGoesOnStep, InputGivesStep, InputEndsStep, HStutter DEF HNext, HRun
<1> QED BY <1>2, PluginKeeps DEF HInv, Rest

LEMMA HInvInit == ASSUME Plain, HInit PROVE HInv
<1>1. SInv /\ EmptyChunk
  BY SInvInit DEF HInit, SfaadInit, EmptyChunk, NoChunk
<1>2. HTypes
  <2>1. AddLen \in Nat
    BY CompositionAssumption, Sizes
  <2>2. apos = 0 /\ aend = 0 /\ aeof = FALSE
    BY DEF HInit, W!Add!Init
  <2>3. got \in Seq(Int)
    BY DEF HInit
  <2>4. apos \in 0 .. AddLen /\ aend \in 0 .. AddLen
    BY <2>1, <2>2
  <2>5. /\ pStart \in Nat /\ pEnd \in Nat /\ pStart <= pEnd /\ base \in Nat
        /\ todo \in Nat /\ cur \in Nat /\ stale \in Nat
    BY DEF HInit
  <2>6. /\ weof \in BOOLEAN /\ fresh \in BOOLEAN /\ resumed \in BOOLEAN /\ aeof \in BOOLEAN
    BY <2>2 DEF HInit
  <2> QED BY <2>3, <2>4, <2>5, <2>6 DEF HTypes
<1>3. HPhases /\ Final /\ Chunk /\ Apart /\ AddTail /\ Shifted /\ SkewExplained
  BY DEF HInit, SfaadInit, W!Add!Init, HPhases, Final, Chunk, Apart, AddTail, Shifted,
         SkewExplained
<1>4. Ended
  BY DEF HInit, SfaadInit, Ended
<1> QED BY <1>1, <1>2, <1>3, <1>4 DEF HInv
LEMMA HInvAlways == ASSUME Plain PROVE HSpec => []HInv
<1>1. HInit => HInv
  BY HInvInit
<1>2. HInv /\ [HNext]_wvars => HInv'
  BY HInvStep
<1> QED BY <1>1, <1>2, PTL DEF HSpec

(* What is added to a sample is its own remainder, but for the samples a seek*)
(* left in chunk_add and the frames input has dropped since: decode_run      *)
(* shifts nothing else, whatever the sizes of the chunks of the two decoders *)
(* and the order of seeks, dropped frames and refills.                       *)
THEOREM SkewExplainedHolds == ASSUME Plain PROVE HSpec => []SkewExplained
<1>1. HInv => SkewExplained
  BY DEF HInv
<1> QED BY <1>1, HInvAlways, PTL

(* Once the additional file has ended, decode_run mixes no more of the main  *)
(* one until positioned again, but where input has dropped a frame and given *)
(* a chunk after its end.                                                    *)
THEOREM EndIsFinalHolds == ASSUME Plain PROVE HSpec => []EndIsFinal
<1>1. HInv => EndIsFinal
  BY DEF HInv, Final, EndIsFinal
<1> QED BY <1>1, HInvAlways, PTL
-----------------------------------------------------------------------------
(* The wrapper over the plug-in is the wrapper over the contract.            *)

MainEnd == IF song = 0 THEN 0 ELSE endSamples

\* What InputHybrid sees of the plug-in, and the rest of what it sees.
Seen  == <<MainPos, MainEnd, eof, chunk, seeks>>
Own   == <<weof, wout, isAdd, heard, stale>>
Mixed == <<apos, aend, aeof, achunk, pStart, pEnd, base, todo, cur, offsets>>

LEMMA WStutter ==
  ASSUME UNCHANGED <<WrapperHost, Seen, Own, Mixed>>
  PROVE  UNCHANGED W!vars
BY DEF Seen, Own, Mixed, MainEnd, W!vars, W!mainVars, W!addVars, W!buffer, W!mixVars, W!hostVars

LEMMA WThrows ==
  ASSUME WrapperHost \in {"opened", "ready"}, WrapperHost' = "broken",
         UNCHANGED <<Seen, Own, Mixed>>
  PROVE  W!Next
<1>1. W!CallThrows
  BY DEF Seen, Own, Mixed, MainEnd, W!CallThrows, W!Throw, W!mainVars, W!addVars, W!buffer,
         W!mixVars, W!hostVars
<1> QED BY <1>1 DEF W!Next

LEMMA HOpenMaps == ASSUME HInv, HOpen PROVE W!Next \/ UNCHANGED W!vars
<1>1. /\ whost = "closed" /\ host = "none" /\ song = 0 /\ UNCHANGED <<wrapper, eof, chunk, seeks, song, pos>>
      /\ whost' = host' /\ host' \in {"opened", "broken"}
  BY DEF HOpen, OpenForDecoding, OpenThrows, DecInit, InitUnreadable, InitRejected, InitDone,
         vars, hist, HInv, HPhases, SInv, Alive, Hosted
<1>2. UNCHANGED <<Seen, Own, Mixed>>
  BY <1>1 DEF Seen, Own, Mixed, MainPos, MainEnd, wrapper, addVars, buffer, mixVars
<1> QED BY <1>1, <1>2, WStutter, WThrows DEF WrapperHost

LEMMA AddThrowsMaps == ASSUME HInv, AddThrows PROVE W!Next
<1>1. /\ whost \in {"opened", "ready"} /\ whost' = "broken" /\ UNCHANGED <<svars, wrapper>>
  BY DEF AddThrows
<1>2. UNCHANGED <<Seen, Own, Mixed>>
  BY <1>1 DEF Seen, Own, Mixed, MainPos, MainEnd, wrapper, addVars, buffer, mixVars, svars, plugin,
     vars, hist, fields
<1> QED BY <1>1, <1>2, WThrows DEF WrapperHost

LEMMA HInitializeMaps == ASSUME Plain, HInv, HInitialize PROVE W!Next
<1>1. /\ whost \in {"opened", "ready"} /\ DecodeInitialize /\ host' = "ready"
      /\ HPositioned(TimeToSamples(Until[song' - 1]))
      /\ pStart' = 0 /\ pEnd' = 0 /\ stale' = 0
      /\ song' \in 1 .. Len(Lengths) /\ pos' <= endSamples' /\ seeks' = seeks + 1
      /\ eof' = FALSE /\ chunk' = NoChunk
      /\ pos' = TimeToSamples(Until[song' - 1]) /\ endSamples' = TimeToSamples(Until[song'])
  BY InitializeSays DEF HInitialize, HInv
<1> DEFINE s == [from |-> TimeToSamples(Until[song' - 1]), to |-> TimeToSamples(Until[song'])]
<1>2. /\ whost' = "ready" /\ weof' = FALSE /\ wout' = W!NoChunk /\ W!AddPosition(s.from)
      /\ heard' = s.from /\ offsets' = {} /\ UNCHANGED <<isAdd, todo, cur, base>>
  BY <1>1 DEF HPositioned
<1>3. s \in {[from |-> TimeToSamples(Until[i - 1]), to |-> TimeToSamples(Until[i])] :
               i \in 1 .. Len(Lengths)}
  BY <1>1
<1>4. /\ MainPos' = s.from /\ MainEnd' = s.to /\ s.from <= s.to
  BY <1>1 DEF MainPos, MainEnd
<1> HIDE DEF s
<1>5. W!Main!Position(s.from, s.to)
  BY <1>1, <1>4 DEF W!Main!Position, W!Main!Empty, NoChunk, MainEnd
<1>6. WrapperHost \in {"opened", "ready"} /\ WrapperHost' = "ready" /\ isAdd = TRUE
  BY <1>1, <1>2 DEF WrapperHost, HInv, HPhases
<1>7. W!Positioned(s.from)
  BY <1>1, <1>2, <1>6 DEF W!Positioned
<1>8. seeks < MaxSeeks
  BY <1>1 DEF DecodeInitialize
<1>9. W!DecodeInitialize
  BY <1>1, <1>2, <1>3, <1>5, <1>6, <1>7, <1>8 DEF W!DecodeInitialize
<1> QED BY <1>9 DEF W!Next

LEMMA HSeekMaps == ASSUME Plain, HInv, HSeek PROVE W!Next
<1>1. /\ whost = "ready" /\ DecodeSeek /\ HPositioned(pos') /\ host = "ready"
      /\ host' # "broken" => stale' = pEnd - pStart /\ UNCHANGED <<pStart, pEnd>>
      /\ song' = song /\ song # 0 /\ seeks < MaxSeeks
  BY DecodeSeekSays DEF HSeek, HInv, HPhases, SInv, Alive, Hosted, DecodeSeek
<1>2. CASE /\ host' = "ready" /\ pos' \in 0 .. MaxPos /\ pos' <= endSamples' /\ eof' = FALSE
           /\ chunk' = NoChunk /\ endSamples' = endSamples /\ seeks' = seeks + 1
  <2>1. /\ whost' = "ready" /\ weof' = FALSE /\ wout' = W!NoChunk /\ W!AddPosition(pos')
        /\ heard' = pos' /\ offsets' = {} /\ UNCHANGED <<isAdd, todo, cur, base>>
    BY <1>1, <1>2 DEF HPositioned
  <2> DEFINE p == pos'
  <2>2. MainPos' = p /\ MainEnd' = MainEnd /\ MainEnd = endSamples /\ p \in Nat /\ p <= MainEnd
    BY <1>1, <1>2, Sizes DEF MainPos, MainEnd
  <2>3. p \in 0 .. MainEnd
    BY <1>1, <2>2, Ranges DEF HInv, Alive, MainEnd
  <2> HIDE DEF p
  <2>4. W!Main!Position(p, MainEnd)
    BY <1>2, <2>2 DEF W!Main!Position, W!Main!Empty, NoChunk, MainEnd
  <2>5. WrapperHost = "ready" /\ WrapperHost' = "ready" /\ isAdd = TRUE
    BY <1>1, <2>1 DEF WrapperHost, HInv, HPhases
  <2>6. W!Positioned(p) /\ W!AddPosition(p)
    BY <1>2, <2>1, <2>5 DEF W!Positioned, p
  <2>7. W!DecodeSeek
    BY <1>1, <1>2, <2>1, <2>3, <2>4, <2>5, <2>6 DEF W!DecodeSeek, W!buffer, MainEnd
  <2> QED BY <2>7 DEF W!Next
<1>3. CASE host' = "broken" /\ UNCHANGED <<eof, chunk, seeks, pos, endSamples>>
  <2>1. whost' = "broken" /\ UNCHANGED wrapper
    BY <1>1, <1>3 DEF HPositioned
  <2>2. UNCHANGED <<Seen, Own, Mixed>>
    BY <1>1, <1>3, <2>1 DEF Seen, Own, Mixed, MainPos, MainEnd, wrapper, addVars, buffer, mixVars
  <2> QED BY <1>1, <2>1, <2>2, WThrows DEF WrapperHost
<1> QED BY <1>1, <1>2, <1>3, DecodeSeekSays DEF HInv
LEMMA AskInputMaps == ASSUME Plain, HInv, AskInput PROVE UNCHANGED W!vars
<1>1. /\ \/ whost = "ready" /\ whost' = "asking"
         \/ whost = "draining" /\ whost' = "draining"
      /\ host = "ready" /\ host' = "decoding" /\ build' = NoChunk
      /\ UNCHANGED <<vars, eof, song, chunk, seeks, wrapper>> /\ pos \in Nat
  BY Ranges DEF AskInput, CallRun, HInv, Alive
<1>2. MainPos' = MainPos /\ MainEnd' = MainEnd
  BY <1>1 DEF MainPos, MainEnd, NoChunk, vars, hist, fields
<1>3. WrapperHost' = WrapperHost
  BY <1>1 DEF WrapperHost
<1>4. UNCHANGED <<WrapperHost, Seen, Own, Mixed>>
  BY <1>1, <1>2, <1>3 DEF Seen, Own, Mixed, wrapper, addVars, buffer, mixVars
<1> QED BY <1>4, WStutter

LEMMA InputGoesOnMaps == ASSUME Plain, HInv, InputGoesOn PROVE UNCHANGED W!vars
<1>1. InputPass /\ host' = "decoding" /\ UNCHANGED <<whost, wrapper>>
  BY DEF InputGoesOn
<1>2. /\ host = "decoding" /\ eof' = eof /\ chunk' = chunk /\ UNCHANGED <<song, seeks, endSamples>>
      /\ pos' - build'.n = pos - build.n
  BY <1>1, PassSays
<1>3. UNCHANGED <<WrapperHost, Seen, Own, Mixed>>
  BY <1>1, <1>2
  DEF Seen, Own, Mixed, wrapper, addVars, buffer, mixVars, WrapperHost, MainPos, MainEnd
<1> QED BY <1>3, WStutter

\* A chunk of the plug-in is one of the contract, unless a frame was dropped.
LEMMA Delivers ==
  ASSUME Plain, HInv, InputPass, host' = "ready", ~eof', displaced' = 0
  PROVE  /\ chunk'.n \in 1 .. MaxChunk /\ W!Main!Deliver(chunk'.n)
<1>1. /\ host = "decoding" /\ chunk' = build' /\ build'.n # 0 /\ build'.n \in Nat
      /\ UNCHANGED <<song, endSamples>> /\ pos' - build'.n = pos - build.n
      /\ build'.n < BufSize + FrameSize /\ pos \in Nat /\ pos' \in Nat /\ build.n \in Nat
      /\ eof' = FALSE
  BY PassSays
<1>2. /\ build'.from + build'.n = pos' /\ pos' <= endSamples' /\ pos' <= Playable
      /\ build'.from \in Int
  BY <1>1, AppendedSays DEF HInv, InputPass, BuildType
<1>3. song # 0
  BY <1>1 DEF HInv, SInv, Alive, Hosted
<1> DEFINE n == build'.n
           f == build'.from
<1>4. n \in 1 .. MaxChunk
  BY <1>1, CompositionAssumption, SfaadAssumption, Sizes
<1>5. /\ MainPos = f /\ MainPos' = f + n /\ f + n <= MainEnd /\ f + n <= Playable
      /\ MainEnd' = MainEnd /\ f \in Int
  BY <1>1, <1>2, <1>3 DEF MainPos, MainEnd
<1>6. chunk'.from = f /\ chunk'.n = n /\ n > 0
  BY <1>1, <1>4
<1> HIDE DEF n, f
<1>7. eof = FALSE
  <2>1. eof => displaced' > 0 \/ build'.n = 0
    BY PassSays
  <2>2. ~eof
    BY <1>1, <2>1
  <2> QED BY <2>2
<1>8. W!Main!Deliver(n)
  BY <1>1, <1>5, <1>6, <1>7 DEF W!Main!Deliver, MainEnd
<1> QED BY <1>4, <1>6, <1>8

LEMMA InputGivesMaps ==
  ASSUME Plain, HInv, InputGives, displaced' = 0
  PROVE  W!Next
<1>1. /\ InputPass /\ host' = "ready" /\ ~eof' /\ whost \in {"asking", "draining"}
      /\ UNCHANGED <<isAdd, weof, wout, addVars, buffer, heard, stale>>
  BY DEF InputGives, InputPass
<1>2. chunk'.n \in 1 .. MaxChunk /\ W!Main!Deliver(chunk'.n) /\ seeks' = seeks
  BY <1>1, Delivers, PassSays
<1>3. isAdd = TRUE /\ (whost = "asking" => ~weof)
  BY DEF HInv, HPhases
<1> USE DEF addVars, buffer, mixVars, W!addVars, W!buffer, W!mixVars, W!hostVars, WrapperHost
<1>4. CASE whost = "asking"
  <2>1. whost' = "mixing" /\ todo' = chunk'.n /\ cur' = MainPos /\ offsets' = {}
    BY <1>4 DEF InputGives
  <2>2. W!RunStart
    BY <1>1, <1>2, <1>3, <1>4, <2>1 DEF W!RunStart
  <2> QED BY <2>2 DEF W!Next, W!DecodeRun
<1>5. CASE whost = "draining"
  <2>1. UNCHANGED <<whost, mixVars>>
    BY <1>5 DEF InputGives
  <2>2. W!DrainMore
    BY <1>1, <1>2, <1>3, <1>5, <2>1 DEF W!DrainMore
  <2> QED BY <2>2 DEF W!Next, W!DecodeRun
<1> QED BY <1>1, <1>4, <1>5

\* The end the plug-in reports is one of the contract, or it has reported it before.
LEMMA Finishes ==
  ASSUME Plain, HInv, HInv', InputPass, host' = "ready", eof', displaced' = 0
  PROVE  W!MainFinish
<1>1. /\ host = "decoding" /\ chunk' = build' /\ build'.n = 0 /\ eof' = TRUE
      /\ UNCHANGED <<song, endSamples>> /\ pos' - build'.n = pos - build.n
      /\ pos \in Nat /\ pos' \in Nat /\ build.n \in Nat
  BY PassSays
<1>2. /\ chunk' = NoChunk /\ song # 0
  BY <1>1 DEF HInv, SInv, Alive, Hosted, EmptyChunk
<1>3. MainPos' = pos' /\ MainPos = pos' /\ MainEnd' = MainEnd /\ MainEnd = endSamples
  BY <1>1, <1>2 DEF MainPos, MainEnd
<1>4. CASE eof
  <2>1. chunk = NoChunk
    BY <1>4 DEF HInv, Ended
  <2>2. eof' = eof
    BY <1>1, <1>4 DEF HInv, Ended
  <2> QED BY <1>1, <1>2, <1>3, <1>4, <2>1, <2>2 DEF W!MainFinish, W!mainVars, MainEnd
<1>5. CASE ~eof
  <2>1. out'.ret \in {"end", "short"} /\ Track' /\ EndInv'
    BY <1>1, LoopEnds, AppendedSays DEF HInv, InputPass, RunSays
  <2>2. pos' >= endSamples' \/ pos' >= Playable \/ pos' < FrameSize
    BY <2>1, NothingLeft
  <2>3. W!Main!Exhausted
    BY <1>1, <1>3, <2>2 DEF W!Main!Exhausted, MainEnd
  <2>4. W!Main!Finish
    BY <1>1, <1>2, <1>3, <1>5, <2>3 DEF W!Main!Finish, W!Main!Empty, NoChunk, MainEnd
  <2> QED BY <1>5, <2>4 DEF W!MainFinish
<1> QED BY <1>4, <1>5

LEMMA InputEndsMaps ==
  ASSUME Plain, HInv, HInv', InputEnds, displaced' = 0
  PROVE  W!Next
<1>1. /\ InputPass /\ host' = "ready" /\ eof' /\ whost \in {"asking", "draining"}
      /\ whost' = "ready"
      /\ UNCHANGED <<isAdd, addVars, buffer, mixVars, stale>>
  BY DEF InputEnds, InputPass
<1>2. W!MainFinish /\ seeks' = seeks
  BY <1>1, Finishes, PassSays
<1>3. whost = "asking" => ~weof
  BY DEF HInv, HPhases
<1> USE DEF addVars, buffer, mixVars, W!addVars, W!buffer, W!mixVars, W!hostVars, WrapperHost
<1>4. CASE whost = "asking"
  <2>1. weof' = TRUE /\ wout' = W!NoChunk /\ UNCHANGED heard
    BY <1>4 DEF InputEnds
  <2>2. W!RunEnd
    BY <1>1, <1>2, <1>3, <1>4, <2>1 DEF W!RunEnd
  <2> QED BY <2>2 DEF W!Next, W!DecodeRun
<1>5. CASE whost = "draining"
  <2>1. heard' = heard + wout.n /\ UNCHANGED <<weof, wout>>
    BY <1>5 DEF InputEnds
  <2>2. W!DrainEnd
    BY <1>1, <1>2, <1>5, <2>1 DEF W!DrainEnd
  <2> QED BY <2>2 DEF W!Next, W!DecodeRun
<1> QED BY <1>1, <1>4, <1>5

\* Each step of the wrapper is a step over the contract, or none it can see.
LEMMA HybridStep ==
  ASSUME Plain, HInv, HInv', [HNext]_wvars, displaced' = 0
  PROVE  W!Next \/ UNCHANGED W!vars
<1>1. Mixes \/ MixThrows => W!Next
  BY DEF Mixes, MixThrows, W!Next, W!DecodeRun
<1>2. UNCHANGED wvars => UNCHANGED W!vars
  <2>1. UNCHANGED wvars => UNCHANGED <<WrapperHost, Seen, Own, Mixed>>
    BY DEF wvars, wrapper, addVars, buffer, mixVars, svars, plugin, vars, hist, fields,
           WrapperHost, Seen, Own, Mixed, MainPos, MainEnd
  <2> QED BY <2>1, WStutter
<1> QED
  BY <1>1, <1>2, HOpenMaps, AddThrowsMaps, HInitializeMaps, HSeekMaps, AskInputMaps,
     InputGoesOnMaps, InputGivesMaps, InputEndsMaps DEF HNext, HRun

(* Over input_sfaad the wrapper does what it does over the contract of an    *)
(* input_decoder, in every step until a frame is dropped, and again once     *)
(* repositioned, whatever the host seeks and wherever either file ends: what *)
(* InputHybrid assumes of input holds of the plug-in.                        *)
THEOREM ImplementsHybrid == ASSUME Plain PROVE HSpec => IsHybrid
<1>1. HInit => W!Init
  <2>1. HInit => /\ WrapperHost = "opened" /\ MainPos = 0 /\ MainEnd = 0 /\ eof = FALSE
                 /\ chunk = NoChunk /\ seeks = 0 /\ isAdd \in BOOLEAN
    BY DEF HInit, SfaadInit, Init, WrapperHost, MainPos, MainEnd
  <2>2. HInit => /\ whost = "closed" /\ weof = FALSE /\ wout = W!NoChunk /\ W!Add!Init
                 /\ pStart = 0 /\ pEnd = 0 /\ base = 0 /\ todo = 0 /\ cur = 0 /\ offsets = {}
                 /\ heard = 0 /\ stale = 0
    BY DEF HInit
  <2>3. HInit => W!Main!Init
    BY <2>1 DEF W!Main!Init, W!Main!Empty, MainEnd, NoChunk
  <2> QED BY <2>1, <2>2, <2>3 DEF W!Init
<1>2. HInv /\ HInv' /\ [HNext]_wvars
        => [displaced' # 0 \/ W!Next]_(W!vars)
  BY HybridStep
<1> QED BY <1>1, <1>2, HInvAlways, PTL DEF HSpec, IsHybrid
-----------------------------------------------------------------------------
(* That the wrapper's decode_run comes to an end over the plug-in's.         *)

\* What the host has left, in this order: calls of open or an exception, frames input
\* reads, samples of input_add, and parts of decode_run.
HLife   == IF whost = "closed" THEN 2 ELSE IF whost = "broken" THEN 0 ELSE 1
AddLeft == MaxPos - apos
HTurn   == IF whost = "ready" THEN IF weof THEN 0 ELSE 2
           ELSE IF whost = "asking" THEN IF build.n = 0 THEN 1 ELSE 7
           ELSE IF whost = "mixing" THEN 6
           ELSE IF host # "decoding" THEN 4
           ELSE IF build.n = 0 THEN 3 ELSE 5
HToPlay == <<HLife, Frames, AddLeft, HTurn>>

HPlaysOn == <<HToPlay', HToPlay>> \in Below(4)

AddReading == apos \in Int /\ aend \in Int /\ apos <= MaxPos /\ aend <= MaxPos

HNatural == HLife \in Nat /\ Frames \in Nat /\ AddLeft \in Nat /\ HTurn \in Nat

LEMMA HReadingCounts == Reading /\ AddReading => HNatural
  BY Sizes DEF Reading, AddReading, HNatural, HLife, Frames, AddLeft, HTurn

LEMMA HNaturalIsMeasure == HNatural => HToPlay \in [1 .. 4 -> Nat]
<1>1. \A a, b, c, d \in Nat : <<a, b, c, d>> \in [1 .. 4 -> Nat]
  OBVIOUS
<1> QED BY <1>1 DEF HNatural, HToPlay

LEMMA AddPositioned ==
  ASSUME NEW p \in Nat, W!AddPosition(p)
  PROVE  AddReading'
<1>1. AddLen \in Nat /\ AddLen <= MaxPos
  BY CompositionAssumption, Sizes
<1>2. aend' = AddLen /\ apos' = IF p <= AddLen THEN p ELSE AddLen
  BY DEF W!AddPosition, W!Add!Position, W!Min2
<1>3. apos' \in Nat /\ apos' <= AddLen
  BY <1>1, <1>2
<1> QED BY <1>1, <1>2, <1>3, Sizes DEF AddReading

LEMMA AddReadingInit == HInit => AddReading
  BY Sizes DEF HInit, W!Add!Init, AddReading

LEMMA AddReadingStep == Reading /\ AddReading /\ [HNext]_wvars => AddReading'
<1> SUFFICES ASSUME Reading, AddReading, [HNext]_wvars PROVE AddReading'
  OBVIOUS
<1>1. CASE UNCHANGED <<apos, aend>>
  BY <1>1 DEF AddReading
<1>2. CASE HInitialize
  <2>1. song' \in 1 .. Len(Lengths)
    BY <1>2, InitializeReads DEF HInitialize
  <2>2. TimeToSamples(Until[song' - 1]) \in Nat
    <3>1. PICK i \in 1 .. Len(Lengths) : song' = i
      BY <2>1
    <3>2. TimeToSamples(Until[i - 1]) \in Nat
      BY SongStarts
    <3> QED BY <3>1, <3>2
  <2>3. host' = "broken" => UNCHANGED <<apos, aend>>
    BY <1>2 DEF HInitialize, HPositioned, wrapper, addVars
  <2>4. host' # "broken" => W!AddPosition(TimeToSamples(Until[song' - 1]))
    BY <1>2 DEF HInitialize, HPositioned
  <2> QED BY <1>1, <2>2, <2>3, <2>4, AddPositioned
<1>3. CASE HSeek
  <2>1. host' = "ready" => pos' \in Nat
    BY <1>3, DecodeSeekReads DEF HSeek
  <2>2. host' \in {"ready", "broken"}
    BY <1>3, DecodeSeekReads DEF HSeek
  <2>3. host' = "broken" => UNCHANGED <<apos, aend>>
    BY <1>3 DEF HSeek, HPositioned, wrapper, addVars
  <2>4. host' # "broken" => W!AddPosition(pos')
    BY <1>3 DEF HSeek, HPositioned
  <2> QED BY <1>1, <2>1, <2>2, <2>3, <2>4, AddPositioned
<1>4. CASE HOpen \/ AddThrows \/ AskInput \/ InputGoesOn \/ InputGives \/ InputEnds
  BY <1>1, <1>4 DEF HOpen, AddThrows, AskInput, InputGoesOn, InputGives, InputEnds, wrapper, addVars
<1>5. CASE MixThrows
  BY <1>1, <1>5 DEF MixThrows, W!MixThrows, W!addVars
<1>6. CASE Mixes
  <2>1. CASE W!MixRefill
    <3>1. PICK n \in 1 .. MaxChunk : W!Add!Deliver(n)
      BY <2>1 DEF W!MixRefill
    <3> QED BY <3>1, CompositionAssumption, Sizes DEF W!Add!Deliver, AddReading
  <2>2. CASE W!MixEnd \/ W!MixRest
    BY <1>1, <2>2 DEF W!MixEnd, W!MixRest, W!AddFinish, W!Add!Finish, W!addVars
  <2> QED BY <1>6, <2>1, <2>2 DEF Mixes
<1>7. CASE UNCHANGED wvars
  BY <1>1, <1>7 DEF wvars, wrapper, addVars
<1> QED BY <1>2, <1>3, <1>4, <1>5, <1>6, <1>7 DEF HNext, HRun

LEMMA HReadingAlways == HSpec => [](Reading /\ AddReading)
<1>1. HInit => Reading /\ AddReading
  BY ReadingInit, AddReadingInit DEF HInit
<1>2. Reading /\ AddReading /\ [HNext]_wvars => Reading' /\ AddReading'
  <2>1. [HNext]_wvars => [AnyNext]_svars
    BY CallsOfPlugin DEF wvars
  <2> QED BY <2>1, ReadingStep, AddReadingStep
<1> QED BY <1>1, <1>2, PTL DEF HSpec

Descends ==
  \/ HLife' < HLife
  \/ HLife' = HLife /\ Frames' < Frames
  \/ HLife' = HLife /\ Frames' = Frames /\ AddLeft' < AddLeft
  \/ HLife' = HLife /\ Frames' = Frames /\ AddLeft' = AddLeft /\ HTurn' < HTurn

LEMMA InputPlays ==
  ASSUME Reading, InputGoesOn \/ InputGives \/ InputEnds
  PROVE  Descends
<1>1. /\ RunFrame /\ host = "decoding" /\ whost \in {"asking", "draining"} /\ apos' = apos
      /\ whost' \in {"asking", "mixing", "draining", "ready"}
  BY DEF InputGoesOn, InputGives, InputEnds, InputPass, RunFrame, wrapper, addVars
<1>2. HLife' = HLife /\ AddLeft' = AddLeft
  BY <1>1 DEF HLife, AddLeft
<1>3. CASE Frames' < Frames
  BY <1>2, <1>3 DEF Descends
<1>4. CASE Frames' = Frames /\ host' = "ready" /\ (build.n = 0 <=> eof')
  <2>1. CASE InputGoesOn
    BY <1>4, <2>1 DEF InputGoesOn
  <2>2. CASE InputGives
    <3>1. ~(build.n = 0) /\ (whost = "asking" => whost' = "mixing")
          /\ (whost = "draining" => whost' = "draining")
      BY <1>4, <2>2 DEF InputGives
    <3>2. HTurn' < HTurn
      BY <1>1, <1>4, <3>1 DEF HTurn
    <3> QED BY <1>2, <1>4, <3>2 DEF Descends
  <2>3. CASE InputEnds
    <3>1. build.n = 0 /\ whost' = "ready" /\ (whost = "asking" => weof' = TRUE)
      BY <1>4, <2>3 DEF InputEnds
    <3>2. HTurn' < HTurn
      BY <1>1, <1>4, <3>1 DEF HTurn
    <3> QED BY <1>2, <1>4, <3>2 DEF Descends
  <2> QED BY <2>1, <2>2, <2>3
<1> QED BY <1>1, <1>3, <1>4, PassReads

LEMMA MixPlays ==
  ASSUME AddReading, Mixes
  PROVE  Descends
<1>1. /\ whost = "mixing" /\ whost' \in {"mixing", "draining", "ready"}
      /\ UNCHANGED <<current, host, build>>
  BY DEF Mixes, svars, vars, fields, plugin
<1>2. HLife' = HLife /\ Frames' = Frames
  BY <1>1 DEF HLife, Frames
<1>3. CASE W!MixRefill
  <2>1. PICK n \in 1 .. MaxChunk : W!Add!Deliver(n)
    BY <1>3 DEF W!MixRefill
  <2>2. AddLeft' < AddLeft
    BY <2>1, CompositionAssumption, Sizes DEF W!Add!Deliver, AddReading, AddLeft
  <2> QED BY <1>2, <2>2 DEF Descends
<1>4. CASE W!MixEnd \/ W!MixRest
  <2>1. apos' = apos /\ whost' # "mixing"
    BY <1>1, <1>4 DEF W!MixEnd, W!MixRest, W!AddFinish, W!Add!Finish, W!addVars, WrapperHost
  <2>2. HTurn' < HTurn
    BY <1>1, <2>1 DEF HTurn
  <2>3. AddLeft' = AddLeft
    BY <2>1 DEF AddLeft
  <2> QED BY <1>2, <2>2, <2>3 DEF Descends
<1> QED BY <1>3, <1>4 DEF Mixes

LEMMA HPlaysStep ==
  ASSUME Reading, AddReading, HNext
  PROVE  seeks' = seeks + 1 \/ Descends
<1>1. CASE HOpen
  BY <1>1 DEF HOpen, OpenForDecoding, OpenThrows, HLife, Descends
<1>2. CASE HInitialize
  BY <1>2, InitializeReads DEF HInitialize
<1>3. CASE HSeek
  <2>1. host' = "broken" => whost' = "broken" /\ whost = "ready"
    BY <1>3 DEF HSeek, HPositioned
  <2>2. host' # "broken" => seeks' = seeks + 1
    BY <1>3 DEF HSeek, DecodeSeek, Repositioned
  <2> QED BY <2>1, <2>2 DEF HLife, Descends
<1>4. CASE AddThrows \/ MixThrows
  BY <1>4 DEF AddThrows, MixThrows, HLife, Descends
<1>5. CASE AskInput
  <2>1. /\ host = "ready" /\ host' = "decoding" /\ build'.n = 0 /\ current' = current
        /\ apos' = apos /\ weof' = weof
        /\ \/ whost = "ready" /\ ~weof /\ whost' = "asking"
           \/ whost = "draining" /\ whost' = "draining"
    BY <1>5 DEF AskInput, CallRun, NoChunk, vars, fields, wrapper, addVars
  <2>2. HTurn' < HTurn
    BY <2>1 DEF HTurn
  <2>3. HLife' = HLife /\ Frames' = Frames /\ AddLeft' = AddLeft
    BY <2>1 DEF HLife, Frames, AddLeft
  <2> QED BY <2>2, <2>3 DEF Descends
<1> QED BY <1>1, <1>2, <1>3, <1>4, <1>5, InputPlays, MixPlays DEF HNext, HRun

(* decode_run of the wrapper over that of the plug-in: both loops of the one, *)
(* the loop of the other within each call, and the calls of a host that does  *)
(* not seek come to an end, for every file, also one with frames that cannot  *)
(* be decoded, after which input gives chunks again when it has said that it  *)
(* has none: each step but a positioning takes something off a measure that   *)
(* cannot go down for ever.                                                   *)
THEOREM HybridRunsOut ==
  /\ IsWellFoundedOn(Below(4), [1 .. 4 -> Nat])
  /\ HSpec => [](HToPlay \in [1 .. 4 -> Nat])
  /\ HSpec => [][seeks' = seeks + 1 \/ HPlaysOn]_wvars
<1>1. Reading /\ AddReading /\ HNatural /\ HNatural' /\ [HNext]_wvars =>
        [seeks' = seeks + 1 \/ HPlaysOn]_wvars
  <2>1. SUFFICES ASSUME Reading, AddReading, HNatural, HNatural', HNext, seeks' # seeks + 1
                 PROVE  HPlaysOn
    OBVIOUS
  <2>2. <<<<HLife', Frames', AddLeft', HTurn'>>, <<HLife, Frames, AddLeft, HTurn>>>> \in Below(4)
    BY <2>1, HPlaysStep, LowersFour DEF HNatural, Descends
  <2> QED BY <2>2 DEF HPlaysOn, HToPlay
<1>2. HSpec => [](Reading /\ AddReading /\ HNatural)
  BY HReadingAlways, HReadingCounts, PTL
<1>3. HSpec => [](HToPlay \in [1 .. 4 -> Nat])
  BY <1>2, HNaturalIsMeasure, PTL
<1>4. HSpec => [][seeks' = seeks + 1 \/ HPlaysOn]_wvars
  BY <1>1, <1>2, PTL DEF HSpec
<1>5. IsWellFoundedOn(Below(4), [1 .. 4 -> Nat])
  BY BelowIsWellFounded
<1> QED BY <1>3, <1>4, <1>5
=============================================================================
