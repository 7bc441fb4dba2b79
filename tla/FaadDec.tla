------------------------------ MODULE FaadDec ------------------------------
(***************************************************************************)
(* The AAC decoder object of foo_input_sfaad: class faad_dec (faad_dec.cpp)*)
(* with the frame reader it owns (mp4read_frame, mp4read_seek and          *)
(* mp4read_close of mp4read.cpp) and the external NeAAC decoder as the     *)
(* code uses it.                                                           *)
(*                                                                         *)
(* One sample stands for one sample of every channel.  The content of the  *)
(* stream is numbered in samples: the decoder given frame k returns the    *)
(* samples (k-1)*OutSize .. k*OutSize-1, because an AAC frame is completed *)
(* by the overlap with the next one; the first frame it is ever given      *)
(* returns none.  The history variables pos, displaced and lost record what*)
(* the caller asked for, so that what run() hands out can be compared with *)
(* it.  They guard nothing, except that MaxLost bounds lost.               *)
(***************************************************************************)
EXTENDS Integers

CONSTANTS
  FrameSize,    \* framesize: samples a frame adds to the time line
  OutSize,      \* samples the NeAAC decoder returns for a frame
  SameRate,     \* mp4config.samplerate = samplerate
  Ents,         \* mp4config.frame.ents: frames in the table
  Avail,        \* frames that lie wholly inside the file (less than Ents if cut)
  Samples,      \* mp4config.samples
  MaxPos,       \* bound: the largest position or end a caller asks for
  Bad,          \* frames for which NeAACDecDecode returns NULL
  Soft,         \* frames decoded with frameInfo.error > 0 and a buffer
  MaxLost,      \* bound: failed seeks are explored until lost would exceed it
  U32, U64      \* 2^32 and 2^64, scaled down for TLC

ASSUME FaadAssumption ==
  /\ FrameSize \in Nat /\ FrameSize > 0
  /\ OutSize \in Nat /\ OutSize > 0
  /\ SameRate \in BOOLEAN
  /\ Ents \in Nat /\ Avail \in 0 .. Ents
  /\ Samples \in Nat /\ MaxPos \in Nat /\ Samples <= MaxPos
  /\ Bad \subseteq 0 .. Ents - 1 /\ Soft \subseteq 0 .. Ents - 1
  /\ MaxLost \in Nat
  /\ U32 \in Nat /\ U64 \in Nat /\ U32 <= U64
  /\ U32 % 2 = 0 /\ U64 % U32 = 0
  /\ 2 * (MaxPos + MaxLost + (Ents * FrameSize) + 2 * FrameSize + OutSize) < U32

VARIABLES
  phase,        \* life of the object: new, open (init succeeded), failed, dead
  handle,       \* hDecoder: null, live, or freed (closed, the pointer kept)
  file,         \* mp4inf holds the FILE, the frame table and the bit buffer
  opens,        \* history: the handles NeAACDecOpen has returned
  closes,       \* history: the calls of NeAACDecClose
  decoded, sampleId, remSamples, endSamples,      \* the fields of faad_dec
  current,      \* mp4config.frame.current, also where the file is positioned
  primed,       \* the NeAAC decoder has decoded a first frame
  prev,         \* the frame whose overlap it holds
  out,          \* what the last call returned: result, and the samples handed out
  pos,          \* history: the caller's position, target of its seek + samples got
  displaced,    \* history: by how much what it gets is off that position
  lost          \* history: what failed seeks have taken off decoded

object == <<phase, handle, file, opens, closes>>
fields == <<decoded, sampleId, remSamples, endSamples, current>>
neaac  == <<primed, prev>>
hist   == <<pos, displaced, lost>>
vars   == <<object, fields, neaac, hist, out>>

NoFrame == -1

\* run(), seek() and init() return -1 or 1 for every failure; out.ret tells them apart.
Returns == {"none", "ok", "end", "short", "null", "past", "fail"}
Nothing(r) == [ret |-> r, from |-> 0, n |-> 0, clean |-> TRUE]

Min2(a, b) == IF a <= b THEN a ELSE b
-----------------------------------------------------------------------------
(* Machine integers: uint64_t, the 32-bit product of a long and an unsigned, *)
(* and the conversion to a 32-bit long.                                      *)
Wrap(x) == x % U64
UInt(x) == x % U32
Long(x) == LET r == x % U32 IN IF 2 * r < U32 THEN r ELSE r - U32
-----------------------------------------------------------------------------
Init ==
  /\ phase = "new" /\ handle = "null" /\ file = FALSE /\ opens = 0 /\ closes = 0
  /\ decoded = 0 /\ sampleId = 0 /\ remSamples = 0 /\ endSamples = 0
  /\ current = 0
  /\ primed = FALSE /\ prev = NoFrame
  /\ out = Nothing("none")
  /\ pos = 0 /\ displaced = 0 /\ lost = 0

(* faad_dec::init.  mp4read_open closes the file itself when it fails; when  *)
(* NeAACDecInit2 refuses the stream, init closes the decoder and the file    *)
(* but leaves hDecoder pointing at the closed decoder.                       *)
InitUnreadable ==
  /\ phase = "new"
  /\ phase' = "failed" /\ out' = Nothing("fail")
  /\ UNCHANGED <<handle, file, opens, closes, fields, neaac, hist>>

\* Mutant of InitRejected: the pointer is cleared and the decoder is not closed.
InitRejected_Leaks ==
  /\ phase = "new"
  /\ phase' = "failed" /\ out' = Nothing("fail")
  /\ opens' = opens + 1 /\ UNCHANGED closes
  /\ handle' = "null"
  /\ UNCHANGED <<file, fields, neaac, hist>>

InitRejected ==
  /\ phase = "new"
  /\ phase' = "failed" /\ out' = Nothing("fail")
  /\ opens' = opens + 1 /\ closes' = closes + 1
  /\ handle' = "freed"
  /\ UNCHANGED <<file, fields, neaac, hist>>

InitDone ==
  /\ phase = "new"
  /\ phase' = "open" /\ out' = Nothing("ok")
  /\ opens' = opens + 1 /\ handle' = "live" /\ file' = TRUE
  /\ decoded' = 0 /\ sampleId' = 0 /\ remSamples' = 0
  /\ endSamples' = Samples
  /\ current' = 0
  /\ UNCHANGED <<closes, neaac, hist>>

DecInit == InitUnreadable \/ InitRejected \/ InitDone
-----------------------------------------------------------------------------
\* Mutant of Offset: the frames played so far are not taken off.
Offset_KeepsFrames == decoded
(* faad_dec::seek(p), called with endSamples = e.  Taking sampleId frames    *)
(* off decoded is meant to leave minus the decoder's delay; it is done       *)
(* before the range check.                                                   *)
Offset == Wrap(decoded - UInt(sampleId * FrameSize))

\* Mutant of SeekPast: sampleId is assigned before the range check as well.
SeekPast_MovesId(p, e) ==
  /\ p > e
  /\ decoded' = Offset /\ sampleId' = p \div FrameSize
  /\ endSamples' = e
  /\ out' = Nothing("past")
  /\ lost' = lost + sampleId * FrameSize
  /\ UNCHANGED <<remSamples, current, neaac, pos, displaced>>

SeekPast(p, e) ==
  /\ p > e
  /\ decoded' = Offset
  /\ endSamples' = e
  /\ out' = Nothing("past")
  /\ lost' = lost + sampleId * FrameSize
  /\ UNCHANGED <<sampleId, remSamples, current, neaac, pos, displaced>>

\* Mutant of SeekFrame: the reader starts a frame early, to warm the decoder up.
SeekFrame_WarmUp(k) ==
  current' = IF k > Ents THEN current ELSE IF k = 0 THEN 0 ELSE k - 1

\* mp4read_seek refuses a frame beyond the table; seek ignores that.
SeekFrame(k) == current' = IF k > Ents THEN current ELSE k

\* Mutant of SeekTo: the decoder's delay is not added to what is to be skipped.
SeekTo_NoDelay(p, e) ==
  /\ p <= e
  /\ sampleId' = p \div FrameSize
  /\ remSamples' = p % FrameSize
  /\ decoded' = Wrap(p - remSamples')
  /\ endSamples' = e
  /\ SeekFrame(p \div FrameSize)
  /\ out' = Nothing("ok")
  /\ pos' = p /\ displaced' = lost
  /\ UNCHANGED <<neaac, lost>>

\* The frame p lies in is decoded from its start; what comes before p is skipped.
SeekTo(p, e) ==
  /\ p <= e
  /\ sampleId' = p \div FrameSize
  /\ remSamples' = Long(Wrap((p % FrameSize) - Offset))
  /\ decoded' = Wrap(p - remSamples')
  /\ endSamples' = e
  /\ SeekFrame(p \div FrameSize)
  /\ out' = Nothing("ok")
  /\ pos' = p /\ displaced' = lost
  /\ UNCHANGED <<neaac, lost>>

Seek(p, e) ==
  /\ phase = "open"
  /\ SeekTo(p, e) \/ SeekPast(p, e)
  /\ UNCHANGED object
-----------------------------------------------------------------------------
\* Mutant of Refuses: the last frame of the table is not played.
Refuses_LastFrame == sampleId + 1 >= Ents \/ decoded >= endSamples

(* faad_dec::run: one frame.                                                 *)
Refuses == sampleId >= Ents \/ decoded >= endSamples

RunRefused ==
  /\ Refuses
  /\ out' = Nothing("end")
  /\ UNCHANGED <<fields, neaac, hist>>

\* Mutant of FrameReadable: one frame too many.
FrameReadable_OneMore == current <= Ents /\ current <= Avail

\* mp4read_frame: no frame left in the table, or a short read from the file.
FrameReadable == current < Ents /\ current < Avail

RunUnread ==
  /\ ~Refuses /\ ~FrameReadable
  /\ out' = Nothing("short")
  /\ UNCHANGED <<fields, neaac, hist>>

\* NeAACDecDecode returns NULL: the frame is consumed, sampleId stays behind.
RunNull ==
  /\ ~Refuses /\ FrameReadable /\ current \in Bad
  /\ current' = current + 1
  /\ prev' = NoFrame
  /\ displaced' = displaced + FrameSize
  /\ out' = Nothing("null")
  /\ UNCHANGED <<decoded, sampleId, remSamples, endSamples, primed, pos, lost>>

\* Samples the decoder returns.
Decodes == IF primed THEN OutSize ELSE 0

\* Mutant of Kept: samples beyond endSamples are not cut off.
Kept_Untrimmed == Decodes

\* How many of them run() keeps: those before endSamples, at most a frame of them.
Kept ==
  LET after == Wrap(decoded + Decodes)
      dur   == IF after > endSamples THEN Decodes - (after - endSamples) ELSE Decodes
  IN  IF SameRate THEN Min2(Min2(dur, FrameSize), Decodes) ELSE Decodes

\* Kept samples still to be skipped; a negative remSamples is compared as unsigned
\* and takes them all.
Skipped == IF remSamples >= 0 THEN Min2(Kept, remSamples) ELSE Kept

\* Mutant of RunDecoded: a frame with an error is decoded again.
RunDecoded_RetriesSoft ==
  /\ ~Refuses /\ FrameReadable /\ current \notin Bad
  /\ IF current \in Soft
       THEN out' = Nothing("ok") /\ UNCHANGED <<fields, neaac, pos, displaced>>
       ELSE /\ current' = current + 1 /\ sampleId' = sampleId + 1
            /\ decoded' = Wrap(decoded + Decodes)
            /\ primed' = TRUE /\ prev' = current
            /\ out' = [ret   |-> "ok", n |-> Kept - Skipped,
                       from  |-> (current - 1) * OutSize + remSamples,
                       clean |-> prev = current - 1]
            /\ remSamples' = remSamples - Skipped
            /\ pos' = pos + (Kept - Skipped)
            /\ UNCHANGED <<displaced, endSamples>>
  /\ UNCHANGED lost

RunDecoded ==
  /\ ~Refuses /\ FrameReadable /\ current \notin Bad
  /\ current' = current + 1 /\ sampleId' = sampleId + 1
  /\ decoded' = Wrap(decoded + Decodes)
  /\ primed' = TRUE /\ prev' = current
  /\ IF current \in Soft
       THEN /\ out' = Nothing("ok")
            /\ displaced' = displaced + Decodes
            /\ UNCHANGED <<remSamples, pos>>
       ELSE /\ out' = [ret   |-> "ok", n |-> Kept - Skipped,
                       from  |-> (current - 1) * OutSize + remSamples,
                       clean |-> prev = current - 1]
            /\ remSamples' = remSamples - Skipped
            /\ pos' = pos + (Kept - Skipped)
            /\ UNCHANGED displaced
  /\ UNCHANGED <<endSamples, lost>>

Run ==
  /\ phase = "open"
  /\ RunRefused \/ RunUnread \/ RunNull \/ RunDecoded
  /\ UNCHANGED object
-----------------------------------------------------------------------------
\* mp4read_close: frees the tables and closes the file; nothing if done before.
Mp4Close == file' = FALSE

(* faad_dec::exit, called by the destructor of input_sfaad whatever happened *)
(* before.  hDecoder is closed if non-NULL.                                  *)
Exit ==
  /\ phase # "dead"
  /\ phase' = "dead"
  /\ closes' = IF handle = "null" THEN closes ELSE closes + 1
  /\ handle' = "null" /\ Mp4Close
  /\ UNCHANGED <<opens, fields, neaac, hist, out>>

(* A caller that seeks anywhere, with any end, keeps calling after a failure.*)
Reposition ==
  \E p, e \in 0 .. MaxPos :
    /\ p > e => lost + sampleId * FrameSize <= MaxLost
    /\ Seek(p, e)

Next == DecInit \/ Reposition \/ Run \/ Exit

Spec == Init /\ [][Next]_vars
-----------------------------------------------------------------------------
(* The values of the variables, in every state of the decoder object.        *)
TypeOK ==
  /\ phase \in {"new", "open", "failed", "dead"}
  /\ handle \in {"null", "live", "freed"}
  /\ file \in BOOLEAN /\ opens \in 0 .. 1 /\ closes \in 0 .. 2
  /\ decoded \in 0 .. U64 - 1
  /\ sampleId \in Nat /\ remSamples \in Int /\ endSamples \in 0 .. MaxPos
  /\ current \in 0 .. Ents
  /\ primed \in BOOLEAN /\ prev \in NoFrame .. Ents - 1
  /\ out \in [ret : Returns, from : Int, n : Int, clean : BOOLEAN]
  /\ pos \in Int /\ displaced \in Nat /\ lost \in Nat

\* Samples the decoder lags behind the frames it was given.
Delay == IF primed THEN FrameSize ELSE 0

(* decoded never says anything but what sampleId says: it is the start of    *)
(* frame sampleId less the decoder's delay, modulo 2^64, apart from what     *)
(* failed seeks have taken off it for good.  Every branch of run() and the   *)
(* subtraction at the head of seek() have to agree for this to hold.         *)
Bookkeeping ==
  OutSize = FrameSize =>
    decoded = Wrap(sampleId * FrameSize - Delay - lost)

(* Whatever sequence of seeks, decode errors and failed seeks came before,   *)
(* the samples run() hands out are the ones at the caller's position moved   *)
(* by a whole frame for every frame dropped and by what failed seeks lost;   *)
(* without errors they are exactly the ones asked for.                       *)
InPlace ==
  (OutSize = FrameSize /\ out.n > 0) =>
    out.from = (pos - out.n) + displaced

(* No sample is handed out that the decoder built from two frames that are   *)
(* not neighbours (the burst after a seek), unless a frame was dropped: the  *)
(* extra frame seek() leaves in remSamples covers the decoder's delay.       *)
CleanOverlap == (out.n > 0 /\ displaced = 0) => out.clean

(* run() reports the end of the stream only when it is there: all samples    *)
(* before endSamples, or all that the readable frames hold, were handed out. *)
(* The one exception is a decoder that was positioned in its first frame     *)
(* after it had decoded something, or after failed seeks: decoded is then    *)
(* below zero, that is, wraps to a huge value.                               *)
Wrapped == sampleId * FrameSize < Delay + lost
EndsAtEnd ==
  (OutSize = FrameSize /\ SameRate /\ out.ret \in {"end", "short"}) =>
    \/ pos + displaced >= Min2(endSamples, (Avail - 1) * FrameSize)
    \/ Wrapped

(* Whatever became of init() and of the calls after it, exit() leaves no     *)
(* decoder open: every handle NeAACDecOpen has returned was closed, and only *)
(* one that NeAACDecInit2 refused is closed a second time (see ClosedOnce).  *)
(* The file and its tables are given back then, too.                         *)
NothingHeld ==
  phase = "dead" =>
    /\ ~file /\ closes >= opens
    /\ closes > opens => opens = 1 /\ out.ret = "fail"

(* "Call exit before destruction to release the resources" (faad_dec.h:14):  *)
(* the sequence init, exit closes a decoder handle at most once.             *)
ClosedOnce == closes <= 1
-----------------------------------------------------------------------------
(* What InPlace and CleanOverlap rest on, as an inductive invariant.         *)

\* Who holds the decoder handle and the file in each phase of the object, and what
\* was opened and closed by then; a new one has not decoded anything.
Lifecycle ==
  /\ phase = "new"    => /\ handle = "null" /\ opens = 0 /\ closes = 0 /\ ~file
                         /\ ~primed /\ pos = 0 /\ displaced = 0 /\ lost = 0
  /\ phase = "open"   => handle = "live" /\ opens = 1 /\ closes = 0
  /\ phase = "failed" => /\ ~file /\ out.ret = "fail"
                         /\ \/ handle = "null" /\ opens = 0 /\ closes = 0
                            \/ handle = "freed" /\ opens = 1 /\ closes = 1
  /\ NothingHeld

\* No product or sum of the fields comes near the width of a long.
Bounds ==
  /\ sampleId * FrameSize <= MaxPos + Ents * FrameSize
  /\ lost <= MaxLost

\* The frame the reader is at is the one the caller's position asks for, unless
\* decoding ended inside the last frame: run() then refuses until the next seek.
InStep ==
  /\ remSamples >= 0
  /\ sampleId < Ents =>
       \/ current * FrameSize - Delay + remSamples = pos + displaced
       \/ primed /\ decoded > endSamples

\* Once less than a frame is left to skip, the decoder holds the previous frame.
OverlapReady ==
  (displaced = 0 /\ primed /\ remSamples < FrameSize) => prev = current - 1

(* The 64- and 32-bit arithmetic of seek() comes to what it would be without *)
(* a width: the unsigned product sampleId * framesize does not wrap, and the *)
(* part of the frame to be skipped is the offset in the frame, the decoder's *)
(* delay and what failed seeks lost, although decoded, a uint64_t, has gone  *)
(* below zero by then and the difference is stored in a long.                *)
SeekExact ==
  phase = "open" =>
    /\ UInt(sampleId * FrameSize) = sampleId * FrameSize
    /\ \A p \in 0 .. MaxPos :
         Long(Wrap((p % FrameSize) - Offset)) = (p % FrameSize) + Delay + lost

(* The inductive invariant: each of its parts is kept by a step because the  *)
(* others hold before it.                                                    *)
IInv ==
  /\ TypeOK /\ Lifecycle /\ Bounds
  /\ OutSize = FrameSize =>
       Bookkeeping /\ InStep /\ OverlapReady /\ InPlace /\ CleanOverlap /\ SeekExact
=============================================================================
