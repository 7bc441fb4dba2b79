----------------------------- MODULE InputSfaad -----------------------------
(***************************************************************************)
(* The decoder plug-in foo_input_sfaad: class input_sfaad (input_sfaad.cpp)*)
(* driving its faad_dec, called by a host that keeps to the contract of    *)
(* foobar2000/SDK/input.h: open once, initialize before run or seek, run   *)
(* not again after it returned false, no call but the destructor after an  *)
(* exception.  decode_run is a loop over faad_dec::run; each pass of it is *)
(* a step here, so that a run can be watched in the middle of a chunk.     *)
(*                                                                         *)
(* Time is counted in ticks, TicksPerSample of them to a sample.           *)
(***************************************************************************)
EXTENDS FaadDec, Sequences

CONSTANTS
  Lengths,         \* lengths of the subsongs in ticks, as info_reader tells them
  TicksPerSample,
  BufSize,         \* bufsize in samples of one channel
  MaxSeeks         \* bound: calls of initialize and seek that are explored

ASSUME SfaadAssumption ==
  /\ Lengths \in Seq(Nat) /\ TicksPerSample \in Nat /\ TicksPerSample > 0
  /\ BufSize \in Nat /\ BufSize > 0 /\ MaxSeeks \in Nat

VARIABLES
  host,      \* where the host is: none, info, opened, ready, decoding, broken, gone
  eof,       \* run has returned false since the last initialize or seek
  song,      \* index of the subsong being decoded, 0 before initialize
  build,     \* the chunk decode_run is filling
  chunk,     \* the chunk the last call of run returned
  seeks      \* bound: initialize and seek calls so far

plugin == <<host, eof, song, build, chunk, seeks>>
svars  == <<vars, plugin>>

\* Samples in a chunk: the content of the first, their number, no gap between.
NoChunk == [from |-> 0, n |-> 0, solid |-> TRUE]

\* audio_math::time_to_samples: to the nearest sample.
TimeToSamples(t) == (2 * t + TicksPerSample) \div (2 * TicksPerSample)

\* The lengths of the first i subsongs added up, as decode_initialize does.
Until[i \in 0 .. Len(Lengths)] == IF i = 0 THEN 0 ELSE Until[i - 1] + Lengths[i]

\* The bound MaxPos lets every subsong be played.
Album == \A i \in 1 .. Len(Lengths) : TimeToSamples(Until[i]) <= MaxPos

\* The files the theorems about the plug-in are about: a frame of the time line is one
\* of the decoder, and no rate differs.
Plain == OutSize = FrameSize /\ SameRate /\ Album

SfaadInit ==
  /\ Init
  /\ host = "none" /\ eof = FALSE /\ song = 0 /\ seeks = 0
  /\ build = NoChunk /\ chunk = NoChunk
-----------------------------------------------------------------------------
(* input_sfaad::open.  It throws for info_write, when no other input reads   *)
(* the file's tags, and for a path that is not a file:// one.                *)
OpenThrows ==
  /\ host = "none"
  /\ host' = "broken"
  /\ UNCHANGED <<vars, eof, song, build, chunk, seeks>>

OpenForInfo ==
  /\ host = "none"
  /\ host' = "info"
  /\ UNCHANGED <<vars, eof, song, build, chunk, seeks>>

OpenForDecoding ==
  /\ host = "none"
  /\ DecInit
  /\ host' = IF phase' = "open" THEN "opened" ELSE "broken"
  /\ UNCHANGED <<eof, song, build, chunk, seeks>>

Repositioned ==
  /\ eof' = FALSE /\ build' = NoChunk /\ chunk' = NoChunk
  /\ seeks' = seeks + 1

\* Mutant of DecodeInitialize: the subsong's length is rounded by itself.
DecodeInitialize_RoundsLength ==
  /\ host \in {"opened", "ready"} /\ seeks < MaxSeeks
  /\ \E i \in 1 .. Len(Lengths) :
       /\ Seek(TimeToSamples(Until[i - 1]),
               TimeToSamples(Until[i - 1]) + TimeToSamples(Lengths[i]))
       /\ song' = i
  /\ host' = IF out'.ret = "ok" THEN "ready" ELSE "broken"
  /\ Repositioned

\* decode_initialize: the subsong's bounds are rounded sums, not sums of rounded
\* lengths.  endSamples is set before the seek; p_flags is not looked at.
DecodeInitialize ==
  /\ host \in {"opened", "ready"} /\ seeks < MaxSeeks
  /\ \E i \in 1 .. Len(Lengths) :
       /\ Seek(TimeToSamples(Until[i - 1]), TimeToSamples(Until[i]))
       /\ song' = i
  /\ host' = IF out'.ret = "ok" THEN "ready" ELSE "broken"
  /\ Repositioned

\* decode_seek: relative to the subsong's start; throws beyond its end.
DecodeSeek ==
  /\ host = "ready" /\ seeks < MaxSeeks
  /\ \E t \in 0 .. MaxPos * TicksPerSample :
       /\ TimeToSamples(Until[song - 1] + t) <= MaxPos
       /\ Seek(TimeToSamples(Until[song - 1] + t), endSamples)
  /\ IF out'.ret = "ok"
       THEN host' = "ready" /\ Repositioned
       ELSE host' = "broken" /\ UNCHANGED <<eof, build, chunk, seeks>>
  /\ UNCHANGED song

CallRun ==
  /\ host = "ready"
  /\ host' = "decoding" /\ build' = NoChunk
  /\ UNCHANGED <<vars, eof, song, chunk, seeks>>

DecodeRun == ~eof /\ CallRun

\* out_data .. out_data + count appended at m_data.
Appended ==
  IF out'.n = 0 THEN build
  ELSE IF build.n = 0 THEN [from |-> out'.from, n |-> out'.n, solid |-> TRUE]
  ELSE [build EXCEPT !.n = @ + out'.n,
                     !.solid = @ /\ out'.from = build.from + build.n]

\* Mutant of RunFrame: the loop goes on while m_data <= e_data.
RunFrame_OneMore ==
  /\ host = "decoding"
  /\ Run
  /\ build' = Appended
  /\ IF out'.ret = "ok" /\ build'.n <= BufSize
       THEN UNCHANGED <<host, eof, chunk>>
       ELSE host' = "ready" /\ chunk' = build' /\ eof' = (build'.n = 0)
  /\ UNCHANGED <<song, seeks>>

\* Mutant of RunFrame: a frame that yields no samples ends the loop.
RunFrame_StopsOnEmpty ==
  /\ host = "decoding"
  /\ Run
  /\ build' = Appended
  /\ IF out'.ret = "ok" /\ out'.n > 0 /\ build'.n < BufSize
       THEN UNCHANGED <<host, eof, chunk>>
       ELSE host' = "ready" /\ chunk' = build' /\ eof' = (build'.n = 0)
  /\ UNCHANGED <<song, seeks>>

\* One pass of decode_run's loop: it goes on until the buffer is full or
\* faad_dec::run fails; an empty chunk is the end of the stream.
RunFrame ==
  /\ host = "decoding"
  /\ Run
  /\ build' = Appended
  /\ IF out'.ret = "ok" /\ build'.n < BufSize
       THEN UNCHANGED <<host, eof, chunk>>
       ELSE host' = "ready" /\ chunk' = build' /\ eof' = (build'.n = 0)
  /\ UNCHANGED <<song, seeks>>

\* ~input_sfaad, also run when open throws.
Destroy ==
  /\ host \notin {"none", "decoding", "gone"}
  /\ Exit
  /\ host' = "gone"
  /\ UNCHANGED <<eof, song, build, chunk, seeks>>

SfaadNext ==
  \/ OpenThrows \/ OpenForInfo \/ OpenForDecoding
  \/ DecodeInitialize \/ DecodeSeek
  \/ DecodeRun \/ RunFrame
  \/ Destroy

SfaadSpec == SfaadInit /\ [][SfaadNext]_svars

\* decode_run runs to its end once called, and the host asks for the next chunk.
FairSfaadSpec == SfaadSpec /\ WF_svars(RunFrame) /\ WF_svars(DecodeRun)
-----------------------------------------------------------------------------
\* The last frame of the file only completes the one before it.
Playable == (Avail - 1) * FrameSize

Stream == INSTANCE SampleStream WITH
  Length <- Playable, Blind <- FrameSize, MaxEnd <- MaxPos,
  pos    <- IF host = "decoding" THEN pos - build.n ELSE pos,
  end    <- IF song = 0 THEN 0 ELSE endSamples,
  chunk  <- [from |-> IF chunk.solid THEN chunk.from ELSE -1, n |-> chunk.n]

(* The plug-in is an input_decoder: whatever the host seeks, re-initializes  *)
(* and decodes, the chunks are the samples asked for, in order, up to the    *)
(* end of the subsong, as long as no frame was dropped since it was          *)
(* positioned; the next positioning makes it one again.  It may report the   *)
(* end at once when positioned within the first frame (see PlaysFromStart).  *)
IsSampleStream ==
  Stream!Init /\ [][displaced' # 0 \/ Stream!Next]_(Stream!vars)

(* Subsongs played one after the other join without a gap or an overlap: the *)
(* rounded end of one is the rounded start of the next, and decoding one to  *)
(* its end leaves the decoder exactly there, unless frames were dropped.     *)
SubsongsJoin ==
  [][(/\ eof /\ song > 0 /\ song' = song + 1 /\ displaced = 0
      /\ pos \in FrameSize .. Playable - 1)
       => pos' = pos]_svars

\* The most samples run() hands out for a frame: all the decoder returns when it
\* changes the rate, else no more than a frame of the time line.
FrameYield == IF SameRate THEN FrameSize ELSE OutSize

(* How far decode_run writes past bufsize, for every file: less than what one*)
(* frame yields, even when a frame is appended just below the limit.  This   *)
(* is within the room allocated for bufsize + framesize samples only where a *)
(* frame yields no more than framesize (see RoomSuffices).                   *)
ChunkFits == build.n < BufSize + FrameYield

(* A host that stops seeking and keeps asking for chunks gets to the end of  *)
(* the stream: decode_run returns, and in the end returns false, also when   *)
(* frames cannot be decoded.                                                 *)
PlaysOut == (host = "ready") ~> (eof \/ host \in {"gone", "broken"})

(* "initialize ... resets playback position to the beginning" and may be     *)
(* called again (SDK/input.h): run returns false only with nothing left of   *)
(* the subsong to decode.                                                    *)
PlaysFromStart == eof => pos >= Min2(endSamples, Playable)

(* The end of the stream is reported early for two reasons only: a frame     *)
(* that cannot be decoded at the very start of a chunk, or the first frame   *)
(* of a decoder that has decoded before.  A frame that merely yields no      *)
(* samples (the first ones after a seek) does not end it.                    *)
EofExplained ==
  (eof /\ host = "ready") =>
         \/ pos + displaced >= Min2(endSamples, Playable)
         \/ out.ret = "null"
         \/ Wrapped

(* "Conditions where sample count * channel count are greater than data size *)
(* should not be possible" (SDK/audio_chunk.h:77): what decode_run writes to *)
(* the chunk has room in what it allocated for it.                           *)
RoomSuffices == build.n <= BufSize + FrameSize
=============================================================================
