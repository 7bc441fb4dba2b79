---------------------------- MODULE InputHybrid ----------------------------
(***************************************************************************)
(* The decoder wrapper foo_input_hybrid: class input_hybrid                *)
(* (input_hybrid.cpp) opened for decoding.  When a .tak file lies beside   *)
(* the .m4a file, decode_run adds, sample by sample, the lossless remainder*)
(* decoded by input_add to the lossy stream decoded by input.  Both are    *)
(* input_decoders, used by their contract SampleStream; their chunks have  *)
(* sizes of their own, so what is left of an add chunk waits in            *)
(* chunk_add[p_start .. p_end-1] for the next call.                        *)
(*                                                                         *)
(* A sample is numbered by its place in the album: input's and input_add's *)
(* samples of the same number belong together.  One sample stands for one  *)
(* of each channel; both decoders have the same channels and rate.         *)
(***************************************************************************)
EXTENDS Integers

CONSTANTS
  Subsongs,     \* the subsongs of the main file: records [from, to]
  MainLen,      \* samples the main file holds
  MainBlind,    \* positions below it where input may report the end at once
  AddLen,       \* samples the additional file holds
  MaxEnd,       \* bound: the largest position
  MaxChunk,     \* bound: samples in a chunk of either decoder
  MaxSeeks      \* bound: calls of initialize and seek that are explored

ASSUME HybridAssumption ==
  /\ MainLen \in Nat /\ MainBlind \in Nat /\ AddLen \in Nat /\ MaxEnd \in Nat /\ AddLen <= MaxEnd
  /\ MaxChunk \in Nat /\ MaxChunk > 0 /\ MaxSeeks \in Nat
  /\ \A s \in Subsongs : s.from \in 0 .. MaxEnd /\ s.to \in s.from .. MaxEnd

VARIABLES
  host,         \* opened, ready, mixing, draining (inside run), broken (threw)
  eof,          \* run has returned false since the last initialize or seek
  isAdd,        \* is_hybrid_add
  mpos, mend, meof, mchunk,       \* input
  apos, aend, aeof, achunk,       \* input_add
  pStart, pEnd, base,   \* p_start, p_end; chunk_add[i] is add sample base + i
  todo,         \* chunk_size: samples of p_chunk still to be mixed
  cur,          \* the number of the next of them
  out,          \* what the last run returned: a flag, the first sample, how many
  heard,        \* history: the host's position
  offsets,      \* history: add sample - main sample, for the pairs mixed last
  stale,        \* history: samples left in chunk_add at the last seek
  seeks         \* bound: initialize and seek calls so far

mainVars == <<mpos, mend, meof, mchunk>>
addVars  == <<apos, aend, aeof, achunk>>
buffer   == <<pStart, pEnd, base>>
mixVars  == <<todo, cur, offsets>>
hostVars == <<out, heard>>
vars == <<host, eof, isAdd, mainVars, addVars, buffer, mixVars, hostVars, stale, seeks>>

Main == INSTANCE SampleStream WITH Length <- MainLen, Blind <- MainBlind,
          pos <- mpos, end <- mend, eof <- meof, chunk <- mchunk
Add  == INSTANCE SampleStream WITH Length <- AddLen, Blind <- 0,
          pos <- apos, end <- aend, eof <- aeof, chunk <- achunk

Min2(a, b) == IF a <= b THEN a ELSE b

NoChunk == [ret |-> FALSE, from |-> 0, n |-> 0]

Init ==
  /\ host = "opened" /\ eof = FALSE /\ isAdd \in BOOLEAN
  /\ Main!Init /\ Add!Init
  /\ pStart = 0 /\ pEnd = 0 /\ base = 0
  /\ todo = 0 /\ cur = 0 /\ offsets = {}
  /\ out = NoChunk /\ heard = 0
  /\ stale = 0 /\ seeks = 0
-----------------------------------------------------------------------------
\* Mutant of AddPosition: the offset of the subsong in the album is forgotten.
AddPosition_Start(p) == Add!Position(0, AddLen)

\* The additional file is one track: a time beyond it is its end.
AddPosition(p) == Add!Position(Min2(p, AddLen), AddLen)

Positioned(p) ==
  /\ host' = "ready" /\ eof' = FALSE
  /\ out' = NoChunk /\ heard' = p /\ offsets' = {}
  /\ seeks' = seeks + 1
  /\ UNCHANGED <<isAdd, todo, cur>>

\* Mutant of DecodeInitialize: chunk_add is not emptied.
DecodeInitialize_KeepsBuffer ==
  /\ host \in {"opened", "ready"} /\ seeks < MaxSeeks
  /\ \E s \in Subsongs :
       /\ Main!Position(s.from, s.to)
       /\ IF isAdd THEN AddPosition(s.from) ELSE UNCHANGED addVars
       /\ Positioned(s.from)
  /\ stale' = 0
  /\ UNCHANGED buffer

(* decode_initialize: input_add is sought to where the subsong starts in the *)
(* album, and chunk_add is emptied.                                          *)
DecodeInitialize ==
  /\ host \in {"opened", "ready"} /\ seeks < MaxSeeks
  /\ \E s \in Subsongs :
       /\ Main!Position(s.from, s.to)
       /\ IF isAdd THEN AddPosition(s.from) ELSE UNCHANGED addVars
       /\ Positioned(s.from)
  /\ IF isAdd THEN pStart' = 0 /\ pEnd' = 0 ELSE UNCHANGED <<pStart, pEnd>>
  /\ stale' = 0
  /\ UNCHANGED base

\* decode_seek: both decoders are sought; chunk_add is left as it is.
DecodeSeek ==
  /\ host = "ready" /\ seeks < MaxSeeks
  /\ \E p \in 0 .. mend :
       /\ Main!Position(p, mend)
       /\ IF isAdd THEN AddPosition(p) ELSE UNCHANGED addVars
       /\ Positioned(p)
  /\ stale' = pEnd - pStart
  /\ UNCHANGED buffer

\* An exception from either decoder passes through; the host then gives up.
Throw == host' = "broken" /\ UNCHANGED <<eof, isAdd, hostVars, stale, seeks>>

CallThrows ==
  /\ host \in {"opened", "ready"}
  /\ Throw /\ UNCHANGED <<mainVars, addVars, buffer, mixVars>>
-----------------------------------------------------------------------------
(* decode_run.  It starts with a chunk of input; without an additional file  *)
(* that is all.                                                              *)
RunPlain ==
  /\ host = "ready" /\ ~eof /\ ~isAdd
  /\ \E n \in 1 .. MaxChunk :
       /\ Main!Deliver(n)
       /\ out' = [ret |-> TRUE, from |-> mpos, n |-> n]
       /\ heard' = heard + n
  /\ UNCHANGED <<host, eof, isAdd, addVars, buffer, mixVars, stale, seeks>>

RunStart ==
  /\ host = "ready" /\ ~eof /\ isAdd
  /\ \E n \in 1 .. MaxChunk : Main!Deliver(n) /\ todo' = n
  /\ cur' = mpos /\ offsets' = {}
  /\ host' = "mixing"
  /\ UNCHANGED <<eof, isAdd, addVars, buffer, hostVars, stale, seeks>>

\* A decoder that is asked once more after its end says so again.
MainFinish == IF meof THEN UNCHANGED mainVars ELSE Main!Finish
AddFinish  == IF aeof THEN UNCHANGED addVars ELSE Add!Finish

RunEnd ==
  /\ host = "ready" /\ ~eof
  /\ MainFinish
  /\ eof' = TRUE /\ out' = NoChunk
  /\ UNCHANGED <<host, isAdd, addVars, buffer, mixVars, heard, stale, seeks>>

Left == pEnd - pStart

\* Mixes the next n samples of chunk_add into p_chunk.
Mix(n) ==
  /\ todo' = todo - n /\ cur' = cur + n
  /\ offsets' = IF n = 0 THEN offsets ELSE offsets \cup {(base + pStart) - cur}

\* Mutant of MixRefill: p_start is not reset.
MixRefill_KeepsStart ==
  /\ host = "mixing" /\ todo > Left
  /\ Mix(Left)
  /\ \E n \in 1 .. MaxChunk : Add!Deliver(n) /\ pEnd' = n
  /\ pStart' = pEnd /\ base' = apos
  /\ UNCHANGED <<host, eof, isAdd, mainVars, hostVars, stale, seeks>>

(* The while loop: chunk_add is used up and filled again.  p_start is reset  *)
(* before input_add is asked, p_end when its chunk has arrived.              *)
MixRefill ==
  /\ host = "mixing" /\ todo > Left
  /\ Mix(Left)
  /\ \E n \in 1 .. MaxChunk : Add!Deliver(n) /\ pEnd' = n
  /\ pStart' = 0 /\ base' = apos
  /\ UNCHANGED <<host, eof, isAdd, mainVars, hostVars, stale, seeks>>

\* Mutant of MixEnd: the cut chunk is returned without draining input.
MixEnd_NoDrain ==
  /\ host = "mixing" /\ todo > Left
  /\ Mix(Left)
  /\ AddFinish
  /\ pStart' = 0
  /\ out' = [ret |-> TRUE, from |-> mpos - mchunk.n, n |-> mchunk.n - todo']
  /\ host' = "ready" /\ heard' = heard + out'.n
  /\ UNCHANGED <<eof, isAdd, mainVars, pEnd, base, stale, seeks>>

\* Mutant of MixEnd: all of the chunk is dropped.
MixEnd_DropsChunk ==
  /\ host = "mixing" /\ todo > Left
  /\ Mix(Left)
  /\ AddFinish
  /\ pStart' = 0
  /\ out' = [ret |-> TRUE, from |-> mpos - mchunk.n, n |-> 0]
  /\ host' = "draining"
  /\ UNCHANGED <<eof, isAdd, mainVars, pEnd, base, heard, stale, seeks>>

\* Mutant of MixEnd: the loop goes on asking.
MixEnd_AsksAgain ==
  /\ host = "mixing" /\ todo > Left
  /\ AddFinish
  /\ UNCHANGED <<host, eof, isAdd, mainVars, buffer, mixVars, hostVars, stale, seeks>>

\* input_add has ended: p_chunk is cut to what was mixed.
MixEnd ==
  /\ host = "mixing" /\ todo > Left
  /\ Mix(Left)
  /\ AddFinish
  /\ pStart' = 0
  /\ out' = [ret |-> TRUE, from |-> mpos - mchunk.n, n |-> mchunk.n - todo']
  /\ host' = "draining"
  /\ UNCHANGED <<eof, isAdd, mainVars, pEnd, base, heard, stale, seeks>>

\* An exception of input_add: what it was to fill is left half updated.
MixThrows ==
  /\ host = "mixing" /\ todo > Left
  /\ Mix(Left) /\ pStart' = 0
  /\ Throw /\ UNCHANGED <<mainVars, addVars, pEnd, base>>

\* Mutant of MixRest: p_start is set to what was used, not advanced by it.
MixRest_SetsStart ==
  /\ host = "mixing" /\ todo <= Left
  /\ Mix(todo) /\ pStart' = todo
  /\ out' = [ret |-> TRUE, from |-> mpos - mchunk.n, n |-> mchunk.n]
  /\ heard' = heard + mchunk.n
  /\ host' = "ready"
  /\ UNCHANGED <<eof, isAdd, mainVars, addVars, pEnd, base, stale, seeks>>

\* The rest of p_chunk comes from chunk_add.
MixRest ==
  /\ host = "mixing" /\ todo <= Left
  /\ Mix(todo) /\ pStart' = pStart + todo
  /\ out' = [ret |-> TRUE, from |-> mpos - mchunk.n, n |-> mchunk.n]
  /\ heard' = heard + mchunk.n
  /\ host' = "ready"
  /\ UNCHANGED <<eof, isAdd, mainVars, addVars, pEnd, base, stale, seeks>>

\* input is read to its end and thrown away, then the cut chunk is returned.
DrainMore ==
  /\ host = "draining"
  /\ \E n \in 1 .. MaxChunk : Main!Deliver(n)
  /\ UNCHANGED <<host, eof, isAdd, addVars, buffer, mixVars, hostVars, stale, seeks>>

DrainEnd ==
  /\ host = "draining"
  /\ MainFinish
  /\ host' = "ready" /\ heard' = heard + out.n
  /\ UNCHANGED <<eof, isAdd, addVars, buffer, mixVars, out, stale, seeks>>

\* An exception of input while it is drained: the cut chunk is lost with it.
DrainThrows ==
  /\ host = "draining"
  /\ Throw /\ UNCHANGED <<mainVars, addVars, buffer, mixVars>>

DecodeRun ==
  \/ RunPlain \/ RunStart \/ RunEnd
  \/ MixRefill \/ MixEnd \/ MixRest
  \/ DrainMore \/ DrainEnd

Next ==
  \/ DecodeInitialize \/ DecodeSeek \/ CallThrows
  \/ DecodeRun \/ MixThrows \/ DrainThrows

Spec == Init /\ [][Next]_vars

\* run goes on until it returns, and the host asks for the next chunk.
FairSpec == Spec /\ WF_vars(DecodeRun)
-----------------------------------------------------------------------------
(* The values of the variables, in every state of the wrapper.               *)
TypeOK ==
  /\ host \in {"opened", "ready", "mixing", "draining", "broken"}
  /\ eof \in BOOLEAN /\ isAdd \in BOOLEAN
  /\ mpos \in 0 .. MaxEnd /\ mend \in 0 .. MaxEnd /\ meof \in BOOLEAN
  /\ mchunk \in [from : Nat, n : Nat]
  /\ apos \in 0 .. MaxEnd /\ aend \in 0 .. MaxEnd /\ aeof \in BOOLEAN
  /\ achunk \in [from : Nat, n : Nat]
  /\ pStart \in Nat /\ pEnd \in 0 .. MaxChunk /\ pStart <= pEnd /\ base \in Nat
  /\ todo \in Nat /\ cur \in Nat /\ offsets \subseteq Int
  /\ out \in [ret : BOOLEAN, from : Int, n : Int]
  /\ heard \in Int /\ stale \in Nat /\ seeks \in Nat

\* The next main sample to be mixed, and the add sample it will be mixed with.
NextMain == IF host = "mixing" THEN cur ELSE mpos
NextAdd  == apos - Left

(* A seek puts the two streams out of step by exactly what was left in       *)
(* chunk_add when it came, and nothing but initialize brings them together   *)
(* again: refilling, cutting chunks and unequal chunk sizes neither add to   *)
(* the skew nor take from it.                                                *)
SkewIsLeftover ==
  (isAdd /\ ~aeof /\ host \in {"ready", "mixing"} /\ NextMain <= AddLen) =>
    NextAdd = NextMain - stale

(* From initialize() on, as long as no seek found samples left in chunk_add, *)
(* every sample of the lossy stream is added to its own remainder, whatever  *)
(* sizes the chunks of the two decoders have.                                *)
MixAligned == stale = 0 => offsets \subseteq {0}

(* The host gets the samples of the main stream in order, none twice and     *)
(* none left out, although chunks are cut where the additional file ends.    *)
InOrder == (host = "ready" /\ out.n > 0) => out.from = heard - out.n

(* The stream ends where the shorter of the two does, not a chunk earlier:   *)
(* the part of a chunk mixed before the additional file ended is delivered.  *)
(* Only input may end it sooner, where it is blind.                          *)
EndsWithShorter ==
  (eof /\ host = "ready" /\ stale = 0) =>
    \/ heard >= Min2(mend, IF isAdd THEN Min2(MainLen, AddLen) ELSE MainLen)
    \/ heard < MainBlind

(* A host that stops seeking and keeps asking for chunks reaches the end:    *)
(* the mixing loop ends with every chunk and the draining loop ends.         *)
PlaysOut == (host = "ready") ~> (eof \/ host = "broken")

(* "this component is to restore the original audio" (input_hybrid.cpp:263): *)
(* each sample of the lossy stream is added to its own remainder, after a    *)
(* seek as well.                                                             *)
Restores == offsets \subseteq {0}
-----------------------------------------------------------------------------
(* What the properties above rest on, as an inductive invariant.             *)

\* Where the two decoders are in each phase of decode_run: mixing needs both, and
\* once the additional file has ended input is drained before run returns.
Phases ==
  /\ host \in {"mixing", "draining"} => isAdd /\ ~eof
  /\ host = "mixing" => ~meof /\ ~aeof /\ cur + todo = mpos
  /\ host = "draining" => aeof
  /\ host = "ready" /\ aeof => meof
  /\ ~isAdd => ~aeof
  /\ isAdd /\ host \in {"ready", "mixing", "draining"} => aend = AddLen

Mixes == isAdd /\ ~aeof /\ host \in {"ready", "mixing"}

\* The streams are apart by what a seek left over, or the main one is past the end of
\* the additional file.
InStep ==
  Mixes =>
    \/ NextAdd = NextMain - stale
    \/ NextMain > AddLen /\ apos = AddLen /\ (stale = 0 => Left = 0)

\* What waits in chunk_add comes right before input_add's position.
BufferIsTail == (Mixes /\ stale = 0 /\ Left > 0) => base + pEnd = apos

\* The host's position follows input's, less the chunk in hand; when input was drained
\* the host has got as much as the additional file holds.
Delivery ==
  /\ host = "ready" /\ ~meof => heard = mpos
  /\ host = "mixing" => heard = mpos - mchunk.n
  /\ host = "draining" =>
       out.from = heard /\ (stale = 0 => heard + out.n >= AddLen)
  /\ host = "ready" /\ meof /\ ~eof =>
       isAdd /\ (stale = 0 => heard >= AddLen)

(* The inductive invariant: the parts above with the properties they carry.  *)
IInv ==
  /\ TypeOK /\ Phases /\ InStep /\ BufferIsTail /\ Delivery
  /\ MixAligned /\ InOrder /\ EndsWithShorter
=============================================================================
