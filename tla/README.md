# TLA+ models of foo_input_sfaad and foo_input_hybrid

The repository holds two decoder components for the foobar2000 player, with the SDK they are
built on. `foo_input_sfaad` decodes AAC in MP4 files. `foo_input_hybrid` decodes an `.m4a`
file and, when a `.tak` file lies beside it, adds to every lossy sample the remainder that
makes it the original one. Both have to hand out *exactly the right samples* after any
sequence of seeks: this is what the models are about.

Paths below are relative to `src/foobar2000/`; `sfaad/` is `foo_input_sfaad/`, `hybrid/` is
`foo_input_hybrid/`. The plug-in is built with stdio (`input_sfaad.cpp:3` undefines
`_FOOBAR2000_H_`), so of each `#ifdef` pair in `faad_dec.cpp` and `mp4read.cpp` the models
follow the stdio half.

## 1. Inventory

| part | code | state | operations | model |
|---|---|---|---|---|
| decoder object | `sfaad/faad_dec.cpp` | `hDecoder`, `decoded`, `sampleId`, `remSamples`, `endSamples` | `init`, `seek`, `run`, `exit` | `FaadDec` |
| frame reader | `sfaad/mp4read.cpp:1444-1529` | `frame.current`, the file position | `mp4read_frame`, `mp4read_seek`, `mp4read_close` | `FaadDec` |
| container parser | `sfaad/mp4read.cpp:75-1440`, `1531-1640` | file position, `g_atom`, the C stack, `mp4config` | `mp4read_open`, `parse`, `moovin`, the atom handlers | `Mp4Parse` |
| plug-in | `sfaad/input_sfaad.cpp` | the decoder object, chunk being filled | `open`, `decode_initialize`, `decode_run`, `decode_seek`, destructor | `InputSfaad` |
| wrapper | `hybrid/input_hybrid.cpp` | two decoders, `chunk_add`, `p_start`, `p_end` | the same | `InputHybrid`, `HybridOverSfaad` |
| contract | `SDK/input.h`, `SDK/input_impl.h` | position, end of stream | `initialize`, `run`, `seek` | `SampleStream` |
| NeAAC library | headers only | overlap with the frame before | `NeAACDecInit2`, `NeAACDecDecode`, `NeAACDecClose` | in `FaadDec`, external |
| time conversion | `../pfc/audio_sample.h:36` | none | `time_to_samples` | in `InputSfaad` |
| PCM conversion | `hybrid/pcm_convert.cpp`, `typeconvert.h` | none | scaling, rounding, clipping | `PcmConvert` |
| opening, info, tags | `hybrid/input_hybrid.cpp:22-113, 183-239`, `sfaad/input_sfaad.cpp:43-110, 183-232` | the decoders looked up, `is_hybrid_add`, `bitrate_add` | `open`, `get_info`, `retag_*`, `decode_get_dynamic_info` | `InputDispatch` |
| tag scripts of the parser | `sfaad/mp4read.cpp:701-1125` | `mp4config.meta` | handlers of `udta`, `meta`, `ilst` | not modelled: reached only if `verbose.tags` is set, and nothing sets it |
| SDK, pfc, WTL wizard, sample component | the rest of `src/` | | | not modelled: vendored |

**How they interact.** The host calls a plug-in's methods one at a time, on one thread.
`InputSfaad` owns a `faad_dec`, which owns an `mp4read`; calls are synchronous and nothing is
called back, except that `open` of either plug-in walks the decoders registered with the host
and opens one of them for the same file. The wrapper opens two decoders as the host would and
forwards to them. There is no locking and no persistence, so the hard behaviours are not races
but *protocols*:

- a frame is given to the decoder one call before its samples come out, and three counters
  (`decoded`, `sampleId`, `remSamples`) and a file position have to agree on where that is,
  through seeks, undecodable frames and seeks that fail half way;
- machine integers: `seek` relies on unsigned differences wrapping below zero;
- chunks of two decoders have unequal sizes, so leftovers cross calls, seeks and both ends;
- the parser is recursive over one shared script pointer, gives up tracks half way and
  continues, and must release everything from any depth;
- initialize and seek may come at any time, again and again;
- either plug-in accepts the files of the other, and both look for a third decoder;
- restoring the original relies on the rounding of floating-point sums.

**What makes each part correct.** Decoder object: the samples handed out are those asked for,
none is built across a seek, the end is reported at the end, every decoder opened is closed.
Plug-in: it implements the SDK's contract; its chunks have room; subsongs join. Wrapper: each sample
meets its own remainder, nothing is lost or doubled at the ends, and what the host is told
covers both files. Conversions: the nearest number, clipped, and the original to the last bit.
Opening: it ends, with the decoder the remainders were made for, or fails for a reason. Parser:
it finds the first sound track whatever surrounds it, and the frame table it hands over is sound.

## 2. Modules

```
FaadDec       <--EXTENDS--  InputSfaad, FaadDecProofs
InputSfaad    <--EXTENDS--  MC_InputSfaad, HybridOverSfaad, SfaadProofs (with FaadDecProofs)
InputHybrid   <--EXTENDS--  MC_InputHybrid, InputHybridProofs
Mp4File       <--EXTENDS--  Mp4Parse              (files, and the reference)
Mp4Parse      <--EXTENDS--  MC_Mp4Parse, Mp4ParseProofs
HybridOverSfaad  <--EXTENDS--  MC_HybridOverSfaad, HybridOverSfaadProofs (with SfaadProofs)
InputDispatch <--EXTENDS--  InputDispatchProofs
PcmConvert    <--EXTENDS--  PcmConvertProofs
NatLemmas     <--EXTENDS--  all modules of proofs but FaadDecProofs (HybridOverSfaadProofs by SfaadProofs)

InputSfaad       --INSTANCE-->  SampleStream      (implements it)
InputHybrid      --INSTANCE-->  SampleStream      (twice: input and input_add)
HybridOverSfaad  --INSTANCE-->  InputHybrid       (uses its steps and implements it)
```

**FaadDec.** The variables are the fields of `faad_dec`, the reader's `current`, and what the
code relies on in the NeAAC decoder: has it decoded before (`primed`) and which frame's overlap
it holds (`prev`). Audio is abstracted to *sample numbers*: given frame k, the decoder returns
the samples of frame k-1, a whole frame late, and nothing for the first frame ever. Thereby a
"wrong sample" is a number that does not match. `run` is one call and one step, split by how
it returns: `RunRefused` (end), `RunUnread` (no frame), `RunNull` (not decodable),
`RunDecoded` (with or without an error code). `seek` is `SeekTo` or `SeekPast`; its arithmetic
goes through `Wrap` (uint64_t), `UInt` (32-bit product) and `Long` (conversion to long), with
2^32 and 2^64 scaled down in TLC and arbitrary in the proofs. `init` has three outcomes,
`exit` one. The variables `pos`, `displaced`, `lost` are history: what the caller asked for;
so are `opens` and `closes`, the calls of `NeAACDecOpen` and `NeAACDecClose`.

**InputSfaad** extends it by the plug-in. Time is in ticks, `TicksPerSample` of them to a
sample, so that rounding matters. `decode_run` is a loop, one step per pass (`RunFrame`), and
the variable `host` is the state of the protocol. Assumed of the host, as `SDK/input.h`
demands: `initialize` before `run` or `seek`, no `run` after it returned false, nothing but the
destructor after an exception.

**SampleStream** is what an `input_decoder` promises: positioned, it hands out the samples that
follow, none left out or repeated, none past the end, then says so. The parameter `Blind` is a
concession: positions below it may report the end at once (finding 2 below).

**InputHybrid** has two instances of `SampleStream` for `input` and `input_add` and models
`decode_initialize`, `decode_seek` and `decode_run`. `chunk_add` is a number and two indices.
A run is a chunk of `input` (`RunStart`), refills of `chunk_add` in the middle of it
(`MixRefill`), the rest (`MixRest`), or, when the additional file ends, the cut chunk (`MixEnd`)
and the reading out of `input` (`DrainMore`, `DrainEnd`). Either decoder may throw wherever it is
called (`CallThrows`, `MixThrows`, `DrainThrows`), after which only the destructor follows. `offsets` collects, for each pair
mixed, add sample minus main sample: it has to be {0}.

**HybridOverSfaad** puts the plug-in in the place of `input`: it extends `InputSfaad`, so that each
call of `input` is that of the plug-in, pass by pass over a file with damaged frames, and takes
the wrapper's own steps (`MixRefill`, `MixEnd`, `MixRest`, `AddPosition`) from an instance of
`InputHybrid` whose main stream is mapped to the plug-in's state. That instance is also the
abstract specification it is compared with. Beside `offsets`, which compares positions, `skews`
compares what is added with the *content* of the sample it is added to, which is what a dropped
frame changes.

**InputDispatch** is `open` of both plug-ins and all methods of the host's object. A call of `open`
is a frame on `opening` with what it has still to do, because `svc->open` may call `open` of the
other plug-in; the registered decoders come in any order, any of them may refuse the file, and
another program may delete the `.tak` file at any time. The fields of the objects hold where
their value came from, or `Unset`; each method says which fields it reads.

**PcmConvert** does arithmetic in floating-point formats of any width: a number is an integer in
units of a fine grid, `Fl` rounds the exact result of each operation to the format, and `Bits`
and `FromBits` are the casts of `typeconvert.h`. `Flip` is the `^ 0x80` by which samples of 8 bits
(`Byte`) are unsigned bytes outside (`pcm_convert.cpp:81, 115`). Of the overloads that call another
one, `convert_to_float(int64_t)` is an operation of its own (`OfLong`), because it rounds twice;
`convert_to_int64(float)` and `convert_to_double(int32_t)` are exact before they call the other, so
their arguments are among that one's. The constants of the code (98304.0f, 384.0f,
805306368.0, 12582912.0f, ...) are written by what they are, three halves of a power of two, so
that they go with the widths. The model assumes that each result is rounded, as in the release
build (`/fp:precise`, SSE2); `pcm_convert.h:3` says so too. The debug configuration
(`foo_input_hybrid.vcxproj`, `/fp:fast`, no instruction set) gives no such guarantee.

**Mp4Parse** is the interpreter of atom scripts. The scripts are those of the code, opcode for
opcode; `g_atom` is `script` and `ip`; the recursion of `parse` and `moovin` is the variable
`stack`. A file is a function from offsets to atom headers plus what the handler reads there;
for an atom cut off by the end of the file, any of several values, because the handlers do not
check their reads and use variables left unset. `FREE`d and allocated things are in `held`.
**Mp4File** says what files are, and, of their atoms as parents and children alone, which should
open and what the decoder should be told (`Plays`, `Told`): it knows no script, no search and no
position. An atom is a child when it lies within the parent and in no other atom there (`Direct`).
`Regular` are the files it speaks of: whole ones, whose atoms nest and follow each other without gaps.
Three of its conditions are the parser's own limits: an atom of a name that is looked for holds
something (a header that ends with its parent is not read), tracks are not within tracks, and what
follows an `mp4a` atom at once is not an `esds` atom (the search in `mp4a` runs 28 bytes too far).
**MC_Mp4Parse** generates the files from trees.

The frame table has a bound of its own, `TablesFit`. `stszin` reads the number of frames, a 32-bit
number, refuses it when one more is zero (`Countable`; `mp4read.cpp:638`) and gives `malloc` four times
one more, in 32 bits (641-642). The files modelled have tables whose size in bytes has 32 bits, less
than 2^30 - 1 frames, or the refused number of frames; longer tables are not modelled.

`PROJECT.json` gives for each definition the lines it translates.

## 3. Runs

Passing runs:

- **faad_dec** (`FaadDec.cfg`): the decoder object alone, driven by a caller without manners:
  any position and any end in 0..12, at any time, also after failures. Five frames of two
  samples, one undecodable (`Bad`), one with an error code (`Soft`). Checks `Bookkeeping`,
  `InPlace`, `CleanOverlap`, `EndsAtEnd`, `NothingHeld` (after `exit` every decoder opened has been
  closed, however `init` ended, and what is closed twice is a refused one), and the inductive
  invariant `IInv` the proofs use; a part of it is `SeekExact`, that the arithmetic of `seek` comes
  to what it would be without widths. The bound `MaxLost` = 8 allows several failed seeks; positions reach past the
  table, and every interval of the two-sample frames starts, ends and is cut inside a frame.
- **sfaad** (`Sfaad.cfg`): the plug-in over eight readable frames of two samples, one undecodable,
  one with an error code, the last frame of the table cut off. Refinement: `IsSampleStream` is
  `SampleStream!Spec` with the position less what is in the unfinished chunk, for each step after
  which no frame has been dropped since the last positioning. `ChunkFits` is how far past `bufsize` a
  chunk can go: less than what one frame yields (`FrameYield`). `SubsongsJoin`: three subsongs of 2.5, 2.5 and 9.5 samples, so bounds fall between
  samples and inside frames, and the last one contains the damaged frames. `EofExplained` says why
  a stream may end early, `PlaysOut` (under fairness) that it ends. Up to four initialize/seek
  calls: enough for a seek after a seek after decoding in two subsongs; the properties relate at
  most two repositionings.
- **hybrid** (`Hybrid.cfg`): chunks of one to three samples for either decoder, chosen anew each
  time; two subsongs, the additional file two samples shorter than the main one, three
  repositionings. Both decoders may throw. `SkewIsLeftover` says by exactly how much a seek puts the streams out of step,
  `MixAligned` that nothing else does; `InOrder`, `EndsWithShorter`, `PlaysOut`, and the
  inductive invariant `IInv` of the proofs.
- **hybrid_over_sfaad** (`HybridOverSfaad.cfg`): nine frames, two undecodable and one with an error,
  two subsongs, a `.tak` file shorter than the main one, chunks of up to four samples, three
  repositionings. `IsHybrid`: until a frame is dropped, and again once repositioned, every step is
  a step of `InputHybrid`, so what that assumes of its input holds of the plug-in. After a dropped
  frame `SkewExplained` bounds what goes wrong: remainders are off by the frames dropped since,
  and by what a seek left (finding 4). `EndIsFinal` names the one way the end of the additional
  file is not the end of the mixing. `HPlaysOut`: the host gets to the end all the same.
- **input_dispatch** (`InputDispatch.cfg`): two other decoders, either plug-in installed, each
  order of registration, each reason, each subset of decoders that refuse the file, the `.tak` file
  there, missing, unreadable or deleted on the way; then any sequence of the methods valid for the
  reason, with up to two commits. `NeverThroughItself`: the plug-ins never open each other in a
  circle. `OpenExplained`: with a `.tak` file it is `input_sfaad` that decodes, and all the
  reasons for which a file another decoder could read is refused. `UsesWhatIsSet`: no method uses
  what was not opened or set, but for `bitrate_add` before `get_info`. `InfoExplained`: the host
  is told of both files together, and of the tags it has written. More decoders would only
  repeat the two there are: which of them comes first is all that counts.
- **pcm_convert** (`PcmConvert.cfg`): `float` with 5 bits of mantissa, `double` with 8, words of 7 and
  12 bits, samples of 2, 4 and 6 bits; *every* number of the format in the range a function's
  comment gives and every word, so all ties, limits and both signs occur. The relations between
  the widths that the code needs are in `PcmAssumption`, and those of the code satisfy them
  (mantissas of 23 and 52 bits, words of 32 and 64, shifts of 15 and 31, the split at 32, samples of
  8, 16 and 24 bits); the samples of 2 bits are the unsigned bytes. `ClipsToWidth` and `RoundTrip`
  relate the words to the samples they stand for (`Meant`), which for bytes is a subtraction here and a
  flipped bit in the code. `NearestOfInteger` covers `convert_to_float(int64_t)`, too: its result is
  the nearest float of the nearest double, and another than the nearest float only if that double is
  `Midway` between two floats. `RestoresExactly` puts scaling and adding together: whatever the lossy
  sample, beyond full scale too, lossy plus remainder is the original sample to the last bit.
- **mp4_parse** (`Mp4Parse.cfg`): 428 files. Audio tracks with any one atom missing, children in
  reversed order, padding before each atom, any one value refused by a handler, the number of frames that cannot be counted among them; up to two tracks
  that are not sound before; `mvhd` after the tracks, `moov` before `ftyp`, parts missing; one
  two-track file cut off at every header and in the middle of every header. `malloc` and `fopen`
  fail at any time. `OpensFirstSound` compares the outcome with the reference in `Mp4File`, both
  ways; `ScriptInStep`, `OnAtoms`, `TableSound`, `Released`, `Terminates`. One thing is odd at a
  time; the parser has no memory beyond script, stack and position, so independent oddities meet
  only through these, which `ScriptInStep` and `OnAtoms` pin down. U32 is 64 here, so that the
  sum of two frame sizes overflows.

Runs that show a disagreement of the code with what the repository says (`findings`):

1. **faad_close**: `faad_dec.h:14` asks for `exit` before destruction. If `NeAACDecInit2`
   refuses the stream, `init` closes the decoder (`faad_dec.cpp:36`) without clearing the
   pointer and `exit` closes it once more.
2. **sfaad_restart**: `SDK/input.h:48-49` allows `initialize` again and again. Positioned in the
   first frame after something was decoded, `decoded` becomes minus one frame, modulo 2^64, and
   `decoded >= endSamples` (`faad_dec.cpp:92`) ends the stream at once.
3. **sfaad_chunk_room** (`SfaadChunkRoom.cfg`): `SDK/audio_chunk.h:77` says a chunk never holds more
   than its buffer. With implicit SBR the decoder doubles the rate and returns 2048 samples a frame,
   all of which are handed out (`faad_dec.cpp:124-125`), while `framesize` stays 1024: `decode_run`
   allocates `bufsize + framesize` (`input_sfaad.cpp:143`), too little for a chunk that begins
   within a frame, as after a seek.
4. **hybrid_restores**: `decode_seek` does not empty `chunk_add` (`input_hybrid.cpp:177-182`), so
   after a seek remainders are added to samples that are not theirs until the next `initialize`.
5. **pcm_long** (`PcmLong.cfg`): `typeconvert.h:5` guarantees all conversions of the file to be
   correct. `convert_to_float(int64_t)` (187-191) rounds to double and then to float: 2^54 + 2^30 + 1
   becomes 2^54, and not 2^54 + 2^31, which is nearer.

The other properties are stated so that they hold of the code as it is: where a finding limits
one, the limit is in its statement (`Wrapped`, `stale`, `Blind`, `EndsWithHandler`, the exceptions
of `EndIsFinal` and `UsesWhatIsSet`).

Deadlock checking is off in all runs, because the systems do stop: after `exit`, after an
exception, after `mp4read_open` or a failed `open` has returned, after the one call of
`PcmConvert`, or at the bound on repositionings.

**Fairness.** `FairSfaadSpec` and `FairSpec` of `InputHybrid` assume weak fairness of the pass of
the decoding loop (a called function runs on the host's thread until it returns) and of the
host's next call of `run` (`PlaysOut` is about a host that keeps asking); `HFairSpec` of
`HybridOverSfaad` assumes it of `decode_run`'s steps taken together, since the two decoders run on
one thread. Initialize, seek and
the destructor are not fair; the number of seeks is bounded. `Mp4Parse` assumes weak fairness of
its next step, since `mp4read_open` is one call.

Each property has a mutant, a plausible slip at one place of the code, which breaks it.

## 4. Proofs

`FaadDecProofs` holds theorems about `FaadDec` for every frame size, table, number of readable
frames, set of damaged frames, bound and width of the integers allowed by `FaadAssumption`:
sizes are positive where the code divides by them, `Avail <= Ents`, and the longest time line
with the largest position and a few frames fits a signed 32-bit word (`2 * (...) < U32`), without
which the products in `seek` overflow and nothing can be said.

| theorem | states |
|---|---|
| `TypeCorrect` | `Spec => []TypeOK` |
| `Released` | `Spec => []NothingHeld` |
| `SeekIsExact` | `Spec => []SeekExact` when `OutSize = FrameSize` |
| `Inductive` | `Spec => []IInv` |
| `BookkeepingHolds` | `Spec => []Bookkeeping` |
| `InPlaceHolds` | `Spec => []InPlace` |
| `CleanOverlapHolds` | `Spec => []CleanOverlap` when `OutSize = FrameSize` |
| `EndsAtEndHolds` | `Spec => []EndsAtEnd` |

*The argument.* `InPlace` alone is not inductive: that the next samples are the right ones
depends on what is still to be skipped and on where the reader is. `IInv` adds:
`Lifecycle` (who holds what in each phase; a new object has not decoded), `Bounds` (no field
comes near the word), `Bookkeeping` (`decoded` is frame `sampleId`'s start less the delay and
what failed seeks lost, modulo 2^64), `InStep` (`current * FrameSize - Delay + remSamples` is
the caller's position), and `OverlapReady` (with less than a frame to skip, the decoder holds
the neighbouring frame). `Lifecycle` also counts: what was opened and closed in each phase, which is
what `Released` follows from. Seeking establishes `InStep` through `Bookkeeping`: the difference at
the head of `seek` is minus the delay, and `Conversions` carries it through the three integer
types. A frame decoded keeps it by moving both sides by one frame; it may fail only when the
chunk was cut at `endSamples`, and then `decoded > endSamples`, so that `run` refuses until the
next seek. An undecodable frame moves `current` and `displaced` together.

First `Shape` (`TypeOK`, `Lifecycle`, `Bounds`) is proved of all constants, then the rest
(`Steady`) under `OutSize = FrameSize`, action by action. The lemmas before them are the
arithmetic: remainders (`ModOnce`, `DivMod`), products (`MulMono`, `MulSucc`), conversions.

`EndsAtEnd` needs more.
`InStep` says where the caller is while frames are decoded, but not why decoding stopped. `Ending`
says it for each way it can stop: the caller is still in step with the reader and `sampleId` is not
ahead of it; or all that was asked for has been handed out or dropped (the frame was cut at
`endSamples`: `KeptReaches`); or the seek went beyond the table and the readable frames; or
`decoded` has wrapped. Seeks choose one of them, undecodable frames keep it because reader and
`displaced` move together, and each leads to what `EndsAtEnd` claims when `run` refuses.

`InputHybridProofs` holds theorems about `InputHybrid` for decoders and subsongs of any length
and chunks of any size. `HybridAssumption` asks that lengths are natural numbers, that the
additional file and all subsongs lie within `MaxEnd` (a bound of any size), and that a chunk may
hold at least one sample. `MainBlind` is the `Blind` of the main decoder, any natural number: the
wrapper is right over a main decoder that may report the end at once near its start. Of the two
decoders only their contract, `SampleStream`, is used.

| theorem | states |
|---|---|
| `TypeCorrect` | `Spec => []TypeOK` |
| `Inductive` | `Spec => []IInv` |
| `SkewIsLeftoverHolds` | `Spec => []SkewIsLeftover` |
| `MixAlignedHolds` | `Spec => []MixAligned` |
| `InOrderHolds` | `Spec => []InOrder` |
| `EndsWithShorterHolds` | `Spec => []EndsWithShorter` |
| `ChunksRunOut` | every step of `Spec` but a positioning goes down in a well-founded order |

*The argument.* `offsets` grows by the distance of the two streams when samples are added, so
`MixAligned` needs to know that distance in every state, not only when something is mixed:
`InStep` says it is what a seek left in `chunk_add`, or else the main stream is past the end of
the additional one. `BufferIsTail` ties the chunk's numbers to `input_add`'s position, `Phases`
tells which decoders are alive in which part of `decode_run`, and `Delivery` relates the host's
position to `input`'s: equal between calls, a chunk ahead while mixing, and, once `input` has been
drained, at least the length of the additional file. The last is what `EndsWithShorter` follows
from. Each action has a lemma, and the two that reposition share one.

`ChunksRunOut` is the safety half of `PlaysOut`, for every length: `decode_run` cannot go on for ever.
Its measure `ToPlay` is compared lexicographically: whether the host has given up, what is left of the
main stream, what is left of the additional one, and the part `decode_run` is in (mixing, draining,
between calls, ended). A chunk of `input` takes off the second number, a refill of `chunk_add` the
third, everything else the fourth. That `Below` (in `NatLemmas`) is well-founded is the library's
theorem about such products. `PlaysOut` needs, beside it, only that a host keeps calling.

`SfaadProofs` carries this to the plug-in, under `Plain`: a frame of the time line is a frame of
the decoder, the rates agree, and `Album`, the bound `MaxPos` lets every subsong be played.
`MC_InputSfaad` assumes `Plain` of the instances whose rates agree, so TLC confirms it for these.

| theorem | states |
|---|---|
| `ChunkFitsHolds` | `SfaadSpec => []ChunkFits`, without `Plain` |
| `RoomSufficesHolds` | `SfaadSpec => []RoomSuffices` when `SameRate \/ OutSize <= FrameSize`, without `Plain` |
| `EofExplainedHolds` | `SfaadSpec => []EofExplained` |
| `ImplementsSampleStream` | `SfaadSpec => IsSampleStream` |
| `SubsongsJoinHolds` | `SfaadSpec => SubsongsJoin` |
| `ChunksRunOut` | every step of `SfaadSpec` but a positioning goes down in a well-founded order |

*The argument.* While a decoder lives, `SInv` keeps the invariants of the decoder object, and
`Track` (no seek has failed yet, since an exception ends everything: `lost = 0`; unless a frame was
dropped the reader is at the frame `sampleId` counts), `Building` (the chunk being filled ends at
the caller's position, within the subsong and the readable frames) and `Hosted` (what the protocol
knows between calls). `RunSays` is what one `run` adds to a chunk, proved of each of its outcomes;
that what it hands out ends before `endSamples` and within the readable frames follows from
`InPlace`, `Bookkeeping` and `Track` together. The step simulation is then by cases: initialize
and a seek that succeeds are `Position`, the last pass of a call is `Deliver` of the chunk or
`Finish` (`NothingLeft`, from `EndsAtEnd`; `NotPast`: this host does not ask again after the end),
everything else a stutter. For `SubsongsJoin`, `AtEnd` says that `endSamples` is the rounded sum of
the subsong's index throughout, that the caller is never beyond it, and at it once `run` has
returned false; only `decode_initialize` goes to another subsong. That the sums `Until` are natural
numbers that grow is a fact about a recursive function (`UntilSays`). The library's induction
theorems cannot be used for it, but its theorem that `<` on the natural numbers is well-founded
speaks of sets only: `NatLemmas` derives from it induction over a set and, by that, that a recursion
has a solution (`Defined`).

`ChunkFitsHolds` and `RoomSufficesHolds` do not need `Plain`. Their invariant, `RoomInv`, knows of the
decoder's fields only that they are integers (`Loose`); `Handed` bounds what one `run` hands out by
`FrameYield`, and a pass begins below `bufsize`. So the chunk ends below `bufsize + FrameYield`, within
the room unless the rate changes: with the run `sfaad_chunk_room`, implicit SBR is exactly the case in
which it does not suffice.

`ChunksRunOut` does not need `Plain` either: it is for every file, rate and number of samples a frame. A pass of
the loop either has read a frame (`RunReads`), of which the reader's table has finitely many
(`Reading`), or it is the last of its call; and a call that has read none returns an empty chunk, which
is the end. So frames that cannot be decoded, or that yield no samples, cannot keep `decode_run` busy.

`HybridOverSfaadProofs` is about the two plug-ins together, under `Plain` and for every additional
file.

| theorem | states |
|---|---|
| `SkewExplainedHolds` | `HSpec => []SkewExplained` |
| `EndIsFinalHolds` | `HSpec => []EndIsFinal` |
| `ImplementsHybrid` | `HSpec => IsHybrid` |
| `HybridRunsOut` | every step of `HSpec` but a positioning goes down in a well-founded order |

*The argument.* The wrapper calls the plug-in as any caller may, and also again after it has returned
false, while the chunk is drained; so the plug-in's invariants are proved of `AnyNext`, which allows
that. `HInv` adds what relates the two. `Ended`: after the end `input` has nothing more, unless a frame
was dropped. `Final`: after the end of the additional file `input` has ended as well, or has resumed
behind its end, which takes a dropped frame. `Apart` is the distance of the two streams in
*positions*: what a seek left in `chunk_add`. `Shifted` is how far the *content* of the chunk is ahead
of its positions: the frames dropped before each sample, at most those dropped since the last
positioning. A sample mixed adds both, which is `SkewExplained`. In the step simulation a pass of the
plug-in's loop within a call is a stutter; the last pass is `RunStart`, `RunEnd`, `DrainMore` or
`DrainEnd` of `InputHybrid`, where `AppendedSays` and `NothingLeft` of `SfaadProofs` supply what
`InputHybrid` assumes of its main stream; the mixing is the instance's own.

`HybridRunsOut`, again without `Plain`, is not a consequence of the two theorems of the parts: over a
file with damaged frames `input` is no `SampleStream`, it gives chunks again after it has said that it
has ended. But each of them costs a frame, too, so the frames left, then the samples left of
`input_add`, then the part of the two nested loops (`HTurn`: a chunk that has begun to fill will still
be mixed or drained, an empty one only ends) go down.

`Mp4ParseProofs` is about the container parser, for every file: any atoms of any size at any offset,
any values read from them. It asks of the constants what `Mp4Assumption` (in `Mp4File`) says: sizes are
natural numbers and files are shorter than `INT_MAX`; and, for `StepsRunOut`, `WholeHeaders`: a header
that can be read is within the file. TLC evaluates both for the 428 files,
and `TablesFit`, which no proof needs.

| theorem | states |
|---|---|
| `TypeCorrect` | `Spec => []TypeOK` |
| `ScriptInStepHolds` | `Spec => []ScriptInStep` |
| `ReleasedHolds` | `Spec => []Released` |
| `TableSoundHolds` | `Spec => []TableSound` |
| `OnAtomsHolds` | `Spec => []OnAtoms` under `TreesOfAtoms` |
| `OpensFirstSoundHolds` | `Spec => []OpensFirstSound` |
| `StepsRunOut` | every step of `Spec` goes down in a well-founded order |

*The argument.* `ScriptInStep` says nothing of a call that has just returned, and nothing of what
`moovin` will go back to. `IInv` adds both: `Calls` says where `moovin`'s call is on the stack (second,
called by the parse of `moov`, with the place behind it to return to), and `Pace` says where the script
is after a call has returned `ERR_OK`: behind the child's group, one group deeper than the stack, at a
name or at the end. `ScriptForm` is what this relies on in the tables, checked at each of their places
(a handler is followed by no second one, a group begins with a name, ...), and `GroupNext` counts
groups from one opcode to the next with the cardinality theorems. `Released` speaks of the two ends of
`mp4read_open` only; `Holding` strengthens it to every state between: the `FILE` is held from `fopen`
until the single error exit, which a failure at any depth comes back to, and the frame table and the
buffer are taken only in between.

`TableSound` is about the numbers `stszin` adds up modulo 2^32.
`OffsetsSays` gives the recursive function its equations, as `UntilSays` does. A sum that is not below
the one before has not wrapped, so that the difference is the frame's size, or is smaller (`Remainder`),
and `LargestSays` bounds it. `Tabled` follows such a table to the open file: one that overflows is held, too,
but its `ERR_FAIL` goes through every call of `parse` and `moovin` to the error exit, and no handler is
called any more. Of the file it asks, beside `Mp4Assumption`'s sizes, that what `stszin` reads are natural
numbers.

`OnAtoms` needs files that are trees. `TreesOfAtoms` says so of offsets, without a tree: what follows an
atom is an atom or the end of the file (the end of a last child is that of its parent, too), and so is the
place where its children begin, which for `stsd` and `mp4a` is behind fields of 8 and 28 bytes. Truncated
files are among these, and `MC_Mp4Parse` assumes it, so TLC confirms it for the 428 files. `Placed` then
names every place from which a search may start: where it is, the children of each call on the stack,
the tracks of `moovin`, and, after `ERR_UNSUPPORTED`, the position that the handler has left. That a
search runs on behind its parent does no harm: it stays on atoms.

`OpensFirstSound` is the parser's whole purpose, and the only hypothesis is the one it states itself:
the file is `Regular`. The reference asks for all atoms of a track at once; the parser asks one place of
the script after the other, from whatever position it has come to, and for tracks it gives up and
goes on. The invariant `Opening` says how far it is, in the reference's terms, and has these parts:

- `Searches`: a search for a name has so far passed over no atom of that name among the children it
  is to look at (`Seeking`), and will meet none elsewhere although it may run on behind the parent
  (`Region`). So what it finds is the first child of that name (`SearchHits`), and when it finds
  nothing there is none (`SearchMisses`).
- `TrackSays`: the track on the stack is the first that is not passed over (`Candidate`); every place
  of the script before `ip` asks for something the track has, or for a value that is accepted
  (`Gone`); `mp4config` holds what these places' handlers read in *this* track (`Learnt`: what an earlier
  track has left is overwritten before it is used); and each call on the stack is among the children of
  the atom its level of the script stands for (`Descended`).
- `Returns` with `Resumes`: what a return means for the file. After `ERR_UNSUPPORTED` the position is
  behind the handler atom, within the track; a search for the next track from there misses none,
  because tracks are not within tracks.
- `Heads`, `Untabled`: what is found outside the tracks, and that no frame table exists before a
  sound track is parsed to its `stsz`.

The script of a track is known place by place (`Ops`, `Names`, `Ranks`), and `CompleteIsMet` and
`PassedIsUnmet` say that the reference's `Complete` and `Passed` are what its 30 places between the track
and its end ask for. So a place that is not met refutes `Plays` (`UnmetFails`), and reaching `STOP` at the
track's own level proves it (`GoneIsComplete`, `LearntIsTold`). Two sums meet in this: the reference adds
sizes without a limit, the code modulo 2^32, and `OffsetsAreSums` shows that the overflow test of
`stszin` is exact and the tables agree when it passes. The invariant was model-checked on the 428 files
before it was proved.

`StepsRunOut` says that opening comes to an end, for any file, regular or not: `Measure` goes down with
each step. This is not obvious of the code: `parse` seeks back to the children of an atom for every name
it looks for, `moovin` starts the script anew for each track, and sizes may be smaller than a header, so
neither the position nor the script's goes one way. The five numbers, the first counting most, are the
parts of `mp4read_open` that are left (`Part`), the file ahead of the track (`Tracks`), the opcodes left,
the calls that are still to return, and the file ahead of the search. A search step takes off the last (a
size below 8 is refused), a return the fourth, an opcode the third. A track that is given up takes off
the second, and for this the position at which it is left must be behind its atom: the invariant `Going`
says that all positions within a track are. An error takes off the first.

`InputDispatchProofs` is about `open` and the methods, for any set of other decoders, registered in any
order, of which any refuse the file, and any fate of the `.tak` file.

| theorem | states |
|---|---|
| `NeverBack` | `Spec => []NeverThroughItself` |
| `OpenIsExplained` | `Spec => []OpenExplained` |
| `SetBeforeUse` | `Spec => []UsesWhatIsSet` |
| `InfoIsExplained` | `Spec => []InfoExplained` |

*The argument.* `Frames` says that one `open` is under way, or that of `input_sfaad` within that of
`input_hybrid`, which then has a `.tak` file and only its last step to do: that is `NeverThroughItself`.
How far `open` is decides which fields hold a decoder, and of which kind (`Holds`, by `HasMain`, `HasAdd`,
`HasReader`, `HasFdec`), so that a method valid after it finds what it uses; `Noted` does the same for
the fields the methods set. `Refused` carries the reason of a failure. Which entry is found first is a
minimum of indices (`FirstSays`, by `Least` of `NatLemmas`).

`PcmConvertProofs` is about the conversions, for formats, words and samples of any width and every
argument, so also for the real `float` and `double`, of which TLC could not enumerate the arguments. The
assumption is `PcmAssumption`: which width must be larger than which other (the shift and what it
leaves of a word must each fit the mantissa, the split too, a narrow sample is below the mantissa and
the wide one is all of it with its hidden bit, ...), and that the grid is at least as fine as `double`
is wide; it may be as fine as the smallest number the program meets.

| theorem | states |
|---|---|
| `ScalesToStepHolds` | `Spec => []ScalesToStep` |
| `RestoresExactlyHolds` | `Spec => []RestoresExactly` |
| `ClipsToWidthHolds` | `Spec => []ClipsToWidth` |
| `RoundTripHolds` | `Spec => []RoundTrip` |
| `RoundsToIntegerHolds` | `Spec => []RoundsToInteger` |
| `NearestOfIntegerHolds` | `Spec => []NearestOfInteger` |

*The argument.* The functions keep no state, so the inductive step is the whole of it: what one call
returns. The prover knows neither powers nor products of two variables. `PowerStep` gives the recursive
function `Pow2` its equations, by `Defined` of `NatLemmas`, and `PowerSum`, `PowerMono` and `Apart` the
laws used. `Rounds(v, s, j)` says without division that `j` steps `s` are nearest to `v`, ties to even;
there is exactly one such `j`, it is the quotient of `Nearest`, and it keeps under shifts by an even
number of steps, under negation and scaling. The rounding of the processor is then one of four facts:
`FlExact` (a number of the format stays), `FlNear` (between `2^e` and `2^(e+1)`, limits included, it
rounds to `2^(e-m)`), `FlNegative`, and `FlUnit`, the two together for a sum with one of the constants,
which leaves the argument rounded to the unit wanted. The sum is between the constant's neighbouring
powers of two because it is three halves of one, or, for `ByTop` and `OfTop`, a power to which only a
number of the same sign is added: `MidSum`, `TopSum`. `BitsUnit` then reads the integer off the bits.
In `SplitSays` the upper part is `v` divided by `2^s` and rounded, the difference is exact, and the
lower part is rounded with its own tie rule; the two quotients add up to the one of `v` because the
first is a whole number of steps of the second. `RestoreSays` needs of the remainder only that it fits
the width: its sum with the scaled sample is a multiple of the step, within full scale, and therefore a
number of the format. `OfLong` is two such roundings; that the second one goes wrong only from a double
that is `Midway` is `TwiceSays`: a number that is rounded to a neighbouring multiple of the finer unit
stays on the same side of every midpoint of the coarser one, unless it lands on it.

Only model-checked: `PlaysOut`, `HPlaysOut` and `Terminates`, which are liveness under fairness and out
of the provers' reach. What is left to TLC of them is that a fair step is possible as long as the end
has not come (`ENABLED`); that there are only finitely many such steps is proved for every value of the
constants (`ChunksRunOut`, `HybridRunsOut`, `StepsRunOut`). Every other property of a passing run is a
theorem.

## 5. Not modelled, and why

- Sample *values* in the decoders: there a sample is its number; values are `PcmConvert`'s subject.
- Files whose decoder returns more samples a frame than `framesize` (implicit SBR): `OutSize` and
  `SameRate` are parameters, `TypeOK`, `NothingHeld` and `ChunkFits` hold for all their values and
  `RoomSuffices` is refuted for some, but the positional properties are about `OutSize = FrameSize`.
- Frame tables of 2^30 - 1 frames or more, whose size in bytes has more than 32 bits (`TablesFit`).
- Atom sizes that contradict each other or the file's offsets beyond 2^31, and frames spread over
  several chunks (`stcoin` reads the first offset only).
- The figures in `get_info` and `decode_get_dynamic_info` (lengths, bit rates, the frame sizes they
  are computed from) and the content of tags: `InputDispatch` models which decoder they come from.
- Decoders of a different number of channels in the two files: samples are counted over all
  channels, and the files are made from one recording.
- A seek beyond the end of a subsong throws (`input_sfaad.cpp:175`), where `SDK/input.h:67` wants
  the next `run` to report the end: the step is modelled (`DecodeSeek`), no property is about it.
- `abort_callback`: the stdio build does not pass it on.
- `unicode_support.c` and the disabled command-line front end.
- The vendored code, which is nearly all of the tree: the SDK and its helpers, pfc, WTL and its
  wizard, the sample component. The project's own program logic is the files of the first seven rows
  of the inventory; what they rely on of the rest is the decoder contract and `time_to_samples`.

## 6. Plan

Order: what decides *which samples come out* first, then what feeds it, then what surrounds it.

1. done: `FaadDec`, `SampleStream`, `InputSfaad`, `InputHybrid`, their runs and their proofs:
   `FaadDecProofs`, `SfaadProofs`, `InputHybridProofs`.
2. done: `Mp4File`, `Mp4Parse`, its run; `Mp4ParseProofs`.
3. done: `PcmConvert`, its run; `PcmConvertProofs`.
4. done: `InputDispatch`, its run; `InputDispatchProofs`.
5. done: `HybridOverSfaad`, its run; `HybridOverSfaadProofs`.
6. done: the outcome of opening, `OpensFirstSound`, for all regular files.
7. done: that opening, decoding and mixing come to an end, as well-founded measures.
8. left: files with implicit SBR (`OutSize` twice `FrameSize`), for which the positional properties
   would have to be restated.
