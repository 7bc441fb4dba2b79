------------------------------ MODULE Mp4Parse ------------------------------
(***************************************************************************)
(* The MP4 container parser of foo_input_sfaad: mp4read_open, the atom     *)
(* interpreter mp4read::parse, moovin and the atom handlers (mp4read.cpp). *)
(*                                                                         *)
(* parse runs a script of opcodes (the creator_t tables) against the file: *)
(* NAME searches an atom from the file position on, DATA calls a handler on*)
(* what it holds, DESCENT looks for the following names among its children,*)
(* ASCENT leaves them.  It calls itself for each child, and moovin, itself *)
(* a handler, calls it for each track, so the C stack is a variable here.  *)
(*                                                                         *)
(* Files are those of Mp4File.  The scripts for tags are not reached:      *)
(* verbose.tags is 0 and nothing sets it.                                  *)
(***************************************************************************)
EXTENDS Mp4File

VARIABLES
  file,         \* the file being opened: which one, and its atoms; never changed
  pc,           \* where mp4read_open is, see PCs
  fpos,         \* position in the file
  script, ip,   \* g_atom: a script and an index into it
  stack,        \* calls of parse and moovin, the innermost last
  ret,          \* what the call that has just ended returned
  conf,         \* mp4config as far as the decoder uses it
  held,         \* what is held: the FILE, frame.data, bitbuf.data
  denied        \* history: fopen or malloc has failed

vars == <<file, pc, fpos, script, ip, stack, ret, conf, held, denied>>

PCs == {"closed", "search", "handle", "enter", "kids", "tracks", "return",
        "buffer", "open", "failed"}

Find(n) == [op |-> "NAME", name |-> n]
Data    == [op |-> "DATA"]
Descent == [op |-> "DESCENT"]
Ascent  == [op |-> "ASCENT"]
Stop    == [op |-> "STOP"]

Script == [
  head |-> <<Find("ftyp"), Data, Stop>>,
  moov |-> <<Find("moov"), Data, Stop>>,
  mvhd |-> <<Find("mvhd"), Stop>>,
  trak |-> <<Find("trak"), Descent, Find("tkhd"),
             Find("mdia"), Descent, Find("mdhd"), Data, Find("hdlr"), Data,
             Find("minf"), Descent, Find("smhd"), Find("dinf"),
             Find("stbl"), Descent, Find("stsd"), Data, Descent,
             Find("mp4a"), Data, Descent, Find("esds"), Data, Ascent, Ascent,
             Find("stts"), Data, Find("stsc"), Find("stsz"), Data,
             Find("stco"), Data, Stop>>]

Op  == Script[script][ip]
Top == Last(stack)

\* A call of parse: the end of its search, the atom it found, where that one's
\* children begin.  A call of moovin: where moov's payload begins, its length, and
\* the place in the script to go back to.
ParseCall(p, max) ==
  [fn |-> "parse", limit |-> p + max, at |-> 0, size |-> 0, kids |-> 0,
   back |-> <<"head", 1>>]
MoovinCall(p, len) ==
  [fn |-> "moovin", limit |-> 0, at |-> p, size |-> len, kids |-> 0,
   back |-> <<script, ip>>]

NoConf == [rate |-> 0, samples |-> 0, channels |-> 0, asc |-> 0,
           offsets |-> <<>>, maxsize |-> 0, mdatofs |-> 0]
Nothing == [file |-> FALSE, table |-> FALSE, buffer |-> FALSE]
-----------------------------------------------------------------------------
Init ==
  /\ \E f \in Files : file = [id |-> f, atoms |-> Atoms[f]]
  /\ pc = "closed" /\ fpos = 0 /\ script = "head" /\ ip = 1
  /\ stack = <<>> /\ ret = "none"
  /\ conf = NoConf /\ held = Nothing /\ denied = FALSE

\* A call of parse from p on, with calls below it: it starts with the search.
Call(calls, p, max) ==
  /\ stack' = Append(calls, ParseCall(p, max))
  /\ fpos' = p /\ pc' = "search"

\* The innermost call returns r.
Give(r) == ret' = r /\ pc' = "return" /\ stack' = Front(stack)

(* mp4read_open: the FILE is opened, the first atom parsed is ftyp.  A reader *)
(* is opened once, so the branch for one that holds a FILE is not reached.    *)
OpenFails ==
  /\ pc = "closed"
  /\ pc' = "failed" /\ denied' = TRUE
  /\ UNCHANGED <<file, fpos, script, ip, stack, ret, conf, held>>

Open ==
  /\ pc = "closed"
  /\ held' = [held EXCEPT !.file = TRUE]
  /\ Call(<<>>, 0, IntMax)
  /\ UNCHANGED <<file, script, ip, ret, conf, denied>>
-----------------------------------------------------------------------------
(* parse: the search.                                                        *)
Header == file.atoms[fpos]

HeaderReadable ==
  /\ fpos < Top.limit - 8
  /\ fpos \in DOMAIN file.atoms /\ Header.size >= 8

SearchFails ==
  /\ pc = "search" /\ ~HeaderReadable
  /\ Give("fail")
  /\ UNCHANGED <<file, fpos, script, ip, conf, held, denied>>

\* Mutant of SearchPast: the size is taken as that of the payload.
SearchPast_Payload ==
  /\ pc = "search" /\ HeaderReadable
  /\ Header.name # Op.name
  /\ fpos' = fpos + 8 + Header.size
  /\ UNCHANGED <<file, pc, script, ip, stack, ret, conf, held, denied>>

SearchPast ==
  /\ pc = "search" /\ HeaderReadable
  /\ Header.name # Op.name
  /\ fpos' = fpos + Header.size
  /\ UNCHANGED <<file, pc, script, ip, stack, ret, conf, held, denied>>

SearchFound ==
  /\ pc = "search" /\ HeaderReadable
  /\ Header.name = Op.name
  /\ stack' = [stack EXCEPT ![Len(stack)].at = fpos, ![Len(stack)].size = Header.size]
  /\ fpos' = fpos + 8 /\ ip' = ip + 1
  /\ pc' = IF Script[script][ip + 1].op = "DATA" THEN "handle" ELSE "enter"
  /\ UNCHANGED <<file, script, ret, conf, held, denied>>

Found == file.atoms[Top.at]
-----------------------------------------------------------------------------
(* The handlers.  What one reads is b; len is the length of the payload.     *)
AscSize == 10       \* sizeof(asc.buf)
MinStts == 16

\* The frame table stszin builds: frame k lies between offsets k and k+1.
Offsets(sizes) ==
  LET o[i \in 0 .. Len(sizes)] == IF i = 0 THEN 0 ELSE (o[i - 1] + sizes[i]) % U32
  IN  o
Overflows(sizes) ==
  \E i \in 1 .. Len(sizes) : Offsets(sizes)[i] < Offsets(sizes)[i - 1]

\* stszin counts one more entry than there are frames, in 32 bits.
Countable(sizes) == Len(sizes) + 1 # U32

\* Mutant of Largest: the last frame's size.
Largest_Last(sizes) == IF sizes = <<>> THEN 0 ELSE Last(sizes)

Largest(sizes) == Max(ToSet(sizes) \cup {0})

\* The handlers that return ERR_FAIL.
Refused(name, len, b) ==
  \/ name = "stsd" /\ b # 1
  \/ name = "esds" /\ (~b.tags \/ b.asc > AscSize)
  \/ name = "stts" /\ len < MinStts
  \/ name = "stsz" /\ (~Countable(b) \/ Overflows(b))
  \/ name = "stco" /\ b = <<>>

\* hdlr1in returns ERR_UNSUPPORTED for a track that is not sound.
Unsupported(name, b) == name = "hdlr" /\ b # "soun"

Configured(name, b) ==
  CASE name = "mdhd" -> [conf EXCEPT !.rate = b.rate, !.samples = b.samples]
    [] name = "mp4a" -> [conf EXCEPT !.channels = b]
    [] name = "esds" -> [conf EXCEPT !.asc = b.asc]
    [] name = "stsz" -> [conf EXCEPT !.offsets = Offsets(b), !.maxsize = Largest(b)]
    [] name = "stco" -> [conf EXCEPT !.mdatofs = Head(b)]
    [] OTHER         -> conf

\* Mutant of Consumed: stsdin does not read the number of entries.
Consumed_NoCount(name) == IF name = "stsd" THEN 4 ELSE IF name = "mp4a" THEN 28 ELSE 0

\* Bytes read by the handlers whose atom's children follow; after any other one
\* parse sets the position anew.
Consumed(name) == IF name = "stsd" THEN 8 ELSE IF name = "mp4a" THEN 28 ELSE 0

HandleOk ==
  /\ pc = "handle" /\ Found.name # "moov"
  /\ \E b \in Found.reads :
       /\ ~Refused(Found.name, Found.size - 8, b) /\ ~Unsupported(Found.name, b)
       /\ conf' = Configured(Found.name, b)
  /\ held' = IF Found.name = "stsz" THEN [held EXCEPT !.table = TRUE] ELSE held
  /\ fpos' = fpos + Consumed(Found.name)
  /\ ip' = ip + 1 /\ pc' = "enter"
  /\ UNCHANGED <<file, script, stack, ret, denied>>

\* The position is set behind the atom.  A table that overflows is kept for
\* mp4read_close, one that cannot be counted is not allocated; what else a refusing
\* handler has stored is not used again.
HandleRefused ==
  /\ pc = "handle" /\ Found.name # "moov"
  /\ \E b \in Found.reads :
       /\ \/ Refused(Found.name, Found.size - 8, b) /\ Give("fail")
          \/ Unsupported(Found.name, b) /\ Give("unsupported")
       /\ held' = IF Found.name = "stsz" /\ Countable(b)
                  THEN [held EXCEPT !.table = TRUE] ELSE held
  /\ fpos' = Top.at + Top.size
  /\ UNCHANGED <<file, script, ip, conf, denied>>

\* stszin: malloc fails.
HandleNoMemory ==
  /\ pc = "handle" /\ Found.name = "stsz"
  /\ \E b \in Found.reads : Countable(b)
  /\ Give("fail") /\ denied' = TRUE
  /\ fpos' = Top.at + Top.size
  /\ UNCHANGED <<file, script, ip, conf, held>>

\* moovin: mvhd is parsed first, with a script of its own.
HandleMoov ==
  /\ pc = "handle" /\ Found.name = "moov"
  /\ Call(Append(stack, MoovinCall(fpos, Found.size - 8)), fpos, Found.size - 8)
  /\ script' = "mvhd" /\ ip' = 1
  /\ UNCHANGED <<file, ret, conf, held, denied>>
-----------------------------------------------------------------------------
(* moovin: one track after the other, each from where the one before ended,  *)
(* until one is parsed or one fails for another reason than not being sound. *)
\* Mutant of NextTrack: the next track is looked for from the start again.
NextTrack_Restarts ==
  /\ pc = "tracks"
  /\ Top.at + Top.size - fpos \notin 0 .. 7
  /\ Call(stack, Top.at, Top.size)
  /\ script' = "trak" /\ ip' = 1
  /\ UNCHANGED <<file, ret, conf, held, denied>>

\* The length left is unsigned: it is not below 8 either when fpos is past the end.
NextTrack ==
  /\ pc = "tracks"
  /\ Top.at + Top.size - fpos \notin 0 .. 7
  /\ Call(stack, fpos, Top.at + Top.size - fpos)
  /\ script' = "trak" /\ ip' = 1
  /\ UNCHANGED <<file, ret, conf, held, denied>>

\* Mutant of MoovinOk: the script goes on one opcode too far.
MoovinOk_PastNext ==
  /\ script' = Top.back[1] /\ ip' = Top.back[2] + 2
  /\ stack' = Front(stack) /\ pc' = "enter"
  /\ UNCHANGED <<file, fpos, ret, conf, held, denied>>

\* moovin returns to parse, which continues behind {DATA, moovin}.
MoovinOk ==
  /\ script' = Top.back[1] /\ ip' = Top.back[2] + 1
  /\ stack' = Front(stack) /\ pc' = "enter"
  /\ UNCHANGED <<file, fpos, ret, conf, held, denied>>

\* moovin fails: so does the parse that called it.
MoovinFails ==
  /\ script' = Top.back[1] /\ ip' = Top.back[2]
  /\ fpos' = Last(Front(stack)).at + Last(Front(stack)).size
  /\ stack' = Front(Front(stack)) /\ pc' = "return" /\ ret' = "fail"
  /\ UNCHANGED <<file, conf, held, denied>>

TracksEnd ==
  /\ pc = "tracks"
  /\ Top.at + Top.size - fpos \in 0 .. 7
  /\ MoovinOk

ReturnToMoovin ==
  /\ pc = "return" /\ stack # <<>> /\ Top.fn = "moovin"
  /\ \/ /\ script = "mvhd" /\ ret = "ok"
        /\ fpos' = Top.at /\ pc' = "tracks"
        /\ UNCHANGED <<file, script, ip, stack, ret, conf, held, denied>>
     \/ /\ script = "mvhd" /\ ret # "ok"
        /\ MoovinFails
     \/ /\ script = "trak" /\ ret = "ok"
        /\ MoovinOk
     \/ /\ script = "trak" /\ ret = "unsupported"
        /\ pc' = "tracks"
        /\ UNCHANGED <<file, fpos, script, ip, stack, ret, conf, held, denied>>
     \/ /\ script = "trak" /\ ret = "fail"
        /\ MoovinFails
-----------------------------------------------------------------------------
(* parse: the children, and the end.                                         *)
Enter ==
  /\ pc = "enter" /\ Op.op = "DESCENT"
  /\ stack' = [stack EXCEPT ![Len(stack)].kids = fpos]
  /\ ip' = ip + 1 /\ pc' = "kids"
  /\ UNCHANGED <<file, fpos, script, ret, conf, held, denied>>

\* parse returns ERR_OK with the position behind the atom.
Leave ==
  /\ fpos' = Top.at + Top.size
  /\ Give("ok")
  /\ UNCHANGED <<file, script, conf, held, denied>>

Skip == pc = "enter" /\ Op.op # "DESCENT" /\ Leave /\ UNCHANGED ip

\* Mutant of KidsEnd: ASCENT is not consumed.
KidsEnd_StaysAtAscent ==
  /\ pc = "kids" /\ Op.op \in {"STOP", "ASCENT"}
  /\ Leave /\ UNCHANGED ip

KidsEnd ==
  /\ pc = "kids" /\ Op.op \in {"STOP", "ASCENT"}
  /\ ip' = IF Op.op = "ASCENT" THEN ip + 1 ELSE ip
  /\ Leave

\* Each child is searched from the first one on.  The length searched is that of the
\* whole payload, also when the children begin in the middle of it.
KidsNext ==
  /\ pc = "kids" /\ Op.op \notin {"STOP", "ASCENT"}
  /\ Call(stack, Top.kids, Top.size - 8)
  /\ UNCHANGED <<file, script, ip, ret, conf, held, denied>>

ReturnToParse ==
  /\ pc = "return" /\ stack # <<>> /\ Top.fn = "parse"
  /\ \/ ret = "ok" /\ pc' = "kids" /\ UNCHANGED <<stack, ret>>
     \/ ret # "ok" /\ Give(ret)
  /\ UNCHANGED <<file, fpos, script, ip, conf, held, denied>>
-----------------------------------------------------------------------------
(* mp4read_open, continued: moov after ftyp, then the frame buffer.          *)
OpenMoov ==
  /\ pc = "return" /\ stack = <<>> /\ script = "head" /\ ret = "ok"
  /\ script' = "moov" /\ ip' = 1
  /\ Call(<<>>, 0, IntMax)
  /\ UNCHANGED <<file, ret, conf, held, denied>>

OpenBuffer ==
  /\ pc = "return" /\ stack = <<>> /\ script = "moov" /\ ret = "ok"
  /\ pc' = "open" /\ held' = [held EXCEPT !.buffer = TRUE]
  /\ UNCHANGED <<file, fpos, script, ip, stack, ret, conf, denied>>

\* Mutant of OpenError: without mp4read_close.
OpenError_KeepsAll ==
  /\ pc = "return" /\ stack = <<>>
  /\ ret # "ok" \/ script = "moov"
  /\ pc' = "failed"
  /\ denied' = (denied \/ ret = "ok")
  /\ UNCHANGED <<file, fpos, script, ip, stack, ret, conf, held>>

\* err: one of the scripts failed, or the buffer cannot be allocated.
OpenError ==
  /\ pc = "return" /\ stack = <<>>
  /\ ret # "ok" \/ script = "moov"
  /\ pc' = "failed" /\ held' = Nothing
  /\ denied' = (denied \/ ret = "ok")
  /\ UNCHANGED <<file, fpos, script, ip, stack, ret, conf>>

Next ==
  \/ OpenFails \/ Open \/ OpenMoov \/ OpenBuffer \/ OpenError
  \/ SearchFails \/ SearchPast \/ SearchFound
  \/ HandleOk \/ HandleRefused \/ HandleNoMemory \/ HandleMoov
  \/ NextTrack \/ TracksEnd \/ ReturnToMoovin
  \/ Enter \/ Skip \/ KidsEnd \/ KidsNext \/ ReturnToParse

Spec == Init /\ [][Next]_vars

\* mp4read_open is one call: it runs until it returns.
FairSpec == Spec /\ WF_vars(Next)
-----------------------------------------------------------------------------
(* The values of the variables, in every state of mp4read_open.              *)
TypeOK ==
  /\ pc \in PCs /\ fpos \in Nat
  /\ script \in DOMAIN Script /\ ip \in DOMAIN Script[script]
  /\ \A i \in DOMAIN stack :
       /\ stack[i].fn \in {"parse", "moovin"}
       /\ stack[i].limit \in Int /\ stack[i].at \in Nat
       /\ stack[i].size \in Nat /\ stack[i].kids \in Nat
  /\ ret \in {"none", "ok", "fail", "unsupported"}
  /\ held \in [file : BOOLEAN, table : BOOLEAN, buffer : BOOLEAN]

(* g_atom never gets out of step with the calls of parse, although it is one *)
(* variable that all of them move on: the groups the script is in are the    *)
(* calls on the stack, a search starts at a NAME, and a handler is called    *)
(* for the atom it was written for.                                          *)
Group(s, i) == Cardinality({j \in 1 .. i - 1 : Script[s][j].op = "DESCENT"})
               - Cardinality({j \in 1 .. i - 1 : Script[s][j].op = "ASCENT"})
Depth == Len(stack) - SelectLastInSeq(stack, LAMBDA c : c.fn = "moovin") - 1
ScriptInStep ==
  /\ pc \in {"search", "handle", "enter"} => Group(script, ip) = Depth
  /\ pc = "kids" /\ Op.op # "STOP" => Group(script, ip) = Depth + 1
  /\ pc = "search" => Op.op = "NAME"
  /\ pc = "handle" => Op.op = "DATA" /\ Script[script][ip - 1].name = Found.name

(* What parse reads as the header of an atom is one, or lies beyond the end  *)
(* of the file: neither the bytes a handler has read before the children are *)
(* searched nor a track that was given up half way mislead the search, nor   *)
(* does a search that goes on behind the parent.                             *)
OnAtoms == pc = "search" => AtomAt(file.id, fpos)

(* The frame table mp4read_frame uses is sound whatever was read: offsets    *)
(* start at 0 and do not fall, and no frame is larger than the buffer        *)
(* allocated for it, also when the table was cut off with the file.          *)
TableSound ==
  (pc = "open" /\ held.table) =>
    /\ conf.offsets[0] = 0
    /\ \A k \in 1 .. Cardinality(DOMAIN conf.offsets) - 1 :
         conf.offsets[k] - conf.offsets[k - 1] \in 0 .. conf.maxsize

(* mp4read_open leaves nothing held when it fails, at whatever depth of the  *)
(* file it did, and all that the decoder needs when it succeeds.             *)
Released ==
  /\ pc = "failed" => held = Nothing
  /\ pc = "open" => held.file /\ held.buffer

(* mp4read_open takes the first sound track, wherever it comes and whatever  *)
(* tracks are before it, with its atoms in any order and others in between,  *)
(* and the decoder is told of that track and of no other.  A file with no    *)
(* such track, or an incomplete one, is refused; with one exception, a file  *)
(* that ends with the handler of a track that is not sound.                  *)
OpensFirstSound ==
  LET atoms == file.atoms
  IN  pc \in {"open", "failed"} /\ Regular(atoms, End[file.id]) =>
        /\ pc = "open" => \/ Plays(atoms) /\ conf = Told(atoms, Min(Left(atoms)))
                          \/ EndsWithHandler(atoms) /\ ~held.table
        /\ pc = "failed" => denied \/ ~Plays(atoms)

(* mp4read_open returns, for every file whose offsets are below 2^31.        *)
Terminates == <>(pc \in {"open", "failed"})
=============================================================================
