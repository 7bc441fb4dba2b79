---------------------------- MODULE InputDispatch ----------------------------
(***************************************************************************)
(* Whom the plug-ins talk to: open of input_hybrid and input_sfaad, which  *)
(* look up further decoders for the same file, and the methods the host    *)
(* calls on what was opened.  Each of the two accepts .m4a files itself    *)
(* and finds the others by walking the services of the application         *)
(* (get_input_entry), in whatever order these are registered.  A decoder   *)
(* is known by the name of its entry, a file by "main" (the .m4a) and      *)
(* "add" (the .tak).  The build is the desktop one, where an entry tells   *)
(* its GUID.  A call of open that is under way is a frame of `opening',    *)
(* its `todo' what open has still to do.                                   *)
(***************************************************************************)
EXTENDS Naturals, Sequences, FiniteSets, SequencesExt

CONSTANTS
  Others,       \* entries of the application that accept .m4a files, not from here
  MaxCommits    \* bound: retag_commit calls

Ours    == {"hybrid", "sfaad"}
Reasons == {"info_read", "decode", "info_write"}

ASSUME DispatchAssumption ==
  /\ IsFiniteSet(Others) /\ Others \cap (Ours \cup {"tak", "none"}) = {}
  /\ MaxCommits \in Nat

VARIABLES
  registry,     \* the entries that accept .m4a files, in the order of registration
  works,        \* whose decoder can open its file
  tak,          \* there is a .tak file
  reason,       \* p_reason of the host's call
  phase,        \* opening, open, failed
  opening,      \* the calls of open under way, the innermost first
  obj,          \* the fields of the objects made, by class
  isAdd,        \* is_hybrid_add
  ready,        \* decode_initialize has returned
  written,      \* what the tags of the file are: the number of commits
  pending,      \* retag_set_info was called, retag_commit was not
  told,         \* what the host was told last, and how; nothing yet after a commit
  unset,        \* history: fields the last method read that had no value
  hadTak,       \* history: the .tak file was there when open looked
  informed      \* history: get_info was called

vars == <<registry, works, tak, reason, phase, opening, obj, isAdd, ready, written,
          pending, told, unset, hadTak, informed>>
setting == <<registry, works, reason>>

\* The value of a field: a decoder and what it was opened for, or a number by its origin.
Value(of, for) == [of |-> of, for |-> for]
Unset   == Value("none", "none")
Nothing == [method |-> "none", rate |-> {}, bits |-> {}, tags |-> 0]

Fields ==
  [hybrid |-> {"input", "info_reader", "info_writer", "input_add", "info_reader_add",
               "p_seconds_init", "bitrate_add", "bit_per_sample", "p_start"},
   sfaad  |-> {"info_reader", "fdec", "p_seconds_init"}]

Call(self, for, into) == [self |-> self, for |-> for, into |-> into, todo |-> <<"check">>]

Init ==
  /\ registry \in UNION {SetToSeqs(S \cup {"hybrid"}) : S \in SUBSET (Others \cup {"sfaad"})}
  /\ works \in SUBSET (Others \cup {"sfaad", "tak"})
  /\ tak \in BOOLEAN /\ reason \in Reasons
  /\ phase = "opening"
  /\ \E e \in Ours \cap ToSet(registry) : opening = <<Call(e, reason, "host")>>
  /\ obj = [c \in Ours |-> [f \in Fields[c] |-> Unset]]
  /\ isAdd = FALSE /\ ready = FALSE /\ written = 0 /\ pending = FALSE
  /\ told = Nothing /\ unset = {} /\ hadTak = FALSE /\ informed = FALSE

----------------------------------------------------------------------------
(* open, call by call                                                       *)

Now  == Head(opening)
Does(step) == phase = "opening" /\ Now.todo # <<>> /\ Head(Now.todo) = step
Outer == Last(opening).self      \* the class of the object the host holds

\* The call of open under way is left with only `rest' to do.
Continue(rest) == opening' = [opening EXCEPT ![1].todo = rest]

\* An exception leaves every open under way; the objects are destroyed.
Throw ==
  /\ phase' = "failed" /\ opening' = SubSeq(opening, Len(opening), Len(opening))
  /\ UNCHANGED <<obj, isAdd>>

\* Mutant of Aliases: the decoder that writes the tags does not become the one that reads
\* them.
Aliases_OwnReader(into) ==
  CASE into = "input"     -> {"input", "info_reader"}
    [] into = "input_add" -> {"input_add", "info_reader_add"}
    [] OTHER              -> {into}

\* The fields that come to hold a decoder opened into one of them.
Aliases(into) ==
  CASE into = "input"       -> {"input", "info_reader"}
    [] into = "info_writer" -> {"info_writer", "info_reader"}
    [] into = "input_add"   -> {"input_add", "info_reader_add"}
    [] OTHER                -> {into}

Store(self, into, v) ==
  obj' = [obj EXCEPT ![self] = [f \in DOMAIN @ |-> IF f \in Aliases(into) THEN v ELSE @[f]]]

\* Mutant of Acceptable: a plug-in passes over itself only.
Acceptable_OwnOnly(what) ==
  IF what = "sfaad" THEN {"sfaad"} ELSE Others \cup (Ours \ {Now.self})

\* get_input_entry and get_sfaad_input: the first registered entry that is acceptable, by
\* its place in the registry, 0 if there is none.
Acceptable(what) == IF what = "sfaad" THEN {"sfaad"} ELSE Others
FirstOf(entries) == SelectInSeq(registry, LAMBDA e : e \in entries)
Found(what)      == FirstOf(Acceptable(what))

\* The field open of input_hybrid opens the main file into.
MainField(for) ==
  CASE for = "decode" -> "input" [] for = "info_read" -> "info_reader"
    [] OTHER          -> "info_writer"

\* Mutant of Check_Hybrid: is_hybrid_add is not cleared when tags are to be written.
Check_Hybrid_KeepsAdd ==
  /\ Does("check") /\ Now.self = "hybrid"
  /\ isAdd' = tak /\ hadTak' = tak
  /\ Continue(CASE Now.for = "decode" /\ tak    -> <<"sfaad", "add", "main">>
                [] Now.for = "info_read" /\ tak -> <<"main", "add">>
                [] OTHER                        -> <<"main">>)
  /\ UNCHANGED <<phase, obj>>

\* input_hybrid's open looks for the .tak file and decides what to open.
Check_Hybrid ==
  /\ Does("check") /\ Now.self = "hybrid"
  /\ isAdd' = (tak /\ Now.for # "info_write") /\ hadTak' = tak
  /\ Continue(CASE Now.for = "decode" /\ tak    -> <<"sfaad", "add", "main">>
                [] Now.for = "info_read" /\ tak -> <<"main", "add">>
                [] OTHER                        -> <<"main">>)
  /\ UNCHANGED <<phase, obj>>

\* input_sfaad's open does not write tags.
Check_Sfaad ==
  /\ Does("check") /\ Now.self = "sfaad"
  /\ \/ /\ Now.for = "info_write"
        /\ Throw
     \/ /\ Now.for # "info_write"
        /\ Continue(IF Now.for = "decode" THEN <<"reader", "fdec">> ELSE <<"reader">>)
        /\ UNCHANGED <<phase, obj, isAdd>>
  /\ UNCHANGED hadTak

\* Mutant of Wanted: with a .tak file, too, the first decoder found is taken.
Wanted_First(step) == "other"

\* The entry a step of open opens the .m4a file with, and what for.
Wanted(step)  == IF step = "main" /\ Now.for = "decode" /\ isAdd THEN "sfaad" ELSE "other"
Purpose(step) == IF step = "reader" THEN "info_read" ELSE Now.for
Target(step)  == IF step = "reader" THEN "info_reader" ELSE MainField(Now.for)

\* get_sfaad_input comes before the .tak file is opened.
FindSfaad ==
  /\ Does("sfaad")
  /\ IF Found("sfaad") = 0 THEN Throw
     ELSE Continue(Tail(Now.todo)) /\ UNCHANGED <<phase, obj, isAdd>>
  /\ UNCHANGED hadTak

\* svc->open: of one of ours it is a call of open of its own.
OpenEntry(step) ==
  /\ Does(step)
  /\ LET found == Found(Wanted(step))
         e     == registry[found]
     IN  IF found = 0 \/ (e \in Others /\ e \notin works) THEN Throw
         ELSE IF e \in Ours
              THEN /\ opening' = <<Call(e, Purpose(step), Target(step))>> \o opening
                   /\ UNCHANGED <<phase, obj, isAdd>>
              ELSE /\ Store(Now.self, Target(step), Value(e, Purpose(step)))
                   /\ Continue(Tail(Now.todo)) /\ UNCHANGED <<phase, isAdd>>
  /\ UNCHANGED hadTak

\* g_open_for_decoding and g_open_for_info_read: the application opens the .tak file.
OpenAdd ==
  /\ Does("add")
  /\ IF tak /\ "tak" \in works
     THEN /\ Store("hybrid", IF Now.for = "decode" THEN "input_add" ELSE "info_reader_add",
                   Value("tak", Now.for))
          /\ Continue(Tail(Now.todo)) /\ UNCHANGED <<phase, isAdd>>
     ELSE Throw
  /\ UNCHANGED hadTak

\* fdec.init of input_sfaad, which must also have a path of the local file system.
InitFdec ==
  /\ Does("fdec")
  /\ IF "sfaad" \in works
     THEN /\ Store("sfaad", "fdec", Value("main", "decode"))
          /\ Continue(Tail(Now.todo)) /\ UNCHANGED <<phase, isAdd>>
     ELSE Throw
  /\ UNCHANGED hadTak

\* open returns: to the host, or to the open that called it.
Return ==
  /\ phase = "opening" /\ Now.todo = <<>>
  /\ \/ /\ Len(opening) = 1
        /\ phase' = "open"
        /\ UNCHANGED <<opening, obj>>
     \/ /\ Len(opening) > 1
        /\ Store(opening[2].self, Now.into, Value(Now.self, Now.for))
        /\ opening' = [Tail(opening) EXCEPT ![1].todo = Tail(@)]
        /\ UNCHANGED phase
  /\ UNCHANGED <<isAdd, hadTak>>

\* Another program deletes the .tak file.
Delete ==
  /\ phase # "failed" /\ tak /\ tak' = FALSE
  /\ UNCHANGED <<setting, phase, opening, obj, isAdd, ready, written, pending, told,
                 unset, hadTak, informed>>

Open ==
  /\ \/ Check_Hybrid \/ Check_Sfaad \/ FindSfaad \/ OpenAdd \/ InitFdec \/ Return
     \/ OpenEntry("main") \/ OpenEntry("reader")
  /\ UNCHANGED <<setting, tak, ready, written, pending, told, unset, informed>>

----------------------------------------------------------------------------
(* the methods; a method forwarded to input_sfaad reads its fields as well  *)

\* The fields read when field f of the host's object is called.
Through(f) ==
  {<<Outer, f>>} \cup IF Outer = "hybrid" /\ obj.hybrid[f].of = "sfaad"
                      THEN {<<"sfaad", IF f = "input" THEN "fdec" ELSE "info_reader">>} ELSE {}

Reads(fields) == unset' = {r \in fields : obj[r[1]][r[2]] = Unset}

Added == Outer = "hybrid" /\ isAdd
AddPart(fields) == IF Added THEN fields ELSE {}

\* The tags its reader shows: one that is not the writer has read them at open.
TagsShown == IF obj[Outer]["info_reader"].for = "info_write" THEN written ELSE 0

\* get_info.  The host does not ask between set_info and commit.
GetInfo ==
  /\ phase = "open" /\ ~pending
  /\ Reads(Through("info_reader") \cup AddPart({<<"hybrid", "info_reader_add">>}))
  /\ told' = [method |-> "get_info", tags |-> TagsShown,
              rate |-> {"main"} \cup AddPart({"add"}),
              bits |-> CASE Added -> {"add"} [] Outer = "sfaad" -> {"32"} [] OTHER -> {"main"}]
  /\ obj' = IF Added THEN [obj EXCEPT !.hybrid.bitrate_add    = Value("add", "rate"),
                                      !.hybrid.bit_per_sample = Value("add", "bits")]
            ELSE obj
  /\ informed' = TRUE
  /\ UNCHANGED <<ready, written, pending>>

\* get_subsong, get_subsong_count, get_file_stats.
GetOther ==
  /\ phase = "open"
  /\ Reads(Through("info_reader"))
  /\ UNCHANGED <<obj, ready, written, pending, told, informed>>

\* decode_initialize: what it sets of both plug-ins.
DecodeInitialize ==
  /\ phase = "open" /\ reason = "decode"
  /\ Reads((IF Outer = "hybrid" THEN Through("input") ELSE {<<"sfaad", "fdec">>})
           \cup Through("info_reader") \cup AddPart({<<"hybrid", "input_add">>}))
  /\ LET s == [obj EXCEPT !.sfaad.p_seconds_init = Value("main", "time")]
     IN  obj' = IF Added THEN [s EXCEPT !.hybrid.bit_per_sample = Value("add", "bits"),
                                        !.hybrid.p_seconds_init = Value("main", "time"),
                                        !.hybrid.p_start        = Value("add", "index")]
                ELSE s
  /\ ready' = TRUE
  /\ UNCHANGED <<written, pending, told, informed>>

\* decode_run, decode_seek, decode_can_seek, decode_on_idle, decode_get_dynamic_info_track.
Main == IF Outer = "hybrid" THEN Through("input") ELSE {<<"sfaad", "fdec">>}
Decode(ofMain, ofAdd) ==
  /\ phase = "open" /\ ready
  /\ Reads(Main \cup ofMain \cup AddPart({<<"hybrid", f>> : f \in ofAdd}))
  /\ UNCHANGED <<obj, ready, written, pending, told, informed>>

OwnStart == IF <<"sfaad", "fdec">> \in Main THEN {<<"sfaad", "p_seconds_init">>} ELSE {}

DecodeRun     == Decode({}, {"input_add", "bit_per_sample", "p_start"})
DecodeSeek    == Decode(OwnStart, {"input_add", "p_seconds_init"})
DecodeCanSeek == Decode({}, {"input_add"})
DecodeIdle    == Decode({}, {"input_add"})
DecodeTrack   == Decode({}, {})

\* decode_get_dynamic_info.  input_sfaad always knows the rate, other decoders may not.
DecodeDynamic ==
  /\ phase = "open" /\ ready
  /\ \E known \in {k \in BOOLEAN : <<"sfaad", "fdec">> \in Main => k}, addKnown \in BOOLEAN :
       LET asks == known /\ Added
       IN  /\ Reads(Main \cup (IF asks THEN {<<"hybrid", "input_add">>} ELSE {})
                    \cup IF asks /\ ~addKnown THEN {<<"hybrid", "bitrate_add">>} ELSE {})
           /\ told' = IF ~known THEN told
                      ELSE [method |-> "dynamic", tags |-> told.tags, bits |-> told.bits,
                            rate |-> {"main"} \cup IF ~asks THEN {} ELSE IF addKnown THEN {"add"}
                                                   ELSE {obj.hybrid.bitrate_add.of}]
  /\ UNCHANGED <<obj, ready, written, pending, informed>>

RetagSetInfo ==
  /\ phase = "open" /\ reason = "info_write"
  /\ Reads({<<"hybrid", "info_writer">>}) /\ pending' = TRUE
  /\ UNCHANGED <<obj, ready, written, told, informed>>

RetagCommit ==
  /\ phase = "open" /\ reason = "info_write" /\ written < MaxCommits
  /\ Reads({<<"hybrid", "info_writer">>})
  /\ pending' = FALSE /\ written' = IF pending THEN written + 1 ELSE written
  /\ told' = Nothing
  /\ UNCHANGED <<obj, ready, informed>>

Method ==
  /\ \/ GetInfo \/ GetOther \/ DecodeInitialize \/ DecodeRun \/ DecodeSeek \/ DecodeCanSeek
     \/ DecodeIdle \/ DecodeTrack \/ DecodeDynamic \/ RetagSetInfo \/ RetagCommit
  /\ UNCHANGED <<setting, tak, phase, opening, isAdd, hadTak>>

Next == Open \/ Method \/ Delete
Spec == Init /\ [][Next]_vars

----------------------------------------------------------------------------
(* Properties                                                               *)

\* An open never comes back, through the decoders it looks up, to a class that is being
\* opened already, in whatever order the entries are registered: each plug-in accepts the
\* files the other one accepts, and without the GUIDs compared in get_input_entry of both
\* they would open each other for ever.
NeverThroughItself ==
  \A i, j \in 1 .. Len(opening) : opening[i].self = opening[j].self => i = j

\* What comes of open.  A file with a .tak file is only ever decoded by input_sfaad, whose
\* samples the remainders were computed from, even if its turn comes after others; nothing
\* is opened half.  And an .m4a file some other decoder could read is refused for one of
\* these reasons only: the first decoder found is the wrong one (there is no second try),
\* the .tak file cannot be opened (any more), input_sfaad is missing or refuses the file,
\* or tags are to be written through input_sfaad.
OpenExplained ==
  LET first == FirstOf(Others)
      adds  == Outer = "hybrid" /\ hadTak /\ reason # "info_write"
  IN  /\ phase = "open" =>
           /\ reason = "decode" /\ adds =>
                obj.hybrid.input.of = "sfaad" /\ obj.hybrid.input_add.of = "tak"
           /\ ~adds => obj.hybrid.input_add = Unset
           /\ \A c \in Ours, f \in {"info_reader", "fdec"} :
                f = "info_reader" \/ c = "sfaad" =>
                  (obj[c][f] # Unset <=>
                     \/ c = Outer /\ (f = "fdec" => reason = "decode")
                     \/ c = "sfaad" /\ Outer = "hybrid" /\ reason = "decode" /\ hadTak)
      /\ phase = "failed" /\ Others \cap works # {} =>
           \/ first = 0 \/ registry[first] \notin works
           \/ adds /\ (~tak \/ "tak" \notin works)
           \/ reason = "decode" /\ (adds \/ Outer = "sfaad")
                /\ ("sfaad" \notin ToSet(registry) \/ "sfaad" \notin works)
           \/ Outer = "sfaad" /\ reason = "info_write"

\* No method valid for the reason the file was opened for uses a decoder that was not
\* opened or a number that was not set, with one exception: get_dynamic_info adds the rate
\* get_info has noted, which is whatever the memory held if get_info was not called.
UsesWhatIsSet ==
  unset \subseteq IF informed THEN {} ELSE {<<"hybrid", "bitrate_add">>}

\* The host is told of the main file and the additional one together, in the info as in the
\* dynamic info, and of the main file alone where tags are written, even if there is a .tak
\* file; and after a commit it reads the tags it has written.
InfoExplained ==
  LET adds == Outer = "hybrid" /\ hadTak /\ reason # "info_write"
  IN  told # Nothing =>
        /\ told.tags = written
        /\ \/ told.rate = {"main"} \cup (IF adds THEN {"add"} ELSE {})
           \/ told.method = "dynamic" /\ adds /\ ~informed /\ told.rate = {"main", "none"}
        /\ adds /\ informed => told.bits = {"add"}
=============================================================================
