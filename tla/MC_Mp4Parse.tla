---------------------------- MODULE MC_Mp4Parse -----------------------------
(* Files of up to three tracks in which one thing or another is out of the  *)
(* ordinary: an atom missing, moved, repeated or preceded by padding, a     *)
(* value no handler accepts, or the end of the file.                        *)
EXTENDS Mp4Parse, TLC

\* len bytes of payload, then the children; body is what a handler reads.
Leaf(name, len, body) == [name |-> name, len |-> len, body |-> body, kids |-> <<>>]
Box(name, kids)       == [name |-> name, len |-> 0, body |-> "none", kids |-> kids]

RECURSIVE FileSize(_)
Size(a) == 8 + a.len + FileSize(a.kids)
FileSize(atoms) == IF atoms = <<>> THEN 0 ELSE Size(Head(atoms)) + FileSize(Tail(atoms))

\* The atoms of a sequence that starts at an offset, and their children, in a file
\* that ends at end.  Of an atom that is cut off there the handler may see any of the
\* values in unset[name].
RECURSIVE Place(_, _, _, _)
Place(atoms, at, end, unset) ==
  IF atoms = <<>> THEN <<>>
  ELSE LET a == Head(atoms)
           r == [name  |-> a.name,
                 size  |-> Size(a),
                 reads |-> IF at + 8 + a.len <= end THEN {a.body} ELSE unset[a.name]]
       IN  (IF at + 8 <= end THEN at :> r ELSE <<>>)
             @@ Place(a.kids, at + 8 + a.len, end, unset)
             @@ Place(Tail(atoms), at + Size(a), end, unset)

Std(kind) ==
  Box("trak", <<
    Leaf("tkhd", 84, "none"),
    Box("mdia", <<
      Leaf("mdhd", 24, [rate |-> 4, samples |-> 9]),
      Leaf("hdlr", 25, kind),
      Box("minf", <<
        Leaf("smhd", 8, "none"),
        Leaf("dinf", 28, "none"),
        Box("stbl", <<
          [Leaf("stsd", 8, 1) EXCEPT !.kids =
             <<[Leaf("mp4a", 28, 2) EXCEPT !.kids =
                  <<Leaf("esds", 43, [tags |-> TRUE, asc |-> 2])>>]>>],
          Leaf("stts", 16, "none"),
          Leaf("stsc", 20, "none"),
          Leaf("stsz", 24, <<3, 5, 4>>),
          Leaf("stco", 12, <<7>>)>>)>>)>>)>>)

Required == {"tkhd", "mdia", "mdhd", "hdlr", "minf", "smhd", "dinf", "stbl", "stsd",
             "mp4a", "esds", "stts", "stsc", "stsz", "stco"}

\* The atom with drop left out, its children turned round, and padding before each.
RECURSIVE Rework(_, _, _, _)
Rework(a, drop, turn, pad) ==
  LET free == IF pad THEN <<Leaf("free", 4, "none")>> ELSE <<>>
      Put(kids, k) ==
        IF k.name = drop THEN kids
        ELSE LET new == free \o <<Rework(k, drop, turn, pad)>>
             IN  IF turn THEN new \o kids ELSE kids \o new
  IN  [a EXCEPT !.kids = FoldLeft(Put, <<>>, a.kids)]

\* The atom with the leaf of the same name in it replaced.
RECURSIVE Patch(_, _)
Patch(a, leaf) ==
  IF a.name = leaf.name THEN [leaf EXCEPT !.kids = a.kids]
  ELSE [a EXCEPT !.kids =
         FoldLeft(LAMBDA kids, k : Append(kids, Patch(k, leaf)), <<>>, a.kids)]

\* As many frames as can be counted, and no number for one more.
Countless == [i \in 1 .. U32 - 1 |-> 0]

\* Values the handlers refuse, or meet only here.
Odd == <<
  Leaf("stsd", 8, 2), Leaf("esds", 43, [tags |-> FALSE, asc |-> 2]),
  Leaf("esds", 43, [tags |-> TRUE, asc |-> 11]), Leaf("stts", 8, "none"),
  Leaf("stsz", 20, <<60, 20>>), Leaf("stsz", 12, <<>>), Leaf("stco", 8, <<>>),
  Leaf("stsz", 12 + 4 * Len(Countless), Countless)>>

\* Tracks and files are identified by what is out of the ordinary in them.
Track(kind, drop, turn, pad, odd) ==
  [kind |-> kind, drop |-> drop, turn |-> turn, pad |-> pad, odd |-> odd]
TrackOf(t) ==
  LET std == IF t.kind = "soun" THEN Std("soun")
             ELSE Patch(Std("vide"), Leaf("mdhd", 24, [rate |-> 1, samples |-> 3]))
  IN  Rework(IF t.odd = 0 THEN std ELSE Patch(std, Odd[t.odd]), t.drop, t.turn, t.pad)

Audio == Track("soun", "none", FALSE, FALSE, 0)
Video == Track("vide", "none", FALSE, FALSE, 0)
Tracks ==
  {Track("soun", d, t, p, 0) : d \in Required \cup {"none"}, t \in BOOLEAN, p \in BOOLEAN}
    \cup {Track("soun", "none", t, FALSE, o) : o \in DOMAIN Odd, t \in BOOLEAN}
Passable == {Video, [Video EXCEPT !.drop = "minf"], Track("vide", "none", TRUE, TRUE, 0)}

Lists ==
  {<<t>> : t \in Tracks} \cup {<<v, t>> : v \in Passable, t \in Tracks}
    \cup {<<v>> : v \in Passable} \cup {<<v, w, Audio>> : v, w \in Passable}
    \cup {<<Audio, v>> : v \in Passable} \cup {<<>>}
    \cup {<<[Video EXCEPT !.drop = d], Audio>> : d \in Required}

\* How the file is put together, and where it is cut off (0: it is whole).
File(form, tracks, cut) == [form |-> form, tracks |-> tracks, cut |-> cut]
AtomsOf(f) ==
  LET ftyp  == Leaf("ftyp", 24, "none")
      mvhd  == Leaf("mvhd", 100, "none")
      trks  == FoldLeft(LAMBDA s, t : Append(s, TrackOf(t)), <<>>, f.tracks)
  IN  CASE f.form = "mdat first" ->
             <<ftyp, Leaf("mdat", 12, "none"), Box("moov", <<mvhd>> \o trks)>>
        [] f.form = "mvhd last"  -> <<ftyp, Box("moov", Append(trks, mvhd))>>
        [] f.form = "moov first" -> <<Box("moov", <<mvhd>> \o trks), ftyp>>
        [] f.form = "no ftyp"    -> <<Box("moov", <<mvhd>> \o trks)>>
        [] f.form = "no mvhd"    -> <<ftyp, Box("moov", trks)>>
        [] f.form = "no moov"    -> <<ftyp>>
        [] f.form = "nothing"    -> <<>>
        [] OTHER                 -> <<ftyp, Box("moov", <<mvhd>> \o trks)>>

\* What the handlers may find where the file has ended.
MCUnset == [n \in Required \cup {"ftyp", "mvhd", "free", "mdat"} |->
  CASE n = "mdhd" -> {[rate |-> 4, samples |-> 9], [rate |-> 1, samples |-> 0]}
    [] n = "hdlr" -> {"soun", "vide"}
    [] n = "stsd" -> {0, 1}
    [] n = "mp4a" -> {2}
    [] n = "esds" -> {[tags |-> TRUE, asc |-> 2], [tags |-> FALSE, asc |-> 2]}
    [] n = "stsz" -> {<<>>, <<3, 5>>, <<3, 60, 5>>, Countless}
    [] n = "stco" -> {<<>>, <<7>>}
    [] OTHER      -> {"none"}]

\* One file is cut off behind each of its headers, or four bytes into it.
CutOff == File("moov last", <<Video, Audio>>, 0)
Headers == DOMAIN Place(AtomsOf(CutOff), 0, FileSize(AtomsOf(CutOff)), MCUnset)
MCIds ==
  {File("mdat first", l, 0) : l \in Lists}
    \cup {File("mvhd last", l, 0) : l \in {<<Audio>>, <<Video, Audio>>, <<Video>>}}
    \cup {File(form, <<Audio>>, 0) :
            form \in {"moov first", "no ftyp", "no mvhd", "no moov", "nothing"}}
    \cup {[CutOff EXCEPT !.cut = o + n] : o \in Headers, n \in {4, 8}}

MCEnd   == [f \in MCIds |-> IF f.cut = 0 THEN FileSize(AtomsOf(f)) ELSE f.cut]
MCAtoms == [f \in MCIds |-> Place(AtomsOf(f), 0, MCEnd[f], MCUnset)]

\* What the proofs of OnAtoms and OpensFirstSound ask of files: it is so of these.
ASSUME InstanceIsTrees == TreesOfAtoms
ASSUME WholeIsRegular == \A f \in MCIds : f.cut = 0 => Regular(Atoms[f], End[f])
=============================================================================
