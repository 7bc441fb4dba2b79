------------------------------ MODULE Mp4File -------------------------------
(***************************************************************************)
(* MP4 files, and what opening one should come to.  A file is the headers  *)
(* of its atoms by byte offset and what a handler reads from each: one     *)
(* value, or any of several where the atom is cut off and the handler uses *)
(* variables its read has left unset.  What opening should come to is said *)
(* of children and parents alone, as a reference for the parser, which     *)
(* only sees a position in the file.                                       *)
(***************************************************************************)
EXTENDS Integers, SequencesExt

CONSTANTS
  Files,        \* identities of the files
  Atoms,        \* Atoms[f]: offset -> [name, size, reads] for each whole header
  End,          \* End[f]: the length of the file
  IntMax,       \* INT_MAX, above every offset
  U32           \* 2^32, scaled down for TLC

ASSUME Mp4Assumption ==
  /\ IntMax \in Nat /\ U32 \in Nat /\ U32 > 0
  /\ \A f \in Files : End[f] \in Nat /\ End[f] < IntMax
  /\ \A f \in Files : \A o \in DOMAIN Atoms[f] :
       /\ Atoms[f][o].size \in Nat
       /\ Atoms[f][o].name = "stsz" => Atoms[f][o].reads \subseteq Seq(Nat)

\* The size of a frame table in bytes, four for each frame and four more, has 32 bits,
\* or the table has one more entry than can be counted, which its handler refuses.
ASSUME TablesFit ==
  \A f \in Files : \A o \in DOMAIN Atoms[f] : Atoms[f][o].name = "stsz" =>
    \A b \in Atoms[f][o].reads : 4 * (Len(b) + 1) < U32 \/ Len(b) + 1 = U32

\* An atom is there to be read when its header is.
ASSUME WholeHeaders == \A f \in Files : \A o \in DOMAIN Atoms[f] : o + 8 <= End[f]

AtomAt(f, o) == o \in DOMAIN Atoms[f] \/ o + 8 > End[f]

\* Of files that are trees of atoms, said of their offsets: what follows an atom, and
\* where an atom with children keeps the first one (ISO 14496-12), is an atom or the end.
TreeOfAtoms(f) ==
  /\ AtomAt(f, 0)
  /\ \A o \in DOMAIN Atoms[f] :
       LET a == Atoms[f][o]
       IN  /\ AtomAt(f, o + a.size)
           /\ a.name \in {"moov", "trak", "mdia", "minf", "stbl"} => AtomAt(f, o + 8)
           /\ a.name = "stsd" => AtomAt(f, o + 8 + 8)
           /\ a.name = "mp4a" => AtomAt(f, o + 8 + 28)
TreesOfAtoms == \A f \in Files : TreeOfAtoms(f)
-----------------------------------------------------------------------------
(* Parents and children among the atoms of a file.                           *)
Past(atoms, o)  == o + atoms[o].size
First(atoms, o) == o + 8 + (IF atoms[o].name = "stsd" THEN 8
                            ELSE IF atoms[o].name = "mp4a" THEN 28 ELSE 0)

\* An atom between two places that is in no other atom there.
Direct(atoms, c, a, b) ==
  /\ a <= c /\ c < b
  /\ \A q \in DOMAIN atoms : a <= q /\ q < c => Past(atoms, q) <= c
Named(atoms, n, a, b) == {c \in DOMAIN atoms : atoms[c].name = n /\ Direct(atoms, c, a, b)}

Roots(atoms, n)   == Named(atoms, n, 0, IntMax)
Kids(atoms, o, n) == Named(atoms, n, First(atoms, o), Past(atoms, o))
Kid(atoms, o, n)  == Min(Kids(atoms, o, n))
Body(atoms, o)    == CHOOSE b \in atoms[o].reads : TRUE

\* A whole file that can be read as ISO 14496-12 has it: atoms follow each other and
\* nest, and those asked for here are not empty.  Tracks are not within tracks, and
\* what follows an mp4a atom is not at once an esds atom.
Regular(atoms, end) ==
  LET AtomOrEnd(o) == o \in DOMAIN atoms \/ o = end
  IN  /\ AtomOrEnd(0) /\ DOMAIN atoms \subseteq Nat
      /\ \A o \in DOMAIN atoms :
           LET name == atoms[o].name
               past == Past(atoms, o)
           IN  /\ atoms[o].size >= 8 /\ past <= end /\ AtomOrEnd(past)
               /\ \A q \in DOMAIN atoms : o <= q /\ q < past => Past(atoms, q) <= past
               /\ name \in {"moov", "trak", "mdia", "minf", "stbl", "stsd", "mp4a"} =>
                    First(atoms, o) <= past /\ AtomOrEnd(First(atoms, o))
               /\ name \in {"ftyp", "moov", "mvhd", "trak", "tkhd", "mdia", "mdhd", "hdlr",
                            "minf", "smhd", "dinf", "stbl", "stsd", "mp4a", "esds", "stts",
                            "stsc", "stsz", "stco"} => atoms[o].size > 8
               /\ atoms[o].reads = {Body(atoms, o)}
               /\ name = "esds" => Body(atoms, o).asc \in Nat
               /\ name = "stsz" => Body(atoms, o) \in Seq(0 .. U32 - 1)
               /\ name = "moov" => \A q \in DOMAIN atoms :
                    atoms[q].name = "trak" /\ First(atoms, o) <= q /\ q < past =>
                      q \in Kids(atoms, o, "trak")
               /\ name = "mp4a" => \A q \in DOMAIN atoms :
                    atoms[q].name = "esds" /\ past <= q => past + 20 <= q
-----------------------------------------------------------------------------
(* What opening should come to.                                              *)
Has(atoms, o, names) == \A n \in names : Kids(atoms, o, n) # {}

Moov(atoms) == Min(Roots(atoms, "moov"))
Headed(atoms) ==
  Roots(atoms, "ftyp") # {} /\ Roots(atoms, "moov") # {} /\ Has(atoms, Moov(atoms), {"mvhd"})

Traks(atoms)    == Kids(atoms, Moov(atoms), "trak")
Mdia(atoms, t)  == Kid(atoms, t, "mdia")
Hdlr(atoms, t)  == Kid(atoms, Mdia(atoms, t), "hdlr")
Minf(atoms, t)  == Kid(atoms, Mdia(atoms, t), "minf")
Stbl(atoms, t)  == Kid(atoms, Minf(atoms, t), "stbl")
Stsd(atoms, t)  == Kid(atoms, Stbl(atoms, t), "stsd")
Mp4a(atoms, t)  == Kid(atoms, Stsd(atoms, t), "mp4a")
Esds(atoms, t)  == Kid(atoms, Mp4a(atoms, t), "esds")
Sizes(atoms, t) == Body(atoms, Kid(atoms, Stbl(atoms, t), "stsz"))

\* A track that is not sound, as far as it must be readable to be passed over.
Passed(atoms, t) ==
  /\ Has(atoms, t, {"tkhd", "mdia"}) /\ Has(atoms, Mdia(atoms, t), {"mdhd", "hdlr"})
  /\ Body(atoms, Hdlr(atoms, t)) # "soun"

\* The sums of the first frames' sizes, however large.
Sums(sizes) ==
  LET s[i \in 0 .. Len(sizes)] == IF i = 0 THEN 0 ELSE s[i - 1] + sizes[i]
  IN  s

\* A sound track with all that decoding needs; the length of its frames and the number
\* of their offsets have 32 bits.
Complete(atoms, t) ==
  /\ Has(atoms, t, {"tkhd", "mdia"}) /\ Has(atoms, Mdia(atoms, t), {"mdhd", "hdlr", "minf"})
  /\ Body(atoms, Hdlr(atoms, t)) = "soun"
  /\ Has(atoms, Minf(atoms, t), {"smhd", "dinf", "stbl"})
  /\ Has(atoms, Stbl(atoms, t), {"stsd", "stts", "stsc", "stsz", "stco"})
  /\ Body(atoms, Stsd(atoms, t)) = 1
  /\ Has(atoms, Stsd(atoms, t), {"mp4a"}) /\ Has(atoms, Mp4a(atoms, t), {"esds"})
  /\ Body(atoms, Esds(atoms, t)).tags /\ Body(atoms, Esds(atoms, t)).asc <= 10
  /\ atoms[Kid(atoms, Stbl(atoms, t), "stts")].size >= 8 + 16
  /\ Len(Sizes(atoms, t)) + 1 # U32
  /\ Sums(Sizes(atoms, t))[Len(Sizes(atoms, t))] < U32
  /\ Body(atoms, Kid(atoms, Stbl(atoms, t), "stco")) # <<>>

\* The tracks that are not passed over, of which the first is opened.
Left(atoms) == {t \in Traks(atoms) : ~Passed(atoms, t)}

Plays(atoms) == Headed(atoms) /\ Left(atoms) # {} /\ Complete(atoms, Min(Left(atoms)))

\* What the decoder is told of a track.
Told(atoms, t) ==
  LET sizes == Sizes(atoms, t)
  IN  [rate     |-> Body(atoms, Kid(atoms, Mdia(atoms, t), "mdhd")).rate,
       samples  |-> Body(atoms, Kid(atoms, Mdia(atoms, t), "mdhd")).samples,
       channels |-> Body(atoms, Mp4a(atoms, t)),
       asc      |-> Body(atoms, Esds(atoms, t)).asc,
       offsets  |-> Sums(sizes),
       maxsize  |-> Max({0} \cup {sizes[k] : k \in DOMAIN sizes}),
       mdatofs  |-> Head(Body(atoms, Kid(atoms, Stbl(atoms, t), "stco")))]

\* The moov atom ends with the handler of a track, and all tracks are passed over.
EndsWithHandler(atoms) ==
  /\ Headed(atoms) /\ Left(atoms) = {}
  /\ \E t \in Traks(atoms) : Past(atoms, Hdlr(atoms, t)) = Past(atoms, Moov(atoms))
=============================================================================
