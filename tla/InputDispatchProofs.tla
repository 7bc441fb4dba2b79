------------------------- MODULE InputDispatchProofs -------------------------
(***************************************************************************)
(* Proofs about open and the methods of the two plug-ins, whatever other   *)
(* decoders the application has and in whatever order they are registered. *)
(***************************************************************************)
EXTENDS InputDispatch, FiniteSetTheorems, SequenceTheorems, NatLemmas, TLAPS

Host == Last(opening)      \* the call of open the application made
Adds == Outer = "hybrid" /\ hadTak /\ reason # "info_write"

Types ==
  /\ registry \in Seq(Others \cup Ours)
  /\ reason \in Reasons /\ phase \in {"opening", "open", "failed"}
  /\ isAdd \in BOOLEAN /\ hadTak \in BOOLEAN /\ tak \in BOOLEAN
  /\ informed \in BOOLEAN /\ ready \in BOOLEAN /\ pending \in BOOLEAN /\ written \in Nat
  /\ obj = [c \in Ours |-> [f \in Fields[c] |-> obj[c][f]]]

\* One open is under way, or that of input_sfaad within that of input_hybrid, which is at
\* its last step and has a .tak file.
HybridLeft == {<<"check">>, <<"sfaad", "add", "main">>, <<"add", "main">>, <<"main">>,
               <<"main", "add">>, <<"add">>, <<>>}
SfaadLeft  == {<<"check">>, <<"reader", "fdec">>, <<"reader">>, <<"fdec">>, <<>>}

Frames ==
  /\ \/ opening = <<opening[1]>>
     \/ /\ opening = <<opening[1], opening[2]>>
        /\ phase = "opening" /\ reason = "decode" /\ isAdd
        /\ opening[1].self = "sfaad" /\ opening[1].into = "input"
        /\ opening[2].self = "hybrid" /\ opening[2].todo = <<"main">>
  /\ \A i \in DOMAIN opening :
       /\ opening[i] = [self |-> opening[i].self, for |-> reason, into |-> opening[i].into,
                        todo |-> opening[i].todo]
       /\ opening[i].self \in Ours
       /\ opening[i].todo \in IF opening[i].self = "hybrid" THEN HybridLeft ELSE SfaadLeft
       /\ opening[i].todo \in {<<"reader", "fdec">>, <<"fdec">>} => reason = "decode"
       /\ opening[i].todo = <<"reader">> => reason = "info_read"
  /\ phase = "open" => opening[1].todo = <<>>

\* What open of input_hybrid has found of the .tak file, and the steps it takes with one.
Checked ==
  /\ Outer = "sfaad" => /\ ~isAdd /\ ~hadTak
                        /\ Host.todo = <<>> => reason # "info_write"
  /\ Outer = "hybrid" =>
       /\ Host.todo = <<"check">> => ~isAdd /\ ~hadTak
       /\ Host.todo # <<"check">> => (isAdd <=> hadTak /\ reason # "info_write")
       /\ Host.todo \in {<<"sfaad", "add", "main">>, <<"add", "main">>} => isAdd /\ reason = "decode"
       /\ Host.todo \in {<<"main", "add">>, <<"add">>} => isAdd /\ reason = "info_read"
       /\ Host.todo = <<"main">> /\ isAdd => reason = "decode"

\* How far open is: which decoders it has.
HasMain   == Outer = "hybrid" /\ Host.todo \in {<<"add">>, <<>>}
HasAdd    == Outer = "hybrid" /\ isAdd /\ Host.todo \in {<<"main">>, <<>>}
HasReader == \/ opening[1].self = "sfaad" /\ opening[1].todo \in {<<"fdec">>, <<>>}
             \/ HasMain /\ Adds /\ reason = "decode"
HasFdec   == \/ opening[1].self = "sfaad" /\ opening[1].todo = <<>> /\ reason = "decode"
             \/ HasMain /\ Adds /\ reason = "decode"

\* And these are the decoders the fields hold.
Held(c, f, has, entries, for) ==
  /\ has => obj[c][f] = Value(obj[c][f].of, for) /\ obj[c][f].of \in entries
  /\ ~has => obj[c][f] = Unset

MainOf == IF Adds /\ reason = "decode" THEN {"sfaad"} ELSE Others

Holds ==
  phase # "failed" =>
    /\ Held("hybrid", "input", HasMain /\ reason = "decode", MainOf, reason)
    /\ Held("hybrid", "info_reader", HasMain, MainOf, reason)
    /\ Held("hybrid", "info_writer", HasMain /\ reason = "info_write", MainOf, reason)
    /\ Held("hybrid", "input_add", HasAdd /\ reason = "decode", {"tak"}, reason)
    /\ Held("hybrid", "info_reader_add", HasAdd, {"tak"}, reason)
    /\ Held("sfaad", "info_reader", HasReader, Others, "info_read")
    /\ Held("sfaad", "fdec", HasFdec, {"main"}, "decode")

\* What the methods have set.
Noted ==
  /\ phase # "open" => ~informed /\ ~ready /\ ~pending /\ written = 0 /\ told = Nothing
                       /\ unset = {}
  /\ ready => /\ reason = "decode" /\ obj["sfaad"]["p_seconds_init"] # Unset
              /\ Adds => \A f \in {"bit_per_sample", "p_seconds_init", "p_start"} :
                            obj["hybrid"][f] # Unset
  /\ phase # "failed" =>
       obj["hybrid"]["bitrate_add"] = IF informed /\ Adds THEN Value("add", "rate") ELSE Unset
  /\ pending \/ written > 0 => reason = "info_write" /\ Outer = "hybrid"
  /\ told # Nothing => told.tags = written
  /\ Adds /\ informed => told # Nothing /\ told.bits = {"add"}

\* Why open fails.
Excuse ==
  LET first == FirstOf(Others)
  IN  \/ first = 0 \/ registry[first] \notin works
      \/ Adds /\ (~tak \/ "tak" \notin works)
      \/ reason = "decode" /\ (Adds \/ Outer = "sfaad")
           /\ ("sfaad" \notin ToSet(registry) \/ "sfaad" \notin works)
      \/ Outer = "sfaad" /\ reason = "info_write"

Refused == phase = "failed" /\ Others \cap works # {} => Excuse

IInv == Types /\ Frames /\ Checked /\ Holds /\ Noted /\ Refused /\ UsesWhatIsSet
        /\ InfoExplained

----------------------------------------------------------------------------
(* Lemmas about the operators                                               *)

\* The first entry found is registered and acceptable, and without one none is.
LEMMA FirstSays ==
  ASSUME registry \in Seq(Others \cup Ours), NEW entries
  PROVE  \/ /\ FirstOf(entries) = 0
            /\ \A i \in 1 .. Len(registry) : registry[i] \notin entries
         \/ /\ FirstOf(entries) \in 1 .. Len(registry)
            /\ registry[FirstOf(entries)] \in entries
<1> DEFINE I == {i \in 1 .. Len(registry) : registry[i] \in entries}
<1>1. FirstOf(entries) = IF I # {} THEN CHOOSE x \in I : \A y \in I : x <= y ELSE 0
  BY DEF FirstOf, SelectInSeq, Min
<1>2. CASE I = {}
  BY <1>1, <1>2
<1>3. CASE I # {}
  <2>1. I \subseteq Nat
    OBVIOUS
  <2>2. \E x \in I : \A y \in I : x <= y
    BY <2>1, <1>3, Least
  <2>3. FirstOf(entries) \in I
    BY <1>1, <1>3, <2>2
  <2> QED BY <2>3
<1> QED BY <1>2, <1>3

\* It depends on the registry alone.
LEMMA FirstSame ==
  ASSUME registry' = registry
  PROVE  FirstOf(Others)' = FirstOf(Others)
BY DEF FirstOf, SelectInSeq, Min

LEMMA Single ==
  ASSUME NEW S, NEW s \in Seq(S), Len(s) = 1
  PROVE  s = <<s[1]>>
<1>1. <<s[1]>> \in Seq(S) /\ Len(<<s[1]>>) = 1 /\ <<s[1]>>[1] = s[1]
  OBVIOUS
<1> DEFINE t == <<s[1]>>
<1>2. \A i \in 1 .. Len(s) : s[i] = t[i]
  BY <1>1
<1> QED BY <1>1, <1>2, SeqEqual

\* What is left of the calls of open if only the last stays.
LEMMA LastOnly ==
  ASSUME NEW a, NEW b
  PROVE  SubSeq(<<a>>, 1, 1) = <<a>> /\ SubSeq(<<a, b>>, 2, 2) = <<b>>
<1>1. SubSeq(<<a>>, 1, 1) = <<a>>
  <2>1. <<a>> \in Seq({a}) /\ Len(<<a>>) = 1
    OBVIOUS
  <2>2. /\ Len(SubSeq(<<a>>, 1, 1)) = 1 /\ SubSeq(<<a>>, 1, 1) \in Seq({a})
        /\ SubSeq(<<a>>, 1, 1)[1] = a
    BY <2>1, SubSeqProperties
  <2> QED BY <2>2, Single
<1>2. SubSeq(<<a, b>>, 2, 2) = <<b>>
  <2>1. <<a, b>> \in Seq({a, b}) /\ Len(<<a, b>>) = 2
    OBVIOUS
  <2>2. /\ Len(SubSeq(<<a, b>>, 2, 2)) = 1 /\ SubSeq(<<a, b>>, 2, 2) \in Seq({a, b})
        /\ SubSeq(<<a, b>>, 2, 2)[1] = b
    BY <2>1, SubSeqProperties
  <2> QED BY <2>2, Single
<1> QED BY <1>1, <1>2

\* The calls of open with a further one.
LEMMA Pair ==
  ASSUME NEW a, NEW b
  PROVE  /\ <<a>> \o <<b>> = <<a, b>> /\ Tail(<<a, b>>) = <<b>>
         /\ Len(<<a, b>>) = 2 /\ DOMAIN <<a, b>> = {1, 2}
         /\ <<a, b>>[1] = a /\ <<a, b>>[2] = b
<1> DEFINE s == <<a>> \o <<b>>
           t == <<a, b>>
<1>1. <<a>> \in Seq({a, b}) /\ <<b>> \in Seq({a, b}) /\ Len(<<a>>) = 1 /\ Len(<<b>>) = 1
      /\ t \in Seq({a, b}) /\ Len(t) = 2 /\ t[1] = a /\ t[2] = b
  OBVIOUS
<1>2. s \in Seq({a, b}) /\ Len(s) = 2 /\ s[1] = a /\ s[2] = b
  BY <1>1, ConcatProperties
<1> HIDE DEF s, t
<1>3. \A i \in 1 .. Len(s) : s[i] = t[i]
  BY <1>1, <1>2
<1>4. s = t
  BY <1>1, <1>2, <1>3, SeqEqual
<1>5. Tail(<<a, b>>) = <<b>>
  BY SMT
<1>6. /\ Len(<<a, b>>) = 2 /\ DOMAIN <<a, b>> = {1, 2}
      /\ <<a, b>>[1] = a /\ <<a, b>>[2] = b
  OBVIOUS
<1> QED BY <1>4, <1>5, <1>6 DEF s, t

LEMMA LeaveOne ==
  ASSUME NEW h
  PROVE  [<<h>> EXCEPT ![1].todo = Tail(@)] = <<[h EXCEPT !.todo = Tail(@)]>>
<1>1. <<h>>[1] = h /\ DOMAIN <<h>> = {1}
  OBVIOUS
<1> DEFINE m == [h EXCEPT !.todo = Tail(@)]
<1>2. [<<h>> EXCEPT ![1].todo = Tail(@)] = [<<h>> EXCEPT ![1] = m]
  BY <1>1
<1> HIDE DEF m
<1>3. [<<h>> EXCEPT ![1] = m] = <<m>>
  OBVIOUS
<1> QED BY <1>2, <1>3 DEF m

\* Storing a decoder changes the fields that come to hold it and no other.
LEMMA StoreSays ==
  ASSUME Types, NEW self \in Ours, NEW into, NEW v, Store(self, into, v)
  PROVE  /\ obj' = [c \in Ours |-> [f \in Fields[c] |-> obj'[c][f]]]
         /\ \A c \in Ours : \A f \in Fields[c] :
              obj'[c][f] = IF c = self /\ f \in Aliases(into) THEN v ELSE obj[c][f]
BY DEF Store, Types

\* The fields the steps of open store into.
LEMMA AliasesSay ==
  /\ Aliases("input") = {"input", "info_reader"}
  /\ Aliases("info_writer") = {"info_writer", "info_reader"}
  /\ Aliases("info_reader") = {"info_reader"}
  /\ Aliases("input_add") = {"input_add", "info_reader_add"}
  /\ Aliases("info_reader_add") = {"info_reader_add"}
  /\ Aliases("fdec") = {"fdec"}
  /\ MainField("decode") = "input" /\ MainField("info_read") = "info_reader"
  /\ MainField("info_write") = "info_writer"
BY DEF Aliases, MainField

\* The call under way and the call the application made.
LEMMA FramesSay ==
  ASSUME Frames
  PROVE  /\ Now = opening[1] /\ opening # <<>>
         /\ \/ opening = <<opening[1]>> /\ Len(opening) = 1 /\ Host = opening[1]
            \/ /\ opening = <<opening[1], opening[2]>> /\ Len(opening) = 2 /\ Host = opening[2]
               /\ phase = "opening" /\ reason = "decode" /\ isAdd
         /\ Outer = Host.self /\ Host.for = reason /\ Now.for = reason
         /\ Now.self \in Ours /\ Outer \in Ours
<1>1. CASE opening = <<opening[1]>>
  <2>1. Len(opening) = 1 /\ Head(opening) = opening[1] /\ opening # <<>> /\ 1 \in DOMAIN opening
    BY <1>1
  <2> HIDE DEF Ours
  <2> QED BY <1>1, <2>1 DEF Frames, Now, Host, Outer, Last
<1>2. CASE opening = <<opening[1], opening[2]>> /\ opening # <<opening[1]>>
  <2>1. /\ Len(opening) = 2 /\ Head(opening) = opening[1] /\ opening # <<>>
        /\ 1 \in DOMAIN opening /\ 2 \in DOMAIN opening
    BY <1>2
  <2> QED BY <1>2, <2>1 DEF Frames, Now, Host, Outer, Last
<1> QED BY <1>1, <1>2 DEF Frames

----------------------------------------------------------------------------
(* open                                                                     *)

\* Every open starts with nothing opened yet.
LEMMA InitIInv == Init => IInv
<1> SUFFICES ASSUME Init PROVE IInv
  OBVIOUS
<1>1. Types
  <2>1. registry \in Seq(Others \cup Ours)
    <3>1. PICK S \in SUBSET (Others \cup {"sfaad"}) : registry \in SetToSeqs(S \cup {"hybrid"})
      BY DEF Init
    <3>2. registry \in [1 .. Cardinality(S \cup {"hybrid"}) -> S \cup {"hybrid"}]
      BY <3>1 DEF SetToSeqs
    <3>3. Cardinality(S \cup {"hybrid"}) \in Nat
      <4>1. IsFiniteSet(S)
        BY DispatchAssumption, FS_Subset, FS_AddElement
      <4> QED BY <4>1, FS_AddElement, FS_CardinalityType
    <3>4. S \cup {"hybrid"} \subseteq Others \cup Ours
      BY DEF Ours
    <3> DEFINE n == Cardinality(S \cup {"hybrid"})
               E == Others \cup Ours
    <3>5. registry \in [1 .. n -> E] /\ n \in Nat
      BY <3>2, <3>3, <3>4
    <3> HIDE DEF n, E
    <3>6. registry \in Seq(E)
      BY <3>5
    <3> QED BY <3>6 DEF E
  <2> QED BY <2>1 DEF Init, Types
<1>2. PICK e \in Ours \cap ToSet(registry) : opening = <<Call(e, reason, "host")>>
  BY DEF Init
<1>3. /\ opening = <<opening[1]>> /\ DOMAIN opening = {1} /\ Len(opening) = 1
      /\ opening[1] = [self |-> e, for |-> reason, into |-> "host", todo |-> <<"check">>]
      /\ phase = "opening"
  BY <1>2 DEF Call, Init
<1>4. Frames
  <2>1. /\ opening[1].self = e /\ opening[1].for = reason /\ opening[1].into = "host"
        /\ opening[1].todo = <<"check">>
    BY <1>3
  <2>2. <<"check">> \in HybridLeft /\ <<"check">> \in SfaadLeft
        /\ <<"check">> \notin {<<"reader", "fdec">>, <<"fdec">>} /\ <<"check">> # <<"reader">>
    BY DEF HybridLeft, SfaadLeft
  <2> HIDE DEF Ours
  <2> QED BY <1>3, <2>1, <2>2 DEF Frames
<1>5. Host = opening[1] /\ Host.todo = <<"check">> /\ Outer = e
  BY <1>3 DEF Host, Outer, Last
<1>6. Checked
  BY <1>5 DEF Checked, Init
<1>7. ~HasMain /\ ~HasAdd /\ ~HasReader /\ ~HasFdec
  BY <1>3, <1>5 DEF HasMain, HasAdd, HasReader, HasFdec
<1>8. \A c \in Ours : \A f \in Fields[c] : obj[c][f] = Unset
  BY DEF Init
<1>9. Holds
  BY <1>7, <1>8 DEF Holds, Held, Fields, Ours
<1>10. Noted /\ Refused /\ UsesWhatIsSet /\ InfoExplained
  BY <1>3, <1>8 DEF Noted, Refused, UsesWhatIsSet, InfoExplained, Init, Fields, Ours
<1> QED BY <1>1, <1>4, <1>6, <1>9, <1>10 DEF IInv

\* While open is under way no method has been called, and open calls none.
LEMMA OpenNotes ==
  ASSUME IInv, phase = "opening", Types', UNCHANGED <<reason, ready, written, pending, told,
                                              unset, informed>>,
         phase' # "failed" => obj'["hybrid"]["bitrate_add"] = obj["hybrid"]["bitrate_add"]
  PROVE  Noted' /\ UsesWhatIsSet' /\ InfoExplained'
<1>1. /\ ~informed' /\ ~ready' /\ ~pending' /\ written' = 0 /\ told' = Nothing /\ unset' = {}
      /\ obj["hybrid"]["bitrate_add"] = Unset
  BY DEF IInv, Noted
<1> QED BY <1>1 DEF Noted, UsesWhatIsSet, InfoExplained

\* An exception leaves the call the application made, which has failed for a reason.
LEMMA ThrowKeeps ==
  ASSUME IInv, phase = "opening", Throw,
         UNCHANGED <<setting, tak, ready, written, pending, told, unset, informed, hadTak>>,
         Others \cap works # {} => Excuse
  PROVE  IInv'
<1>1. /\ opening' = <<Host>> /\ Host' = Host /\ Outer' = Outer /\ phase' = "failed"
      /\ opening'[1] = Host /\ DOMAIN opening' = {1}
  <2>1. SubSeq(opening, Len(opening), Len(opening)) = <<Host>>
    <3>1. CASE opening = <<opening[1]>> /\ Len(opening) = 1 /\ Host = opening[1]
      <4> QED BY <3>1, LastOnly
    <3>2. CASE opening = <<opening[1], opening[2]>> /\ Len(opening) = 2 /\ Host = opening[2]
      <4> QED BY <3>2, LastOnly
    <3> QED BY <3>1, <3>2, FramesSay DEF IInv
  <2>2. opening' = <<Host>> /\ phase' = "failed"
    BY <2>1 DEF Throw
  <2> QED BY <2>2 DEF Host, Outer, Last
<1>2. /\ UNCHANGED <<registry, works, reason, tak, obj, isAdd, hadTak>>
  BY DEF Throw, setting
<1>3. Types'
  BY <1>1, <1>2 DEF IInv, Types
<1>4. Frames'
  <2>1. \E i \in DOMAIN opening : Host = opening[i]
    BY FramesSay DEF IInv
  <2>2. /\ Host = [self |-> Host.self, for |-> reason, into |-> Host.into, todo |-> Host.todo]
        /\ Host.self \in Ours
        /\ Host.todo \in IF Host.self = "hybrid" THEN HybridLeft ELSE SfaadLeft
        /\ Host.todo \in {<<"reader", "fdec">>, <<"fdec">>} => reason = "decode"
        /\ Host.todo = <<"reader">> => reason = "info_read"
    BY <2>1 DEF IInv, Frames
  <2> QED BY <1>1, <1>2, <2>2 DEF Frames
<1>5. Checked'
  BY <1>1, <1>2 DEF IInv, Checked
<1>6. Holds'
  BY <1>1 DEF Holds
<1>7. Noted' /\ UsesWhatIsSet' /\ InfoExplained'
  BY <1>1, <1>3, OpenNotes DEF setting
<1>8. Refused'
  <2>1. FirstOf(Others)' = FirstOf(Others)
    BY <1>2, FirstSame
  <2>2. Excuse => Excuse'
    BY <1>1, <1>2, <2>1 DEF Excuse, Adds
  <2> QED BY <1>2, <2>2 DEF Refused
<1> QED BY <1>3, <1>4, <1>5, <1>6, <1>7, <1>8 DEF IInv

\* The call under way goes on with `rest'; the others wait.
LEMMA ContinueSays ==
  ASSUME Frames, NEW rest, Continue(rest), reason' = reason
  PROVE  /\ opening'[1] = [self |-> Now.self, for |-> reason, into |-> Now.into, todo |-> rest]
         /\ DOMAIN opening' = DOMAIN opening /\ 1 \in DOMAIN opening
         /\ \A i \in DOMAIN opening : i # 1 => opening'[i] = opening[i]
         /\ \/ /\ opening = <<opening[1]>> /\ opening' = <<opening'[1]>>
               /\ Host = Now /\ Host' = opening'[1] /\ Host'.todo = rest
            \/ /\ opening = <<opening[1], opening[2]>> /\ Host' = Host
               /\ opening' = <<opening'[1], opening[2]>> /\ opening'[2] = opening[2]
               /\ Now.self = "sfaad" /\ Host = opening[2] /\ Host.todo = <<"main">>
               /\ Host.self = "hybrid" /\ reason = "decode" /\ isAdd
         /\ Outer' = Outer
<1>1. /\ Now = opening[1]
      /\ Now = [self |-> Now.self, for |-> reason, into |-> Now.into, todo |-> Now.todo]
  BY FramesSay DEF Frames
<1>2. opening' = [opening EXCEPT ![1] = [Now EXCEPT !.todo = rest]]
  BY <1>1 DEF Continue
<1>3. [Now EXCEPT !.todo = rest] =
        [self |-> Now.self, for |-> reason, into |-> Now.into, todo |-> rest]
  BY <1>1
<1> DEFINE n == [self |-> Now.self, for |-> reason, into |-> Now.into, todo |-> rest]
<1>4. n.self = Now.self /\ n.todo = rest
  OBVIOUS
<1> HIDE DEF n
<1>5. opening' = [opening EXCEPT ![1] = n]
  BY <1>2, <1>3 DEF n
<1>6. CASE opening = <<opening[1]>> /\ Len(opening) = 1 /\ Host = opening[1]
  <2>1. opening' = <<n>> /\ opening'[1] = n /\ DOMAIN opening' = {1} /\ DOMAIN opening = {1}
    BY <1>5, <1>6
  <2>2. Host' = n /\ Outer' = n.self /\ Outer = Now.self
    BY <2>1, <1>6, <1>1 DEF Host, Outer, Last
  <2> QED BY <1>1, <1>4, <1>6, <2>1, <2>2 DEF n
<1>7. CASE opening = <<opening[1], opening[2]>> /\ Len(opening) = 2 /\ Host = opening[2]
  <2>1. /\ opening' = <<n, opening[2]>> /\ opening'[1] = n /\ opening'[2] = opening[2]
        /\ DOMAIN opening' = {1, 2} /\ DOMAIN opening = {1, 2}
    BY <1>5, <1>7
  <2>2. Len(opening') = 2 /\ opening # <<opening[1]>>
    BY <2>1, <1>7
  <2>3. Host' = opening[2] /\ Outer' = Outer
    BY <2>1, <2>2, <1>7 DEF Host, Outer, Last
  <2>4. /\ Now.self = "sfaad" /\ Host.todo = <<"main">> /\ Host.self = "hybrid"
        /\ reason = "decode" /\ isAdd
    BY <1>1, <1>7, <2>2 DEF Frames
  <2> QED BY <1>1, <1>7, <2>1, <2>3, <2>4 DEF n
<1> QED BY <1>6, <1>7, FramesSay

\* The calls keep their form if what is left is right for the class of the first.
LEMMA ContinueFrames ==
  ASSUME Frames, NEW rest, Continue(rest), phase = "opening", phase' = phase, reason' = reason,
         Host # Now => isAdd' = isAdd,
         rest \in IF Now.self = "hybrid" THEN HybridLeft ELSE SfaadLeft,
         rest \in {<<"reader", "fdec">>, <<"fdec">>} => reason = "decode",
         rest = <<"reader">> => reason = "info_read"
  PROVE  Frames'
<1>1. /\ opening'[1].self = Now.self /\ opening'[1].for = reason
      /\ opening'[1].into = Now.into /\ opening'[1].todo = rest
  <2>1. opening'[1] = [self |-> Now.self, for |-> reason, into |-> Now.into, todo |-> rest]
    BY ContinueSays
  <2> QED BY <2>1
<1>2. Now.self \in Ours /\ Now = opening[1]
  BY FramesSay
<1>3. \A i \in DOMAIN opening' :
       /\ opening'[i] = [self |-> opening'[i].self, for |-> reason, into |-> opening'[i].into,
                        todo |-> opening'[i].todo]
       /\ opening'[i].self \in Ours
       /\ opening'[i].todo \in IF opening'[i].self = "hybrid" THEN HybridLeft ELSE SfaadLeft
       /\ opening'[i].todo \in {<<"reader", "fdec">>, <<"fdec">>} => reason = "decode"
       /\ opening'[i].todo = <<"reader">> => reason = "info_read"
  <2> SUFFICES ASSUME NEW i \in DOMAIN opening'
       PROVE /\ opening'[i] = [self |-> opening'[i].self, for |-> reason, into |-> opening'[i].into,
                        todo |-> opening'[i].todo]
             /\ opening'[i].self \in Ours
             /\ opening'[i].todo \in IF opening'[i].self = "hybrid" THEN HybridLeft ELSE SfaadLeft
             /\ opening'[i].todo \in {<<"reader", "fdec">>, <<"fdec">>} => reason = "decode"
             /\ opening'[i].todo = <<"reader">> => reason = "info_read"
    OBVIOUS
  <2>1. CASE i = 1
    <3>1. opening'[1] = [self |-> opening'[1].self, for |-> reason, into |-> opening'[1].into,
                        todo |-> opening'[1].todo]
      BY <1>1, ContinueSays
    <3> HIDE DEF Ours
    <3> QED BY <1>1, <1>2, <2>1, <3>1
  <2>2. CASE i # 1
    <3>1. opening'[i] = opening[i] /\ i \in DOMAIN opening
      BY <2>2, ContinueSays
    <3> QED BY <3>1 DEF Frames
  <2> QED BY <2>1, <2>2
<1>4. \/ opening' = <<opening'[1]>>
      \/ /\ opening' = <<opening'[1], opening'[2]>>
         /\ phase' = "opening" /\ reason' = "decode" /\ isAdd'
         /\ opening'[1].self = "sfaad" /\ opening'[1].into = "input"
         /\ opening'[2].self = "hybrid" /\ opening'[2].todo = <<"main">>
  <2>1. CASE Host' = opening'[1] /\ opening' = <<opening'[1]>>
    BY <2>1
  <2>2. CASE /\ opening = <<opening[1], opening[2]>> /\ Host = opening[2]
             /\ opening' = <<opening'[1], opening[2]>> /\ opening'[2] = opening[2]
             /\ Now.self = "sfaad" /\ Host.self = "hybrid" /\ Host.todo = <<"main">>
             /\ reason = "decode" /\ isAdd
    <3>1. opening # <<opening[1]>> /\ Now # Host
      BY <2>2
    <3>2. Now.into = "input"
      BY <1>2, <3>1 DEF Frames
    <3> QED BY <1>1, <2>2, <3>1, <3>2
  <2> QED BY <2>1, <2>2, ContinueSays
<1> QED BY <1>3, <1>4 DEF Frames

\* If open gets no further with the decoders, the fields hold what they held.
LEMMA HoldsSame ==
  ASSUME Holds, phase # "failed", obj' = obj, reason' = reason,
         HasMain' <=> HasMain, HasAdd' <=> HasAdd, HasReader' <=> HasReader,
         HasFdec' <=> HasFdec, HasMain => (Adds' <=> Adds)
  PROVE  Holds'
BY DEF Holds, Held, MainOf

\* What every step of open leaves alone.
Quiet == UNCHANGED <<setting, tak, ready, written, pending, told, unset, informed>>

LEMMA CheckHybridKeeps ==
  ASSUME IInv, Quiet, Check_Hybrid
  PROVE  IInv'
<1>1. /\ phase = "opening" /\ Now.self = "hybrid" /\ Now.todo = <<"check">>
      /\ phase' = phase /\ obj' = obj /\ reason' = reason /\ tak' = tak
      /\ (isAdd' <=> tak /\ reason # "info_write") /\ isAdd' \in BOOLEAN /\ hadTak' = tak
      /\ tak \in BOOLEAN
  <2>1. Now.for = reason /\ Now = opening[1] /\ 1 \in DOMAIN opening
    BY FramesSay DEF IInv, Frames
  <2>2. Now.self = "hybrid" /\ Now.todo \in HybridLeft /\ Head(Now.todo) = "check"
        /\ Now.todo # <<>>
    BY <2>1 DEF IInv, Frames, Check_Hybrid, Does
  <2>3. Now.todo = <<"check">>
    BY <2>2 DEF HybridLeft
  <2> QED BY <2>1, <2>3 DEF Check_Hybrid, Does, Quiet, setting, IInv, Types
<1>2. PICK rest : Continue(rest)
                  /\ rest = CASE reason = "decode" /\ tak -> <<"sfaad", "add", "main">>
                              [] reason = "info_read" /\ tak -> <<"main", "add">>
                              [] OTHER                        -> <<"main">>
  <2>1. Now.for = reason
    BY FramesSay DEF IInv
  <2> QED BY <2>1 DEF Check_Hybrid
<1>3. /\ reason = "decode" /\ tak => rest = <<"sfaad", "add", "main">>
      /\ reason = "info_read" /\ tak => rest = <<"main", "add">>
      /\ ~(reason = "decode" /\ tak) /\ ~(reason = "info_read" /\ tak) => rest = <<"main">>
  BY <1>2
<1>4. /\ Host = Now /\ Host' = opening'[1] /\ Host'.todo = rest /\ Outer' = Outer
      /\ Outer = "hybrid" /\ opening'[1].self = "hybrid" /\ Now = opening[1]
  <2>1. Host = Now /\ Host' = opening'[1] /\ Host'.todo = rest /\ Outer' = Outer
    BY <1>1, <1>2, ContinueSays DEF IInv
  <2>2. Outer = Host.self /\ Outer' = Host.self
    BY <2>1, FramesSay DEF IInv
  <2>3. opening'[1] = [self |-> Now.self, for |-> reason, into |-> Now.into, todo |-> rest]
    BY <1>1, <1>2, ContinueSays DEF IInv
  <2> QED BY <1>1, <2>1, <2>2, <2>3, FramesSay DEF IInv
<1>5. /\ rest \in {<<"sfaad", "add", "main">>, <<"main", "add">>, <<"main">>}
      /\ tak \in BOOLEAN /\ reason \in Reasons
  BY <1>3 DEF IInv, Types
<1>6. Types'
  BY <1>1, <1>5 DEF IInv, Types, Quiet, setting
<1>7. Frames'
  <2>1. rest \in HybridLeft /\ rest \notin {<<"reader", "fdec">>, <<"fdec">>, <<"reader">>}
    BY <1>5 DEF HybridLeft
  <2> QED BY <1>1, <1>2, <1>4, <2>1, ContinueFrames DEF IInv
<1>8. Checked'
  <2>1. CASE reason = "decode" /\ tak
    BY <1>1, <1>3, <1>4, <2>1 DEF Checked
  <2>2. CASE reason = "info_read" /\ tak
    BY <1>1, <1>3, <1>4, <2>2 DEF Checked
  <2>3. CASE ~(reason = "decode" /\ tak) /\ ~(reason = "info_read" /\ tak)
    BY <1>1, <1>3, <1>4, <1>5, <2>3 DEF Checked, Reasons
  <2> QED BY <2>1, <2>2, <2>3
<1>9. /\ ~HasMain /\ ~HasAdd /\ ~HasReader /\ ~HasFdec
      /\ ~HasMain' /\ ~HasAdd' /\ ~HasReader' /\ ~HasFdec'
  <2>1. ~HasMain /\ ~HasAdd /\ ~HasReader /\ ~HasFdec
    BY <1>1, <1>4 DEF HasMain, HasAdd, HasReader, HasFdec
  <2>2. rest = <<"main">> => ~isAdd'
    BY <1>1, <1>3, <1>5 DEF Reasons
  <2>3. rest \notin {<<"add">>, <<>>}
    BY <1>5
  <2>4. ~HasMain' /\ ~HasAdd' /\ ~HasReader' /\ ~HasFdec'
    BY <1>1, <1>4, <2>2, <2>3 DEF HasMain, HasAdd, HasReader, HasFdec
  <2> QED BY <2>1, <2>4
<1>10. Holds'
  BY <1>1, <1>9, HoldsSame DEF IInv
<1>11. Noted' /\ UsesWhatIsSet' /\ InfoExplained'
  BY <1>1, <1>6, OpenNotes DEF Quiet, setting
<1>12. Refused'
  BY <1>1 DEF Refused
<1> QED BY <1>6, <1>7, <1>8, <1>10, <1>11, <1>12 DEF IInv

LEMMA CheckSfaadKeeps ==
  ASSUME IInv, Quiet, Check_Sfaad
  PROVE  IInv'
<1>1. /\ phase = "opening" /\ Now.self = "sfaad" /\ Now.todo = <<"check">>
      /\ reason' = reason /\ tak' = tak /\ hadTak' = hadTak /\ Now.for = reason
      /\ Now = opening[1] /\ reason \in Reasons
  <2>1. Now.for = reason /\ Now = opening[1] /\ 1 \in DOMAIN opening
    BY FramesSay DEF IInv, Frames
  <2>2. Now.self = "sfaad" /\ Now.todo \in SfaadLeft /\ Head(Now.todo) = "check"
        /\ Now.todo # <<>>
    BY <2>1 DEF IInv, Frames, Check_Sfaad, Does
  <2>3. Now.todo = <<"check">>
    BY <2>2 DEF SfaadLeft
  <2> QED BY <2>1, <2>3 DEF Check_Sfaad, Does, Quiet, setting, IInv, Types
<1>2. CASE reason = "info_write"
  <2>1. Throw
    BY <1>1, <1>2 DEF Check_Sfaad
  <2>2. Outer = "sfaad"
    BY <1>1, <1>2, FramesSay DEF IInv
  <2>3. Excuse
    BY <1>2, <2>2 DEF Excuse
  <2> QED BY <1>1, <2>1, <2>3, ThrowKeeps DEF Quiet
<1>3. CASE reason # "info_write"
  <2> DEFINE rest == IF reason = "decode" THEN <<"reader", "fdec">> ELSE <<"reader">>
  <2>1. /\ Continue(rest) /\ UNCHANGED <<phase, obj, isAdd>>
    BY <1>1, <1>3 DEF Check_Sfaad
  <2>2. /\ rest \in SfaadLeft
        /\ rest \in {<<"reader", "fdec">>, <<"fdec">>} => reason = "decode"
        /\ rest = <<"reader">> => reason = "info_read"
        /\ rest \notin {<<>>, <<"fdec">>}
    BY <1>1, <1>3 DEF SfaadLeft, Reasons
  <2> HIDE DEF rest
  <2>3. Types'
    BY <1>1, <2>1 DEF IInv, Types, Quiet, setting
  <2>4. Frames'
    BY <1>1, <2>1, <2>2, ContinueFrames DEF IInv
  <2>5. /\ opening'[1] = [self |-> "sfaad", for |-> reason, into |-> Now.into, todo |-> rest]
        /\ Outer' = Outer /\ Outer = Host.self
        /\ \/ Host = Now /\ Host' = opening'[1]
           \/ Host' = Host
    BY <1>1, <2>1, ContinueSays, FramesSay DEF IInv
  <2>6. opening'[1].self = "sfaad" /\ opening'[1].todo = rest
    BY <2>5
  <2>7. /\ Outer = "hybrid" => Host' = Host
    BY <1>1, <2>5
  <2>8. Checked'
    BY <1>1, <1>3, <2>1, <2>5, <2>7 DEF IInv, Checked
  <2>9. (HasMain' <=> HasMain) /\ (HasAdd' <=> HasAdd) /\ (Adds' <=> Adds)
    BY <1>1, <2>1, <2>5, <2>7 DEF HasMain, HasAdd, Adds
  <2>10. (HasReader' <=> HasReader) /\ (HasFdec' <=> HasFdec)
    <3>1. opening[1].todo = <<"check">> /\ opening[1].self = "sfaad"
      BY <1>1
    <3> QED BY <1>1, <2>2, <2>6, <2>9, <3>1 DEF HasReader, HasFdec
  <2>11. Holds'
    BY <1>1, <2>1, <2>9, <2>10, HoldsSame DEF IInv
  <2>12. Noted' /\ UsesWhatIsSet' /\ InfoExplained'
    BY <1>1, <2>1, <2>3, OpenNotes DEF Quiet, setting
  <2>13. Refused'
    BY <1>1, <2>1 DEF Refused
  <2> QED BY <2>3, <2>4, <2>8, <2>11, <2>12, <2>13 DEF IInv
<1> QED BY <1>2, <1>3

\* Which call takes a step, and what it has left then.
LEMMA DoesSays ==
  ASSUME IInv, NEW step, Does(step)
  PROVE  /\ phase = "opening" /\ Now = opening[1] /\ Now.for = reason /\ Outer = Host.self
         /\ step = "sfaad" => Now.self = "hybrid" /\ Now.todo = <<"sfaad", "add", "main">>
         /\ step = "add" => Now.self = "hybrid" /\ Now.todo \in {<<"add", "main">>, <<"add">>}
         /\ step = "main" => Now.self = "hybrid" /\ Now.todo \in {<<"main">>, <<"main", "add">>}
         /\ step = "reader" =>
              Now.self = "sfaad" /\ Now.todo \in {<<"reader", "fdec">>, <<"reader">>}
         /\ step = "fdec" => Now.self = "sfaad" /\ Now.todo = <<"fdec">>
         /\ Now.self = "hybrid" => Host = Now /\ Outer = "hybrid"
                                   /\ opening = <<opening[1]>> /\ Len(opening) = 1
         /\ Now.self = "sfaad" => \/ Host = Now /\ Outer = "sfaad"
                                  \/ /\ Outer = "hybrid" /\ Host.todo = <<"main">>
                                     /\ reason = "decode" /\ isAdd
<1>1. /\ phase = "opening" /\ Now = opening[1] /\ Now.for = reason /\ Outer = Host.self
      /\ 1 \in DOMAIN opening /\ Now.self \in Ours
  BY FramesSay DEF IInv, Frames, Does
<1>2. Now.todo \in IF Now.self = "hybrid" THEN HybridLeft ELSE SfaadLeft
  BY <1>1 DEF IInv, Frames
<1>3. Head(Now.todo) = step /\ Now.todo # <<>>
  BY DEF Does
<1>4. CASE Now.self = "hybrid"
  <2>1. /\ step = "sfaad" => Now.todo = <<"sfaad", "add", "main">>
        /\ step = "add" => Now.todo \in {<<"add", "main">>, <<"add">>}
        /\ step = "main" => Now.todo \in {<<"main">>, <<"main", "add">>}
        /\ step \notin {"reader", "fdec"}
    BY <1>2, <1>3, <1>4 DEF HybridLeft
  <2>2. Host = Now /\ opening = <<opening[1]>> /\ Len(opening) = 1
    <3>1. CASE opening = <<opening[1]>> /\ Len(opening) = 1 /\ Host = opening[1]
      BY <1>1, <3>1
    <3>2. CASE opening = <<opening[1], opening[2]>> /\ Len(opening) = 2
      <4>1. opening # <<opening[1]>>
        BY <3>2
      <4> QED BY <4>1, <1>1, <1>4 DEF IInv, Frames
    <3> QED BY <3>1, <3>2, FramesSay DEF IInv
  <2> QED BY <1>1, <1>4, <2>1, <2>2
<1>5. CASE Now.self = "sfaad"
  <2>1. /\ step = "reader" => Now.todo \in {<<"reader", "fdec">>, <<"reader">>}
        /\ step = "fdec" => Now.todo = <<"fdec">>
        /\ step \notin {"sfaad", "add", "main"}
    BY <1>2, <1>3, <1>5 DEF SfaadLeft
  <2>2. \/ Host = Now
        \/ Host.self = "hybrid" /\ Host.todo = <<"main">> /\ reason = "decode" /\ isAdd
    <3>1. CASE opening = <<opening[1]>> /\ Len(opening) = 1 /\ Host = opening[1]
      BY <1>1, <3>1
    <3>2. CASE opening = <<opening[1], opening[2]>> /\ Len(opening) = 2 /\ Host = opening[2]
      <4>1. opening # <<opening[1]>>
        BY <3>2
      <4> QED BY <3>2, <4>1, <1>1, <1>4 DEF IInv, Frames
    <3> QED BY <3>1, <3>2, FramesSay DEF IInv
  <2> QED BY <1>1, <1>5, <2>1, <2>2
<1> QED BY <1>1, <1>4, <1>5 DEF Ours

\* After the first step input_hybrid knows of the .tak file.
LEMMA KnowsAdd ==
  ASSUME IInv, Outer = "hybrid", Host.todo # <<"check">>
  PROVE  isAdd <=> Adds
BY DEF IInv, Checked, Adds

LEMMA FindSfaadKeeps ==
  ASSUME IInv, Quiet, FindSfaad
  PROVE  IInv'
<1>1. /\ phase = "opening" /\ Now = opening[1] /\ Now.self = "hybrid" /\ Host = Now
      /\ Outer = "hybrid" /\ Now.todo = <<"sfaad", "add", "main">> /\ hadTak' = hadTak
      /\ reason' = reason
  BY DoesSays DEF FindSfaad, Quiet, setting
<1>2. isAdd /\ reason = "decode" /\ Adds
  BY <1>1, KnowsAdd DEF IInv, Checked
<1>3. CASE Found("sfaad") = 0
  <2>1. \A i \in 1 .. Len(registry) : registry[i] # "sfaad"
    <3>1. Found("sfaad") = FirstOf({"sfaad"})
      BY DEF Found, Acceptable
    <3>2. registry \in Seq(Others \cup Ours)
      BY DEF IInv, Types
    <3>3. 0 \notin 1 .. Len(registry)
      BY <3>2
    <3> QED BY <1>3, <3>1, <3>2, <3>3, FirstSays
  <2>2. DOMAIN registry = 1 .. Len(registry)
    BY DEF IInv, Types
  <2>3. "sfaad" \notin ToSet(registry)
    BY <2>1, <2>2 DEF ToSet
  <2>4. Excuse
    BY <1>2, <2>3 DEF Excuse
  <2>5. Throw
    BY <1>3 DEF FindSfaad
  <2> QED BY <1>1, <2>4, <2>5, ThrowKeeps DEF Quiet
<1>4. CASE Found("sfaad") # 0
  <2> DEFINE rest == <<"add", "main">>
  <2>1. Continue(rest) /\ UNCHANGED <<phase, obj, isAdd>>
    BY <1>1, <1>4 DEF FindSfaad
  <2>2. /\ opening'[1] = [self |-> Now.self, for |-> reason, into |-> Now.into, todo |-> rest]
        /\ Host' = opening'[1] /\ Outer' = Outer /\ Host'.todo = rest
    <3>1. Host.todo # <<"main">>
      BY <1>1
    <3> QED BY <1>1, <2>1, <3>1, ContinueSays DEF IInv
  <2>3. opening'[1].self = "hybrid" /\ opening'[1].todo = rest
    BY <1>1, <2>2
  <2>4. Types'
    BY <1>1, <2>1 DEF IInv, Types, Quiet, setting
  <2>5. Frames'
    <3>1. rest \in HybridLeft /\ rest \notin {<<"reader", "fdec">>, <<"fdec">>, <<"reader">>}
      BY DEF HybridLeft
    <3> HIDE DEF rest
    <3> QED BY <1>1, <2>1, <3>1, ContinueFrames DEF IInv
  <2>6. Checked'
    BY <1>1, <1>2, <2>1, <2>2 DEF Checked, Adds
  <2>7. /\ HasMain' <=> HasMain
        /\ HasAdd' <=> HasAdd
        /\ HasReader' <=> HasReader
        /\ HasFdec' <=> HasFdec
        /\ ~HasMain
    BY <1>1, <2>2, <2>3 DEF HasMain, HasAdd, HasReader, HasFdec
  <2>8. Holds'
    BY <1>1, <2>1, <2>7, HoldsSame DEF IInv
  <2>9. Noted' /\ UsesWhatIsSet' /\ InfoExplained'
    BY <1>1, <2>1, <2>4, OpenNotes DEF Quiet, setting
  <2>10. Refused'
    BY <1>1, <2>1 DEF Refused
  <2> QED BY <2>4, <2>5, <2>6, <2>8, <2>9, <2>10 DEF IInv
<1> QED BY <1>3, <1>4

LEMMA OpenAddKeeps ==
  ASSUME IInv, Quiet, OpenAdd
  PROVE  IInv'
<1>1. /\ phase = "opening" /\ Now = opening[1] /\ Now.self = "hybrid" /\ Host = Now
      /\ Outer = "hybrid" /\ Now.todo \in {<<"add", "main">>, <<"add">>} /\ hadTak' = hadTak
      /\ reason' = reason /\ Now.for = reason
  BY DoesSays DEF OpenAdd, Quiet, setting
<1>2. /\ isAdd /\ Adds
      /\ Now.todo = <<"add", "main">> => reason = "decode"
      /\ Now.todo = <<"add">> => reason = "info_read"
  BY <1>1, KnowsAdd DEF IInv, Checked
<1>3. CASE ~(tak /\ "tak" \in works)
  <2>1. Excuse
    BY <1>2, <1>3 DEF Excuse
  <2>2. Throw
    BY <1>3 DEF OpenAdd
  <2> QED BY <1>1, <2>1, <2>2, ThrowKeeps DEF Quiet
<1>4. CASE tak /\ "tak" \in works
  <2> DEFINE rest == Tail(Now.todo)
             into == IF reason = "decode" THEN "input_add" ELSE "info_reader_add"
             v    == Value("tak", reason)
  <2>1. Continue(rest) /\ UNCHANGED <<phase, isAdd>> /\ Store("hybrid", into, v)
    BY <1>1, <1>4 DEF OpenAdd
  <2>2. \/ Now.todo = <<"add", "main">> /\ rest = <<"main">> /\ reason = "decode"
        \/ Now.todo = <<"add">> /\ rest = <<>> /\ reason = "info_read"
    <3>1. CASE Now.todo = <<"add", "main">>
      <4>1. Tail(<<"add", "main">>) = <<"main">>
        OBVIOUS
      <4> QED BY <3>1, <4>1, <1>2
    <3>2. CASE Now.todo = <<"add">>
      <4>1. Tail(<<"add">>) = <<>>
        OBVIOUS
      <4> QED BY <3>2, <4>1, <1>2
    <3> QED BY <3>1, <3>2, <1>1
  <2> HIDE DEF rest
  <2>3. /\ opening'[1] = [self |-> Now.self, for |-> reason, into |-> Now.into, todo |-> rest]
        /\ Host' = opening'[1] /\ Outer' = Outer /\ Host'.todo = rest
    <3>1. Host.todo # <<"main">>
      BY <1>1
    <3> QED BY <1>1, <2>1, <3>1, ContinueSays DEF IInv
  <2>4. opening'[1].self = "hybrid" /\ opening'[1].todo = rest
    BY <1>1, <2>3
  <2>5. /\ obj' = [c \in Ours |-> [f \in Fields[c] |-> obj'[c][f]]]
        /\ \A c \in Ours : \A f \in Fields[c] :
              obj'[c][f] = IF c = "hybrid" /\ f \in Aliases(into) THEN v ELSE obj[c][f]
    <3> HIDE DEF into, v
    <3>1. Types /\ "hybrid" \in Ours
      BY DEF IInv, Ours
    <3> QED BY <2>1, <3>1, StoreSays
  <2>6. Types'
    BY <1>1, <2>1, <2>5 DEF IInv, Types, Quiet, setting
  <2>7. Frames'
    <3>1. rest \in HybridLeft /\ rest \notin {<<"reader", "fdec">>, <<"fdec">>, <<"reader">>}
      BY <2>2 DEF HybridLeft
    <3> QED BY <1>1, <2>1, <3>1, ContinueFrames DEF IInv
  <2>8. Checked'
    BY <1>1, <1>2, <2>1, <2>2, <2>3 DEF Checked, Adds
  <2>9. /\ HasMain' <=> HasMain
        /\ ~HasAdd /\ HasAdd' /\ (Adds' <=> Adds)
        /\ HasReader' <=> HasReader
        /\ HasFdec' <=> HasFdec
        /\ reason = "decode" => ~HasMain
    BY <1>1, <1>2, <2>1, <2>2, <2>3, <2>4 DEF HasMain, HasAdd, HasReader, HasFdec, Adds
  <2>10. Holds'
    <3>1. Aliases(into) = IF reason = "decode" THEN {"input_add", "info_reader_add"}
                          ELSE {"info_reader_add"}
      BY <2>2, AliasesSay
    <3>2. v = Value(v.of, reason) /\ v.of = "tak"
      BY DEF Value
    <3> HIDE DEF into, v
    <3>3. /\ \A f \in {"input", "info_reader", "info_writer"} :
                obj'["hybrid"][f] = obj["hybrid"][f]
          /\ \A f \in {"info_reader", "fdec"} : obj'["sfaad"][f] = obj["sfaad"][f]
          /\ obj'["hybrid"]["info_reader_add"] = v
          /\ obj'["hybrid"]["input_add"] =
                IF reason = "decode" THEN v ELSE obj["hybrid"]["input_add"]
      BY <2>5, <3>1 DEF Fields, Ours
    <3> QED BY <1>1, <2>9, <3>2, <3>3 DEF IInv, Holds, Held, MainOf
  <2>11. Noted' /\ UsesWhatIsSet' /\ InfoExplained'
    <3>1. "bitrate_add" \notin Aliases(into)
      BY <2>2, AliasesSay
    <3>2. obj'["hybrid"]["bitrate_add"] = obj["hybrid"]["bitrate_add"]
      BY <2>5, <3>1 DEF Fields, Ours
    <3> QED BY <1>1, <2>1, <2>6, <3>2, OpenNotes DEF Quiet, setting
  <2>12. Refused'
    BY <1>1, <2>1 DEF Refused
  <2> QED BY <2>6, <2>7, <2>8, <2>10, <2>11, <2>12 DEF IInv
<1> QED BY <1>3, <1>4

\* input_sfaad opens its reader and its fdec, on its own or for input_hybrid, whose own
\* decoders stay what they were.
LEMMA SfaadStores ==
  ASSUME IInv, Quiet, phase = "opening", Now.self = "sfaad", Now.todo # <<>>,
         NEW f \in {"info_reader", "fdec"}, NEW v, Store("sfaad", f, v), NEW rest,
         Continue(rest), UNCHANGED <<phase, isAdd, hadTak>>,
         \/ /\ f = "info_reader" /\ v = Value(v.of, "info_read") /\ v.of \in Others
            /\ Now.todo \in {<<"reader", "fdec">>, <<"reader">>}
            /\ rest = IF reason = "decode" THEN <<"fdec">> ELSE <<>>
         \/ /\ f = "fdec" /\ v = Value("main", "decode") /\ Now.todo = <<"fdec">> /\ rest = <<>>
  PROVE  IInv'
<1>1. /\ Now = opening[1] /\ Now.for = reason /\ reason' = reason /\ Outer = Host.self
      /\ Now.todo \in {<<"reader", "fdec">>, <<"fdec">>} => reason = "decode"
      /\ Now.todo = <<"reader">> => reason = "info_read"
  <2>1. Now = opening[1] /\ 1 \in DOMAIN opening
    BY FramesSay DEF IInv, Frames
  <2> QED BY <2>1, FramesSay DEF Quiet, setting, IInv, Frames
<1>2. /\ opening'[1] = [self |-> "sfaad", for |-> reason, into |-> Now.into, todo |-> rest]
      /\ Outer' = Outer
      /\ \/ Host = Now /\ Host' = opening'[1]
         \/ Host' = Host /\ Host.self = "hybrid"
  BY <1>1, ContinueSays, FramesSay DEF IInv
<1>3. opening'[1].self = "sfaad" /\ opening'[1].todo = rest
  BY <1>2
<1>4. Outer = "hybrid" => Host' = Host
  BY <1>1, <1>2
<1>5. /\ obj' = [c \in Ours |-> [g \in Fields[c] |-> obj'[c][g]]]
      /\ \A c \in Ours : \A g \in Fields[c] :
            obj'[c][g] = IF c = "sfaad" /\ g = f THEN v ELSE obj[c][g]
  <2>1. Types /\ "sfaad" \in Ours
    BY DEF IInv, Ours
  <2>2. Aliases(f) = {f}
    BY AliasesSay
  <2> QED BY <2>1, <2>2, StoreSays
<1>6. Types'
  BY <1>1, <1>5 DEF IInv, Types, Quiet, setting
<1>7. Frames'
  <2>1. /\ rest \in SfaadLeft
        /\ rest \in {<<"reader", "fdec">>, <<"fdec">>} => reason = "decode"
        /\ rest # <<"reader">>
    BY DEF SfaadLeft
  <2> QED BY <1>1, <2>1, ContinueFrames DEF IInv
<1>8. Checked'
  BY <1>1, <1>2, <1>4 DEF IInv, Checked
<1>9. (HasMain' <=> HasMain) /\ (HasAdd' <=> HasAdd) /\ (Adds' <=> Adds)
  BY <1>1, <1>2, <1>4 DEF HasMain, HasAdd, Adds
<1>10. ~(HasMain /\ Adds /\ reason = "decode")
  <2>1. Outer = "hybrid" => Host.todo = <<"main">>
    BY <1>1, ContinueSays DEF IInv
  <2> QED BY <2>1 DEF HasMain
<1>11. \A g \in Fields["hybrid"] : obj'["hybrid"][g] = obj["hybrid"][g]
  BY <1>5 DEF Ours
<1>12. CASE f = "info_reader"
  <2>1. HasReader' /\ ~HasReader
    BY <1>1, <1>3, <1>10, <1>12 DEF HasReader
  <2>2. ~HasFdec' /\ ~HasFdec
    BY <1>1, <1>3, <1>9, <1>10, <1>12 DEF HasFdec
  <2>3. obj'["sfaad"]["info_reader"] = v /\ obj'["sfaad"]["fdec"] = obj["sfaad"]["fdec"]
    BY <1>5, <1>12 DEF Fields, Ours
  <2> QED
    <3>1. Holds'
      BY <1>1, <1>9, <1>11, <1>12, <2>1, <2>2, <2>3 DEF IInv, Holds, Held, MainOf, Fields
    <3>2. Noted' /\ UsesWhatIsSet' /\ InfoExplained'
      BY <1>1, <1>6, <1>11, OpenNotes DEF Quiet, setting, Fields
    <3> QED BY <1>6, <1>7, <1>8, <3>1, <3>2 DEF IInv, Refused
<1>13. CASE f = "fdec"
  <2>1. HasReader' /\ HasReader
    BY <1>1, <1>3, <1>13 DEF HasReader
  <2>2. HasFdec' /\ ~HasFdec
    BY <1>1, <1>3, <1>9, <1>10, <1>13 DEF HasFdec
  <2>3. /\ obj'["sfaad"]["info_reader"] = obj["sfaad"]["info_reader"]
        /\ obj'["sfaad"]["fdec"] = v /\ v = Value(v.of, "decode") /\ v.of = "main"
    BY <1>5, <1>13 DEF Fields, Ours, Value
  <2> QED
    <3>1. Holds'
      BY <1>1, <1>9, <1>11, <1>13, <2>1, <2>2, <2>3 DEF IInv, Holds, Held, MainOf, Fields
    <3>2. Noted' /\ UsesWhatIsSet' /\ InfoExplained'
      BY <1>1, <1>6, <1>11, OpenNotes DEF Quiet, setting, Fields
    <3> QED BY <1>6, <1>7, <1>8, <3>1, <3>2 DEF IInv, Refused
<1> QED BY <1>12, <1>13

LEMMA InitFdecKeeps ==
  ASSUME IInv, Quiet, InitFdec
  PROVE  IInv'
<1>1. /\ phase = "opening" /\ Now.self = "sfaad" /\ Now.todo = <<"fdec">> /\ hadTak' = hadTak
      /\ Now = opening[1] /\ 1 \in DOMAIN opening
  BY DoesSays, FramesSay DEF InitFdec, IInv, Frames
<1>2. reason = "decode"
  BY <1>1 DEF IInv, Frames
<1>3. CASE "sfaad" \notin works
  <2>1. Outer = "sfaad" \/ Adds
    <3>1. Outer = "sfaad" \/ (Outer = "hybrid" /\ Host.todo = <<"main">> /\ isAdd)
      BY <1>1, DoesSays DEF InitFdec
    <3>2. Host.todo = <<"main">> => Host.todo # <<"check">>
      OBVIOUS
    <3> QED BY <3>1, <3>2, KnowsAdd
  <2>2. Excuse
    BY <1>2, <1>3, <2>1 DEF Excuse
  <2>3. Throw
    BY <1>3 DEF InitFdec
  <2> QED BY <1>1, <2>2, <2>3, ThrowKeeps DEF Quiet
<1>4. CASE "sfaad" \in works
  <2>1. /\ Store("sfaad", "fdec", Value("main", "decode"))
        /\ Continue(Tail(Now.todo)) /\ UNCHANGED <<phase, isAdd>>
    BY <1>4 DEF InitFdec
  <2>2. Tail(Now.todo) = <<>>
    <3>1. Tail(<<"fdec">>) = <<>>
      OBVIOUS
    <3> QED BY <3>1, <1>1
  <2>3. Now.todo # <<>>
    BY <1>1
  <2> QED BY <1>1, <2>1, <2>2, <2>3, SfaadStores
<1> QED BY <1>3, <1>4

\* What get_input_entry finds among the entries not from here.
LEMMA FoundSays ==
  ASSUME IInv
  PROVE  /\ Found("other") = FirstOf(Others)
         /\ Found("other") # 0 => registry[Found("other")] \in Others
                                  /\ registry[Found("other")] \notin Ours
         /\ Found("sfaad") # 0 => registry[Found("sfaad")] = "sfaad"
         /\ Found("sfaad") = 0 => "sfaad" \notin ToSet(registry)
<1>1. Found("other") = FirstOf(Others) /\ Found("sfaad") = FirstOf({"sfaad"})
  BY DEF Found, Acceptable
<1>2. registry \in Seq(Others \cup Ours)
  BY DEF IInv, Types
<1>3. 0 \notin 1 .. Len(registry) /\ DOMAIN registry = 1 .. Len(registry)
  BY <1>2
<1>4. Found("other") # 0 => registry[Found("other")] \in Others
  BY <1>1, <1>2, FirstSays
<1>5. Found("sfaad") # 0 => registry[Found("sfaad")] = "sfaad"
  BY <1>1, <1>2, FirstSays
<1>6. Found("sfaad") = 0 => \A i \in 1 .. Len(registry) : registry[i] # "sfaad"
  BY <1>1, <1>2, <1>3, FirstSays
<1>7. Found("sfaad") = 0 => "sfaad" \notin ToSet(registry)
  BY <1>3, <1>6 DEF ToSet
<1>8. Others \cap Ours = {}
  BY DispatchAssumption
<1> QED BY <1>1, <1>4, <1>5, <1>7, <1>8

\* The main file, with a decoder not from here.
LEMMA OpenOtherKeeps ==
  ASSUME IInv, Quiet, Does("main"), ~(reason = "decode" /\ isAdd), NEW e \in Others,
         Store("hybrid", MainField(reason), Value(e, reason)), Continue(Tail(Now.todo)),
         UNCHANGED <<phase, isAdd, hadTak>>
  PROVE  IInv'
<1> DEFINE rest == Tail(Now.todo)
           v    == Value(e, reason)
           into == MainField(reason)
<1>1. /\ phase = "opening" /\ Now = opening[1] /\ Now.self = "hybrid" /\ Host = Now
      /\ Outer = "hybrid" /\ Now.todo \in {<<"main">>, <<"main", "add">>}
      /\ reason' = reason /\ Now.for = reason /\ reason \in Reasons
  BY DoesSays DEF Quiet, setting, IInv, Types
<1>2. isAdd <=> Adds
  <2>1. Host.todo # <<"check">>
    BY <1>1
  <2> QED BY <1>1, <2>1, KnowsAdd
<1>3. /\ Now.todo = <<"main">> => rest = <<>> /\ ~isAdd
      /\ Now.todo = <<"main", "add">> => rest = <<"add">> /\ isAdd /\ reason = "info_read"
  <2>1. Tail(<<"main">>) = <<>> /\ Tail(<<"main", "add">>) = <<"add">>
    OBVIOUS
  <2>2. /\ Host.todo = <<"main">> => ~isAdd
        /\ Host.todo = <<"main", "add">> => isAdd /\ reason = "info_read"
    BY <1>1 DEF IInv, Checked
  <2> QED BY <1>1, <2>1, <2>2
<1>4. rest \in {<<>>, <<"add">>}
  BY <1>1, <1>3
<1> HIDE DEF rest
<1>5. /\ opening'[1] = [self |-> Now.self, for |-> reason, into |-> Now.into, todo |-> rest]
      /\ Outer' = Outer
      /\ Host' = opening'[1] /\ Host'.todo = rest
  <2>1. Continue(rest)
    BY DEF rest
  <2>2. /\ opening'[1] = [self |-> Now.self, for |-> reason, into |-> Now.into, todo |-> rest]
        /\ Outer' = Outer
        /\ \/ Host' = opening'[1] /\ Host'.todo = rest
           \/ Now.self = "sfaad"
    BY <1>1, <2>1, ContinueSays DEF IInv
  <2> QED BY <1>1, <2>2
<1>6. opening'[1].self = "hybrid" /\ opening'[1].todo = rest
  BY <1>1, <1>5
<1>7. Aliases(into) = IF reason = "decode" THEN {"input", "info_reader"}
                      ELSE IF reason = "info_read" THEN {"info_reader"}
                      ELSE {"info_writer", "info_reader"}
  BY <1>1, AliasesSay DEF Reasons
<1>8. v = Value(v.of, reason) /\ v.of \in Others
  BY DEF Value
<1>9. /\ obj' = [c \in Ours |-> [f \in Fields[c] |-> obj'[c][f]]]
      /\ \A c \in Ours : \A f \in Fields[c] :
            obj'[c][f] = IF c = "hybrid" /\ f \in Aliases(into) THEN v ELSE obj[c][f]
  <2>1. Types /\ "hybrid" \in Ours /\ Store("hybrid", into, v)
    BY DEF IInv, Ours
  <2> HIDE DEF into, v
  <2> QED BY <2>1, StoreSays
<1> HIDE DEF into, v
<1>10. Types'
  BY <1>1, <1>9 DEF IInv, Types, Quiet, setting
<1>11. Frames'
  <2>1. rest \in HybridLeft /\ rest \notin {<<"reader", "fdec">>, <<"fdec">>, <<"reader">>}
    BY <1>4 DEF HybridLeft
  <2>2. Continue(rest)
    BY DEF rest
  <2> QED BY <1>1, <2>1, <2>2, ContinueFrames DEF IInv
<1>12. Checked'
  BY <1>1, <1>2, <1>3, <1>5 DEF Checked, Adds
<1>13. ~HasMain /\ HasMain'
  BY <1>1, <1>4, <1>5 DEF HasMain
<1>14. ~HasAdd /\ ~HasAdd' /\ (Adds' <=> Adds)
  BY <1>1, <1>3, <1>5 DEF HasAdd, Adds
<1>15. ~HasReader /\ ~HasReader' /\ ~HasFdec /\ ~HasFdec'
  BY <1>1, <1>2, <1>6, <1>14 DEF HasReader, HasFdec
<1>16. MainOf' = Others
  BY <1>1, <1>2, <1>14 DEF MainOf
<1>17. /\ \A f \in {"input_add", "info_reader_add", "bitrate_add"} :
             obj'["hybrid"][f] = obj["hybrid"][f]
       /\ \A f \in {"info_reader", "fdec"} : obj'["sfaad"][f] = obj["sfaad"][f]
       /\ obj'["hybrid"]["info_reader"] = v
       /\ obj'["hybrid"]["input"] = IF reason = "decode" THEN v ELSE obj["hybrid"]["input"]
       /\ obj'["hybrid"]["info_writer"] =
             IF reason = "info_write" THEN v ELSE obj["hybrid"]["info_writer"]
  BY <1>1, <1>7, <1>9 DEF Fields, Ours, Reasons
<1>18. Holds'
  BY <1>1, <1>8, <1>13, <1>14, <1>15, <1>16, <1>17 DEF IInv, Holds, Held
<1>19. Noted' /\ UsesWhatIsSet' /\ InfoExplained'
  BY <1>1, <1>10, <1>17, OpenNotes DEF Quiet, setting
<1>20. Refused'
  BY <1>1 DEF Refused
<1> QED BY <1>10, <1>11, <1>12, <1>18, <1>19, <1>20 DEF IInv

\* The main file of one with a .tak file, with input_sfaad.
LEMMA OpenSfaadKeeps ==
  ASSUME IInv, Quiet, Does("main"), reason = "decode", isAdd,
         opening' = <<Call("sfaad", reason, MainField(reason))>> \o opening,
         UNCHANGED <<phase, obj, isAdd, hadTak>>
  PROVE  IInv'
<1>1. /\ phase = "opening" /\ Now = opening[1] /\ Now.self = "hybrid" /\ Host = Now
      /\ Outer = "hybrid" /\ Now.todo \in {<<"main">>, <<"main", "add">>}
      /\ reason' = reason /\ opening = <<opening[1]>> /\ Len(opening) = 1
  BY DoesSays DEF Quiet, setting
<1>2. Now.todo = <<"main">>
  BY <1>1 DEF IInv, Checked
<1> DEFINE n == [self |-> "sfaad", for |-> reason, into |-> "input", todo |-> <<"check">>]
<1>3. n.self = "sfaad" /\ n.for = reason /\ n.into = "input" /\ n.todo = <<"check">>
  OBVIOUS
<1>4. opening' = <<n>> \o <<opening[1]>>
  BY <1>1, AliasesSay DEF Call
<1> HIDE DEF n
<1>5. /\ opening' = <<n, opening[1]>> /\ Len(opening') = 2 /\ DOMAIN opening' = {1, 2}
      /\ opening'[1] = n /\ opening'[2] = Now
  <2>1. opening' = <<n, opening[1]>>
    BY <1>4, Pair
  <2> QED BY <1>1, <2>1, Pair
<1>6. Host' = Now /\ Outer' = Outer
  BY <1>1, <1>5 DEF Host, Outer, Last
<1>7. Types'
  BY <1>1 DEF IInv, Types, Quiet, setting
<1>8. Frames'
  <2>1. n = [self |-> n.self, for |-> reason, into |-> n.into, todo |-> n.todo]
    BY <1>3 DEF n
  <2>2. n.self \in Ours /\ n.todo \in SfaadLeft
    BY <1>3 DEF Ours, SfaadLeft
  <2>3. /\ n.todo \notin {<<"reader", "fdec">>, <<"fdec">>} /\ n.todo # <<"reader">>
    BY <1>3
  <2>4. /\ Now = [self |-> Now.self, for |-> reason, into |-> Now.into, todo |-> Now.todo]
        /\ Now.self \in Ours /\ Now.todo \in HybridLeft
        /\ Now.todo \notin {<<"reader", "fdec">>, <<"fdec">>} /\ Now.todo # <<"reader">>
    <3>1. 1 \in DOMAIN opening
      BY <1>1
    <3> QED BY <1>1, <1>2, <3>1 DEF IInv, Frames
  <2> HIDE DEF Ours
  <2>5. \A i \in DOMAIN opening' :
          /\ opening'[i] = [self |-> opening'[i].self, for |-> reason,
                            into |-> opening'[i].into, todo |-> opening'[i].todo]
          /\ opening'[i].self \in Ours
          /\ opening'[i].todo \in IF opening'[i].self = "hybrid" THEN HybridLeft ELSE SfaadLeft
          /\ opening'[i].todo \in {<<"reader", "fdec">>, <<"fdec">>} => reason = "decode"
          /\ opening'[i].todo = <<"reader">> => reason = "info_read"
    BY <1>1, <1>3, <1>5, <2>1, <2>2, <2>3, <2>4
  <2>6. /\ opening' = <<opening'[1], opening'[2]>> /\ opening'[1].self = "sfaad"
        /\ opening'[1].into = "input" /\ opening'[2].self = "hybrid"
        /\ opening'[2].todo = <<"main">>
    BY <1>1, <1>2, <1>3, <1>5
  <2> QED BY <1>1, <2>5, <2>6 DEF Frames
<1>9. Checked'
  BY <1>1, <1>6 DEF IInv, Checked
<1>10. /\ HasMain' <=> HasMain
       /\ HasAdd' <=> HasAdd
       /\ ~HasMain /\ ~HasReader /\ ~HasFdec
       /\ ~HasReader' /\ ~HasFdec'
  BY <1>1, <1>2, <1>3, <1>5, <1>6 DEF HasMain, HasAdd, HasReader, HasFdec
<1>11. Holds'
  BY <1>1, <1>10, HoldsSame DEF IInv
<1>12. Noted' /\ UsesWhatIsSet' /\ InfoExplained'
  BY <1>1, <1>7, OpenNotes DEF Quiet, setting
<1> QED BY <1>1, <1>7, <1>8, <1>9, <1>11, <1>12 DEF IInv, Refused

LEMMA OpenEntryKeeps ==
  ASSUME IInv, Quiet, NEW step \in {"main", "reader"}, OpenEntry(step)
  PROVE  IInv'
<1>1. Does(step) /\ hadTak' = hadTak /\ phase = "opening" /\ Now.for = reason
  BY DoesSays DEF OpenEntry
<1> DEFINE found == Found(Wanted(step))
           e     == registry[found]
<1>2. CASE found = 0 \/ (e \in Others /\ e \notin works)
  <2>1. Throw
    BY <1>2 DEF OpenEntry
  <2>2. Wanted(step) \in {"sfaad", "other"}
    BY DEF Wanted
  <2>3. CASE Wanted(step) = "other"
    <3>1. Excuse
      BY <1>2, <2>3, FoundSays DEF Excuse
    <3> QED BY <1>1, <2>1, <3>1, ThrowKeeps DEF Quiet
  <2>4. CASE Wanted(step) = "sfaad"
    <3>1. step = "main" /\ reason = "decode" /\ isAdd
      BY <1>1, <2>4 DEF Wanted
    <3>2. found = 0
      <4>1. "sfaad" \notin Others
        BY DispatchAssumption DEF Ours
      <4> QED BY <1>2, <2>4, <4>1, FoundSays
    <3>3. "sfaad" \notin ToSet(registry)
      BY <2>4, <3>2, FoundSays
    <3>4. Adds
      <4>1. Outer = "hybrid" /\ Host.todo # <<"check">>
        BY <1>1, <3>1, DoesSays
      <4> QED BY <3>1, <4>1, KnowsAdd
    <3>5. Excuse
      BY <3>1, <3>3, <3>4 DEF Excuse
    <3> QED BY <1>1, <2>1, <3>5, ThrowKeeps DEF Quiet
  <2> QED BY <2>2, <2>3, <2>4
<1>3. CASE ~(found = 0 \/ (e \in Others /\ e \notin works))
  <2>1. CASE step = "reader"
    <3>1. Wanted(step) = "other" /\ Purpose(step) = "info_read" /\ Target(step) = "info_reader"
      BY <2>1 DEF Wanted, Purpose, Target
    <3>2. e \in Others /\ e \notin Ours
      BY <1>3, <3>1, FoundSays
    <3>3. /\ Store(Now.self, "info_reader", Value(e, "info_read"))
          /\ Continue(Tail(Now.todo)) /\ UNCHANGED <<phase, isAdd>>
      BY <1>3, <3>1, <3>2 DEF OpenEntry
    <3>4. Now.self = "sfaad" /\ Now.todo \in {<<"reader", "fdec">>, <<"reader">>}
      BY <1>1, <2>1, DoesSays
    <3>5. Tail(Now.todo) = IF reason = "decode" THEN <<"fdec">> ELSE <<>>
      <4>1. Tail(<<"reader", "fdec">>) = <<"fdec">> /\ Tail(<<"reader">>) = <<>>
        OBVIOUS
      <4>2. /\ Now.todo \in {<<"reader", "fdec">>, <<"fdec">>} => reason = "decode"
            /\ Now.todo = <<"reader">> => reason = "info_read"
        <5>1. Now = opening[1] /\ 1 \in DOMAIN opening
          BY FramesSay DEF IInv, Frames
        <5> QED BY <5>1 DEF IInv, Frames
      <4> QED BY <3>4, <4>1, <4>2
    <3> DEFINE v == Value(e, "info_read")
    <3>6. v = Value(v.of, "info_read") /\ v.of \in Others
      BY <3>2 DEF Value
    <3>7. Now.todo # <<>>
      BY <3>4
    <3> HIDE DEF v
    <3>8. Store("sfaad", "info_reader", v)
      BY <3>3, <3>4 DEF v
    <3> QED BY <1>1, <3>3, <3>4, <3>5, <3>6, <3>7, <3>8, SfaadStores
  <2>2. CASE step = "main" /\ reason = "decode" /\ isAdd
    <3>1. Wanted(step) = "sfaad" /\ Purpose(step) = reason /\ Target(step) = MainField(reason)
      BY <1>1, <2>2 DEF Wanted, Purpose, Target
    <3>2. e = "sfaad" /\ e \in Ours
      BY <1>3, <3>1, FoundSays DEF Ours
    <3>3. /\ opening' = <<Call("sfaad", reason, MainField(reason))>> \o opening
          /\ UNCHANGED <<phase, obj, isAdd>>
      BY <1>3, <3>1, <3>2 DEF OpenEntry
    <3> QED BY <1>1, <2>2, <3>3, OpenSfaadKeeps
  <2>3. CASE step = "main" /\ ~(reason = "decode" /\ isAdd)
    <3>1. Wanted(step) = "other" /\ Purpose(step) = reason /\ Target(step) = MainField(reason)
      BY <1>1, <2>3 DEF Wanted, Purpose, Target
    <3>2. e \in Others /\ e \notin Ours
      BY <1>3, <3>1, FoundSays
    <3>3. /\ Store(Now.self, MainField(reason), Value(e, reason))
          /\ Continue(Tail(Now.todo)) /\ UNCHANGED <<phase, isAdd>>
      BY <1>3, <3>1, <3>2 DEF OpenEntry
    <3>4. Now.self = "hybrid"
      BY <1>1, <2>3, DoesSays
    <3> QED BY <1>1, <2>3, <3>2, <3>3, <3>4, OpenOtherKeeps
  <2> QED BY <2>1, <2>2, <2>3
<1> QED BY <1>2, <1>3

\* open is done, to the host's use or to that of input_hybrid's open.
LEMMA ReturnKeeps ==
  ASSUME IInv, Quiet, Return, UNCHANGED <<isAdd, hadTak>>
  PROVE  IInv'
<1>1. /\ phase = "opening" /\ Now = opening[1] /\ Now.todo = <<>> /\ reason' = reason
      /\ Outer = Host.self /\ 1 \in DOMAIN opening
  BY FramesSay DEF Return, IInv, Frames, Quiet, setting
<1>2. CASE Len(opening) = 1
  <2>1. phase' = "open" /\ opening' = opening /\ obj' = obj
    BY <1>2 DEF Return
  <2>2. opening = <<opening[1]>> /\ Host = Now
    BY <1>1, <1>2, FramesSay DEF IInv
  <2>3. Host' = Host /\ Outer' = Outer
    BY <2>1 DEF Host, Outer
  <2>4. Types'
    BY <1>1, <2>1 DEF IInv, Types, Quiet, setting
  <2>5. Frames'
    BY <1>1, <2>1, <2>2 DEF IInv, Frames
  <2>6. Checked'
    BY <1>1, <2>1, <2>3 DEF IInv, Checked
  <2>7. /\ HasMain' <=> HasMain
        /\ HasAdd' <=> HasAdd
        /\ HasReader' <=> HasReader
        /\ HasFdec' <=> HasFdec
        /\ Adds' <=> Adds
    BY <1>1, <2>1, <2>3 DEF HasMain, HasAdd, HasReader, HasFdec, Adds
  <2>8. Holds'
    BY <1>1, <2>1, <2>7, HoldsSame DEF IInv
  <2>9. Noted' /\ UsesWhatIsSet' /\ InfoExplained'
    BY <1>1, <2>1, <2>4, OpenNotes DEF Quiet, setting
  <2>10. Refused'
    BY <2>1 DEF Refused
  <2> QED BY <2>4, <2>5, <2>6, <2>8, <2>9, <2>10 DEF IInv
<1>3. CASE Len(opening) > 1
  <2>1. /\ Store(opening[2].self, Now.into, Value(Now.self, Now.for))
        /\ opening' = [Tail(opening) EXCEPT ![1].todo = Tail(@)] /\ phase' = phase
    BY <1>3 DEF Return
  <2>2. /\ opening = <<opening[1], opening[2]>> /\ Len(opening) = 2 /\ Host = opening[2]
        /\ reason = "decode" /\ isAdd /\ Now.for = reason
    BY <1>1, <1>3, FramesSay DEF IInv
  <2>3. opening # <<opening[1]>>
    BY <2>2
  <2>4. /\ Now.self = "sfaad" /\ Now.into = "input" /\ Host.self = "hybrid"
        /\ Host.todo = <<"main">>
        /\ Host = [self |-> Host.self, for |-> reason, into |-> Host.into, todo |-> Host.todo]
    <3>1. 2 \in DOMAIN opening
      BY <2>2
    <3> QED BY <1>1, <2>2, <2>3, <3>1 DEF IInv, Frames
  <2> DEFINE n == [self |-> "hybrid", for |-> reason, into |-> Host.into, todo |-> <<>>]
             v == Value("sfaad", "decode")
  <2>5. n.self = "hybrid" /\ n.for = reason /\ n.into = Host.into /\ n.todo = <<>>
    OBVIOUS
  <2>6. opening' = <<n>>
    <3>1. Tail(opening) = <<Host>>
      <4>1. Tail(<<opening[1], opening[2]>>) = <<opening[2]>>
        BY Pair
      <4> QED BY <4>1, <2>2
    <3>2. [<<Host>> EXCEPT ![1].todo = Tail(@)] = <<[Host EXCEPT !.todo = Tail(@)]>>
      BY LeaveOne
    <3>3. Tail(Host.todo) = <<>>
      <4>1. Tail(<<"main">>) = <<>>
        OBVIOUS
      <4> QED BY <4>1, <2>4
    <3>4. [Host EXCEPT !.todo = Tail(@)] = n
      BY <2>4, <3>3
    <3> QED BY <2>1, <3>1, <3>2, <3>4
  <2> HIDE DEF n
  <2>7. opening'[1] = n /\ DOMAIN opening' = {1} /\ opening' = <<opening'[1]>>
    BY <2>6
  <2>8. Host' = n /\ Outer' = Outer /\ Outer = "hybrid"
    BY <1>1, <2>4, <2>5, <2>6 DEF Host, Outer, Last
  <2>9. Adds /\ Adds'
    <3>1. Host.todo # <<"check">>
      BY <2>4
    <3>2. Adds
      BY <2>2, <2>8, <3>1, KnowsAdd
    <3> QED BY <1>1, <2>8, <3>2 DEF Adds
  <2>10. /\ obj' = [c \in Ours |-> [f \in Fields[c] |-> obj'[c][f]]]
         /\ \A c \in Ours : \A f \in Fields[c] :
               obj'[c][f] = IF c = "hybrid" /\ f \in {"input", "info_reader"} THEN v
                            ELSE obj[c][f]
    <3>1. Store("hybrid", "input", v)
      BY <2>1, <2>2, <2>4
    <3>2. Types /\ "hybrid" \in Ours
      BY DEF IInv, Ours
    <3> HIDE DEF v
    <3> QED BY <3>1, <3>2, StoreSays, AliasesSay
  <2>11. Types'
    BY <1>1, <2>1, <2>10 DEF IInv, Types, Quiet, setting
  <2>12. Frames'
    <3>1. n = [self |-> n.self, for |-> reason, into |-> n.into, todo |-> n.todo]
      BY <2>5 DEF n
    <3>2. <<>> \in HybridLeft /\ n.self \in Ours
      BY <2>5 DEF HybridLeft, Ours
    <3>3. <<>> \notin {<<"reader", "fdec">>, <<"fdec">>} /\ <<>> # <<"reader">>
      OBVIOUS
    <3> HIDE DEF Ours
    <3> QED BY <1>1, <2>5, <2>7, <3>1, <3>2, <3>3 DEF Frames
  <2>13. Checked'
    BY <1>1, <2>2, <2>5, <2>8, <2>9 DEF Checked, Adds
  <2>14. /\ HasMain' /\ HasAdd /\ HasAdd' /\ HasReader /\ HasReader' /\ HasFdec /\ HasFdec'
         /\ ~HasMain
    BY <1>1, <2>2, <2>4, <2>5, <2>7, <2>8, <2>9 DEF HasMain, HasAdd, HasReader, HasFdec
  <2>15. v = Value(v.of, "decode") /\ v.of \in {"sfaad"} /\ MainOf' = {"sfaad"}
    BY <1>1, <2>2, <2>9 DEF Value, MainOf
  <2> HIDE DEF v
  <2>16. /\ \A f \in {"input_add", "info_reader_add", "info_writer", "bitrate_add"} :
               obj'["hybrid"][f] = obj["hybrid"][f]
         /\ \A f \in {"info_reader", "fdec"} : obj'["sfaad"][f] = obj["sfaad"][f]
         /\ obj'["hybrid"]["info_reader"] = v /\ obj'["hybrid"]["input"] = v
    BY <2>10 DEF Fields, Ours
  <2>17. Holds'
    BY <1>1, <2>2, <2>14, <2>15, <2>16 DEF IInv, Holds, Held
  <2>18. Noted' /\ UsesWhatIsSet' /\ InfoExplained'
    BY <1>1, <2>11, <2>16, OpenNotes DEF Quiet, setting
  <2> QED BY <1>1, <2>1, <2>11, <2>12, <2>13, <2>17, <2>18 DEF IInv, Refused
<1>4. Len(opening) = 1 \/ Len(opening) > 1
  BY FramesSay DEF IInv
<1> QED BY <1>2, <1>3, <1>4

\* The .tak file goes: what was found of it stays.
LEMMA DeleteKeeps ==
  ASSUME IInv, Delete
  PROVE  IInv'
<1>1. /\ UNCHANGED <<registry, works, reason, phase, opening, obj, isAdd, ready, written,
                     pending, told, unset, hadTak, informed>>
      /\ tak' \in BOOLEAN /\ phase # "failed"
  BY DEF Delete, setting
<1>2. Host' = Host /\ Outer' = Outer /\ (Adds' <=> Adds)
  BY <1>1 DEF Host, Outer, Adds
<1>3. Types' /\ Frames' /\ Checked'
  BY <1>1, <1>2 DEF IInv, Types, Frames, Checked
<1>4. /\ HasMain' <=> HasMain
      /\ HasAdd' <=> HasAdd
      /\ HasReader' <=> HasReader
      /\ HasFdec' <=> HasFdec
  BY <1>1, <1>2 DEF HasMain, HasAdd, HasReader, HasFdec
<1>5. Holds'
  BY <1>1, <1>2, <1>4, HoldsSame DEF IInv
<1>6. Noted'
  BY <1>1, <1>2 DEF IInv, Noted
<1>7. UsesWhatIsSet' /\ InfoExplained' /\ Refused'
  BY <1>1, <1>2 DEF IInv, UsesWhatIsSet, InfoExplained, Refused
<1> QED BY <1>3, <1>5, <1>6, <1>7 DEF IInv

----------------------------------------------------------------------------
(* the methods                                                              *)

\* A field that holds a decoder is set.
LEMMA HeldSays ==
  ASSUME NEW c, NEW f, NEW has, NEW entries, NEW for, "none" \notin entries,
         Held(c, f, has, entries, for), has
  PROVE  obj[c][f] # Unset /\ obj[c][f].of \in entries /\ obj[c][f].for = for
<1>1. obj[c][f] = Value(obj[c][f].of, for) /\ obj[c][f].of \in entries
  BY DEF Held
<1>2. \A x : Value(x, for).of = x /\ Value(x, for).for = for
  BY DEF Value
<1>3. Unset.of = "none"
  BY DEF Unset, Value
<1> QED BY <1>1, <1>2, <1>3

\* input_hybrid has input_sfaad decode the main file.
Beneath == Adds /\ reason = "decode"

\* The fields of an open file that hold a decoder, and no others do.
LEMMA OpenedSays ==
  ASSUME IInv, phase = "open"
  PROVE  /\ Outer \in Ours /\ (Adds <=> Added) /\ reason \in Reasons
         /\ Outer = "sfaad" => reason # "info_write"
         /\ obj["hybrid"]["info_reader"] # Unset <=> Outer = "hybrid"
         /\ obj["hybrid"]["input"] # Unset <=> Outer = "hybrid" /\ reason = "decode"
         /\ obj["hybrid"]["info_writer"] # Unset <=> Outer = "hybrid" /\ reason = "info_write"
         /\ obj["hybrid"]["input_add"] # Unset <=> Beneath
         /\ obj["hybrid"]["info_reader_add"] # Unset <=> Adds
         /\ obj["sfaad"]["info_reader"] # Unset <=> Outer = "sfaad" \/ Beneath
         /\ obj["sfaad"]["fdec"] # Unset <=> reason = "decode" /\ (Outer = "sfaad" \/ Adds)
         /\ Outer = "hybrid" => /\ obj["hybrid"]["info_reader"].for = reason
                                /\ obj["hybrid"]["info_reader"].of = "sfaad" <=> Beneath
         /\ Outer = "hybrid" /\ reason = "decode" =>
              (obj["hybrid"]["input"].of = "sfaad" <=> Beneath)
         /\ Beneath => obj["hybrid"]["input_add"].of = "tak"
<1>1. /\ Now = opening[1] /\ Host = opening[1] /\ Outer = Host.self /\ Host.todo = <<>>
      /\ Outer \in Ours /\ reason \in Reasons
  BY FramesSay DEF IInv, Frames, Types
<1>2. Outer = "sfaad" => ~isAdd /\ ~hadTak /\ reason # "info_write"
  BY <1>1 DEF IInv, Checked
<1>3. Outer = "hybrid" => (isAdd <=> Adds)
  <2>1. Host.todo # <<"check">>
    BY <1>1
  <2> QED BY <2>1, KnowsAdd
<1>4. Adds <=> Added
  BY <1>2, <1>3 DEF Adds, Added
<1>5. /\ HasMain <=> Outer = "hybrid"
      /\ HasAdd <=> Adds
      /\ HasReader <=> Outer = "sfaad" \/ Beneath
      /\ HasFdec <=> reason = "decode" /\ (Outer = "sfaad" \/ Adds)
  BY <1>1, <1>3 DEF HasMain, HasAdd, HasReader, HasFdec, Beneath, Adds, Ours
<1>6. /\ Held("hybrid", "input", HasMain /\ reason = "decode", MainOf, reason)
      /\ Held("hybrid", "info_reader", HasMain, MainOf, reason)
      /\ Held("hybrid", "info_writer", HasMain /\ reason = "info_write", MainOf, reason)
      /\ Held("hybrid", "input_add", HasAdd /\ reason = "decode", {"tak"}, reason)
      /\ Held("hybrid", "info_reader_add", HasAdd, {"tak"}, reason)
      /\ Held("sfaad", "info_reader", HasReader, Others, "info_read")
      /\ Held("sfaad", "fdec", HasFdec, {"main"}, "decode")
  BY DEF IInv, Holds
<1>7. /\ "none" \notin MainOf /\ "none" \notin Others /\ "none" \notin {"tak"}
      /\ "none" \notin {"main"} /\ "sfaad" \notin Others
      /\ MainOf = IF Beneath THEN {"sfaad"} ELSE Others
  BY DispatchAssumption DEF MainOf, Beneath, Ours
<1>8. \A c, f, has, entries, for :
        "none" \notin entries /\ Held(c, f, has, entries, for) /\ has =>
          obj[c][f] # Unset /\ obj[c][f].of \in entries /\ obj[c][f].for = for
  BY HeldSays
<1>9. \A c, f, has, entries, for :
        Held(c, f, has, entries, for) /\ ~has => obj[c][f] = Unset
  BY DEF Held
<1>10. /\ obj["hybrid"]["info_reader"] # Unset <=> Outer = "hybrid"
       /\ Outer = "hybrid" => /\ obj["hybrid"]["info_reader"].for = reason
                              /\ obj["hybrid"]["info_reader"].of \in MainOf
  BY <1>5, <1>6, <1>7, <1>8, <1>9
<1>11. /\ obj["hybrid"]["input"] # Unset <=> Outer = "hybrid" /\ reason = "decode"
       /\ Outer = "hybrid" /\ reason = "decode" => obj["hybrid"]["input"].of \in MainOf
  BY <1>5, <1>6, <1>7, <1>8, <1>9
<1>12. /\ obj["hybrid"]["info_writer"] # Unset <=> Outer = "hybrid" /\ reason = "info_write"
  BY <1>5, <1>6, <1>7, <1>8, <1>9
<1>13. /\ obj["hybrid"]["input_add"] # Unset <=> Beneath
       /\ Beneath => obj["hybrid"]["input_add"].of \in {"tak"}
  BY <1>5, <1>6, <1>7, <1>8, <1>9 DEF Beneath
<1>14. obj["hybrid"]["info_reader_add"] # Unset <=> Adds
  BY <1>5, <1>6, <1>7, <1>8, <1>9
<1>15. obj["sfaad"]["info_reader"] # Unset <=> Outer = "sfaad" \/ Beneath
  BY <1>5, <1>6, <1>7, <1>8, <1>9
<1>16. obj["sfaad"]["fdec"] # Unset <=> reason = "decode" /\ (Outer = "sfaad" \/ Adds)
  BY <1>5, <1>6, <1>7, <1>8, <1>9
<1> QED BY <1>1, <1>2, <1>4, <1>7, <1>10, <1>11, <1>12, <1>13, <1>14, <1>15, <1>16

\* What get_input_entry of either plug-in made of them.
LEMMA ThroughSays ==
  ASSUME IInv, phase = "open", NEW f \in {"info_reader", "input"},
         f = "input" => reason = "decode" /\ Outer = "hybrid"
  PROVE  \A r \in Through(f) : obj[r[1]][r[2]] # Unset
<1> SUFFICES ASSUME NEW r \in Through(f) PROVE obj[r[1]][r[2]] # Unset
  OBVIOUS
<1>1. obj.hybrid = obj["hybrid"]
  OBVIOUS
<1>2. \/ r = <<Outer, f>>
      \/ /\ Outer = "hybrid" /\ obj["hybrid"][f].of = "sfaad"
         /\ r = <<"sfaad", IF f = "input" THEN "fdec" ELSE "info_reader">>
  BY <1>1 DEF Through
<1>3. CASE r = <<Outer, f>>
  <2>1. r[1] = Outer /\ r[2] = f
    BY <1>3
  <2> QED BY <2>1, OpenedSays DEF Ours
<1>4. CASE /\ Outer = "hybrid" /\ obj["hybrid"][f].of = "sfaad"
           /\ r = <<"sfaad", IF f = "input" THEN "fdec" ELSE "info_reader">>
  <2>1. r[1] = "sfaad" /\ r[2] = IF f = "input" THEN "fdec" ELSE "info_reader"
    BY <1>4
  <2>2. Beneath
    BY <1>4, OpenedSays
  <2> QED BY <2>1, <2>2, OpenedSays DEF Beneath
<1> QED BY <1>2, <1>3, <1>4

\* A method leaves the calls of open and what these have stored as they are.
LEMMA MethodKeeps ==
  ASSUME IInv, phase = "open", UNCHANGED <<setting, tak, phase, opening, isAdd, hadTak>>,
         \A f \in {"input", "info_reader", "info_writer", "input_add", "info_reader_add"} :
           obj'["hybrid"][f] = obj["hybrid"][f],
         \A f \in {"info_reader", "fdec"} : obj'["sfaad"][f] = obj["sfaad"][f]
  PROVE  /\ Frames' /\ Checked' /\ Holds' /\ Refused'
         /\ Outer' = Outer /\ (Adds' <=> Adds) /\ (Added' <=> Added)
         /\ phase' = phase /\ reason' = reason
<1>1. UNCHANGED <<registry, works, reason, tak, phase, opening, isAdd, hadTak>>
  BY DEF setting
<1>2. Host' = Host /\ Outer' = Outer /\ (Adds' <=> Adds) /\ (Added' <=> Added)
  BY <1>1 DEF Host, Outer, Adds, Added
<1>3. Frames' /\ Checked'
  BY <1>1, <1>2 DEF IInv, Frames, Checked
<1>4. /\ HasMain' <=> HasMain
      /\ HasAdd' <=> HasAdd
      /\ HasReader' <=> HasReader
      /\ HasFdec' <=> HasFdec
  BY <1>1, <1>2 DEF HasMain, HasAdd, HasReader, HasFdec
<1>5. Holds'
  BY <1>1, <1>2, <1>4 DEF IInv, Holds, Held, MainOf
<1>6. Refused'
  BY <1>1 DEF Refused
<1> QED BY <1>1, <1>2, <1>3, <1>5, <1>6

\* If all that is read is set, the history stays empty.
LEMMA ReadsNothing ==
  ASSUME NEW fields, Reads(fields), \A r \in fields : obj[r[1]][r[2]] # Unset
  PROVE  unset' = {}
BY DEF Reads

\* Setting a field changes that field only.
Formed(o) == o = [c \in Ours |-> [f \in Fields[c] |-> o[c][f]]]

LEMMA SetSays ==
  ASSUME NEW o, Formed(o), NEW c \in Ours, NEW f \in Fields[c], NEW a
  PROVE  /\ Formed([o EXCEPT ![c][f] = a])
         /\ \A d \in Ours : \A g \in Fields[d] :
              [o EXCEPT ![c][f] = a][d][g] = IF d = c /\ g = f THEN a ELSE o[d][g]
BY DEF Formed

LEMMA FieldsSay ==
  /\ "hybrid" \in Ours /\ "sfaad" \in Ours
  /\ "bitrate_add" \in Fields["hybrid"] /\ "bit_per_sample" \in Fields["hybrid"]
  /\ "p_seconds_init" \in Fields["hybrid"] /\ "p_start" \in Fields["hybrid"]
  /\ "p_seconds_init" \in Fields["sfaad"]
BY DEF Ours, Fields

\* A method that reads what is set, and only that, and sets nothing of the objects.
LEMMA ReadingKeeps ==
  ASSUME IInv, phase = "open", UNCHANGED <<setting, tak, phase, opening, isAdd, hadTak>>,
         UNCHANGED <<obj, ready, informed>>, pending' \in BOOLEAN, written' \in Nat,
         unset' = {},
         pending' \/ written' > 0 => reason = "info_write" /\ Outer = "hybrid",
         told' # Nothing => told'.tags = written',
         Adds /\ informed => told' # Nothing /\ told'.bits = {"add"},
         InfoExplained'
  PROVE  IInv'
<1>1. /\ Frames' /\ Checked' /\ Holds' /\ Refused'
      /\ Outer' = Outer /\ (Adds' <=> Adds)
      /\ phase' = phase /\ reason' = reason
  BY MethodKeeps
<1>2. Types'
  BY <1>1 DEF IInv, Types, setting
<1>3. Noted'
  BY <1>1 DEF IInv, Noted
<1>4. UsesWhatIsSet'
  BY DEF UsesWhatIsSet
<1> QED BY <1>1, <1>2, <1>3, <1>4 DEF IInv

\* With nothing told, or the same told again, what was explained still is.
LEMMA ToldAgain ==
  ASSUME IInv, phase = "open", UNCHANGED <<setting, tak, phase, opening, isAdd, hadTak>>,
         told' = told, informed' = informed, written' = written, obj' = obj
  PROVE  InfoExplained'
<1>1. Outer' = Outer /\ reason' = reason /\ hadTak' = hadTak
  BY MethodKeeps
<1> QED BY <1>1 DEF IInv, InfoExplained

\* get_info: it sets the figures of the additional file, and all it says is explained.
LEMMA GetInfoKeeps ==
  ASSUME IInv, GetInfo, UNCHANGED <<setting, tak, phase, opening, isAdd, hadTak>>
  PROVE  IInv'
<1>1. /\ phase = "open" /\ informed' /\ informed' = TRUE /\ ready' = ready
      /\ written' = written /\ pending' = pending /\ (Adds <=> Added)
  BY OpenedSays DEF GetInfo
<1>2. /\ obj' = [c \in Ours |-> [f \in Fields[c] |-> obj'[c][f]]]
      /\ obj'["sfaad"] = obj["sfaad"]
      /\ \A f \in Fields["hybrid"] : f \notin {"bitrate_add", "bit_per_sample"} =>
           obj'["hybrid"][f] = obj["hybrid"][f]
      /\ Adds => /\ obj'["hybrid"]["bitrate_add"] = Value("add", "rate")
                 /\ obj'["hybrid"]["bit_per_sample"] = Value("add", "bits")
      /\ ~Adds => obj' = obj
  <2>1. obj = [c \in Ours |-> [f \in Fields[c] |-> obj[c][f]]]
    BY DEF IInv, Types
  <2>2. CASE Adds
    <3>1. obj' = [obj EXCEPT !.hybrid.bitrate_add    = Value("add", "rate"),
                             !.hybrid.bit_per_sample = Value("add", "bits")]
      BY <1>1, <2>2 DEF GetInfo
    <3> DEFINE a == Value("add", "rate")
               b == Value("add", "bits")
               o == [obj EXCEPT !["hybrid"]["bitrate_add"] = a]
               q == [o EXCEPT !["hybrid"]["bit_per_sample"] = b]
    <3>2. obj' = q
      BY <3>1
    <3>3. Formed(obj)
      BY <2>1 DEF Formed
    <3> HIDE DEF a, b
    <3>4. /\ Formed(o)
          /\ \A d \in Ours : \A g \in Fields[d] :
               o[d][g] = IF d = "hybrid" /\ g = "bitrate_add" THEN a ELSE obj[d][g]
      BY <3>3, FieldsSay DEF Formed
    <3> HIDE DEF o
    <3>5. /\ Formed(q)
          /\ \A d \in Ours : \A g \in Fields[d] :
               q[d][g] = IF d = "hybrid" /\ g = "bit_per_sample" THEN b ELSE o[d][g]
      BY <3>4, SetSays, FieldsSay
    <3> HIDE DEF q
    <3>6. \A g \in Fields["sfaad"] : q["sfaad"][g] = obj["sfaad"][g]
      BY <3>4, <3>5, FieldsSay
    <3>7. q["sfaad"] = obj["sfaad"]
      <4>1. /\ q["sfaad"] = [g \in Fields["sfaad"] |-> q["sfaad"][g]]
            /\ obj["sfaad"] = [g \in Fields["sfaad"] |-> obj["sfaad"][g]]
        BY <3>3, <3>5, FieldsSay DEF Formed
      <4> QED BY <3>6, <4>1
    <3>8. Formed(obj') /\ obj'["sfaad"] = obj["sfaad"]
      BY <3>2, <3>5, <3>7
    <3> QED BY <2>2, <3>2, <3>4, <3>5, <3>8, FieldsSay DEF Formed, a, b
  <2>3. CASE ~Adds
    BY <1>1, <2>1, <2>3 DEF GetInfo
  <2> QED BY <2>2, <2>3
<1>3. /\ \A f \in {"input", "info_reader", "info_writer", "input_add", "info_reader_add"} :
           obj'["hybrid"][f] = obj["hybrid"][f]
      /\ \A f \in {"info_reader", "fdec"} : obj'["sfaad"][f] = obj["sfaad"][f]
  BY <1>2 DEF Fields
<1>4. /\ Frames' /\ Checked' /\ Holds' /\ Refused'
      /\ Outer' = Outer /\ (Adds' <=> Adds) /\ (Added' <=> Added)
      /\ phase' = phase /\ reason' = reason
  BY <1>1, <1>3, MethodKeeps
<1>5. Types'
  BY <1>1, <1>2, <1>4 DEF IInv, Types, setting
<1>6. unset' = {}
  <2> DEFINE fields == Through("info_reader") \cup AddPart({<<"hybrid", "info_reader_add">>})
  <2>1. Reads(fields)
    BY DEF GetInfo
  <2>2. \A r \in Through("info_reader") : obj[r[1]][r[2]] # Unset
    BY <1>1, ThroughSays
  <2>3. \A r \in AddPart({<<"hybrid", "info_reader_add">>}) : obj[r[1]][r[2]] # Unset
    BY <1>1, OpenedSays DEF AddPart
  <2>4. \A r \in fields : obj[r[1]][r[2]] # Unset
    BY <2>2, <2>3
  <2> HIDE DEF fields
  <2> QED BY <2>1, <2>4, ReadsNothing
<1>7. /\ told'.tags = written' /\ told'.rate = {"main"} \cup (IF Adds THEN {"add"} ELSE {})
      /\ Adds => told'.bits = {"add"}
      /\ told'.method = "get_info" /\ told' # Nothing
  <2> DEFINE bits == CASE Added -> {"add"} [] Outer = "sfaad" -> {"32"} [] OTHER -> {"main"}
  <2>1. told' = [method |-> "get_info", tags |-> TagsShown,
                 rate |-> {"main"} \cup AddPart({"add"}), bits |-> bits]
    BY DEF GetInfo
  <2>2. Adds => bits = {"add"}
    <3> SUFFICES ASSUME Adds PROVE bits = {"add"}
      OBVIOUS
    <3>1. Added
      BY <1>1
    <3>2. Outer # "sfaad"
      BY DEF Adds
    <3> QED BY <3>1, <3>2, Zenon
  <2> HIDE DEF bits
  <2>3. AddPart({"add"}) = IF Adds THEN {"add"} ELSE {}
    BY <1>1 DEF AddPart
  <2>4. TagsShown = written
    <3>1. CASE obj[Outer]["info_reader"].for = "info_write"
      BY <3>1 DEF TagsShown
    <3>2. CASE obj[Outer]["info_reader"].for # "info_write"
      <4>1. written = 0
        BY <1>1, <3>2, OpenedSays DEF IInv, Noted, Types
      <4> QED BY <3>2, <4>1 DEF TagsShown
    <3> QED BY <3>1, <3>2
  <2>5. Nothing.method = "none"
    BY DEF Nothing
  <2> QED BY <1>1, <2>1, <2>2, <2>3, <2>4, <2>5
<1>8. Noted'
  <2>1. ready => /\ reason = "decode" /\ obj'["sfaad"]["p_seconds_init"] # Unset
                 /\ Adds => \A f \in {"bit_per_sample", "p_seconds_init", "p_start"} :
                               obj'["hybrid"][f] # Unset
    <3>1. Value("add", "bits") # Unset
      <4>1. Value("add", "bits").of = "add" /\ Unset.of = "none"
        BY DEF Value, Unset
      <4> QED BY <4>1
    <3>2. ready => /\ reason = "decode" /\ obj["sfaad"]["p_seconds_init"] # Unset
                   /\ Adds => \A f \in {"bit_per_sample", "p_seconds_init", "p_start"} :
                               obj["hybrid"][f] # Unset
      BY DEF IInv, Noted
    <3> QED BY <1>2, <3>1, <3>2 DEF Fields
  <2>2. obj'["hybrid"]["bitrate_add"] = IF Adds THEN Value("add", "rate") ELSE Unset
    BY <1>1, <1>2 DEF IInv, Noted
  <2>3. pending \/ written > 0 => reason = "info_write" /\ Outer = "hybrid"
    BY DEF IInv, Noted
  <2> QED BY <1>1, <1>4, <1>7, <2>1, <2>2, <2>3 DEF Noted
<1>9. UsesWhatIsSet'
  BY <1>6 DEF UsesWhatIsSet
<1>10. InfoExplained'
  BY <1>1, <1>4, <1>7 DEF InfoExplained, Adds
<1> QED BY <1>4, <1>5, <1>8, <1>9, <1>10 DEF IInv

\* The decoder of the main file is there wherever something is decoded.
LEMMA MainSays ==
  ASSUME IInv, phase = "open", reason = "decode"
  PROVE  \A r \in Main : obj[r[1]][r[2]] # Unset
<1>1. CASE Outer = "hybrid"
  <2>1. Main = Through("input")
    BY <1>1 DEF Main
  <2> QED BY <1>1, <2>1, ThroughSays
<1>2. CASE Outer = "sfaad"
  <2>1. Main = {<<"sfaad", "fdec">>}
    BY <1>2 DEF Main
  <2> QED BY <1>2, <2>1, OpenedSays
<1> QED BY <1>1, <1>2, OpenedSays DEF Ours

\* What was told before still stands after a method that tells nothing.
LEMMA SilentKeeps ==
  ASSUME IInv, phase = "open", UNCHANGED <<setting, tak, phase, opening, isAdd, hadTak>>,
         UNCHANGED <<obj, ready, written, pending, told, informed>>, unset' = {}
  PROVE  IInv'
<1>1. InfoExplained'
  BY ToldAgain
<1>2. /\ pending \in BOOLEAN /\ written \in Nat
      /\ pending \/ written > 0 => reason = "info_write" /\ Outer = "hybrid"
      /\ told # Nothing => told.tags = written
      /\ Adds /\ informed => told # Nothing /\ told.bits = {"add"}
  BY DEF IInv, Types, Noted
<1>3. pending' = pending /\ written' = written /\ told' = told
  OBVIOUS
<1> QED BY <1>1, <1>2, <1>3, ReadingKeeps

LEMMA GetOtherKeeps ==
  ASSUME IInv, GetOther, UNCHANGED <<setting, tak, phase, opening, isAdd, hadTak>>
  PROVE  IInv'
<1>1. phase = "open" /\ Reads(Through("info_reader"))
  BY DEF GetOther
<1>2. unset' = {}
  BY <1>1, ThroughSays, ReadsNothing
<1>3. UNCHANGED <<obj, ready, written, pending, told, informed>>
  BY DEF GetOther
<1> QED BY <1>1, <1>2, <1>3, SilentKeeps

\* decode_run, decode_seek and the like: what decode_initialize has set is there.
LEMMA DecodeKeeps ==
  ASSUME IInv, UNCHANGED <<setting, tak, phase, opening, isAdd, hadTak>>,
         NEW ofMain \in SUBSET OwnStart,
         NEW ofAdd \in SUBSET {"input_add", "bit_per_sample", "p_start", "p_seconds_init"},
         Decode(ofMain, ofAdd)
  PROVE  IInv'
<1> DEFINE part   == {<<"hybrid", f>> : f \in ofAdd}
           fields == Main \cup ofMain \cup AddPart(part)
<1>1. phase = "open" /\ ready /\ Reads(fields)
  BY DEF Decode
<1>2. /\ reason = "decode" /\ obj["sfaad"]["p_seconds_init"] # Unset
      /\ Adds => \A f \in {"bit_per_sample", "p_seconds_init", "p_start"} :
                   obj["hybrid"][f] # Unset
  BY <1>1 DEF IInv, Noted
<1>3. \A r \in Main : obj[r[1]][r[2]] # Unset
  BY <1>1, <1>2, MainSays
<1>4. \A r \in ofMain : obj[r[1]][r[2]] # Unset
  <2>1. OwnStart \subseteq {<<"sfaad", "p_seconds_init">>}
    BY DEF OwnStart
  <2> SUFFICES ASSUME NEW r \in ofMain PROVE obj[r[1]][r[2]] # Unset
    OBVIOUS
  <2>2. r = <<"sfaad", "p_seconds_init">>
    BY <2>1
  <2>3. r[1] = "sfaad" /\ r[2] = "p_seconds_init"
    BY <2>2
  <2> QED BY <1>2, <2>3
<1>5. \A r \in AddPart(part) : obj[r[1]][r[2]] # Unset
  <2> SUFFICES ASSUME NEW r \in AddPart(part) PROVE obj[r[1]][r[2]] # Unset
    OBVIOUS
  <2>1. Added /\ r \in part
    BY DEF AddPart
  <2>2. PICK f \in ofAdd : r = <<"hybrid", f>>
    BY <2>1
  <2>3. r[1] = "hybrid" /\ r[2] = f
    BY <2>2
  <2>4. Adds
    BY <1>1, <2>1, OpenedSays
  <2>5. obj["hybrid"][f] # Unset
    BY <1>1, <1>2, <2>4, OpenedSays DEF Beneath
  <2> QED BY <2>3, <2>5
<1>6. \A r \in fields : obj[r[1]][r[2]] # Unset
  BY <1>3, <1>4, <1>5
<1> HIDE DEF fields
<1>7. unset' = {}
  BY <1>1, <1>6, ReadsNothing
<1>8. UNCHANGED <<obj, ready, written, pending, told, informed>>
  BY DEF Decode
<1> QED BY <1>1, <1>7, <1>8, SilentKeeps

LEMMA DecodeInitializeKeeps ==
  ASSUME IInv, DecodeInitialize, UNCHANGED <<setting, tak, phase, opening, isAdd, hadTak>>
  PROVE  IInv'
<1>1. /\ phase = "open" /\ reason = "decode" /\ ready' = TRUE /\ informed' = informed
      /\ written' = written /\ pending' = pending /\ told' = told /\ (Adds <=> Added)
  BY OpenedSays DEF DecodeInitialize
<1> DEFINE t == Value("main", "time")
           b == Value("add", "bits")
           x == Value("add", "index")
           s == [obj EXCEPT !["sfaad"]["p_seconds_init"] = t]
           o == [s EXCEPT !["hybrid"]["bit_per_sample"] = b]
           q == [o EXCEPT !["hybrid"]["p_seconds_init"] = t]
           w == [q EXCEPT !["hybrid"]["p_start"] = x]
<1>2. obj' = IF Adds THEN w ELSE s
  BY <1>1 DEF DecodeInitialize
<1>3. t # Unset /\ b # Unset /\ x # Unset
  <2>1. t.of = "main" /\ b.of = "add" /\ x.of = "add" /\ Unset.of = "none"
    BY DEF Value, Unset
  <2> QED BY <2>1
<1> HIDE DEF t, b, x
<1>4. Formed(obj)
  BY DEF IInv, Types, Formed
<1>5. /\ Formed(s)
      /\ \A d \in Ours : \A g \in Fields[d] :
           s[d][g] = IF d = "sfaad" /\ g = "p_seconds_init" THEN t ELSE obj[d][g]
  BY <1>4, FieldsSay DEF Formed
<1> HIDE DEF s
<1>6. /\ Formed(o)
      /\ \A d \in Ours : \A g \in Fields[d] :
           o[d][g] = IF d = "hybrid" /\ g = "bit_per_sample" THEN b ELSE s[d][g]
  BY <1>5, FieldsSay DEF Formed
<1> HIDE DEF o
<1>7. /\ Formed(q)
      /\ \A d \in Ours : \A g \in Fields[d] :
           q[d][g] = IF d = "hybrid" /\ g = "p_seconds_init" THEN t ELSE o[d][g]
  <2>1. "hybrid" \in Ours /\ "p_seconds_init" \in Fields["hybrid"]
    BY FieldsSay
  <2> QED BY <1>6, <2>1 DEF Formed
<1> HIDE DEF q
<1>8. /\ Formed(w)
      /\ \A d \in Ours : \A g \in Fields[d] :
           w[d][g] = IF d = "hybrid" /\ g = "p_start" THEN x ELSE q[d][g]
  <2>1. "hybrid" \in Ours /\ "p_start" \in Fields["hybrid"]
    BY FieldsSay
  <2> QED BY <1>7, <2>1 DEF Formed
<1> HIDE DEF w
<1>9. Formed(obj')
  BY <1>2, <1>5, <1>8
<1>10. /\ \A f \in {"input", "info_reader", "info_writer", "input_add", "info_reader_add",
                    "bitrate_add"} : obj'["hybrid"][f] = obj["hybrid"][f]
       /\ \A f \in {"info_reader", "fdec"} : obj'["sfaad"][f] = obj["sfaad"][f]
  <2>1. /\ \A f \in {"input", "info_reader", "info_writer", "input_add", "info_reader_add",
                    "bitrate_add"} : f \in Fields["hybrid"]
        /\ \A f \in {"info_reader", "fdec"} : f \in Fields["sfaad"]
    BY DEF Fields
  <2> QED BY <1>2, <1>5, <1>6, <1>7, <1>8, <2>1, FieldsSay
<1>11. /\ obj'["sfaad"]["p_seconds_init"] # Unset
       /\ Adds => \A f \in {"bit_per_sample", "p_seconds_init", "p_start"} :
                    obj'["hybrid"][f] # Unset
  BY <1>2, <1>3, <1>5, <1>6, <1>7, <1>8, FieldsSay
<1>12. /\ Frames' /\ Checked' /\ Holds' /\ Refused'
       /\ Outer' = Outer /\ (Adds' <=> Adds) /\ (Added' <=> Added)
       /\ phase' = phase /\ reason' = reason
  BY <1>1, <1>10, MethodKeeps
<1>13. Types'
  BY <1>1, <1>9, <1>12 DEF IInv, Types, Formed, setting
<1>14. unset' = {}
  <2> DEFINE fields == (IF Outer = "hybrid" THEN Through("input") ELSE {<<"sfaad", "fdec">>})
                       \cup Through("info_reader") \cup AddPart({<<"hybrid", "input_add">>})
  <2>1. Reads(fields)
    BY DEF DecodeInitialize
  <2>2. \A r \in Main : obj[r[1]][r[2]] # Unset
    BY <1>1, MainSays
  <2>3. \A r \in Through("info_reader") : obj[r[1]][r[2]] # Unset
    BY <1>1, ThroughSays
  <2>4. \A r \in AddPart({<<"hybrid", "input_add">>}) : obj[r[1]][r[2]] # Unset
    BY <1>1, OpenedSays DEF AddPart, Beneath
  <2>5. \A r \in fields : obj[r[1]][r[2]] # Unset
    BY <2>2, <2>3, <2>4 DEF Main
  <2> HIDE DEF fields
  <2> QED BY <2>1, <2>5, ReadsNothing
<1>15. Noted'
  BY <1>1, <1>10, <1>11, <1>12 DEF IInv, Noted
<1>16. UsesWhatIsSet'
  BY <1>14 DEF UsesWhatIsSet
<1>17. InfoExplained'
  <2>1. hadTak' = hadTak
    OBVIOUS
  <2> QED BY <1>1, <1>12, <2>1 DEF IInv, InfoExplained
<1> QED BY <1>12, <1>13, <1>15, <1>16, <1>17 DEF IInv

\* decode_get_dynamic_info: it may read the figure get_info has noted, or has not.
LEMMA DecodeDynamicKeeps ==
  ASSUME IInv, DecodeDynamic, UNCHANGED <<setting, tak, phase, opening, isAdd, hadTak>>
  PROVE  IInv'
<1>1. /\ phase = "open" /\ ready /\ UNCHANGED <<obj, ready, written, pending, informed>>
      /\ (Adds <=> Added)
  BY OpenedSays DEF DecodeDynamic
<1>2. reason = "decode"
  BY <1>1 DEF IInv, Noted
<1>3. written = 0 /\ ~pending /\ pending \in BOOLEAN
  BY <1>2 DEF IInv, Noted, Types
<1>4. PICK known \in BOOLEAN, addKnown \in BOOLEAN :
        LET asks == known /\ Added
        IN  /\ Reads(Main \cup (IF asks THEN {<<"hybrid", "input_add">>} ELSE {})
                     \cup IF asks /\ ~addKnown THEN {<<"hybrid", "bitrate_add">>} ELSE {})
            /\ told' = IF ~known THEN told
                       ELSE [method |-> "dynamic", tags |-> told.tags, bits |-> told.bits,
                             rate |-> {"main"} \cup IF ~asks THEN {} ELSE IF addKnown THEN {"add"}
                                                    ELSE {obj.hybrid.bitrate_add.of}]
  BY DEF DecodeDynamic
<1> DEFINE one  == IF known /\ Added THEN {<<"hybrid", "input_add">>} ELSE {}
           more == IF known /\ Added /\ ~addKnown THEN {<<"hybrid", "bitrate_add">>} ELSE {}
<1>5. Reads(Main \cup one \cup more)
  BY <1>4
<1>6. obj["hybrid"]["bitrate_add"] = IF informed /\ Adds THEN Value("add", "rate") ELSE Unset
  BY <1>1 DEF IInv, Noted
<1>7. unset' \subseteq {<<"hybrid", "bitrate_add">>} /\ (informed => unset' = {})
  <2>1. \A r \in Main : obj[r[1]][r[2]] # Unset
    BY <1>1, <1>2, MainSays
  <2>2. \A r \in one : obj[r[1]][r[2]] # Unset
    BY <1>1, <1>2, OpenedSays DEF Beneath
  <2>3. more \subseteq {<<"hybrid", "bitrate_add">>}
    OBVIOUS
  <2>4. informed => \A r \in more : obj[r[1]][r[2]] # Unset
    <3>1. Value("add", "rate") # Unset
      <4>1. Value("add", "rate").of = "add" /\ Unset.of = "none"
        BY DEF Value, Unset
      <4> QED BY <4>1
    <3> QED BY <1>1, <1>6, <3>1
  <2> HIDE DEF one, more
  <2>5. unset' = {r \in Main \cup one \cup more : obj[r[1]][r[2]] = Unset}
    BY <1>5 DEF Reads
  <2> QED BY <2>1, <2>2, <2>3, <2>4, <2>5
<1>8. obj.hybrid.bitrate_add.of = IF informed /\ Adds THEN "add" ELSE "none"
  <2>1. Value("add", "rate").of = "add" /\ Unset.of = "none"
    BY DEF Value, Unset
  <2>2. obj.hybrid.bitrate_add = obj["hybrid"]["bitrate_add"]
    OBVIOUS
  <2> QED BY <1>6, <2>1, <2>2
<1>9. told.tags = 0
  <2>1. Nothing.tags = 0
    BY DEF Nothing
  <2> QED BY <1>3, <2>1 DEF IInv, Noted
<1>10. /\ Frames' /\ Checked' /\ Holds' /\ Refused'
       /\ Outer' = Outer /\ (Adds' <=> Adds)
       /\ phase' = phase /\ reason' = reason
  BY <1>1, MethodKeeps
<1>11. Types'
  BY <1>1, <1>10 DEF IInv, Types, setting
<1>12. /\ InfoExplained'
       /\ told' # Nothing => told'.tags = written'
       /\ Adds /\ informed => told' # Nothing /\ told'.bits = {"add"}
  <2>1. CASE ~known
    <3>1. told' = told
      BY <1>4, <2>1
    <3> QED BY <1>1, <3>1, ToldAgain DEF IInv, Noted
  <2>2. CASE known
    <3> DEFINE rates == IF ~(known /\ Added) THEN {} ELSE IF addKnown THEN {"add"}
                        ELSE {obj.hybrid.bitrate_add.of}
    <3>1. told' = [method |-> "dynamic", tags |-> told.tags, bits |-> told.bits,
                   rate |-> {"main"} \cup rates]
      BY <1>4, <2>2
    <3>2. /\ ~Adds => rates = {}
          /\ Adds => rates = {"add"} \/ (~informed /\ rates = {"none"})
      BY <1>1, <1>8, <2>2
    <3> HIDE DEF rates
    <3>3. /\ told'.method = "dynamic" /\ told'.tags = 0 /\ told'.bits = told.bits
          /\ told'.rate = {"main"} \cup rates
      BY <1>9, <3>1
    <3>4. told' # Nothing
      <4>1. Nothing.method = "none"
        BY DEF Nothing
      <4> QED BY <3>3, <4>1
    <3>5. Adds /\ informed => told'.bits = {"add"}
      BY <3>3 DEF IInv, Noted
    <3>6. InfoExplained'
      BY <1>1, <1>3, <1>10, <3>2, <3>3, <3>5 DEF InfoExplained, Adds
    <3> QED BY <1>1, <1>3, <3>3, <3>4, <3>5, <3>6
  <2> QED BY <2>1, <2>2
<1>13. Noted'
  BY <1>1, <1>10, <1>12 DEF IInv, Noted
<1>14. UsesWhatIsSet'
  BY <1>1, <1>7 DEF UsesWhatIsSet
<1> QED BY <1>10, <1>11, <1>12, <1>13, <1>14 DEF IInv

\* The tag methods: only input_hybrid opens for writing, and commit has the host ask anew.
LEMMA RetagKeeps ==
  ASSUME IInv, RetagSetInfo \/ RetagCommit,
         UNCHANGED <<setting, tak, phase, opening, isAdd, hadTak>>
  PROVE  IInv'
<1>1. /\ phase = "open" /\ reason = "info_write" /\ Reads({<<"hybrid", "info_writer">>})
      /\ UNCHANGED <<obj, ready, informed>>
  BY DEF RetagSetInfo, RetagCommit
<1>2. Outer = "hybrid" /\ ~Adds
  BY <1>1, OpenedSays DEF Ours, Adds
<1>3. unset' = {}
  <2>1. \A r \in {<<"hybrid", "info_writer">>} : obj[r[1]][r[2]] # Unset
    BY <1>1, <1>2, OpenedSays
  <2> QED BY <1>1, <2>1, ReadsNothing
<1>4. pending \in BOOLEAN /\ written \in Nat
  BY DEF IInv, Types
<1>5. CASE RetagSetInfo
  <2>1. pending' = TRUE /\ written' = written /\ told' = told
    BY <1>5 DEF RetagSetInfo
  <2>2. InfoExplained'
    BY <1>1, <2>1, ToldAgain
  <2>3. told # Nothing => told.tags = written
    BY DEF IInv, Noted
  <2> QED BY <1>1, <1>2, <1>3, <1>4, <2>1, <2>2, <2>3, ReadingKeeps
<1>6. CASE RetagCommit
  <2>1. pending' = FALSE /\ written' \in Nat /\ told' = Nothing
    BY <1>4, <1>6 DEF RetagCommit
  <2>2. InfoExplained'
    BY <2>1 DEF InfoExplained, Nothing
  <2> QED BY <1>1, <1>2, <1>3, <2>1, <2>2, ReadingKeeps
<1> QED BY <1>5, <1>6

----------------------------------------------------------------------------
(* the specification                                                        *)

LEMMA OpenKeeps == IInv /\ Open => IInv'
<1> SUFFICES ASSUME IInv, Open PROVE IInv'
  OBVIOUS
<1>1. Quiet
  BY DEF Open, Quiet
<1>2. CASE Check_Hybrid
  BY <1>1, <1>2, CheckHybridKeeps
<1>3. CASE Check_Sfaad
  BY <1>1, <1>3, CheckSfaadKeeps
<1>4. CASE FindSfaad
  BY <1>1, <1>4, FindSfaadKeeps
<1>5. CASE OpenAdd
  BY <1>1, <1>5, OpenAddKeeps
<1>6. CASE InitFdec
  BY <1>1, <1>6, InitFdecKeeps
<1>7. CASE Return
  <2>1. UNCHANGED <<isAdd, hadTak>>
    BY <1>7 DEF Return
  <2> QED BY <1>1, <1>7, <2>1, ReturnKeeps
<1>8. CASE OpenEntry("main") \/ OpenEntry("reader")
  BY <1>1, <1>8, OpenEntryKeeps
<1> QED BY <1>2, <1>3, <1>4, <1>5, <1>6, <1>7, <1>8 DEF Open

LEMMA CallKeeps == IInv /\ Method => IInv'
<1> SUFFICES ASSUME IInv, Method PROVE IInv'
  OBVIOUS
<1>1. UNCHANGED <<setting, tak, phase, opening, isAdd, hadTak>>
  BY DEF Method
<1>2. CASE GetInfo
  BY <1>1, <1>2, GetInfoKeeps
<1>3. CASE GetOther
  BY <1>1, <1>3, GetOtherKeeps
<1>4. CASE DecodeInitialize
  BY <1>1, <1>4, DecodeInitializeKeeps
<1>5. CASE DecodeRun
  BY <1>1, <1>5, DecodeKeeps DEF DecodeRun
<1>6. CASE DecodeSeek
  BY <1>1, <1>6, DecodeKeeps DEF DecodeSeek
<1>7. CASE DecodeCanSeek
  BY <1>1, <1>7, DecodeKeeps DEF DecodeCanSeek
<1>8. CASE DecodeIdle \/ DecodeTrack
  BY <1>1, <1>8, DecodeKeeps DEF DecodeIdle, DecodeTrack
<1>9. CASE DecodeDynamic
  BY <1>1, <1>9, DecodeDynamicKeeps
<1>10. CASE RetagSetInfo \/ RetagCommit
  BY <1>1, <1>10, RetagKeeps
<1> QED BY <1>2, <1>3, <1>4, <1>5, <1>6, <1>7, <1>8, <1>9, <1>10 DEF Method

LEMMA StepIInv == IInv /\ [Next]_vars => IInv'
<1>1. ASSUME IInv, UNCHANGED vars PROVE IInv'
  <2>1. UNCHANGED <<registry, works, tak, reason, phase, opening, obj, isAdd, ready, written,
                    pending, told, unset, hadTak, informed>>
    BY <1>1 DEF vars
  <2>2. Host' = Host /\ Outer' = Outer /\ (Adds' <=> Adds)
    BY <2>1 DEF Host, Outer, Adds
  <2>3. Types' /\ Frames' /\ Checked'
    BY <1>1, <2>1, <2>2 DEF IInv, Types, Frames, Checked
  <2>4. /\ HasMain' <=> HasMain
        /\ HasAdd' <=> HasAdd
        /\ HasReader' <=> HasReader
        /\ HasFdec' <=> HasFdec
    BY <2>1, <2>2 DEF HasMain, HasAdd, HasReader, HasFdec
  <2>5. Holds'
    BY <1>1, <2>1, <2>2, <2>4 DEF IInv, Holds, Held, MainOf
  <2>6. Noted' /\ UsesWhatIsSet' /\ InfoExplained' /\ Refused'
    <3>1. Excuse => Excuse'
      <4>1. FirstOf(Others)' = FirstOf(Others)
        BY <2>1, FirstSame
      <4> QED BY <2>1, <2>2, <4>1 DEF Excuse
    <3> QED BY <1>1, <2>1, <2>2, <3>1
            DEF IInv, Noted, UsesWhatIsSet, InfoExplained, Refused
  <2> QED BY <2>3, <2>5, <2>6 DEF IInv
<1> QED BY <1>1, OpenKeeps, CallKeeps, DeleteKeeps DEF Next

\* The invariant behind the theorems: how far open is tells which fields hold a decoder.
THEOREM Inductive == Spec => []IInv
BY InitIInv, StepIInv, PTL DEF Spec

\* However the entries are registered, open of the plug-ins never comes back to a class that
\* is being opened already: input_hybrid may come to input_sfaad, and from there it goes to
\* decoders not from here only.
THEOREM NeverBack == Spec => []NeverThroughItself
<1>1. IInv => NeverThroughItself
  <2> SUFFICES ASSUME IInv, NEW i \in 1 .. Len(opening), NEW j \in 1 .. Len(opening),
                      opening[i].self = opening[j].self
       PROVE  i = j
    BY DEF NeverThroughItself
  <2>1. CASE Len(opening) = 1
    BY <2>1
  <2>2. CASE Len(opening) = 2 /\ opening = <<opening[1], opening[2]>>
    <3>1. opening # <<opening[1]>>
      BY <2>2
    <3>2. opening[1].self = "sfaad" /\ opening[2].self = "hybrid"
      BY <3>1 DEF IInv, Frames
    <3> QED BY <2>2, <3>2
  <2> QED BY <2>1, <2>2, FramesSay DEF IInv
<1> QED BY <1>1, Inductive, PTL

\* A file with a .tak file is only ever decoded by input_sfaad, nothing is opened half, and
\* a refusal has one of the reasons listed, whatever other decoders there are.
THEOREM OpenIsExplained == Spec => []OpenExplained
<1>1. IInv => OpenExplained
  <2> SUFFICES ASSUME IInv PROVE OpenExplained
    OBVIOUS
  <2>1. ASSUME phase = "open"
        PROVE  /\ reason = "decode" /\ Adds =>
                    obj.hybrid.input.of = "sfaad" /\ obj.hybrid.input_add.of = "tak"
               /\ ~Adds => obj.hybrid.input_add = Unset
               /\ \A c \in Ours, f \in {"info_reader", "fdec"} :
                    f = "info_reader" \/ c = "sfaad" =>
                      (obj[c][f] # Unset <=>
                         \/ c = Outer /\ (f = "fdec" => reason = "decode")
                         \/ c = "sfaad" /\ Outer = "hybrid" /\ reason = "decode" /\ hadTak)
    <3>1. /\ obj.hybrid.input = obj["hybrid"]["input"]
          /\ obj.hybrid.input_add = obj["hybrid"]["input_add"]
      OBVIOUS
    <3> QED BY <2>1, <3>1, OpenedSays DEF Beneath, Adds, Ours
  <2>2. phase = "failed" /\ Others \cap works # {} => Excuse
    BY DEF IInv, Refused
  <2> QED BY <2>1, <2>2 DEF OpenExplained, Excuse, Adds
<1> QED BY <1>1, Inductive, PTL

\* No method uses a decoder that was not opened or a figure that was not set, but for the
\* rate decode_get_dynamic_info adds if get_info was not called.
THEOREM SetBeforeUse == Spec => []UsesWhatIsSet
BY Inductive, PTL DEF IInv

\* The host is told of both files together, or of the main file alone, as it was opened, and
\* of the tags it has written.
THEOREM InfoIsExplained == Spec => []InfoExplained
BY Inductive, PTL DEF IInv
=============================================================================
