--------------------------- MODULE Mp4ParseProofs ---------------------------
(***************************************************************************)
(* Proofs about the parser of MP4 containers, for every file:              *)
(*  - its interpreter never runs out of a script, and script and calls are *)
(*    in step (TypeOK, ScriptInStep);                                      *)
(*  - mp4read_open leaves nothing held when it fails and all that is needed*)
(*    when it succeeds, at whatever depth of the recursion it ends         *)
(*    (Released);                                                          *)
(*  - the frame table it hands over is sound (TableSound);                 *)
(*  - in a file that is a tree of atoms no search is misled (OnAtoms);     *)
(*  - opening a regular file comes to what its atoms say, as children and  *)
(*    parents: the first sound track, or a failure (OpensFirstSound).      *)
(* The last takes most of the module: its invariant, Opening, is made of   *)
(* Heads, Searches, TrackSays, Returns and Untabled, and is kept by each   *)
(* action in a lemma of its own.                                           *)
(* At the end: each step goes down in a well-founded order (StepsRunOut).  *)
(***************************************************************************)
EXTENDS Mp4Parse, FiniteSetTheorems, SequenceTheorems, NatLemmas, TLAPS

Scripts == {"head", "moov", "mvhd", "trak"}

\* What parse relies on in the creator_t tables, at place i of script s.
WellFormed(s, i) ==
  LET c == Script[s][i] IN
  /\ i \in Nat /\ i >= 1
  /\ c.op \in {"NAME", "DATA", "DESCENT", "ASCENT", "STOP"}
  /\ c.op # "STOP" => i + 1 \in DOMAIN Script[s]
  /\ c.op = "NAME" => (c.name = "moov" <=> (s = "moov" /\ i = 1))
  /\ c.op = "DATA" => Script[s][i + 1].op # "DATA"
  /\ c.op = "DESCENT" => Script[s][i + 1].op = "NAME"
  /\ c.op = "ASCENT" => Script[s][i + 1].op \in {"NAME", "ASCENT", "STOP"}

(* The scripts are well formed: each place of each table. *)
LEMMA ScriptDomain == DOMAIN Script = Scripts
  BY DEF Script, Scripts

LEMMA Starts == \A s \in Scripts : 1 \in DOMAIN Script[s] /\ Script[s][1].op = "NAME"
  BY DEF Script, Scripts, Find, Data, Descent, Ascent, Stop

LEMMA ScriptForm == \A s \in Scripts : \A i \in DOMAIN Script[s] : WellFormed(s, i)
<1>1. \A i \in DOMAIN Script["head"] : WellFormed("head", i)
  BY DEF Script, WellFormed, Find, Data, Descent, Ascent, Stop
<1>2. \A i \in DOMAIN Script["moov"] : WellFormed("moov", i)
  BY DEF Script, WellFormed, Find, Data, Descent, Ascent, Stop
<1>3. \A i \in DOMAIN Script["mvhd"] : WellFormed("mvhd", i)
  BY DEF Script, WellFormed, Find, Data, Descent, Ascent, Stop
<1>4. \A i \in DOMAIN Script["trak"] : WellFormed("trak", i)
  BY SMTT(60) DEF Script, WellFormed, Find, Data, Descent, Ascent, Stop
<1> QED BY <1>1, <1>2, <1>3, <1>4 DEF Scripts

\* How Group changes from one opcode to the next.
Marks(s, i, op) == {j \in 1 .. i - 1 : Script[s][j].op = op}

LEMMA MarksNext ==
  ASSUME NEW s, NEW i \in Nat, i >= 1, NEW op
  PROVE  /\ IsFiniteSet(Marks(s, i, op)) /\ Cardinality(Marks(s, i, op)) \in Nat
         /\ Cardinality(Marks(s, i + 1, op)) =
              Cardinality(Marks(s, i, op)) + (IF Script[s][i].op = op THEN 1 ELSE 0)
<1>1. IsFiniteSet(Marks(s, i, op))
  <2>1. IsFiniteSet(1 .. i - 1)  BY FS_Interval
  <2>2. Marks(s, i, op) \subseteq 1 .. i - 1  BY DEF Marks
  <2> QED BY <2>1, <2>2, FS_Subset
<1>2. CASE Script[s][i].op = op
  <2>1. Marks(s, i + 1, op) = Marks(s, i, op) \cup {i} /\ i \notin Marks(s, i, op)
    BY <1>2 DEF Marks
  <2> QED BY <1>1, <1>2, <2>1, FS_AddElement, FS_CardinalityType
<1>3. CASE Script[s][i].op # op
  <2>1. Marks(s, i + 1, op) = Marks(s, i, op)
    BY <1>3 DEF Marks
  <2> QED BY <1>1, <1>3, <2>1, FS_CardinalityType
<1> QED BY <1>2, <1>3

Weight(op) == IF op = "DESCENT" THEN 1 ELSE IF op = "ASCENT" THEN -1 ELSE 0

LEMMA GroupFirst == \A s : Group(s, 1) = 0
<1>1. \A s, op : Marks(s, 1, op) = {}  BY DEF Marks
<1> QED BY <1>1, FS_EmptySet DEF Group, Marks

LEMMA GroupNext ==
  ASSUME NEW s, NEW i \in Nat, i >= 1
  PROVE  /\ Group(s, i) \in Int
         /\ Group(s, i + 1) = Group(s, i) + Weight(Script[s][i].op)
<1>1. \A k \in Nat : Group(s, k) = Cardinality(Marks(s, k, "DESCENT")) - Cardinality(Marks(s, k, "ASCENT"))
  BY DEF Group, Marks
<1> DEFINE D(k) == Cardinality(Marks(s, k, "DESCENT"))
           A(k) == Cardinality(Marks(s, k, "ASCENT"))
<1>2. D(i) \in Nat /\ D(i + 1) = D(i) + (IF Script[s][i].op = "DESCENT" THEN 1 ELSE 0)
  BY MarksNext
<1>3. A(i) \in Nat /\ A(i + 1) = A(i) + (IF Script[s][i].op = "ASCENT" THEN 1 ELSE 0)
  BY MarksNext
<1>4. Group(s, i) = D(i) - A(i) /\ Group(s, i + 1) = D(i + 1) - A(i + 1)
  BY <1>1
<1> HIDE DEF D, A
<1> QED BY <1>2, <1>3, <1>4 DEF Weight
-----------------------------------------------------------------------------
\* The types, with those of the calls on the stack.
CallType == [fn : {"parse", "moovin"}, limit : Int, at : Nat, size : Nat, kids : Nat,
             back : Scripts \X Nat]

InTracks == script \in {"mvhd", "trak"}

Fields ==
  /\ pc \in PCs /\ fpos \in Nat
  /\ script \in Scripts /\ ip \in DOMAIN Script[script]
  /\ stack \in Seq(CallType)
  /\ ret \in {"none", "ok", "fail", "unsupported"}
  /\ held \in [file : BOOLEAN, table : BOOLEAN, buffer : BOOLEAN]
  /\ file.id \in Files /\ file.atoms = Atoms[file.id]

\* Which calls there are: within moovin's scripts its call is the second, called by
\* the parse that runs the script moov; otherwise all are calls of parse.
Calls ==
  /\ InTracks => /\ Len(stack) >= 2 /\ stack[2].back = <<"moov", 2>>
                 /\ \A i \in 1 .. Len(stack) : stack[i].fn = "moovin" <=> i = 2
  /\ ~InTracks => \A i \in 1 .. Len(stack) : stack[i].fn = "parse"
  /\ pc \in {"search", "handle", "enter", "kids"} => stack # <<>> /\ Top.fn = "parse"
  /\ pc = "tracks" => stack # <<>> /\ Top.fn = "moovin"
  /\ pc = "closed" => script = "head" /\ ip = 1

\* Depth, as a sum.
Level == Len(stack) - 1 - (IF InTracks THEN 2 ELSE 0)

\* Where g_atom is.  When a call has returned ERR_OK it is behind the group of the
\* child that was parsed, at the next name or at the end of the caller's group.
Pace ==
  /\ pc = "search" => Op.op = "NAME" /\ Group(script, ip) = Level
  /\ pc = "handle" => /\ Op.op = "DATA" /\ Group(script, ip) = Level
                      /\ ip - 1 \in DOMAIN Script[script]
                      /\ Script[script][ip - 1].op = "NAME"
                      /\ Script[script][ip - 1].name = Found.name
                      /\ Found.size \in Nat /\ Found.size >= 8
                      /\ Top.at \in DOMAIN file.atoms
  /\ pc = "enter" => Op.op # "DATA" /\ Group(script, ip) = Level
  /\ pc = "kids" \/ (pc = "return" /\ ret = "ok") =>
       /\ Op.op \in {"NAME", "ASCENT", "STOP"}
       /\ Op.op # "STOP" => Group(script, ip) = Level + 1

IInv == Fields /\ Calls /\ Pace

(* Sequences of calls, and a call more or less. *)
LEMMA LevelIs ==
  ASSUME Len(stack) \in Nat
  PROVE  /\ InTracks => Level = Len(stack) - 3
         /\ ~InTracks => Level = Len(stack) - 1
         /\ Level \in Int
  BY DEF Level, InTracks

LEMMA Here ==
  ASSUME Fields
  PROVE  /\ WellFormed(script, ip) /\ ip \in Nat /\ ip >= 1
         /\ Group(script, ip) \in Int
         /\ Group(script, ip + 1) = Group(script, ip) + Weight(Op.op)
<1>1. WellFormed(script, ip)
  BY ScriptForm DEF Fields
<1>2. ip \in Nat /\ ip >= 1
  BY <1>1 DEF WellFormed
<1> QED BY <1>1, <1>2, GroupNext DEF Op

LEMMA Pushed ==
  ASSUME NEW s \in Seq(CallType), NEW c \in CallType
  PROVE  /\ Append(s, c) \in Seq(CallType) /\ Len(Append(s, c)) = Len(s) + 1
         /\ \A i \in 1 .. Len(s) : Append(s, c)[i] = s[i]
         /\ Append(s, c)[Len(s) + 1] = c
         /\ Append(s, c) # <<>> /\ Last(Append(s, c)) = c
  BY AppendProperties DEF Last

LEMMA Popped ==
  ASSUME NEW s \in Seq(CallType), s # <<>>
  PROVE  /\ Front(s) \in Seq(CallType) /\ Len(Front(s)) = Len(s) - 1 /\ Len(s) >= 1
         /\ \A i \in 1 .. Len(s) - 1 : Front(s)[i] = s[i]
         /\ Last(s) \in CallType /\ Len(s) \in Nat
<1>1. Len(s) \in Nat /\ Len(s) >= 1
  BY EmptySeq, LenProperties
<1>2. Last(s) \in CallType
  BY <1>1, ElementOfSeq DEF Last
<1>3. \A i \in 1 .. Len(s) - 1 : s[i] \in CallType
  BY <1>1, ElementOfSeq
<1>4. /\ Front(s) \in Seq(CallType)
      /\ Len(Front(s)) = IF 1 <= Len(s) - 1 THEN Len(s) - 1 - 1 + 1 ELSE 0
      /\ \A i \in 1 .. Len(s) - 1 - 1 + 1 : Front(s)[i] = s[1 + i - 1]
  BY <1>1, <1>3, SubSeqProperties DEF Front
<1>5. Len(Front(s)) = Len(s) - 1
  <2> DEFINE n == Len(s)
             k == Len(Front(s))
  <2>1. n \in Nat /\ n >= 1 /\ k = IF 1 <= n - 1 THEN n - 1 - 1 + 1 ELSE 0
    BY <1>1, <1>4
  <2> HIDE DEF n, k
  <2>2. k = n - 1
    BY <2>1
  <2> QED BY <2>2 DEF n, k
<1>6. \A i \in 1 .. Len(s) - 1 : Front(s)[i] = s[i]
  <2>1. Len(s) - 1 - 1 + 1 = Len(s) - 1 /\ \A i \in 1 .. Len(s) - 1 : 1 + i - 1 = i
    BY <1>1
  <2> QED BY <1>4, <2>1
<1> QED BY <1>1, <1>2, <1>4, <1>5, <1>6

LEMMA NotEmpty ==
  ASSUME NEW s \in Seq(CallType), Len(s) # 0
  PROVE  s # <<>>
  BY EmptySeq

LEMMA NewCall ==
  ASSUME NEW p \in Nat, NEW max \in Int
  PROVE  ParseCall(p, max) \in CallType /\ ParseCall(p, max).fn = "parse"
  BY DEF ParseCall, CallType, Scripts

(* A call of parse has returned. *)
LEMMA Given ==
  ASSUME Fields, Calls, stack # <<>>, Top.fn = "parse", NEW r, Give(r), UNCHANGED script
  PROVE  /\ stack' \in Seq(CallType) /\ Level' = Level - 1 /\ Level \in Int
         /\ Calls'
<1>1. /\ Front(stack) \in Seq(CallType) /\ Len(Front(stack)) = Len(stack) - 1
      /\ Len(stack) >= 1 /\ Len(stack) \in Nat
      /\ \A i \in 1 .. Len(stack) - 1 : Front(stack)[i] = stack[i]
  BY Popped DEF Fields
<1>2. stack' = Front(stack) /\ pc' = "return"
  BY DEF Give
<1>3. InTracks => Len(stack) # 2
  BY DEF Calls, Top, Last
<1>4. InTracks' <=> InTracks
  BY DEF InTracks
<1> QED BY <1>1, <1>2, <1>3, <1>4 DEF Calls, Level

(* One is made. *)
LEMMA Called ==
  ASSUME Fields, NEW calls \in Seq(CallType), NEW p \in Nat, NEW max \in Int,
         Call(calls, p, max), script' \in Scripts,
         InTracks' => /\ Len(calls) >= 2 /\ calls[2].back = <<"moov", 2>>
                      /\ \A i \in 1 .. Len(calls) : calls[i].fn = "moovin" <=> i = 2,
         ~InTracks' => \A i \in 1 .. Len(calls) : calls[i].fn = "parse"
  PROVE  /\ stack' \in Seq(CallType) /\ fpos' \in Nat /\ pc' = "search"
         /\ InTracks' => Level' = Len(calls) - 2
         /\ ~InTracks' => Level' = Len(calls)
         /\ Calls'
<1> DEFINE c == ParseCall(p, max)
<1>1. c \in CallType /\ c.fn = "parse"
  BY NewCall
<1>2. stack' = Append(calls, c) /\ pc' = "search" /\ fpos' = p
  BY DEF Call
<1> HIDE DEF c
<1>3. /\ stack' \in Seq(CallType) /\ Len(stack') = Len(calls) + 1
      /\ \A i \in 1 .. Len(calls) : stack'[i] = calls[i]
      /\ stack'[Len(calls) + 1] = c /\ stack' # <<>> /\ Last(stack') = c
  BY <1>1, <1>2, Pushed
<1>4. Len(calls) \in Nat
  BY LenProperties
<1>5. (InTracks => /\ Len(stack) >= 2 /\ stack[2].back = <<"moov", 2>>
                   /\ \A i \in 1 .. Len(stack) : stack[i].fn = "moovin" <=> i = 2)'
  BY <1>1, <1>3, <1>4
<1>6. (~InTracks => \A i \in 1 .. Len(stack) : stack[i].fn = "parse")'
  BY <1>1, <1>3, <1>4
<1>7. (stack # <<>> /\ Top.fn = "parse")'
  BY <1>1, <1>3 DEF Top
<1> QED BY <1>2, <1>3, <1>4, <1>5, <1>6, <1>7 DEF Calls, Level

(* parse as mp4read_open calls it. *)
LEMMA FirstCall ==
  ASSUME Fields, Call(<<>>, 0, IntMax), script' \in {"head", "moov"}
  PROVE  /\ stack' \in Seq(CallType) /\ fpos' \in Nat /\ pc' = "search"
         /\ Level' = 0 /\ Calls'
<1>1. Len(<<>>) = 0 /\ <<>> \in Seq(CallType) /\ 0 \in Nat /\ IntMax \in Int
  BY EmptySeq, Mp4Assumption
<1>2. script' \in Scripts /\ ~InTracks'
  BY DEF InTracks, Scripts
<1> DEFINE none == <<>>
<1>3. none \in Seq(CallType) /\ Len(none) = 0 /\ Call(none, 0, IntMax)
  BY <1>1
<1> HIDE DEF none
<1>4. \A i \in 1 .. Len(none) : none[i].fn = "parse"
  BY <1>3
<1>5. Level' = 0
  BY <1>1, <1>2, <1>3, <1>4, Called
<1>6. stack' \in Seq(CallType) /\ fpos' \in Nat /\ pc' = "search" /\ Calls'
  BY <1>1, <1>2, <1>3, <1>4, Called
<1> QED BY <1>2, <1>3, <1>5, <1>6

(* One lemma for each action, or for those that leave the same things alone. *)
LEMMA OpenStep ==
  ASSUME IInv, OpenFails \/ Open \/ OpenMoov \/ OpenBuffer \/ OpenError
  PROVE  IInv'
<1> USE DEF IInv
<1>1. CASE OpenFails
  BY <1>1 DEF OpenFails, Fields, Calls, Pace, InTracks, Top, PCs
<1>2. CASE Open
  <2>1. script = "head" /\ ip = 1 /\ script' = "head" /\ ip' = 1 /\ UNCHANGED <<file, ret>>
    BY <1>2 DEF Open, Calls
  <2>2. held' \in [file : BOOLEAN, table : BOOLEAN, buffer : BOOLEAN]
    BY <1>2 DEF Open, Fields
  <2>3. /\ stack' \in Seq(CallType) /\ fpos' \in Nat /\ pc' = "search"
        /\ Level' = 0 /\ Calls'
    BY <1>2, <2>1, FirstCall DEF Open
  <2>4. Pace'
    BY <2>1, <2>3, Starts, GroupFirst DEF Pace, Op, Scripts
  <2> QED BY <2>1, <2>2, <2>3, <2>4, Starts DEF Fields, PCs, Scripts
<1>3. CASE OpenMoov
  <2>1. script' = "moov" /\ ip' = 1 /\ UNCHANGED <<file, ret, held>>
    BY <1>3 DEF OpenMoov
  <2>2. /\ stack' \in Seq(CallType) /\ fpos' \in Nat /\ pc' = "search"
        /\ Level' = 0 /\ Calls'
    BY <1>3, <2>1, FirstCall DEF OpenMoov
  <2>3. Pace'
    BY <2>1, <2>2, Starts, GroupFirst DEF Pace, Op, Scripts
  <2> QED BY <2>1, <2>2, <2>3, Starts DEF Fields, PCs, Scripts
<1>4. CASE OpenBuffer
  BY <1>4 DEF OpenBuffer, Fields, Calls, Pace, InTracks, Top, PCs
<1>5. CASE OpenError
  BY <1>5 DEF OpenError, Nothing, Fields, Calls, Pace, InTracks, Top, PCs
<1> QED BY <1>1, <1>2, <1>3, <1>4, <1>5

LEMMA TopTyped ==
  ASSUME Fields, stack # <<>>
  PROVE  /\ Top.at \in Nat /\ Top.size \in Nat /\ Top.kids \in Nat /\ Top.limit \in Int
         /\ Top.back \in Scripts \X Nat /\ Top = stack[Len(stack)] /\ Len(stack) \in Nat
         /\ Len(stack) >= 1
<1>1. Top \in CallType /\ Len(stack) \in Nat /\ Len(stack) >= 1
  BY Popped DEF Fields, Top
<1> QED BY <1>1 DEF Top, Last, CallType

LEMMA SizeTyped ==
  ASSUME Fields, fpos \in DOMAIN file.atoms
  PROVE  Header.size \in Nat
  BY Mp4Assumption DEF Fields, Header

LEMMA SearchStep ==
  ASSUME IInv, SearchFails \/ SearchPast \/ SearchFound
  PROVE  IInv'
<1> USE DEF IInv
<1>1. CASE SearchFails
  <2>1. Give("fail") /\ stack # <<>> /\ Top.fn = "parse"
    BY <1>1 DEF SearchFails, Calls
  <2>2. stack' \in Seq(CallType) /\ Calls'
    BY <1>1, <2>1, Given DEF SearchFails
  <2> QED BY <1>1, <2>1, <2>2 DEF SearchFails, Give, Fields, Pace, PCs
<1>2. CASE SearchPast
  <2>1. fpos' \in Nat
    BY <1>2, SizeTyped DEF SearchPast, HeaderReadable, Fields
  <2> QED BY <1>2, <2>1 DEF SearchPast, Fields, Calls, Pace, InTracks, Top, Op, Level
<1>3. CASE SearchFound
  <2> DEFINE n == Len(stack)
  <2>1. /\ stack # <<>> /\ Top.fn = "parse" /\ Header.size \in Nat /\ fpos \in Nat
        /\ n \in Nat /\ n >= 1 /\ Op.op = "NAME" /\ Group(script, ip) = Level
    BY <1>3, SizeTyped, TopTyped DEF SearchFound, HeaderReadable, Fields, Calls, Pace
  <2>2. /\ stack' = [stack EXCEPT ![n].at = fpos, ![n].size = Header.size]
        /\ UNCHANGED <<file, script, ret, held>> /\ ip' = ip + 1 /\ fpos' = fpos + 8
        /\ pc' = IF Script[script][ip + 1].op = "DATA" THEN "handle" ELSE "enter"
    BY <1>3 DEF SearchFound
  <2>3. /\ ip + 1 \in DOMAIN Script[script] /\ ip \in Nat
        /\ Group(script, ip + 1) = Level
    BY <2>1, Here, TopTyped DEF WellFormed, Weight, Op, Level
  <2>4. stack[n] \in CallType /\ \A i \in 1 .. n : stack[i] \in CallType
    BY <2>1, ElementOfSeq DEF Fields
  <2>5. /\ stack' \in Seq(CallType) /\ Len(stack') = n
        /\ \A i \in 1 .. n : stack'[i].fn = stack[i].fn /\ stack'[i].back = stack[i].back
        /\ stack'[n].at = fpos
    <3> DEFINE c == [stack[n] EXCEPT !.at = fpos, !.size = Header.size]
    <3>1. c \in CallType /\ c.fn = stack[n].fn /\ c.back = stack[n].back /\ c.at = fpos
      BY <2>1, <2>4 DEF CallType
    <3>2. stack' = [stack EXCEPT ![n] = c]
      BY <2>1, <2>2, <2>4 DEF CallType, Fields
    <3> HIDE DEF c
    <3> QED BY <2>1, <2>4, <3>1, <3>2, ExceptSeq DEF Fields
  <2> HIDE DEF n
  <2>6. stack' # <<>> /\ Top' = stack'[n] /\ Top'.fn = "parse"
    <3>1. stack' # <<>>  BY <2>1, <2>5, EmptySeq
    <3>2. Top = stack[n]  BY TopTyped, <2>1 DEF n
    <3> QED BY <2>1, <2>5, <3>1, <3>2 DEF Top, Last
  <2>7. Calls'
    BY <2>1, <2>2, <2>5, <2>6 DEF Calls, InTracks, n
  <2>8. Level' = Level
    BY <2>2, <2>5 DEF Level, InTracks, n
  <2>9. Pace'
    <3>1. Found' = Header /\ Header.size >= 8
      BY <1>3, <2>2, <2>5, <2>6 DEF Found, Header, SearchFound, HeaderReadable
    <3>2. Header.name = Script[script][ip].name /\ Op' = Script[script][ip + 1]
      BY <1>3, <2>2 DEF SearchFound, Op
    <3>3. ip' - 1 = ip /\ script' = script /\ ip \in DOMAIN Script[script]
      BY <2>2, <2>3 DEF Fields
    <3>4. pc' = "handle" => Op'.op = "DATA"
      BY <2>2, <3>2
    <3>5. pc' = "enter" => Op'.op # "DATA"
      BY <2>2, <3>2
    <3>6. pc' \in {"handle", "enter"} /\ Group(script', ip') = Level'
      BY <2>2, <2>3, <2>8
    <3>7. Top'.at \in DOMAIN file'.atoms
      BY <1>3, <2>5, <2>6 DEF SearchFound, HeaderReadable
    <3> QED BY <2>1, <3>1, <3>2, <3>3, <3>4, <3>5, <3>6, <3>7 DEF Pace, Op
  <2> QED BY <2>1, <2>2, <2>3, <2>5, <2>7, <2>9 DEF Fields, PCs
<1> QED BY <1>1, <1>2, <1>3

LEMMA HandleStep ==
  ASSUME IInv, HandleOk \/ HandleRefused \/ HandleNoMemory
  PROVE  IInv'
<1> USE DEF IInv
<1>1. CASE HandleOk
  <2>1. /\ ip' = ip + 1 /\ pc' = "enter" /\ UNCHANGED <<file, script, stack, ret>>
        /\ fpos' = fpos + Consumed(Found.name) /\ pc = "handle"
        /\ held' = IF Found.name = "stsz" THEN [held EXCEPT !.table = TRUE] ELSE held
    BY <1>1 DEF HandleOk
  <2>2. Consumed(Found.name) \in Nat
    BY DEF Consumed
  <2>3. /\ ip + 1 \in DOMAIN Script[script] /\ Script[script][ip + 1].op # "DATA"
        /\ Group(script, ip + 1) = Level
    BY <2>1, Here, TopTyped DEF WellFormed, Weight, Op, Pace, Calls, Level
  <2>4. Calls' /\ Level' = Level
    BY <2>1 DEF Calls, InTracks, Top, Level
  <2>5. Pace'
    BY <2>1, <2>3, <2>4 DEF Pace, Op
  <2>6. held' \in [file : BOOLEAN, table : BOOLEAN, buffer : BOOLEAN]
    BY <2>1 DEF Fields
  <2>7. fpos' \in Nat
    BY <2>1, <2>2 DEF Fields
  <2>8. ip' \in DOMAIN Script[script']
    BY <2>1, <2>3
  <2> QED BY <2>1, <2>4, <2>5, <2>6, <2>7, <2>8 DEF Fields, PCs
<1>2. CASE HandleRefused \/ HandleNoMemory
  <2>1. /\ pc = "handle" /\ UNCHANGED <<file, script, ip>>
        /\ fpos' = Top.at + Top.size
        /\ Give("fail") \/ Give("unsupported")
        /\ held' \in {held, [held EXCEPT !.table = TRUE]}
    BY <1>2 DEF HandleRefused, HandleNoMemory
  <2>2. stack # <<>> /\ Top.fn = "parse"
    BY <2>1 DEF Calls
  <2>3. stack' \in Seq(CallType) /\ Calls'
    BY <2>1, <2>2, Given
  <2>4. fpos' \in Nat
    BY <2>1, <2>2, TopTyped
  <2>5. ret' \in {"fail", "unsupported"} /\ pc' = "return"
    BY <2>1 DEF Give
  <2>6. held' \in [file : BOOLEAN, table : BOOLEAN, buffer : BOOLEAN]
    BY <2>1 DEF Fields
  <2> QED BY <2>1, <2>3, <2>4, <2>5, <2>6 DEF Fields, PCs, Pace
<1> QED BY <1>1, <1>2

LEMMA MoovScript ==
  /\ Group("moov", 1) = 0 /\ Group("moov", 2) = 0 /\ Group("moov", 3) = 0
  /\ 2 \in DOMAIN Script["moov"] /\ 3 \in DOMAIN Script["moov"]
  /\ Script["moov"][3].op = "STOP"
<1>1. Script["moov"][1].op = "NAME" /\ Script["moov"][2].op = "DATA"
  BY DEF Script, Find, Data
<1>2. Group("moov", 1) = 0
  BY GroupFirst
<1>3. Group("moov", 1 + 1) = Group("moov", 1) + Weight(Script["moov"][1].op)
  BY GroupNext
<1>4. Group("moov", 2 + 1) = Group("moov", 2) + Weight(Script["moov"][2].op)
  BY GroupNext
<1>5. Weight("NAME") = 0 /\ Weight("DATA") = 0
  BY DEF Weight
<1>6. Group("moov", 2) = 0
  BY <1>1, <1>2, <1>3, <1>5
<1>7. Group("moov", 3) = 0
  BY <1>1, <1>4, <1>5, <1>6
<1> QED BY <1>2, <1>6, <1>7 DEF Script, Find, Data, Stop

LEMMA HandleMoovStep ==
  ASSUME IInv, HandleMoov
  PROVE  IInv'
<1> USE DEF IInv
<1> DEFINE size == Found.size - 8
           call == MoovinCall(fpos, size)
           calls == Append(stack, call)
<1>1. /\ pc = "handle" /\ Found.name = "moov" /\ script' = "mvhd" /\ ip' = 1
      /\ Call(calls, fpos, size) /\ UNCHANGED <<file, ret, held>>
  BY DEF HandleMoov
<1>2. /\ Script[script][ip - 1].op = "NAME" /\ Script[script][ip - 1].name = "moov"
      /\ ip - 1 \in DOMAIN Script[script] /\ size \in Nat /\ ip \in Nat
  BY <1>1, Here DEF Pace
<1>3. script = "moov" /\ ip = 2
  <2>1. WellFormed(script, ip - 1)
    BY <1>2, ScriptForm DEF Fields
  <2>2. script = "moov" /\ ip - 1 = 1
    BY <1>2, <2>1 DEF WellFormed
  <2> QED BY <1>2, <2>2
<1>4. Len(stack) = 1 /\ stack[1].fn = "parse" /\ ~InTracks
  <2>1. ~InTracks
    BY <1>3 DEF InTracks
  <2>2. Level = 0 /\ Len(stack) \in Nat
    BY <1>1, <1>3, MoovScript, TopTyped DEF Pace, Calls
  <2>3. Level = Len(stack) - 1
    BY <2>1, <2>2, LevelIs
  <2>4. Len(stack) = 1
    BY <2>2, <2>3
  <2> QED BY <2>1, <2>4 DEF Calls
<1>5. call \in CallType /\ call.fn = "moovin" /\ call.back = <<"moov", 2>>
  BY <1>2, <1>3 DEF MoovinCall, CallType, Fields
<1> HIDE DEF call
<1>6. /\ calls \in Seq(CallType) /\ Len(calls) = 2 /\ calls[1] = stack[1] /\ calls[2] = call
  <2>1. /\ calls \in Seq(CallType) /\ Len(calls) = Len(stack) + 1
        /\ \A i \in 1 .. Len(stack) : calls[i] = stack[i]
        /\ calls[Len(stack) + 1] = call
    BY <1>5, Pushed DEF Fields
  <2> HIDE DEF calls
  <2>2. 1 \in 1 .. Len(stack) /\ Len(stack) + 1 = 2
    BY <1>4
  <2> QED BY <2>1, <2>2
<1> HIDE DEF calls
<1>7. InTracks' /\ script' \in Scripts
  BY <1>1 DEF InTracks, Scripts
<1>8. /\ stack' \in Seq(CallType) /\ fpos' \in Nat /\ pc' = "search"
      /\ Level' = 0 /\ Calls'
  <2>1. \A i \in 1 .. Len(calls) : calls[i].fn = "moovin" <=> i = 2
    BY <1>4, <1>5, <1>6
  <2>2. fpos \in Nat /\ size \in Int
    BY <1>2 DEF Fields
  <2> HIDE DEF size
  <2>3. /\ calls \in Seq(CallType) /\ Len(calls) >= 2 /\ calls[2].back = <<"moov", 2>>
        /\ Call(calls, fpos, size)
    BY <1>1, <1>5, <1>6
  <2>4. /\ stack' \in Seq(CallType) /\ fpos' \in Nat /\ pc' = "search"
        /\ Level' = Len(calls) - 2 /\ Calls'
    BY <1>7, <2>1, <2>2, <2>3, Called
  <2> QED BY <1>6, <2>4
<1>9. Pace'
  BY <1>1, <1>8, Starts, GroupFirst DEF Pace, Op, Scripts
<1> QED BY <1>1, <1>7, <1>8, <1>9, Starts DEF Fields, PCs

LEMMA NextTrackStep ==
  ASSUME IInv, NextTrack
  PROVE  IInv'
<1> USE DEF IInv
<1> DEFINE left == Top.at + Top.size - fpos
<1>1. /\ pc = "tracks" /\ script' = "trak" /\ ip' = 1 /\ Call(stack, fpos, left)
      /\ UNCHANGED <<file, ret, held>>
  BY DEF NextTrack
<1>2. stack # <<>> /\ Top.fn = "moovin" /\ left \in Int /\ fpos \in Nat
  BY <1>1, TopTyped DEF Calls, Fields
<1> HIDE DEF left
<1>3. InTracks /\ Len(stack) = 2
  <2>1. Top = stack[Len(stack)] /\ Len(stack) \in 1 .. Len(stack)
    BY <1>2, TopTyped
  <2> QED BY <1>2, <2>1 DEF Calls
<1>4. InTracks' /\ script' \in Scripts
  BY <1>1 DEF InTracks, Scripts
<1>5. /\ stack' \in Seq(CallType) /\ fpos' \in Nat /\ pc' = "search"
      /\ Level' = 0 /\ Calls'
  <2>1. /\ stack' \in Seq(CallType) /\ fpos' \in Nat /\ pc' = "search"
        /\ Level' = Len(stack) - 2 /\ Calls'
    BY <1>1, <1>2, <1>3, <1>4, Called DEF Fields, Calls
  <2> QED BY <1>3, <2>1
<1>6. Pace'
  BY <1>1, <1>5, Starts, GroupFirst DEF Pace, Op, Scripts
<1> QED BY <1>1, <1>4, <1>5, <1>6, Starts DEF Fields, PCs

(* moovin returns, one way or the other. *)
LEMMA Moovin ==
  ASSUME IInv, stack # <<>>, Top.fn = "moovin"
  PROVE  /\ InTracks /\ Len(stack) = 2 /\ Top.back = <<"moov", 2>>
         /\ Front(stack) \in Seq(CallType) /\ Len(Front(stack)) = 1
         /\ Front(stack)[1].fn = "parse" /\ Front(stack) # <<>>
         /\ Last(Front(stack)).fn = "parse"
         /\ Front(Front(stack)) \in Seq(CallType) /\ Len(Front(Front(stack))) = 0
         /\ Last(Front(stack)) \in CallType
<1> USE DEF IInv
<1>1. Top = stack[Len(stack)] /\ Len(stack) \in 1 .. Len(stack)
  BY TopTyped
<1>2. InTracks /\ Len(stack) = 2 /\ Top.back = <<"moov", 2>> /\ stack[1].fn = "parse"
  <2>1. InTracks /\ Len(stack) = 2
    BY <1>1 DEF Calls
  <2>2. stack[1] \in CallType
    BY <2>1, ElementOfSeq DEF Fields
  <2> QED BY <1>1, <2>1, <2>2 DEF Calls, CallType
<1> DEFINE rest == Front(stack)
<1>3. rest \in Seq(CallType) /\ Len(rest) = 1 /\ rest[1] = stack[1]
  <2>1. /\ rest \in Seq(CallType) /\ Len(rest) = Len(stack) - 1
        /\ \A i \in 1 .. Len(stack) - 1 : rest[i] = stack[i]
    BY Popped DEF Fields
  <2> HIDE DEF rest
  <2>2. Len(stack) - 1 = 1 /\ 1 \in 1 .. Len(stack) - 1
    BY <1>2
  <2>3. Len(rest) = 1
    BY <2>1, <2>2
  <2>4. rest[1] = stack[1]
    BY <2>1, <2>2
  <2> QED BY <2>1, <2>3, <2>4
<1> HIDE DEF rest
<1>4. rest # <<>>
  BY <1>3, NotEmpty
<1>5. Front(rest) \in Seq(CallType) /\ Len(Front(rest)) = 0 /\ Last(rest) \in CallType
  BY <1>3, <1>4, Popped
<1>6. Last(rest) = rest[1]
  BY <1>3 DEF Last
<1> QED BY <1>2, <1>3, <1>4, <1>5, <1>6 DEF rest

LEMMA MoovinOkStep ==
  ASSUME IInv, stack # <<>>, Top.fn = "moovin", MoovinOk
  PROVE  IInv'
<1> USE DEF IInv
<1> DEFINE rest == Front(stack)
<1>1. /\ Top.back = <<"moov", 2>>
      /\ rest \in Seq(CallType) /\ Len(rest) = 1 /\ rest[1].fn = "parse" /\ rest # <<>>
      /\ Last(rest).fn = "parse"
  BY Moovin
<1>2. /\ script' = "moov" /\ ip' = 3 /\ stack' = rest /\ pc' = "enter"
      /\ UNCHANGED <<file, fpos, ret, held>>
  BY <1>1 DEF MoovinOk
<1> HIDE DEF rest
<1>3. ~InTracks'
  BY <1>2 DEF InTracks
<1>4. Calls'
  <2>1. \A i \in 1 .. Len(rest) : rest[i].fn = "parse"
    BY <1>1
  <2> QED BY <1>1, <1>2, <1>3, <2>1 DEF Calls, Top
<1>5. Level' = 0
  <2>1. Len(stack)' = 1
    BY <1>1, <1>2
  <2>2. (IF InTracks' THEN 2 ELSE 0) = 0
    BY <1>3
  <2>3. Level' = 1 - 1 - 0
    BY <2>1, <2>2, Zenon DEF Level
  <2> QED BY <2>3
<1>6. Pace'
  BY <1>2, <1>5, MoovScript DEF Pace, Op
<1> QED BY <1>1, <1>2, <1>4, <1>6, MoovScript DEF Fields, PCs, Scripts

LEMMA MoovinFailsStep ==
  ASSUME IInv, stack # <<>>, Top.fn = "moovin", MoovinFails
  PROVE  IInv'
<1> USE DEF IInv
<1> DEFINE caller == Last(Front(stack))
           rest == Front(Front(stack))
<1>1. /\ Top.back = <<"moov", 2>> /\ rest \in Seq(CallType) /\ Len(rest) = 0
      /\ caller \in CallType
  BY Moovin
<1>2. /\ script' = "moov" /\ ip' = 2 /\ stack' = rest /\ pc' = "return" /\ ret' = "fail"
      /\ fpos' = caller.at + caller.size /\ UNCHANGED <<file, held>>
  BY <1>1 DEF MoovinFails
<1> HIDE DEF rest, caller
<1>3. fpos' \in Nat
  BY <1>1, <1>2 DEF CallType
<1>4. Calls'
  <2>1. ~InTracks'  BY <1>2 DEF InTracks
  <2> QED BY <1>1, <1>2, <2>1 DEF Calls
<1>5. Pace'
  BY <1>2 DEF Pace
<1> QED BY <1>1, <1>2, <1>3, <1>4, <1>5, MoovScript DEF Fields, PCs, Scripts

LEMMA MoovinStep ==
  ASSUME IInv, TracksEnd \/ ReturnToMoovin
  PROVE  IInv'
<1>1. stack # <<>> /\ Top.fn = "moovin"
  BY DEF TracksEnd, ReturnToMoovin, IInv, Calls
<1>2. CASE MoovinOk
  BY <1>1, <1>2, MoovinOkStep
<1>3. CASE MoovinFails
  BY <1>1, <1>3, MoovinFailsStep
<1>4. CASE /\ pc' = "tracks" /\ fpos' \in {fpos, Top.at}
           /\ UNCHANGED <<file, script, ip, stack, ret, held>>
  <2>1. fpos' \in Nat
    BY <1>1, <1>4, TopTyped DEF IInv, Fields
  <2>2. Calls'
    BY <1>1, <1>4 DEF IInv, Calls, InTracks, Top
  <2> QED BY <1>4, <2>1, <2>2 DEF IInv, Fields, Pace, PCs
<1> QED BY <1>1, <1>2, <1>3, <1>4 DEF TracksEnd, ReturnToMoovin

LEMMA EnterStep ==
  ASSUME IInv, Enter
  PROVE  IInv'
<1> USE DEF IInv
<1> DEFINE n == Len(stack)
           c == [stack[n] EXCEPT !.kids = fpos]
<1>1. /\ pc = "enter" /\ Op.op = "DESCENT" /\ ip' = ip + 1 /\ pc' = "kids"
      /\ stack' = [stack EXCEPT ![n].kids = fpos]
      /\ UNCHANGED <<file, fpos, script, ret, held>>
  BY DEF Enter
<1>2. stack # <<>> /\ Top.fn = "parse" /\ Top = stack[n] /\ n \in Nat /\ n >= 1
  BY <1>1, TopTyped DEF Calls
<1>3. \A i \in 1 .. n : stack[i] \in CallType
  BY ElementOfSeq DEF Fields
<1>4. c \in CallType /\ c.fn = stack[n].fn /\ c.back = stack[n].back
  <2>1. stack[n] \in CallType /\ fpos \in Nat
    BY <1>2, <1>3 DEF Fields
  <2> QED BY <2>1 DEF CallType
<1>5. stack' = [stack EXCEPT ![n] = c]
  BY <1>1, <1>2, <1>3 DEF CallType, Fields
<1> HIDE DEF c
<1>6. /\ stack' \in Seq(CallType) /\ Len(stack') = n /\ stack' # <<>>
      /\ \A i \in 1 .. n : stack'[i].fn = stack[i].fn /\ stack'[i].back = stack[i].back
  <2>1. stack' \in Seq(CallType) /\ Len(stack') = n
        /\ \A i \in 1 .. n : stack'[i].fn = stack[i].fn /\ stack'[i].back = stack[i].back
    BY <1>2, <1>3, <1>4, <1>5, ExceptSeq DEF Fields
  <2> HIDE DEF n
  <2> QED BY <1>2, <2>1, NotEmpty
<1>7. Top' = stack'[n] /\ Top'.fn = "parse"
  BY <1>2, <1>6 DEF Top, Last
<1>8. Calls'
  BY <1>1, <1>2, <1>6, <1>7 DEF Calls, InTracks
<1>9. Level' = Level /\ Level \in Int
  BY <1>1, <1>2, <1>6, LevelIs DEF Level, InTracks
<1>10. /\ ip + 1 \in DOMAIN Script[script] /\ Script[script][ip + 1].op = "NAME"
       /\ Group(script, ip + 1) = Level + 1
  BY <1>1, Here DEF WellFormed, Weight, Op, Pace
<1>11. Pace'
  BY <1>1, <1>9, <1>10 DEF Pace, Op
<1> QED BY <1>1, <1>6, <1>8, <1>10, <1>11 DEF Fields, PCs

LEMMA LeaveStep ==
  ASSUME IInv, Skip \/ KidsEnd
  PROVE  IInv'
<1> USE DEF IInv
<1>1. /\ pc \in {"enter", "kids"} /\ stack # <<>> /\ Top.fn = "parse"
      /\ fpos' = Top.at + Top.size /\ Give("ok") /\ UNCHANGED <<file, script, held>>
  BY DEF Skip, KidsEnd, Leave, Calls
<1>2. stack' \in Seq(CallType) /\ Calls' /\ Level' = Level - 1 /\ Level \in Int
  BY <1>1, Given
<1>3. pc' = "return" /\ ret' = "ok" /\ fpos' \in Nat
  BY <1>1, TopTyped DEF Give
<1>4. CASE Skip
  <2>1. ip' = ip /\ Op.op \in {"NAME", "ASCENT", "STOP"} /\ Group(script, ip) = Level
    BY <1>4, Here DEF Skip, Pace, WellFormed, Op
  <2>2. Pace'
    BY <1>1, <1>2, <1>3, <2>1 DEF Pace, Op
  <2> QED BY <1>1, <1>2, <1>3, <2>1, <2>2 DEF Fields, PCs
<1>5. CASE KidsEnd /\ Op.op = "STOP"
  <2>1. ip' = ip
    BY <1>5 DEF KidsEnd
  <2>2. Pace'
    BY <1>1, <1>3, <1>5, <2>1 DEF Pace, Op
  <2> QED BY <1>1, <1>2, <1>3, <2>1, <2>2 DEF Fields, PCs
<1>6. CASE KidsEnd /\ Op.op = "ASCENT"
  <2>1. ip' = ip + 1 /\ Group(script, ip) = Level + 1
    BY <1>6 DEF KidsEnd, Pace
  <2>2. /\ ip + 1 \in DOMAIN Script[script] /\ Group(script, ip + 1) = Level
        /\ Script[script][ip + 1].op \in {"NAME", "ASCENT", "STOP"}
    BY <1>2, <1>6, <2>1, Here DEF WellFormed, Weight, Op
  <2>3. Pace'
    BY <1>1, <1>2, <1>3, <2>1, <2>2 DEF Pace, Op
  <2> QED BY <1>1, <1>2, <1>3, <2>1, <2>2, <2>3 DEF Fields, PCs
<1> QED BY <1>4, <1>5, <1>6 DEF KidsEnd

LEMMA KidsNextStep ==
  ASSUME IInv, KidsNext
  PROVE  IInv'
<1> USE DEF IInv
<1> DEFINE p == Top.kids
           max == Top.size - 8
<1>1. /\ pc = "kids" /\ Op.op \notin {"STOP", "ASCENT"} /\ Call(stack, p, max)
      /\ UNCHANGED <<file, script, ip, ret, held>>
  BY DEF KidsNext
<1>2. stack # <<>> /\ p \in Nat /\ max \in Int /\ Len(stack) \in Nat
  BY <1>1, TopTyped DEF Calls
<1>3. Op.op = "NAME" /\ Group(script, ip) = Level + 1
  BY <1>1 DEF Pace
<1> HIDE DEF p, max
<1>4. (InTracks' <=> InTracks) /\ script' \in Scripts /\ stack \in Seq(CallType)
  BY <1>1 DEF InTracks, Fields
<1>5. /\ stack' \in Seq(CallType) /\ fpos' \in Nat /\ pc' = "search" /\ Calls'
      /\ InTracks' => Level' = Len(stack) - 2
      /\ ~InTracks' => Level' = Len(stack)
  BY <1>1, <1>2, <1>4, Called DEF Calls
<1>6. Level' = Level + 1
  BY <1>2, <1>4, <1>5, LevelIs
<1>7. Pace'
  BY <1>1, <1>3, <1>5, <1>6 DEF Pace, Op
<1> QED BY <1>1, <1>5, <1>7 DEF Fields, PCs

LEMMA ReturnStep ==
  ASSUME IInv, ReturnToParse
  PROVE  IInv'
<1> USE DEF IInv
<1>1. /\ pc = "return" /\ stack # <<>> /\ Top.fn = "parse"
      /\ UNCHANGED <<file, fpos, script, ip, held>>
  BY DEF ReturnToParse
<1>2. CASE ret = "ok" /\ pc' = "kids" /\ UNCHANGED <<stack, ret>>
  BY <1>1, <1>2 DEF Fields, Calls, Pace, InTracks, Top, Op, Level, PCs
<1>3. CASE ret # "ok" /\ Give(ret)
  <2>1. stack' \in Seq(CallType) /\ Calls'
    BY <1>1, <1>3, Given
  <2> QED BY <1>1, <1>3, <2>1 DEF Give, Fields, Pace, PCs
<1> QED BY <1>2, <1>3 DEF ReturnToParse

LEMMA Stutter ==
  ASSUME IInv, UNCHANGED vars
  PROVE  IInv'
  BY DEF vars, IInv, Fields, Calls, Pace, InTracks, Top, Op, Level, Found

LEMMA InvStep == IInv /\ [Next]_vars => IInv'
  BY OpenStep, SearchStep, HandleStep, HandleMoovStep, NextTrackStep, MoovinStep,
     EnterStep, LeaveStep, KidsNextStep, ReturnStep, Stutter DEF Next

LEMMA InvInit == Init => IInv
<1>1. \A f \in Files : Init /\ file = [id |-> f, atoms |-> Atoms[f]] =>
        file.id \in Files /\ file.atoms = Atoms[file.id]
  OBVIOUS
<1>2. <<>> \in Seq(CallType) /\ Len(<<>>) = 0
  BY EmptySeq
<1>3. SUFFICES ASSUME Init PROVE IInv
  OBVIOUS
<1>4. Calls /\ Pace
  BY <1>2, <1>3 DEF Init, Calls, Pace, InTracks
<1> QED BY <1>1, <1>2, <1>3, <1>4, Starts DEF Init, IInv, Fields, PCs, Scripts, Nothing
-----------------------------------------------------------------------------
(* Where the innermost moovin is. *)
LEMMA DepthIsLevel ==
  ASSUME Fields, Calls
  PROVE  Depth = Level
<1> DEFINE M == {i \in 1 .. Len(stack) : stack[i].fn = "moovin"}
<1>1. Depth = Len(stack) - (IF M # {} THEN Max(M) ELSE 0) - 1
  BY DEF Depth, SelectLastInSeq
<1>2. Len(stack) \in Nat
  BY LenProperties DEF Fields
<1>3. CASE InTracks
  <2>1. M = {2}
    BY <1>2, <1>3 DEF Calls
  <2> HIDE DEF M
  <2>2. Max(M) = 2
    BY <2>1 DEF Max
  <2> QED BY <1>1, <1>2, <1>3, <2>1, <2>2, LevelIs
<1>4. CASE ~InTracks
  <2>1. M = {}
    BY <1>4 DEF Calls
  <2> HIDE DEF M
  <2> QED BY <1>1, <1>2, <1>4, <2>1, LevelIs
<1> QED BY <1>3, <1>4

LEMMA Typed ==
  ASSUME Fields
  PROVE  TypeOK
<1>1. \A i \in DOMAIN stack : stack[i] \in CallType
  <2>1. DOMAIN stack = 1 .. Len(stack)
    BY LenProperties DEF Fields
  <2> QED BY <2>1, ElementOfSeq DEF Fields
<1> QED BY <1>1, ScriptDomain DEF Fields, TypeOK, CallType

(* The fields and the calls of parse and moovin have their types: in no file   *)
(* does the script run out of its table, and no position is negative.          *)
THEOREM TypeCorrect == Spec => []TypeOK
<1>1. IInv => TypeOK
  BY Typed DEF IInv
<1> QED BY <1>1, InvInit, InvStep, PTL DEF Spec

(* The script and the calls are in step, although g_atom is shared by all the  *)
(* calls, is set anew by moovin for each track and left where it is by every   *)
(* error: a handler is only called for the atom it was written for.            *)
THEOREM ScriptInStepHolds == Spec => []ScriptInStep
<1>1. IInv => ScriptInStep
  <2>1. ASSUME IInv PROVE Depth = Level
    BY <2>1, DepthIsLevel DEF IInv
  <2> QED BY <2>1 DEF IInv, Pace, ScriptInStep
<1> QED BY <1>1, InvInit, InvStep, PTL DEF Spec
-----------------------------------------------------------------------------
HeldType == [file : BOOLEAN, table : BOOLEAN, buffer : BOOLEAN]

\* Nothing is held before the FILE is opened; then it is held until mp4read_open has
\* failed; the buffer comes last.
Holding ==
  /\ held \in HeldType
  /\ pc \in {"closed", "failed"} => held = Nothing
  /\ pc \notin {"closed", "failed"} => held.file
  /\ pc = "open" => held.buffer

\* The steps of the parser in between take nothing but the frame table.
Between == pc \notin {"closed", "open", "failed"}

LEMMA Kept ==
  ASSUME Holding, Between, Between', held' = held \/ held' = [held EXCEPT !.table = TRUE]
  PROVE  Holding'
  BY DEF Holding, Between, HeldType

LEMMA HoldingStep ==
  ASSUME Holding, [Next]_vars
  PROVE  Holding'
<1>1. CASE UNCHANGED vars
  BY <1>1 DEF vars, Holding
<1>2. CASE OpenFails
  BY <1>2 DEF OpenFails, Holding
<1>3. CASE Open
  BY <1>3 DEF Open, Call, Holding, HeldType
<1>4. CASE OpenMoov
  BY <1>4, Kept DEF OpenMoov, Call, Between
<1>5. CASE OpenBuffer
  BY <1>5 DEF OpenBuffer, Holding, HeldType
<1>6. CASE OpenError
  BY <1>6 DEF OpenError, Holding, HeldType, Nothing
<1>7. CASE SearchFails \/ SearchPast \/ SearchFound
  BY <1>7, Kept DEF SearchFails, SearchPast, SearchFound, Give, Between
<1>8. CASE HandleOk \/ HandleRefused \/ HandleNoMemory \/ HandleMoov
  BY <1>8, Kept DEF HandleOk, HandleRefused, HandleNoMemory, HandleMoov, Give, Call, Between
<1>9. CASE NextTrack \/ TracksEnd \/ ReturnToMoovin
  BY <1>9, Kept
  DEF NextTrack, TracksEnd, ReturnToMoovin, MoovinOk, MoovinFails, Call, Between
<1>10. CASE Enter \/ Skip \/ KidsEnd \/ KidsNext \/ ReturnToParse
  BY <1>10, Kept DEF Enter, Skip, KidsEnd, KidsNext, ReturnToParse, Leave, Give, Call, Between
<1> QED
  BY <1>1, <1>2, <1>3, <1>4, <1>5, <1>6, <1>7, <1>8, <1>9, <1>10 DEF Next

LEMMA HoldingInit == Init => Holding
  BY DEF Init, Holding, HeldType, Nothing

(* mp4read_open leaves nothing held when it fails, at whatever depth of the  *)
(* file it did, and all that the decoder needs when it succeeds.             *)
THEOREM ReleasedHolds == Spec => []Released
<1>1. Holding /\ [Next]_vars => Holding'
  BY HoldingStep
<1>2. Holding => Released
  BY DEF Holding, Released
<1> QED BY <1>1, <1>2, HoldingInit, PTL DEF Spec
-----------------------------------------------------------------------------
(* The frame table.                                                          *)

LEMMA Remainder ==
  ASSUME NEW x \in Nat, NEW m \in Nat, 0 < m
  PROVE  x % m \in Nat /\ x % m <= x
<1>1. /\ x \div m \in Nat /\ x % m \in 0 .. m - 1
      /\ x = ((x \div m) * m) + (x % m) /\ (x \div m) * m >= 0
  BY SMTT(30)
<1> QED BY <1>1

\* The offsets stszin adds up, each modulo 2^32.
LEMMA OffsetsSays ==
  ASSUME NEW sizes \in Seq(Nat)
  PROVE  /\ Offsets(sizes) \in [0 .. Len(sizes) -> Nat] /\ Offsets(sizes)[0] = 0
         /\ \A i \in 1 .. Len(sizes) :
              Offsets(sizes)[i] = (Offsets(sizes)[i - 1] + sizes[i]) % U32
<1> DEFINE n == Len(sizes)
           F == [p \in (1 .. n) \X Nat |-> (p[2] + sizes[p[1]]) % U32]
           o == Offsets(sizes)
<1>1. n \in Nat /\ \A i \in 1 .. n : sizes[i] \in Nat
  OBVIOUS
<1>2. ASSUME NEW x \in Nat, NEW i \in 1 .. n PROVE (x + sizes[i]) % U32 \in Nat
  <2> DEFINE s == x + sizes[i]
  <2>1. s \in Nat /\ U32 \in Nat /\ 0 < U32
    BY <1>1, Mp4Assumption
  <2> HIDE DEF s
  <2>2. s % U32 \in Nat
    BY <2>1, Remainder
  <2> QED BY <2>2 DEF s
<1>3. PICK g : Recurs(g, n, 0, F)
  <2>1. F \in [(1 .. n) \X Nat -> Nat]
    BY <1>2
  <2> HIDE DEF F, n
  <2> QED BY <1>1, <2>1, Defined
<1>4. ASSUME NEW i \in 1 .. n PROVE g[i] = (g[i - 1] + sizes[i]) % U32
  <2>1. <<i, g[i - 1]>> \in (1 .. n) \X Nat
    <3>1. g[i - 1] \in Nat
      BY <1>1, <1>3 DEF Recurs
    <3> HIDE DEF n
    <3> QED BY <3>1
  <2>2. F[<<i, g[i - 1]>>] = (g[i - 1] + sizes[i]) % U32
    BY <2>1
  <2> HIDE DEF F
  <2> QED BY <1>3, <2>2 DEF Recurs
<1>5. g = [i \in 0 .. n |-> IF i = 0 THEN 0 ELSE (g[i - 1] + sizes[i]) % U32]
  BY <1>1, <1>3, <1>4 DEF Recurs
<1>6. o = [i \in 0 .. n |-> IF i = 0 THEN 0 ELSE (o[i - 1] + sizes[i]) % U32]
  BY <1>5 DEF Offsets
<1> HIDE DEF o
<1>7. \A i \in 0 .. n : o[i] \in Nat
  <2> DEFINE S == {i \in 0 .. n : o[i] \in Nat}
  <2>1. 0 \in S
    BY <1>1, <1>6
  <2>2. \A i \in 1 .. n : i - 1 \in S => i \in S
    <3>1. SUFFICES ASSUME NEW i \in 1 .. n, o[i - 1] \in Nat PROVE o[i] \in Nat
      BY <1>1
    <3>2. o[i] = (o[i - 1] + sizes[i]) % U32
      BY <1>1, <1>6
    <3> QED BY <1>2, <3>1, <3>2
  <2> HIDE DEF S
  <2>3. 0 .. n \subseteq S
    BY <1>1, <2>1, <2>2, InductUpTo
  <2> QED BY <2>3 DEF S
<1>8. o \in [0 .. n -> Nat]
  BY <1>6, <1>7
<1>9. o[0] = 0 /\ \A i \in 1 .. n : o[i] = (o[i - 1] + sizes[i]) % U32
  BY <1>1, <1>6
<1> HIDE DEF n
<1> QED BY <1>8, <1>9 DEF n, o

\* maxsize is a bound of the sizes.
LEMMA LargestSays ==
  ASSUME NEW sizes \in Seq(Nat)
  PROVE  Largest(sizes) \in Nat /\ \A i \in 1 .. Len(sizes) : sizes[i] <= Largest(sizes)
<1> DEFINE n == Len(sizes)
           T(m) == {sizes[i] : i \in 1 .. m} \cup {0}
           S == {m \in 0 .. n : \E x \in T(m) : \A y \in T(m) : x >= y}
<1>1. n \in Nat /\ \A i \in 1 .. n : sizes[i] \in Nat
  OBVIOUS
<1>2. 0 .. n \subseteq S
  <2>1. 0 \in S
    <3>1. T(0) = {0}
      OBVIOUS
    <3> QED BY <3>1
  <2>2. \A m \in 1 .. n : m - 1 \in S => m \in S
    <3>1. SUFFICES ASSUME NEW m \in 1 .. n, m - 1 \in S PROVE m \in S
      OBVIOUS
    <3>2. T(m) = T(m - 1) \cup {sizes[m]} /\ T(m - 1) \subseteq Nat /\ sizes[m] \in Nat
      BY <1>1
    <3> DEFINE z == sizes[m]
               L == T(m - 1)
               R == T(m)
    <3>3. PICK x \in L : \A y \in L : x >= y
      BY <3>1
    <3>4. R = L \cup {z} /\ L \subseteq Nat /\ z \in Nat
      BY <3>2
    <3>5. \E u \in R : \A y \in R : u >= y
      <4> HIDE DEF z, L, R, T
      <4>1. CASE x >= z
        BY <3>3, <3>4, <4>1
      <4>2. CASE z >= x
        BY <3>3, <3>4, <4>2
      <4> QED BY <3>3, <3>4, <4>1, <4>2
    <3>6. m \in 0 .. n
      BY <1>1
    <3> HIDE DEF T
    <3> QED BY <3>5, <3>6
  <2> HIDE DEF S
  <2> QED BY <1>1, <2>1, <2>2, InductUpTo
<1>3. T(n) = ToSet(sizes) \cup {0} /\ T(n) \subseteq Nat
  BY <1>1 DEF ToSet
<1>4. \E x \in T(n) : \A y \in T(n) : x >= y
  <2>1. n \in S
    <3> HIDE DEF S
    <3> QED BY <1>1, <1>2
  <2> HIDE DEF T
  <2> QED BY <2>1
<1> HIDE DEF T
<1>5. Largest(sizes) \in T(n) /\ \A y \in T(n) : Largest(sizes) >= y
  BY <1>3, <1>4 DEF Largest, Max
<1>6. \A i \in 1 .. n : sizes[i] \in T(n)
  BY DEF T
<1> QED BY <1>1, <1>3, <1>5, <1>6

\* What makes a table sound.
Sound ==
  /\ conf.offsets[0] = 0
  /\ \A k \in 1 .. Cardinality(DOMAIN conf.offsets) - 1 :
       conf.offsets[k] - conf.offsets[k - 1] \in 0 .. conf.maxsize

\* A table held is sound from stszin on; one that overflows makes mp4read_open fail, through
\* all the calls it is in.
Tabled ==
  /\ held \in HeldType
  /\ conf = [NoConf EXCEPT !.rate = conf.rate, !.samples = conf.samples,
                           !.channels = conf.channels, !.asc = conf.asc,
                           !.offsets = conf.offsets, !.maxsize = conf.maxsize,
                           !.mdatofs = conf.mdatofs]
  /\ held.table /\ pc # "failed" => Sound \/ (pc = "return" /\ ret = "fail")
  /\ pc \in {"closed", "failed"} => held = Nothing

\* stszin, when no offset falls below the one before it.
LEMMA TableBuilt ==
  ASSUME NEW b \in Seq(Nat), ~Overflows(b), conf'.offsets = Offsets(b),
         conf'.maxsize = Largest(b)
  PROVE  Sound'
<1> DEFINE n == Len(b)
           o == Offsets(b)
           m == Largest(b)
<1>1. n \in Nat /\ \A i \in 1 .. n : b[i] \in Nat /\ b[i] <= m
  BY LargestSays
<1>2. /\ o \in [0 .. n -> Nat] /\ o[0] = 0 /\ m \in Nat
      /\ \A i \in 1 .. n : o[i] = (o[i - 1] + b[i]) % U32 /\ ~(o[i] < o[i - 1])
  BY OffsetsSays, LargestSays DEF Overflows
<1> HIDE DEF o, m, n
<1>3. Cardinality(DOMAIN o) - 1 = n
  <2>1. DOMAIN o = 0 .. n
    BY <1>2
  <2> QED BY <1>1, <2>1, FS_Interval
<1>4. ASSUME NEW k \in 1 .. n PROVE o[k] - o[k - 1] \in 0 .. m
  <2> DEFINE x == o[k - 1]
             y == b[k]
             s == x + y
  <2>0. x \in Nat /\ y \in Nat /\ y <= m
    BY <1>1, <1>2
  <2>1. s \in Nat /\ U32 \in Nat /\ 0 < U32
    BY <2>0, Mp4Assumption
  <2>2. o[k] = s % U32 /\ ~(o[k] < x)
    BY <1>2
  <2> HIDE DEF s
  <2>3. s % U32 \in Nat /\ s % U32 <= s
    BY <2>1, Remainder
  <2> DEFINE z == o[k]
  <2>4. z \in Nat /\ z <= x + y /\ ~(z < x)
    BY <2>2, <2>3 DEF s
  <2> HIDE DEF x, y, z
  <2>5. z - x \in 0 .. m
    BY <1>2, <2>0, <2>4
  <2> QED BY <2>5 DEF x, z
<1>5. conf'.offsets = o /\ conf'.maxsize = m
  BY DEF o, m
<1> QED BY <1>2, <1>3, <1>4, <1>5 DEF Sound

\* A handler that succeeds leaves a sound table, or the one there was.
LEMMA HandleTabled ==
  ASSUME IInv, Tabled, HandleOk
  PROVE  Tabled'
<1>1. PICK b \in Found.reads :
        /\ ~Refused(Found.name, Found.size - 8, b)
        /\ conf' = Configured(Found.name, b)
  BY DEF HandleOk
<1>2. pc = "handle" /\ pc' = "enter"
  BY DEF HandleOk
<1>3. /\ held' = IF Found.name = "stsz" THEN [held EXCEPT !.table = TRUE] ELSE held
      /\ held \in HeldType
  BY DEF HandleOk, Tabled
<1>4. CASE Found.name = "stsz"
  <2>1. b \in Seq(Nat)
    <3>1. Found.name = "stsz" => Found.reads \subseteq Seq(Nat)
      BY <1>2, Mp4Assumption DEF IInv, Pace, Fields, Found
    <3> QED BY <1>1, <1>4, <3>1
  <2>2. ~Overflows(b)
    BY <1>1, <1>4 DEF Refused
  <2>3. conf' = [conf EXCEPT !.offsets = Offsets(b), !.maxsize = Largest(b)]
    BY <1>1, <1>4, Zenon DEF Configured
  <2> DEFINE o == Offsets(b)
             m == Largest(b)
  <2>4. /\ conf'.offsets = o /\ conf'.maxsize = m
        /\ conf' = [NoConf EXCEPT !.rate = conf'.rate, !.samples = conf'.samples,
                                 !.channels = conf'.channels, !.asc = conf'.asc,
                                 !.offsets = conf'.offsets, !.maxsize = conf'.maxsize,
                                 !.mdatofs = conf'.mdatofs]
    <3> HIDE DEF o, m
    <3>1. conf' = [conf EXCEPT !.offsets = o, !.maxsize = m]
      BY <2>3 DEF o, m
    <3> QED BY <3>1 DEF Tabled, NoConf
  <2>5. Sound'
    BY <2>1, <2>2, <2>4, TableBuilt
  <2> QED BY <1>2, <1>3, <1>4, <2>4, <2>5 DEF Tabled, HeldType
<1>5. CASE Found.name # "stsz"
  <2>1. \/ \E r, n : conf' = [conf EXCEPT !.rate = r, !.samples = n]
        \/ \E c : conf' = [conf EXCEPT !.channels = c]
        \/ \E a : conf' = [conf EXCEPT !.asc = a]
        \/ \E m : conf' = [conf EXCEPT !.mdatofs = m]
        \/ conf' = conf
    BY <1>1, <1>5, Zenon DEF Configured
  <2>2. /\ conf'.offsets = conf.offsets /\ conf'.maxsize = conf.maxsize
        /\ conf' = [NoConf EXCEPT !.rate = conf'.rate, !.samples = conf'.samples,
                                 !.channels = conf'.channels, !.asc = conf'.asc,
                                 !.offsets = conf'.offsets, !.maxsize = conf'.maxsize,
                                 !.mdatofs = conf'.mdatofs]
    BY <2>1 DEF Tabled, NoConf
  <2>3. Sound => Sound'
    BY <2>2 DEF Sound
  <2> QED BY <1>2, <1>3, <1>5, <2>2, <2>3 DEF Tabled
<1> QED BY <1>4, <1>5

\* What fails goes on failing, through every call it is in.
LEMMA TabledStep ==
  ASSUME IInv, Tabled, [Next]_vars
  PROVE  Tabled'
<1> USE DEF Tabled
<1>1. CASE HandleOk
  BY <1>1, HandleTabled
<1>2. CASE UNCHANGED conf /\ held' = held /\ pc \notin {"closed", "return", "failed"}
           /\ pc' \notin {"closed", "failed"}
  BY <1>2 DEF Sound
<1>3. CASE UNCHANGED conf /\ held' = held /\ pc = "return" /\ ret # "fail"
           /\ pc' \notin {"closed", "failed"}
  BY <1>3 DEF Sound
<1>4. CASE UNCHANGED conf /\ held' = held /\ pc' = "return" /\ ret' = "fail"
  BY <1>4
<1>5. CASE UNCHANGED vars
  BY <1>5 DEF vars, Sound
<1>6. CASE OpenFails \/ Open
  <2>1. held = Nothing /\ UNCHANGED conf
    BY <1>6 DEF OpenFails, Open
  <2>2. CASE OpenFails
    BY <2>1, <2>2 DEF OpenFails
  <2>3. CASE Open
    <3>1. held' = [file |-> TRUE, table |-> FALSE, buffer |-> FALSE] /\ pc' = "search"
      BY <2>1, <2>3 DEF Open, Call, Nothing
    <3> QED BY <2>1, <3>1 DEF HeldType
  <2> QED BY <1>6, <2>2, <2>3
<1>7. CASE OpenMoov
  BY <1>3, <1>7 DEF OpenMoov, Call
<1>8. CASE OpenBuffer
  BY <1>8 DEF OpenBuffer, HeldType, Sound
<1>9. CASE OpenError
  BY <1>9 DEF OpenError, HeldType, Nothing
<1>10. CASE SearchFails \/ SearchPast \/ SearchFound
  BY <1>2, <1>10 DEF SearchFails, SearchPast, SearchFound, Give
<1>11. CASE HandleRefused
  <2>1. /\ pc = "handle" /\ pc' = "return" /\ UNCHANGED conf
        /\ ret' = "fail" \/ Found.name # "stsz"
    BY <1>11 DEF HandleRefused, Give, Unsupported
  <2>2. held' \in {held, IF Found.name = "stsz" THEN [held EXCEPT !.table = TRUE] ELSE held}
    BY <1>11 DEF HandleRefused
  <2> QED BY <2>1, <2>2 DEF HeldType, Sound
<1>12. CASE HandleNoMemory \/ HandleMoov
  BY <1>2, <1>4, <1>12 DEF HandleNoMemory, HandleMoov, Give, Call
<1>13. CASE NextTrack \/ TracksEnd
  BY <1>2, <1>13 DEF NextTrack, TracksEnd, MoovinOk, Call
<1>14. CASE ReturnToMoovin
  BY <1>3, <1>4, <1>14 DEF ReturnToMoovin, MoovinOk, MoovinFails
<1>15. CASE Enter \/ Skip \/ KidsEnd \/ KidsNext
  BY <1>2, <1>15 DEF Enter, Skip, KidsEnd, KidsNext, Leave, Give, Call
<1>16. CASE ReturnToParse
  BY <1>3, <1>4, <1>16 DEF ReturnToParse, Give
<1> QED
  BY <1>1, <1>5, <1>6, <1>7, <1>8, <1>9, <1>10, <1>11, <1>12, <1>13, <1>14, <1>15, <1>16
  DEF Next

LEMMA TabledInit == Init => Tabled
<1>1. SUFFICES ASSUME conf = NoConf, held = Nothing PROVE Tabled
  BY DEF Init
<1>2. held \in HeldType /\ ~held.table
  BY <1>1 DEF Nothing, HeldType
<1>3. conf = [NoConf EXCEPT !.rate = conf.rate, !.samples = conf.samples,
                           !.channels = conf.channels, !.asc = conf.asc,
                           !.offsets = conf.offsets, !.maxsize = conf.maxsize,
                           !.mdatofs = conf.mdatofs]
  BY <1>1 DEF NoConf
<1> QED BY <1>1, <1>2, <1>3 DEF Tabled

(* The frame table mp4read_frame uses starts at 0 and does not fall, and no  *)
(* frame is larger than the buffer, whatever sizes were read, also when their*)
(* sum overflows or the atom was cut off, in every file that is opened.      *)
THEOREM TableSoundHolds == Spec => []TableSound
<1>1. IInv /\ Tabled /\ [Next]_vars => Tabled'
  BY TabledStep
<1>2. Tabled => TableSound
  BY DEF Tabled, TableSound, Sound
<1> QED BY <1>1, <1>2, InvInit, InvStep, TabledInit, PTL DEF Spec
-----------------------------------------------------------------------------
(* Files that are trees of atoms.                                            *)

\* A call that has found its atom; a call of moovin where the tracks begin.
Sits(c) ==
  /\ c.fn = "parse" => c.at \in DOMAIN file.atoms /\ c.size = file.atoms[c.at].size
  /\ c.fn = "moovin" => AtomAt(file.id, c.at)

\* Every place from which a search may start or go on is that of an atom, or the end.
Placed ==
  /\ pc = "search" => AtomAt(file.id, fpos)
  /\ pc = "handle" => fpos = Top.at + 8
  /\ pc = "enter" /\ Op.op = "DESCENT" => AtomAt(file.id, fpos)
  /\ pc = "tracks" \/ (pc = "return" /\ ret = "unsupported") => AtomAt(file.id, fpos)
  /\ \A i \in 1 .. Len(stack) : AtomAt(file.id, stack[i].kids)
  /\ \A i \in 1 .. Len(stack) : i # Len(stack) \/ pc # "search" => Sits(stack[i])

\* What TreeOfAtoms says of the file being opened.
LEMMA TreeSays ==
  ASSUME Fields, TreeOfAtoms(file.id)
  PROVE  /\ AtomAt(file.id, 0)
         /\ \A o \in DOMAIN file.atoms :
              LET a == file.atoms[o]
              IN  /\ AtomAt(file.id, o + a.size)
                  /\ a.name \in {"moov", "trak", "mdia", "minf", "stbl"} => AtomAt(file.id, o + 8)
                  /\ a.name = "stsd" => AtomAt(file.id, o + 8 + 8)
                  /\ a.name = "mp4a" => AtomAt(file.id, o + 8 + 28)
  BY DEF Fields, TreeOfAtoms

\* Whose children the scripts look for, without a handler and with one.
WithKids(s, i) ==
  /\ Script[s][i].op = "NAME" /\ Script[s][i + 1].op = "DESCENT" =>
       Script[s][i].name \in {"trak", "mdia", "minf", "stbl"}
  /\ Script[s][i].op = "NAME" /\ Script[s][i + 1].op = "DATA" /\ Script[s][i + 2].op = "DESCENT" =>
       Script[s][i].name \in {"stsd", "mp4a"}

LEMMA KidsForm == \A s \in Scripts : \A i \in DOMAIN Script[s] : WithKids(s, i)
<1>1. \A i \in DOMAIN Script["head"] : WithKids("head", i)
  BY DEF Script, WithKids, Find, Data, Descent, Ascent, Stop
<1>2. \A i \in DOMAIN Script["moov"] : WithKids("moov", i)
  BY DEF Script, WithKids, Find, Data, Descent, Ascent, Stop
<1>3. \A i \in DOMAIN Script["mvhd"] : WithKids("mvhd", i)
  BY DEF Script, WithKids, Find, Data, Descent, Ascent, Stop
<1>4. \A i \in DOMAIN Script["trak"] : WithKids("trak", i)
  BY SMTT(60) DEF Script, WithKids, Find, Data, Descent, Ascent, Stop
<1> QED BY <1>1, <1>2, <1>3, <1>4 DEF Scripts

\* A call of parse from such a place.
LEMMA PlacedCall ==
  ASSUME Fields, TreeOfAtoms(file.id), UNCHANGED file, NEW calls \in Seq(CallType), NEW p, NEW max,
         Call(calls, p, max), AtomAt(file.id, p),
         \A i \in 1 .. Len(calls) : AtomAt(file.id, calls[i].kids) /\ Sits(calls[i])
  PROVE  Placed'
<1> DEFINE c == ParseCall(p, max)
<1>1. c.kids = 0
  BY DEF ParseCall
<1>2. stack' = Append(calls, c) /\ pc' = "search" /\ fpos' = p
  BY DEF Call
<1> HIDE DEF c
<1>3. Len(calls) \in Nat /\ Len(stack') = Len(calls) + 1 /\ stack'[Len(calls) + 1] = c
      /\ \A i \in 1 .. Len(calls) : stack'[i] = calls[i]
  BY <1>2, AppendProperties, LenProperties
<1>4. AtomAt(file.id, 0)
  BY TreeSays
<1>5. \A i \in 1 .. Len(stack') : AtomAt(file.id, stack'[i].kids)
  BY <1>1, <1>3, <1>4
<1>6. \A i \in 1 .. Len(stack') : i # Len(stack') => Sits(stack'[i])
  BY <1>3
<1>7. AtomAt(file.id, fpos')
  BY <1>2
<1> QED BY <1>2, <1>5, <1>6, <1>7 DEF Placed, Sits

\* A call that returns.
LEMMA PlacedGive ==
  ASSUME Fields, Placed, UNCHANGED file, stack # <<>>, NEW r, Give(r),
         r = "unsupported" => AtomAt(file.id, fpos')
  PROVE  Placed'
<1>1. stack' = Front(stack) /\ pc' = "return" /\ ret' = r
  BY DEF Give
<1>2. Len(stack') = Len(stack) - 1 /\ Len(stack) \in Nat
      /\ \A i \in 1 .. Len(stack) - 1 : stack'[i] = stack[i]
  BY <1>1, Popped DEF Fields
<1>3. \A i \in 1 .. Len(stack') : AtomAt(file.id, stack'[i].kids) /\ Sits(stack'[i])
  BY <1>2 DEF Placed
<1> QED BY <1>1, <1>3 DEF Placed, Sits

\* The atom the innermost call of parse has found.
LEMMA TopPlaced ==
  ASSUME IInv, TreeOfAtoms(file.id), Placed, stack # <<>>, Top.fn = "parse", pc # "search"
  PROVE  /\ Top.at \in DOMAIN file.atoms /\ Top.size = file.atoms[Top.at].size
         /\ AtomAt(file.id, Top.at + Top.size) /\ AtomAt(file.id, Top.kids)
<1>1. Fields /\ Top = stack[Len(stack)] /\ Len(stack) \in 1 .. Len(stack)
  BY TopTyped DEF IInv
<1>2. Sits(Top) /\ AtomAt(file.id, Top.kids)
  BY <1>1 DEF Placed
<1>3. Top.at \in DOMAIN file.atoms /\ Top.size = file.atoms[Top.at].size
  BY <1>2 DEF Sits
<1> QED BY <1>1, <1>2, <1>3, TreeSays

\* The innermost call changes: it finds its atom, or where its children begin.
LEMMA PlacedTop ==
  ASSUME Fields, Placed, UNCHANGED file, stack # <<>>, NEW c \in CallType, pc' # "search",
         stack' = [stack EXCEPT ![Len(stack)] = c], Sits(c), AtomAt(file.id, c.kids)
  PROVE  /\ Top' = c
         /\ \A i \in 1 .. Len(stack') : AtomAt(file.id, stack'[i].kids) /\ Sits(stack'[i])
<1>1. Len(stack) \in Nat /\ Len(stack) >= 1
  BY TopTyped
<1>2. /\ Len(stack') = Len(stack) /\ stack'[Len(stack)] = c
      /\ \A i \in 1 .. Len(stack) : i # Len(stack) => stack'[i] = stack[i]
  BY <1>1, ExceptSeq DEF Fields
<1>3. \A i \in 1 .. Len(stack) : i # Len(stack) => AtomAt(file.id, stack[i].kids) /\ Sits(stack[i])
  BY DEF Placed
<1> QED BY <1>1, <1>2, <1>3 DEF Top, Last

LEMMA PlacedSearch ==
  ASSUME IInv, TreeOfAtoms(file.id), Placed, SearchFails \/ SearchPast \/ SearchFound
  PROVE  Placed'
<1> USE DEF IInv
<1>1. CASE SearchFails
  <2>1. Give("fail") /\ stack # <<>> /\ UNCHANGED file
    BY <1>1 DEF SearchFails, Calls
  <2> QED BY <2>1, PlacedGive
<1>2. CASE SearchPast
  <2>1. /\ fpos \in DOMAIN file.atoms /\ fpos' = fpos + file.atoms[fpos].size
        /\ pc = "search" /\ UNCHANGED <<file, pc, stack>>
    BY <1>2 DEF SearchPast, HeaderReadable, Header
  <2>2. AtomAt(file.id, fpos')
    BY <2>1, TreeSays
  <2> QED BY <2>1, <2>2 DEF Placed, Sits
<1>3. CASE SearchFound
  <2> DEFINE c == [Top EXCEPT !.at = fpos, !.size = file.atoms[fpos].size]
  <2>1. /\ fpos \in DOMAIN file.atoms /\ file.atoms[fpos].name = Op.name
        /\ pc = "search" /\ fpos' = fpos + 8 /\ ip' = ip + 1 /\ UNCHANGED <<file, script, ret>>
        /\ stack' = [stack EXCEPT ![Len(stack)].at = fpos,
                                  ![Len(stack)].size = file.atoms[fpos].size]
        /\ pc' = IF Script[script][ip + 1].op = "DATA" THEN "handle" ELSE "enter"
    BY <1>3 DEF SearchFound, HeaderReadable, Header
  <2>2. stack # <<>> /\ Top.fn = "parse" /\ Op.op = "NAME"
    BY <2>1 DEF Calls, Pace
  <2>3. Top \in CallType /\ Top = stack[Len(stack)] /\ Len(stack) \in 1 .. Len(stack)
    BY <2>2, TopTyped, Popped DEF Fields, Top
  <2>4. file.atoms[fpos].size \in Nat /\ fpos \in Nat
    BY <2>1, SizeTyped DEF Header, Fields
  <2>5. c \in CallType /\ c.at = fpos /\ c.size = file.atoms[fpos].size /\ c.fn = "parse"
        /\ c.kids = Top.kids
    BY <2>2, <2>3, <2>4 DEF CallType
  <2>6. stack' = [stack EXCEPT ![Len(stack)] = c]
    BY <2>1, <2>3, <2>4 DEF CallType, Fields
  <2> HIDE DEF c
  <2>7. Sits(c) /\ AtomAt(file.id, c.kids)
    BY <2>1, <2>3, <2>5 DEF Sits, Placed
  <2>8. /\ Top' = c
        /\ \A i \in 1 .. Len(stack') : AtomAt(file.id, stack'[i].kids) /\ Sits(stack'[i])
    BY <2>1, <2>2, <2>5, <2>6, <2>7, PlacedTop
  <2>9. pc' = "enter" /\ Op'.op = "DESCENT" => AtomAt(file.id, fpos')
    <3>1. WithKids(script, ip)
      BY KidsForm DEF Fields
    <3>2. Script[script][ip + 1].op = "DESCENT" =>
            file.atoms[fpos].name \in {"trak", "mdia", "minf", "stbl"}
      BY <2>1, <2>2, <3>1 DEF WithKids, Op
    <3>3. Op' = Script[script][ip + 1]
      BY <2>1 DEF Op
    <3> QED BY <2>1, <3>2, <3>3, TreeSays
  <2> QED BY <2>1, <2>5, <2>8, <2>9 DEF Placed, Sits
<1> QED BY <1>1, <1>2, <1>3

LEMMA PlacedHandle ==
  ASSUME IInv, TreeOfAtoms(file.id), Placed, HandleOk \/ HandleRefused \/ HandleNoMemory
  PROVE  Placed'
<1> USE DEF IInv
<1>1. /\ pc = "handle" /\ stack # <<>> /\ Top.fn = "parse" /\ UNCHANGED <<file, script>>
      /\ fpos = Top.at + 8
  BY DEF HandleOk, HandleRefused, HandleNoMemory, Calls, Placed
<1>2. Top.at \in DOMAIN file.atoms /\ AtomAt(file.id, Top.at + Top.size) /\ Top.at \in Nat
  BY <1>1, TopPlaced, TopTyped
<1>3. CASE HandleOk
  <2>1. /\ fpos' = fpos + Consumed(Found.name) /\ ip' = ip + 1 /\ pc' = "enter"
        /\ UNCHANGED stack
    BY <1>3 DEF HandleOk
  <2>2. Op'.op = "DESCENT" => AtomAt(file.id, fpos')
    <3>1. /\ ip - 1 \in DOMAIN Script[script] /\ Script[script][ip - 1].op = "NAME"
          /\ Script[script][ip - 1].name = Found.name /\ Op.op = "DATA"
      BY <1>1 DEF Pace
    <3>2. ip \in Nat /\ (ip - 1) + 1 = ip /\ (ip - 1) + 2 = ip + 1
      BY Here
    <3>3. WithKids(script, ip - 1)
      BY <3>1, KidsForm DEF Fields
    <3>4. Script[script][ip + 1].op = "DESCENT" => Found.name \in {"stsd", "mp4a"}
      BY <3>1, <3>2, <3>3 DEF WithKids, Op
    <3>5. Op' = Script[script][ip + 1]
      BY <1>1, <2>1 DEF Op
    <3>6. Found.name = "stsd" => fpos' = Top.at + 8 + 8
      BY <1>1, <2>1 DEF Consumed
    <3>7. Found.name = "mp4a" => fpos' = Top.at + 8 + 28
      BY <1>1, <2>1 DEF Consumed
    <3> QED BY <1>2, <3>4, <3>5, <3>6, <3>7, TreeSays DEF Found
  <2>3. \A i \in 1 .. Len(stack) : AtomAt(file.id, stack[i].kids) /\ Sits(stack[i])
    BY <1>1 DEF Placed
  <2> QED BY <1>1, <2>1, <2>2, <2>3 DEF Placed, Sits
<1>4. CASE HandleRefused \/ HandleNoMemory
  <2>1. PICK r : Give(r) /\ fpos' = Top.at + Top.size
    BY <1>4 DEF HandleRefused, HandleNoMemory
  <2> QED BY <1>1, <1>2, <2>1, PlacedGive
<1> QED BY <1>3, <1>4

LEMMA PlacedMoov ==
  ASSUME IInv, TreeOfAtoms(file.id), Placed, HandleMoov
  PROVE  Placed'
<1> USE DEF IInv
<1> DEFINE c == MoovinCall(fpos, Found.size - 8)
           calls == Append(stack, c)
<1>1. /\ pc = "handle" /\ Found.name = "moov" /\ Call(calls, fpos, Found.size - 8)
      /\ UNCHANGED file
  BY DEF HandleMoov
<1>2. stack # <<>> /\ Top.fn = "parse" /\ fpos = Top.at + 8
  BY <1>1 DEF Calls, Placed
<1>3. AtomAt(file.id, fpos)
  BY <1>1, <1>2, TopPlaced, TreeSays DEF Found
<1>4. c \in CallType /\ c.kids = 0 /\ c.fn = "moovin" /\ c.at = fpos
  <2>1. Found.size \in Nat /\ Found.size >= 8 /\ fpos \in Nat /\ script \in Scripts /\ ip \in Nat
    BY <1>1, Here DEF Pace, Fields
  <2> QED BY <2>1 DEF MoovinCall, CallType
<1> HIDE DEF c
<1>5. calls \in Seq(CallType) /\ Len(calls) = Len(stack) + 1 /\ calls[Len(stack) + 1] = c
      /\ \A i \in 1 .. Len(stack) : calls[i] = stack[i]
  BY <1>4, Pushed DEF Fields
<1> HIDE DEF calls
<1>6. \A i \in 1 .. Len(stack) : AtomAt(file.id, stack[i].kids) /\ Sits(stack[i])
  BY <1>1 DEF Placed
<1>7. AtomAt(file.id, c.kids) /\ Sits(c)
  BY <1>3, <1>4, TreeSays DEF Sits
<1>8. Len(stack) \in Nat
  BY LenProperties DEF Fields
<1>9. \A i \in 1 .. Len(calls) : AtomAt(file.id, calls[i].kids) /\ Sits(calls[i])
  BY <1>5, <1>6, <1>7, <1>8
<1> QED BY <1>1, <1>3, <1>5, <1>9, PlacedCall

\* The script moov looks for no children of its own.
LEMMA PlacedMoovinOk ==
  ASSUME IInv, Placed, stack # <<>>, Top.fn = "moovin", MoovinOk, pc # "search"
  PROVE  Placed'
<1> USE DEF IInv
<1>1. /\ Top.back = <<"moov", 2>> /\ Len(stack) = 2 /\ Len(Front(stack)) = 1
  BY Moovin
<1>2. /\ script' = "moov" /\ ip' = 3 /\ stack' = Front(stack) /\ pc' = "enter" /\ UNCHANGED file
  BY <1>1 DEF MoovinOk
<1>3. \A i \in 1 .. Len(stack) - 1 : Front(stack)[i] = stack[i]
  BY Popped DEF Fields
<1>4. \A i \in 1 .. Len(stack') : AtomAt(file.id, stack'[i].kids) /\ Sits(stack'[i])
  BY <1>1, <1>2, <1>3 DEF Placed
<1>5. Op'.op # "DESCENT"
  BY <1>2, MoovScript DEF Op
<1> QED BY <1>2, <1>4, <1>5 DEF Placed, Sits

LEMMA PlacedMoovin ==
  ASSUME IInv, TreeOfAtoms(file.id), Placed, TracksEnd \/ ReturnToMoovin
  PROVE  Placed'
<1> USE DEF IInv
<1>1. stack # <<>> /\ Top.fn = "moovin" /\ pc \in {"tracks", "return"}
  BY DEF TracksEnd, ReturnToMoovin, Calls
<1>2. CASE MoovinOk
  BY <1>1, <1>2, PlacedMoovinOk
<1>3. CASE MoovinFails
  <2>1. /\ stack' = Front(Front(stack)) /\ pc' = "return" /\ ret' = "fail"
    BY <1>3 DEF MoovinFails
  <2>2. Len(stack') = 0
    BY <1>1, <2>1, Moovin
  <2> QED BY <2>1, <2>2 DEF Placed
<1>4. CASE /\ pc' = "tracks" /\ fpos' = Top.at /\ UNCHANGED <<file, stack>>
  <2>1. AtomAt(file.id, Top.at)
    <3>1. Top = stack[Len(stack)] /\ Len(stack) \in 1 .. Len(stack)
      BY <1>1, TopTyped
    <3> QED BY <1>1, <3>1 DEF Placed, Sits
  <2> QED BY <1>1, <1>4, <2>1 DEF Placed, Sits
<1>5. CASE /\ ret = "unsupported" /\ pc = "return" /\ pc' = "tracks" /\ UNCHANGED <<file, fpos, stack>>
  BY <1>5 DEF Placed, Sits
<1> QED BY <1>2, <1>3, <1>4, <1>5 DEF TracksEnd, ReturnToMoovin

LEMMA PlacedChildren ==
  ASSUME IInv, TreeOfAtoms(file.id), Placed, Enter \/ Skip \/ KidsEnd \/ ReturnToParse
  PROVE  Placed'
<1> USE DEF IInv
<1>1. stack # <<>> /\ Top.fn = "parse" /\ UNCHANGED file
  BY DEF Enter, Skip, KidsEnd, Leave, ReturnToParse, Calls
<1>2. CASE Enter
  <2> DEFINE c == [Top EXCEPT !.kids = fpos]
  <2>1. /\ pc = "enter" /\ Op.op = "DESCENT" /\ pc' = "kids"
        /\ stack' = [stack EXCEPT ![Len(stack)].kids = fpos]
    BY <1>2 DEF Enter
  <2>2. Top \in CallType /\ Top = stack[Len(stack)] /\ Len(stack) \in 1 .. Len(stack) /\ fpos \in Nat
    BY <1>1, TopTyped, Popped DEF Fields, Top
  <2>3. c \in CallType /\ c.at = Top.at /\ c.size = Top.size /\ c.fn = Top.fn /\ c.kids = fpos
    BY <2>2 DEF CallType
  <2>4. stack' = [stack EXCEPT ![Len(stack)] = c]
    BY <2>1, <2>2 DEF CallType, Fields
  <2> HIDE DEF c
  <2>5. Sits(c) /\ AtomAt(file.id, c.kids)
    BY <2>1, <2>2, <2>3 DEF Sits, Placed
  <2>6. \A i \in 1 .. Len(stack') : AtomAt(file.id, stack'[i].kids) /\ Sits(stack'[i])
    BY <1>1, <2>1, <2>3, <2>4, <2>5, PlacedTop
  <2> QED BY <1>1, <2>1, <2>6 DEF Placed, Sits
<1>3. CASE Skip \/ KidsEnd
  <2>1. Give("ok")
    BY <1>3 DEF Skip, KidsEnd, Leave
  <2> QED BY <1>1, <2>1, PlacedGive
<1>4. CASE ReturnToParse
  <2>1. CASE ret = "ok" /\ pc' = "kids" /\ UNCHANGED stack
    BY <1>1, <1>4, <2>1 DEF ReturnToParse, Placed, Sits
  <2>2. CASE ret # "ok" /\ Give(ret)
    BY <1>1, <1>4, <2>2, PlacedGive DEF ReturnToParse, Placed
  <2> QED BY <1>4, <2>1, <2>2 DEF ReturnToParse
<1> QED BY <1>2, <1>3, <1>4

LEMMA PlacedStep ==
  ASSUME IInv, TreeOfAtoms(file.id), Placed, [Next]_vars
  PROVE  Placed'
<1> USE DEF IInv
<1>1. CASE UNCHANGED vars
  BY <1>1 DEF vars, Placed, Sits, Top, Op
<1>2. CASE OpenFails \/ OpenBuffer \/ OpenError
  BY <1>2 DEF OpenFails, OpenBuffer, OpenError, Placed, Sits
<1>3. CASE Open \/ OpenMoov
  <2>1. UNCHANGED file /\ Call(<<>>, 0, IntMax)
    BY <1>3 DEF Open, OpenMoov
  <2> DEFINE none == <<>>
  <2>2. none \in Seq(CallType) /\ Len(none) = 0 /\ Call(none, 0, IntMax)
    BY <2>1, EmptySeq
  <2> HIDE DEF none
  <2>3. AtomAt(file.id, 0)
    BY TreeSays
  <2>4. \A i \in 1 .. Len(none) : AtomAt(file.id, none[i].kids) /\ Sits(none[i])
    BY <2>2
  <2> QED BY <2>1, <2>2, <2>3, <2>4, PlacedCall
<1>4. CASE NextTrack
  <2>1. /\ UNCHANGED file /\ Call(stack, fpos, Top.at + Top.size - fpos) /\ pc = "tracks"
        /\ stack \in Seq(CallType)
    BY <1>4 DEF NextTrack, Fields
  <2>2. AtomAt(file.id, fpos) /\ \A i \in 1 .. Len(stack) : AtomAt(file.id, stack[i].kids) /\ Sits(stack[i])
    BY <2>1 DEF Placed
  <2> QED BY <2>1, <2>2, PlacedCall
<1>5. CASE KidsNext
  <2>1. /\ UNCHANGED file /\ Call(stack, Top.kids, Top.size - 8) /\ pc = "kids"
        /\ stack \in Seq(CallType)
    BY <1>5 DEF KidsNext, Fields
  <2>2. AtomAt(file.id, Top.kids)
    BY <2>1, TopPlaced DEF Calls
  <2>3. \A i \in 1 .. Len(stack) : AtomAt(file.id, stack[i].kids) /\ Sits(stack[i])
    BY <2>1 DEF Placed
  <2> QED BY <2>1, <2>2, <2>3, PlacedCall
<1> QED
  BY <1>1, <1>2, <1>3, <1>4, <1>5, PlacedSearch, PlacedHandle, PlacedMoov, PlacedMoovin,
     PlacedChildren DEF Next

LEMMA PlacedInit == Init => Placed
<1>1. SUFFICES ASSUME Init PROVE Placed
  OBVIOUS
<1>2. stack = <<>> /\ Len(<<>>) = 0 /\ pc = "closed"
  BY <1>1, EmptySeq DEF Init
<1>3. Len(stack) = 0
  BY <1>2
<1> QED BY <1>2, <1>3 DEF Placed

(* In a file that is a tree of atoms, whatever they are and wherever it is   *)
(* cut off, no search reads a header in the middle of something: not behind  *)
(* the bytes stsdin and mp4ain have read, not when it runs on behind the     *)
(* parent, and not when moovin goes on from the handler of a track that is   *)
(* not sound.                                                                *)
THEOREM OnAtomsHolds == ASSUME TreesOfAtoms PROVE Spec => []OnAtoms
<1>1. IInv /\ Placed /\ [Next]_vars => Placed'
  BY PlacedStep DEF IInv, Fields, TreesOfAtoms
<1>2. Placed => OnAtoms
  BY DEF Placed, OnAtoms
<1> QED BY <1>1, <1>2, InvInit, InvStep, PlacedInit, PTL DEF Spec
-----------------------------------------------------------------------------
(* What opening a regular file comes to.                                     *)

\* Where a name is searched: the children of an atom, or the whole file.  The search
\* may run on to limit, behind the parent, and meets nothing of that name there.
Region(A, name, a, b, limit) ==
  /\ a \in Nat /\ b \in Nat /\ limit \in Int /\ b <= limit
  /\ \A c \in DOMAIN A : a <= c /\ c < b => Past(A, c) <= b
  /\ \A c \in DOMAIN A : A[c].name = name => A[c].size > 8
  /\ \A c \in DOMAIN A : A[c].name = name /\ a <= c /\ c + 8 < limit => c < b
  /\ name = "trak" => \A c \in DOMAIN A : A[c].name = name /\ a <= c /\ c < b => Direct(A, c, a, b)

\* A search that has come to p has left out only tracks that are passed over.  Tracks
\* are searched from the middle of the one before on.
Seeking(A, end, name, a, b, p) ==
  /\ p \in Nat /\ a <= p /\ (p \in DOMAIN A \/ p = end)
  /\ name = "trak" \/ (p \in DOMAIN A /\ p < b => Direct(A, p, a, b))
  /\ \A c \in Named(A, name, a, b) : c < p => name = "trak" /\ Passed(A, c)

Place(i) == Script["trak"][i]

\* The level of each place of the script trak, and the atoms with children by level.
Rank == <<0, 0, 1, 1, 1, 2, 2, 2, 2, 2, 2, 3, 3, 3, 3, 4, 4, 4, 5, 5, 5, 6, 6, 6, 5,
          4, 4, 4, 4, 4, 4, 4, 4>>
Boxes == <<"trak", "mdia", "minf", "stbl", "stsd", "mp4a">>
Box(A, t, l) == <<t, Mdia(A, t), Minf(A, t), Stbl(A, t), Stsd(A, t), Mp4a(A, t)>>[l]

\* What a place of the script asks of a track: an atom, and a value that is accepted.
Spot(A, t, i) == Kid(A, Box(A, t, Rank[i]), Place(i).name)
Met(A, t, i) ==
  /\ Place(i).op = "NAME" => Kids(A, Box(A, t, Rank[i]), Place(i).name) # {}
  /\ Place(i).op = "DATA" =>
       LET n == Place(i - 1).name
           o == Spot(A, t, i - 1)
       IN  ~Refused(n, A[o].size - 8, Body(A, o)) /\ ~Unsupported(n, Body(A, o))
Gone(A, t, i) == \A j \in 3 .. i - 1 : Met(A, t, j)

\* What the handlers have stored before place i.
Learnt(A, t, i) ==
  /\ i > 7  => /\ conf.rate = Body(A, Kid(A, Mdia(A, t), "mdhd")).rate
               /\ conf.samples = Body(A, Kid(A, Mdia(A, t), "mdhd")).samples
  /\ i > 20 => conf.channels = Body(A, Mp4a(A, t))
  /\ i > 23 => conf.asc = Body(A, Esds(A, t)).asc
  /\ i > 30 => conf.offsets = Offsets(Sizes(A, t)) /\ conf.maxsize = Largest(Sizes(A, t))
  /\ i > 32 => conf.mdatofs = Head(Body(A, Kid(A, Stbl(A, t), "stco")))

Candidate(A, t) == t \in Traks(A) /\ \A c \in Traks(A) : c < t => Passed(A, c)

Success(A) == \/ Plays(A) /\ conf = Told(A, Min(Left(A)))
              \/ EndsWithHandler(A) /\ ~held.table
Failure(A) == denied \/ ~Plays(A)

\* Not closed, not ended, not failing.
Live == pc \in {"search", "handle", "enter", "kids", "tracks"} \/ (pc = "return" /\ ret # "fail")

\* The atoms found outside the tracks.
Heads(A) ==
  /\ script # "head" \/ pc # "search" => Roots(A, "ftyp") # {}
  /\ script = "moov" /\ pc = "handle" => Roots(A, "moov") # {} /\ Top.at = Moov(A)
  /\ InTracks => /\ Roots(A, "moov") # {}
                 /\ stack[2].at = First(A, Moov(A)) /\ stack[2].size = A[Moov(A)].size - 8
  /\ script = "trak" \/ (script = "mvhd" /\ pc # "search") => Kids(A, Moov(A), "mvhd") # {}
  /\ script = "moov" /\ pc \notin {"search", "handle"} => Success(A)

\* Whose children are searched, within moov.
Owner(A) == IF Len(stack) = 3 THEN Moov(A) ELSE stack[Len(stack) - 1].at
Lo(A) == IF Len(stack) = 1 THEN 0 ELSE First(A, Owner(A))
Hi(A) == IF Len(stack) = 1 THEN IntMax ELSE Past(A, Owner(A))

Searches(A, end) ==
  pc = "search" => /\ Region(A, Op.name, Lo(A), Hi(A), Top.limit)
                   /\ Seeking(A, end, Op.name, Lo(A), Hi(A), fpos)

\* Within a track, which is the first that is not passed over unless its handler says so.
OnTrack ==
  /\ script = "trak" /\ Len(stack) >= 3 /\ ~(pc = "search" /\ Len(stack) = 3)
  /\ pc \in {"search", "handle", "enter", "kids"} \/ (pc = "return" /\ ret = "ok")

\* The call k is among the children of the box of its level.
Descended(A, t, k) ==
  /\ k - 2 \in 1 .. 6
  /\ stack[k].at = Box(A, t, k - 2) /\ stack[k].kids = First(A, stack[k].at)
  /\ A[stack[k].at].name = Boxes[k - 2]

TrackSays(A, t) ==
  /\ Candidate(A, t) /\ Gone(A, t, ip) /\ Learnt(A, t, ip)
  /\ ip >= 2 /\ (pc \in {"kids", "return"} => ip >= 3)
  /\ \A k \in 3 .. Len(stack) : k # Len(stack) \/ pc \in {"kids", "return"} => Descended(A, t, k)
  /\ pc = "handle" => Top.at = Spot(A, t, ip - 1)
  /\ pc = "enter" /\ Op.op = "DESCENT" =>
       /\ Len(stack) - 2 \in 1 .. 6
       /\ Top.at = Box(A, t, Len(stack) - 2) /\ fpos = First(A, Top.at)
       /\ A[Top.at].name = Boxes[Len(stack) - 2]

\* Between the tracks: at the start, or at the end of the handler of one passed over.
Resumes(A, end) ==
  /\ InTracks /\ (script = "trak" => ip = 9)
  /\ Seeking(A, end, "trak", First(A, Moov(A)), Past(A, Moov(A)), fpos) /\ fpos <= Past(A, Moov(A))
  /\ fpos = First(A, Moov(A)) \/ \E t \in Traks(A) : Past(A, Hdlr(A, t)) = fpos

Returns(A, end) ==
  /\ pc = "kids" => script = "trak"
  /\ pc = "return" /\ ret = "ok" /\ script # "trak" => Level = -1
  /\ pc = "return" /\ ret = "ok" /\ script = "trak" /\ Len(stack) = 2 => Success(A)
  /\ pc = "return" /\ ret = "unsupported" => script = "trak" /\ Len(stack) >= 2
  /\ pc = "return" /\ ret = "fail" => Failure(A)
  /\ pc = "return" => ret # "none"
  /\ pc = "tracks" \/ (pc = "return" /\ ret = "unsupported") => Resumes(A, end)
  /\ pc = "open" => Success(A)
  /\ pc = "failed" => Failure(A)

Untabled ==
  /\ pc = "closed" => ~held.table
  /\ Live /\ (script = "trak" => ip <= 30) /\ (script = "moov" => pc \in {"search", "handle"}) =>
       ~held.table

Opens(A, end) ==
  /\ Live => Heads(A)
  /\ Searches(A, end)
  /\ OnTrack => TrackSays(A, stack[3].at)
  /\ Returns(A, end)
  /\ Untabled

\* The invariant: every state in which a regular file is being opened.
Opening == Regular(file.atoms, End[file.id]) => Placed /\ Opens(file.atoms, End[file.id])
-----------------------------------------------------------------------------
(* What Regular says of a file.                                             *)

\* The least member of a set.
LEMMA MinSays ==
  ASSUME NEW S, S \subseteq Nat
  PROVE  /\ S # {} => Min(S) \in S /\ \A y \in S : Min(S) <= y
         /\ \A x \in S : (\A y \in S : x <= y) => Min(S) = x
<1>1. S # {} => Min(S) \in S /\ \A y \in S : Min(S) <= y
  BY Least DEF Min
<1>2. ASSUME NEW x \in S, \A y \in S : x <= y PROVE Min(S) = x
  <2>1. Min(S) \in S /\ Min(S) <= x /\ x <= Min(S)
    BY <1>1, <1>2
  <2>2. Min(S) \in Nat /\ x \in Nat
    BY <2>1
  <2> QED BY <2>1, <2>2
<1> QED BY <1>1, <1>2

\* A regular file, with the types of what it is made of.
Whole(A, end) ==
  /\ Regular(A, end) /\ end \in Nat /\ IntMax \in Nat /\ end < IntMax
  /\ \A o \in DOMAIN A : A[o].size \in Nat

LEMMA WholeFile ==
  ASSUME Fields, Regular(file.atoms, End[file.id])
  PROVE  Whole(file.atoms, End[file.id])
  BY Mp4Assumption DEF Fields, Whole

\* How its atoms lie.
LEMMA WholeSays ==
  ASSUME NEW A, NEW end, Whole(A, end)
  PROVE  /\ 0 \in DOMAIN A \/ 0 = end
         /\ \A o \in DOMAIN A :
              /\ o \in Nat /\ A[o].size \in Nat /\ A[o].size >= 8
              /\ Past(A, o) \in Nat /\ Past(A, o) = o + A[o].size /\ Past(A, o) <= end
              /\ Past(A, o) \in DOMAIN A \/ Past(A, o) = end
              /\ \A q \in DOMAIN A : o <= q /\ q < Past(A, o) => Past(A, q) <= Past(A, o)
<1>1. DOMAIN A \subseteq Nat /\ (0 \in DOMAIN A \/ 0 = end)
  BY DEF Whole, Regular
<1>2. ASSUME NEW o \in DOMAIN A
      PROVE  /\ A[o].size >= 8 /\ Past(A, o) <= end
             /\ Past(A, o) \in DOMAIN A \/ Past(A, o) = end
             /\ \A q \in DOMAIN A : o <= q /\ q < Past(A, o) => Past(A, q) <= Past(A, o)
  BY DEF Whole, Regular
<1>3. \A o \in DOMAIN A : A[o].size \in Nat /\ o \in Nat
  BY <1>1 DEF Whole
<1>4. \A o \in DOMAIN A : Past(A, o) = o + A[o].size
  BY DEF Past
<1> QED BY <1>1, <1>2, <1>3, <1>4

\* The rest of what is asked of it, for each kind of atom.
BoxNames == {"moov", "trak", "mdia", "minf", "stbl", "stsd", "mp4a"}
Wanted == {"ftyp", "moov", "mvhd", "trak", "tkhd", "mdia", "mdhd", "hdlr", "minf", "smhd",
           "dinf", "stbl", "stsd", "mp4a", "esds", "stts", "stsc", "stsz", "stco"}

LEMMA WholeKinds ==
  ASSUME NEW A, NEW end, Whole(A, end), NEW o \in DOMAIN A
  PROVE  /\ A[o].name \in BoxNames =>
              /\ First(A, o) <= Past(A, o) /\ First(A, o) \in Nat /\ o < First(A, o)
              /\ First(A, o) \in DOMAIN A \/ First(A, o) = end
         /\ A[o].name \in Wanted => A[o].size > 8
         /\ A[o].name = "moov" => \A q \in DOMAIN A :
              A[q].name = "trak" /\ First(A, o) <= q /\ q < Past(A, o) => q \in Kids(A, o, "trak")
         /\ A[o].name = "mp4a" => \A q \in DOMAIN A :
              A[q].name = "esds" /\ Past(A, o) <= q => Past(A, o) + 20 <= q
<1>1. o \in Nat
  BY WholeSays
<1>2. First(A, o) \in Nat /\ o < First(A, o)
  BY <1>1 DEF First
<1>3. A[o].name \in BoxNames => First(A, o) <= Past(A, o) /\ (First(A, o) \in DOMAIN A \/ First(A, o) = end)
  BY DEF Whole, Regular, BoxNames
<1>4. A[o].name \in Wanted => A[o].size > 8
  BY DEF Whole, Regular, Wanted
<1>5. /\ A[o].name = "moov" => \A q \in DOMAIN A :
           A[q].name = "trak" /\ First(A, o) <= q /\ q < Past(A, o) => q \in Kids(A, o, "trak")
      /\ A[o].name = "mp4a" => \A q \in DOMAIN A :
           A[q].name = "esds" /\ Past(A, o) <= q => Past(A, o) + 20 <= q
  BY DEF Whole, Regular
<1> QED BY <1>2, <1>3, <1>4, <1>5

\* The values have the width of their fields.
LEMMA WholeValues ==
  ASSUME NEW A, NEW end, Whole(A, end), NEW o \in DOMAIN A
  PROVE  /\ A[o].reads = {Body(A, o)}
         /\ A[o].name = "esds" => Body(A, o).asc \in Nat
         /\ A[o].name = "stsz" => Body(A, o) \in Seq(0 .. U32 - 1)
  BY DEF Whole, Regular

\* What is found, in a region and as the first child.
LEMMA NamedSays ==
  ASSUME NEW A, NEW end, Whole(A, end), NEW name, NEW a, NEW b
  PROVE  /\ Named(A, name, a, b) \subseteq DOMAIN A /\ Named(A, name, a, b) \subseteq Nat
         /\ \A c \in DOMAIN A : c \in Named(A, name, a, b) <=> A[c].name = name /\ Direct(A, c, a, b)
         /\ \A c \in Named(A, name, a, b) : a <= c /\ c < b /\ A[c].name = name
  BY WholeSays DEF Named, Direct

LEMMA KidSays ==
  ASSUME NEW A, NEW end, Whole(A, end), NEW o, NEW name, Kids(A, o, name) # {}
  PROVE  /\ Kid(A, o, name) \in Kids(A, o, name)
         /\ Kid(A, o, name) \in DOMAIN A /\ A[Kid(A, o, name)].name = name
         /\ First(A, o) <= Kid(A, o, name) /\ Kid(A, o, name) < Past(A, o)
<1> DEFINE S == Kids(A, o, name)
<1>1. S \subseteq Nat /\ S \subseteq DOMAIN A
      /\ \A c \in S : First(A, o) <= c /\ c < Past(A, o) /\ A[c].name = name
  BY NamedSays DEF Kids
<1>2. Kid(A, o, name) = Min(S)
  BY DEF Kid
<1> HIDE DEF S
<1>3. Min(S) \in S
  BY <1>1, MinSays DEF S
<1> QED BY <1>1, <1>2, <1>3 DEF S
-----------------------------------------------------------------------------
(* The search for an atom.                                                  *)

\* A search that meets an atom of its name has found the first one, but for tracks that
\* are passed over.
LEMMA SearchHits ==
  ASSUME NEW A, NEW end, Whole(A, end), NEW name, NEW a, NEW b, NEW limit, NEW p \in DOMAIN A,
         Region(A, name, a, b, limit), Seeking(A, end, name, a, b, p),
         p < limit - 8, A[p].name = name
  PROVE  /\ p \in Named(A, name, a, b)
         /\ \A c \in Named(A, name, a, b) : c < p => name = "trak" /\ Passed(A, c)
<1>1. p \in Nat /\ a \in Nat /\ b \in Nat /\ limit \in Int
  BY WholeSays DEF Region
<1>2. a <= p /\ p < b
  BY <1>1 DEF Region, Seeking
<1>3. Direct(A, p, a, b)
  BY <1>2 DEF Region, Seeking
<1> QED BY <1>3, NamedSays DEF Seeking

\* One that ends without has left out all there is.
LEMMA SearchMisses ==
  ASSUME NEW A, NEW end, Whole(A, end), NEW name, NEW a, NEW b, NEW limit, NEW p,
         Region(A, name, a, b, limit), Seeking(A, end, name, a, b, p),
         ~(p < limit - 8 /\ p \in DOMAIN A /\ A[p].size >= 8)
  PROVE  \A c \in Named(A, name, a, b) : name = "trak" /\ Passed(A, c)
<1>1. SUFFICES ASSUME NEW c \in Named(A, name, a, b), p <= c PROVE FALSE
  <2>1. \A c \in Named(A, name, a, b) : c \in Nat
    BY NamedSays
  <2> QED BY <1>1, <2>1 DEF Seeking
<1>2. /\ p \in Nat /\ a \in Nat /\ b \in Nat /\ limit \in Int /\ b <= limit /\ a <= p
      /\ p \in DOMAIN A \/ p = end
  BY DEF Region, Seeking
<1>3. c \in DOMAIN A /\ a <= c /\ c < b /\ A[c].name = name /\ Direct(A, c, a, b) /\ c \in Nat
  BY NamedSays
<1>4. Past(A, c) = c + A[c].size /\ A[c].size > 8 /\ A[c].size \in Nat /\ Past(A, c) <= b
      /\ Past(A, c) <= end
  BY <1>3, WholeSays DEF Region
<1>5. p \in DOMAIN A
  BY <1>1, <1>2, <1>3, <1>4 DEF Whole
<1>6. p >= limit - 8
  BY <1>2, <1>5, WholeSays
<1>7. p # c
  BY <1>2, <1>3, <1>4, <1>6
<1>8. Past(A, p) <= c
  BY <1>1, <1>2, <1>3, <1>5, <1>7 DEF Direct
<1>9. Past(A, p) = p + A[p].size /\ A[p].size \in Nat /\ A[p].size >= 8
  BY <1>5, WholeSays
<1> QED BY <1>2, <1>3, <1>4, <1>6, <1>8, <1>9

\* One that goes on leaves nothing out.
LEMMA SearchGoes ==
  ASSUME NEW A, NEW end, Whole(A, end), NEW name, NEW a, NEW b, NEW limit, NEW p \in DOMAIN A,
         Region(A, name, a, b, limit), Seeking(A, end, name, a, b, p), A[p].name # name
  PROVE  Seeking(A, end, name, a, b, Past(A, p))
<1> DEFINE r == Past(A, p)
<1>1. /\ p \in Nat /\ r \in Nat /\ p < r /\ (r \in DOMAIN A \/ r = end)
      /\ \A q \in DOMAIN A : p <= q /\ q < r => Past(A, q) <= r
  BY WholeSays
<1>2. a \in Nat /\ b \in Nat /\ a <= p
  BY DEF Region, Seeking
<1>3. ASSUME name # "trak", r \in DOMAIN A, r < b PROVE Direct(A, r, a, b)
  <2>1. Direct(A, p, a, b)
    BY <1>1, <1>2, <1>3 DEF Seeking
  <2>2. ASSUME NEW q \in DOMAIN A, a <= q, q < r PROVE Past(A, q) <= r
    <3>1. q \in Nat /\ Past(A, q) \in Nat
      BY WholeSays
    <3>2. CASE q < p
      <4>1. Past(A, q) <= p
        BY <2>1, <2>2, <3>2 DEF Direct
      <4> QED BY <1>1, <3>1, <4>1
    <3>3. CASE p <= q
      BY <1>1, <2>2, <3>3
    <3> QED BY <1>1, <3>1, <3>2, <3>3
  <2> HIDE DEF r
  <2> QED BY <1>1, <1>2, <1>3, <2>2 DEF Direct
<1>4. ASSUME NEW c \in Named(A, name, a, b), c < r PROVE name = "trak" /\ Passed(A, c)
  <2>1. c \in DOMAIN A /\ A[c].name = name /\ Direct(A, c, a, b) /\ c \in Nat
    BY NamedSays
  <2>2. c # p
    BY <2>1
  <2>3. CASE c < p
    BY <1>4, <2>3 DEF Seeking
  <2>4. CASE p < c
    <3>1. r <= c
      BY <1>2, <2>1, <2>4 DEF Direct
    <3> QED BY <1>1, <1>4, <2>1, <3>1
  <2> QED BY <1>1, <2>1, <2>2, <2>3, <2>4
<1> HIDE DEF r
<1>5. r \in Nat /\ a <= r /\ (r \in DOMAIN A \/ r = end)
  BY <1>1, <1>2
<1>6. name = "trak" \/ (r \in DOMAIN A /\ r < b => Direct(A, r, a, b))
  BY <1>3
<1>7. Seeking(A, end, name, a, b, r)
  BY <1>4, <1>5, <1>6 DEF Seeking
<1> QED BY <1>7 DEF r

\* Where a search starts.
LEMMA SearchStarts ==
  ASSUME NEW A, NEW end, Whole(A, end), NEW name, NEW a \in Nat, NEW b \in Nat,
         a \in DOMAIN A \/ a = end
  PROVE  Seeking(A, end, name, a, b, a)
<1>1. \A c \in Named(A, name, a, b) : c \in Nat /\ a <= c
  BY NamedSays
<1>2. a \in DOMAIN A /\ a < b => Direct(A, a, a, b)
  BY WholeSays DEF Direct
<1> QED BY <1>1, <1>2 DEF Seeking

\* The regions there are: the file, the moov atom, and the boxes within tracks.
LEMMA FileRegion ==
  ASSUME NEW A, NEW end, Whole(A, end), NEW name \in {"ftyp", "moov"}
  PROVE  Region(A, name, 0, IntMax, IntMax)
<1>1. IntMax \in Nat /\ end \in Nat /\ end < IntMax
  BY DEF Whole
<1>2. \A c \in DOMAIN A : c \in Nat /\ Past(A, c) \in Nat /\ Past(A, c) <= end /\ A[c].size \in Nat
                          /\ Past(A, c) = c + A[c].size
  BY WholeSays
<1>3. \A c \in DOMAIN A : A[c].name = name => A[c].size > 8
  BY WholeKinds DEF Wanted
<1> QED BY <1>1, <1>2, <1>3 DEF Region

LEMMA BoxRegion ==
  ASSUME NEW A, NEW end, Whole(A, end), NEW o \in DOMAIN A, A[o].name \in BoxNames,
         NEW name \in Wanted, A[o].name # "moov" => name # "trak",
         A[o].name = "mp4a" => name = "esds"
  PROVE  Region(A, name, First(A, o), Past(A, o), First(A, o) + (A[o].size - 8))
<1> DEFINE a == First(A, o)
           b == Past(A, o)
           limit == a + (A[o].size - 8)
<1>1. o \in Nat /\ a \in Nat /\ b \in Nat /\ a <= b /\ o < a /\ A[o].size \in Nat /\ b = o + A[o].size
  BY WholeSays, WholeKinds
<1>2. limit = b + (IF A[o].name = "stsd" THEN 8 ELSE IF A[o].name = "mp4a" THEN 28 ELSE 0)
  BY <1>1 DEF First
<1>3. \A c \in DOMAIN A : c \in Nat /\ Past(A, c) \in Nat
  BY WholeSays
<1>4. ASSUME NEW c \in DOMAIN A, a <= c, c < b PROVE Past(A, c) <= b
  BY <1>1, <1>3, <1>4, WholeSays
<1>5. \A c \in DOMAIN A : A[c].name = name => A[c].size > 8
  BY WholeKinds
<1>6. ASSUME NEW c \in DOMAIN A, A[c].name = name, a <= c, c + 8 < limit PROVE c < b
  <2>1. CASE A[o].name = "mp4a"
    <3>1. b <= c => b + 20 <= c
      BY <1>6, <2>1, WholeKinds
    <3> HIDE DEF a, b, limit
    <3> QED BY <1>1, <1>2, <1>3, <1>6, <2>1, <3>1
  <2>2. CASE A[o].name # "mp4a"
    <3> HIDE DEF a, b, limit
    <3> QED BY <1>1, <1>2, <1>3, <1>6, <2>2
  <2> QED BY <2>1, <2>2
<1>7. ASSUME name = "trak", NEW c \in DOMAIN A, A[c].name = name, a <= c, c < b
      PROVE  Direct(A, c, a, b)
  <2>1. c \in Kids(A, o, "trak")
    BY <1>7, WholeKinds
  <2> QED BY <2>1, NamedSays DEF Kids
<1>8. limit \in Int /\ b <= limit
  <2> HIDE DEF a, b
  <2> QED BY <1>1, <1>2
<1> HIDE DEF a, b, limit
<1>9. Region(A, name, a, b, limit)
  BY <1>1, <1>4, <1>5, <1>6, <1>7, <1>8 DEF Region
<1> QED BY <1>9 DEF a, b, limit
-----------------------------------------------------------------------------
(* The script of a track, place by place.                                   *)

LEMMA TrakPlaces == DOMAIN Script["trak"] = 1 .. 33
  BY DEF Script

\* The opcodes of the script, place by place.
LEMMA Ops ==
  /\ \A i \in {1, 3, 4, 6, 8, 10, 12, 13, 14, 16, 19, 22, 26, 28, 29, 31} : Place(i).op = "NAME"
  /\ \A i \in {7, 9, 17, 20, 23, 27, 30, 32} : Place(i).op = "DATA"
  /\ \A i \in {2, 5, 11, 15, 18, 21} : Place(i).op = "DESCENT"
  /\ \A i \in {24, 25} : Place(i).op = "ASCENT"
  /\ Place(33).op = "STOP"
<1>1. \A i \in {1, 3, 4, 6, 8, 10, 12, 13, 14, 16, 19, 22, 26, 28, 29, 31} : Place(i).op = "NAME"
  BY DEF Place, Script, Find
<1>2. \A i \in {7, 9, 17, 20, 23, 27, 30, 32} : Place(i).op = "DATA"
  BY DEF Place, Script, Data
<1>3. \A i \in {2, 5, 11, 15, 18, 21} : Place(i).op = "DESCENT"
  BY DEF Place, Script, Descent
<1>4. \A i \in {24, 25} : Place(i).op = "ASCENT"
  BY DEF Place, Script, Ascent
<1>5. Place(33).op = "STOP"
  BY DEF Place, Script, Stop
<1> QED BY <1>1, <1>2, <1>3, <1>4, <1>5

LEMMA Names ==
  /\ Place(1).name = "trak" /\ Place(3).name = "tkhd" /\ Place(4).name = "mdia"
  /\ Place(6).name = "mdhd" /\ Place(8).name = "hdlr" /\ Place(10).name = "minf"
  /\ Place(12).name = "smhd" /\ Place(13).name = "dinf" /\ Place(14).name = "stbl"
  /\ Place(16).name = "stsd" /\ Place(19).name = "mp4a" /\ Place(22).name = "esds"
  /\ Place(26).name = "stts" /\ Place(28).name = "stsc" /\ Place(29).name = "stsz"
  /\ Place(31).name = "stco"
  BY DEF Place, Script, Find

LEMMA RankNext ==
  /\ Rank[1] = 0 /\ \A i \in 1 .. 33 : Rank[i] \in 0 .. 6
  /\ \A i \in 1 .. 32 : Rank[i + 1] = Rank[i] + Weight(Place(i).op)
<1>1. Rank[1] = 0 /\ \A i \in 1 .. 33 : Rank[i] \in 0 .. 6
  BY DEF Rank
<1>2. \A i \in {1, 3, 4, 6, 8, 10, 12, 13, 14, 16, 19, 22, 26, 28, 29, 31} :
        Rank[i + 1] = Rank[i] + Weight(Place(i).op)
  <2>1. \A i \in {1, 3, 4, 6, 8, 10, 12, 13, 14, 16, 19, 22, 26, 28, 29, 31} : Rank[i + 1] = Rank[i] + 0
    BY DEF Rank
  <2> QED BY <2>1, Ops DEF Weight
<1>3. \A i \in {7, 9, 17, 20, 23, 27, 30, 32} : Rank[i + 1] = Rank[i] + Weight(Place(i).op)
  <2>1. \A i \in {7, 9, 17, 20, 23, 27, 30, 32} : Rank[i + 1] = Rank[i] + 0
    BY DEF Rank
  <2> QED BY <2>1, Ops DEF Weight
<1>4. \A i \in {2, 5, 11, 15, 18, 21} : Rank[i + 1] = Rank[i] + Weight(Place(i).op)
  <2>1. \A i \in {2, 5, 11, 15, 18, 21} : Rank[i + 1] = Rank[i] + 1
    BY DEF Rank
  <2> QED BY <2>1, Ops DEF Weight
<1>5. \A i \in {24, 25} : Rank[i + 1] = Rank[i] + Weight(Place(i).op)
  <2>1. \A i \in {24, 25} : Rank[i + 1] = Rank[i] + (-1)
    BY DEF Rank
  <2> QED BY <2>1, Ops DEF Weight
<1> QED BY <1>1, <1>2, <1>3, <1>4, <1>5

LEMMA RankIsGroup == \A i \in 1 .. 33 : Group("trak", i) = Rank[i]
<1> DEFINE S == {k \in 0 .. 32 : Group("trak", k + 1) = Rank[k + 1]}
<1>1. 0 \in S
  BY GroupFirst, RankNext
<1>2. \A k \in 1 .. 32 : k - 1 \in S => k \in S
  <2>1. SUFFICES ASSUME NEW k \in 1 .. 32, k - 1 \in S PROVE k \in S
    OBVIOUS
  <2>2. k \in Nat /\ k >= 1 /\ (k - 1) + 1 = k
    OBVIOUS
  <2>3. Group("trak", k) = Rank[k]
    BY <2>1, <2>2
  <2>4. Group("trak", k + 1) = Group("trak", k) + Weight(Place(k).op)
    BY <2>2, GroupNext DEF Place
  <2>5. Rank[k + 1] = Rank[k] + Weight(Place(k).op)
    BY RankNext
  <2> QED BY <2>3, <2>4, <2>5
<1>3. 0 .. 32 \subseteq S
  <2> HIDE DEF S
  <2> QED BY <1>1, <1>2, InductUpTo
<1>4. SUFFICES ASSUME NEW i \in 1 .. 33 PROVE Group("trak", i) = Rank[i]
  OBVIOUS
<1>5. i - 1 \in S /\ (i - 1) + 1 = i
  <2> HIDE DEF S
  <2> QED BY <1>3
<1> QED BY <1>5

\* Which opcode a place has, and where.
LEMMA Kinds ==
  ASSUME NEW i \in 1 .. 33
  PROVE  /\ Place(i).op = "NAME" => i \in {1, 3, 4, 6, 8, 10, 12, 13, 14, 16, 19, 22, 26, 28, 29, 31}
         /\ Place(i).op = "DATA" => i \in {7, 9, 17, 20, 23, 27, 30, 32}
         /\ Place(i).op = "DESCENT" => i \in {2, 5, 11, 15, 18, 21}
         /\ Place(i).op = "ASCENT" => i \in {24, 25}
         /\ Place(i).op = "STOP" => i = 33
  BY Ops

\* The boxes of a track are found by the places that look for children of theirs.
LEMMA BoxesFound ==
  ASSUME NEW A, NEW t
  PROVE  /\ Box(A, t, 1) = t
         /\ Spot(A, t, 4) = Box(A, t, 2) /\ Spot(A, t, 10) = Box(A, t, 3)
         /\ Spot(A, t, 14) = Box(A, t, 4) /\ Spot(A, t, 16) = Box(A, t, 5)
         /\ Spot(A, t, 19) = Box(A, t, 6)
<1>1. /\ Box(A, t, 1) = t /\ Box(A, t, 2) = Mdia(A, t) /\ Box(A, t, 3) = Minf(A, t)
      /\ Box(A, t, 4) = Stbl(A, t) /\ Box(A, t, 5) = Stsd(A, t) /\ Box(A, t, 6) = Mp4a(A, t)
  BY DEF Box
<1>2. Rank[4] = 1 /\ Rank[10] = 2 /\ Rank[14] = 3 /\ Rank[16] = 4 /\ Rank[19] = 5
  BY DEF Rank
<1> QED BY <1>1, <1>2, Names DEF Spot, Mdia, Minf, Stbl, Stsd, Mp4a
-----------------------------------------------------------------------------
(* The frame table and the reference.                                       *)

LEMMA SameFunction ==
  ASSUME NEW S, NEW T, NEW g \in [S -> T], NEW h \in [S -> T], \A x \in S : g[x] = h[x]
  PROVE  g = h
  OBVIOUS

LEMMA SmallRemainder ==
  ASSUME NEW x \in Nat, NEW m \in Nat, 0 < m
  PROVE  /\ x < m => x % m = x
         /\ m <= x /\ x < m + m => x % m = x - m
<1> DEFINE q == x \div m
           r == x % m
<1>1. q \in Nat /\ r \in 0 .. m - 1 /\ x = q * m + r
  BY SMTT(30)
<1> HIDE DEF q, r
<1>2. ASSUME q >= 1 PROVE q * m >= m
  BY <1>1, <1>2, SMTT(30)
<1>3. ASSUME q >= 2 PROVE q * m >= m + m
  BY <1>1, <1>3, SMTT(30)
<1>4. CASE q = 0
  BY <1>1, <1>4 DEF r
<1>5. CASE q = 1
  BY <1>1, <1>5 DEF r
<1>6. CASE q >= 2
  BY <1>1, <1>3, <1>6 DEF r
<1> QED BY <1>1, <1>4, <1>5, <1>6

\* The sums of the sizes.
LEMMA SumsSays ==
  ASSUME NEW sizes \in Seq(Nat)
  PROVE  /\ Sums(sizes) \in [0 .. Len(sizes) -> Nat] /\ Sums(sizes)[0] = 0
         /\ \A i \in 1 .. Len(sizes) : Sums(sizes)[i] = Sums(sizes)[i - 1] + sizes[i]
<1> DEFINE n == Len(sizes)
           F == [p \in (1 .. n) \X Nat |-> p[2] + sizes[p[1]]]
           s == Sums(sizes)
<1>1. n \in Nat /\ \A i \in 1 .. n : sizes[i] \in Nat
  OBVIOUS
<1>2. PICK g : Recurs(g, n, 0, F)
  <2>1. F \in [(1 .. n) \X Nat -> Nat]
    BY <1>1
  <2> HIDE DEF F, n
  <2> QED BY <1>1, <2>1, Defined
<1>3. ASSUME NEW i \in 1 .. n PROVE g[i] = g[i - 1] + sizes[i]
  <2>1. <<i, g[i - 1]>> \in (1 .. n) \X Nat
    <3>1. g[i - 1] \in Nat
      BY <1>1, <1>2 DEF Recurs
    <3> HIDE DEF n
    <3> QED BY <3>1
  <2>2. F[<<i, g[i - 1]>>] = g[i - 1] + sizes[i]
    BY <2>1
  <2> HIDE DEF F
  <2> QED BY <1>2, <2>2 DEF Recurs
<1>4. g = [i \in 0 .. n |-> IF i = 0 THEN 0 ELSE g[i - 1] + sizes[i]]
  BY <1>1, <1>2, <1>3 DEF Recurs
<1>5. s = [i \in 0 .. n |-> IF i = 0 THEN 0 ELSE s[i - 1] + sizes[i]]
  BY <1>4 DEF Sums
<1> HIDE DEF s
<1>6. 0 .. n \subseteq {i \in 0 .. n : s[i] \in Nat}
  <2> DEFINE S == {i \in 0 .. n : s[i] \in Nat}
  <2>1. 0 \in S
    BY <1>1, <1>5
  <2>2. \A i \in 1 .. n : i - 1 \in S => i \in S
    BY <1>1, <1>5
  <2> HIDE DEF S
  <2>3. 0 .. n \subseteq S
    BY <1>1, <2>1, <2>2, InductUpTo
  <2> QED BY <2>3 DEF S
<1>7. s \in [0 .. n -> Nat]
  BY <1>5, <1>6
<1>8. s[0] = 0 /\ \A i \in 1 .. n : s[i] = s[i - 1] + sizes[i]
  BY <1>1, <1>5
<1> HIDE DEF n
<1> QED BY <1>7, <1>8 DEF n, s

\* The offsets are the sums as long as these have 32 bits, and fall where they have not.
LEMMA OffsetsAreSums ==
  ASSUME NEW sizes \in Seq(0 .. U32 - 1)
  PROVE  /\ Overflows(sizes) <=> ~(Sums(sizes)[Len(sizes)] < U32)
         /\ ~Overflows(sizes) => Offsets(sizes) = Sums(sizes)
<1> DEFINE n == Len(sizes)
           o == Offsets(sizes)
           s == Sums(sizes)
<1>1. U32 \in Nat /\ 0 < U32
  BY Mp4Assumption
<1>2. sizes \in Seq(Nat) /\ n \in Nat /\ \A i \in 1 .. n : sizes[i] \in Nat /\ sizes[i] < U32
  BY <1>1
<1>3. /\ o \in [0 .. n -> Nat] /\ o[0] = 0
      /\ \A i \in 1 .. n : o[i] = (o[i - 1] + sizes[i]) % U32
  BY <1>2, OffsetsSays
<1>4. s \in [0 .. n -> Nat] /\ s[0] = 0 /\ \A i \in 1 .. n : s[i] = s[i - 1] + sizes[i]
  BY <1>2, SumsSays
<1>5. Overflows(sizes) <=> \E i \in 1 .. n : o[i] < o[i - 1]
  BY DEF Overflows
<1> HIDE DEF n, o, s
<1>6. ASSUME NEW i \in 1 .. n, o[i - 1] = s[i - 1], s[i - 1] < U32
      PROVE  /\ s[i] < U32 => o[i] = s[i] /\ ~(o[i] < o[i - 1])
             /\ ~(s[i] < U32) => o[i] < o[i - 1]
  <2> DEFINE x == s[i - 1]
             y == sizes[i]
             z == x + y
  <2>1. x \in Nat /\ y \in Nat /\ x < U32 /\ y < U32 /\ o[i - 1] = x
    BY <1>2, <1>4, <1>6
  <2>2. s[i] = z /\ o[i] = z % U32
    BY <1>3, <1>4, <1>6
  <2> HIDE DEF x, y
  <2>3. z \in Nat /\ z >= x /\ z < U32 + U32 /\ z - U32 < x
    BY <1>1, <2>1
  <2> HIDE DEF z
  <2>4. (z < U32 => z % U32 = z) /\ (U32 <= z => z % U32 = z - U32)
    BY <1>1, <2>3, SmallRemainder
  <2> QED BY <1>1, <2>1, <2>2, <2>3, <2>4
<1>7. ASSUME ~Overflows(sizes) PROVE o = s /\ s[n] < U32
  <2> DEFINE S == {i \in 0 .. n : o[i] = s[i] /\ s[i] < U32}
  <2>1. 0 \in S
    BY <1>1, <1>2, <1>3, <1>4
  <2>2. \A i \in 1 .. n : i - 1 \in S => i \in S
    <3>1. SUFFICES ASSUME NEW i \in 1 .. n, i - 1 \in S PROVE i \in S
      OBVIOUS
    <3>2. o[i - 1] = s[i - 1] /\ s[i - 1] < U32
      BY <3>1
    <3>3. ~(o[i] < o[i - 1])
      BY <1>5, <1>7
    <3>4. o[i] = s[i] /\ s[i] < U32
      BY <1>6, <3>2, <3>3
    <3> QED BY <1>2, <3>4
  <2> HIDE DEF S
  <2>3. 0 .. n \subseteq S
    BY <1>2, <2>1, <2>2, InductUpTo
  <2>4. \A i \in 0 .. n : o[i] = s[i] /\ s[i] < U32
    BY <2>3 DEF S
  <2>5. o = s
    <3>1. o \in [0 .. n -> Nat] /\ s \in [0 .. n -> Nat] /\ \A i \in 0 .. n : o[i] = s[i]
      BY <1>3, <1>4, <2>4
    <3> DEFINE D == 0 .. n
    <3>2. o \in [D -> Nat] /\ s \in [D -> Nat] /\ \A i \in D : o[i] = s[i]
      BY <3>1
    <3> HIDE DEF D
    <3> QED BY <3>2, SameFunction
  <2>6. n \in 0 .. n
    BY <1>2
  <2> QED BY <2>4, <2>5, <2>6
<1>8. ASSUME s[n] < U32 PROVE ~Overflows(sizes)
  <2> DEFINE U == {k \in 0 .. n : s[n - k] < U32}
  <2>1. 0 \in U
    BY <1>2, <1>8
  <2>2. \A k \in 1 .. n : k - 1 \in U => k \in U
    <3>1. SUFFICES ASSUME NEW k \in 1 .. n, k - 1 \in U PROVE k \in U
      OBVIOUS
    <3> DEFINE j == n - (k - 1)
    <3>2. j \in 1 .. n /\ j - 1 = n - k /\ k \in 0 .. n
      BY <1>2
    <3>3. s[j] < U32
      BY <3>1
    <3>4. s[j] = s[j - 1] + sizes[j] /\ sizes[j] \in Nat /\ s[j - 1] \in Nat
      BY <1>2, <1>4, <3>2
    <3> HIDE DEF j
    <3>5. s[j - 1] < U32
      BY <1>1, <3>3, <3>4
    <3> QED BY <3>2, <3>5
  <2>3. 0 .. n \subseteq U
    <3> HIDE DEF U
    <3> QED BY <1>2, <2>1, <2>2, InductUpTo
  <2>4. \A i \in 0 .. n : s[i] < U32
    <3>1. SUFFICES ASSUME NEW i \in 0 .. n PROVE s[i] < U32
      OBVIOUS
    <3>2. n - i \in 0 .. n /\ n - (n - i) = i
      BY <1>2
    <3>3. n - i \in U
      <4> HIDE DEF U
      <4> QED BY <2>3, <3>2
    <3> QED BY <3>2, <3>3
  <2> HIDE DEF U
  <2> DEFINE S == {i \in 0 .. n : o[i] = s[i]}
  <2>5. 0 \in S
    BY <1>2, <1>3, <1>4
  <2>6. \A i \in 1 .. n : i - 1 \in S => i \in S
    <3>1. SUFFICES ASSUME NEW i \in 1 .. n, i - 1 \in S PROVE i \in S
      OBVIOUS
    <3>2. o[i - 1] = s[i - 1] /\ i - 1 \in 0 .. n /\ i \in 0 .. n
      BY <3>1
    <3>3. o[i] = s[i]
      BY <1>6, <2>4, <3>2
    <3> QED BY <3>2, <3>3
  <2> HIDE DEF S
  <2>7. 0 .. n \subseteq S
    BY <1>2, <2>5, <2>6, InductUpTo
  <2>8. ASSUME NEW i \in 1 .. n PROVE ~(o[i] < o[i - 1])
    <3>1. i - 1 \in 0 .. n /\ i \in 0 .. n /\ i - 1 \in S
      BY <1>2, <2>7
    <3>2. o[i - 1] = s[i - 1]
      BY <3>1 DEF S
    <3> QED BY <1>6, <2>4, <3>1, <3>2
  <2> QED BY <1>5, <2>8
<1> QED BY <1>7, <1>8 DEF n, o, s

LEMMA LargestIs ==
  ASSUME NEW sizes
  PROVE  Max({0} \cup {sizes[k] : k \in DOMAIN sizes}) = Largest(sizes)
<1>1. {0} \cup {sizes[k] : k \in DOMAIN sizes} = ToSet(sizes) \cup {0}
  BY DEF ToSet
<1> QED BY <1>1 DEF Largest
-----------------------------------------------------------------------------
(* The places of the script and the reference.                              *)

\* The places of the script in the terms of the reference.
LEMMA BoxIs ==
  ASSUME NEW A, NEW t
  PROVE  /\ Box(A, t, 1) = t /\ Box(A, t, 2) = Mdia(A, t) /\ Box(A, t, 3) = Minf(A, t)
         /\ Box(A, t, 4) = Stbl(A, t) /\ Box(A, t, 5) = Stsd(A, t) /\ Box(A, t, 6) = Mp4a(A, t)
  BY DEF Box

LEMMA Ranks ==
  /\ \A i \in {3, 4, 5} : Rank[i] = 1
  /\ \A i \in {6, 7, 8, 9, 10, 11} : Rank[i] = 2
  /\ \A i \in {12, 13, 14, 15} : Rank[i] = 3
  /\ \A i \in {16, 17, 18, 26, 27, 28, 29, 30, 31, 32, 33} : Rank[i] = 4
  /\ \A i \in {19, 20, 21, 25} : Rank[i] = 5
  /\ \A i \in {22, 23, 24} : Rank[i] = 6
  /\ Rank[1] = 0 /\ Rank[2] = 0
  BY DEF Rank

LEMMA Spots ==
  ASSUME NEW A, NEW t
  PROVE  /\ Spot(A, t, 6) = Kid(A, Mdia(A, t), "mdhd") /\ Spot(A, t, 8) = Hdlr(A, t)
         /\ Spot(A, t, 16) = Stsd(A, t) /\ Spot(A, t, 19) = Mp4a(A, t)
         /\ Spot(A, t, 22) = Esds(A, t) /\ Spot(A, t, 26) = Kid(A, Stbl(A, t), "stts")
         /\ Spot(A, t, 29) = Kid(A, Stbl(A, t), "stsz")
         /\ Spot(A, t, 31) = Kid(A, Stbl(A, t), "stco")
  BY BoxIs, Ranks, Names DEF Spot, Hdlr, Stsd, Mp4a, Esds

LEMMA MetName ==
  ASSUME NEW A, NEW t, NEW i, Place(i).op = "NAME"
  PROVE  Met(A, t, i) <=> Kids(A, Box(A, t, Rank[i]), Place(i).name) # {}
  BY DEF Met

LEMMA MetData ==
  ASSUME NEW A, NEW t, NEW i, Place(i).op = "DATA", NEW n, NEW o,
         n = Place(i - 1).name, o = Spot(A, t, i - 1)
  PROVE  Met(A, t, i) <=> ~Refused(n, A[o].size - 8, Body(A, o)) /\ ~Unsupported(n, Body(A, o))
  BY DEF Met

LEMMA MetNames ==
  ASSUME NEW A, NEW t
  PROVE  /\ Met(A, t, 3) <=> Kids(A, t, "tkhd") # {}
         /\ Met(A, t, 4) <=> Kids(A, t, "mdia") # {}
         /\ Met(A, t, 6) <=> Kids(A, Mdia(A, t), "mdhd") # {}
         /\ Met(A, t, 8) <=> Kids(A, Mdia(A, t), "hdlr") # {}
         /\ Met(A, t, 10) <=> Kids(A, Mdia(A, t), "minf") # {}
         /\ Met(A, t, 12) <=> Kids(A, Minf(A, t), "smhd") # {}
         /\ Met(A, t, 13) <=> Kids(A, Minf(A, t), "dinf") # {}
         /\ Met(A, t, 14) <=> Kids(A, Minf(A, t), "stbl") # {}
         /\ Met(A, t, 16) <=> Kids(A, Stbl(A, t), "stsd") # {}
         /\ Met(A, t, 19) <=> Kids(A, Stsd(A, t), "mp4a") # {}
         /\ Met(A, t, 22) <=> Kids(A, Mp4a(A, t), "esds") # {}
         /\ Met(A, t, 26) <=> Kids(A, Stbl(A, t), "stts") # {}
         /\ Met(A, t, 28) <=> Kids(A, Stbl(A, t), "stsc") # {}
         /\ Met(A, t, 29) <=> Kids(A, Stbl(A, t), "stsz") # {}
         /\ Met(A, t, 31) <=> Kids(A, Stbl(A, t), "stco") # {}
<1>1. \A i \in {3, 4, 6, 8, 10, 12, 13, 14, 16, 19, 22, 26, 28, 29, 31} :
        Met(A, t, i) <=> Kids(A, Box(A, t, Rank[i]), Place(i).name) # {}
  <2>1. \A i \in {3, 4, 6, 8, 10, 12, 13, 14, 16, 19, 22, 26, 28, 29, 31} : Place(i).op = "NAME"
    BY Ops
  <2> QED BY <2>1, MetName
<1>2. /\ Met(A, t, 3) <=> Kids(A, t, "tkhd") # {}
      /\ Met(A, t, 4) <=> Kids(A, t, "mdia") # {}
  BY <1>1, Ranks, BoxIs, Names
<1>3. /\ Met(A, t, 6) <=> Kids(A, Mdia(A, t), "mdhd") # {}
      /\ Met(A, t, 8) <=> Kids(A, Mdia(A, t), "hdlr") # {}
      /\ Met(A, t, 10) <=> Kids(A, Mdia(A, t), "minf") # {}
  BY <1>1, Ranks, BoxIs, Names
<1>4. /\ Met(A, t, 12) <=> Kids(A, Minf(A, t), "smhd") # {}
      /\ Met(A, t, 13) <=> Kids(A, Minf(A, t), "dinf") # {}
      /\ Met(A, t, 14) <=> Kids(A, Minf(A, t), "stbl") # {}
  BY <1>1, Ranks, BoxIs, Names
<1>5. /\ Met(A, t, 16) <=> Kids(A, Stbl(A, t), "stsd") # {}
      /\ Met(A, t, 26) <=> Kids(A, Stbl(A, t), "stts") # {}
      /\ Met(A, t, 28) <=> Kids(A, Stbl(A, t), "stsc") # {}
      /\ Met(A, t, 29) <=> Kids(A, Stbl(A, t), "stsz") # {}
      /\ Met(A, t, 31) <=> Kids(A, Stbl(A, t), "stco") # {}
  BY <1>1, Ranks, BoxIs, Names
<1>6. /\ Met(A, t, 19) <=> Kids(A, Stsd(A, t), "mp4a") # {}
      /\ Met(A, t, 22) <=> Kids(A, Mp4a(A, t), "esds") # {}
  BY <1>1, Ranks, BoxIs, Names
<1> QED BY <1>2, <1>3, <1>4, <1>5, <1>6

LEMMA MetValues ==
  ASSUME NEW A, NEW end, Whole(A, end), NEW t
  PROVE  /\ Met(A, t, 7) /\ Met(A, t, 20)
         /\ Met(A, t, 9) <=> Body(A, Hdlr(A, t)) = "soun"
         /\ Met(A, t, 17) <=> Body(A, Stsd(A, t)) = 1
         /\ Met(A, t, 22) =>
              (Met(A, t, 23) <=> Body(A, Esds(A, t)).tags /\ Body(A, Esds(A, t)).asc <= 10)
         /\ Met(A, t, 26) =>
              (Met(A, t, 27) <=> A[Kid(A, Stbl(A, t), "stts")].size >= 8 + 16)
         /\ Met(A, t, 29) =>
              (Met(A, t, 30) <=> /\ Len(Sizes(A, t)) + 1 # U32
                                 /\ Sums(Sizes(A, t))[Len(Sizes(A, t))] < U32)
         /\ Met(A, t, 32) <=> Body(A, Kid(A, Stbl(A, t), "stco")) # <<>>
<1>1. Met(A, t, 7)
  <2>1. Place(7).op = "DATA" /\ Place(7 - 1).name = "mdhd"
    BY Ops, Names
  <2> QED BY <2>1, MetData DEF Refused, Unsupported
<1>2. Met(A, t, 20)
  <2>1. Place(20).op = "DATA" /\ Place(20 - 1).name = "mp4a"
    BY Ops, Names
  <2> QED BY <2>1, MetData DEF Refused, Unsupported
<1>3. Met(A, t, 9) <=> Body(A, Hdlr(A, t)) = "soun"
  <2>1. Place(9).op = "DATA" /\ Place(9 - 1).name = "hdlr" /\ Spot(A, t, 9 - 1) = Hdlr(A, t)
    BY Ops, Names, Spots
  <2> QED BY <2>1, MetData DEF Refused, Unsupported
<1>4. Met(A, t, 17) <=> Body(A, Stsd(A, t)) = 1
  <2>1. Place(17).op = "DATA" /\ Place(17 - 1).name = "stsd" /\ Spot(A, t, 17 - 1) = Stsd(A, t)
    BY Ops, Names, Spots
  <2> QED BY <2>1, MetData DEF Refused, Unsupported
<1>5. ASSUME Met(A, t, 22)
      PROVE  Met(A, t, 23) <=> Body(A, Esds(A, t)).tags /\ Body(A, Esds(A, t)).asc <= 10
  <2> DEFINE o == Esds(A, t)
  <2>1. Place(23).op = "DATA" /\ Place(23 - 1).name = "esds" /\ Spot(A, t, 23 - 1) = o
    BY Ops, Names, Spots
  <2>2. Kids(A, Mp4a(A, t), "esds") # {}
    BY <1>5, MetNames
  <2>3. o \in DOMAIN A /\ A[o].name = "esds"
    BY <2>2, KidSays DEF Esds
  <2> HIDE DEF o
  <2>4. Body(A, o).asc \in Nat
    BY <2>3, WholeValues
  <2>5. Met(A, t, 23) <=> ~Refused("esds", A[o].size - 8, Body(A, o)) /\ ~Unsupported("esds", Body(A, o))
    BY <2>1, MetData
  <2>6. Met(A, t, 23) <=> Body(A, o).tags /\ ~(Body(A, o).asc > 10)
    BY <2>5 DEF Refused, Unsupported, AscSize
  <2> QED BY <2>4, <2>6 DEF o
<1>6. ASSUME Met(A, t, 26)
      PROVE  Met(A, t, 27) <=> A[Kid(A, Stbl(A, t), "stts")].size >= 8 + 16
  <2> DEFINE o == Kid(A, Stbl(A, t), "stts")
  <2>1. Place(27).op = "DATA" /\ Place(27 - 1).name = "stts" /\ Spot(A, t, 27 - 1) = o
    BY Ops, Names, Spots
  <2>2. Kids(A, Stbl(A, t), "stts") # {}
    BY <1>6, MetNames
  <2>3. A[o].size \in Nat
    BY <2>2, KidSays, WholeSays
  <2> HIDE DEF o
  <2>4. Met(A, t, 27) <=> ~Refused("stts", A[o].size - 8, Body(A, o)) /\ ~Unsupported("stts", Body(A, o))
    BY <2>1, MetData
  <2>5. Met(A, t, 27) <=> ~(A[o].size - 8 < 16)
    BY <2>4 DEF Refused, Unsupported, MinStts
  <2> QED BY <2>3, <2>5 DEF o
<1>7. ASSUME Met(A, t, 29)
      PROVE  Met(A, t, 30) <=> /\ Len(Sizes(A, t)) + 1 # U32
                               /\ Sums(Sizes(A, t))[Len(Sizes(A, t))] < U32
  <2> DEFINE o == Kid(A, Stbl(A, t), "stsz")
  <2>1. Place(30).op = "DATA" /\ Place(30 - 1).name = "stsz" /\ Spot(A, t, 30 - 1) = o
    BY Ops, Names, Spots
  <2>2. Kids(A, Stbl(A, t), "stsz") # {}
    BY <1>7, MetNames
  <2>3. o \in DOMAIN A /\ A[o].name = "stsz"
    BY <2>2, KidSays
  <2> HIDE DEF o
  <2>7. Body(A, o) \in Seq(0 .. U32 - 1)
    BY <2>3, WholeValues
  <2>4. Met(A, t, 30) <=> ~Refused("stsz", A[o].size - 8, Body(A, o)) /\ ~Unsupported("stsz", Body(A, o))
    BY <2>1, MetData
  <2>5. Met(A, t, 30) <=> Len(Body(A, o)) + 1 # U32 /\ ~Overflows(Body(A, o))
    BY <2>4 DEF Refused, Unsupported, Countable
  <2>6. Body(A, o) = Sizes(A, t)
    BY DEF Sizes, o
  <2> QED BY <2>5, <2>6, <2>7, OffsetsAreSums
<1>8. Met(A, t, 32) <=> Body(A, Kid(A, Stbl(A, t), "stco")) # <<>>
  <2> DEFINE o == Kid(A, Stbl(A, t), "stco")
  <2>1. Place(32).op = "DATA" /\ Place(32 - 1).name = "stco" /\ Spot(A, t, 32 - 1) = o
    BY Ops, Names, Spots
  <2> HIDE DEF o
  <2>2. Met(A, t, 32) <=> ~Refused("stco", A[o].size - 8, Body(A, o)) /\ ~Unsupported("stco", Body(A, o))
    BY <2>1, MetData
  <2>3. Met(A, t, 32) <=> Body(A, o) # <<>>
    BY <2>2 DEF Refused, Unsupported
  <2> QED BY <2>3 DEF o
<1> QED BY <1>1, <1>2, <1>3, <1>4, <1>5, <1>6, <1>7, <1>8

\* A track is complete when all places of the script are met.
LEMMA CompleteIsMet ==
  ASSUME NEW A, NEW end, Whole(A, end), NEW t
  PROVE  /\ Complete(A, t) => \A i \in 3 .. 32 : Met(A, t, i)
         /\ (\A i \in 3 .. 32 : Met(A, t, i)) => Complete(A, t)
<1>1. ASSUME Complete(A, t) PROVE \A i \in 3 .. 32 : Met(A, t, i)
  <2>1. /\ Kids(A, t, "tkhd") # {} /\ Kids(A, t, "mdia") # {}
        /\ Kids(A, Mdia(A, t), "mdhd") # {} /\ Kids(A, Mdia(A, t), "hdlr") # {}
        /\ Kids(A, Mdia(A, t), "minf") # {} /\ Kids(A, Minf(A, t), "smhd") # {}
        /\ Kids(A, Minf(A, t), "dinf") # {} /\ Kids(A, Minf(A, t), "stbl") # {}
        /\ Kids(A, Stbl(A, t), "stsd") # {} /\ Kids(A, Stsd(A, t), "mp4a") # {}
        /\ Kids(A, Mp4a(A, t), "esds") # {} /\ Kids(A, Stbl(A, t), "stts") # {}
        /\ Kids(A, Stbl(A, t), "stsc") # {} /\ Kids(A, Stbl(A, t), "stsz") # {}
        /\ Kids(A, Stbl(A, t), "stco") # {}
    BY <1>1 DEF Complete, Has
  <2>2. /\ Met(A, t, 3) /\ Met(A, t, 4) /\ Met(A, t, 6) /\ Met(A, t, 8) /\ Met(A, t, 10)
        /\ Met(A, t, 12) /\ Met(A, t, 13) /\ Met(A, t, 14) /\ Met(A, t, 16) /\ Met(A, t, 19)
        /\ Met(A, t, 22) /\ Met(A, t, 26) /\ Met(A, t, 28) /\ Met(A, t, 29) /\ Met(A, t, 31)
    BY <2>1, MetNames
  <2>3. /\ Body(A, Hdlr(A, t)) = "soun" /\ Body(A, Stsd(A, t)) = 1
        /\ Body(A, Esds(A, t)).tags /\ Body(A, Esds(A, t)).asc <= 10
        /\ A[Kid(A, Stbl(A, t), "stts")].size >= 8 + 16
        /\ Len(Sizes(A, t)) + 1 # U32
        /\ Sums(Sizes(A, t))[Len(Sizes(A, t))] < U32
        /\ Body(A, Kid(A, Stbl(A, t), "stco")) # <<>>
    BY <1>1 DEF Complete
  <2>4. /\ Met(A, t, 7) /\ Met(A, t, 9) /\ Met(A, t, 17) /\ Met(A, t, 20) /\ Met(A, t, 23)
        /\ Met(A, t, 27) /\ Met(A, t, 30) /\ Met(A, t, 32)
    BY <2>2, <2>3, MetValues, Zenon
  <2>5. \A i \in 3 .. 32 : Place(i).op \notin {"NAME", "DATA"} => Met(A, t, i)
    BY DEF Met
  <2>6. \A i \in {5, 11, 15, 18, 21, 24, 25} : Place(i).op \notin {"NAME", "DATA"}
    BY Ops
  <2>7. \A i \in {5, 11, 15, 18, 21, 24, 25} : Met(A, t, i)
    BY <2>5, <2>6
  <2> QED BY <2>2, <2>4, <2>7
<1>2. ASSUME \A i \in 3 .. 32 : Met(A, t, i) PROVE Complete(A, t)
  <2>1. /\ Met(A, t, 3) /\ Met(A, t, 4) /\ Met(A, t, 6) /\ Met(A, t, 8) /\ Met(A, t, 10)
        /\ Met(A, t, 12) /\ Met(A, t, 13) /\ Met(A, t, 14) /\ Met(A, t, 16) /\ Met(A, t, 19)
        /\ Met(A, t, 22) /\ Met(A, t, 26) /\ Met(A, t, 28) /\ Met(A, t, 29) /\ Met(A, t, 31)
        /\ Met(A, t, 9) /\ Met(A, t, 17) /\ Met(A, t, 23) /\ Met(A, t, 27) /\ Met(A, t, 30)
        /\ Met(A, t, 32)
    BY <1>2
  <2>2. /\ Has(A, t, {"tkhd", "mdia"}) /\ Has(A, Mdia(A, t), {"mdhd", "hdlr", "minf"})
        /\ Has(A, Minf(A, t), {"smhd", "dinf", "stbl"})
        /\ Has(A, Stbl(A, t), {"stsd", "stts", "stsc", "stsz", "stco"})
        /\ Has(A, Stsd(A, t), {"mp4a"}) /\ Has(A, Mp4a(A, t), {"esds"})
    BY <2>1, MetNames DEF Has
  <2>3. /\ Body(A, Hdlr(A, t)) = "soun" /\ Body(A, Stsd(A, t)) = 1
        /\ Body(A, Esds(A, t)).tags /\ Body(A, Esds(A, t)).asc <= 10
        /\ A[Kid(A, Stbl(A, t), "stts")].size >= 8 + 16
        /\ Len(Sizes(A, t)) + 1 # U32
        /\ Sums(Sizes(A, t))[Len(Sizes(A, t))] < U32
        /\ Body(A, Kid(A, Stbl(A, t), "stco")) # <<>>
    BY <2>1, MetValues, Zenon
  <2> QED BY <2>2, <2>3 DEF Complete
<1> QED BY <1>1, <1>2

\* It is passed over when the places up to its handler are met, but the handler's is not.
LEMMA PassedIsUnmet ==
  ASSUME NEW A, NEW end, Whole(A, end), NEW t
  PROVE  Passed(A, t) <=> /\ Met(A, t, 3) /\ Met(A, t, 4) /\ Met(A, t, 6) /\ Met(A, t, 8)
                          /\ ~Met(A, t, 9)
<1>1. Met(A, t, 9) <=> Body(A, Hdlr(A, t)) = "soun"
  BY MetValues, Zenon
<1>2. /\ Has(A, t, {"tkhd", "mdia"}) <=> Met(A, t, 3) /\ Met(A, t, 4)
      /\ Has(A, Mdia(A, t), {"mdhd", "hdlr"}) <=> Met(A, t, 6) /\ Met(A, t, 8)
  BY MetNames DEF Has
<1> QED BY <1>1, <1>2 DEF Passed

\* The first track that is not passed over is the one to be opened.
LEMMA FirstLeft ==
  ASSUME NEW A, NEW end, Whole(A, end), NEW t, Candidate(A, t), ~Passed(A, t)
  PROVE  Left(A) # {} /\ Min(Left(A)) = t
<1> DEFINE S == Left(A)
<1>1. S \subseteq Nat
  BY NamedSays DEF Left, Traks, Kids
<1>2. t \in S /\ \A c \in S : t <= c
  <2>1. t \in S
    BY DEF Candidate, Left
  <2>2. ASSUME NEW c \in S PROVE t <= c
    <3>1. ~(c < t)
      BY <2>2 DEF Candidate, Left
    <3>2. c \in Nat /\ t \in Nat
      BY <1>1, <2>1, <2>2
    <3> HIDE DEF S
    <3> QED BY <3>1, <3>2
  <2> QED BY <2>1, <2>2
<1> HIDE DEF S
<1>3. Min(S) = t
  BY <1>1, <1>2, MinSays
<1> QED BY <1>2, <1>3 DEF S

\* A place that is not met: the file does not play.
LEMMA UnmetFails ==
  ASSUME NEW A, NEW end, Whole(A, end), NEW t, Candidate(A, t),
         NEW i \in 3 .. 32, i # 9, Gone(A, t, i), ~Met(A, t, i)
  PROVE  ~Plays(A)
<1>1. ~Complete(A, t)
  BY CompleteIsMet
<1>2. ~Passed(A, t)
  <2>1. CASE i < 9
    <3>1. i \in {3, 4, 6, 8} \/ i \in {5, 7}
      BY <2>1
    <3>2. Met(A, t, 7)
      BY MetValues, Zenon
    <3>3. Met(A, t, 5)
      <4>1. Place(5).op = "DESCENT"
        BY Ops
      <4> QED BY <4>1 DEF Met
    <3> QED BY <3>1, <3>2, <3>3, PassedIsUnmet
  <2>2. CASE i > 9
    <3>1. Met(A, t, 9)
      BY <2>2 DEF Gone
    <3> QED BY <3>1, PassedIsUnmet
  <2> QED BY <2>1, <2>2
<1>3. Left(A) # {} /\ Min(Left(A)) = t
  BY <1>2, FirstLeft
<1> QED BY <1>1, <1>3 DEF Plays

\* All places met: it plays, and what has been learnt is what is told of this track.
LEMMA GoneIsComplete ==
  ASSUME NEW A, NEW end, Whole(A, end), NEW t, Candidate(A, t), Headed(A), Gone(A, t, 33)
  PROVE  Plays(A) /\ Min(Left(A)) = t /\ Complete(A, t)
<1>1. \A i \in 3 .. 32 : Met(A, t, i)
  BY DEF Gone
<1>2. Complete(A, t)
  BY <1>1, CompleteIsMet
<1>3. ~Passed(A, t)
  <2>1. Met(A, t, 9)
    BY <1>1
  <2> QED BY <2>1, PassedIsUnmet
<1>4. Left(A) # {} /\ Min(Left(A)) = t
  BY <1>3, FirstLeft
<1> QED BY <1>2, <1>4 DEF Plays

LEMMA LearntIsTold ==
  ASSUME NEW A, NEW end, Whole(A, end), NEW t, Gone(A, t, 33), Learnt(A, t, 33), Tabled
  PROVE  conf = Told(A, t)
<1>1. /\ conf.rate = Body(A, Kid(A, Mdia(A, t), "mdhd")).rate
      /\ conf.samples = Body(A, Kid(A, Mdia(A, t), "mdhd")).samples
      /\ conf.channels = Body(A, Mp4a(A, t)) /\ conf.asc = Body(A, Esds(A, t)).asc
      /\ conf.offsets = Offsets(Sizes(A, t)) /\ conf.maxsize = Largest(Sizes(A, t))
      /\ conf.mdatofs = Head(Body(A, Kid(A, Stbl(A, t), "stco")))
  BY DEF Learnt
<1>2. Offsets(Sizes(A, t)) = Sums(Sizes(A, t))
  <2>1. Met(A, t, 29) /\ Met(A, t, 30)
    BY DEF Gone
  <2>2. Kids(A, Stbl(A, t), "stsz") # {}
    BY <2>1, MetNames
  <2> DEFINE o == Kid(A, Stbl(A, t), "stsz")
  <2>3. o \in DOMAIN A /\ A[o].name = "stsz"
    BY <2>2, KidSays
  <2> HIDE DEF o
  <2>4. Body(A, o) \in Seq(0 .. U32 - 1)
    BY <2>3, WholeValues
  <2>5. Body(A, o) = Sizes(A, t)
    BY DEF Sizes, o
  <2>6. Sums(Sizes(A, t))[Len(Sizes(A, t))] < U32
    BY <2>1, MetValues, Zenon
  <2> QED BY <2>4, <2>5, <2>6, OffsetsAreSums
<1>3. Largest(Sizes(A, t)) = Max({0} \cup {Sizes(A, t)[k] : k \in DOMAIN Sizes(A, t)})
  BY LargestIs
<1>4. conf = [rate |-> conf.rate, samples |-> conf.samples, channels |-> conf.channels,
              asc |-> conf.asc, offsets |-> conf.offsets, maxsize |-> conf.maxsize,
              mdatofs |-> conf.mdatofs]
  BY DEF Tabled, NoConf
<1> QED BY <1>1, <1>2, <1>3, <1>4, Zenon DEF Told
-----------------------------------------------------------------------------
(* Moov, and its tracks.                                                    *)

\* A regular file is a tree of atoms.
LEMMA RegularIsTree ==
  ASSUME Fields, Regular(file.atoms, End[file.id])
  PROVE  TreeOfAtoms(file.id)
<1>1. file.atoms = Atoms[file.id] /\ End[file.id] \in Nat
  BY Mp4Assumption DEF Fields
<1>2. \A o \in DOMAIN file.atoms \cup {End[file.id]} : AtomAt(file.id, o)
  BY <1>1 DEF AtomAt
<1>3. 0 \in DOMAIN file.atoms \cup {End[file.id]}
  BY DEF Regular
<1>4. \A o \in DOMAIN file.atoms : Past(file.atoms, o) \in DOMAIN file.atoms \cup {End[file.id]}
  BY DEF Regular
<1>5. \A o \in DOMAIN file.atoms :
        file.atoms[o].name \in {"moov", "trak", "mdia", "minf", "stbl", "stsd", "mp4a"} =>
          First(file.atoms, o) \in DOMAIN file.atoms \cup {End[file.id]}
  BY DEF Regular
<1>6. ASSUME NEW o \in DOMAIN file.atoms
      PROVE  LET a == file.atoms[o]
             IN  /\ AtomAt(file.id, o + a.size)
                 /\ a.name \in {"moov", "trak", "mdia", "minf", "stbl"} => AtomAt(file.id, o + 8)
                 /\ a.name = "stsd" => AtomAt(file.id, o + 8 + 8)
                 /\ a.name = "mp4a" => AtomAt(file.id, o + 8 + 28)
  <2>1. AtomAt(file.id, o + file.atoms[o].size)
    BY <1>2, <1>4 DEF Past
  <2>2. o \in Nat
    BY DEF Regular
  <2>3. ASSUME file.atoms[o].name \in {"moov", "trak", "mdia", "minf", "stbl"}
        PROVE  AtomAt(file.id, o + 8)
    <3>1. First(file.atoms, o) = o + 8
      BY <2>2, <2>3 DEF First
    <3> QED BY <1>2, <1>5, <2>3, <3>1
  <2>4. ASSUME file.atoms[o].name = "stsd" PROVE AtomAt(file.id, o + 8 + 8)
    <3>1. First(file.atoms, o) = o + 8 + 8
      BY <2>2, <2>4 DEF First
    <3> QED BY <1>2, <1>5, <2>4, <3>1
  <2>5. ASSUME file.atoms[o].name = "mp4a" PROVE AtomAt(file.id, o + 8 + 28)
    <3>1. First(file.atoms, o) = o + 8 + 28
      BY <2>2, <2>5 DEF First
    <3> QED BY <1>2, <1>5, <2>5, <3>1
  <2> QED BY <2>1, <2>3, <2>4, <2>5
<1> QED BY <1>1, <1>2, <1>3, <1>6 DEF TreeOfAtoms

\* The first atom of its name.
LEMMA FirstIsMin ==
  ASSUME NEW A, NEW end, Whole(A, end), NEW name, NEW a, NEW b, NEW p \in Named(A, name, a, b),
         \A c \in Named(A, name, a, b) : ~(c < p)
  PROVE  Min(Named(A, name, a, b)) = p
<1> DEFINE S == Named(A, name, a, b)
<1>1. S \subseteq Nat
  BY NamedSays
<1>2. \A c \in S : p <= c
  <2>1. p \in Nat /\ \A c \in S : c \in Nat /\ ~(c < p)
    BY <1>1
  <2> HIDE DEF S
  <2> QED BY <2>1
<1> HIDE DEF S
<1>3. p \in S
  BY DEF S
<1>4. Min(S) = p
  BY <1>1, <1>2, <1>3, MinSays
<1> QED BY <1>4 DEF S

\* The moov atom and its tracks.
LEMMA MoovSays ==
  ASSUME NEW A, NEW end, Whole(A, end), Roots(A, "moov") # {}
  PROVE  /\ Moov(A) \in DOMAIN A /\ Moov(A) \in Nat /\ A[Moov(A)].name = "moov"
         /\ First(A, Moov(A)) = Moov(A) + 8 /\ First(A, Moov(A)) \in Nat
         /\ Past(A, Moov(A)) \in Nat /\ First(A, Moov(A)) <= Past(A, Moov(A))
         /\ Past(A, Moov(A)) <= end /\ A[Moov(A)].size \in Nat
         /\ Past(A, Moov(A)) = First(A, Moov(A)) + (A[Moov(A)].size - 8)
<1> DEFINE S == Roots(A, "moov")
           m == Moov(A)
<1>1. S \subseteq Nat /\ S \subseteq DOMAIN A /\ \A c \in S : A[c].name = "moov"
  BY NamedSays DEF Roots
<1>2. m = Min(S)
  BY DEF Moov
<1> HIDE DEF S, m
<1>3. m \in S
  BY <1>1, <1>2, MinSays DEF S
<1>4. m \in DOMAIN A /\ m \in Nat /\ A[m].name = "moov"
  BY <1>1, <1>3
<1>5. First(A, m) = m + 8 /\ Past(A, m) = m + A[m].size
  BY <1>4 DEF First, Past
<1>6. Past(A, m) \in Nat /\ Past(A, m) <= end /\ A[m].size \in Nat
  BY <1>4, WholeSays
<1>7. First(A, m) \in Nat /\ First(A, m) <= Past(A, m)
  BY <1>4, WholeKinds DEF BoxNames
<1>8. Past(A, m) = First(A, m) + (A[m].size - 8)
  BY <1>4, <1>5, <1>6
<1> QED BY <1>4, <1>5, <1>6, <1>7, <1>8 DEF m

LEMMA TracksSay ==
  ASSUME NEW A, NEW end, Whole(A, end), NEW c \in Traks(A)
  PROVE  /\ c \in DOMAIN A /\ c \in Nat /\ A[c].name = "trak"
         /\ First(A, Moov(A)) <= c /\ c < Past(A, Moov(A))
         /\ Direct(A, c, First(A, Moov(A)), Past(A, Moov(A)))
  BY NamedSays DEF Traks, Kids

\* All tracks passed over.
LEMMA NoneLeft ==
  ASSUME NEW A, \A c \in Traks(A) : Passed(A, c)
  PROVE  Left(A) = {} /\ ~Plays(A)
  BY DEF Left, Plays

\* A track that is passed over: the handler lies within it, and the search goes on from there.
LEMMA PassedOver ==
  ASSUME NEW A, NEW end, Whole(A, end), Roots(A, "moov") # {}, NEW t, Candidate(A, t), Passed(A, t)
  PROVE  /\ Seeking(A, end, "trak", First(A, Moov(A)), Past(A, Moov(A)), Past(A, Hdlr(A, t)))
         /\ Past(A, Hdlr(A, t)) <= Past(A, Moov(A))
<1> DEFINE m == Moov(A)
           d == Mdia(A, t)
           h == Hdlr(A, t)
           p == Past(A, h)
<1>1. /\ m \in DOMAIN A /\ m \in Nat /\ First(A, m) \in Nat /\ m <= First(A, m)
      /\ Past(A, m) \in Nat
  <2>1. Moov(A) \in DOMAIN A /\ Moov(A) \in Nat /\ First(A, Moov(A)) = Moov(A) + 8 /\ Past(A, Moov(A)) \in Nat
    BY MoovSays
  <2> QED BY <2>1
<1>2. t \in DOMAIN A /\ t \in Nat /\ First(A, m) <= t /\ t < Past(A, m) /\ A[t].name = "trak"
  BY TracksSay DEF Candidate
<1>3. d \in DOMAIN A /\ A[d].name = "mdia" /\ First(A, t) <= d /\ d < Past(A, t)
  <2>1. Kids(A, t, "mdia") # {}
    BY DEF Passed, Has
  <2> QED BY <2>1, KidSays DEF Mdia
<1>4. h \in DOMAIN A /\ First(A, d) <= h /\ h < Past(A, d)
  <2>1. Kids(A, Mdia(A, t), "hdlr") # {}
    BY DEF Passed, Has
  <2> QED BY <2>1, KidSays DEF Hdlr
<1> HIDE DEF m, d, h
<1>5. t < First(A, t) /\ d < First(A, d) /\ First(A, t) \in Nat /\ First(A, d) \in Nat
  BY <1>2, <1>3, WholeKinds DEF BoxNames
<1>6. /\ d \in Nat /\ h \in Nat /\ p \in Nat /\ h <= p /\ Past(A, t) \in Nat /\ Past(A, d) \in Nat
      /\ p \in DOMAIN A \/ p = end
  BY <1>2, <1>3, <1>4, WholeSays
<1>7. Past(A, t) <= Past(A, m)
  <2>1. m <= t
    BY <1>1, <1>2
  <2> QED BY <1>1, <1>2, <2>1, WholeSays
<1>8. Past(A, d) <= Past(A, t)
  <2>1. t <= d
    BY <1>2, <1>3, <1>5, <1>6
  <2> QED BY <1>2, <1>3, <2>1, WholeSays
<1>9. p <= Past(A, d)
  <2>1. d <= h
    BY <1>3, <1>4, <1>5, <1>6
  <2> QED BY <1>3, <1>4, <2>1, WholeSays
<1>10. p <= Past(A, t) /\ p <= Past(A, m) /\ First(A, m) <= p
  BY <1>1, <1>2, <1>3, <1>4, <1>5, <1>6, <1>7, <1>8, <1>9
<1>11. ASSUME NEW c \in Traks(A), c < p PROVE Passed(A, c)
  <2>1. c \in Nat /\ Direct(A, c, First(A, m), Past(A, m))
    BY TracksSay DEF m
  <2>2. CASE c < t
    BY <2>2 DEF Candidate
  <2>3. CASE c = t
    BY <2>3
  <2>4. CASE t < c
    <3>1. Past(A, t) <= c
      BY <1>2, <2>1, <2>4 DEF Direct
    <3> HIDE DEF p
    <3> QED BY <1>6, <1>10, <1>11, <2>1, <3>1
  <2> QED BY <1>2, <2>1, <2>2, <2>3, <2>4
<1>12. Named(A, "trak", First(A, m), Past(A, m)) = Traks(A)
  BY DEF Traks, Kids, m
<1> HIDE DEF p
<1>13. Seeking(A, end, "trak", First(A, m), Past(A, m), p)
  BY <1>6, <1>10, <1>11, <1>12 DEF Seeking
<1> QED BY <1>10, <1>13 DEF p, m, h

\* The end of the moov atom is not near while the search for tracks goes on.
LEMMA TracksOver ==
  ASSUME NEW A, NEW end, Whole(A, end), Roots(A, "ftyp") # {}, Roots(A, "moov") # {},
         Kids(A, Moov(A), "mvhd") # {}, NEW p,
         Seeking(A, end, "trak", First(A, Moov(A)), Past(A, Moov(A)), p),
         p <= Past(A, Moov(A)), Past(A, Moov(A)) - p \in 0 .. 7,
         p = First(A, Moov(A)) \/ \E t \in Traks(A) : Past(A, Hdlr(A, t)) = p
  PROVE  EndsWithHandler(A)
<1> DEFINE m == Moov(A)
           a == First(A, m)
           b == Past(A, m)
<1>1. m \in DOMAIN A /\ m \in Nat /\ a = m + 8 /\ a \in Nat /\ b \in Nat /\ a <= b /\ b <= end
  BY MoovSays
<1>2. p \in Nat /\ a <= p /\ (p \in DOMAIN A \/ p = end) /\ p <= b /\ p + 8 > b
  <2>1. p \in Nat /\ a <= p /\ (p \in DOMAIN A \/ p = end)
    BY DEF Seeking
  <2> QED BY <1>1, <2>1
<1> HIDE DEF m, a, b
<1>3. p # a
  <2> DEFINE k == Kid(A, m, "mvhd")
  <2>1. k \in DOMAIN A /\ A[k].name = "mvhd" /\ a <= k /\ k < b
    BY KidSays DEF m, a, b
  <2> HIDE DEF k
  <2>2. A[k].size > 8 /\ k \in Nat /\ Past(A, k) = k + A[k].size /\ A[k].size \in Nat
    BY <2>1, WholeKinds, WholeSays DEF Wanted
  <2>3. Past(A, k) <= b
    <3>1. m <= k /\ k < Past(A, m)
      BY <1>1, <2>1, <2>2 DEF b
    <3> QED BY <1>1, <2>1, <3>1, WholeSays DEF b
  <2> QED BY <1>1, <1>2, <2>1, <2>2, <2>3
<1>4. p = b
  <2>1. CASE p = end
    BY <1>1, <1>2, <2>1
  <2>2. CASE p \in DOMAIN A
    <3>1. SUFFICES ASSUME p < b PROVE FALSE
      BY <1>1, <1>2
    <3>2. Past(A, p) <= Past(A, m)
      <4>1. m <= p /\ p < Past(A, m)
        BY <1>1, <1>2, <3>1 DEF b
      <4> QED BY <1>1, <2>2, <4>1, WholeSays
    <3>3. Past(A, p) = p + A[p].size /\ A[p].size >= 8 /\ A[p].size \in Nat
      BY <2>2, WholeSays
    <3> QED BY <1>1, <1>2, <3>2, <3>3 DEF b
  <2> QED BY <1>2, <2>1, <2>2
<1>5. \A c \in Traks(A) : Passed(A, c)
  <2>1. SUFFICES ASSUME NEW c \in Traks(A) PROVE Passed(A, c)
    OBVIOUS
  <2>2. c \in Named(A, "trak", a, b) /\ c < p
    BY <1>4, TracksSay DEF Traks, Kids, m, a, b
  <2> QED BY <2>2 DEF Seeking, m, a, b
<1>6. \E t \in Traks(A) : Past(A, Hdlr(A, t)) = Past(A, Moov(A))
  BY <1>3, <1>4 DEF m, a, b
<1>7. Headed(A)
  BY DEF Headed, Has
<1> QED BY <1>5, <1>6, <1>7, NoneLeft DEF EndsWithHandler
-----------------------------------------------------------------------------
(* The next place.                                                          *)

\* The places that ask for nothing.
LEMMA MetElse ==
  ASSUME NEW A, NEW t, NEW i, Place(i).op \notin {"NAME", "DATA"}
  PROVE  Met(A, t, i)
  BY DEF Met

LEMMA GoneNextPlace ==
  ASSUME NEW A, NEW t, NEW i \in 2 .. 32, Gone(A, t, i), i >= 3 => Met(A, t, i)
  PROVE  Gone(A, t, i + 1)
<1>1. SUFFICES ASSUME NEW j \in 3 .. (i + 1) - 1 PROVE Met(A, t, j)
  BY DEF Gone
<1>2. j \in 3 .. i - 1 \/ (j = i /\ i >= 3)
  OBVIOUS
<1> QED BY <1>2 DEF Gone

\* What each handler stores, and no other.
LEMMA Stores ==
  ASSUME Tabled, NEW n, NEW b, conf' = Configured(n, b)
  PROVE  /\ conf'.rate = IF n = "mdhd" THEN b.rate ELSE conf.rate
         /\ conf'.samples = IF n = "mdhd" THEN b.samples ELSE conf.samples
         /\ conf'.channels = IF n = "mp4a" THEN b ELSE conf.channels
         /\ conf'.asc = IF n = "esds" THEN b.asc ELSE conf.asc
         /\ conf'.offsets = IF n = "stsz" THEN Offsets(b) ELSE conf.offsets
         /\ conf'.maxsize = IF n = "stsz" THEN Largest(b) ELSE conf.maxsize
         /\ conf'.mdatofs = IF n = "stco" THEN Head(b) ELSE conf.mdatofs
<1>1. conf = [rate |-> conf.rate, samples |-> conf.samples, channels |-> conf.channels,
              asc |-> conf.asc, offsets |-> conf.offsets, maxsize |-> conf.maxsize,
              mdatofs |-> conf.mdatofs]
  BY DEF Tabled, NoConf
<1>2. CASE n = "mdhd"
  <2>1. conf' = [conf EXCEPT !.rate = b.rate, !.samples = b.samples]
    BY <1>2, Zenon DEF Configured
  <2> QED BY <1>1, <1>2, <2>1
<1>3. CASE n = "mp4a"
  <2>1. conf' = [conf EXCEPT !.channels = b]
    BY <1>3, Zenon DEF Configured
  <2> QED BY <1>1, <1>3, <2>1
<1>4. CASE n = "esds"
  <2>1. conf' = [conf EXCEPT !.asc = b.asc]
    BY <1>4, Zenon DEF Configured
  <2> QED BY <1>1, <1>4, <2>1
<1>5. CASE n = "stsz"
  <2> DEFINE o == Offsets(b)
             l == Largest(b)
  <2>1. conf' = [conf EXCEPT !.offsets = o, !.maxsize = l]
    BY <1>5, Zenon DEF Configured
  <2> HIDE DEF o, l
  <2>2. conf'.offsets = o /\ conf'.maxsize = l /\ conf'.rate = conf.rate
        /\ conf'.samples = conf.samples /\ conf'.channels = conf.channels
        /\ conf'.asc = conf.asc /\ conf'.mdatofs = conf.mdatofs
    BY <1>1, <2>1
  <2> QED BY <1>5, <2>2 DEF o, l
<1>6. CASE n = "stco"
  <2> DEFINE h == Head(b)
  <2>1. conf' = [conf EXCEPT !.mdatofs = h]
    BY <1>6, Zenon DEF Configured
  <2> HIDE DEF h
  <2>2. conf'.offsets = conf.offsets /\ conf'.maxsize = conf.maxsize /\ conf'.rate = conf.rate
        /\ conf'.samples = conf.samples /\ conf'.channels = conf.channels
        /\ conf'.asc = conf.asc /\ conf'.mdatofs = h
    BY <1>1, <2>1
  <2> QED BY <1>6, <2>2 DEF h
<1>7. CASE n \notin {"mdhd", "mp4a", "esds", "stsz", "stco"}
  <2>1. conf' = conf
    BY <1>7, Zenon DEF Configured
  <2> QED BY <1>7, <2>1
<1> QED BY <1>2, <1>3, <1>4, <1>5, <1>6, <1>7

\* What is stored is kept as long as no other handler is called.
LEMMA LearntKept ==
  ASSUME NEW A, NEW t, NEW i \in 1 .. 32, Place(i).op # "DATA", Learnt(A, t, i), UNCHANGED conf
  PROVE  Learnt(A, t, i + 1)'
<1>1. i \notin {7, 9, 17, 20, 23, 27, 30, 32}
  BY Ops
<1>2. /\ i + 1 > 7 => i > 7
      /\ i + 1 > 20 => i > 20
      /\ i + 1 > 23 => i > 23
      /\ i + 1 > 30 => i > 30
      /\ i + 1 > 32 => i > 32
  BY <1>1
<1> QED BY <1>2 DEF Learnt

\* What a handler stores is that of the atom found, and what is stored before is kept.
LEMMA LearntNext ==
  ASSUME NEW A, NEW t, NEW i \in 3 .. 32, Place(i).op = "DATA", Learnt(A, t, i), Tabled,
         conf' = Configured(Place(i - 1).name, Body(A, Spot(A, t, i - 1)))
  PROVE  Learnt(A, t, i + 1)'
<1> DEFINE n == Place(i - 1).name
           b == Body(A, Spot(A, t, i - 1))
<1>1. i \in {7, 9, 17, 20, 23, 27, 30, 32}
  BY Kinds
<1>2. /\ i = 7 => n = "mdhd" /\ b = Body(A, Kid(A, Mdia(A, t), "mdhd"))
      /\ i = 9 => n = "hdlr"
      /\ i = 17 => n = "stsd"
      /\ i = 20 => n = "mp4a" /\ b = Body(A, Mp4a(A, t))
      /\ i = 23 => n = "esds" /\ b = Body(A, Esds(A, t))
      /\ i = 27 => n = "stts"
      /\ i = 30 => n = "stsz" /\ b = Sizes(A, t)
      /\ i = 32 => n = "stco" /\ b = Body(A, Kid(A, Stbl(A, t), "stco"))
  BY Names, Spots DEF Sizes
<1>3. conf' = Configured(n, b)
  OBVIOUS
<1> HIDE DEF n, b
<1>4. /\ conf'.rate = IF n = "mdhd" THEN b.rate ELSE conf.rate
      /\ conf'.samples = IF n = "mdhd" THEN b.samples ELSE conf.samples
      /\ conf'.channels = IF n = "mp4a" THEN b ELSE conf.channels
      /\ conf'.asc = IF n = "esds" THEN b.asc ELSE conf.asc
      /\ conf'.offsets = IF n = "stsz" THEN Offsets(b) ELSE conf.offsets
      /\ conf'.maxsize = IF n = "stsz" THEN Largest(b) ELSE conf.maxsize
      /\ conf'.mdatofs = IF n = "stco" THEN Head(b) ELSE conf.mdatofs
  BY <1>3, Stores
<1>5. (i + 1 > 7 => /\ conf.rate = Body(A, Kid(A, Mdia(A, t), "mdhd")).rate
                    /\ conf.samples = Body(A, Kid(A, Mdia(A, t), "mdhd")).samples)'
  BY <1>1, <1>2, <1>4 DEF Learnt
<1>6. (i + 1 > 20 => conf.channels = Body(A, Mp4a(A, t)))'
  BY <1>1, <1>2, <1>4 DEF Learnt
<1>7. (i + 1 > 23 => conf.asc = Body(A, Esds(A, t)).asc)'
  BY <1>1, <1>2, <1>4 DEF Learnt
<1>8. (i + 1 > 30 => conf.offsets = Offsets(Sizes(A, t)) /\ conf.maxsize = Largest(Sizes(A, t)))'
  BY <1>1, <1>2, <1>4 DEF Learnt
<1>9. (i + 1 > 32 => conf.mdatofs = Head(Body(A, Kid(A, Stbl(A, t), "stco"))))'
  BY <1>1, <1>2, <1>4 DEF Learnt
<1> QED BY <1>5, <1>6, <1>7, <1>8, <1>9 DEF Learnt
-----------------------------------------------------------------------------
(* The calls.                                                               *)

\* A state in which a regular file is being opened.
Before(A, end) ==
  /\ Whole(A, end) /\ file.atoms = A /\ TreeOfAtoms(file.id)
  /\ IInv /\ Placed /\ Tabled /\ Opens(A, end)

\* The other scripts have no groups.
LEMMA PlainGroups ==
  ASSUME NEW s \in {"head", "moov", "mvhd"}, NEW i \in DOMAIN Script[s]
  PROVE  Group(s, i) = 0 /\ i \in 1 .. 3
<1>1. i \in 1 .. 3
  BY DEF Script
<1>2. \A j \in {1, 2} : j \in DOMAIN Script[s] /\ j + 1 \in DOMAIN Script[s] =>
        Script[s][j].op \notin {"DESCENT", "ASCENT"}
  BY DEF Script, Find, Data, Stop
<1>3. Group(s, 1) = 0
  BY GroupFirst
<1>4. Group(s, 1 + 1) = Group(s, 1) + Weight(Script[s][1].op)
  BY GroupNext
<1>5. Group(s, 2 + 1) = Group(s, 2) + Weight(Script[s][2].op)
  BY GroupNext
<1>6. i >= 2 => 1 \in DOMAIN Script[s] /\ 2 \in DOMAIN Script[s]
  BY DEF Script
<1>7. i = 3 => 3 \in DOMAIN Script[s]
  BY <1>1
<1>8. i >= 2 => Group(s, 2) = 0
  BY <1>2, <1>3, <1>4, <1>6 DEF Weight
<1>9. i = 3 => Group(s, 3) = 0
  BY <1>2, <1>5, <1>6, <1>7, <1>8 DEF Weight
<1> QED BY <1>1, <1>3, <1>8, <1>9

\* How deep the calls are.
LEMMA Depths ==
  ASSUME IInv
  PROVE  /\ Len(stack) \in Nat
         /\ script \in {"head", "moov"} /\ pc \in {"search", "handle", "enter"} => Len(stack) = 1
         /\ script = "mvhd" /\ pc \in {"search", "handle", "enter"} => Len(stack) = 3
         /\ script = "trak" => ip \in 1 .. 33 /\ Len(stack) >= 2
         /\ script = "trak" /\ pc \in {"search", "handle", "enter"} => Len(stack) = Rank[ip] + 3
         /\ script = "trak" /\ ip # 33 /\ (pc = "kids" \/ (pc = "return" /\ ret = "ok")) =>
              Len(stack) = Rank[ip] + 2
<1>1. Len(stack) \in Nat
  BY LenProperties DEF IInv, Fields
<1>2. ip \in DOMAIN Script[script]
  BY DEF IInv, Fields
<1>3. pc \in {"search", "handle", "enter"} => Group(script, ip) = Level
  BY DEF IInv, Pace
<1>4. script \in {"head", "moov"} /\ pc \in {"search", "handle", "enter"} => Len(stack) = 1
  <2>1. SUFFICES ASSUME script \in {"head", "moov"}, pc \in {"search", "handle", "enter"}
                 PROVE  Len(stack) = 1
    OBVIOUS
  <2>2. Level = 0
    BY <1>2, <1>3, <2>1, PlainGroups
  <2>3. Level = Len(stack) - 1
    BY <1>1, <2>1, LevelIs DEF InTracks
  <2> QED BY <1>1, <2>2, <2>3
<1>5. script = "mvhd" /\ pc \in {"search", "handle", "enter"} => Len(stack) = 3
  <2>1. SUFFICES ASSUME script = "mvhd", pc \in {"search", "handle", "enter"}
                 PROVE  Len(stack) = 3
    OBVIOUS
  <2>2. Level = 0
    BY <1>2, <1>3, <2>1, PlainGroups
  <2>3. Level = Len(stack) - 3
    BY <1>1, <2>1, LevelIs DEF InTracks
  <2> QED BY <1>1, <2>2, <2>3
<1>6. ASSUME script = "trak"
      PROVE  /\ ip \in 1 .. 33 /\ Len(stack) >= 2 /\ Group(script, ip) = Rank[ip]
             /\ Rank[ip] \in Int /\ Level = Len(stack) - 3
  <2>1. ip \in 1 .. 33
    BY <1>2, <1>6, TrakPlaces
  <2>2. Group(script, ip) = Rank[ip] /\ Rank[ip] \in Int
    BY <1>6, <2>1, RankIsGroup, RankNext
  <2>3. InTracks
    BY <1>6 DEF InTracks
  <2> QED BY <1>1, <2>1, <2>2, <2>3, LevelIs DEF IInv, Calls
<1>7. script = "trak" /\ pc \in {"search", "handle", "enter"} => Len(stack) = Rank[ip] + 3
  BY <1>1, <1>3, <1>6
<1>8. script = "trak" /\ ip # 33 /\ (pc = "kids" \/ (pc = "return" /\ ret = "ok")) =>
        Len(stack) = Rank[ip] + 2
  <2>1. SUFFICES ASSUME script = "trak", ip # 33, pc = "kids" \/ (pc = "return" /\ ret = "ok")
                 PROVE  Len(stack) = Rank[ip] + 2
    OBVIOUS
  <2>2. Op.op # "STOP"
    BY <1>6, <2>1, Kinds DEF Op, Place
  <2>3. Group(script, ip) = Level + 1
    BY <2>1, <2>2 DEF IInv, Pace
  <2> QED BY <1>1, <1>6, <2>1, <2>3
<1> QED BY <1>1, <1>4, <1>5, <1>6, <1>7, <1>8

\* What a call of parse changes.
LEMMA CallSays ==
  ASSUME NEW calls \in Seq(CallType), NEW p, NEW max, Call(calls, p, max)
  PROVE  /\ pc' = "search" /\ fpos' = p /\ Len(calls) \in Nat
         /\ Len(stack') = Len(calls) + 1 /\ Top'.limit = p + max
         /\ \A k \in 1 .. Len(calls) : stack'[k] = calls[k]
<1> DEFINE c == ParseCall(p, max)
<1>1. c.limit = p + max
  BY DEF ParseCall
<1>2. stack' = Append(calls, c) /\ pc' = "search" /\ fpos' = p
  BY DEF Call
<1> HIDE DEF c
<1>3. /\ Len(calls) \in Nat /\ Len(stack') = Len(calls) + 1 /\ stack'[Len(calls) + 1] = c
      /\ \A k \in 1 .. Len(calls) : stack'[k] = calls[k]
  BY <1>2, AppendProperties, LenProperties
<1>4. Top' = c
  BY <1>3 DEF Top, Last
<1> QED BY <1>1, <1>2, <1>3, <1>4

\* And a return.
LEMMA GiveSays ==
  ASSUME Fields, stack # <<>>, NEW r, Give(r)
  PROVE  /\ pc' = "return" /\ ret' = r /\ Len(stack) \in Nat /\ Len(stack) >= 1
         /\ Len(stack') = Len(stack) - 1
         /\ \A k \in 1 .. Len(stack) - 1 : stack'[k] = stack[k]
<1>1. stack' = Front(stack) /\ pc' = "return" /\ ret' = r
  BY DEF Give
<1> QED BY <1>1, Popped DEF Fields

\* To fail is all that is asked of a failing call.
LEMMA FailsSo ==
  ASSUME NEW A, NEW end, pc' = "return", ret' = "fail", denied' \/ ~Plays(A)
  PROVE  Opens(A, end)'
  BY DEF Opens, Live, Searches, OnTrack, Returns, Untabled, Failure

\* The two searches from the beginning of the file.
LEMMA FirstSearch ==
  ASSUME NEW A, NEW end, Whole(A, end), Call(<<>>, 0, IntMax),
         NEW name \in {"ftyp", "moov"}, Op'.name = name
  PROVE  Searches(A, end)' /\ Len(stack') = 1 /\ pc' = "search"
<1> DEFINE none == <<>>
<1>1. none \in Seq(CallType) /\ Len(none) = 0 /\ Call(none, 0, IntMax)
  BY EmptySeq
<1> HIDE DEF none
<1>2. pc' = "search" /\ fpos' = 0 /\ Len(stack') = 0 + 1 /\ Top'.limit = 0 + IntMax
  BY <1>1, CallSays
<1>3. IntMax \in Nat /\ 0 \in Nat /\ (0 \in DOMAIN A \/ 0 = end)
  BY WholeSays DEF Whole
<1>4. Len(stack') = 1 /\ Top'.limit = IntMax
  BY <1>2, <1>3
<1>5. Lo(A)' = 0 /\ Hi(A)' = IntMax
  BY <1>4 DEF Lo, Hi
<1>6. Region(A, name, 0, IntMax, IntMax)
  BY FileRegion
<1>7. Seeking(A, end, name, 0, IntMax, 0)
  BY <1>3, SearchStarts
<1>8. Searches(A, end)'
  BY <1>2, <1>4, <1>5, <1>6, <1>7 DEF Searches
<1> QED BY <1>2, <1>4, <1>8

\* The scripts that are not that of a track.
LEMMA PlainPlaces ==
  /\ Script["head"][1].name = "ftyp" /\ Script["moov"][1].name = "moov"
  /\ Script["mvhd"][1].name = "mvhd"
  /\ Script["head"][2].op = "DATA" /\ Script["moov"][2].op = "DATA"
  /\ Script["mvhd"][2].op = "STOP" /\ Script["head"][3].op = "STOP" /\ Script["moov"][3].op = "STOP"
  /\ \A s \in {"head", "moov", "mvhd"} : \A i \in DOMAIN Script[s] :
       /\ Script[s][i].op = "NAME" => i = 1
       /\ Script[s][i].op = "DATA" => i = 2 /\ s # "mvhd"
       /\ Script[s][i].op \notin {"DESCENT", "ASCENT"}
  BY DEF Script, Find, Data, Stop
-----------------------------------------------------------------------------
(* The steps of mp4read_open keep the invariant.                            *)

LEMMA OpensOpen ==
  ASSUME NEW A, NEW end, Before(A, end), OpenFails \/ Open \/ OpenMoov \/ OpenBuffer \/ OpenError
  PROVE  Opens(A, end)'
<1> USE DEF Before, IInv
<1>1. CASE OpenFails
  BY <1>1 DEF OpenFails, Opens, Live, Searches, OnTrack, Returns, Untabled, Failure
<1>2. CASE Open
  <2>1. /\ pc = "closed" /\ held' = [held EXCEPT !.file = TRUE] /\ Call(<<>>, 0, IntMax)
        /\ UNCHANGED <<script, ip, ret>> /\ script = "head" /\ ip = 1
    BY <1>2 DEF Open, Calls
  <2>2. Op'.name = "ftyp"
    BY <2>1, PlainPlaces DEF Op
  <2>3. Searches(A, end)' /\ Len(stack') = 1 /\ pc' = "search"
    BY <2>1, <2>2, FirstSearch
  <2>4. ~held'.table
    BY <2>1 DEF Opens, Untabled, Tabled, HeldType
  <2>5. Heads(A)' /\ ~OnTrack'
    BY <2>1, <2>3 DEF Heads, OnTrack, InTracks
  <2>6. Returns(A, end)' /\ Untabled'
    BY <2>3, <2>4 DEF Returns, Untabled
  <2> QED BY <2>3, <2>5, <2>6 DEF Opens
<1>3. CASE OpenMoov
  <2>1. /\ pc = "return" /\ script = "head" /\ ret = "ok" /\ script' = "moov" /\ ip' = 1
        /\ Call(<<>>, 0, IntMax) /\ UNCHANGED <<ret, held>>
    BY <1>3 DEF OpenMoov
  <2>2. Op'.name = "moov"
    BY <2>1, PlainPlaces DEF Op
  <2>3. Searches(A, end)' /\ Len(stack') = 1 /\ pc' = "search"
    BY <2>1, <2>2, FirstSearch
  <2>4. Live
    BY <2>1 DEF Live
  <2>5. ~held'.table /\ Roots(A, "ftyp") # {}
    BY <2>1, <2>4 DEF Opens, Untabled, Heads
  <2>6. Heads(A)' /\ ~OnTrack'
    BY <2>1, <2>3, <2>5 DEF Heads, OnTrack, InTracks
  <2>7. Returns(A, end)' /\ Untabled'
    BY <2>3, <2>5 DEF Returns, Untabled
  <2> QED BY <2>3, <2>6, <2>7 DEF Opens
<1>4. CASE OpenBuffer
  <2>1. /\ pc = "return" /\ script = "moov" /\ ret = "ok" /\ pc' = "open"
        /\ held' = [held EXCEPT !.buffer = TRUE] /\ UNCHANGED <<script, conf>>
    BY <1>4 DEF OpenBuffer
  <2>2. Live
    BY <2>1 DEF Live
  <2>3. Success(A)
    BY <2>1, <2>2 DEF Opens, Heads
  <2>4. held'.table = held.table
    BY <2>1 DEF Tabled, HeldType
  <2>5. Success(A)'
    BY <2>1, <2>3, <2>4 DEF Success
  <2> QED BY <2>1, <2>5 DEF Opens, Live, Searches, OnTrack, Returns, Untabled
<1>5. CASE OpenError
  <2>1. /\ pc = "return" /\ stack = <<>> /\ pc' = "failed" /\ denied' = (denied \/ ret = "ok")
    BY <1>5 DEF OpenError
  <2>2. ret \in {"none", "ok", "fail", "unsupported"} /\ Len(stack) = 0
    BY <2>1, EmptySeq DEF Fields
  <2>3. ret = "ok" \/ ret = "fail"
    BY <2>1, <2>2 DEF Opens, Returns
  <2>4. Failure(A)'
    BY <2>1, <2>3 DEF Opens, Returns, Failure
  <2> QED BY <2>1, <2>4 DEF Opens, Live, Searches, OnTrack, Returns, Untabled
<1> QED BY <1>1, <1>2, <1>3, <1>4, <1>5

\* A search among the children of a box of a track.
LEMMA ChildSearch ==
  ASSUME NEW A, NEW end, Before(A, end), pc = "search", script = "trak", Len(stack) # 3,
         NEW t, t = stack[3].at
  PROVE  /\ TrackSays(A, t) /\ Op = Place(ip) /\ Place(ip).op = "NAME" /\ Op.name # "trak"
         /\ ip \in {3, 4, 6, 8, 10, 12, 13, 14, 16, 19, 22, 26, 28, 29, 31}
         /\ Len(stack) = Rank[ip] + 3 /\ Rank[ip] \in 1 .. 6
         /\ Named(A, Op.name, Lo(A), Hi(A)) = Kids(A, Box(A, t, Rank[ip]), Op.name)
<1> USE DEF Before, IInv
<1>1. Len(stack) = Rank[ip] + 3 /\ ip \in 1 .. 33 /\ Rank[ip] \in 0 .. 6 /\ Len(stack) \in Nat
  BY Depths, RankNext
<1>2. Len(stack) >= 4 /\ Rank[ip] = (Len(stack) - 1) - 2 /\ Rank[ip] \in 1 .. 6
  BY <1>1
<1>3. TrackSays(A, t)
  BY <1>2 DEF Opens, OnTrack
<1>4. Op = Place(ip) /\ Op.op = "NAME"
  BY DEF Op, Place, Pace
<1>5. ip \in {3, 4, 6, 8, 10, 12, 13, 14, 16, 19, 22, 26, 28, 29, 31}
  <2>1. ip \in {1, 3, 4, 6, 8, 10, 12, 13, 14, 16, 19, 22, 26, 28, 29, 31}
    BY <1>1, <1>4, Kinds
  <2>2. ip # 1
    BY <1>2, Ranks
  <2> QED BY <2>1, <2>2
<1>6. Op.name # "trak"
  BY <1>4, <1>5, Names
<1>7. stack[Len(stack) - 1].at = Box(A, t, Rank[ip])
  <2>1. Len(stack) - 1 \in 3 .. Len(stack) /\ Len(stack) - 1 # Len(stack)
    BY <1>1, <1>2
  <2>2. Descended(A, t, Len(stack) - 1)
    BY <1>3, <2>1 DEF TrackSays
  <2> QED BY <1>2, <2>2 DEF Descended
<1>8. Owner(A) = Box(A, t, Rank[ip])
  BY <1>7 DEF Owner
<1>9. Lo(A) = First(A, Box(A, t, Rank[ip])) /\ Hi(A) = Past(A, Box(A, t, Rank[ip]))
  BY <1>2, <1>8 DEF Lo, Hi
<1> QED BY <1>1, <1>2, <1>3, <1>4, <1>5, <1>6, <1>9 DEF Kids

\* The search that ends without an atom.
LEMMA OpensSearchFails ==
  ASSUME NEW A, NEW end, Before(A, end), SearchFails
  PROVE  Opens(A, end)'
<1> USE DEF Before, IInv
<1> DEFINE name == Op.name
<1>1. /\ pc = "search" /\ ~HeaderReadable /\ pc' = "return" /\ ret' = "fail"
  BY DEF SearchFails, Give
<1>2. /\ Region(A, name, Lo(A), Hi(A), Top.limit) /\ Seeking(A, end, name, Lo(A), Hi(A), fpos)
      /\ Heads(A) /\ Op.op = "NAME"
  BY <1>1 DEF Opens, Searches, Live, Pace
<1>3. ~(fpos < Top.limit - 8 /\ fpos \in DOMAIN A /\ A[fpos].size >= 8)
  BY <1>1 DEF HeaderReadable, Header
<1>4. \A c \in Named(A, name, Lo(A), Hi(A)) : name = "trak" /\ Passed(A, c)
  BY <1>2, <1>3, SearchMisses
<1>5. ip \in DOMAIN Script[script] /\ script \in Scripts
  BY DEF Fields
<1>6. ~Plays(A)
  <2>1. CASE script \in {"head", "moov"}
    <3>1. ip = 1 /\ name # "trak" /\ name = (IF script = "head" THEN "ftyp" ELSE "moov")
      BY <1>2, <1>5, <2>1, PlainPlaces DEF Op
    <3>2. Lo(A) = 0 /\ Hi(A) = IntMax
      BY <1>1, <2>1, Depths DEF Lo, Hi
    <3>3. Roots(A, name) = {}
      BY <1>4, <3>1, <3>2 DEF Roots
    <3> QED BY <2>1, <3>1, <3>3 DEF Plays, Headed
  <2>2. CASE script = "mvhd"
    <3>1. ip = 1 /\ name = "mvhd"
      BY <1>2, <1>5, <2>2, PlainPlaces DEF Op
    <3>2. Lo(A) = First(A, Moov(A)) /\ Hi(A) = Past(A, Moov(A))
      BY <1>1, <2>2, Depths DEF Lo, Hi, Owner
    <3>3. Kids(A, Moov(A), "mvhd") = {}
      BY <1>4, <3>1, <3>2 DEF Kids
    <3> QED BY <3>3 DEF Plays, Headed, Has
  <2>3. CASE script = "trak" /\ Len(stack) = 3
    <3>1. Lo(A) = First(A, Moov(A)) /\ Hi(A) = Past(A, Moov(A))
      BY <2>3 DEF Lo, Hi, Owner
    <3>2. ip \in 1 .. 33 /\ Rank[ip] = 0
      <4>1. Len(stack) = Rank[ip] + 3 /\ ip \in 1 .. 33
        BY <1>1, <2>3, Depths
      <4>2. Rank[ip] \in 0 .. 6
        BY <4>1, RankNext
      <4> HIDE DEF name
      <4> QED BY <2>3, <4>1, <4>2
    <3>3. ip = 1
      <4>1. ip \in {1, 3, 4, 6, 8, 10, 12, 13, 14, 16, 19, 22, 26, 28, 29, 31}
        BY <1>2, <2>3, <3>2, Kinds DEF Op, Place
      <4> QED BY <3>2, <4>1, Ranks
    <3>4. name = "trak"
      BY <2>3, <3>3, Names DEF Op, Place
    <3>5. \A c \in Traks(A) : Passed(A, c)
      BY <1>4, <3>1, <3>4 DEF Traks, Kids
    <3> QED BY <3>5, NoneLeft
  <2>4. CASE script = "trak" /\ Len(stack) # 3
    <3>1. SUFFICES ASSUME NEW t, t = stack[3].at PROVE ~Plays(A)
      OBVIOUS
    <3>2. /\ TrackSays(A, t) /\ Op = Place(ip) /\ Place(ip).op = "NAME" /\ name # "trak"
          /\ ip \in {3, 4, 6, 8, 10, 12, 13, 14, 16, 19, 22, 26, 28, 29, 31}
          /\ Named(A, name, Lo(A), Hi(A)) = Kids(A, Box(A, t, Rank[ip]), name)
      BY <1>1, <2>4, <3>1, ChildSearch
    <3>3. Kids(A, Box(A, t, Rank[ip]), Place(ip).name) = {}
      BY <1>4, <3>2
    <3>4. ~Met(A, t, ip)
      BY <3>2, <3>3, MetName
    <3>5. Candidate(A, t) /\ Gone(A, t, ip) /\ ip \in 3 .. 32 /\ ip # 9
      BY <3>2 DEF TrackSays
    <3> QED BY <3>4, <3>5, UnmetFails
  <2> QED BY <1>5, <2>1, <2>2, <2>3, <2>4 DEF Scripts
<1> QED BY <1>1, <1>6, FailsSo

LEMMA OpensSearchPast ==
  ASSUME NEW A, NEW end, Before(A, end), SearchPast
  PROVE  Opens(A, end)'
<1> USE DEF Before
<1>1. /\ pc = "search" /\ HeaderReadable /\ Header.name # Op.name /\ fpos' = fpos + Header.size
      /\ UNCHANGED <<pc, script, ip, stack, ret, conf, held, denied>>
  BY DEF SearchPast
<1>2. fpos \in DOMAIN A /\ A[fpos].name # Op.name /\ fpos' = Past(A, fpos)
  BY <1>1 DEF HeaderReadable, Header, Past
<1>3. Op' = Op /\ Top' = Top /\ Lo(A)' = Lo(A) /\ Hi(A)' = Hi(A)
  BY <1>1 DEF Op, Top, Lo, Hi, Owner
<1>4. Searches(A, end)'
  <2>1. /\ Region(A, Op.name, Lo(A), Hi(A), Top.limit)
        /\ Seeking(A, end, Op.name, Lo(A), Hi(A), fpos)
    BY <1>1 DEF Opens, Searches
  <2>2. Seeking(A, end, Op.name, Lo(A), Hi(A), Past(A, fpos))
    BY <1>2, <2>1, SearchGoes
  <2> QED BY <1>2, <1>3, <2>1, <2>2 DEF Searches
<1>5. Heads(A)'
  <2>1. Heads(A)
    BY <1>1 DEF Opens, Live
  <2> QED BY <1>1, <1>3, <2>1 DEF Heads, InTracks
<1>6. OnTrack' => TrackSays(A, stack[3].at)'
  <2>1. OnTrack' => OnTrack
    BY <1>1 DEF OnTrack
  <2> DEFINE t == stack[3].at
  <2>2. t' = t
    BY <1>1
  <2>3. TrackSays(A, t) => TrackSays(A, t)'
    BY <1>1, <1>3, <2>2 DEF TrackSays, Learnt, Descended
  <2> QED BY <2>1, <2>3 DEF Opens
<1>7. Returns(A, end)'
  BY <1>1 DEF Returns
<1>8. Untabled'
  BY <1>1 DEF Opens, Untabled, Live
<1> QED BY <1>4, <1>5, <1>6, <1>7, <1>8 DEF Opens

\* The innermost call changes.
LEMMA TopChanges ==
  ASSUME Fields, stack # <<>>, NEW c \in CallType, stack' = [stack EXCEPT ![Len(stack)] = c]
  PROVE  /\ Len(stack') = Len(stack) /\ Len(stack) \in Nat /\ Len(stack) >= 1
         /\ Top' = c /\ stack'[Len(stack)] = c
         /\ \A k \in 1 .. Len(stack) : k # Len(stack) => stack'[k] = stack[k]
<1>1. Len(stack) \in Nat /\ Len(stack) >= 1
  BY TopTyped
<1>2. /\ Len(stack') = Len(stack) /\ stack'[Len(stack)] = c
      /\ \A i \in 1 .. Len(stack) : i # Len(stack) => stack'[i] = stack[i]
  BY <1>1, ExceptSeq DEF Fields
<1> QED BY <1>1, <1>2 DEF Top, Last

\* A search finds its atom.
LEMMA FoundSays ==
  ASSUME NEW A, NEW end, Before(A, end), SearchFound
  PROVE  /\ pc = "search" /\ Op.op = "NAME" /\ fpos \in DOMAIN A /\ A[fpos].name = Op.name
         /\ fpos' = fpos + 8 /\ ip' = ip + 1 /\ ip \in Nat
         /\ pc' = IF Script[script][ip + 1].op = "DATA" THEN "handle" ELSE "enter"
         /\ UNCHANGED <<script, ret, conf, held, denied>>
         /\ Len(stack') = Len(stack) /\ Len(stack) \in Nat /\ Len(stack) >= 1
         /\ Top'.at = fpos /\ stack'[Len(stack)].at = fpos
         /\ \A k \in 1 .. Len(stack) : k # Len(stack) => stack'[k] = stack[k]
         /\ fpos \in Named(A, Op.name, Lo(A), Hi(A))
         /\ \A c \in Named(A, Op.name, Lo(A), Hi(A)) : c < fpos => Op.name = "trak" /\ Passed(A, c)
         /\ Op.name # "trak" => fpos = Min(Named(A, Op.name, Lo(A), Hi(A)))
<1> USE DEF Before, IInv
<1>1. /\ pc = "search" /\ HeaderReadable /\ Header.name = Op.name
      /\ fpos' = fpos + 8 /\ ip' = ip + 1
      /\ pc' = IF Script[script][ip + 1].op = "DATA" THEN "handle" ELSE "enter"
      /\ UNCHANGED <<script, ret, conf, held, denied>>
      /\ stack' = [stack EXCEPT ![Len(stack)].at = fpos, ![Len(stack)].size = Header.size]
  BY DEF SearchFound
<1>2. /\ fpos \in DOMAIN A /\ A[fpos].name = Op.name /\ fpos < Top.limit - 8 /\ stack # <<>>
      /\ Header.size \in Nat /\ fpos \in Nat /\ Op.op = "NAME" /\ ip \in Nat
  BY <1>1, SizeTyped, Here DEF HeaderReadable, Header, Calls, Pace, Fields
<1>3. /\ Len(stack') = Len(stack) /\ Len(stack) \in Nat /\ Len(stack) >= 1
      /\ Top'.at = fpos /\ stack'[Len(stack)].at = fpos
      /\ \A k \in 1 .. Len(stack) : k # Len(stack) => stack'[k] = stack[k]
  <2> DEFINE c == [Top EXCEPT !.at = fpos, !.size = Header.size]
  <2>1. Top \in CallType /\ Top = stack[Len(stack)] /\ Len(stack) \in 1 .. Len(stack)
    BY <1>2, TopTyped, Popped DEF Fields, Top
  <2>2. c \in CallType /\ c.at = fpos
    BY <1>2, <2>1 DEF CallType
  <2>3. stack' = [stack EXCEPT ![Len(stack)] = c]
    BY <1>1, <1>2, <2>1 DEF CallType, Fields
  <2> HIDE DEF c
  <2> QED BY <1>2, <2>2, <2>3, TopChanges
<1>4. /\ Region(A, Op.name, Lo(A), Hi(A), Top.limit)
      /\ Seeking(A, end, Op.name, Lo(A), Hi(A), fpos)
  BY <1>1 DEF Opens, Searches
<1>5. /\ fpos \in Named(A, Op.name, Lo(A), Hi(A))
      /\ \A c \in Named(A, Op.name, Lo(A), Hi(A)) : c < fpos => Op.name = "trak" /\ Passed(A, c)
  BY <1>2, <1>4, SearchHits
<1>6. Op.name # "trak" => fpos = Min(Named(A, Op.name, Lo(A), Hi(A)))
  BY <1>5, FirstIsMin
<1> QED BY <1>1, <1>2, <1>3, <1>5, <1>6

LEMMA TrackFor ==
  ASSUME NEW A, NEW t, TrackSays(A, t)', stack'[3].at = t
  PROVE  TrackSays(A, stack[3].at)'
  BY DEF TrackSays, Learnt, Descended

\* In the scripts that are not that of a track.
LEMMA OpensFoundPlain ==
  ASSUME NEW A, NEW end, Before(A, end), SearchFound, script # "trak"
  PROVE  Opens(A, end)'
<1> USE DEF Before, IInv
<1>1. /\ pc = "search" /\ Op.op = "NAME" /\ fpos \in Named(A, Op.name, Lo(A), Hi(A))
      /\ pc' = IF Script[script][ip + 1].op = "DATA" THEN "handle" ELSE "enter"
      /\ UNCHANGED <<script, ret, conf, held, denied>> /\ Top'.at = fpos
      /\ Len(stack') = Len(stack) /\ Len(stack) \in Nat
      /\ \A k \in 1 .. Len(stack) : k # Len(stack) => stack'[k] = stack[k]
      /\ Op.name # "trak" => fpos = Min(Named(A, Op.name, Lo(A), Hi(A)))
  BY FoundSays
<1>2. script \in {"head", "moov", "mvhd"} /\ ip = 1
  <2>1. script \in {"head", "moov", "mvhd"} /\ ip \in DOMAIN Script[script]
    BY DEF Fields, Scripts
  <2> QED BY <1>1, <2>1, PlainPlaces DEF Op
<1>3. Heads(A) /\ ~held.table
  BY <1>1, <1>2 DEF Opens, Live, Untabled
<1>4. ~OnTrack' /\ Searches(A, end)' /\ Returns(A, end)' /\ Untabled'
  BY <1>1, <1>3 DEF OnTrack, Searches, Returns, Untabled
<1>5. Heads(A)'
  <2>1. CASE script = "head"
    <3>1. Op.name = "ftyp" /\ Lo(A) = 0 /\ Hi(A) = IntMax
      <4>1. Op.name = "ftyp"
        BY <1>2, <2>1, PlainPlaces DEF Op
      <4>2. Len(stack) = 1
        BY <1>1, <2>1, Depths
      <4> QED BY <4>1, <4>2 DEF Lo, Hi
    <3>2. Roots(A, "ftyp") # {}
      BY <1>1, <3>1 DEF Roots
    <3> QED BY <1>1, <2>1, <3>2 DEF Heads, InTracks
  <2>2. CASE script = "moov"
    <3>1. Op.name = "moov" /\ Lo(A) = 0 /\ Hi(A) = IntMax
      <4>1. Op.name = "moov"
        BY <1>2, <2>2, PlainPlaces DEF Op
      <4>2. Len(stack) = 1
        BY <1>1, <2>2, Depths
      <4> QED BY <4>1, <4>2 DEF Lo, Hi
    <3>2. Roots(A, "moov") # {} /\ fpos = Moov(A)
      BY <1>1, <3>1 DEF Roots, Moov
    <3>3. pc' = "handle"
      BY <1>1, <1>2, <2>2, PlainPlaces
    <3>4. Roots(A, "ftyp") # {}
      BY <1>3, <2>2 DEF Heads
    <3> QED BY <1>1, <2>2, <3>2, <3>3, <3>4 DEF Heads, InTracks
  <2>3. CASE script = "mvhd"
    <3>1. /\ Op.name = "mvhd" /\ Len(stack) = 3
          /\ Lo(A) = First(A, Moov(A)) /\ Hi(A) = Past(A, Moov(A))
      <4>1. Op.name = "mvhd"
        BY <1>2, <2>3, PlainPlaces DEF Op
      <4>2. Len(stack) = 3
        BY <1>1, <2>3, Depths
      <4> QED BY <4>1, <4>2 DEF Lo, Hi, Owner
    <3>2. Kids(A, Moov(A), "mvhd") # {}
      BY <1>1, <3>1 DEF Kids
    <3>3. stack'[2] = stack[2]
      BY <1>1, <3>1
    <3> QED BY <1>1, <1>3, <2>3, <3>2, <3>3 DEF Heads, InTracks
  <2> QED BY <1>2, <2>1, <2>2, <2>3
<1> QED BY <1>4, <1>5 DEF Opens

\* A track is found.
LEMMA OpensFoundTrak ==
  ASSUME NEW A, NEW end, Before(A, end), SearchFound, script = "trak", Len(stack) = 3
  PROVE  Opens(A, end)'
<1> USE DEF Before, IInv
<1>1. /\ pc = "search" /\ Op.op = "NAME" /\ fpos \in DOMAIN A /\ A[fpos].name = Op.name
      /\ fpos' = fpos + 8 /\ ip' = ip + 1
      /\ pc' = IF Script[script][ip + 1].op = "DATA" THEN "handle" ELSE "enter"
      /\ UNCHANGED <<script, ret, conf, held, denied>> /\ Top'.at = fpos
      /\ Len(stack') = 3 /\ stack'[3].at = fpos /\ stack'[2] = stack[2]
      /\ fpos \in Named(A, Op.name, Lo(A), Hi(A))
      /\ \A c \in Named(A, Op.name, Lo(A), Hi(A)) : c < fpos => Op.name = "trak" /\ Passed(A, c)
  <2>1. /\ Len(stack') = Len(stack) /\ stack'[Len(stack)].at = fpos
        /\ \A k \in 1 .. Len(stack) : k # Len(stack) => stack'[k] = stack[k]
    BY FoundSays
  <2>2. Len(stack') = 3 /\ stack'[3].at = fpos /\ stack'[2] = stack[2]
    BY <2>1
  <2> QED BY <2>2, FoundSays
<1>2. ip = 1
  <2>1. Len(stack) = Rank[ip] + 3 /\ ip \in 1 .. 33
    BY <1>1, Depths
  <2>2. Rank[ip] \in 0 .. 6 /\ ip \in {1, 3, 4, 6, 8, 10, 12, 13, 14, 16, 19, 22, 26, 28, 29, 31}
    BY <1>1, <2>1, RankNext, Kinds DEF Op, Place
  <2>3. Rank[ip] = 0
    BY <2>1, <2>2
  <2> QED BY <2>2, <2>3, Ranks
<1>3. /\ Op.name = "trak" /\ Lo(A) = First(A, Moov(A)) /\ Hi(A) = Past(A, Moov(A))
      /\ ip' = 2 /\ pc' = "enter" /\ Op'.op = "DESCENT"
  <2>1. Place(1).name = "trak" /\ Place(2).op = "DESCENT"
    BY Names, Ops
  <2>2. ip' = 2
    BY <1>1, <1>2
  <2> QED BY <1>1, <1>2, <2>1, <2>2 DEF Op, Place, Lo, Hi, Owner
<1>4. Candidate(A, fpos)
  BY <1>1, <1>3 DEF Candidate, Traks, Kids
<1>5. Gone(A, fpos, 2) /\ Learnt(A, fpos, 2)'
  BY DEF Gone, Learnt
<1>6. fpos' = First(A, fpos) /\ A[fpos].name = Boxes[1] /\ Box(A, fpos, 1) = fpos
  <2>1. fpos \in Nat
    BY DEF Fields
  <2> QED BY <1>1, <1>3, <2>1, BoxIs DEF First, Boxes
<1>7. ASSUME NEW t, t = fpos PROVE TrackSays(A, t)'
  <2>1. \A k \in 3 .. Len(stack') : k = Len(stack') /\ k = 3
    BY <1>1
  <2>2. (pc = "enter" /\ Op.op = "DESCENT" =>
          /\ Len(stack) - 2 \in 1 .. 6
          /\ Top.at = Box(A, t, Len(stack) - 2) /\ fpos = First(A, Top.at)
          /\ A[Top.at].name = Boxes[Len(stack) - 2])'
    <3>1. Len(stack') - 2 = 1
      BY <1>1
    <3> QED BY <1>1, <1>3, <1>6, <1>7, <3>1
  <2>3. Candidate(A, t) /\ Gone(A, t, ip') /\ Learnt(A, t, ip)' /\ ip' >= 2
    BY <1>3, <1>4, <1>5, <1>7 DEF Learnt
  <2> QED BY <1>3, <2>1, <2>2, <2>3 DEF TrackSays
<1>8. TrackSays(A, stack[3].at)'
  BY <1>1, <1>7, TrackFor
<1>9. Heads(A)'
  <2>1. Heads(A)
    BY <1>1 DEF Opens, Live
  <2> QED BY <1>1, <1>3, <2>1 DEF Heads, InTracks
<1>10. ~held'.table
  BY <1>1, <1>2 DEF Opens, Untabled, Live
<1>11. Searches(A, end)' /\ Returns(A, end)' /\ Untabled'
  BY <1>1, <1>3, <1>10 DEF Searches, Returns, Untabled
<1> QED BY <1>8, <1>9, <1>11 DEF Opens

\* What lies at a place whose children come next.
LEMMA DescentAt ==
  ASSUME NEW A, NEW t, NEW i \in 3 .. 32, Place(i + 1).op = "DESCENT"
  PROVE  /\ Place(i).op = "NAME" =>
              /\ i \in {4, 10, 14}
              /\ Spot(A, t, i) = Box(A, t, Rank[i] + 1) /\ Place(i).name = Boxes[Rank[i] + 1]
              /\ Place(i).name \in {"mdia", "minf", "stbl"}
         /\ Place(i).op = "DATA" =>
              /\ i \in {17, 20}
              /\ Spot(A, t, i - 1) = Box(A, t, Rank[i] + 1)
              /\ Place(i - 1).name = Boxes[Rank[i] + 1]
              /\ Place(i - 1).name \in {"stsd", "mp4a"}
         /\ Rank[i] + 1 \in 1 .. 6
<1>1. i \in {4, 10, 14, 17, 20}
  <2>1. i + 1 \in {2, 5, 11, 15, 18, 21}
    BY Kinds
  <2> QED BY <2>1
<1>2. /\ \A k \in {4, 10, 14} : Place(k).op = "NAME"
      /\ \A k \in {17, 20} : Place(k).op = "DATA"
  BY Ops
<1>3. /\ Boxes[2] = "mdia" /\ Boxes[3] = "minf" /\ Boxes[4] = "stbl"
      /\ Boxes[5] = "stsd" /\ Boxes[6] = "mp4a"
  BY DEF Boxes
<1>4. Rank[4] = 1 /\ Rank[10] = 2 /\ Rank[14] = 3 /\ Rank[17] = 4 /\ Rank[20] = 5
  BY DEF Rank
<1>5. /\ Spot(A, t, 4) = Box(A, t, 2) /\ Spot(A, t, 10) = Box(A, t, 3)
      /\ Spot(A, t, 14) = Box(A, t, 4) /\ Spot(A, t, 16) = Box(A, t, 5)
      /\ Spot(A, t, 19) = Box(A, t, 6)
  BY BoxesFound
<1>6. /\ Place(4).name = "mdia" /\ Place(10).name = "minf" /\ Place(14).name = "stbl"
      /\ Place(16).name = "stsd" /\ Place(19).name = "mp4a"
  BY Names
<1> QED BY <1>1, <1>2, <1>3, <1>4, <1>5, <1>6

\* A child that the script asks for is found.
LEMMA OpensFoundChild ==
  ASSUME NEW A, NEW end, Before(A, end), SearchFound, script = "trak", Len(stack) # 3
  PROVE  Opens(A, end)'
<1> USE DEF Before, IInv
<1>1. SUFFICES ASSUME NEW t, t = stack[3].at, NEW i, i = ip PROVE Opens(A, end)'
  OBVIOUS
<1>2. /\ pc = "search" /\ Op.op = "NAME" /\ fpos \in DOMAIN A /\ A[fpos].name = Op.name
      /\ fpos' = fpos + 8 /\ ip' = i + 1
      /\ pc' = IF Script[script][i + 1].op = "DATA" THEN "handle" ELSE "enter"
      /\ UNCHANGED <<script, ret, conf, held, denied>>
      /\ Len(stack') = Len(stack) /\ Len(stack) \in Nat
      /\ Top'.at = fpos
      /\ \A k \in 1 .. Len(stack) : k # Len(stack) => stack'[k] = stack[k]
      /\ fpos \in Named(A, Op.name, Lo(A), Hi(A))
      /\ Op.name # "trak" => fpos = Min(Named(A, Op.name, Lo(A), Hi(A)))
  BY <1>1, FoundSays
<1>3. /\ TrackSays(A, t) /\ Op = Place(i) /\ Place(i).op = "NAME" /\ Op.name # "trak"
      /\ i \in {3, 4, 6, 8, 10, 12, 13, 14, 16, 19, 22, 26, 28, 29, 31}
      /\ Len(stack) = Rank[i] + 3 /\ Rank[i] \in 1 .. 6
      /\ Named(A, Op.name, Lo(A), Hi(A)) = Kids(A, Box(A, t, Rank[i]), Op.name)
  BY <1>1, <1>2, ChildSearch
<1>4. stack'[3] = stack[3] /\ stack'[2] = stack[2]
  <2>1. 3 \in 1 .. Len(stack) /\ 2 \in 1 .. Len(stack) /\ 3 # Len(stack) /\ 2 # Len(stack)
    BY <1>2, <1>3
  <2> QED BY <1>2, <2>1
<1>5. Met(A, t, i) /\ fpos = Spot(A, t, i)
  <2>1. Kids(A, Box(A, t, Rank[i]), Place(i).name) # {}
    BY <1>2, <1>3
  <2>2. Met(A, t, i)
    BY <1>3, <2>1, MetName
  <2> QED BY <1>2, <1>3, <2>2 DEF Spot, Kid
<1>6. Gone(A, t, i + 1) /\ Learnt(A, t, i + 1)'
  <2>1. i \in 3 .. 32 /\ i \in 2 .. 32 /\ i \in 1 .. 32 /\ Gone(A, t, i) /\ Learnt(A, t, i)
    BY <1>1, <1>3 DEF TrackSays
  <2>2. Gone(A, t, i + 1)
    BY <1>5, <2>1, GoneNextPlace
  <2>3. Learnt(A, t, i + 1)'
    BY <1>2, <1>3, <2>1, LearntKept
  <2> QED BY <2>2, <2>3
<1>7. Op' = Place(i + 1) /\ pc' \in {"handle", "enter"}
  BY <1>2 DEF Op, Place
<1>8. (pc = "enter" /\ Op.op = "DESCENT" =>
          /\ Len(stack) - 2 \in 1 .. 6
          /\ Top.at = Box(A, t, Len(stack) - 2) /\ fpos = First(A, Top.at)
          /\ A[Top.at].name = Boxes[Len(stack) - 2])'
  <2>1. SUFFICES ASSUME Place(i + 1).op = "DESCENT"
                 PROVE  /\ Len(stack') - 2 \in 1 .. 6
                        /\ Top'.at = Box(A, t, Len(stack') - 2) /\ fpos' = First(A, Top'.at)
                        /\ A[Top'.at].name = Boxes[Len(stack') - 2]
    BY <1>7
  <2>2. i \in 3 .. 32
    BY <1>3
  <2>3. /\ Spot(A, t, i) = Box(A, t, Rank[i] + 1) /\ Place(i).name = Boxes[Rank[i] + 1]
        /\ Place(i).name \in {"mdia", "minf", "stbl"} /\ Rank[i] + 1 \in 1 .. 6
    BY <1>3, <2>1, <2>2, DescentAt
  <2>4. Len(stack') - 2 = Rank[i] + 1
    BY <1>2, <1>3
  <2>5. fpos' = First(A, fpos)
    <3>1. A[fpos].name \notin {"stsd", "mp4a"} /\ fpos \in Nat
      BY <1>2, <1>3, <2>3 DEF Fields
    <3> QED BY <1>2, <3>1 DEF First
  <2> QED BY <1>2, <1>3, <1>5, <2>3, <2>4, <2>5
<1>9. TrackSays(A, t)'
  <2>1. \A k \in 3 .. Len(stack) : k # Len(stack) => Descended(A, t, k)'
    <3>1. SUFFICES ASSUME NEW k \in 3 .. Len(stack), k # Len(stack) PROVE Descended(A, t, k)'
      OBVIOUS
    <3>2. TrackSays(A, t) /\ Len(stack) \in Nat
          /\ \A j \in 1 .. Len(stack) : j # Len(stack) => stack'[j] = stack[j]
      BY <1>2, <1>3
    <3>3. stack'[k] = stack[k]
      BY <3>1, <3>2
    <3>4. Descended(A, t, k)
      BY <3>1, <3>2 DEF TrackSays
    <3> QED BY <3>3, <3>4 DEF Descended
  <2>2. Candidate(A, t) /\ ip' >= 2 /\ Gone(A, t, ip') /\ Learnt(A, t, ip)'
    BY <1>2, <1>3, <1>6 DEF TrackSays, Learnt
  <2>3. Top'.at = Spot(A, t, ip' - 1)
    <3>1. ip' - 1 = i
      BY <1>2, <1>3
    <3> QED BY <1>2, <1>5, <3>1
  <2> QED BY <1>2, <1>7, <1>8, <2>1, <2>2, <2>3 DEF TrackSays
<1>10. TrackSays(A, stack[3].at)'
  BY <1>1, <1>4, <1>9, TrackFor
<1>11. Heads(A)'
  <2>1. Heads(A)
    BY <1>2 DEF Opens, Live
  <2> QED BY <1>2, <1>4, <2>1 DEF Heads, InTracks
<1>12. Untabled'
  BY <1>1, <1>2, <1>3, <1>7 DEF Opens, Untabled, Live
<1>13. Searches(A, end)' /\ Returns(A, end)'
  BY <1>7 DEF Searches, Returns
<1> QED BY <1>10, <1>11, <1>12, <1>13 DEF Opens

\* The handlers of the other scripts.
LEMMA PlainHandled ==
  ASSUME NEW A, NEW end, Before(A, end), pc = "handle", script # "trak"
  PROVE  /\ ip = 2 /\ Len(stack) = 1
         /\ \/ script = "head" /\ Found.name = "ftyp"
            \/ script = "moov" /\ Found.name = "moov"
<1> USE DEF Before, IInv
<1>1. /\ Op.op = "DATA" /\ ip - 1 \in DOMAIN Script[script]
      /\ Script[script][ip - 1].name = Found.name
      /\ script \in Scripts /\ ip \in DOMAIN Script[script]
  BY DEF Pace, Fields
<1>2. script \in {"head", "moov", "mvhd"}
  BY <1>1 DEF Scripts
<1>3. ip = 2 /\ script # "mvhd"
  BY <1>1, <1>2, PlainPlaces DEF Op
<1>4. Script[script][1].name = Found.name
  <2>1. ip - 1 = 1
    BY <1>3
  <2> QED BY <1>1, <2>1
<1> QED BY <1>2, <1>3, <1>4, PlainPlaces, Depths

\* Those within a track.
LEMMA ChildHandled ==
  ASSUME NEW A, NEW end, Before(A, end), pc = "handle", script = "trak",
         NEW t, t = stack[3].at, NEW i, i = ip, NEW o, o = Spot(A, t, i - 1)
  PROVE  /\ TrackSays(A, t) /\ Place(i).op = "DATA" /\ i \in {7, 9, 17, 20, 23, 27, 30, 32}
         /\ Len(stack) = Rank[i] + 3 /\ Rank[i] \in 1 .. 6
         /\ Top.at = o /\ o \in DOMAIN A /\ o \in Nat /\ fpos = o + 8 /\ Top.size = A[o].size
         /\ Found = A[o] /\ A[o].name = Place(i - 1).name /\ A[o].reads = {Body(A, o)}
<1> USE DEF Before, IInv
<1>1. Len(stack) = Rank[ip] + 3 /\ ip \in 1 .. 33 /\ Rank[ip] \in 0 .. 6 /\ Len(stack) \in Nat
  BY Depths, RankNext
<1>2. /\ Op.op = "DATA" /\ stack # <<>> /\ Top.fn = "parse"
      /\ Script[script][ip - 1].name = Found.name
  BY DEF Pace, Calls
<1>3. i \in {7, 9, 17, 20, 23, 27, 30, 32} /\ Place(i).op = "DATA"
  BY <1>1, <1>2, Kinds DEF Op, Place
<1>4. TrackSays(A, t)
  BY <1>1 DEF Opens, OnTrack
<1>5. Top.at = o
  BY <1>4 DEF TrackSays
<1>6. o \in DOMAIN A /\ Top.size = A[o].size /\ o \in Nat /\ fpos = o + 8
  BY <1>2, <1>5, TopPlaced, TopTyped DEF Placed
<1>7. Found = A[o]
  BY <1>5 DEF Found
<1>8. A[o].name = Place(i - 1).name
  BY <1>2, <1>7 DEF Place
<1>9. A[o].reads = {Body(A, o)}
  BY <1>6, WholeValues, Zenon
<1>10. Rank[i] \in 1 .. 6
  <2>1. \A j \in {7, 9, 17, 20, 23, 27, 30, 32} : Rank[j] \in {2, 4, 5, 6}
    BY Ranks
  <2> QED BY <1>3, <2>1
<1> QED BY <1>1, <1>3, <1>4, <1>5, <1>6, <1>7, <1>8, <1>9, <1>10

LEMMA OpensHandleOk ==
  ASSUME NEW A, NEW end, Before(A, end), HandleOk
  PROVE  Opens(A, end)'
<1> USE DEF Before, IInv
<1>1. /\ pc = "handle" /\ Found.name # "moov"
      /\ held' = IF Found.name = "stsz" THEN [held EXCEPT !.table = TRUE] ELSE held
      /\ fpos' = fpos + Consumed(Found.name) /\ ip' = ip + 1 /\ pc' = "enter"
      /\ UNCHANGED <<file, script, stack, ret, denied>>
  BY DEF HandleOk
<1>2. Heads(A)
  BY <1>1 DEF Opens, Live
<1>3. Heads(A)'
  <2>1. script # "moov"
    BY <1>1, PlainHandled
  <2> QED BY <1>1, <1>2, <2>1 DEF Heads, InTracks
<1>4. Searches(A, end)' /\ Returns(A, end)'
  BY <1>1 DEF Searches, Returns
<1>5. CASE script # "trak"
  <2>1. script = "head" /\ Found.name = "ftyp"
    BY <1>1, <1>5, PlainHandled
  <2>2. ~held'.table
    BY <1>1, <2>1 DEF Opens, Untabled, Live
  <2>3. ~OnTrack' /\ Untabled'
    BY <1>1, <2>1, <2>2 DEF OnTrack, Untabled
  <2> QED BY <1>3, <1>4, <2>3 DEF Opens
<1>6. CASE script = "trak"
  <2>1. SUFFICES ASSUME NEW t, t = stack[3].at, NEW i, i = ip, NEW o, o = Spot(A, t, i - 1)
                 PROVE  Opens(A, end)'
    OBVIOUS
  <2>2. /\ TrackSays(A, t) /\ Place(i).op = "DATA" /\ i \in {7, 9, 17, 20, 23, 27, 30, 32}
        /\ Len(stack) = Rank[i] + 3 /\ Rank[i] \in 1 .. 6
        /\ Top.at = o /\ o \in DOMAIN A /\ o \in Nat /\ fpos = o + 8 /\ Top.size = A[o].size
        /\ Found = A[o] /\ A[o].name = Place(i - 1).name /\ A[o].reads = {Body(A, o)}
    BY <1>1, <1>6, <2>1, ChildHandled
  <2>3. /\ ~Refused(A[o].name, A[o].size - 8, Body(A, o)) /\ ~Unsupported(A[o].name, Body(A, o))
        /\ conf' = Configured(A[o].name, Body(A, o))
    <3>1. PICK b \in Found.reads :
            /\ ~Refused(Found.name, Found.size - 8, b) /\ ~Unsupported(Found.name, b)
            /\ conf' = Configured(Found.name, b)
      BY DEF HandleOk
    <3>2. b = Body(A, o)
      BY <2>2, <3>1
    <3> QED BY <2>2, <3>1, <3>2
  <2>4. Met(A, t, i)
    BY <2>1, <2>2, <2>3, MetData
  <2>5. i \in 3 .. 32 /\ i \in 2 .. 32 /\ Gone(A, t, i) /\ Learnt(A, t, i) /\ Candidate(A, t)
    BY <2>1, <2>2 DEF TrackSays
  <2>6. Gone(A, t, i + 1)
    BY <2>4, <2>5, GoneNextPlace
  <2>7. Learnt(A, t, i + 1)'
    <3>1. conf' = Configured(Place(i - 1).name, Body(A, Spot(A, t, i - 1)))
      BY <2>1, <2>2, <2>3
    <3> QED BY <2>2, <2>5, <3>1, LearntNext
  <2>8. ip' = i + 1 /\ Op' = Place(i + 1) /\ Top' = Top
    BY <1>1, <1>6, <2>1 DEF Op, Place, Top
  <2>9. (pc = "enter" /\ Op.op = "DESCENT" =>
            /\ Len(stack) - 2 \in 1 .. 6
            /\ Top.at = Box(A, t, Len(stack) - 2) /\ fpos = First(A, Top.at)
            /\ A[Top.at].name = Boxes[Len(stack) - 2])'
    <3>1. SUFFICES ASSUME Place(i + 1).op = "DESCENT"
                   PROVE  /\ Len(stack) - 2 \in 1 .. 6
                          /\ o = Box(A, t, Len(stack) - 2) /\ fpos' = First(A, o)
                          /\ A[o].name = Boxes[Len(stack) - 2]
      BY <1>1, <2>2, <2>8
    <3>2. /\ o = Box(A, t, Rank[i] + 1) /\ Place(i - 1).name = Boxes[Rank[i] + 1]
          /\ Place(i - 1).name \in {"stsd", "mp4a"} /\ Rank[i] + 1 \in 1 .. 6
      <4>1. i \in 3 .. 32 /\ Place(i).op = "DATA" /\ o = Spot(A, t, i - 1)
        BY <2>1, <2>2, <2>5
      <4> QED BY <3>1, <4>1, DescentAt
    <3>3. Len(stack) - 2 = Rank[i] + 1
      BY <2>2
    <3>4. fpos' = First(A, o)
      BY <1>1, <2>2, <3>2 DEF First, Consumed
    <3> QED BY <2>2, <3>2, <3>3, <3>4
  <2>10. TrackSays(A, t)'
    <3>1. \A k \in 3 .. Len(stack) : k # Len(stack) => Descended(A, t, k)'
      <4>1. \A k \in 3 .. Len(stack) : k # Len(stack) => Descended(A, t, k)
        BY <2>2 DEF TrackSays
      <4> QED BY <1>1, <4>1 DEF Descended
    <3>2. Candidate(A, t) /\ ip' >= 2 /\ Gone(A, t, ip') /\ Learnt(A, t, ip)'
      BY <2>5, <2>6, <2>7, <2>8 DEF Learnt
    <3> QED BY <1>1, <2>9, <3>1, <3>2 DEF TrackSays
  <2>11. TrackSays(A, stack[3].at)'
    BY <1>1, <2>1, <2>10, TrackFor
  <2>12. Untabled'
    <3>1. ASSUME ip' <= 30 PROVE ~held'.table
      <4>1. i < 30
        BY <2>5, <2>8, <3>1
      <4>2. ~held.table
        BY <1>1, <1>6, <2>1, <4>1, <2>5 DEF Opens, Untabled, Live
      <4>3. Found.name # "stsz"
        <5>1. i \in {7, 9, 17, 20, 23, 27}
          BY <2>2, <4>1
        <5> QED BY <2>2, <5>1, Names
      <4> QED BY <1>1, <4>2, <4>3
    <3> QED BY <1>1, <1>6, <3>1 DEF Untabled
  <2> QED BY <1>3, <1>4, <2>11, <2>12 DEF Opens
<1> QED BY <1>5, <1>6

\* No memory for the table, or a handler that does not accept what it reads.
LEMMA OpensHandleRefused ==
  ASSUME NEW A, NEW end, Before(A, end), HandleRefused \/ HandleNoMemory
  PROVE  Opens(A, end)'
<1> USE DEF Before, IInv
<1>1. CASE HandleNoMemory
  BY <1>1, FailsSo DEF HandleNoMemory, Give
<1>2. CASE HandleRefused
  <2>1. PICK b \in Found.reads :
          /\ \/ Refused(Found.name, Found.size - 8, b) /\ Give("fail")
             \/ Unsupported(Found.name, b) /\ Give("unsupported")
          /\ held' = IF Found.name = "stsz" /\ Countable(b)
                     THEN [held EXCEPT !.table = TRUE] ELSE held
    BY <1>2 DEF HandleRefused
  <2>2. /\ pc = "handle" /\ Found.name # "moov" /\ fpos' = Top.at + Top.size
        /\ held' \in {held, IF Found.name = "stsz" THEN [held EXCEPT !.table = TRUE] ELSE held}
        /\ UNCHANGED <<file, script, ip, conf, denied>>
    BY <1>2 DEF HandleRefused
  <2>3. script = "trak"
    <3>1. Found.name # "ftyp"
      BY <2>1 DEF Refused, Unsupported
    <3> QED BY <2>2, <3>1, PlainHandled
  <2>4. SUFFICES ASSUME NEW t, t = stack[3].at, NEW i, i = ip, NEW o, o = Spot(A, t, i - 1)
                 PROVE  Opens(A, end)'
    OBVIOUS
  <2>5. /\ TrackSays(A, t) /\ Place(i).op = "DATA" /\ i \in {7, 9, 17, 20, 23, 27, 30, 32}
        /\ Len(stack) = Rank[i] + 3 /\ Rank[i] \in 1 .. 6
        /\ Top.at = o /\ o \in DOMAIN A /\ o \in Nat /\ fpos = o + 8 /\ Top.size = A[o].size
        /\ Found = A[o] /\ A[o].name = Place(i - 1).name /\ A[o].reads = {Body(A, o)}
    BY <2>2, <2>3, <2>4, ChildHandled
  <2>6. b = Body(A, o)
    BY <2>1, <2>5
  <2>7. i \in 3 .. 32 /\ Gone(A, t, i) /\ Candidate(A, t)
    BY <2>4, <2>5 DEF TrackSays
  <2>8. ~Met(A, t, i)
    <3>1. Refused(A[o].name, A[o].size - 8, Body(A, o)) \/ Unsupported(A[o].name, Body(A, o))
      BY <2>1, <2>5, <2>6
    <3> QED BY <2>4, <2>5, <3>1, MetData
  <2>9. CASE Refused(Found.name, Found.size - 8, b) /\ Give("fail")
    <3>1. i # 9
      <4>1. ASSUME i = 9 PROVE FALSE
        <5>1. Found.name = "hdlr"
          <6>1. i - 1 = 8
            BY <4>1
          <6> QED BY <2>5, <6>1, Names
        <5> QED BY <2>9, <5>1 DEF Refused
      <4> QED BY <4>1
    <3>2. ~Plays(A)
      BY <2>7, <2>8, <3>1, UnmetFails
    <3> QED BY <2>9, <3>2, FailsSo DEF Give
  <2>10. CASE Unsupported(Found.name, b) /\ Give("unsupported")
    <3>1. Found.name = "hdlr"
      BY <2>10 DEF Unsupported
    <3>2. i = 9
      <4>1. \A j \in {7, 17, 20, 23, 27, 30, 32} : Place(j - 1).name # "hdlr"
        BY Names
      <4> QED BY <2>5, <3>1, <4>1
    <3>3. Passed(A, t) /\ o = Hdlr(A, t)
      <4>1. \A j \in {3, 4, 6, 8} : Met(A, t, j)
        BY <2>7, <3>2 DEF Gone
      <4>2. o = Hdlr(A, t)
        BY <2>4, <3>2, Spots
      <4> QED BY <2>8, <3>2, <4>1, <4>2, PassedIsUnmet
    <3>4. Heads(A) /\ Roots(A, "moov") # {} /\ ~held.table
      <4>1. Heads(A)
        BY <2>2 DEF Opens, Live
      <4>2. ~held.table
        BY <2>2, <2>3, <2>4, <3>2 DEF Opens, Live, Untabled
      <4> QED BY <2>3, <4>1, <4>2 DEF Heads, InTracks
    <3>5. fpos' = Past(A, Hdlr(A, t))
      BY <2>2, <2>5, <3>3 DEF Past
    <3>6. /\ Seeking(A, end, "trak", First(A, Moov(A)), Past(A, Moov(A)), fpos')
          /\ fpos' <= Past(A, Moov(A))
      BY <2>7, <3>3, <3>4, <3>5, PassedOver
    <3>7. /\ pc' = "return" /\ ret' = "unsupported" /\ Len(stack') >= 2 /\ stack'[2] = stack[2]
      <4>1. /\ pc' = "return" /\ ret' = "unsupported" /\ Len(stack') = Len(stack) - 1
            /\ \A k \in 1 .. Len(stack) - 1 : stack'[k] = stack[k]
        BY <2>2, <2>10, GiveSays DEF Calls
      <4>2. Len(stack) >= 4 /\ Len(stack) \in Nat
        BY <2>5
      <4> QED BY <4>1, <4>2
    <3>8. Resumes(A, end)'
      <4>1. InTracks' /\ ip' = 9
        BY <2>2, <2>3, <2>4, <3>2 DEF InTracks
      <4>2. \E u \in Traks(A) : Past(A, Hdlr(A, u)) = fpos'
        BY <2>7, <3>5 DEF Candidate
      <4> QED BY <3>6, <4>1, <4>2 DEF Resumes
    <3>9. Heads(A)'
      BY <2>2, <2>3, <3>4, <3>7 DEF Heads, InTracks
    <3>10. ~held'.table
      BY <2>2, <3>1, <3>4
    <3>11. Returns(A, end)' /\ Untabled' /\ Searches(A, end)' /\ ~OnTrack'
      BY <2>2, <2>3, <3>7, <3>8, <3>10 DEF Returns, Untabled, Searches, OnTrack
    <3> QED BY <3>9, <3>11 DEF Opens
  <2> QED BY <2>1, <2>9, <2>10
<1> QED BY <1>1, <1>2

\* A search among the children of the moov atom, which is parsed by the second call.
LEMMA MoovSearch ==
  ASSUME NEW A, NEW end, Whole(A, end), Roots(A, "moov") # {}, NEW name \in {"mvhd", "trak"},
         Len(stack') = 3, pc' = "search", Op'.name = name,
         Top'.limit = First(A, Moov(A)) + (A[Moov(A)].size - 8),
         Seeking(A, end, name, First(A, Moov(A)), Past(A, Moov(A)), fpos')
  PROVE  Searches(A, end)'
<1> DEFINE m == Moov(A)
<1>1. m \in DOMAIN A /\ A[m].name = "moov"
  BY MoovSays
<1> HIDE DEF m
<1>2. Region(A, name, First(A, m), Past(A, m), First(A, m) + (A[m].size - 8))
  <2>1. A[m].name \in BoxNames /\ name \in Wanted /\ A[m].name # "mp4a"
    BY <1>1 DEF BoxNames, Wanted
  <2>2. A[m].name # "moov" => name # "trak"
    BY <1>1
  <2>3. A[m].name = "mp4a" => name = "esds"
    BY <1>1
  <2> QED BY <1>1, <2>1, <2>2, <2>3, BoxRegion
<1>3. Lo(A)' = First(A, Moov(A)) /\ Hi(A)' = Past(A, Moov(A))
  BY DEF Lo, Hi, Owner
<1> QED BY <1>2, <1>3 DEF Searches, m

LEMMA OpensHandleMoov ==
  ASSUME NEW A, NEW end, Before(A, end), HandleMoov
  PROVE  Opens(A, end)'
<1> USE DEF Before, IInv
<1> DEFINE m == Moov(A)
           c == MoovinCall(fpos, Found.size - 8)
           calls == Append(stack, c)
<1>1. /\ pc = "handle" /\ Found.name = "moov" /\ Call(calls, fpos, Found.size - 8)
      /\ script' = "mvhd" /\ ip' = 1 /\ UNCHANGED <<file, ret, conf, held, denied>>
  BY DEF HandleMoov
<1>2. script = "moov" /\ Len(stack) = 1
  <2>1. script \in {"head", "moov", "mvhd", "trak"}
    BY DEF Fields, Scripts
  <2>2. script # "trak"
    <3>1. SUFFICES ASSUME script = "trak", NEW i, i = ip, NEW t, t = stack[3].at,
                          NEW o, o = Spot(A, t, i - 1) PROVE FALSE
      OBVIOUS
    <3>2. Found = A[o] /\ A[o].name = Place(i - 1).name /\ i \in {7, 9, 17, 20, 23, 27, 30, 32}
      BY <1>1, <3>1, ChildHandled
    <3> QED BY <1>1, <3>2, Names
  <2> QED BY <1>1, <2>2, PlainHandled
<1>3. Heads(A) /\ ~held.table /\ Roots(A, "ftyp") # {} /\ Roots(A, "moov") # {} /\ Top.at = m
  BY <1>1, <1>2 DEF Opens, Untabled, Live, Heads
<1>4. /\ m \in DOMAIN A /\ m \in Nat /\ First(A, m) = m + 8 /\ First(A, m) \in Nat
      /\ Past(A, m) \in Nat /\ A[m].size \in Nat /\ A[m].name = "moov"
  BY <1>3, MoovSays
<1> HIDE DEF m
<1>5. fpos = First(A, m) /\ Found.size = A[m].size /\ Found.size >= 8
  BY <1>1, <1>3, <1>4 DEF Placed, Found, Pace
<1>6. c \in CallType /\ c.at = First(A, m) /\ c.size = A[m].size - 8
  <2>1. Found.size \in Nat /\ Found.size >= 8 /\ fpos \in Nat /\ script \in Scripts /\ ip \in Nat
    BY <1>1, Here DEF Pace, Fields
  <2> QED BY <1>5, <2>1 DEF MoovinCall, CallType
<1> HIDE DEF c
<1>7. calls \in Seq(CallType) /\ Len(calls) = 2 /\ calls[2] = c
  <2>1. calls \in Seq(CallType) /\ Len(calls) = Len(stack) + 1 /\ calls[Len(stack) + 1] = c
    BY <1>6, Pushed DEF Fields
  <2> HIDE DEF calls
  <2> QED BY <1>2, <2>1
<1> HIDE DEF calls
<1>8. /\ pc' = "search" /\ fpos' = First(A, m) /\ Len(stack') = 3 /\ stack'[2] = c
      /\ Top'.limit = First(A, m) + (A[m].size - 8)
  <2> DEFINE max == Found.size - 8
  <2>1. Call(calls, fpos, max) /\ max = A[m].size - 8
    BY <1>1, <1>5
  <2> HIDE DEF max
  <2>2. /\ pc' = "search" /\ fpos' = fpos /\ Len(stack') = Len(calls) + 1
        /\ Top'.limit = fpos + max
        /\ \A k \in 1 .. Len(calls) : stack'[k] = calls[k]
    BY <1>7, <2>1, CallSays
  <2> QED BY <1>5, <1>7, <2>1, <2>2
<1>9. Op'.name = "mvhd"
  BY <1>1, PlainPlaces DEF Op
<1>10. Seeking(A, end, "mvhd", First(A, m), Past(A, m), First(A, m))
  <2>1. First(A, m) \in DOMAIN A \/ First(A, m) = end
    BY <1>4, WholeKinds DEF BoxNames
  <2> QED BY <1>4, <2>1, SearchStarts
<1>11. Searches(A, end)'
  BY <1>3, <1>8, <1>9, <1>10, MoovSearch DEF m
<1>12. Heads(A)'
  BY <1>1, <1>3, <1>6, <1>8 DEF Heads, InTracks, m
<1>13. ~OnTrack' /\ Returns(A, end)' /\ Untabled'
  BY <1>1, <1>3, <1>8 DEF OnTrack, Returns, Untabled
<1> QED BY <1>11, <1>12, <1>13 DEF Opens

\* What moovin is called with.
LEMMA MoovinHere ==
  ASSUME NEW A, NEW end, Before(A, end), stack # <<>>, Top.fn = "moovin", Live
  PROVE  /\ Heads(A) /\ InTracks /\ Len(stack) = 2 /\ Top = stack[2]
         /\ Roots(A, "ftyp") # {} /\ Roots(A, "moov") # {}
         /\ script = "trak" \/ pc # "search" => Kids(A, Moov(A), "mvhd") # {}
         /\ Top.at = First(A, Moov(A)) /\ Top.size = A[Moov(A)].size - 8
         /\ Top.at + Top.size = Past(A, Moov(A))
<1> USE DEF Before
<1>1. InTracks /\ Len(stack) = 2
  BY Moovin
<1>2. Top = stack[2]
  BY <1>1, TopTyped DEF IInv
<1>3. Heads(A)
  BY DEF Opens
<1>4. /\ Roots(A, "ftyp") # {} /\ Roots(A, "moov") # {}
      /\ Top.at = First(A, Moov(A)) /\ Top.size = A[Moov(A)].size - 8
      /\ script = "trak" \/ pc # "search" => Kids(A, Moov(A), "mvhd") # {}
  BY <1>1, <1>2, <1>3 DEF Heads, InTracks
<1>5. Past(A, Moov(A)) = First(A, Moov(A)) + (A[Moov(A)].size - 8)
  BY <1>4, MoovSays
<1> QED BY <1>1, <1>2, <1>3, <1>4, <1>5

LEMMA OpensNextTrack ==
  ASSUME NEW A, NEW end, Before(A, end), NextTrack
  PROVE  Opens(A, end)'
<1> USE DEF Before, IInv
<1> DEFINE left == Top.at + Top.size - fpos
<1>1. /\ pc = "tracks" /\ Call(stack, fpos, left) /\ script' = "trak" /\ ip' = 1
      /\ UNCHANGED <<file, ret, conf, held, denied>>
  BY DEF NextTrack
<1>2. stack # <<>> /\ Top.fn = "moovin" /\ Live
  BY <1>1 DEF Calls, Live
<1>3. /\ Len(stack) = 2 /\ Roots(A, "ftyp") # {} /\ Roots(A, "moov") # {}
      /\ Kids(A, Moov(A), "mvhd") # {} /\ Top = stack[2]
      /\ Top.at = First(A, Moov(A)) /\ Top.size = A[Moov(A)].size - 8
  BY <1>1, <1>2, MoovinHere
<1>4. Resumes(A, end)
  BY <1>1 DEF Opens, Returns
<1>5. Top.at \in Nat /\ Top.size \in Nat /\ fpos \in Nat
  BY <1>2, TopTyped DEF Fields
<1>6. fpos + left = Top.at + Top.size
  BY <1>5
<1> HIDE DEF left
<1>7. /\ pc' = "search" /\ fpos' = fpos /\ Len(stack') = 3 /\ stack'[2] = stack[2]
      /\ Top'.limit = First(A, Moov(A)) + (A[Moov(A)].size - 8)
  <2>1. stack \in Seq(CallType)
    BY DEF Fields
  <2>2. /\ pc' = "search" /\ fpos' = fpos /\ Len(stack') = Len(stack) + 1
        /\ Top'.limit = fpos + left
        /\ \A k \in 1 .. Len(stack) : stack'[k] = stack[k]
    BY <1>1, <2>1, CallSays
  <2> QED BY <1>3, <1>6, <2>2
<1>8. Op'.name = "trak"
  BY <1>1, Names DEF Op, Place
<1>9. Searches(A, end)'
  <2>1. Seeking(A, end, "trak", First(A, Moov(A)), Past(A, Moov(A)), fpos')
    BY <1>4, <1>7 DEF Resumes
  <2> QED BY <1>3, <1>7, <1>8, <2>1, MoovSearch
<1>10. Heads(A)'
  BY <1>1, <1>3, <1>7 DEF Heads, InTracks
<1>11. ~held.table
  <2>1. script \in {"mvhd", "trak"} /\ (script = "trak" => ip = 9)
    BY <1>4 DEF Resumes, InTracks
  <2> QED BY <1>2, <2>1 DEF Opens, Untabled
<1>12. ~OnTrack' /\ Returns(A, end)' /\ Untabled'
  BY <1>1, <1>7, <1>11 DEF OnTrack, Returns, Untabled
<1> QED BY <1>9, <1>10, <1>12 DEF Opens

\* moovin returns ERR_OK.
LEMMA OpensMoovinOk ==
  ASSUME NEW A, NEW end, Before(A, end), stack # <<>>, Top.fn = "moovin", Live, Success(A), MoovinOk
  PROVE  Opens(A, end)'
<1> USE DEF Before
<1>1. Top.back = <<"moov", 2>>
  BY Moovin
<1>2. /\ script' = "moov" /\ ip' = 3 /\ pc' = "enter" /\ UNCHANGED <<conf, held, denied>>
  BY <1>1 DEF MoovinOk
<1>3. Roots(A, "ftyp") # {}
  BY MoovinHere
<1>4. Success(A)'
  BY <1>2 DEF Success
<1>5. Heads(A)'
  BY <1>2, <1>3, <1>4 DEF Heads, InTracks
<1>6. ~OnTrack' /\ Returns(A, end)' /\ Untabled' /\ Searches(A, end)'
  BY <1>2 DEF OnTrack, Returns, Untabled, Searches
<1> QED BY <1>5, <1>6 DEF Opens

LEMMA OpensTracksEnd ==
  ASSUME NEW A, NEW end, Before(A, end), TracksEnd
  PROVE  Opens(A, end)'
<1> USE DEF Before, IInv
<1>1. pc = "tracks" /\ Top.at + Top.size - fpos \in 0 .. 7 /\ MoovinOk
  BY DEF TracksEnd
<1>2. stack # <<>> /\ Top.fn = "moovin" /\ Live
  BY <1>1 DEF Calls, Live
<1>3. /\ Roots(A, "ftyp") # {} /\ Roots(A, "moov") # {} /\ Kids(A, Moov(A), "mvhd") # {}
      /\ Top.at + Top.size = Past(A, Moov(A))
  BY <1>1, <1>2, MoovinHere
<1>4. Resumes(A, end)
  BY <1>1 DEF Opens, Returns
<1>5. ASSUME NEW p, p = fpos PROVE EndsWithHandler(A)
  <2>1. /\ Seeking(A, end, "trak", First(A, Moov(A)), Past(A, Moov(A)), p)
        /\ p <= Past(A, Moov(A))
    BY <1>4, <1>5 DEF Resumes
  <2>2. p = First(A, Moov(A)) \/ \E t \in Traks(A) : Past(A, Hdlr(A, t)) = p
    BY <1>4, <1>5 DEF Resumes
  <2>3. Past(A, Moov(A)) - p \in 0 .. 7
    <3> DEFINE e == Past(A, Moov(A))
    <3>1. Top.at + Top.size = e /\ Top.at + Top.size - p \in 0 .. 7
      BY <1>1, <1>3, <1>5
    <3>2. Top.at \in Nat /\ Top.size \in Nat /\ p \in Nat
      BY <1>2, <1>5, TopTyped DEF Fields
    <3> HIDE DEF e
    <3>3. e - p \in 0 .. 7
      BY <3>1, <3>2
    <3> QED BY <3>3 DEF e
  <2> QED BY <1>3, <2>1, <2>2, <2>3, TracksOver
<1>6. ~held.table
  <2>1. script \in {"mvhd", "trak"} /\ (script = "trak" => ip = 9)
    BY <1>4 DEF Resumes, InTracks
  <2> QED BY <1>2, <2>1 DEF Opens, Untabled
<1>7. Success(A)
  BY <1>5, <1>6 DEF Success
<1> QED BY <1>1, <1>2, <1>7, OpensMoovinOk

LEMMA OpensReturnToMoovin ==
  ASSUME NEW A, NEW end, Before(A, end), ReturnToMoovin
  PROVE  Opens(A, end)'
<1> USE DEF Before, IInv
<1>1. pc = "return" /\ stack # <<>> /\ Top.fn = "moovin"
  BY DEF ReturnToMoovin
<1>2. Len(stack) = 2 /\ InTracks
  BY <1>1, Moovin
<1>3. CASE /\ script = "mvhd" /\ ret = "ok" /\ fpos' = Top.at /\ pc' = "tracks"
           /\ UNCHANGED <<file, script, ip, stack, ret, conf, held, denied>>
  <2>1. Live
    BY <1>1, <1>3 DEF Live
  <2>2. /\ Heads(A) /\ Roots(A, "ftyp") # {} /\ Roots(A, "moov") # {}
        /\ Kids(A, Moov(A), "mvhd") # {} /\ Top.at = First(A, Moov(A))
    BY <1>1, <1>3, <2>1, MoovinHere
  <2>3. /\ Seeking(A, end, "trak", First(A, Moov(A)), Past(A, Moov(A)), First(A, Moov(A)))
        /\ First(A, Moov(A)) <= Past(A, Moov(A))
    <3> DEFINE m == Moov(A)
    <3>1. m \in DOMAIN A /\ A[m].name = "moov" /\ First(A, m) \in Nat /\ Past(A, m) \in Nat
          /\ First(A, m) <= Past(A, m)
      BY <2>2, MoovSays
    <3> HIDE DEF m
    <3>2. First(A, m) \in DOMAIN A \/ First(A, m) = end
      BY <3>1, WholeKinds DEF BoxNames
    <3>3. Seeking(A, end, "trak", First(A, m), Past(A, m), First(A, m))
      BY <3>1, <3>2, SearchStarts
    <3> QED BY <3>1, <3>3 DEF m
  <2>4. Resumes(A, end)'
    BY <1>2, <1>3, <2>2, <2>3 DEF Resumes, InTracks
  <2>5. Heads(A)'
    BY <1>3, <2>2 DEF Heads, InTracks
  <2>6. ~held.table
    BY <1>3, <2>1 DEF Opens, Untabled
  <2> QED BY <1>3, <2>4, <2>5, <2>6 DEF Opens, Returns, Untabled, OnTrack, Searches
<1>4. CASE /\ script = "trak" /\ ret = "unsupported" /\ pc' = "tracks"
           /\ UNCHANGED <<file, fpos, script, ip, stack, ret, conf, held, denied>>
  <2>1. Live /\ Resumes(A, end)
    BY <1>1, <1>4 DEF Live, Opens, Returns
  <2>2. Heads(A) /\ ~held.table
    BY <1>4, <2>1 DEF Opens, Untabled, Resumes
  <2>3. Resumes(A, end)'
    BY <1>4, <2>1 DEF Resumes, InTracks
  <2>4. Heads(A)'
    BY <1>1, <1>4, <2>2 DEF Heads, InTracks
  <2> QED BY <1>4, <2>2, <2>3, <2>4 DEF Opens, Returns, Untabled, OnTrack, Searches
<1>5. CASE script = "trak" /\ ret = "ok" /\ MoovinOk
  <2>1. Live /\ Success(A)
    BY <1>1, <1>2, <1>5 DEF Live, Opens, Returns
  <2> QED BY <1>1, <1>5, <2>1, OpensMoovinOk
<1>6. CASE /\ MoovinFails
           /\ \/ script = "trak" /\ ret = "fail"
              \/ script = "mvhd" /\ ret # "ok"
  <2>1. ret = "fail"
    <3>1. ret \in {"none", "ok", "fail", "unsupported"}
      BY DEF Fields
    <3>2. ret # "none" /\ (ret = "unsupported" => script = "trak")
      BY <1>1 DEF Opens, Returns
    <3> QED BY <1>6, <3>1, <3>2
  <2>2. Failure(A)
    BY <1>1, <2>1 DEF Opens, Returns
  <2> QED BY <1>6, <2>2, FailsSo DEF MoovinFails, Failure
<1> QED BY <1>3, <1>4, <1>5, <1>6 DEF ReturnToMoovin

\* What is known of a track whose atom is entered, or whose children are parsed.
LEMMA TrackHere ==
  ASSUME NEW A, NEW end, Before(A, end), script = "trak",
         pc \in {"enter", "kids"}, Len(stack) >= 3, NEW t, t = stack[3].at, NEW i, i = ip
  PROVE  /\ i \in 1 .. 33 /\ Op = Place(i) /\ TrackSays(A, t) /\ Heads(A) /\ Len(stack) \in Nat
         /\ Gone(A, t, i) /\ Learnt(A, t, i) /\ Candidate(A, t) /\ i >= 2
<1> USE DEF Before, IInv
<1>1. i \in 1 .. 33 /\ Len(stack) \in Nat /\ Op = Place(i)
  BY Depths DEF Op, Place
<1>2. TrackSays(A, t) /\ Heads(A)
  BY DEF Opens, OnTrack, Live
<1>3. Gone(A, t, i) /\ Learnt(A, t, i) /\ Candidate(A, t) /\ i >= 2
  BY <1>2 DEF TrackSays
<1> QED BY <1>1, <1>2, <1>3

\* The script goes on without a handler.
LEMMA GoesOn ==
  ASSUME NEW A, NEW t, NEW i \in 2 .. 32, Place(i).op \notin {"NAME", "DATA"},
         Gone(A, t, i), Learnt(A, t, i), UNCHANGED conf
  PROVE  Gone(A, t, i + 1) /\ Learnt(A, t, i + 1)'
<1>1. Met(A, t, i)
  BY MetElse
<1>2. Gone(A, t, i + 1)
  BY <1>1, GoneNextPlace
<1>3. Learnt(A, t, i + 1)'
  <2>1. i \in 1 .. 32 /\ Place(i).op # "DATA"
    OBVIOUS
  <2> QED BY <2>1, LearntKept
<1> QED BY <1>2, <1>3

LEMMA OpensEnter ==
  ASSUME NEW A, NEW end, Before(A, end), Enter
  PROVE  Opens(A, end)'
<1> USE DEF Before, IInv
<1> DEFINE n == Len(stack)
           c == [stack[n] EXCEPT !.kids = fpos]
<1>1. /\ pc = "enter" /\ Op.op = "DESCENT" /\ ip' = ip + 1 /\ pc' = "kids"
      /\ stack' = [stack EXCEPT ![n].kids = fpos]
      /\ UNCHANGED <<file, fpos, script, ret, conf, held, denied>>
  BY DEF Enter
<1>2. script = "trak"
  <2>1. script \in {"head", "moov", "mvhd", "trak"} /\ ip \in DOMAIN Script[script]
    BY DEF Fields, Scripts
  <2> QED BY <1>1, <2>1, PlainPlaces DEF Op
<1>3. n = Rank[ip] + 3 /\ ip \in 1 .. 33 /\ Rank[ip] \in 0 .. 6 /\ n \in Nat /\ n >= 3
  <2>1. Len(stack) = Rank[ip] + 3 /\ ip \in 1 .. 33 /\ Len(stack) \in Nat
    BY <1>1, <1>2, Depths
  <2>2. Rank[ip] \in 0 .. 6
    BY <2>1, RankNext
  <2> QED BY <2>1, <2>2
<1>4. stack # <<>> /\ Top = stack[n] /\ fpos \in Nat /\ stack[n] \in CallType
  <2>1. stack # <<>> /\ Top = stack[n] /\ fpos \in Nat
    BY <1>1, TopTyped DEF Calls, Fields
  <2> QED BY <1>3, <2>1, ElementOfSeq DEF Fields
<1>5. c \in CallType /\ c.at = stack[n].at /\ c.size = stack[n].size /\ c.kids = fpos
  BY <1>4 DEF CallType
<1>6. stack' = [stack EXCEPT ![n] = c]
  BY <1>1, <1>3, <1>4 DEF CallType, Fields
<1> HIDE DEF c
<1>7. /\ Len(stack') = n /\ stack'[n] = c
      /\ \A k \in 1 .. n : k # n => stack'[k] = stack[k]
  BY <1>4, <1>5, <1>6, TopChanges
<1> SUFFICES ASSUME NEW t, t = stack[3].at, NEW i, i = ip PROVE Opens(A, end)'
  OBVIOUS
<1>8. /\ i \in 1 .. 33 /\ Op = Place(i) /\ TrackSays(A, t) /\ Heads(A)
      /\ Gone(A, t, i) /\ Learnt(A, t, i) /\ Candidate(A, t) /\ i >= 2
  BY <1>1, <1>2, <1>3, TrackHere
<1>9. i \in {2, 5, 11, 15, 18, 21}
  BY <1>1, <1>8, Kinds
<1>10. Gone(A, t, i + 1) /\ Learnt(A, t, i + 1)'
  <2>1. i \in 2 .. 32 /\ Place(i).op \notin {"NAME", "DATA"}
    BY <1>1, <1>8, <1>9
  <2> QED BY <1>1, <1>8, <2>1, GoesOn
<1>11. stack'[3].at = t
  BY <1>3, <1>5, <1>7
<1>12. \A k \in 3 .. n : Descended(A, t, k)'
  <2>1. SUFFICES ASSUME NEW k \in 3 .. n PROVE Descended(A, t, k)'
    OBVIOUS
  <2>2. CASE k # n
    <3>1. Descended(A, t, k)
      BY <1>8, <2>2 DEF TrackSays
    <3>2. stack'[k] = stack[k]
      BY <1>3, <1>7, <2>2
    <3> QED BY <3>1, <3>2 DEF Descended
  <2>3. CASE k = n
    <3>1. /\ n - 2 \in 1 .. 6 /\ Top.at = Box(A, t, n - 2) /\ fpos = First(A, Top.at)
          /\ A[Top.at].name = Boxes[n - 2]
      BY <1>1, <1>8 DEF TrackSays
    <3>2. stack'[k].at = Top.at /\ stack'[k].kids = fpos
      BY <1>4, <1>5, <1>7, <2>3
    <3> QED BY <2>3, <3>1, <3>2 DEF Descended
  <2> QED BY <2>2, <2>3
<1>13. TrackSays(A, stack[3].at)'
  <2>1. Candidate(A, t) /\ ip' >= 2 /\ ip' >= 3 /\ Gone(A, t, ip') /\ Learnt(A, t, ip)'
    BY <1>1, <1>8, <1>9, <1>10 DEF Learnt
  <2>2. TrackSays(A, t)'
    BY <1>1, <1>7, <1>12, <2>1 DEF TrackSays
  <2> QED BY <1>11, <2>2, TrackFor
<1>14. Heads(A)'
  <2>1. stack'[2] = stack[2]
    BY <1>3, <1>7
  <2> QED BY <1>1, <1>2, <1>8, <2>1 DEF Heads, InTracks
<1>15. Untabled'
  <2>1. ~held.table
    BY <1>1, <1>2, <1>9 DEF Opens, Untabled, Live
  <2> QED BY <1>1, <2>1 DEF Untabled
<1>16. Searches(A, end)' /\ Returns(A, end)'
  BY <1>1, <1>2 DEF Searches, Returns
<1> QED BY <1>13, <1>14, <1>15, <1>16 DEF Opens

\* A call of parse that returns ERR_OK.
LEMMA LeaveSays ==
  ASSUME NEW A, NEW end, Before(A, end), pc \in {"enter", "kids"}, Leave
  PROVE  /\ pc' = "return" /\ ret' = "ok" /\ Len(stack) \in Nat /\ Len(stack) >= 1
         /\ Len(stack') = Len(stack) - 1
         /\ \A k \in 1 .. Len(stack) - 1 : stack'[k] = stack[k]
         /\ Level' = Level - 1 /\ Level \in Int /\ UNCHANGED <<script, conf, held, denied>>
<1> USE DEF Before, IInv
<1>1. stack # <<>> /\ Top.fn = "parse"
  BY DEF Calls
<1>2. Give("ok") /\ UNCHANGED <<script, conf, held, denied>>
  BY DEF Leave
<1>3. /\ pc' = "return" /\ ret' = "ok" /\ Len(stack) \in Nat /\ Len(stack) >= 1
      /\ Len(stack') = Len(stack) - 1
      /\ \A k \in 1 .. Len(stack) - 1 : stack'[k] = stack[k]
  BY <1>1, <1>2, GiveSays
<1>4. Level' = Level - 1 /\ Level \in Int
  BY <1>1, <1>2, Given
<1> QED BY <1>2, <1>3, <1>4

\* One within a track.
LEMMA LeavesTrack ==
  ASSUME NEW A, NEW end, Before(A, end), script = "trak", pc \in {"enter", "kids"}, Leave,
         Len(stack) >= 4, NEW t, t = stack[3].at, NEW j \in Nat, ip' = j, j >= 3,
         ip <= j, Gone(A, t, j), Learnt(A, t, j)'
  PROVE  Opens(A, end)'
<1> USE DEF Before, IInv
<1>1. /\ pc' = "return" /\ ret' = "ok" /\ Len(stack) \in Nat
      /\ Len(stack') = Len(stack) - 1
      /\ \A k \in 1 .. Len(stack) - 1 : stack'[k] = stack[k]
      /\ UNCHANGED <<script, conf, held, denied>>
  BY LeaveSays
<1>2. stack'[3] = stack[3] /\ stack'[2] = stack[2] /\ Len(stack') >= 3
  BY <1>1
<1>3. TrackSays(A, t) /\ Heads(A) /\ Candidate(A, t)
  <2>1. Len(stack) >= 3
    BY <1>1
  <2> QED BY <2>1, TrackHere
<1>4. \A k \in 3 .. Len(stack') : Descended(A, t, k)'
  <2>1. SUFFICES ASSUME NEW k \in 3 .. Len(stack') PROVE Descended(A, t, k)'
    OBVIOUS
  <2>2. k \in 3 .. Len(stack) /\ k # Len(stack) /\ k \in 1 .. Len(stack) - 1
    BY <1>1, <2>1
  <2>3. Descended(A, t, k)
    BY <1>3, <2>2 DEF TrackSays
  <2>4. stack'[k] = stack[k]
    BY <1>1, <2>2
  <2> QED BY <2>3, <2>4 DEF Descended
<1>5. TrackSays(A, stack[3].at)'
  <2>1. ip' >= 2 /\ ip' >= 3 /\ Gone(A, t, ip') /\ Learnt(A, t, ip)'
    BY DEF Learnt
  <2>2. TrackSays(A, t)'
    BY <1>1, <1>3, <1>4, <2>1 DEF TrackSays
  <2> QED BY <1>2, <2>2, TrackFor
<1>6. Heads(A)'
  BY <1>1, <1>2, <1>3 DEF Heads, InTracks
<1>7. Untabled'
  <2>1. Live
    BY DEF Live
  <2>2. ip' <= 30 => ip <= 30
    BY Here
  <2> QED BY <1>1, <2>1, <2>2 DEF Opens, Untabled
<1>8. Searches(A, end)' /\ Returns(A, end)'
  BY <1>1, <1>2 DEF Searches, Returns
<1> QED BY <1>5, <1>6, <1>7, <1>8 DEF Opens

LEMMA OpensSkip ==
  ASSUME NEW A, NEW end, Before(A, end), Skip
  PROVE  Opens(A, end)'
<1> USE DEF Before, IInv
<1>1. pc = "enter" /\ Op.op # "DESCENT" /\ Leave /\ ip' = ip
  BY DEF Skip
<1>2. /\ pc' = "return" /\ ret' = "ok" /\ Len(stack) \in Nat
      /\ Len(stack') = Len(stack) - 1
      /\ \A k \in 1 .. Len(stack) - 1 : stack'[k] = stack[k]
      /\ Level' = Level - 1 /\ UNCHANGED <<script, conf, held, denied>>
  BY <1>1, LeaveSays
<1>3. CASE script # "trak"
  <2>1. script \in {"head", "moov", "mvhd"} /\ ip \in DOMAIN Script[script]
    BY <1>3 DEF Fields, Scripts
  <2>2. Level' = -1
    <3>1. Level = 0
      BY <1>1, <2>1, PlainGroups DEF Pace
    <3> QED BY <1>2, <3>1
  <2>3. Heads(A)
    BY <1>1 DEF Opens, Live
  <2>4. script = "mvhd" => stack'[2] = stack[2]
    <3>1. SUFFICES ASSUME script = "mvhd" PROVE stack'[2] = stack[2]
      OBVIOUS
    <3>2. Len(stack) = 3
      BY <1>1, <3>1, Depths
    <3>3. \A k \in 1 .. Len(stack) - 1 : stack'[k] = stack[k]
      BY <1>2
    <3> QED BY <3>2, <3>3
  <2>5. script = "moov" => Success(A)'
    BY <1>1, <1>2, <2>3 DEF Heads, Success
  <2>6. Heads(A)'
    BY <1>1, <1>2, <1>3, <2>3, <2>4, <2>5 DEF Heads, InTracks
  <2>7. Untabled'
    BY <1>1, <1>2, <1>3 DEF Opens, Untabled, Live
  <2>8. Searches(A, end)' /\ Returns(A, end)' /\ ~OnTrack'
    BY <1>2, <1>3, <2>2 DEF Searches, Returns, OnTrack
  <2> QED BY <2>6, <2>7, <2>8 DEF Opens
<1>4. CASE script = "trak"
  <2>1. SUFFICES ASSUME NEW t, t = stack[3].at, NEW i, i = ip PROVE Opens(A, end)'
    OBVIOUS
  <2>2. Len(stack) = Rank[i] + 3 /\ i \in 1 .. 33 /\ Rank[i] \in 0 .. 6
    BY <1>1, <1>4, <2>1, Depths, RankNext
  <2>3. Len(stack) >= 3
    BY <2>2
  <2>4. Op = Place(i) /\ Gone(A, t, i) /\ Learnt(A, t, i) /\ i >= 2
    BY <1>1, <1>4, <2>1, <2>3, TrackHere
  <2>5. i # 2
    BY <1>1, <2>4, Ops
  <2>6. i \in Nat /\ i >= 3 /\ i \in 3 .. 33
    BY <2>2, <2>4, <2>5
  <2>7. Rank[i] >= 1
    BY <2>6, Ranks
  <2>8. Len(stack) >= 4
    BY <2>2, <2>7
  <2>9. Learnt(A, t, i)' /\ ip <= i /\ ip' = i
    BY <1>1, <1>2, <2>1, <2>4, <2>6 DEF Learnt
  <2> QED BY <1>1, <1>4, <2>1, <2>4, <2>6, <2>8, <2>9, LeavesTrack
<1> QED BY <1>3, <1>4

LEMMA OpensKidsEnd ==
  ASSUME NEW A, NEW end, Before(A, end), KidsEnd
  PROVE  Opens(A, end)'
<1> USE DEF Before, IInv
<1>1. /\ pc = "kids" /\ Op.op \in {"STOP", "ASCENT"} /\ Leave
      /\ ip' = IF Op.op = "ASCENT" THEN ip + 1 ELSE ip
  BY DEF KidsEnd
<1>2. /\ pc' = "return" /\ ret' = "ok" /\ Len(stack) \in Nat
      /\ Len(stack') = Len(stack) - 1
      /\ \A k \in 1 .. Len(stack) - 1 : stack'[k] = stack[k]
      /\ UNCHANGED <<script, conf, held, denied>>
  BY <1>1, LeaveSays
<1>3. script = "trak"
  BY <1>1 DEF Opens, Returns
<1>4. Len(stack) >= 3
  <2>1. Len(stack) >= 2
    BY <1>3, Depths
  <2>2. stack # <<>> /\ Top.fn = "parse" /\ Top = stack[Len(stack)]
    BY <1>1, TopTyped DEF Calls
  <2>3. stack[2].fn = "moovin"
    BY <1>2, <1>3, <2>1 DEF Calls, InTracks
  <2> QED BY <1>2, <2>1, <2>2, <2>3
<1>5. SUFFICES ASSUME NEW t, t = stack[3].at, NEW i, i = ip PROVE Opens(A, end)'
  OBVIOUS
<1>6. /\ i \in 1 .. 33 /\ Op = Place(i) /\ TrackSays(A, t) /\ Heads(A)
      /\ Gone(A, t, i) /\ Learnt(A, t, i) /\ Candidate(A, t) /\ i >= 2
  BY <1>1, <1>3, <1>4, <1>5, TrackHere
<1>7. CASE Op.op = "ASCENT"
  <2>1. i \in {24, 25}
    BY <1>6, <1>7, Kinds
  <2>2. Len(stack) >= 4
    <3>1. Rank[24] = 6 /\ Rank[25] = 5
      BY Ranks
    <3>2. Len(stack) = Rank[i] + 2
      BY <1>1, <1>3, <1>5, <2>1, Depths
    <3> QED BY <2>1, <3>1, <3>2
  <2>3. Gone(A, t, i + 1) /\ Learnt(A, t, i + 1)'
    <3>1. i \in 2 .. 32 /\ Place(i).op \notin {"NAME", "DATA"}
      BY <1>6, <1>7, <2>1
    <3> QED BY <1>2, <1>6, <3>1, GoesOn
  <2>4. ip' = i + 1 /\ i + 1 \in Nat /\ i + 1 >= 3 /\ ip <= i + 1
    BY <1>1, <1>5, <1>7, <2>1
  <2> QED BY <1>1, <1>3, <1>5, <2>2, <2>3, <2>4, LeavesTrack
<1>8. CASE Op.op = "STOP"
  <2>1. i = 33 /\ ip' = 33
    BY <1>1, <1>5, <1>6, <1>8, Kinds
  <2>2. CASE Len(stack) >= 4
    <3>1. Learnt(A, t, i)' /\ ip' = i /\ i \in Nat /\ i >= 3 /\ ip <= i
      BY <1>2, <1>5, <1>6, <2>1 DEF Learnt
    <3> QED BY <1>1, <1>3, <1>5, <1>6, <2>2, <3>1, LeavesTrack
  <2>3. CASE Len(stack) = 3
    <3>1. /\ Roots(A, "ftyp") # {} /\ Roots(A, "moov") # {} /\ Kids(A, Moov(A), "mvhd") # {}
          /\ Headed(A)
      BY <1>3, <1>6 DEF Heads, InTracks, Headed, Has
    <3>2. Plays(A) /\ Min(Left(A)) = t
      BY <1>6, <2>1, <3>1, GoneIsComplete
    <3>3. conf = Told(A, t)
      BY <1>6, <2>1, LearntIsTold
    <3>4. Success(A)'
      BY <1>2, <3>2, <3>3 DEF Success
    <3>5. Len(stack') = 2 /\ stack'[2] = stack[2]
      BY <1>2, <2>3
    <3>6. Heads(A)'
      BY <1>2, <1>3, <1>6, <3>5 DEF Heads, InTracks
    <3>7. Returns(A, end)' /\ Searches(A, end)'
      BY <1>2, <1>3, <3>4, <3>5 DEF Returns, Searches
    <3>8. ~OnTrack'
      BY <3>5 DEF OnTrack
    <3>9. Untabled'
      <4>1. pc' = "return" /\ script' = "trak" /\ ip' = 33
        BY <1>2, <1>3, <2>1
      <4> QED BY <4>1 DEF Untabled
    <3> QED BY <3>6, <3>7, <3>8, <3>9 DEF Opens
  <2> QED BY <1>2, <1>4, <2>2, <2>3
<1> QED BY <1>1, <1>7, <1>8

\* Which names are searched for in which atoms.
LEMMA BoxAsks ==
  ASSUME NEW i \in {3, 4, 6, 8, 10, 12, 13, 14, 16, 19, 22, 26, 28, 29, 31}
  PROVE  /\ Rank[i] \in 1 .. 6 /\ Boxes[Rank[i]] \in BoxNames /\ Boxes[Rank[i]] # "moov"
         /\ Place(i).name \in Wanted /\ Place(i).name # "trak"
         /\ Boxes[Rank[i]] = "mp4a" => Place(i).name = "esds"
<1>1. /\ Rank[3] = 1 /\ Rank[4] = 1 /\ Rank[6] = 2 /\ Rank[8] = 2 /\ Rank[10] = 2
      /\ Rank[12] = 3 /\ Rank[13] = 3 /\ Rank[14] = 3 /\ Rank[16] = 4 /\ Rank[19] = 5
      /\ Rank[22] = 6 /\ Rank[26] = 4 /\ Rank[28] = 4 /\ Rank[29] = 4 /\ Rank[31] = 4
  BY Ranks
<1>2. Rank[i] \in 1 .. 6 /\ (Rank[i] = 6 => i = 22)
  BY <1>1
<1>3. \A l \in 1 .. 6 : Boxes[l] \in BoxNames /\ Boxes[l] # "moov" /\ (Boxes[l] = "mp4a" => l = 6)
  BY DEF Boxes, BoxNames
<1>4. Place(i).name \in Wanted /\ Place(i).name # "trak"
  BY Names DEF Wanted
<1>5. Place(22).name = "esds"
  BY Names
<1> QED BY <1>2, <1>3, <1>4, <1>5

LEMMA OpensKidsNext ==
  ASSUME NEW A, NEW end, Before(A, end), KidsNext
  PROVE  Opens(A, end)'
<1> USE DEF Before, IInv
<1> DEFINE p == Top.kids
           max == Top.size - 8
<1>1. /\ pc = "kids" /\ Op.op \notin {"STOP", "ASCENT"} /\ Call(stack, p, max)
      /\ UNCHANGED <<file, script, ip, ret, conf, held, denied>>
  BY DEF KidsNext
<1>2. script = "trak" /\ Op.op = "NAME" /\ stack # <<>> /\ Top.fn = "parse"
  BY <1>1 DEF Opens, Returns, Pace, Calls
<1> SUFFICES ASSUME NEW t, t = stack[3].at, NEW i, i = ip, NEW o, o = Top.at
             PROVE  Opens(A, end)'
  OBVIOUS
<1>3. i \in 1 .. 33 /\ Op = Place(i) /\ i # 33 /\ Len(stack) \in Nat
  <2>1. i \in 1 .. 33 /\ Op = Place(i) /\ Len(stack) \in Nat
    BY <1>2, Depths DEF Op, Place
  <2> QED BY <1>2, <2>1, Ops
<1>4. Len(stack) = Rank[i] + 2 /\ Rank[i] \in 0 .. 6 /\ Len(stack) >= 2
  <2>1. Len(stack) = Rank[i] + 2 /\ Len(stack) >= 2
    BY <1>1, <1>2, <1>3, Depths
  <2> QED BY <1>3, <2>1, RankNext
<1>5. Len(stack) >= 3
  <2>1. Top = stack[Len(stack)]
    BY <1>2, TopTyped
  <2>2. stack[2].fn = "moovin"
    BY <1>2, <1>3, <1>4 DEF Calls, InTracks
  <2> QED BY <1>2, <1>3, <1>4, <2>1, <2>2
<1>6. /\ TrackSays(A, t) /\ Heads(A) /\ Gone(A, t, i) /\ Learnt(A, t, i) /\ Candidate(A, t)
  BY <1>1, <1>2, <1>5, TrackHere
<1>7. i \in {3, 4, 6, 8, 10, 12, 13, 14, 16, 19, 22, 26, 28, 29, 31}
  <2>1. i >= 3
    BY <1>1, <1>6 DEF TrackSays
  <2>2. Place(i).op = "NAME" /\ i \in 1 .. 33 /\ i # 1
    BY <1>2, <1>3, <2>1
  <2>3. i \in {1, 3, 4, 6, 8, 10, 12, 13, 14, 16, 19, 22, 26, 28, 29, 31}
    BY <2>2, Kinds
  <2> QED BY <2>2, <2>3
<1>8. /\ Rank[i] \in 1 .. 6 /\ Boxes[Rank[i]] \in BoxNames /\ Boxes[Rank[i]] # "moov"
      /\ Place(i).name \in Wanted /\ Place(i).name # "trak"
      /\ Boxes[Rank[i]] = "mp4a" => Place(i).name = "esds"
  BY <1>7, BoxAsks
<1>9. /\ o = Box(A, t, Rank[i]) /\ p = First(A, o) /\ A[o].name = Boxes[Rank[i]]
      /\ stack[Len(stack)].at = o
  <2>1. Len(stack) \in 3 .. Len(stack) /\ Len(stack) - 2 = Rank[i]
    BY <1>3, <1>4, <1>5
  <2>2. Descended(A, t, Len(stack))
    BY <1>1, <1>6, <2>1 DEF TrackSays
  <2>3. Top = stack[Len(stack)]
    BY <1>2, TopTyped
  <2> QED BY <2>1, <2>2, <2>3 DEF Descended
<1>10. o \in DOMAIN A /\ max = A[o].size - 8
  BY <1>1, <1>2, TopPlaced
<1> HIDE DEF p, max
<1>11. Region(A, Place(i).name, First(A, o), Past(A, o), First(A, o) + (A[o].size - 8))
  <2>1. /\ o \in DOMAIN A /\ A[o].name \in BoxNames /\ Place(i).name \in Wanted
        /\ A[o].name # "moov" => Place(i).name # "trak"
        /\ A[o].name = "mp4a" => Place(i).name = "esds"
    BY <1>8, <1>9, <1>10
  <2> QED BY <2>1, BoxRegion
<1>12. Seeking(A, end, Place(i).name, First(A, o), Past(A, o), First(A, o))
  <2>1. First(A, o) \in Nat /\ (First(A, o) \in DOMAIN A \/ First(A, o) = end)
    BY <1>8, <1>9, <1>10, WholeKinds
  <2>2. Past(A, o) \in Nat
    BY <1>10, WholeSays
  <2> QED BY <2>1, <2>2, SearchStarts
<1>13. /\ pc' = "search" /\ fpos' = First(A, o) /\ Len(stack') = Len(stack) + 1
       /\ Top'.limit = First(A, o) + (A[o].size - 8)
       /\ \A k \in 1 .. Len(stack) : stack'[k] = stack[k]
  <2>1. stack \in Seq(CallType)
    BY DEF Fields
  <2>2. /\ pc' = "search" /\ fpos' = p /\ Len(stack') = Len(stack) + 1
        /\ Top'.limit = p + max
        /\ \A k \in 1 .. Len(stack) : stack'[k] = stack[k]
    BY <1>1, <2>1, CallSays
  <2> QED BY <1>9, <1>10, <2>2
<1>14. /\ Len(stack') >= 4 /\ stack'[2] = stack[2] /\ stack'[3] = stack[3]
       /\ stack'[Len(stack') - 1].at = o
  BY <1>3, <1>5, <1>9, <1>13
<1>15. Searches(A, end)'
  <2>1. Lo(A)' = First(A, o) /\ Hi(A)' = Past(A, o)
    <3>1. Len(stack') # 1 /\ Len(stack') # 3
      BY <1>3, <1>5, <1>13
    <3>2. Owner(A)' = o
      BY <1>14, <3>1 DEF Owner
    <3> QED BY <3>1, <3>2 DEF Lo, Hi
  <2>2. Op'.name = Place(i).name
    BY <1>1, <1>3 DEF Op
  <2> QED BY <1>11, <1>12, <1>13, <2>1, <2>2 DEF Searches
<1>16. TrackSays(A, stack[3].at)'
  <2>1. \A k \in 3 .. Len(stack') : k # Len(stack') => Descended(A, t, k)'
    <3>1. SUFFICES ASSUME NEW k \in 3 .. Len(stack'), k # Len(stack') PROVE Descended(A, t, k)'
      OBVIOUS
    <3>2. k \in 3 .. Len(stack) /\ k \in 1 .. Len(stack)
      BY <1>3, <1>13, <3>1
    <3>3. Descended(A, t, k)
      BY <1>1, <1>6, <3>2 DEF TrackSays
    <3>4. stack'[k] = stack[k]
      BY <1>13, <3>2
    <3> QED BY <3>3, <3>4 DEF Descended
  <2>2. Candidate(A, t) /\ ip' >= 2 /\ Gone(A, t, ip') /\ Learnt(A, t, ip)'
    BY <1>1, <1>6 DEF TrackSays, Learnt
  <2>3. TrackSays(A, t)'
    BY <1>13, <2>1, <2>2 DEF TrackSays
  <2> QED BY <1>14, <2>3, TrackFor
<1>17. Heads(A)'
  BY <1>1, <1>2, <1>6, <1>13, <1>14 DEF Heads, InTracks
<1>18. Untabled'
  BY <1>1, <1>2, <1>13 DEF Opens, Untabled, Live
<1>19. Returns(A, end)'
  BY <1>13 DEF Returns
<1> QED BY <1>15, <1>16, <1>17, <1>18, <1>19 DEF Opens

LEMMA OpensReturnToParse ==
  ASSUME NEW A, NEW end, Before(A, end), ReturnToParse
  PROVE  Opens(A, end)'
<1> USE DEF Before, IInv
<1>1. /\ pc = "return" /\ stack # <<>> /\ Top.fn = "parse"
      /\ UNCHANGED <<file, fpos, script, ip, conf, held, denied>>
  BY DEF ReturnToParse
<1>2. Top = stack[Len(stack)] /\ Len(stack) \in Nat /\ Len(stack) >= 1
  BY <1>1, TopTyped
<1>3. InTracks => Len(stack) >= 3
  <2>1. SUFFICES ASSUME InTracks PROVE Len(stack) >= 3
    OBVIOUS
  <2>2. Len(stack) >= 2 /\ stack[2].fn = "moovin"
    BY <1>2, <2>1 DEF Calls
  <2> QED BY <1>1, <1>2, <2>2
<1>4. CASE ret = "ok" /\ pc' = "kids" /\ UNCHANGED <<stack, ret>>
  <2>1. script = "trak"
    <3>1. SUFFICES ASSUME script # "trak" PROVE FALSE
      OBVIOUS
    <3>2. Level = -1
      BY <1>1, <1>4, <3>1 DEF Opens, Returns
    <3> QED BY <1>2, <1>3, <3>2, LevelIs
  <2>2. Len(stack) >= 3
    BY <1>3, <2>1 DEF InTracks
  <2>3. Heads(A) /\ TrackSays(A, stack[3].at)
    BY <1>1, <1>4, <2>1, <2>2 DEF Opens, Live, OnTrack
  <2>4. Heads(A)'
    BY <1>1, <1>4, <2>1, <2>3 DEF Heads, InTracks
  <2>5. SUFFICES ASSUME NEW t, t = stack[3].at PROVE Opens(A, end)'
    OBVIOUS
  <2>6. TrackSays(A, stack[3].at)'
    <3>1. \A k \in 3 .. Len(stack) : Descended(A, t, k)'
      <4>1. \A k \in 3 .. Len(stack) : Descended(A, t, k)
        BY <1>1, <2>3, <2>5 DEF TrackSays
      <4> QED BY <1>4, <4>1 DEF Descended
    <3>2. Candidate(A, t) /\ ip' >= 2 /\ ip' >= 3 /\ Gone(A, t, ip') /\ Learnt(A, t, ip)'
      BY <1>1, <2>3, <2>5 DEF TrackSays, Learnt
    <3>3. TrackSays(A, t)'
      BY <1>4, <3>1, <3>2 DEF TrackSays
    <3> QED BY <1>4, <2>5, <3>3, TrackFor
  <2>7. Untabled'
    BY <1>1, <1>4, <2>1 DEF Opens, Untabled, Live
  <2>8. Searches(A, end)' /\ Returns(A, end)'
    BY <1>1, <1>4, <2>1 DEF Searches, Returns
  <2> QED BY <2>4, <2>6, <2>7, <2>8 DEF Opens
<1>5. CASE ret # "ok" /\ Give(ret)
  <2>1. /\ pc' = "return" /\ ret' = ret /\ Len(stack') = Len(stack) - 1
        /\ \A k \in 1 .. Len(stack) - 1 : stack'[k] = stack[k]
    BY <1>1, <1>5, GiveSays
  <2>2. CASE ret = "fail"
    <3>1. Failure(A)
      BY <1>1, <2>2 DEF Opens, Returns
    <3> QED BY <1>1, <2>1, <2>2, <3>1, FailsSo DEF Failure
  <2>3. CASE ret = "unsupported"
    <3>1. script = "trak" /\ Resumes(A, end)
      BY <1>1, <2>3 DEF Opens, Returns
    <3>2. Len(stack) >= 3
      BY <1>3, <3>1 DEF InTracks
    <3>3. Len(stack') >= 2 /\ stack'[2] = stack[2]
      BY <1>2, <2>1, <3>2
    <3>4. Live /\ ip = 9
      BY <1>1, <2>3, <3>1 DEF Live, Resumes
    <3>5. Heads(A) /\ ~held.table
      BY <3>1, <3>4 DEF Opens, Untabled
    <3>6. Resumes(A, end)'
      BY <1>1, <3>1 DEF Resumes, InTracks
    <3>7. Heads(A)'
      BY <1>1, <2>1, <3>1, <3>3, <3>5 DEF Heads, InTracks
    <3>8. Returns(A, end)'
      BY <1>1, <2>1, <2>3, <3>1, <3>3, <3>6 DEF Returns
    <3>9. ~OnTrack' /\ Untabled' /\ Searches(A, end)'
      BY <1>1, <2>1, <2>3, <3>5 DEF OnTrack, Untabled, Searches
    <3> QED BY <3>7, <3>8, <3>9 DEF Opens
  <2>4. ret \in {"fail", "unsupported"}
    <3>1. ret \in {"none", "ok", "fail", "unsupported"}
      BY DEF Fields
    <3>2. ret # "none"
      BY <1>1 DEF Opens, Returns
    <3> QED BY <1>5, <3>1, <3>2
  <2> QED BY <2>2, <2>3, <2>4
<1> QED BY <1>4, <1>5 DEF ReturnToParse

LEMMA OpensStutters ==
  ASSUME NEW A, NEW end, Opens(A, end), UNCHANGED vars
  PROVE  Opens(A, end)'
<1> USE DEF vars
<1>1. (Live' <=> Live) /\ (OnTrack' <=> OnTrack) /\ (InTracks' <=> InTracks)
  BY DEF Live, OnTrack, InTracks
<1>2. (Success(A)' <=> Success(A)) /\ (Failure(A)' <=> Failure(A))
  BY DEF Success, Failure
<1>3. Heads(A)' <=> Heads(A)
  BY <1>1, <1>2 DEF Heads, Top
<1>4. Searches(A, end)' <=> Searches(A, end)
  BY DEF Searches, Top, Op, Lo, Hi, Owner
<1>5. Returns(A, end)' <=> Returns(A, end)
  <2>1. Resumes(A, end)' <=> Resumes(A, end)
    BY <1>1 DEF Resumes
  <2>2. Level' = Level
    BY DEF Level, InTracks
  <2> QED BY <1>2, <2>1, <2>2 DEF Returns
<1>6. Untabled' <=> Untabled
  BY <1>1 DEF Untabled
<1>7. OnTrack => TrackSays(A, stack[3].at)'
  <2>1. SUFFICES ASSUME OnTrack, NEW t, t = stack[3].at PROVE TrackSays(A, stack[3].at)'
    OBVIOUS
  <2>2. TrackSays(A, t)
    BY <2>1 DEF Opens
  <2>3. \A k : Descended(A, t, k)' <=> Descended(A, t, k)
    BY DEF Descended
  <2>4. Learnt(A, t, ip)' <=> Learnt(A, t, ip)
    BY DEF Learnt
  <2>5. TrackSays(A, t)'
    BY <2>2, <2>3, <2>4 DEF TrackSays, Top, Op
  <2> QED BY <2>1, <2>5, TrackFor
<1> QED BY <1>1, <1>3, <1>4, <1>5, <1>6, <1>7 DEF Opens

LEMMA FileKept == [Next]_vars => UNCHANGED file
  BY DEF Next, vars, OpenFails, Open, OpenMoov, OpenBuffer, OpenError, SearchFails, SearchPast,
         SearchFound, HandleOk, HandleRefused, HandleNoMemory, HandleMoov, NextTrack, TracksEnd,
         MoovinOk, MoovinFails, ReturnToMoovin, Enter, Skip, Leave, KidsEnd, KidsNext,
         ReturnToParse

\* Every step, by its action.
LEMMA OpensStep ==
  ASSUME NEW A, NEW end, Before(A, end), [Next]_vars
  PROVE  Opens(A, end)'
<1>1. CASE OpenFails \/ Open \/ OpenMoov \/ OpenBuffer \/ OpenError
  BY <1>1, OpensOpen
<1>2. CASE SearchFound
  BY <1>2, OpensFoundPlain, OpensFoundTrak, OpensFoundChild
<1>3. CASE HandleRefused \/ HandleNoMemory
  BY <1>3, OpensHandleRefused
<1>4. CASE UNCHANGED vars
  BY <1>4, OpensStutters DEF Before
<1>5. CASE SearchFails \/ SearchPast \/ HandleOk \/ HandleMoov \/ NextTrack \/ TracksEnd
           \/ ReturnToMoovin \/ Enter \/ Skip \/ KidsEnd \/ KidsNext \/ ReturnToParse
  BY <1>5, OpensSearchFails, OpensSearchPast, OpensHandleOk, OpensHandleMoov, OpensNextTrack,
     OpensTracksEnd, OpensReturnToMoovin, OpensEnter, OpensSkip, OpensKidsEnd, OpensKidsNext,
     OpensReturnToParse
<1> QED BY <1>1, <1>2, <1>3, <1>4, <1>5 DEF Next

LEMMA OpeningInit == Init => Opening
<1>1. SUFFICES ASSUME Init, NEW A, NEW end PROVE Opens(A, end)
  BY PlacedInit DEF Opening
<1>2. pc = "closed" /\ ret = "none" /\ held = Nothing
  BY <1>1 DEF Init
<1>3. ~Live /\ ~OnTrack
  BY <1>2 DEF Live, OnTrack
<1>4. ~held.table
  BY <1>2 DEF Nothing
<1> QED BY <1>2, <1>3, <1>4 DEF Opens, Searches, Returns, Untabled

LEMMA OpeningStep ==
  ASSUME IInv, Tabled, Opening, [Next]_vars
  PROVE  Opening'
<1> DEFINE A == file.atoms
           end == End[file.id]
<1>1. file' = file
  BY FileKept
<1>2. SUFFICES ASSUME Regular(A, end) PROVE Placed' /\ Opens(A, end)'
  BY <1>1 DEF Opening
<1>3. Whole(A, end) /\ TreeOfAtoms(file.id)
  BY <1>2, WholeFile, RegularIsTree DEF IInv
<1>4. Placed'
  BY <1>2, <1>3, PlacedStep DEF Opening
<1>5. Before(A, end)
  BY <1>2, <1>3 DEF Before, Opening
<1>6. ASSUME NEW B, NEW e, B = A, e = end PROVE Opens(B, e)'
  <2>1. Before(B, e)
    BY <1>5, <1>6
  <2> QED BY <2>1, OpensStep
<1>7. Opens(A, end)'
  BY <1>1, <1>6
<1> QED BY <1>4, <1>7

LEMMA OpeningSays == Opening => OpensFirstSound
<1> DEFINE A == file.atoms
<1>1. SUFFICES ASSUME Opening, pc \in {"open", "failed"}, Regular(A, End[file.id])
               PROVE  /\ pc = "open" => Success(A)
                      /\ pc = "failed" => Failure(A)
  BY DEF OpensFirstSound, Success, Failure
<1> QED BY <1>1 DEF Opening, Opens, Returns

(* Whatever regular file is opened, with any number of atoms and tracks, in  *)
(* any order and at any depth: when mp4read_open returns success the decoder *)
(* has been told of the first track that is not passed over, with the sums   *)
(* and the maximum of its frames' sizes, or the moov atom ends with a handler*)
(* that is not of sound and no frame table exists; when it fails, memory has *)
(* been denied, or there is no such track or it lacks what decoding needs.   *)
THEOREM OpensFirstSoundHolds == Spec => []OpensFirstSound
<1>1. IInv /\ Tabled /\ [Next]_vars => Tabled'
  BY TabledStep
<1>2. IInv /\ Tabled /\ Opening /\ [Next]_vars => Opening'
  BY OpeningStep
<1> QED BY <1>1, <1>2, InvInit, InvStep, TabledInit, OpeningInit, OpeningSays, PTL DEF Spec
-----------------------------------------------------------------------------
(* That mp4read_open comes to an end.                                        *)

\* What every step takes something off, in this order: the parts of mp4read_open that
\* are left, the file ahead of the track, the opcodes left, the calls still to return,
\* the file ahead of the search.
Failing == pc = "return" /\ ret = "fail"
GivesUp == pc = "return" /\ ret = "unsupported"

Part ==
  IF pc \in {"open", "failed"} THEN 0
  ELSE IF Failing THEN 1
  ELSE IF pc = "closed" THEN 7
  ELSE IF script = "head" THEN 6
  ELSE IF script = "moov" THEN IF ip < 3 THEN 5 ELSE 2
  ELSE IF script = "mvhd" /\ pc # "tracks" THEN 4
  ELSE 3

Ahead(p) == IF p < End[file.id] THEN End[file.id] - p ELSE 0
TrackAt ==
  IF Len(stack) < 3 \/ GivesUp \/ (pc = "search" /\ Len(stack) = 3) THEN fpos ELSE stack[3].at
Tracks == IF Part = 3 THEN Ahead(TrackAt) ELSE 0

Opcodes ==
  IF Failing THEN 0
  ELSE IF GivesUp THEN 34
  ELSE IF pc = "tracks" THEN 33
  ELSE Len(Script[script]) - ip

Pending ==
  IF pc = "search" THEN 0
  ELSE 3 * Len(stack) + (IF pc = "return" THEN 2 ELSE IF pc = "kids" THEN 1 ELSE 0)

Unsearched == IF pc = "search" THEN Ahead(fpos) ELSE 0

Measure  == <<Part, Tracks, Opcodes, Pending, Unsearched>>
Measures == [1 .. 5 -> Nat]
Shrinks  == <<Measure', Measure>> \in Below(5)

\* Why a track that is given up leaves less of the file: all positions within it are
\* behind its atom.
Going ==
  /\ pc = "return" => ret # "none"
  /\ GivesUp => script = "trak"
  /\ pc = "handle" => Top.size >= 8
  /\ script = "trak" =>
       /\ \A i \in 3 .. Len(stack) :
            /\ i # Len(stack) \/ pc # "search" => stack[i].at >= stack[3].at
            /\ i # Len(stack) \/ pc \in {"kids", "return"} => stack[i].kids >= stack[3].at
       /\ pc \in {"search", "handle", "enter"} => fpos >= stack[3].at

\* A step goes down in this order.
Descends ==
  \/ Part' < Part
  \/ Part' = Part /\ Tracks' < Tracks
  \/ Part' = Part /\ Tracks' = Tracks /\ Opcodes' < Opcodes
  \/ Part' = Part /\ Tracks' = Tracks /\ Opcodes' = Opcodes /\ Pending' < Pending
  \/ /\ Part' = Part /\ Tracks' = Tracks /\ Opcodes' = Opcodes /\ Pending' = Pending
     /\ Unsearched' < Unsearched

LEMMA ScriptLength ==
  ASSUME NEW s \in Scripts, NEW i \in DOMAIN Script[s]
  PROVE  Len(Script[s]) \in 1 .. 33 /\ i \in 1 .. Len(Script[s])
<1>1. CASE s = "head"  BY <1>1 DEF Script
<1>2. CASE s = "moov"  BY <1>2 DEF Script
<1>3. CASE s = "mvhd"  BY <1>3 DEF Script
<1>4. CASE s = "trak"  BY <1>4 DEF Script
<1> QED BY <1>1, <1>2, <1>3, <1>4 DEF Scripts

LEMMA AheadSays ==
  ASSUME Fields
  PROVE  /\ \A p \in Nat : Ahead(p) \in Nat
         /\ \A p, q \in Nat : p <= q => Ahead(q) <= Ahead(p)
         /\ \A p, q \in Nat : p < q /\ (\E o \in DOMAIN file.atoms : o \in Nat /\ p <= o) =>
              Ahead(q) < Ahead(p)
<1>1. End[file.id] \in Nat /\ \A p \in DOMAIN file.atoms : p + 8 <= End[file.id]
  BY Mp4Assumption, WholeHeaders DEF Fields
<1> QED BY <1>1 DEF Ahead

Counted ==
  /\ Part \in Nat /\ Tracks \in Nat /\ Opcodes \in Nat /\ Pending \in Nat
  /\ Unsearched \in Nat

LEMMA MeasureTyped ==
  ASSUME Fields
  PROVE  Counted
<1>1. Len(stack) \in Nat /\ fpos \in Nat
  BY LenProperties DEF Fields
<1>2. TrackAt \in Nat
  <2>1. Len(stack) >= 3 => stack[3] \in CallType
    BY <1>1, ElementOfSeq DEF Fields
  <2> QED BY <1>1, <2>1 DEF TrackAt, CallType
<1>3. Opcodes \in Nat
  <2>1. Len(Script[script]) \in 1 .. 33 /\ ip \in 1 .. Len(Script[script])
    BY ScriptLength DEF Fields
  <2> DEFINE n == Len(Script[script])
  <2> HIDE DEF n
  <2>2. n - ip \in Nat
    BY <2>1 DEF n
  <2> QED BY <2>2 DEF Opcodes, n
<1>4. Part \in Nat
  BY DEF Part
<1> QED BY <1>1, <1>2, <1>3, <1>4, AheadSays DEF Counted, Tracks, Pending, Unsearched

LEMMA CountedIsMeasure ==
  ASSUME Counted
  PROVE  Measure \in Measures
<1>1. \A a, b, c, d, e \in Nat : <<a, b, c, d, e>> \in [1 .. 5 -> Nat]
  OBVIOUS
<1> QED BY <1>1 DEF Counted, Measure, Measures

LEMMA DescendsBelow ==
  ASSUME Counted, Counted', Descends
  PROVE  <<Measure', Measure>> \in Below(5)
<1> DEFINE m == Measure
           n == Measure'
<1>1. m \in Measures /\ n \in Measures
  <2>1. \A a, b, c, d, e \in Nat : <<a, b, c, d, e>> \in [1 .. 5 -> Nat]
    OBVIOUS
  <2> QED BY <2>1 DEF Counted, Measure, Measures
<1>2. /\ m[1] = Part /\ m[2] = Tracks /\ m[3] = Opcodes /\ m[4] = Pending /\ m[5] = Unsearched
      /\ n[1] = Part' /\ n[2] = Tracks' /\ n[3] = Opcodes' /\ n[4] = Pending'
      /\ n[5] = Unsearched'
  BY DEF Measure
<1> HIDE DEF m, n
<1>3. \E j \in 1 .. 5 : n[j] < m[j] /\ \A i \in 1 .. (j - 1) : n[i] = m[i]
  <2>1. CASE n[1] < m[1]
    BY <2>1
  <2>2. CASE n[1] = m[1] /\ n[2] < m[2]
    BY <2>2
  <2>3. CASE n[1] = m[1] /\ n[2] = m[2] /\ n[3] < m[3]
    BY <2>3
  <2>4. CASE n[1] = m[1] /\ n[2] = m[2] /\ n[3] = m[3] /\ n[4] < m[4]
    BY <2>4
  <2>5. CASE n[1] = m[1] /\ n[2] = m[2] /\ n[3] = m[3] /\ n[4] = m[4] /\ n[5] < m[5]
    BY <2>5
  <2> QED BY <1>2, <2>1, <2>2, <2>3, <2>4, <2>5 DEF Descends
<1>4. <<n, m>> \in Below(5)
  BY <1>1, <1>3, Lowers DEF Measures
<1> QED BY <1>4 DEF m, n

LEMMA GoingInit == Init => Going
  BY DEF Init, Going, GivesUp

(* Within a track there are the calls of parse for moov, of moovin, and for the track. *)
LEMMA InTrack ==
  ASSUME IInv, script = "trak", stack # <<>>, Top.fn = "parse"
  PROVE  Len(stack) \in Nat /\ Len(stack) >= 3
<1>1. Top = stack[Len(stack)] /\ Len(stack) \in Nat /\ Len(stack) >= 2
  BY TopTyped DEF IInv, Calls, InTracks
<1> QED BY <1>1 DEF IInv, Calls, InTracks

LEMMA HandlerOnlyInTrack ==
  \A s \in Scripts : \A i \in DOMAIN Script[s] :
    Script[s][i].op = "NAME" /\ Script[s][i].name = "hdlr" => s = "trak"
  BY DEF Scripts, Script, Find, Data, Stop

LEMMA GoingGive ==
  ASSUME IInv, Going, stack # <<>>, Top.fn = "parse",
         pc \in {"search", "handle", "enter", "kids", "return"},
         NEW r, Give(r), r # "none", r = "unsupported" => script = "trak", UNCHANGED script
  PROVE  Going'
<1>1. pc' = "return" /\ ret' = r /\ stack' = Front(stack)
  BY DEF Give
<1>2. ASSUME script = "trak"
      PROVE  \A i \in 3 .. Len(stack') : stack'[i].at >= stack'[3].at /\ stack'[i].kids >= stack'[3].at
  <2>1. /\ Len(stack') = Len(stack) - 1 /\ Len(stack) \in Nat
        /\ \A i \in 1 .. Len(stack) - 1 : stack'[i] = stack[i]
    BY <1>1, Popped DEF IInv, Fields
  <2>2. TAKE i \in 3 .. Len(stack')
  <2>3. stack'[i] = stack[i] /\ stack'[3] = stack[3] /\ i \in 3 .. Len(stack) /\ i # Len(stack)
    BY <2>1, <2>2
  <2> QED BY <1>2, <2>3 DEF Going
<1> QED BY <1>1, <1>2 DEF Going, GivesUp

LEMMA GoingSearch ==
  ASSUME IInv, Going, SearchPast \/ SearchFound
  PROVE  Going'
<1>1. /\ pc = "search" /\ stack # <<>> /\ Top.fn = "parse" /\ UNCHANGED script /\ HeaderReadable
  BY DEF SearchPast, SearchFound, IInv, Calls
<1>2. fpos \in Nat /\ Header.size \in Nat /\ Len(stack) \in Nat /\ Len(stack) >= 1
  BY <1>1, SizeTyped, TopTyped DEF IInv, Fields, HeaderReadable
<1>3. script = "trak" => Len(stack) >= 3 /\ stack[3].at \in Nat
  <2>1. script = "trak" => Len(stack) >= 3
    BY <1>1, InTrack
  <2>2. Len(stack) >= 3 => stack[3] \in CallType
    BY <1>2, ElementOfSeq DEF IInv, Fields
  <2> QED BY <2>1, <2>2 DEF CallType
<1>4. CASE SearchPast
  <2>1. /\ pc' = "search" /\ stack' = stack /\ fpos' = fpos + Header.size
    BY <1>1, <1>4 DEF SearchPast
  <2> QED BY <1>1, <1>2, <1>3, <2>1 DEF Going, GivesUp
<1>5. CASE SearchFound
  <2> DEFINE n == Len(stack)
  <2>1. /\ pc' \in {"handle", "enter"} /\ fpos' = fpos + 8
        /\ stack' = [stack EXCEPT ![n].at = fpos, ![n].size = Header.size]
    BY <1>5 DEF SearchFound
  <2>2. /\ Len(stack') = n
        /\ \A i \in 1 .. n : /\ stack'[i].at = (IF i = n THEN fpos ELSE stack[i].at)
                             /\ stack'[i].kids = stack[i].kids
        /\ stack'[n].size = Header.size
    <3>1. \A i \in 1 .. n : stack[i] \in CallType
      BY <1>2, ElementOfSeq DEF IInv, Fields
    <3>2. stack \in Seq(CallType) /\ n \in 1 .. Len(stack)
      BY <1>2 DEF IInv, Fields
    <3> DEFINE c == [stack[n] EXCEPT !.at = fpos, !.size = Header.size]
    <3>3. /\ c \in CallType /\ c.at = fpos /\ c.kids = stack[n].kids
          /\ c.size = Header.size
      BY <1>2, <3>1, <3>2 DEF CallType
    <3>4. stack' = [stack EXCEPT ![n] = c]
      BY <2>1, <3>1, <3>2 DEF CallType
    <3> HIDE DEF c
    <3>5. /\ Len(stack') = n /\ stack'[n] = c
          /\ \A i \in 1 .. n : i # n => stack'[i] = stack[i]
      BY <3>2, <3>3, <3>4, ExceptSeq
    <3> QED BY <3>3, <3>5
  <2>3. pc' # "return" /\ pc' # "search" /\ pc' # "kids"
    BY <2>1
  <2>4. ASSUME script = "trak", NEW i \in 3 .. Len(stack')
        PROVE  stack'[i].at >= stack'[3].at /\ (i # Len(stack') => stack'[i].kids >= stack'[3].at)
    <3> HIDE DEF n
    <3>1. i \in 3 .. n /\ i \in 1 .. n /\ 3 \in 1 .. n /\ n \in Nat
      BY <1>2, <1>3, <2>2, <2>4 DEF n
    <3>2. CASE n = 3
      BY <1>2, <2>2, <3>1, <3>2
    <3>3. CASE n # 3
      <4>1. stack'[3].at = stack[3].at /\ fpos >= stack[3].at
        BY <1>1, <2>2, <2>4, <3>1, <3>3 DEF Going
      <4>2. i # n => stack[i].at >= stack[3].at /\ stack[i].kids >= stack[3].at
        BY <2>4, <3>1 DEF Going, n
      <4> QED BY <2>2, <3>1, <4>1, <4>2
    <3> QED BY <3>2, <3>3
  <2>5. ASSUME script = "trak" PROVE fpos' >= stack'[3].at
    <3> HIDE DEF n
    <3>1. 3 \in 1 .. n
      BY <1>2, <1>3, <2>5 DEF n
    <3>2. fpos >= stack[3].at
      BY <1>1, <2>5 DEF Going
    <3> QED BY <1>2, <1>3, <2>1, <2>2, <2>5, <3>1, <3>2
  <2>6. Top'.size >= 8
    <3>1. stack' # <<>> /\ Top' = stack'[n] /\ n \in 1 .. n
      BY <1>2, <2>2, EmptySeq DEF Top, Last
    <3> QED BY <1>1, <2>2, <3>1 DEF HeaderReadable
  <2> QED BY <1>1, <2>3, <2>4, <2>5, <2>6 DEF Going, GivesUp
<1> QED BY <1>4, <1>5

LEMMA GoingHandle ==
  ASSUME IInv, Going, HandleOk \/ HandleRefused \/ HandleNoMemory \/ HandleMoov
  PROVE  Going'
<1>1. /\ pc = "handle" /\ stack # <<>> /\ Top.fn = "parse" /\ fpos \in Nat
      /\ ip - 1 \in DOMAIN Script[script] /\ Script[script][ip - 1].op = "NAME"
      /\ Script[script][ip - 1].name = Found.name /\ script \in Scripts
  BY DEF HandleOk, HandleRefused, HandleNoMemory, HandleMoov, IInv, Calls, Pace, Fields
<1>2. CASE HandleOk
  <2>1. /\ pc' = "enter" /\ fpos' = fpos + Consumed(Found.name) /\ UNCHANGED <<script, stack>>
    BY <1>2 DEF HandleOk
  <2>2. Consumed(Found.name) \in Nat
    BY DEF Consumed
  <2>3. script = "trak" => stack[3].at \in Nat
    <3>1. script = "trak" => 3 \in 1 .. Len(stack)
      BY <1>1, InTrack
    <3>2. script = "trak" => stack[3] \in CallType
      BY <3>1, ElementOfSeq DEF IInv, Fields
    <3> QED BY <3>2 DEF CallType
  <2> QED BY <1>1, <2>1, <2>2, <2>3 DEF Going, GivesUp
<1>3. CASE HandleRefused \/ HandleNoMemory
  <2>1. UNCHANGED script
    BY <1>3 DEF HandleRefused, HandleNoMemory
  <2>2. Give("fail") \/ (Give("unsupported") /\ Found.name = "hdlr")
    BY <1>3 DEF HandleRefused, HandleNoMemory, Unsupported
  <2>3. Found.name = "hdlr" => script = "trak"
    BY <1>1, HandlerOnlyInTrack
  <2> QED BY <1>1, <2>1, <2>2, <2>3, GoingGive
<1>4. CASE HandleMoov
  BY <1>4 DEF HandleMoov, Call, Going, GivesUp
<1> QED BY <1>2, <1>3, <1>4

LEMMA GoingMoovin ==
  ASSUME IInv, Going, NextTrack \/ TracksEnd \/ ReturnToMoovin
  PROVE  Going'
<1>1. stack # <<>> /\ Top.fn = "moovin"
  BY DEF NextTrack, TracksEnd, ReturnToMoovin, IInv, Calls
<1>2. Len(stack) = 2 /\ Top.back = <<"moov", 2>> /\ stack \in Seq(CallType) /\ fpos \in Nat
  BY <1>1, Moovin DEF IInv, Fields
<1>3. CASE NextTrack
  <2> DEFINE left == Top.at + Top.size - fpos
  <2>1. /\ pc' = "search" /\ fpos' = fpos /\ stack' = Append(stack, ParseCall(fpos, left))
    BY <1>3 DEF NextTrack, Call
  <2>2. left \in Int
    BY <1>1, <1>2, TopTyped DEF IInv
  <2> HIDE DEF left
  <2>3. /\ Len(stack') = 3 /\ stack'[3].at = 0
    <3>1. ParseCall(fpos, left) \in CallType /\ ParseCall(fpos, left).at = 0
      BY <1>2, <2>2, NewCall DEF ParseCall
    <3>2. /\ Len(stack') = Len(stack) + 1 /\ stack'[Len(stack) + 1] = ParseCall(fpos, left)
      BY <1>2, <2>1, <3>1, Pushed
    <3>3. Len(stack) + 1 = 3
      BY <1>2
    <3> QED BY <3>1, <3>2, <3>3
  <2>4. \A i \in 3 .. Len(stack') : i = Len(stack')
    BY <2>3
  <2>5. pc' = "search" /\ fpos' >= stack'[3].at
    BY <1>2, <2>1, <2>3
  <2> QED BY <2>4, <2>5 DEF Going, GivesUp
<1>4. CASE MoovinOk
  BY <1>2, <1>4 DEF MoovinOk, Going, GivesUp
<1>5. CASE MoovinFails
  BY <1>2, <1>5 DEF MoovinFails, Going, GivesUp
<1>6. CASE pc' = "tracks" /\ stack' = stack
  <2>1. Len(stack') = 2
    BY <1>2, <1>6
  <2>2. 3 .. 2 = {}
    OBVIOUS
  <2> QED BY <1>6, <2>1, <2>2 DEF Going, GivesUp
<1> QED BY <1>3, <1>4, <1>5, <1>6 DEF TracksEnd, ReturnToMoovin

LEMMA GoingEnter ==
  ASSUME IInv, Going, Enter
  PROVE  Going'
<1> DEFINE n == Len(stack)
<1>1. /\ pc = "enter" /\ pc' = "kids" /\ stack # <<>> /\ Top.fn = "parse"
      /\ stack' = [stack EXCEPT ![n].kids = fpos] /\ UNCHANGED <<fpos, script>>
  BY DEF Enter, IInv, Calls
<1>2. n \in Nat /\ n >= 1 /\ stack \in Seq(CallType) /\ fpos \in Nat
  BY <1>1, TopTyped DEF IInv, Fields
<1>3. /\ Len(stack') = n
      /\ \A i \in 1 .. n : /\ stack'[i].at = stack[i].at
                           /\ stack'[i].kids = (IF i = n THEN fpos ELSE stack[i].kids)
  <2>1. stack[n] \in CallType
    BY <1>2, ElementOfSeq
  <2> DEFINE c == [stack[n] EXCEPT !.kids = fpos]
  <2>2. c \in CallType /\ c.at = stack[n].at /\ c.kids = fpos
    BY <1>2, <2>1 DEF CallType
  <2>3. stack' = [stack EXCEPT ![n] = c]
    BY <1>1, <1>2, <2>1 DEF CallType
  <2> HIDE DEF c
  <2>4. /\ Len(stack') = n /\ stack'[n] = c
        /\ \A i \in 1 .. n : i # n => stack'[i] = stack[i]
    BY <1>2, <2>2, <2>3, ExceptSeq
  <2> QED BY <2>2, <2>4
<1>4. script = "trak" => n >= 3
  BY <1>1, InTrack
<1>5. ASSUME script = "trak", NEW i \in 3 .. Len(stack')
      PROVE  stack'[i].at >= stack'[3].at /\ stack'[i].kids >= stack'[3].at
  <2>1. i \in 3 .. n /\ i \in 1 .. n /\ 3 \in 1 .. n
    BY <1>2, <1>3, <1>4, <1>5
  <2>2. /\ stack[i].at >= stack[3].at /\ fpos >= stack[3].at
        /\ i # n => stack[i].kids >= stack[3].at
    BY <1>1, <1>5, <2>1 DEF Going
  <2> HIDE DEF n
  <2> QED BY <1>3, <2>1, <2>2
<1> QED BY <1>1, <1>5 DEF Going, GivesUp

LEMMA GoingKidsNext ==
  ASSUME IInv, Going, KidsNext
  PROVE  Going'
<1> DEFINE n == Len(stack)
           c == ParseCall(Top.kids, Top.size - 8)
<1>1. /\ pc = "kids" /\ pc' = "search" /\ stack # <<>> /\ Top.fn = "parse"
      /\ stack' = Append(stack, c) /\ fpos' = Top.kids /\ UNCHANGED script
  BY DEF KidsNext, Call, IInv, Calls
<1>2. /\ n \in Nat /\ n >= 1 /\ stack \in Seq(CallType) /\ c \in CallType /\ Top = stack[n]
  BY <1>1, TopTyped, NewCall DEF IInv, Fields
<1>3. Len(stack') = n + 1 /\ \A i \in 1 .. n : stack'[i] = stack[i]
  <2> HIDE DEF c
  <2> QED BY <1>1, <1>2, Pushed
<1>4. script = "trak" => n >= 3
  BY <1>1, InTrack
<1> HIDE DEF c
<1>5. ASSUME script = "trak"
      PROVE  /\ fpos' >= stack'[3].at
             /\ \A i \in 3 .. Len(stack') :
                  i # Len(stack') => stack'[i].at >= stack'[3].at /\ stack'[i].kids >= stack'[3].at
  <2>1. n \in 3 .. n /\ stack'[3] = stack[3]
    BY <1>2, <1>3, <1>4, <1>5
  <2>2. \A i \in 3 .. n : stack[i].at >= stack[3].at /\ stack[i].kids >= stack[3].at
    BY <1>1, <1>5 DEF Going
  <2> HIDE DEF n
  <2>3. ASSUME NEW i \in 3 .. Len(stack'), i # Len(stack') PROVE i \in 3 .. n /\ stack'[i] = stack[i]
    BY <1>2, <1>3, <2>3
  <2> QED BY <1>1, <1>2, <2>1, <2>2, <2>3
<1> QED BY <1>1, <1>5 DEF Going, GivesUp

LEMMA GoingStep == IInv /\ Going /\ [Next]_vars => Going'
<1> SUFFICES ASSUME IInv, Going, [Next]_vars PROVE Going'
  OBVIOUS
<1>1. CASE OpenFails \/ Open \/ OpenMoov
  BY <1>1 DEF OpenFails, Open, OpenMoov, Call, Going, GivesUp, IInv, Calls
<1>2. CASE OpenBuffer \/ OpenError
  <2>1. stack' = <<>> /\ pc' \in {"open", "failed"}
    BY <1>2 DEF OpenBuffer, OpenError
  <2>2. Len(stack') = 0
    BY <2>1
  <2> QED BY <2>1, <2>2 DEF Going, GivesUp
<1>3. CASE SearchFails
  <2>1. /\ pc = "search" /\ Give("fail") /\ stack # <<>> /\ Top.fn = "parse" /\ UNCHANGED script
    BY <1>3 DEF SearchFails, IInv, Calls
  <2> QED BY <2>1, GoingGive
<1>4. CASE Skip \/ KidsEnd
  <2>1. /\ pc \in {"enter", "kids"} /\ Give("ok") /\ stack # <<>> /\ Top.fn = "parse"
        /\ UNCHANGED script
    BY <1>4 DEF Skip, KidsEnd, Leave, IInv, Calls
  <2> QED BY <2>1, GoingGive
<1>5. CASE ReturnToParse
  <2>1. pc = "return" /\ stack # <<>> /\ Top.fn = "parse" /\ UNCHANGED script
    BY <1>5 DEF ReturnToParse
  <2>2. CASE ret = "ok" /\ pc' = "kids" /\ UNCHANGED <<stack, ret>>
    BY <2>1, <2>2 DEF Going, GivesUp
  <2>3. CASE ret # "ok" /\ Give(ret)
    <3>1. ret # "none" /\ (ret = "unsupported" => script = "trak")
      BY <2>1 DEF Going, GivesUp
    <3> QED BY <2>1, <2>3, <3>1, GoingGive
  <2> QED BY <1>5, <2>2, <2>3 DEF ReturnToParse
<1>6. CASE UNCHANGED vars
  BY <1>6 DEF vars, Top, Going, GivesUp
<1> QED BY <1>1, <1>2, <1>3, <1>4, <1>5, <1>6, GoingSearch, GoingHandle, GoingMoovin,
           GoingEnter, GoingKidsNext DEF Next

(* What is ahead of a track does not grow, and the opcodes left do when the script moves. *)
LEMMA TracksFall ==
  ASSUME Fields, UNCHANGED file, TrackAt \in Nat, TrackAt' \in Nat, TrackAt <= TrackAt',
         Part' = Part
  PROVE  Tracks' <= Tracks /\ Tracks' \in Nat /\ Tracks \in Nat
<1>1. End[file.id] \in Nat
  BY Mp4Assumption DEF Fields
<1> QED BY <1>1 DEF Tracks, Ahead

LEMMA TracksFallBehind ==
  ASSUME Fields, UNCHANGED file, TrackAt \in Nat, TrackAt' \in Nat, TrackAt < TrackAt',
         Part' = Part, Part = 3, NEW o \in DOMAIN file.atoms, o \in Nat, TrackAt <= o
  PROVE  Tracks' < Tracks
<1>1. End[file.id] \in Nat /\ o + 8 <= End[file.id]
  BY Mp4Assumption, WholeHeaders DEF Fields
<1> QED BY <1>1 DEF Tracks, Ahead

LEMMA TracksStay ==
  ASSUME UNCHANGED file, Part' = Part, Part = 3 => TrackAt' = TrackAt
  PROVE  Tracks' = Tracks
  BY DEF Tracks, Ahead

\* Within a script: parse runs, or has returned ERR_OK.
Runs == pc \in {"search", "handle", "enter", "kids"} \/ (pc = "return" /\ ret = "ok")

LEMMA RunsSays ==
  ASSUME Fields, Runs
  PROVE  /\ Part = (IF script = "head" THEN 6
                    ELSE IF script = "moov" THEN IF ip < 3 THEN 5 ELSE 2
                    ELSE IF script = "mvhd" THEN 4 ELSE 3)
         /\ Opcodes = Len(Script[script]) - ip
         /\ ip \in Nat /\ Len(Script[script]) \in Nat /\ script \in Scripts
<1>1. /\ script \in Scripts /\ Len(Script[script]) \in 1 .. 33
      /\ ip \in 1 .. Len(Script[script])
  BY ScriptLength DEF Fields
<1> QED BY <1>1 DEF Runs, Part, Opcodes, Failing, GivesUp

LEMMA RunsOn ==
  ASSUME Fields, Runs, Runs', UNCHANGED script, ip' = ip
  PROVE  Part' = Part /\ Opcodes' = Opcodes
<1>1. Opcodes = Len(Script[script]) - ip
  BY RunsSays
<1>2. Opcodes' = Len(Script[script]) - ip
  BY DEF Runs, Opcodes, Failing, GivesUp
<1>3. Part' = Part
  BY DEF Runs, Part, Failing
<1> QED BY <1>1, <1>2, <1>3

LEMMA ScriptMoves ==
  ASSUME Fields, Runs, Runs', UNCHANGED <<file, script>>, ip' = ip + 1,
         Part' = Part /\ Part = 3 => TrackAt \in Nat /\ TrackAt' \in Nat /\ TrackAt <= TrackAt'
  PROVE  Descends
<1>1. /\ ip \in Nat /\ Len(Script[script]) \in Nat /\ Opcodes = Len(Script[script]) - ip
  BY RunsSays
<1>2. Opcodes' = Len(Script[script]) - (ip + 1)
  BY DEF Runs, Opcodes, Failing, GivesUp
<1>3. Part' <= Part /\ Part \in Nat /\ Part' \in Nat
  BY <1>1 DEF Runs, Part, Failing
<1>4. Opcodes' < Opcodes
  <2> DEFINE n == Len(Script[script])
  <2> HIDE DEF n
  <2>1. n \in Nat /\ Opcodes = n - ip /\ Opcodes' = n - (ip + 1)
    BY <1>1, <1>2 DEF n
  <2> QED BY <1>1, <2>1
<1>5. CASE Part' < Part
  BY <1>5 DEF Descends
<1>6. CASE Part' = Part
  <2>1. Tracks' <= Tracks /\ Tracks' \in Nat /\ Tracks \in Nat
    <3>1. CASE Part = 3
      BY <1>6, <3>1, TracksFall
    <3>2. CASE Part # 3
      BY <1>6, <3>2 DEF Tracks
    <3> QED BY <3>1, <3>2
  <2> QED BY <1>4, <1>6, <2>1 DEF Descends
<1> QED BY <1>3, <1>5, <1>6

(* Part 3 is that of the tracks. *)
LEMMA RunsInTrack ==
  ASSUME IInv, Runs, Part = 3, stack # <<>>, Top.fn = "parse"
  PROVE  /\ script = "trak" /\ Len(stack) \in Nat /\ Len(stack) >= 3
         /\ stack[3] \in CallType /\ stack[3].at \in Nat
         /\ TrackAt = IF pc = "search" /\ Len(stack) = 3 THEN fpos ELSE stack[3].at
         /\ TrackAt \in Nat
<1>1. script = "trak"
  BY RunsSays DEF IInv, Scripts
<1>2. Len(stack) \in Nat /\ Len(stack) >= 3
  BY <1>1, InTrack
<1>3. stack[3] \in CallType /\ stack[3].at \in Nat /\ fpos \in Nat
  <2>1. stack[3] \in CallType /\ fpos \in Nat
    BY <1>2, ElementOfSeq DEF IInv, Fields
  <2> QED BY <2>1 DEF CallType
<1>4. ~GivesUp
  BY DEF Runs, GivesUp
<1> QED BY <1>1, <1>2, <1>3, <1>4 DEF TrackAt

(* Each action goes down. *)
LEMMA DownEnds ==
  ASSUME IInv, OpenFails \/ Open \/ OpenMoov \/ OpenBuffer \/ OpenError
  PROVE  Descends
<1>1. CASE OpenFails \/ OpenBuffer \/ OpenError
  <2>1. pc \in {"closed", "return"} /\ pc' \in {"open", "failed"}
    BY <1>1 DEF OpenFails, OpenBuffer, OpenError
  <2>2. Part' = 0 /\ Part > 0
    BY <2>1 DEF Part
  <2> QED BY <2>2 DEF Descends
<1>2. CASE Open
  <2>1. pc = "closed" /\ pc' = "search" /\ script = "head" /\ script' = "head"
    BY <1>2 DEF Open, Call, IInv, Calls
  <2>2. Part = 7 /\ Part' = 6
    BY <2>1 DEF Part, Failing
  <2> QED BY <2>2 DEF Descends
<1>3. CASE OpenMoov
  <2>1. pc = "return" /\ ret = "ok" /\ script = "head" /\ pc' = "search" /\ script' = "moov"
    BY <1>3 DEF OpenMoov, Call
  <2>2. Part = 6 /\ Part' < 6
    BY <2>1 DEF Part, Failing
  <2> QED BY <2>2 DEF Descends
<1> QED BY <1>1, <1>2, <1>3

(* A failure leaves nothing to do but return. *)
LEMMA DownFails ==
  ASSUME pc' = "return", ret' = "fail", pc \notin {"open", "failed"}, ~Failing
  PROVE  Descends
<1>1. Part' = 1 /\ Part > 1
  BY DEF Part, Failing
<1> QED BY <1>1 DEF Descends

LEMMA DownSearchPast ==
  ASSUME IInv, SearchPast
  PROVE  Descends
<1>1. /\ pc = "search" /\ HeaderReadable /\ fpos' = fpos + Header.size
      /\ UNCHANGED <<file, pc, script, ip, stack>> /\ stack # <<>> /\ Top.fn = "parse"
  BY DEF SearchPast, IInv, Calls
<1>2. fpos \in Nat /\ fpos' \in Nat /\ fpos < fpos' /\ fpos \in DOMAIN file.atoms
  <2>1. fpos \in Nat /\ Header.size \in Nat
    BY <1>1, SizeTyped DEF IInv, Fields, HeaderReadable
  <2> QED BY <1>1, <2>1 DEF HeaderReadable
<1>3. Runs /\ Runs'
  BY <1>1 DEF Runs
<1>4. Part' = Part /\ Opcodes' = Opcodes /\ Pending' = Pending
  BY <1>1, <1>3, RunsOn DEF IInv, Pending
<1>5. Unsearched' < Unsearched
  <2>1. End[file.id] \in Nat /\ fpos + 8 <= End[file.id]
    BY <1>2, Mp4Assumption, WholeHeaders DEF IInv, Fields
  <2> QED BY <1>1, <1>2, <2>1 DEF Unsearched, Ahead
<1>6. CASE Part = 3 /\ Len(stack) = 3
  <2>1. TrackAt = fpos /\ TrackAt' = fpos'
    BY <1>1, <1>6 DEF TrackAt
  <2>2. Tracks' < Tracks
    BY <1>1, <1>2, <1>4, <1>6, <2>1, TracksFallBehind DEF IInv
  <2> QED BY <1>4, <2>2 DEF Descends
<1>7. CASE ~(Part = 3 /\ Len(stack) = 3)
  <2>1. Part = 3 => TrackAt' = TrackAt
    <3>1. Part = 3 => Len(stack) \in Nat /\ Len(stack) >= 3 /\ TrackAt = stack[3].at
      BY <1>1, <1>3, <1>7, RunsInTrack
    <3>2. ~GivesUp'
      BY <1>1 DEF GivesUp
    <3> QED BY <1>1, <1>7, <3>1, <3>2 DEF TrackAt
  <2>2. Tracks' = Tracks
    BY <1>1, <1>4, <2>1, TracksStay
  <2> QED BY <1>4, <1>5, <2>2 DEF Descends
<1> QED BY <1>6, <1>7

LEMMA DownSearchFound ==
  ASSUME IInv, SearchFound
  PROVE  Descends
<1> DEFINE n == Len(stack)
<1>1. /\ pc = "search" /\ stack # <<>> /\ Top.fn = "parse" /\ UNCHANGED <<file, script>>
      /\ ip' = ip + 1 /\ pc' \in {"handle", "enter"}
      /\ stack' = [stack EXCEPT ![n].at = fpos, ![n].size = Header.size]
  BY DEF SearchFound, IInv, Calls
<1>2. Runs /\ Runs' /\ ~GivesUp'
  BY <1>1 DEF Runs, GivesUp
<1>3. ASSUME Part = 3
      PROVE  TrackAt \in Nat /\ TrackAt' = TrackAt
  <2>1. /\ n \in Nat /\ n >= 3 /\ TrackAt \in Nat /\ stack \in Seq(CallType) /\ fpos \in Nat
        /\ TrackAt = IF n = 3 THEN fpos ELSE stack[3].at
    BY <1>1, <1>2, <1>3, RunsInTrack DEF IInv, Fields
  <2>2. stack[n] \in CallType
    BY <2>1, ElementOfSeq
  <2> DEFINE c == [stack[n] EXCEPT !.at = fpos, !.size = Header.size]
  <2>3. Header.size \in Nat
    BY SizeTyped DEF SearchFound, HeaderReadable, IInv
  <2>4. c \in CallType /\ c.at = fpos
    BY <2>1, <2>2, <2>3 DEF CallType
  <2>5. stack' = [stack EXCEPT ![n] = c]
    BY <1>1, <2>1, <2>2 DEF CallType
  <2> HIDE DEF c
  <2>6. Len(stack') = n /\ stack'[n] = c /\ \A i \in 1 .. n : i # n => stack'[i] = stack[i]
    BY <2>1, <2>4, <2>5, ExceptSeq
  <2>7. TrackAt' = stack'[3].at
    BY <1>1, <1>2, <2>1, <2>6 DEF TrackAt
  <2> HIDE DEF n
  <2> QED BY <2>1, <2>4, <2>6, <2>7
<1> QED BY <1>1, <1>2, <1>3, ScriptMoves DEF IInv

LEMMA DownHandleOk ==
  ASSUME IInv, HandleOk
  PROVE  Descends
<1>1. /\ pc = "handle" /\ stack # <<>> /\ Top.fn = "parse" /\ UNCHANGED <<file, script, stack>>
      /\ ip' = ip + 1 /\ pc' = "enter"
  BY DEF HandleOk, IInv, Calls
<1>2. Runs /\ Runs' /\ ~GivesUp'
  BY <1>1 DEF Runs, GivesUp
<1>3. ASSUME Part = 3
      PROVE  TrackAt \in Nat /\ TrackAt' = TrackAt
  <2>1. TrackAt \in Nat /\ TrackAt = stack[3].at /\ Len(stack) >= 3 /\ Len(stack) \in Nat
    BY <1>1, <1>2, <1>3, RunsInTrack
  <2> QED BY <1>1, <1>2, <2>1 DEF TrackAt
<1> QED BY <1>1, <1>2, <1>3, ScriptMoves DEF IInv

(* A track that is given up is behind. *)
LEMMA DownHandleRefused ==
  ASSUME IInv, Going, HandleRefused \/ HandleNoMemory
  PROVE  Descends
<1>1. /\ pc = "handle" /\ stack # <<>> /\ Top.fn = "parse" /\ UNCHANGED <<file, script, ip>>
      /\ fpos' = Top.at + Top.size
  BY DEF HandleRefused, HandleNoMemory, IInv, Calls
<1>2. Give("fail") \/ (Give("unsupported") /\ Found.name = "hdlr")
  BY DEF HandleRefused, HandleNoMemory, Unsupported
<1>3. CASE Give("fail")
  BY <1>1, <1>3, DownFails DEF Give, Failing
<1>4. CASE Give("unsupported") /\ Found.name = "hdlr"
  <2>1. script = "trak"
    BY <1>1, <1>4, HandlerOnlyInTrack DEF IInv, Pace, Fields
  <2>2. pc' = "return" /\ ret' = "unsupported" /\ GivesUp'
    BY <1>4 DEF Give, GivesUp
  <2>3. Part = 3 /\ Part' = 3
    BY <1>1, <2>1, <2>2 DEF Part, Failing
  <2>4. /\ Len(stack) \in Nat /\ Len(stack) >= 3 /\ stack[3].at \in Nat
        /\ TrackAt = stack[3].at /\ TrackAt \in Nat
    BY <1>1, <2>3, RunsInTrack DEF Runs
  <2>5. /\ Top = stack[Len(stack)] /\ Top.at \in Nat /\ Top.size \in Nat
        /\ Top.at \in DOMAIN file.atoms
    BY <1>1, TopTyped DEF IInv, Pace
  <2>6. Top.size >= 8
    BY <1>1 DEF Going
  <2>7. stack[Len(stack)].at >= stack[3].at
    <3>1. Len(stack) \in 3 .. Len(stack)
      BY <2>4
    <3> QED BY <1>1, <2>1, <3>1 DEF Going
  <2>8. TrackAt' = fpos' /\ TrackAt' \in Nat /\ TrackAt < TrackAt' /\ TrackAt <= Top.at
    BY <1>1, <2>2, <2>4, <2>5, <2>6, <2>7 DEF TrackAt
  <2>9. Tracks' < Tracks
    BY <1>1, <2>3, <2>4, <2>5, <2>8, TracksFallBehind DEF IInv
  <2> QED BY <2>3, <2>9 DEF Descends
<1> QED BY <1>2, <1>3, <1>4

LEMMA DownHandleMoov ==
  ASSUME IInv, HandleMoov
  PROVE  Descends
<1>1. /\ pc = "handle" /\ Found.name = "moov" /\ pc' = "search" /\ script' = "mvhd"
  BY DEF HandleMoov, Call
<1>2. script = "moov" /\ ip = 2
  <2>1. /\ Script[script][ip - 1].op = "NAME" /\ Script[script][ip - 1].name = "moov"
        /\ WellFormed(script, ip - 1) /\ ip \in Nat
    BY <1>1, Here, ScriptForm DEF IInv, Pace, Fields
  <2> QED BY <2>1 DEF WellFormed
<1>3. Part = 5 /\ Part' = 4
  BY <1>1, <1>2 DEF Part, Failing
<1> QED BY <1>3 DEF Descends

LEMMA DownNextTrack ==
  ASSUME IInv, NextTrack
  PROVE  Descends
<1> DEFINE left == Top.at + Top.size - fpos
           c == ParseCall(fpos, left)
<1>1. /\ pc = "tracks" /\ stack # <<>> /\ Top.fn = "moovin" /\ UNCHANGED file
      /\ script' = "trak" /\ ip' = 1 /\ pc' = "search" /\ fpos' = fpos
      /\ stack' = Append(stack, c)
  BY DEF NextTrack, Call, IInv, Calls
<1>2. Len(stack) = 2 /\ script \in {"mvhd", "trak"} /\ stack \in Seq(CallType) /\ fpos \in Nat
  BY <1>1, Moovin DEF IInv, Fields, InTracks
<1>3. c \in CallType
  <2>1. left \in Int
    BY <1>1, <1>2, TopTyped DEF IInv
  <2> HIDE DEF left
  <2> QED BY <1>2, <2>1, NewCall
<1> HIDE DEF c
<1>4. Len(stack') = 3
  <2>1. Len(stack') = Len(stack) + 1
    BY <1>1, <1>2, <1>3, Pushed
  <2> QED BY <1>2, <2>1
<1>5. Part = 3 /\ Part' = 3
  BY <1>1, <1>2 DEF Part, Failing
<1>6. TrackAt' = TrackAt
  <2>1. TrackAt = fpos
    BY <1>2 DEF TrackAt
  <2>2. TrackAt' = fpos'
    BY <1>1, <1>4 DEF TrackAt
  <2> QED BY <1>1, <2>1, <2>2
<1>7. Tracks' = Tracks
  BY <1>1, <1>5, <1>6, TracksStay
<1>8. Opcodes = 33 /\ Opcodes' < 33
  <2> DEFINE n == Len(Script["trak"])
  <2>1. n \in 1 .. 33
    BY ScriptLength, Starts DEF Scripts
  <2>2. Opcodes' = n - 1
    BY <1>1 DEF Opcodes, Failing, GivesUp
  <2> HIDE DEF n
  <2>3. Opcodes = 33
    BY <1>1 DEF Opcodes, Failing, GivesUp
  <2> QED BY <2>1, <2>2, <2>3
<1> QED BY <1>5, <1>7, <1>8 DEF Descends

LEMMA DownMoovin ==
  ASSUME IInv, TracksEnd \/ ReturnToMoovin
  PROVE  Descends
<1>1. stack # <<>> /\ Top.fn = "moovin"
  BY DEF TracksEnd, ReturnToMoovin, IInv, Calls
<1>2. /\ Len(stack) = 2 /\ Top.back = <<"moov", 2>> /\ script \in {"mvhd", "trak"}
      /\ Len(Front(Front(stack))) = 0
  BY <1>1, Moovin DEF InTracks
<1>3. ASSUME MoovinOk, pc = "tracks" \/ (pc = "return" /\ ret = "ok") PROVE Descends
  <2>1. pc' = "enter" /\ script' = "moov" /\ ip' = 3
    BY <1>2, <1>3 DEF MoovinOk
  <2>2. Part' = 2 /\ Part > 2
    BY <1>2, <1>3, <2>1 DEF Part, Failing
  <2> QED BY <2>2 DEF Descends
<1>4. ASSUME MoovinFails, pc = "return" PROVE Descends
  <2>1. pc' = "return" /\ ret' = "fail" /\ stack' = Front(Front(stack))
    BY <1>4 DEF MoovinFails
  <2>2. CASE ret # "fail"
    BY <1>4, <2>1, <2>2, DownFails DEF Failing
  <2>3. CASE ret = "fail"
    <3>1. Part = 1 /\ Part' = 1 /\ Tracks = 0 /\ Tracks' = 0 /\ Opcodes = 0 /\ Opcodes' = 0
      BY <1>4, <2>1, <2>3 DEF Part, Failing, Tracks, Opcodes
    <3>2. Pending = 8 /\ Pending' = 2
      BY <1>2, <1>4, <2>1 DEF Pending
    <3> QED BY <3>1, <3>2 DEF Descends
  <2> QED BY <2>2, <2>3
<1>5. CASE TracksEnd
  BY <1>3, <1>5 DEF TracksEnd
<1>6. CASE pc = "return" /\ script = "mvhd" /\ ret = "ok" /\ pc' = "tracks" /\ script' = script
  <2>1. Part = 4 /\ Part' = 3
    BY <1>6 DEF Part, Failing
  <2> QED BY <2>1 DEF Descends
<1>7. CASE /\ pc = "return" /\ script = "trak" /\ ret = "unsupported" /\ pc' = "tracks"
           /\ UNCHANGED <<file, fpos, script, stack>>
  <2>1. Part = 3 /\ Part' = 3
    BY <1>7 DEF Part, Failing
  <2>2. TrackAt' = TrackAt
    <3>1. Len(stack) < 3 /\ Len(stack') = Len(stack)
      BY <1>2, <1>7
    <3> QED BY <1>7, <3>1 DEF TrackAt
  <2>3. Tracks' = Tracks
    BY <1>7, <2>1, <2>2, TracksStay
  <2>4. Opcodes = 34 /\ Opcodes' = 33
    BY <1>7 DEF Opcodes, Failing, GivesUp
  <2> QED BY <2>1, <2>3, <2>4 DEF Descends
<1>8. CASE ReturnToMoovin
  <2>1. ASSUME MoovinOk, ret = "ok" PROVE Descends
    BY <1>3, <1>8, <2>1 DEF ReturnToMoovin
  <2>2. CASE MoovinFails
    BY <1>4, <1>8, <2>2 DEF ReturnToMoovin
  <2> QED BY <1>6, <1>7, <1>8, <2>1, <2>2 DEF ReturnToMoovin
<1> QED BY <1>5, <1>8

LEMMA DownEnter ==
  ASSUME IInv, Enter
  PROVE  Descends
<1> DEFINE n == Len(stack)
<1>1. /\ pc = "enter" /\ pc' = "kids" /\ stack # <<>> /\ Top.fn = "parse" /\ ip' = ip + 1
      /\ stack' = [stack EXCEPT ![n].kids = fpos] /\ UNCHANGED <<file, fpos, script>>
  BY DEF Enter, IInv, Calls
<1>2. Runs /\ Runs' /\ ~GivesUp'
  BY <1>1 DEF Runs, GivesUp
<1>3. ASSUME Part = 3
      PROVE  TrackAt \in Nat /\ TrackAt' = TrackAt
  <2>1. /\ TrackAt \in Nat /\ TrackAt = stack[3].at /\ n >= 3 /\ n \in Nat
        /\ stack \in Seq(CallType) /\ fpos \in Nat
    BY <1>1, <1>2, <1>3, RunsInTrack DEF IInv, Fields
  <2>2. stack[n] \in CallType
    BY <2>1, ElementOfSeq
  <2> DEFINE c == [stack[n] EXCEPT !.kids = fpos]
  <2>3. c \in CallType /\ c.at = stack[n].at
    BY <2>1, <2>2 DEF CallType
  <2>4. stack' = [stack EXCEPT ![n] = c]
    BY <1>1, <2>1, <2>2 DEF CallType
  <2> HIDE DEF c
  <2>5. Len(stack') = n /\ stack'[n] = c /\ \A i \in 1 .. n : i # n => stack'[i] = stack[i]
    BY <2>1, <2>3, <2>4, ExceptSeq
  <2>6. TrackAt' = stack'[3].at
    BY <1>1, <1>2, <2>1, <2>5 DEF TrackAt
  <2> HIDE DEF n
  <2> QED BY <2>1, <2>3, <2>5, <2>6
<1> QED BY <1>1, <1>2, <1>3, ScriptMoves DEF IInv

(* A call of parse has returned ERR_OK. *)
LEMMA LeavesTrackBehind ==
  ASSUME IInv, Going, pc \in {"enter", "kids"}, stack # <<>>, Top.fn = "parse", Leave, Part = 3
  PROVE  TrackAt \in Nat /\ TrackAt' \in Nat /\ TrackAt <= TrackAt'
<1>1. /\ pc' = "return" /\ ret' = "ok" /\ stack' = Front(stack) /\ fpos' = Top.at + Top.size
  BY DEF Leave, Give
<1>2. /\ script = "trak" /\ Len(stack) \in Nat /\ Len(stack) >= 3
      /\ TrackAt = stack[3].at /\ TrackAt \in Nat
  BY RunsInTrack DEF Runs
<1>3. /\ Len(stack') = Len(stack) - 1
      /\ \A i \in 1 .. Len(stack) - 1 : stack'[i] = stack[i]
  BY <1>1, Popped DEF IInv, Fields
<1>4. Top = stack[Len(stack)] /\ Top.at \in Nat /\ Top.size \in Nat
  BY TopTyped DEF IInv
<1>5. CASE Len(stack) = 3
  <2>1. TrackAt' = fpos'
    BY <1>3, <1>5 DEF TrackAt
  <2> QED BY <1>1, <1>2, <1>4, <1>5, <2>1
<1>6. CASE Len(stack) # 3
  <2>1. Len(stack') >= 3 /\ Len(stack') \in Nat /\ stack'[3] = stack[3]
    BY <1>2, <1>3, <1>6
  <2>2. TrackAt' = stack'[3].at
    BY <1>1, <2>1 DEF TrackAt, GivesUp
  <2> QED BY <1>2, <2>1, <2>2
<1> QED BY <1>5, <1>6

LEMMA DownLeave ==
  ASSUME IInv, Going, Skip \/ KidsEnd
  PROVE  Descends
<1>1. /\ pc \in {"enter", "kids"} /\ stack # <<>> /\ Top.fn = "parse" /\ Leave
      /\ UNCHANGED <<file, script>> /\ ip' \in {ip, ip + 1}
  BY DEF Skip, KidsEnd, Leave, IInv, Calls
<1>2. pc' = "return" /\ ret' = "ok" /\ stack' = Front(stack)
  BY <1>1 DEF Leave, Give
<1>3. Runs /\ Runs'
  BY <1>1, <1>2 DEF Runs
<1>4. Part = 3 => TrackAt \in Nat /\ TrackAt' \in Nat /\ TrackAt <= TrackAt'
  BY <1>1, LeavesTrackBehind
<1>5. CASE ip' = ip + 1
  BY <1>1, <1>3, <1>4, <1>5, ScriptMoves DEF IInv
<1>6. CASE ip' = ip
  <2>1. Part' = Part /\ Opcodes' = Opcodes
    BY <1>1, <1>3, <1>6, RunsOn DEF IInv
  <2>2. Tracks' <= Tracks /\ Tracks' \in Nat /\ Tracks \in Nat
    <3>1. CASE Part = 3
      BY <1>1, <1>4, <2>1, <3>1, TracksFall DEF IInv
    <3>2. CASE Part # 3
      BY <2>1, <3>2 DEF Tracks
    <3> QED BY <3>1, <3>2
  <2>3. Pending' < Pending
    <3>1. Len(stack') = Len(stack) - 1 /\ Len(stack) \in Nat
      BY <1>1, <1>2, Popped DEF IInv, Fields
    <3>2. Pending' = 3 * Len(stack') + 2 /\ Pending >= 3 * Len(stack)
      BY <1>1, <1>2, <3>1 DEF Pending
    <3> QED BY <1>1, <3>1, <3>2 DEF Pending
  <2> QED BY <2>1, <2>2, <2>3 DEF Descends
<1> QED BY <1>1, <1>5, <1>6

LEMMA DownKidsNext ==
  ASSUME IInv, KidsNext
  PROVE  Descends
<1> DEFINE c == ParseCall(Top.kids, Top.size - 8)
<1>1. /\ pc = "kids" /\ pc' = "search" /\ stack # <<>> /\ Top.fn = "parse"
      /\ stack' = Append(stack, c) /\ UNCHANGED <<file, script, ip>>
  BY DEF KidsNext, Call, IInv, Calls
<1>2. /\ Len(stack) \in Nat /\ stack \in Seq(CallType) /\ c \in CallType
  BY <1>1, TopTyped, NewCall DEF IInv, Fields
<1> HIDE DEF c
<1>3. Len(stack') = Len(stack) + 1 /\ \A i \in 1 .. Len(stack) : stack'[i] = stack[i]
  BY <1>1, <1>2, Pushed
<1>4. Runs /\ Runs' /\ ~GivesUp'
  BY <1>1 DEF Runs, GivesUp
<1>5. Part' = Part /\ Opcodes' = Opcodes
  BY <1>1, <1>4, RunsOn DEF IInv
<1>6. Part = 3 => TrackAt' = TrackAt
  <2>1. SUFFICES ASSUME Part = 3 PROVE TrackAt' = TrackAt
    OBVIOUS
  <2>2. Len(stack) >= 3 /\ TrackAt = stack[3].at
    BY <1>1, <1>4, <2>1, RunsInTrack
  <2>3. Len(stack') # 3 /\ ~(Len(stack') < 3) /\ stack'[3] = stack[3]
    BY <1>2, <1>3, <2>2
  <2>4. TrackAt' = stack'[3].at
    BY <1>4, <2>3, Zenon DEF TrackAt
  <2> QED BY <2>2, <2>3, <2>4
<1>7. Tracks' = Tracks
  BY <1>1, <1>5, <1>6, TracksStay
<1>8. Pending' = 0 /\ Pending > 0
  BY <1>1, <1>2 DEF Pending
<1> QED BY <1>5, <1>7, <1>8 DEF Descends

LEMMA DownReturnToParse ==
  ASSUME IInv, Going, ReturnToParse
  PROVE  Descends
<1>1. /\ pc = "return" /\ stack # <<>> /\ Top.fn = "parse" /\ UNCHANGED <<file, fpos, script, ip>>
      /\ Len(stack) \in Nat
  BY TopTyped DEF ReturnToParse, IInv
<1>2. CASE ret = "ok" /\ pc' = "kids" /\ UNCHANGED <<stack, ret>>
  <2>1. Runs /\ Runs'
    BY <1>1, <1>2 DEF Runs
  <2>2. Part' = Part /\ Opcodes' = Opcodes
    BY <1>1, <2>1, RunsOn DEF IInv
  <2>3. TrackAt' = TrackAt
    BY <1>1, <1>2 DEF TrackAt, GivesUp
  <2>4. Tracks' = Tracks
    BY <1>1, <2>2, <2>3, TracksStay
  <2>5. Pending' < Pending
    BY <1>1, <1>2 DEF Pending
  <2> QED BY <2>2, <2>4, <2>5 DEF Descends
<1>3. CASE ret # "ok" /\ Give(ret)
  <2>1. pc' = "return" /\ ret' = ret /\ stack' = Front(stack)
    BY <1>3 DEF Give
  <2>2. Len(stack') = Len(stack) - 1
    BY <1>1, <2>1, Popped DEF IInv, Fields
  <2>3. Pending' < Pending
    BY <1>1, <2>1, <2>2 DEF Pending
  <2>4. Part' = Part /\ Opcodes' = Opcodes
    BY <1>1, <2>1 DEF Part, Opcodes, Failing, GivesUp
  <2>5. Part = 3 => TrackAt' = TrackAt
    <3>1. SUFFICES ASSUME Part = 3 PROVE TrackAt' = TrackAt
      OBVIOUS
    <3>2. GivesUp /\ GivesUp'
      <4>1. ret = "fail" => Part = 1
        BY <1>1 DEF Part, Failing
      <4>2. ret \in {"none", "ok", "fail", "unsupported"} /\ ret # "none"
        BY <1>1 DEF IInv, Fields, Going
      <4> QED BY <1>1, <1>3, <2>1, <3>1, <4>1, <4>2 DEF GivesUp
    <3> QED BY <1>1, <3>2 DEF TrackAt
  <2>6. Tracks' = Tracks
    BY <1>1, <2>4, <2>5, TracksStay
  <2> QED BY <2>3, <2>4, <2>6 DEF Descends
<1> QED BY <1>2, <1>3 DEF ReturnToParse

LEMMA Down ==
  ASSUME IInv, Going, Next
  PROVE  Descends
<1>1. CASE SearchFails
  <2>1. pc = "search" /\ pc' = "return" /\ ret' = "fail"
    BY <1>1 DEF SearchFails, Give
  <2> QED BY <2>1, DownFails DEF Failing
<1> QED BY <1>1, DownEnds, DownSearchPast, DownSearchFound, DownHandleOk, DownHandleRefused,
           DownHandleMoov, DownNextTrack, DownMoovin, DownEnter, DownLeave, DownKidsNext,
           DownReturnToParse DEF Next

(* Opening any file comes to an end: each step of mp4read_open, whatever is   *)
(* read and whether or not memory is denied, takes something off a measure    *)
(* that cannot go down for ever.  The parser may go back in the file for each *)
(* child and start the script anew for each track, but then it has come       *)
(* further in the script, or a track that was given up is behind it.          *)
THEOREM StepsRunOut ==
  /\ IsWellFoundedOn(Below(5), Measures)
  /\ Spec => [](Measure \in Measures)
  /\ Spec => [][Shrinks]_vars
<1>1. IInv => Counted
  BY MeasureTyped DEF IInv
<1>2. Counted => Measure \in Measures
  BY CountedIsMeasure
<1>3. IInv /\ Going /\ Counted /\ Counted' /\ [Next]_vars => [Shrinks]_vars
  BY Down, DescendsBelow DEF Shrinks
<1>4. Spec => [](Measure \in Measures)
  BY <1>1, <1>2, InvInit, InvStep, PTL DEF Spec
<1>5. Spec => [][Shrinks]_vars
  BY <1>1, <1>3, InvInit, InvStep, GoingInit, GoingStep, PTL DEF Spec
<1>6. IsWellFoundedOn(Below(5), Measures)
  BY BelowIsWellFounded DEF Measures
<1> QED BY <1>4, <1>5, <1>6
=============================================================================
