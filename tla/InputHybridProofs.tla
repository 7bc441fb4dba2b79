-------------------------- MODULE InputHybridProofs --------------------------
(***************************************************************************)
(* Proofs about the mixing of input_hybrid: for any two decoders that keep *)
(* to their contract, of any length, with chunks of any sizes, the streams *)
(* are in step unless a seek has found samples in chunk_add; the host gets *)
(* the main stream in order and up to the end of the shorter one, in       *)
(* finitely many steps (ChunksRunOut).                                     *)
(***************************************************************************)
EXTENDS InputHybrid, NatLemmas, TLAPS

\* What the two decoders and the wrapper return when there is nothing to return.
LEMMA Blank ==
  /\ Main!Empty \in [from : Nat, n : Nat] /\ Main!Empty.n = 0
  /\ Add!Empty \in [from : Nat, n : Nat]
  /\ NoChunk \in [ret : BOOLEAN, from : Int, n : Int] /\ NoChunk.n = 0
BY DEF Main!Empty, Add!Empty, NoChunk

\* Positions stay within the album.
LEMMA PositionType ==
  ASSUME TypeOK, NEW p \in 0 .. MaxEnd, NEW e \in 0 .. MaxEnd,
         Main!Position(p, e), IF isAdd THEN AddPosition(p) ELSE UNCHANGED addVars,
         Positioned(p), stale' \in Nat, pStart' \in Nat, pEnd' \in 0 .. MaxChunk,
         pStart' <= pEnd', base' = base
  PROVE  TypeOK'
<1>1. mpos' \in 0 .. MaxEnd /\ mend' \in 0 .. MaxEnd /\ meof' \in BOOLEAN
      /\ mchunk' \in [from : Nat, n : Nat]
  BY Blank DEF Main!Position
<1>2. /\ apos' \in 0 .. MaxEnd /\ aend' \in 0 .. MaxEnd /\ aeof' \in BOOLEAN
      /\ achunk' \in [from : Nat, n : Nat]
  <2>1. CASE isAdd
    <3>1. Min2(p, AddLen) \in 0 .. MaxEnd /\ AddLen \in 0 .. MaxEnd
      BY HybridAssumption DEF Min2
    <3> QED BY <2>1, <3>1, Blank DEF AddPosition, Add!Position
  <2>2. CASE ~isAdd
    BY <2>2 DEF TypeOK, addVars
  <2> QED BY <2>1, <2>2
<1>3. /\ host' \in {"opened", "ready", "mixing", "draining", "broken"}
      /\ eof' \in BOOLEAN /\ isAdd' \in BOOLEAN
      /\ offsets' \subseteq Int /\ out' \in [ret : BOOLEAN, from : Int, n : Int]
  BY Blank DEF TypeOK, Positioned
<1>4. /\ base' \in Nat /\ todo' \in Nat /\ cur' \in Nat
      /\ heard' \in Int /\ seeks' \in Nat
  BY HybridAssumption DEF TypeOK, Positioned
<1> QED BY <1>1, <1>2, <1>3, <1>4 DEF TypeOK

\* Every step keeps the types.
LEMMA TypeStep == TypeOK /\ [Next]_vars => TypeOK'
<1> SUFFICES ASSUME TypeOK, [Next]_vars PROVE TypeOK'
  OBVIOUS
<1>1. CASE DecodeInitialize
  <2>1. PICK s \in Subsongs :
          /\ Main!Position(s.from, s.to)
          /\ IF isAdd THEN AddPosition(s.from) ELSE UNCHANGED addVars
          /\ Positioned(s.from)
    BY <1>1 DEF DecodeInitialize
  <2>2. s.from \in 0 .. MaxEnd /\ s.to \in 0 .. MaxEnd
    BY HybridAssumption
  <2>3. /\ stale' \in Nat /\ pStart' \in Nat /\ pEnd' \in 0 .. MaxChunk
        /\ pStart' <= pEnd' /\ base' = base
    BY <1>1, HybridAssumption DEF DecodeInitialize, TypeOK
  <2> QED BY <2>1, <2>2, <2>3, PositionType
<1>2. CASE DecodeSeek
  <2>1. PICK p \in 0 .. mend :
          /\ Main!Position(p, mend)
          /\ IF isAdd THEN AddPosition(p) ELSE UNCHANGED addVars
          /\ Positioned(p)
    BY <1>2 DEF DecodeSeek
  <2>2. p \in 0 .. MaxEnd /\ mend \in 0 .. MaxEnd
    BY HybridAssumption DEF TypeOK
  <2>3. /\ stale' \in Nat /\ pStart' \in Nat /\ pEnd' \in 0 .. MaxChunk
        /\ pStart' <= pEnd' /\ base' = base
    BY <1>2 DEF DecodeSeek, TypeOK, buffer
  <2> QED BY <2>1, <2>2, <2>3, PositionType
<1>3. CASE CallThrows
  BY <1>3 DEF CallThrows, Throw, TypeOK, mainVars, addVars, buffer, mixVars, hostVars
<1>4. CASE RunPlain
  BY <1>4, HybridAssumption DEF RunPlain, Main!Deliver, TypeOK, addVars, buffer, mixVars
<1>5. CASE RunStart
  BY <1>5, HybridAssumption DEF RunStart, Main!Deliver, TypeOK, addVars, buffer, hostVars
<1>6. CASE RunEnd
  <2>1. /\ mpos' \in 0 .. MaxEnd /\ mend' \in 0 .. MaxEnd /\ meof' \in BOOLEAN
        /\ mchunk' \in [from : Nat, n : Nat]
    BY <1>6, Blank DEF RunEnd, MainFinish, Main!Finish, TypeOK, mainVars
  <2> QED BY <1>6, <2>1, Blank DEF RunEnd, TypeOK, addVars, buffer, mixVars
<1>7. CASE MixRefill
  BY <1>7, HybridAssumption DEF MixRefill, Mix, Left, Add!Deliver, TypeOK, mainVars, hostVars
<1>8. CASE MixEnd
  <2>1. /\ apos' \in 0 .. MaxEnd /\ aend' \in 0 .. MaxEnd /\ aeof' \in BOOLEAN
        /\ achunk' \in [from : Nat, n : Nat]
    BY <1>8, Blank DEF MixEnd, AddFinish, Add!Finish, TypeOK, addVars
  <2> QED BY <1>8, <2>1 DEF MixEnd, Mix, Left, TypeOK, mainVars
<1>9. CASE MixThrows
  BY <1>9 DEF MixThrows, Mix, Left, Throw, TypeOK, mainVars, addVars, hostVars
<1>10. CASE MixRest
  BY <1>10 DEF MixRest, Mix, Left, TypeOK, mainVars, addVars
<1>11. CASE DrainMore
  BY <1>11, HybridAssumption DEF DrainMore, Main!Deliver, TypeOK, addVars, buffer, mixVars, hostVars
<1>12. CASE DrainEnd
  <2>1. /\ mpos' \in 0 .. MaxEnd /\ mend' \in 0 .. MaxEnd /\ meof' \in BOOLEAN
        /\ mchunk' \in [from : Nat, n : Nat]
    BY <1>12, Blank DEF DrainEnd, MainFinish, Main!Finish, TypeOK, mainVars
  <2> QED BY <1>12, <2>1 DEF DrainEnd, TypeOK, addVars, buffer, mixVars
<1>13. CASE DrainThrows
  BY <1>13 DEF DrainThrows, Throw, TypeOK, mainVars, addVars, buffer, mixVars, hostVars
<1>14. CASE UNCHANGED vars
  BY <1>14 DEF vars, TypeOK, mainVars, addVars, buffer, mixVars, hostVars
<1> QED
  BY <1>1, <1>2, <1>3, <1>4, <1>5, <1>6, <1>7, <1>8, <1>9, <1>10, <1>11, <1>12, <1>13,
     <1>14
  DEF Next, DecodeRun

LEMMA TypeInit == Init => TypeOK
<1> SUFFICES ASSUME Init PROVE TypeOK
  OBVIOUS
<1>1. mchunk \in [from : Nat, n : Nat] /\ achunk \in [from : Nat, n : Nat]
  BY Blank DEF Init, Main!Init, Add!Init
<1>2. out \in [ret : BOOLEAN, from : Int, n : Int]
  BY Blank DEF Init
<1>3. /\ host \in {"opened", "ready", "mixing", "draining", "broken"} /\ offsets \subseteq Int
      /\ eof \in BOOLEAN /\ isAdd \in BOOLEAN
      /\ meof \in BOOLEAN /\ aeof \in BOOLEAN
  BY DEF Init, Main!Init, Add!Init
<1>4. /\ mpos \in 0 .. MaxEnd /\ mend \in 0 .. MaxEnd /\ apos \in 0 .. MaxEnd
      /\ aend \in 0 .. MaxEnd /\ pStart \in Nat /\ pEnd \in 0 .. MaxChunk
      /\ pStart <= pEnd /\ base \in Nat /\ todo \in Nat /\ cur \in Nat
      /\ heard \in Int /\ stale \in Nat /\ seeks \in Nat
  BY HybridAssumption DEF Init, Main!Init, Add!Init
<1> QED BY <1>1, <1>2, <1>3, <1>4 DEF TypeOK
-----------------------------------------------------------------------------
(* The other parts of the invariant, one lemma per action.                   *)

\* Both decoders stand at the position asked for, or input_add at its end.
LEMMA Repositions ==
  ASSUME IInv, TypeOK', NEW p \in Nat, NEW e \in Nat, Main!Position(p, e),
         IF isAdd THEN AddPosition(p) ELSE UNCHANGED addVars,
         Positioned(p), isAdd => Left' = stale'
  PROVE  IInv'
<1>1. /\ mpos' = p /\ ~meof' /\ host' = "ready" /\ isAdd' = isAdd /\ ~eof'
      /\ heard' = p /\ offsets' = {} /\ out'.n = 0
  BY DEF Main!Position, Positioned, NoChunk
<1>2. IF isAdd THEN apos' = Min2(p, AddLen) /\ aend' = AddLen /\ ~aeof'
               ELSE UNCHANGED aeof
  BY DEF AddPosition, Add!Position, addVars
<1>3. Phases'
  BY <1>1, <1>2 DEF IInv, Phases
<1>4. InStep'
  <2>1. isAdd' => apos' = (IF p <= AddLen THEN p ELSE AddLen) /\ Left' = stale'
    BY <1>1, <1>2 DEF Min2
  <2>2. stale' \in Nat
    BY DEF TypeOK
  <2> QED BY <1>1, <2>1, <2>2, HybridAssumption DEF InStep, Mixes, NextMain, NextAdd
<1>5. BufferIsTail'
  BY <1>1 DEF BufferIsTail, Mixes
<1>6. Delivery' /\ MixAligned' /\ InOrder' /\ EndsWithShorter'
  BY <1>1 DEF Delivery, MixAligned, InOrder, EndsWithShorter
<1> QED BY <1>3, <1>4, <1>5, <1>6 DEF IInv

\* decode_initialize leaves nothing in chunk_add.
LEMMA DecodeInitializeStep == ASSUME IInv, TypeOK', DecodeInitialize PROVE IInv'
<1>1. PICK s \in Subsongs :
        /\ Main!Position(s.from, s.to)
        /\ IF isAdd THEN AddPosition(s.from) ELSE UNCHANGED addVars
        /\ Positioned(s.from)
  BY DEF DecodeInitialize
<1>2. s.from \in Nat /\ s.to \in Nat
  BY HybridAssumption
<1>3. isAdd => Left' = stale'
  BY DEF DecodeInitialize, Left
<1> QED BY <1>1, <1>2, <1>3, Repositions

\* decode_seek leaves there what is then called stale.
LEMMA DecodeSeekStep == ASSUME IInv, TypeOK', DecodeSeek PROVE IInv'
<1>1. PICK p \in 0 .. mend :
        /\ Main!Position(p, mend)
        /\ IF isAdd THEN AddPosition(p) ELSE UNCHANGED addVars
        /\ Positioned(p)
  BY DEF DecodeSeek
<1>2. p \in Nat /\ mend \in Nat
  BY HybridAssumption DEF IInv, TypeOK
<1>3. Left' = stale'
  BY DEF DecodeSeek, Left, buffer
<1> QED BY <1>1, <1>2, <1>3, Repositions

\* After an exception nothing is claimed but the pairs mixed so far.
LEMMA CallThrowsStep == ASSUME IInv, TypeOK', CallThrows PROVE IInv'
<1>1. /\ host' = "broken" /\ UNCHANGED <<isAdd, offsets, stale, eof>>
      /\ aeof' = aeof
  BY DEF CallThrows, Throw, addVars, mixVars
<1> QED
  BY <1>1 DEF IInv, Phases, InStep, Mixes, BufferIsTail, Delivery, MixAligned, InOrder,
              EndsWithShorter

\* Without an additional file the chunk is passed on.
LEMMA RunPlainStep == ASSUME IInv, TypeOK', RunPlain PROVE IInv'
<1>1. Phases' /\ InStep' /\ BufferIsTail' /\ MixAligned'
  BY DEF RunPlain, addVars, mixVars, IInv, Phases, InStep, Mixes, BufferIsTail, MixAligned
<1>2. Delivery' /\ InOrder'
  BY DEF RunPlain, Main!Deliver, IInv, TypeOK, Delivery, InOrder
<1>3. EndsWithShorter'
  BY DEF RunPlain, EndsWithShorter
<1> QED BY <1>1, <1>2, <1>3 DEF IInv

\* A chunk of input is taken: the next sample to be mixed is its first.
LEMMA RunStartStep == ASSUME IInv, TypeOK', RunStart PROVE IInv'
<1>1. Phases'
  BY DEF RunStart, Main!Deliver, addVars, IInv, Phases, TypeOK
<1>2. InStep' /\ BufferIsTail'
  BY DEF RunStart, addVars, buffer, IInv, InStep, BufferIsTail, Mixes, NextMain,
         NextAdd, Left
<1>3. Delivery'
  <2>1. PICK n \in 1 .. MaxChunk : Main!Deliver(n)
    BY DEF RunStart
  <2>2. /\ host' = "mixing" /\ heard' = mpos /\ mpos' = mpos + n /\ mchunk'.n = n
        /\ n \in Int /\ mpos \in Int
    BY <2>1, HybridAssumption DEF RunStart, Main!Deliver, hostVars, IInv, Delivery, TypeOK
  <2> QED BY <2>2 DEF Delivery
<1>4. MixAligned' /\ InOrder' /\ EndsWithShorter'
  BY DEF RunStart, MixAligned, InOrder, EndsWithShorter
<1> QED BY <1>1, <1>2, <1>3, <1>4 DEF IInv

\* input has ended, or was drained before.
LEMMA RunEndStep == ASSUME IInv, TypeOK', RunEnd PROVE IInv'
<1>1. /\ host = "ready" /\ host' = "ready" /\ ~eof /\ eof' /\ meof'
      /\ out'.n = 0 /\ UNCHANGED <<mpos, mend, heard, isAdd, offsets, stale>>
      /\ UNCHANGED <<apos, aend, aeof, base, pStart, pEnd>>
      /\ meof \/ mpos >= mend \/ mpos >= MainLen \/ mpos < MainBlind
  BY DEF RunEnd, MainFinish, Main!Finish, Main!Exhausted, NoChunk, mainVars, addVars,
         buffer, mixVars
<1>2. Phases' /\ BufferIsTail' /\ MixAligned' /\ InOrder' /\ Delivery'
  BY <1>1 DEF IInv, Phases, BufferIsTail, Mixes, Left, MixAligned, InOrder, Delivery
<1>3. InStep'
  BY <1>1 DEF IInv, InStep, Mixes, NextMain, NextAdd, Left
<1>4. EndsWithShorter'
  BY <1>1, HybridAssumption DEF IInv, TypeOK, Delivery, EndsWithShorter, Min2
<1> QED BY <1>2, <1>3, <1>4 DEF IInv

\* chunk_add is used up: the samples mixed are the last before input_add's position,
\* which is where the new chunk_add begins.
LEMMA MixRefillStep == ASSUME IInv, TypeOK', MixRefill PROVE IInv'
<1>1. PICK n \in 1 .. MaxChunk : Add!Deliver(n) /\ pEnd' = n
  BY DEF MixRefill
<1>2. /\ host = "mixing" /\ host' = "mixing" /\ pStart' = 0 /\ pEnd' = n /\ n \in Nat
      /\ apos' = apos + n /\ base' = apos /\ apos + n <= aend /\ n > 0
      /\ UNCHANGED <<isAdd, aeof, aend, eof, mpos, mend, meof, mchunk, heard, out, stale>>
      /\ cur' = cur + Left /\ todo' = todo - Left
      /\ offsets' = IF Left = 0 THEN offsets ELSE offsets \cup {(base + pStart) - cur}
  BY <1>1, HybridAssumption DEF MixRefill, Mix, Add!Deliver, mainVars, hostVars
<1>3. Phases'
  BY <1>2 DEF IInv, TypeOK, Phases, Left
<1>4. InStep'
  BY <1>2, HybridAssumption
  DEF IInv, TypeOK, Phases, InStep, Mixes, NextMain, NextAdd, Left
<1>5. BufferIsTail'
  BY <1>2 DEF IInv, TypeOK, BufferIsTail, Left
<1>6. MixAligned'
  BY <1>2, HybridAssumption
  DEF IInv, TypeOK, Phases, InStep, BufferIsTail, MixAligned, Mixes, NextMain, NextAdd, Left
<1>7. Delivery' /\ InOrder' /\ EndsWithShorter'
  BY <1>2 DEF IInv, Delivery, InOrder, EndsWithShorter
<1> QED BY <1>3, <1>4, <1>5, <1>6, <1>7 DEF IInv

\* input_add has no more: what was mixed reaches up to its length.
LEMMA MixEndStep == ASSUME IInv, TypeOK', MixEnd PROVE IInv'
<1>1. /\ host = "mixing" /\ host' = "draining" /\ aeof'
      /\ apos >= aend \/ apos >= AddLen \/ apos < 0 \/ aeof
      /\ UNCHANGED <<isAdd, apos, aend, eof, mpos, mend, meof, mchunk, heard, stale>>
      /\ todo' = todo - Left
      /\ offsets' = IF Left = 0 THEN offsets ELSE offsets \cup {(base + pStart) - cur}
      /\ out'.from = mpos - mchunk.n /\ out'.n = mchunk.n - todo'
  BY DEF MixEnd, Mix, AddFinish, Add!Finish, Add!Exhausted, mainVars, addVars
<1>2. Phases' /\ InStep' /\ BufferIsTail' /\ InOrder' /\ EndsWithShorter'
  BY <1>1 DEF IInv, Phases, InStep, BufferIsTail, Mixes, InOrder, EndsWithShorter
<1>3. MixAligned'
  BY <1>1, HybridAssumption
  DEF IInv, TypeOK, Phases, InStep, BufferIsTail, MixAligned, Mixes, NextMain, NextAdd, Left
<1>4. Delivery'
  BY <1>1, HybridAssumption
  DEF IInv, TypeOK, Phases, InStep, Delivery, Mixes, NextMain, NextAdd, Left
<1> QED BY <1>2, <1>3, <1>4 DEF IInv

\* The pairs mixed before an exception were right.
LEMMA MixThrowsStep == ASSUME IInv, TypeOK', MixThrows PROVE IInv'
<1>1. /\ host = "mixing" /\ host' = "broken" /\ UNCHANGED <<isAdd, aeof, stale>>
      /\ offsets' = IF Left = 0 THEN offsets ELSE offsets \cup {(base + pStart) - cur}
  BY DEF MixThrows, Mix, Throw, addVars
<1>2. /\ Phases' /\ InStep' /\ BufferIsTail' /\ Delivery' /\ InOrder'
      /\ EndsWithShorter'
  BY <1>1 DEF IInv, Phases, InStep, Mixes, BufferIsTail, Delivery, InOrder, EndsWithShorter
<1>3. MixAligned'
  BY <1>1, HybridAssumption
  DEF IInv, TypeOK, Phases, InStep, BufferIsTail, MixAligned, Mixes, NextMain, NextAdd, Left
<1> QED BY <1>2, <1>3 DEF IInv

\* Both streams move on by what is left of the chunk.
LEMMA MixRestStep == ASSUME IInv, TypeOK', MixRest PROVE IInv'
<1>1. /\ host = "mixing" /\ host' = "ready" /\ todo <= Left /\ pStart' = pStart + todo
      /\ UNCHANGED <<isAdd, apos, aend, aeof, eof, mpos, mend, meof, base, pEnd, stale>>
      /\ offsets' = IF todo = 0 THEN offsets ELSE offsets \cup {(base + pStart) - cur}
      /\ out'.from = mpos - mchunk.n /\ out'.n = mchunk.n /\ heard' = heard + mchunk.n
  BY DEF MixRest, Mix, mainVars, addVars
<1>2. Phases'
  BY <1>1 DEF IInv, Phases
<1>3. InStep'
  BY <1>1, HybridAssumption
  DEF IInv, TypeOK, Phases, InStep, Mixes, NextMain, NextAdd, Left
<1>4. BufferIsTail'
  BY <1>1 DEF IInv, TypeOK, BufferIsTail, Mixes, Left
<1>5. MixAligned'
  BY <1>1, HybridAssumption
  DEF IInv, TypeOK, Phases, InStep, BufferIsTail, MixAligned, Mixes, NextMain, NextAdd, Left
<1>6. Delivery' /\ InOrder' /\ EndsWithShorter'
  BY <1>1 DEF IInv, TypeOK, Phases, Delivery, InOrder, EndsWithShorter
<1> QED BY <1>2, <1>3, <1>4, <1>5, <1>6 DEF IInv

\* Draining moves input only.
LEMMA DrainMoreStep == ASSUME IInv, TypeOK', DrainMore PROVE IInv'
<1>1. /\ host = "draining" /\ host' = "draining"
      /\ UNCHANGED <<isAdd, aeof, aend, eof, out, heard, stale, offsets>>
  BY DEF DrainMore, addVars, mixVars, hostVars
<1> QED
  BY <1>1 DEF IInv, Phases, InStep, Mixes, BufferIsTail, Delivery, MixAligned, InOrder,
              EndsWithShorter

\* The cut chunk is lost; nothing more is mixed.
LEMMA DrainThrowsStep == ASSUME IInv, TypeOK', DrainThrows PROVE IInv'
<1>1. /\ host = "draining" /\ host' = "broken" /\ UNCHANGED <<isAdd, offsets, stale, eof>>
      /\ aeof' = aeof
  BY DEF DrainThrows, Throw, addVars, mixVars
<1> QED
  BY <1>1 DEF IInv, Phases, InStep, Mixes, BufferIsTail, Delivery, MixAligned, InOrder,
              EndsWithShorter

\* The cut chunk is returned.
LEMMA DrainEndStep == ASSUME IInv, TypeOK', DrainEnd PROVE IInv'
<1>1. /\ host = "draining" /\ host' = "ready" /\ meof' /\ heard' = heard + out.n
      /\ UNCHANGED <<isAdd, aeof, aend, eof, out, stale, offsets>>
  BY DEF DrainEnd, MainFinish, Main!Finish, mainVars, addVars, mixVars
<1>2. Phases' /\ InStep' /\ BufferIsTail' /\ MixAligned'
  BY <1>1 DEF IInv, Phases, InStep, BufferIsTail, Mixes, MixAligned
<1>3. Delivery' /\ InOrder' /\ EndsWithShorter'
  BY <1>1 DEF IInv, TypeOK, Phases, Delivery, InOrder, EndsWithShorter
<1> QED BY <1>2, <1>3 DEF IInv
-----------------------------------------------------------------------------
\* The initial states: nothing has been positioned yet.
LEMMA IInvInit == Init => IInv
<1> SUFFICES ASSUME Init PROVE IInv
  OBVIOUS
<1>1. TypeOK
  BY TypeInit
<1>2. host = "opened" /\ ~eof /\ ~aeof /\ offsets = {}
  BY DEF Init, Add!Init
<1> QED
  BY <1>1, <1>2 DEF IInv, Phases, InStep, Mixes, BufferIsTail, Delivery, MixAligned,
                    InOrder, EndsWithShorter

\* Every step keeps the invariant.
LEMMA IInvStep == IInv /\ [Next]_vars => IInv'
<1> SUFFICES ASSUME IInv, [Next]_vars PROVE IInv'
  OBVIOUS
<1>1. TypeOK'
  BY TypeStep DEF IInv
<1>2. CASE DecodeInitialize
  BY <1>1, <1>2, DecodeInitializeStep
<1>3. CASE DecodeSeek
  BY <1>1, <1>3, DecodeSeekStep
<1>4. CASE CallThrows
  BY <1>1, <1>4, CallThrowsStep
<1>5. CASE DecodeRun
  BY <1>1, <1>5, RunPlainStep, RunStartStep, RunEndStep, MixRefillStep, MixEndStep,
     MixRestStep, DrainMoreStep, DrainEndStep DEF DecodeRun
<1>6. CASE MixThrows \/ DrainThrows
  BY <1>1, <1>6, MixThrowsStep, DrainThrowsStep
<1>7. CASE UNCHANGED vars
  BY <1>1, <1>7
  DEF vars, mainVars, addVars, buffer, mixVars, hostVars, IInv, Phases, InStep, Mixes,
      NextMain, NextAdd, Left, BufferIsTail, Delivery, MixAligned, InOrder, EndsWithShorter
<1> QED BY <1>2, <1>3, <1>4, <1>5, <1>6, <1>7 DEF Next

(* The variables of the wrapper keep their types: in particular chunk_add's  *)
(* indices never cross, and no position leaves the album.                    *)
THEOREM TypeCorrect == Spec => []TypeOK
BY TypeInit, TypeStep, PTL DEF Spec

(* The inductive invariant of decode_run.                                    *)
THEOREM Inductive == Spec => []IInv
BY IInvInit, IInvStep, PTL DEF Spec

(* A seek puts the streams out of step by exactly what was left in chunk_add.*)
THEOREM SkewIsLeftoverHolds == Spec => []SkewIsLeftover
<1>1. IInv => SkewIsLeftover
  BY HybridAssumption DEF IInv, InStep, Mixes, SkewIsLeftover, TypeOK, NextMain
<1> QED BY <1>1, Inductive, PTL

(* Until then every sample is added to its own remainder.                    *)
THEOREM MixAlignedHolds == Spec => []MixAligned
<1>1. IInv => MixAligned
  BY DEF IInv
<1> QED BY <1>1, Inductive, PTL

(* The host gets the samples of the main stream in order.                    *)
THEOREM InOrderHolds == Spec => []InOrder
<1>1. IInv => InOrder
  BY DEF IInv
<1> QED BY <1>1, Inductive, PTL

(* The end is not reported before the shorter stream ends.                   *)
THEOREM EndsWithShorterHolds == Spec => []EndsWithShorter
<1>1. IInv => EndsWithShorter
  BY DEF IInv
<1> QED BY <1>1, Inductive, PTL
-----------------------------------------------------------------------------
(* That decode_run comes to an end, and the stream.                          *)

\* What is left, in this order: an exception, samples of input and of input_add, and
\* parts of decode_run.
Life     == IF host = "broken" THEN 0 ELSE 1
MainLeft == MaxEnd - mpos
AddLeft  == MaxEnd - apos
Part     == IF host = "mixing" THEN 3 ELSE IF host = "draining" THEN 2
            ELSE IF eof THEN 0 ELSE 1
ToPlay   == <<Life, MainLeft, AddLeft, Part>>

PlaysOn == <<ToPlay', ToPlay>> \in Below(4)

Natural == Life \in Nat /\ MainLeft \in Nat /\ AddLeft \in Nat /\ Part \in Nat

LEMMA TypesCount == TypeOK => Natural
  BY HybridAssumption DEF TypeOK, Natural, Life, MainLeft, AddLeft, Part

LEMMA NaturalIsMeasure == Natural => ToPlay \in [1 .. 4 -> Nat]
<1>1. \A a, b, c, d \in Nat : <<a, b, c, d>> \in [1 .. 4 -> Nat]
  OBVIOUS
<1> QED BY <1>1 DEF Natural, ToPlay

\* A decoder that returns true has come further.
LEMMA MainDelivers ==
  ASSUME TypeOK, NEW n \in 1 .. MaxChunk, Main!Deliver(n)
  PROVE  MainLeft' < MainLeft
  BY HybridAssumption DEF TypeOK, Main!Deliver, MainLeft

LEMMA AddDelivers ==
  ASSUME TypeOK, NEW n \in 1 .. MaxChunk, Add!Deliver(n)
  PROVE  AddLeft' < AddLeft
  BY HybridAssumption DEF TypeOK, Add!Deliver, AddLeft

LEMMA PlaysStep ==
  ASSUME TypeOK, Next
  PROVE  \/ seeks' = seeks + 1
         \/ Life' < Life
         \/ Life' = Life /\ MainLeft' < MainLeft
         \/ Life' = Life /\ MainLeft' = MainLeft /\ AddLeft' < AddLeft
         \/ Life' = Life /\ MainLeft' = MainLeft /\ AddLeft' = AddLeft /\ Part' < Part
<1>1. CASE DecodeInitialize \/ DecodeSeek
  BY <1>1 DEF DecodeInitialize, DecodeSeek, Positioned
<1>2. CASE CallThrows \/ MixThrows \/ DrainThrows
  BY <1>2 DEF CallThrows, MixThrows, DrainThrows, Throw, Life
<1>3. CASE RunPlain \/ RunStart \/ DrainMore
  <2>1. host # "broken" /\ host' # "broken"
    BY <1>3 DEF RunPlain, RunStart, DrainMore
  <2>2. MainLeft' < MainLeft
    BY <1>3, MainDelivers DEF RunPlain, RunStart, DrainMore
  <2> QED BY <2>1, <2>2 DEF Life
<1>4. CASE MixRefill
  <2>1. host = "mixing" /\ host' = "mixing" /\ mpos' = mpos
    BY <1>4 DEF MixRefill, mainVars
  <2>2. AddLeft' < AddLeft
    BY <1>4, AddDelivers DEF MixRefill
  <2> QED BY <2>1, <2>2 DEF Life, MainLeft
<1>5. CASE MixEnd \/ MixRest
  <2>1. /\ host = "mixing" /\ host' \in {"draining", "ready"} /\ mpos' = mpos /\ apos' = apos
    BY <1>5 DEF MixEnd, MixRest, AddFinish, Add!Finish, mainVars, addVars
  <2>2. Part' < Part
    BY <2>1 DEF Part
  <2> QED BY <2>1, <2>2 DEF Life, MainLeft, AddLeft
<1>6. CASE RunEnd \/ DrainEnd
  <2>1. /\ host \in {"ready", "draining"} /\ host' = "ready" /\ mpos' = mpos /\ apos' = apos
        /\ host = "ready" => ~eof /\ eof'
    BY <1>6 DEF RunEnd, DrainEnd, MainFinish, Main!Finish, mainVars, addVars
  <2>2. Part' < Part
    BY <2>1 DEF Part
  <2> QED BY <2>1, <2>2 DEF Life, MainLeft, AddLeft
<1> QED BY <1>1, <1>2, <1>3, <1>4, <1>5, <1>6 DEF Next, DecodeRun

(* Every call of decode_run comes to an end, and so does the stream: the loop *)
(* that mixes and the one that drains input, and the calls of a host that     *)
(* does not seek, each take something off a measure that cannot go down for   *)
(* ever, for decoders of any length that return samples or the end.           *)
THEOREM ChunksRunOut ==
  /\ IsWellFoundedOn(Below(4), [1 .. 4 -> Nat])
  /\ Spec => [](ToPlay \in [1 .. 4 -> Nat])
  /\ Spec => [][seeks' = seeks + 1 \/ PlaysOn]_vars
<1>1. TypeOK /\ Natural /\ Natural' /\ [Next]_vars => [seeks' = seeks + 1 \/ PlaysOn]_vars
  <2>1. SUFFICES ASSUME TypeOK, Natural, Natural', Next, seeks' # seeks + 1
                 PROVE  PlaysOn
    OBVIOUS
  <2>2. <<<<Life', MainLeft', AddLeft', Part'>>, <<Life, MainLeft, AddLeft, Part>>>> \in Below(4)
    BY <2>1, PlaysStep, LowersFour DEF Natural
  <2> QED BY <2>2 DEF PlaysOn, ToPlay
<1>2. Spec => [](TypeOK /\ Natural)
  BY TypeCorrect, TypesCount, PTL
<1>3. Spec => [](ToPlay \in [1 .. 4 -> Nat])
  BY <1>2, NaturalIsMeasure, PTL
<1>4. Spec => [][seeks' = seeks + 1 \/ PlaysOn]_vars
  BY <1>1, <1>2, PTL DEF Spec
<1>5. IsWellFoundedOn(Below(4), [1 .. 4 -> Nat])
  BY BelowIsWellFounded
<1> QED BY <1>3, <1>4, <1>5
=============================================================================
