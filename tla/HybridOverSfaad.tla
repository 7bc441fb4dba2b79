--------------------------- MODULE HybridOverSfaad ---------------------------
(***************************************************************************)
(* The two plug-ins together: input_hybrid opened on a file with a .tak    *)
(* beside it, when get_sfaad_input makes input_sfaad its input             *)
(* (input_hybrid.cpp:39-48).  InputHybrid knows input by its contract only;*)
(* here every call of it is the call of the plug-in, frame by frame, on a  *)
(* file with damaged frames, so that it shows what the wrapper does where  *)
(* the contract is not kept.  input_add remains a contract.                *)
(***************************************************************************)
EXTENDS InputSfaad

CONSTANTS
  AddLen,       \* samples the additional file holds
  MaxChunk      \* bound: samples in a chunk of either decoder

VARIABLES
  whost,        \* the wrapper: closed, opened, ready, asking (for a chunk of input),
                \* mixing, draining, broken
  isAdd,        \* is_hybrid_add: there is a .tak file
  weof, wout,   \* what the wrapper's last run returned
  apos, aend, aeof, achunk,       \* input_add
  pStart, pEnd, base,             \* chunk_add, as in InputHybrid
  todo, cur, offsets,             \* the loop of decode_run, as in InputHybrid
  heard, stale,                   \* history, as in InputHybrid
  got,          \* history: the samples of p_chunk by their content
  resumed,      \* history: input gave a chunk after its run had returned false
  fresh,        \* history: chunk_add was filled since positioned
  skews         \* history: add sample - content of the main one, for its samples

addVars == <<apos, aend, aeof, achunk>>
buffer  == <<pStart, pEnd, base>>
mixVars == <<todo, cur, offsets>>
wrapper == <<isAdd, weof, wout, addVars, buffer, mixVars, heard, stale>>
content == <<got, resumed, fresh, skews>>
wvars   == <<whost, wrapper, svars, content>>

\* input's position as its caller sees it: a chunk counts when run has returned.
MainPos == IF host = "decoding" THEN pos - build.n ELSE pos

\* InputHybrid begins with an opened file and does not watch input's run going on.
WrapperHost == IF whost = "closed" THEN "opened" ELSE IF whost = "asking" THEN "ready" ELSE whost

ASSUME CompositionAssumption ==
  AddLen \in 0 .. MaxPos /\ MaxChunk \in Nat /\ MaxChunk >= BufSize + FrameSize - 1

W == INSTANCE InputHybrid WITH
  Subsongs <- {[from |-> TimeToSamples(Until[i - 1]), to |-> TimeToSamples(Until[i])] :
                 i \in 1 .. Len(Lengths)},
  MainLen <- Playable, MainBlind <- FrameSize, MaxEnd <- MaxPos,
  host <- WrapperHost, eof <- weof, out <- wout,
  mpos <- MainPos, mend <- IF song = 0 THEN 0 ELSE endSamples, meof <- eof,
  mchunk <- [from |-> chunk.from, n |-> chunk.n]

HInit ==
  /\ SfaadInit
  /\ whost = "closed" /\ isAdd = TRUE /\ weof = FALSE /\ wout = W!NoChunk
  /\ W!Add!Init
  /\ pStart = 0 /\ pEnd = 0 /\ base = 0
  /\ todo = 0 /\ cur = 0 /\ offsets = {}
  /\ heard = 0 /\ stale = 0
  /\ got = <<>> /\ resumed = FALSE /\ fresh = FALSE /\ skews = {}
-----------------------------------------------------------------------------
\* open: input_add is open already when the main file is opened.
HOpen ==
  /\ whost = "closed"
  /\ OpenForDecoding \/ OpenThrows
  /\ whost' = host'
  /\ UNCHANGED <<wrapper, content>>

\* After either decoder was positioned at p, or input threw.
HPositioned(p) ==
  IF host' = "broken"
    THEN whost' = "broken" /\ UNCHANGED <<wrapper, content>>
    ELSE /\ whost' = "ready" /\ weof' = FALSE /\ wout' = W!NoChunk
         /\ W!AddPosition(p)
         /\ heard' = p /\ offsets' = {} /\ skews' = {} /\ got' = <<>> /\ fresh' = FALSE
         /\ resumed' = FALSE
         /\ UNCHANGED <<isAdd, todo, cur, base>>

HInitialize ==
  /\ whost \in {"opened", "ready"}
  /\ DecodeInitialize
  /\ HPositioned(TimeToSamples(Until[song' - 1]))
  /\ pStart' = 0 /\ pEnd' = 0 /\ stale' = 0

\* Mutant of HSeek: input_add is sought within the subsong, not within the album.
HSeek_InSubsong ==
  /\ whost = "ready"
  /\ DecodeSeek
  /\ HPositioned(pos' - TimeToSamples(Until[song - 1]))
  /\ IF host' = "broken" THEN TRUE
     ELSE stale' = pEnd - pStart /\ UNCHANGED <<pStart, pEnd>>

\* Both decoders round the same sum p_seconds_init + p_seconds.
HSeek ==
  /\ whost = "ready"
  /\ DecodeSeek
  /\ HPositioned(pos')
  /\ IF host' = "broken" THEN TRUE
     ELSE stale' = pEnd - pStart /\ UNCHANGED <<pStart, pEnd>>

\* An exception of input_add; the wrapper is only destroyed after it.
AddThrows ==
  /\ whost \in {"opened", "ready"} /\ whost' = "broken"
  /\ UNCHANGED <<svars, wrapper, content>>
-----------------------------------------------------------------------------
(* decode_run.  input->run is called for the chunk, and again and again when *)
(* the additional file has ended.                                            *)
AskInput ==
  /\ \/ whost = "ready" /\ ~weof /\ whost' = "asking"
     \/ whost = "draining" /\ UNCHANGED whost
  /\ CallRun
  /\ got' = <<>>
  /\ UNCHANGED <<wrapper, resumed, fresh, skews>>

\* A pass of input's loop; it returns false for an empty chunk.
InputPass ==
  /\ whost \in {"asking", "draining"}
  /\ RunFrame
  /\ got' = got \o [i \in 1 .. build'.n - build.n |-> out'.from + i - 1]

InputGoesOn ==
  /\ InputPass /\ host' = "decoding"
  /\ UNCHANGED <<whost, wrapper, resumed, fresh, skews>>

InputGives ==
  /\ InputPass /\ host' = "ready" /\ ~eof'
  /\ resumed' = (resumed \/ eof)
  /\ IF whost = "asking"
       THEN /\ whost' = "mixing"
            /\ todo' = chunk'.n /\ cur' = MainPos /\ offsets' = {}
       ELSE UNCHANGED <<whost, mixVars>>
  /\ UNCHANGED <<isAdd, weof, wout, addVars, buffer, heard, stale, fresh, skews>>

InputEnds ==
  /\ InputPass /\ host' = "ready" /\ eof'
  /\ whost' = "ready"
  /\ IF whost = "asking"
       THEN weof' = TRUE /\ wout' = W!NoChunk /\ UNCHANGED heard
       ELSE heard' = heard + wout.n /\ UNCHANGED <<weof, wout>>
  /\ UNCHANGED <<isAdd, addVars, buffer, mixVars, stale, resumed, fresh, skews>>

(* The mixing is the wrapper's own code.  What it adds to a sample is also   *)
(* compared with the sample's content, once the samples a seek has left in   *)
(* chunk_add are used up.                                                    *)
Compared ==
  /\ fresh' = (fresh \/ apos' # apos)
  /\ skews' = IF ~fresh THEN skews ELSE skews \cup
       {(base + pStart + i) - got[Len(got) - todo + i + 1] : i \in 0 .. (todo - todo') - 1}

Mixes ==
  /\ whost = "mixing"
  /\ whost' \in {"mixing", "draining", "ready"} /\ UNCHANGED <<svars, got, resumed>>
  /\ W!MixRefill \/ W!MixEnd \/ W!MixRest
  /\ Compared

MixThrows ==
  /\ whost = "mixing"
  /\ whost' = "broken" /\ UNCHANGED <<svars, got, resumed>>
  /\ W!MixThrows
  /\ Compared

HRun == AskInput \/ InputGoesOn \/ InputGives \/ InputEnds \/ Mixes

HNext == HOpen \/ HInitialize \/ HSeek \/ AddThrows \/ MixThrows \/ HRun

HSpec == HInit /\ [][HNext]_wvars

\* A called run goes on, and the host asks for the next chunk.
HFairSpec == HSpec /\ WF_wvars(HRun)
-----------------------------------------------------------------------------
(* The wrapper over the plug-in does what the wrapper over the contract does *)
(* in every step until a frame is dropped, and again once repositioned:      *)
(* InputHybrid's assumptions of input hold where input_sfaad is used.        *)
IsHybrid == W!Init /\ [][displaced' # 0 \/ W!Next]_(W!vars)

(* What is added to a sample is its own remainder, but for the samples a seek*)
(* left in chunk_add and the frames input has dropped since: each dropped    *)
(* frame shifts all that follow it until the next initialize or seek.        *)
SkewExplained ==
  ~aeof => skews \subseteq {-(stale + d) : d \in 0 .. displaced}

(* Once the additional file has ended no more of the main one is mixed, until*)
(* positioned again.  The exception is a dropped frame: draining takes a     *)
(* chunk that begins with an undecodable one for the end of input, the next  *)
(* call gets what follows, and the last chunk of input_add is added to it    *)
(* once more (p_start was reset, p_end was not).                             *)
EndIsFinal == (aeof /\ whost = "mixing") => (resumed /\ displaced > 0)

(* Over input_sfaad, too, a host that keeps asking gets to the end, whatever *)
(* frames are damaged.                                                       *)
HPlaysOut == (whost = "ready") ~> (weof \/ whost = "broken")
=============================================================================
