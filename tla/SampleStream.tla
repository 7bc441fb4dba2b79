---------------------------- MODULE SampleStream ----------------------------
(***************************************************************************)
(* What an input_decoder promises to the component that drives it          *)
(* (initialize, seek and run of foobar2000/SDK/input.h): positioned by     *)
(* initialize() or seek(), each run() hands out the samples that follow,   *)
(* none left out, none repeated, none past the end of the subsong, until   *)
(* it reports that there are no more.                                      *)
(*                                                                         *)
(* foo_input_hybrid relies on this of the two decoders it mixes, and       *)
(* foo_input_sfaad is shown to implement it.                               *)
(***************************************************************************)
EXTENDS Integers

CONSTANTS
  Length,   \* samples the source holds, an integer
  Blind,    \* positions below it may report the end at once (0: none may)
  MaxEnd    \* bound: the largest position or end the driver asks for

VARIABLES
  pos,      \* the next sample run() will hand out
  end,      \* end of the subsong
  eof,      \* run() has reported the end since the last seek or initialize
  chunk     \* what the last call handed out: its first sample and their number

vars == <<pos, end, eof, chunk>>

Empty == [from |-> 0, n |-> 0]

Init == pos = 0 /\ end = 0 /\ eof = FALSE /\ chunk = Empty

\* initialize() or seek() that succeeds.
Position(p, e) ==
  /\ p <= e
  /\ pos' = p /\ end' = e /\ eof' = FALSE /\ chunk' = Empty

\* run() that returns true.
Deliver(n) ==
  /\ ~eof /\ n > 0 /\ pos + n <= end /\ pos + n <= Length
  /\ chunk' = [from |-> pos, n |-> n]
  /\ pos' = pos + n
  /\ UNCHANGED <<end, eof>>

\* All that can be handed out was, or the position is a blind one.
Exhausted == pos >= end \/ pos >= Length \/ pos < Blind

\* run() that returns false.
Finish ==
  /\ ~eof /\ Exhausted
  /\ eof' = TRUE /\ chunk' = Empty
  /\ UNCHANGED <<pos, end>>

Next ==
  \/ \E p, e \in 0 .. MaxEnd : Position(p, e)
  \/ \E n \in 1 .. MaxEnd : Deliver(n)
  \/ Finish

Spec == Init /\ [][Next]_vars
=============================================================================
