--------------------------- MODULE MC_InputSfaad ---------------------------
(* Subsongs in a file of frames of two samples, two ticks to a sample: the   *)
(* inner bounds fall inside a frame and between samples, where they round up.*)
EXTENDS InputSfaad

MCLengths == <<5, 5, 10>>
MCAlbum == <<5, 5, 19>>

\* The instances are ones all the theorems of SfaadProofs speak of, unless the decoder
\* changes the rate.
ASSUME InstanceIsPlain == SameRate => Plain
=============================================================================
