------------------------- MODULE MC_HybridOverSfaad -------------------------
(* Two subsongs in a file of two-sample frames; the second starts within one.*)
EXTENDS HybridOverSfaad

MCLengths == <<3, 13>>
=============================================================================
