--------------------------- MODULE MC_InputHybrid ---------------------------
(* An album of two subsongs whose additional file is a little shorter.      *)
EXTENDS InputHybrid

MCSubsongs == {[from |-> 0, to |-> 3], [from |-> 3, to |-> 8]}
=============================================================================
