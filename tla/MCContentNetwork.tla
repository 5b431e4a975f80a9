-------------------------- MODULE MCContentNetwork --------------------------
(* Two encodings of one track, of 1 and 2 bytes, and a file of another.    *)
EXTENDS ContentNetwork

CONSTANTS d1, d2, e1, trackD, trackE

MCTrackOf == (d1 :> trackD) @@ (d2 :> trackD) @@ (e1 :> trackE)
MCSize == (d1 :> 1) @@ (d2 :> 2) @@ (e1 :> 2)

MCSymmetry == Permutations(Node) \cup Permutations(Call)
=============================================================================
