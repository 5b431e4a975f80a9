--------------------------- MODULE MCRelaySession ---------------------------
(* Symmetries of RelaySession for TLC: request slots and commands are      *)
(* interchangeable.                                                        *)
EXTENDS RelaySession

MCSymmetry == Permutations(Request) \cup Permutations(Command)
=============================================================================
