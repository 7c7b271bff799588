--------------------------- MODULE MCConfigServer ---------------------------
(* Instances of ConfigServer for TLC.                                      *)
EXTENDS History, TLC

Symmetry == Permutations(Workers) \cup Permutations(Data) \cup Permutations(Names)
=============================================================================
