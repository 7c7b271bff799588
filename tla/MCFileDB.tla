------------------------------ MODULE MCFileDB ------------------------------
(***************************************************************************)
(* FileDB for TLC: paths, contents and writers are interchangeable.        *)
(***************************************************************************)
EXTENDS FileDB, TLC

Symmetry == Permutations(Files) \cup Permutations(Contents) \cup Permutations(Writers)
=============================================================================
