--------------------------- MODULE MCSecondProcess ---------------------------
(***************************************************************************)
(* Instances of SecondProcess for TLC.                                     *)
(***************************************************************************)
EXTENDS SecondProcess, TLC

Symmetry == Permutations(Ids) \cup Permutations(Requests)
=============================================================================
