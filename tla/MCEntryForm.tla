------------------------------ MODULE MCEntryForm ------------------------------
(* A small instance of EntryForm.                                           *)
EXTENDS EntryForm, TLC

MCSymmetry == Permutations(Values) \cup Permutations(Meanings)
=============================================================================
