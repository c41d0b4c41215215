------------------------------ MODULE MCFsDisk ------------------------------
(* FsDisk for TLC: files differ in their names only. *)
EXTENDS FsDisk, TLC

FileSymmetry == Permutations(File)
=============================================================================
