------------------------------- MODULE MCFile -------------------------------
(* Small instances of FileManager.  No command tells one name from another, *)
(* so the names are symmetric.                                              *)
EXTENDS FileManager, TLC

NameSymmetry == Permutations(Names)
=============================================================================
