------------------------------- MODULE MCDev -------------------------------
(* Instances of MyDev for TLC: processes are interchangeable. *)
EXTENDS MyDev, TLC

ProcSymmetry == Permutations(Proc)
============================================================================
