------------------------------- MODULE MCRing -------------------------------
(* Instances of RingCopy for TLC: the input files and the calls that fail. *)
EXTENDS RingCopyInv

(* Empty, one byte short of a chunk, an exact chunk (a last chunk of 0     *)
(* bytes follows), and more chunks than the ring has slots.                *)
MCFiles == {<<0, 0>>, <<0, Chunk - 1>>, <<1, 0>>, <<3, 99>>, <<7, 100>>}

MCFaults == FaultKinds
NoFaults == {}
=============================================================================
