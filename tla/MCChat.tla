------------------------------- MODULE MCChat -------------------------------
(* ChatServer for TLC: device ids and bean ids are only compared. *)
EXTENDS ChatServer, TLC

IdSymmetry == Permutations(Devices) \cup Permutations(Seconds)
MCMaxRequests == <<3, 4, 3>>
=============================================================================
