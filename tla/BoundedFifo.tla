---------------------------- MODULE BoundedFifo ----------------------------
(***************************************************************************)
(* What the producer/consumer programs of the repository promise: a queue  *)
(* of bounded capacity whose values come out once each, in the order they  *)
(* went in.  taken is everything the consumer has had so far.              *)
(***************************************************************************)
EXTENDS Naturals, Sequences

CONSTANTS Capacity, Values

VARIABLES queue, taken

Init == queue = <<>> /\ taken = <<>>

Put ==
  /\ Len(queue) < Capacity
  /\ \E v \in Values : queue' = Append(queue, v)
  /\ UNCHANGED taken

Get ==
  /\ queue # <<>>
  /\ taken' = Append(taken, Head(queue))
  /\ queue' = Tail(queue)

Next == Put \/ Get

Spec == Init /\ [][Next]_<<queue, taken>>
=============================================================================
