--------------------------- MODULE BoundedStack ----------------------------
(***************************************************************************)
(* A stack of bounded capacity: what comes out is what went in last.        *)
(* taken is everything that has come out so far.                            *)
(***************************************************************************)
EXTENDS Naturals, Sequences

CONSTANTS Capacity, Values

VARIABLES stack, taken

Push ==
  /\ Len(stack) < Capacity
  /\ \E v \in Values : stack' = Append(stack, v)
  /\ UNCHANGED taken

Pop ==
  /\ stack # <<>>
  /\ taken' = Append(taken, stack[Len(stack)])
  /\ stack' = SubSeq(stack, 1, Len(stack) - 1)

Next == Push \/ Pop
=============================================================================
