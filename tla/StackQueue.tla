---------------------------- MODULE StackQueue -----------------------------
(***************************************************************************)
(* The two queues of C++/classroom_experiment, each made of two bounded     *)
(* stacks (STACK.cpp): QUE2S holds both as members, QUEIS inherits the      *)
(* first one.  They differ in the loop of operator>>.  inherited says which *)
(* of the two classes the queue is.  The calls are the menus of main.cpp;   *)
(* copying and assigning a queue are left out, since STACK::operator= copies*)
(* through an uninitialised pos and a pointer that is not an array.         *)
(***************************************************************************)
EXTENDS Integers, Sequences

CONSTANTS
  Elem,      \* values put into a queue
  M,         \* capacity given to the constructor
  MaxTaken   \* bound on the values taken out

ASSUME CapacityAssumption == M \in Int

VARIABLES
  inherited, \* the class: QUEIS (TRUE) or QUE2S (FALSE)
  s1, s2,    \* contents of the two stacks, the top last
  pc,        \* "ready", or inside operator>>: "moving"
  i,         \* the loop counter of operator>>
  taken      \* history: what operator>> has delivered

vars == <<inherited, s1, s2, pc, i, taken>>

\* STACK::STACK: a negative size gives a stack of size 0.
max == IF M > 0 THEN M ELSE 0

\* STACK::operator<<: a push on a full stack is ignored.
Push(s, x) == IF Len(s) >= max THEN s ELSE Append(s, x)

\* STACK::operator>>: 0 comes out of an empty stack.
Top(s) == IF s = <<>> THEN 0 ELSE s[Len(s)]
Pop(s) == IF s = <<>> THEN s ELSE SubSeq(s, 1, Len(s) - 1)

\* operator int
HowMany == Len(s1) + Len(s2)

Init ==
  /\ inherited \in BOOLEAN
  /\ s1 = <<>> /\ s2 = <<>>
  /\ pc = "ready" /\ i = 0
  /\ taken = <<>>

\* mutant: looks only at the first stack
EnqueueFirstOnly(x) ==
  /\ pc = "ready"
  /\ s1' = Push(s1, x)
  /\ UNCHANGED <<inherited, s2, pc, i, taken>>

\* operator<<; when the queue is full nothing happens.
Enqueue(x) ==
  /\ pc = "ready"
  /\ HowMany < max
  /\ s1' = Push(s1, x)
  /\ UNCHANGED <<inherited, s2, pc, i, taken>>

Deliver ==
  /\ taken' = Append(taken, Top(s2))
  /\ s2' = Pop(s2)
  /\ pc' = "ready" /\ i' = 0

\* operator>> with something in the second stack
DequeueSecond ==
  /\ pc = "ready" /\ Len(taken) < MaxTaken
  /\ s2 # <<>>
  /\ Deliver
  /\ UNCHANGED <<inherited, s1>>

\* mutant: QUE2S leaves one element in the first stack
LoopStartOneShort == IF inherited THEN Len(s2) ELSE Len(s1) - 2

\* mutant: QUEIS counts the stack it empties
LoopStartFirst == Len(s1) - 1

\* for(i = (int)s1 - 1; ...) in QUE2S, for(i = (int)s; ...) in QUEIS
LoopStart == IF inherited THEN Len(s2) ELSE Len(s1) - 1

\* operator>> with an empty second stack: the loop begins.
DequeueFirst ==
  /\ pc = "ready" /\ Len(taken) < MaxTaken
  /\ HowMany # 0 /\ s2 = <<>>
  /\ pc' = "moving"
  /\ i' = LoopStart
  /\ UNCHANGED <<inherited, s1, s2, taken>>

\* s1>>temp; s2<<temp;
MoveOne ==
  /\ pc = "moving" /\ i >= 0
  /\ s1' = Pop(s1)
  /\ s2' = Push(s2, Top(s1))
  /\ i' = i - 1
  /\ UNCHANGED <<inherited, pc, taken>>

\* after the loop: s2>>e
MoveDone ==
  /\ pc = "moving" /\ i < 0
  /\ Deliver
  /\ UNCHANGED <<inherited, s1>>

Next ==
  \/ \E x \in Elem : Enqueue(x)
  \/ DequeueSecond \/ DequeueFirst \/ MoveOne \/ MoveDone

Spec == Init /\ [][Next]_vars

----------------------------------------------------------------------------
(* Properties *)

\* Types; the two stacks together never hold more than one of them can, so
\* that moving all of the first into the second loses nothing.
TypeOK ==
  /\ inherited \in BOOLEAN
  /\ s1 \in Seq(Elem) /\ s2 \in Seq(Elem)
  /\ HowMany <= max
  /\ pc \in {"ready", "moving"}
  /\ i \in Int
  /\ taken \in Seq(Elem)

\* What waits in QUE2S, the oldest first.  Between calls the second stack,
\* from its top down, is older than the first; what the loop has already
\* moved is younger than what it has not.
Reversed(s) == [k \in 1 .. Len(s) |-> s[Len(s) + 1 - k]]
Waiting == IF pc = "moving" THEN s1 \o Reversed(s2) ELSE Reversed(s2) \o s1

Fifo == INSTANCE BoundedFifo WITH Capacity <- max, Values <- Elem, queue <- Waiting
Lifo == INSTANCE BoundedStack WITH Capacity <- max, Values <- Elem, stack <- s1 \o s2

\* QUE2S is a bounded queue: operator<< appends, operator>> delivers the
\* oldest value once, and no step of its loop loses, repeats or reorders one
\* (QUE2S.cpp lines 17-39).
Que2sIsQueue == Fifo!Init /\ [][inherited \/ Fifo!Next]_<<Waiting, taken>>

\* QUEIS is a bounded stack: its loop runs from the size of the second stack,
\* which is 0, so that one value is moved and operator>> delivers the newest
\* one (QUEIS.cpp lines 26-43).
QueisIsStack == [][~inherited \/ Lifo!Next]_<<s1 \o s2, taken>>
============================================================================
