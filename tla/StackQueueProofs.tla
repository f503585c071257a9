------------------------- MODULE StackQueueProofs --------------------------
(***************************************************************************)
(* For every capacity and every set of values: QUE2S implements a bounded   *)
(* queue and QUEIS a bounded stack.                                         *)
(***************************************************************************)
EXTENDS StackQueue, SequenceTheorems, TLAPS

\* Where the loop of operator>> stands says what is in the stacks.
LoopInv ==
  /\ pc = "moving" /\ ~inherited => i = Len(s1) - 1 /\ HowMany >= 1
  /\ pc = "moving" /\ inherited =>
       \/ i = 0 /\ s2 = <<>> /\ s1 # <<>>
       \/ i = -1 /\ Len(s2) = 1
  /\ pc = "ready" /\ inherited => s2 = <<>>

QueueInv == TypeOK /\ LoopInv

\* The constructor's size is a natural number whatever it is given.
LEMMA MaxNat == max \in Nat
  BY CapacityAssumption DEF max

\* Sequences are equal when their lengths and elements are.
LEMMA SameElements ==
  ASSUME NEW S, NEW s \in Seq(S), NEW t \in Seq(S), Len(s) = Len(t),
         \A k \in 1 .. Len(s) : s[k] = t[k]
  PROVE  s = t
  OBVIOUS

\* Push on a stack with room.
LEMMA PushRoom ==
  ASSUME NEW s \in Seq(Elem), NEW x \in Elem, Len(s) < max
  PROVE  /\ Push(s, x) \in Seq(Elem) /\ Len(Push(s, x)) = Len(s) + 1
         /\ Push(s, x)[Len(s) + 1] = x
         /\ \A k \in 1 .. Len(s) : Push(s, x)[k] = s[k]
  <1>1. Push(s, x) = Append(s, x)
    BY MaxNat DEF Push
  <1> QED BY <1>1

\* Pop of a stack with something in it.
LEMMA PopSome ==
  ASSUME NEW s \in Seq(Elem), s # <<>>
  PROVE  /\ Pop(s) \in Seq(Elem) /\ Len(Pop(s)) = Len(s) - 1 /\ Len(s) >= 1
         /\ \A k \in 1 .. Len(s) - 1 : Pop(s)[k] = s[k]
         /\ Top(s) = s[Len(s)] /\ Top(s) \in Elem
  <1>1. Pop(s) = SubSeq(s, 1, Len(s) - 1) /\ Top(s) = s[Len(s)]
    BY DEF Pop, Top
  <1>2. Len(s) \in Nat /\ Len(s) >= 1
    OBVIOUS
  <1>3. /\ SubSeq(s, 1, Len(s) - 1) \in Seq(Elem)
        /\ Len(SubSeq(s, 1, Len(s) - 1)) = Len(s) - 1
        /\ \A k \in 1 .. Len(s) - 1 : SubSeq(s, 1, Len(s) - 1)[k] = s[k]
    <2> DEFINE n == Len(s) - 1
    <2>1. 1 \in 1 .. Len(s) + 1 /\ n \in 1 - 1 .. Len(s) /\ (n - 1) + 1 = n
      BY <1>2
    <2>2. \A k \in 1 .. n : 1 + k - 1 = k
      BY <1>2
    <2> HIDE DEF n
    <2>3. /\ SubSeq(s, 1, n) \in Seq(Elem)
          /\ Len(SubSeq(s, 1, n)) = (n - 1) + 1
          /\ \A k \in 1 .. (n - 1) + 1 : SubSeq(s, 1, n)[k] = s[1 + k - 1]
      BY <2>1, SubSeqProperties
    <2> QED BY <2>1, <2>2, <2>3 DEF n
  <1>4. s[Len(s)] \in Elem
    BY <1>2
  <1> QED BY <1>1, <1>2, <1>3, <1>4

\* Reversing keeps the length and mirrors the places.
LEMMA ReversedIs ==
  ASSUME NEW s \in Seq(Elem)
  PROVE  /\ Reversed(s) \in Seq(Elem) /\ Len(Reversed(s)) = Len(s)
         /\ \A k \in 1 .. Len(s) : Reversed(s)[k] = s[Len(s) + 1 - k]
  <1>1. \A k \in 1 .. Len(s) : s[Len(s) + 1 - k] \in Elem
    OBVIOUS
  <1>2. Reversed(s) \in [1 .. Len(s) -> Elem] /\ Len(s) \in Nat
    BY <1>1 DEF Reversed
  <1>3. Reversed(s) \in Seq(Elem) /\ Len(Reversed(s)) = Len(s)
    BY <1>2
  <1> QED BY <1>3 DEF Reversed

\* Concatenation, element by element.
LEMMA Joined ==
  ASSUME NEW s \in Seq(Elem), NEW t \in Seq(Elem)
  PROVE  /\ s \o t \in Seq(Elem) /\ Len(s \o t) = Len(s) + Len(t)
         /\ \A k \in 1 .. Len(s) : (s \o t)[k] = s[k]
         /\ \A k \in Len(s) + 1 .. Len(s) + Len(t) : (s \o t)[k] = t[k - Len(s)]
  OBVIOUS

----------------------------------------------------------------------------
(* The invariant *)

\* The constructors establish the invariant.
LEMMA QueueInit == Init => QueueInv
  BY MaxNat DEF Init, QueueInv, TypeOK, LoopInv, HowMany

\* Every step of << and >> keeps it: the loop counter of operator>> says how
\* much the loop has still to move.
LEMMA QueueStep == QueueInv /\ [Next]_vars => QueueInv'
  <1> SUFFICES ASSUME QueueInv, [Next]_vars PROVE QueueInv'
    OBVIOUS
  <1> USE MaxNat DEF QueueInv, TypeOK, LoopInv, HowMany
  <1>1. ASSUME NEW x \in Elem, Enqueue(x) PROVE QueueInv'
    <2>1. s1' \in Seq(Elem) /\ Len(s1') = Len(s1) + 1
      BY <1>1, PushRoom DEF Enqueue
    <2> QED BY <1>1, <2>1 DEF Enqueue
  <1>2. CASE DequeueSecond
    <2>1. s2' \in Seq(Elem) /\ Len(s2') = Len(s2) - 1 /\ Top(s2) \in Elem
      BY <1>2, PopSome DEF DequeueSecond, Deliver
    <2> QED BY <1>2, <2>1 DEF DequeueSecond, Deliver
  <1>3. CASE DequeueFirst
    BY <1>3 DEF DequeueFirst, LoopStart
  <1>4. CASE MoveOne
    <2>1. s1 # <<>> /\ Len(s1) >= 1
      BY <1>4 DEF MoveOne
    <2>2. s1' \in Seq(Elem) /\ Len(s1') = Len(s1) - 1 /\ Top(s1) \in Elem
      BY <1>4, <2>1, PopSome DEF MoveOne
    <2>3. Len(s2) < max
      BY <2>1
    <2>4. s2' \in Seq(Elem) /\ Len(s2') = Len(s2) + 1
      BY <1>4, <2>2, <2>3, PushRoom DEF MoveOne
    <2> QED BY <1>4, <2>1, <2>2, <2>4 DEF MoveOne
  <1>5. CASE MoveDone
    <2>1. s2 # <<>>
      <3>1. \/ Len(s1) + Len(s2) >= 1 /\ i = Len(s1) - 1 /\ i < 0
            \/ (Len(s2) = 1 \/ i = 0) /\ i < 0
        BY <1>5, Zenon DEF MoveDone
      <3>2. Len(s1) \in Nat /\ Len(s2) \in Nat
        OBVIOUS
      <3>3. Len(s2) # 0
        BY ONLY <3>1, <3>2
      <3> QED BY <3>3
    <2>2. s2' \in Seq(Elem) /\ Len(s2') = Len(s2) - 1 /\ Top(s2) \in Elem
      BY <1>5, <2>1, PopSome DEF MoveDone, Deliver
    <2>3. inherited => s2' = <<>>
      <3>1. inherited => Len(s2) = 1
        BY <1>5 DEF MoveDone
      <3>2. inherited => Len(s2') = 0
        BY <2>2, <3>1
      <3> QED BY <2>2, <3>2
    <2>4. taken' \in Seq(Elem)
      BY <1>5, <2>2 DEF MoveDone, Deliver
    <2> QED BY <1>5, <2>2, <2>3, <2>4 DEF MoveDone, Deliver
  <1>6. CASE UNCHANGED vars
    BY <1>6 DEF vars
  <1> QED BY <1>1, <1>2, <1>3, <1>4, <1>5, <1>6 DEF Next

\* TypeOK of StackQueue: in particular the values of both stacks always fit
\* into one.
THEOREM QueueTypes == Spec => []TypeOK
  <1>1. QueueInv => TypeOK
    BY DEF QueueInv
  <1> QED BY <1>1, QueueInit, QueueStep, PTL DEF Spec

----------------------------------------------------------------------------
(* QUE2S is a queue *)

\* The elements of Waiting between calls.
LEMMA WaitingReady ==
  ASSUME NEW a \in Seq(Elem), NEW b \in Seq(Elem)
  PROVE  /\ Reversed(b) \o a \in Seq(Elem) /\ Len(Reversed(b) \o a) = Len(b) + Len(a)
         /\ \A k \in 1 .. Len(b) : (Reversed(b) \o a)[k] = b[Len(b) + 1 - k]
         /\ \A k \in Len(b) + 1 .. Len(b) + Len(a) : (Reversed(b) \o a)[k] = a[k - Len(b)]
  <1> DEFINE r == Reversed(b)
  <1>1. r \in Seq(Elem) /\ Len(r) = Len(b) /\ \A k \in 1 .. Len(b) : r[k] = b[Len(b) + 1 - k]
    BY ReversedIs
  <1> HIDE DEF r
  <1>2. /\ r \o a \in Seq(Elem) /\ Len(r \o a) = Len(r) + Len(a)
        /\ \A k \in 1 .. Len(r) : (r \o a)[k] = r[k]
        /\ \A k \in Len(r) + 1 .. Len(r) + Len(a) : (r \o a)[k] = a[k - Len(r)]
    BY <1>1, Joined
  <1>3. /\ r \o a \in Seq(Elem) /\ Len(r \o a) = Len(b) + Len(a)
        /\ \A k \in 1 .. Len(b) : (r \o a)[k] = b[Len(b) + 1 - k]
        /\ \A k \in Len(b) + 1 .. Len(b) + Len(a) : (r \o a)[k] = a[k - Len(b)]
    BY <1>1, <1>2
  <1> QED BY <1>3 DEF r

\* The same inside the loop.
LEMMA WaitingMoving ==
  ASSUME NEW a \in Seq(Elem), NEW b \in Seq(Elem)
  PROVE  /\ a \o Reversed(b) \in Seq(Elem) /\ Len(a \o Reversed(b)) = Len(a) + Len(b)
         /\ \A k \in 1 .. Len(a) : (a \o Reversed(b))[k] = a[k]
         /\ \A k \in Len(a) + 1 .. Len(a) + Len(b) :
              (a \o Reversed(b))[k] = b[Len(b) + 1 - (k - Len(a))]
  <1> DEFINE r == Reversed(b)
  <1>1. r \in Seq(Elem) /\ Len(r) = Len(b) /\ \A k \in 1 .. Len(b) : r[k] = b[Len(b) + 1 - k]
    BY ReversedIs
  <1> HIDE DEF r
  <1>2. /\ a \o r \in Seq(Elem) /\ Len(a \o r) = Len(a) + Len(r)
        /\ \A k \in 1 .. Len(a) : (a \o r)[k] = a[k]
        /\ \A k \in Len(a) + 1 .. Len(a) + Len(r) : (a \o r)[k] = r[k - Len(a)]
    BY <1>1, Joined
  <1>3. \A k \in Len(a) + 1 .. Len(a) + Len(b) : k - Len(a) \in 1 .. Len(b)
    OBVIOUS
  <1>4. /\ a \o r \in Seq(Elem) /\ Len(a \o r) = Len(a) + Len(b)
        /\ \A k \in 1 .. Len(a) : (a \o r)[k] = a[k]
        /\ \A k \in Len(a) + 1 .. Len(a) + Len(b) : (a \o r)[k] = b[Len(b) + 1 - (k - Len(a))]
    BY <1>1, <1>2, <1>3
  <1> QED BY <1>4 DEF r

\* What Append does, element by element.
LEMMA AppendIs ==
  ASSUME NEW s \in Seq(Elem), NEW x \in Elem
  PROVE  /\ Append(s, x) \in Seq(Elem) /\ Len(Append(s, x)) = Len(s) + 1
         /\ \A k \in 1 .. Len(s) : Append(s, x)[k] = s[k]
         /\ Append(s, x)[Len(s) + 1] = x
  OBVIOUS

\* Head and Tail, element by element.
LEMMA TailIs ==
  ASSUME NEW s \in Seq(Elem), s # <<>>
  PROVE  /\ Tail(s) \in Seq(Elem) /\ Len(Tail(s)) = Len(s) - 1
         /\ \A k \in 1 .. Len(s) - 1 : Tail(s)[k] = s[k + 1]
         /\ Head(s) = s[1]
  OBVIOUS

\* Between calls: what << does to the waiting values.
LEMMA WaitingPut ==
  ASSUME NEW a \in Seq(Elem), NEW b \in Seq(Elem), NEW c \in Seq(Elem), NEW x \in Elem,
         Len(c) = Len(a) + 1, c[Len(a) + 1] = x, \A k \in 1 .. Len(a) : c[k] = a[k]
  PROVE  Reversed(b) \o c = Append(Reversed(b) \o a, x)
  <1> DEFINE w == Reversed(b) \o a
             v == Reversed(b) \o c
             u == Append(w, x)
  <1>1. /\ w \in Seq(Elem) /\ Len(w) = Len(b) + Len(a)
        /\ \A k \in 1 .. Len(b) : w[k] = b[Len(b) + 1 - k]
        /\ \A k \in Len(b) + 1 .. Len(b) + Len(a) : w[k] = a[k - Len(b)]
    BY WaitingReady
  <1>2. /\ v \in Seq(Elem) /\ Len(v) = Len(b) + Len(c)
        /\ \A k \in 1 .. Len(b) : v[k] = b[Len(b) + 1 - k]
        /\ \A k \in Len(b) + 1 .. Len(b) + Len(c) : v[k] = c[k - Len(b)]
    BY WaitingReady
  <1> HIDE DEF w, v
  <1>3. /\ u \in Seq(Elem) /\ Len(u) = Len(w) + 1
        /\ \A k \in 1 .. Len(w) : u[k] = w[k]
        /\ u[Len(w) + 1] = x
    BY <1>1, AppendIs
  <1> HIDE DEF u
  <1>4. Len(v) = Len(u)
    BY <1>1, <1>2, <1>3
  <1>5. ASSUME NEW k \in 1 .. Len(v) PROVE v[k] = u[k]
    <2>1. CASE k \in 1 .. Len(b)
      BY <1>1, <1>2, <1>3, <2>1
    <2>2. CASE k \in Len(b) + 1 .. Len(b) + Len(a)
      <3>1. k - Len(b) \in 1 .. Len(a)
        BY <2>2
      <3>2. v[k] = c[k - Len(b)] /\ c[k - Len(b)] = a[k - Len(b)]
        BY <1>2, <2>2, <3>1
      <3>3. u[k] = w[k] /\ w[k] = a[k - Len(b)]
        BY <1>1, <1>3, <2>2
      <3> QED BY <3>2, <3>3
    <2>3. CASE k = Len(b) + Len(a) + 1
      <3>1. k - Len(b) = Len(a) + 1 /\ k \in Len(b) + 1 .. Len(b) + Len(c)
        BY <2>3
      <3> QED BY <1>1, <1>2, <1>3, <2>3, <3>1
    <2>4. k \in Int /\ k >= 1 /\ k <= Len(b) + Len(a) + 1 /\ Len(a) \in Nat /\ Len(b) \in Nat
      BY <1>2
    <2>5. \/ k \in 1 .. Len(b) \/ k \in Len(b) + 1 .. Len(b) + Len(a)
          \/ k = Len(b) + Len(a) + 1
      BY <2>4
    <2> QED BY <2>1, <2>2, <2>3, <2>5
  <1>6. v = u
    BY <1>2, <1>3, <1>4, <1>5, SameElements
  <1> QED BY <1>6 DEF v, u, w

\* Between calls: what taking the top of the second stack does to them.
LEMMA WaitingGet ==
  ASSUME NEW a \in Seq(Elem), NEW b \in Seq(Elem), b # <<>>
  PROVE  LET w == Reversed(b) \o a
         IN  w # <<>> /\ Head(w) = Top(b) /\ Reversed(Pop(b)) \o a = Tail(w)
  <1> DEFINE w == Reversed(b) \o a
             d == Pop(b)
             v == Reversed(d) \o a
             u == Tail(w)
  <1>0. /\ d \in Seq(Elem) /\ Len(d) = Len(b) - 1 /\ Len(b) >= 1 /\ Len(b) \in Nat /\ Len(a) \in Nat
        /\ \A k \in 1 .. Len(b) - 1 : d[k] = b[k]
        /\ Top(b) = b[Len(b)]
    BY PopSome
  <1> HIDE DEF d
  <1>1. /\ w \in Seq(Elem) /\ Len(w) = Len(b) + Len(a)
        /\ \A k \in 1 .. Len(b) : w[k] = b[Len(b) + 1 - k]
        /\ \A k \in Len(b) + 1 .. Len(b) + Len(a) : w[k] = a[k - Len(b)]
    BY WaitingReady
  <1>2. /\ v \in Seq(Elem) /\ Len(v) = Len(d) + Len(a)
        /\ \A k \in 1 .. Len(d) : v[k] = d[Len(d) + 1 - k]
        /\ \A k \in Len(d) + 1 .. Len(d) + Len(a) : v[k] = a[k - Len(d)]
    BY <1>0, WaitingReady
  <1> HIDE DEF w, v
  <1>3. w # <<>>
    BY <1>0, <1>1
  <1>4. /\ u \in Seq(Elem) /\ Len(u) = Len(w) - 1
        /\ \A k \in 1 .. Len(w) - 1 : u[k] = w[k + 1]
        /\ Head(w) = w[1]
    BY <1>1, <1>3, TailIs
  <1> HIDE DEF u
  <1>5. Head(w) = Top(b)
    BY <1>0, <1>1, <1>4
  <1>6. Len(v) = Len(u)
    BY <1>0, <1>1, <1>2, <1>4
  <1>7. ASSUME NEW k \in 1 .. Len(v) PROVE v[k] = u[k]
    <2>0. k \in Nat /\ k >= 1 /\ k <= Len(w) - 1 /\ u[k] = w[k + 1]
      BY <1>0, <1>1, <1>2, <1>4
    <2>1. CASE k <= Len(d)
      <3>1. v[k] = d[Len(d) + 1 - k] /\ Len(d) + 1 - k \in 1 .. Len(b) - 1
        <4>1. \A m, n \in Int : 1 <= n /\ n <= m =>
                n \in 1 .. m /\ m + 1 - n \in 1 .. m
          OBVIOUS
        <4>2. Len(d) \in Int /\ k \in Int /\ 1 <= k /\ k <= Len(d)
          BY <1>0, <2>0, <2>1
        <4>3. k \in 1 .. Len(d) /\ Len(d) + 1 - k \in 1 .. Len(d)
          BY ONLY <4>1, <4>2
        <4>4. v[k] = d[Len(d) + 1 - k]
          BY ONLY <1>2, <4>3
        <4> QED BY ONLY <1>0, <4>3, <4>4
      <3>2. k + 1 \in 1 .. Len(b) /\ Len(b) + 1 - (k + 1) = Len(d) + 1 - k
        <4>1. \A m, n \in Int : 1 <= n /\ n <= m - 1 =>
                n + 1 \in 1 .. m /\ m + 1 - (n + 1) = (m - 1) + 1 - n
          OBVIOUS
        <4>2. Len(b) \in Int /\ k \in Int /\ 1 <= k /\ k <= Len(b) - 1 /\ Len(d) = Len(b) - 1
          BY <1>0, <2>0, <2>1
        <4> QED BY ONLY <4>1, <4>2
      <3>3. w[k + 1] = b[Len(b) + 1 - (k + 1)]
        BY <1>1, <3>2
      <3> QED BY <1>0, <2>0, <3>1, <3>2, <3>3
    <2>2. CASE k > Len(d)
      <3>0. k <= (Len(b) + Len(a)) - 1
        BY <1>1, <2>0
      <3>1. /\ k \in Len(d) + 1 .. Len(d) + Len(a)
            /\ k + 1 \in Len(b) + 1 .. Len(b) + Len(a)
            /\ (k + 1) - Len(b) = k - Len(d)
        BY <1>0, <2>0, <2>2, <3>0
      <3>2. v[k] = a[k - Len(d)]
        BY <1>2, <3>1
      <3>3. w[k + 1] = a[(k + 1) - Len(b)]
        BY <1>1, <3>1
      <3> QED BY <2>0, <3>1, <3>2, <3>3
    <2> QED BY <1>0, <2>0, <2>1, <2>2
  <1>8. v = u
    BY <1>2, <1>4, <1>6, <1>7, SameElements
  <1> QED BY <1>3, <1>5, <1>8 DEF v, u, w, d

\* Inside the loop: moving one value from the first stack to the second does
\* not change the waiting values.
LEMMA WaitingMove ==
  ASSUME NEW a \in Seq(Elem), NEW b \in Seq(Elem), a # <<>>, Len(b) < max
  PROVE  Pop(a) \o Reversed(Push(b, Top(a))) = a \o Reversed(b)
  <1> DEFINE d == Pop(a)
             e == Push(b, Top(a))
             w == a \o Reversed(b)
             v == d \o Reversed(e)
  <1>0. /\ d \in Seq(Elem) /\ Len(d) = Len(a) - 1 /\ Len(a) >= 1 /\ Len(b) \in Nat /\ Len(a) \in Nat
        /\ \A k \in 1 .. Len(a) - 1 : d[k] = a[k]
        /\ Top(a) = a[Len(a)] /\ Top(a) \in Elem
    BY PopSome
  <1>1. /\ e \in Seq(Elem) /\ Len(e) = Len(b) + 1 /\ e[Len(b) + 1] = Top(a)
        /\ \A k \in 1 .. Len(b) : e[k] = b[k]
    BY <1>0, PushRoom
  <1> HIDE DEF d, e
  <1>2. /\ w \in Seq(Elem) /\ Len(w) = Len(a) + Len(b)
        /\ \A k \in 1 .. Len(a) : w[k] = a[k]
        /\ \A k \in Len(a) + 1 .. Len(a) + Len(b) : w[k] = b[Len(b) + 1 - (k - Len(a))]
    BY WaitingMoving
  <1>3. /\ v \in Seq(Elem) /\ Len(v) = Len(d) + Len(e)
        /\ \A k \in 1 .. Len(d) : v[k] = d[k]
        /\ \A k \in Len(d) + 1 .. Len(d) + Len(e) : v[k] = e[Len(e) + 1 - (k - Len(d))]
    BY <1>0, <1>1, WaitingMoving
  <1> HIDE DEF w, v
  <1>4. Len(v) = Len(w)
    BY <1>0, <1>1, <1>2, <1>3
  <1>5. ASSUME NEW k \in 1 .. Len(v) PROVE v[k] = w[k]
    <2>0. k \in Nat /\ k >= 1 /\ k <= Len(a) + Len(b)
      BY <1>0, <1>2, <1>4
    <2>1. CASE k < Len(a)
      <3>1. k \in 1 .. Len(a) /\ k \in 1 .. Len(d) /\ k \in 1 .. Len(a) - 1
        BY <1>0, <2>0, <2>1
      <3>2. v[k] = d[k] /\ w[k] = a[k] /\ d[k] = a[k]
        BY <1>0, <1>2, <1>3, <3>1
      <3> QED BY <3>2
    <2>2. CASE k = Len(a)
      <3>1. /\ k \in Len(d) + 1 .. Len(d) + Len(e) /\ k \in 1 .. Len(a)
            /\ Len(e) + 1 - (k - Len(d)) = Len(b) + 1
        BY <1>0, <1>1, <2>0, <2>2
      <3>2. v[k] = e[Len(e) + 1 - (k - Len(d))]
        BY <1>3, <3>1
      <3>3. w[k] = a[k]
        BY <1>2, <3>1
      <3> QED BY <1>0, <1>1, <2>2, <3>1, <3>2, <3>3
    <2>3. CASE k > Len(a)
      <3>1. /\ k \in Len(d) + 1 .. Len(d) + Len(e)
            /\ k \in Len(a) + 1 .. Len(a) + Len(b)
            /\ Len(e) + 1 - (k - Len(d)) = Len(b) + 1 - (k - Len(a))
            /\ Len(b) + 1 - (k - Len(a)) \in 1 .. Len(b)
        BY <1>0, <1>1, <2>0, <2>3
      <3>2. v[k] = e[Len(e) + 1 - (k - Len(d))]
        BY <1>3, <3>1
      <3>3. w[k] = b[Len(b) + 1 - (k - Len(a))]
        BY <1>2, <3>1
      <3> QED BY <1>1, <3>1, <3>2, <3>3
    <2> QED BY <1>0, <2>0, <2>1, <2>2, <2>3
  <1>6. v = w
    BY <1>2, <1>3, <1>4, <1>5, SameElements
  <1> QED BY <1>6 DEF v, w, d, e

\* With nothing in one of the stacks the two orders agree.
LEMMA WaitingEmpty ==
  ASSUME NEW a \in Seq(Elem)
  PROVE  /\ Reversed(<<>>) \o a = a \o Reversed(<<>>)
         /\ <<>> \o Reversed(a) = Reversed(a) \o <<>>
  <1>1. <<>> \in Seq(Elem) /\ Len(<<>>) = 0
    BY EmptySeq
  <1>2. Reversed(<<>>) = <<>>
    <2>1. \A s \in Seq(Elem) : Len(s) = 0 => Reversed(s) = <<>>
      <3> SUFFICES ASSUME NEW s \in Seq(Elem), Len(s) = 0 PROVE Reversed(s) = <<>>
        OBVIOUS
      <3>1. Reversed(s) \in Seq(Elem) /\ Len(Reversed(s)) = 0
        BY ReversedIs
      <3> QED BY <3>1
    <2> QED BY <1>1, <2>1
  <1>3. Reversed(a) \in Seq(Elem)
    BY ReversedIs
  <1>4. \A s \in Seq(Elem) : <<>> \o s = s \o <<>>
    OBVIOUS
  <1> QED BY <1>2, <1>3, <1>4

\* Every step of QUE2S is a step of the queue or leaves it alone.
LEMMA QueueSteps ==
  ASSUME QueueInv, ~inherited, [Next]_vars
  PROVE  Fifo!Next \/ UNCHANGED <<Waiting, taken>>
  <1> USE MaxNat
  <1>0. /\ s1 \in Seq(Elem) /\ s2 \in Seq(Elem) /\ Len(s1) + Len(s2) <= max
        /\ Len(s1) \in Nat /\ Len(s2) \in Nat
        /\ pc = "moving" => i = Len(s1) - 1 /\ Len(s1) + Len(s2) >= 1
    BY DEF QueueInv, TypeOK, LoopInv, HowMany
  <1>1. ASSUME NEW x \in Elem, Enqueue(x) PROVE Fifo!Next
    <2>1. /\ s1' \in Seq(Elem) /\ Len(s1') = Len(s1) + 1 /\ s1'[Len(s1) + 1] = x
          /\ \A k \in 1 .. Len(s1) : s1'[k] = s1[k]
      BY <1>0, <1>1, PushRoom DEF Enqueue, HowMany
    <2>2. Reversed(s2) \o s1' = Append(Reversed(s2) \o s1, x)
      BY ONLY <1>0, <2>1, x \in Elem, WaitingPut, ZenonT(40)
    <2>3. Waiting = Reversed(s2) \o s1 /\ Waiting' = Reversed(s2) \o s1'
      BY <1>1 DEF Enqueue, Waiting
    <2>4. Len(Waiting) = Len(s2) + Len(s1)
      BY <1>0, <2>3, WaitingReady
    <2>5. Len(Waiting) < max
      BY <1>0, <1>1, <2>4 DEF Enqueue, HowMany
    <2>6. Waiting' = Append(Waiting, x) /\ UNCHANGED taken
      BY <1>1, <2>2, <2>3 DEF Enqueue
    <2> QED BY <2>5, <2>6 DEF Fifo!Next, Fifo!Put
  <1>2. ASSUME Deliver, s2 # <<>>, Waiting = Reversed(s2) \o s1, s1' = s1 PROVE Fifo!Next
    <2>1. Waiting # <<>> /\ Head(Waiting) = Top(s2) /\ Reversed(Pop(s2)) \o s1 = Tail(Waiting)
      BY <1>0, <1>2, WaitingGet
    <2>2. Waiting' = Reversed(Pop(s2)) \o s1 /\ taken' = Append(taken, Top(s2))
      BY <1>2 DEF Deliver, Waiting
    <2> QED BY <2>1, <2>2 DEF Fifo!Next, Fifo!Get
  <1>3. CASE DequeueSecond
    BY <1>2, <1>3 DEF DequeueSecond, Waiting
  <1>4. CASE DequeueFirst
    <2>1. Waiting = Reversed(<<>>) \o s1 /\ Waiting' = s1 \o Reversed(<<>>)
      BY <1>4 DEF DequeueFirst, Waiting
    <2> QED BY <1>0, <1>4, <2>1, WaitingEmpty DEF DequeueFirst
  <1>5. CASE MoveOne
    <2>1. Len(s1) >= 1 /\ s1 # <<>> /\ Len(s2) < max
      BY <1>0, <1>5 DEF MoveOne
    <2>2. Waiting = s1 \o Reversed(s2) /\ Waiting' = Pop(s1) \o Reversed(Push(s2, Top(s1)))
      BY <1>5 DEF MoveOne, Waiting
    <2> QED BY <1>0, <1>5, <2>1, <2>2, WaitingMove DEF MoveOne
  <1>6. CASE MoveDone
    <2>1. Len(s1) = 0 /\ s1 = <<>> /\ Len(s2) >= 1 /\ s2 # <<>>
      BY <1>0, <1>6 DEF MoveDone
    <2>2. Waiting = <<>> \o Reversed(s2)
      BY <1>6, <2>1 DEF MoveDone, Waiting
    <2>3. Waiting = Reversed(s2) \o s1
      BY <1>0, <2>1, <2>2, WaitingEmpty
    <2> QED BY <1>2, <1>6, <2>1, <2>3 DEF MoveDone
  <1>7. CASE UNCHANGED vars
    BY <1>7 DEF vars, Waiting
  <1> QED BY <1>1, <1>3, <1>4, <1>5, <1>6, <1>7 DEF Next

\* QUE2S implements the bounded queue: operator<< appends, operator>>
\* delivers the oldest value, the loop between them is invisible.
THEOREM Que2sImplementsQueue == Spec => Que2sIsQueue
  <1>1. Init => Fifo!Init
    <2> SUFFICES ASSUME Init PROVE Fifo!Init
      OBVIOUS
    <2>1. Waiting = Reversed(<<>>) \o <<>> /\ taken = <<>>
      BY DEF Init, Waiting
    <2>2. <<>> \in Seq(Elem) /\ Len(<<>>) = 0
      BY EmptySeq
    <2>3. \A s \in Seq(Elem) : Len(s) = 0 => Reversed(s) \o s \in Seq(Elem) /\ Len(Reversed(s) \o s) = 0
      <3> SUFFICES ASSUME NEW s \in Seq(Elem), Len(s) = 0
                   PROVE  Reversed(s) \o s \in Seq(Elem) /\ Len(Reversed(s) \o s) = 0
        OBVIOUS
      <3>1. Reversed(s) \o s \in Seq(Elem) /\ Len(Reversed(s) \o s) = Len(s) + Len(s)
        BY WaitingReady
      <3> QED BY <3>1
    <2>4. Waiting \in Seq(Elem) /\ Len(Waiting) = 0
      BY <2>1, <2>2, <2>3
    <2> QED BY <2>1, <2>4 DEF Fifo!Init
  <1>2. QueueInv /\ [Next]_vars => [inherited \/ Fifo!Next]_<<Waiting, taken>>
    BY QueueSteps
  <1> QED BY <1>1, <1>2, QueueInit, QueueStep, PTL DEF Spec, Que2sIsQueue

----------------------------------------------------------------------------
(* QUEIS is a stack *)

\* The newest value goes to the second stack, and leaves it.
LEMMA LastMoves ==
  ASSUME NEW a \in Seq(Elem), a # <<>>, Len(a) <= max
  PROVE  Pop(a) \o Push(<<>>, Top(a)) = a
  <1> DEFINE d == Pop(a)
             e == Push(<<>>, Top(a))
             v == d \o e
  <1>0. /\ d \in Seq(Elem) /\ Len(d) = Len(a) - 1 /\ Len(a) >= 1 /\ Len(a) \in Nat
        /\ \A k \in 1 .. Len(a) - 1 : d[k] = a[k]
        /\ Top(a) = a[Len(a)] /\ Top(a) \in Elem
    BY PopSome
  <1>1. <<>> \in Seq(Elem) /\ Len(<<>>) = 0 /\ Len(<<>>) < max
    BY <1>0, EmptySeq, MaxNat
  <1>2. e \in Seq(Elem) /\ Len(e) = 1 /\ e[1] = Top(a)
    <2>1. \A s \in Seq(Elem) : Len(s) = 0 =>
            Push(s, Top(a)) \in Seq(Elem) /\ Len(Push(s, Top(a))) = 1 /\ Push(s, Top(a))[1] = Top(a)
      <3> SUFFICES ASSUME NEW s \in Seq(Elem), Len(s) = 0
                   PROVE  /\ Push(s, Top(a)) \in Seq(Elem) /\ Len(Push(s, Top(a))) = 1
                          /\ Push(s, Top(a))[1] = Top(a)
        OBVIOUS
      <3>1. Len(s) < max /\ Len(s) + 1 = 1
        BY <1>0, MaxNat
      <3>2. /\ Push(s, Top(a)) \in Seq(Elem) /\ Len(Push(s, Top(a))) = Len(s) + 1
            /\ Push(s, Top(a))[Len(s) + 1] = Top(a)
        BY <1>0, <3>1, PushRoom
      <3> QED BY <3>1, <3>2
    <2> QED BY <1>1, <2>1
  <1> HIDE DEF d, e
  <1>3. /\ v \in Seq(Elem) /\ Len(v) = Len(d) + Len(e)
        /\ \A k \in 1 .. Len(d) : v[k] = d[k]
        /\ \A k \in Len(d) + 1 .. Len(d) + Len(e) : v[k] = e[k - Len(d)]
    BY <1>0, <1>2, Joined
  <1> HIDE DEF v
  <1>4. Len(v) = Len(a)
    BY <1>0, <1>2, <1>3
  <1>5. ASSUME NEW k \in 1 .. Len(v) PROVE v[k] = a[k]
    <2>0. k \in Int /\ k >= 1 /\ k <= Len(a)
      BY <1>0, <1>4
    <2>1. CASE k < Len(a)
      <3>1. k \in 1 .. Len(d) /\ k \in 1 .. Len(a) - 1
        BY <1>0, <2>0, <2>1
      <3> QED BY <1>0, <1>3, <3>1
    <2>2. CASE k = Len(a)
      <3>1. k \in Len(d) + 1 .. Len(d) + Len(e) /\ k - Len(d) = 1
        BY <1>0, <1>2, <2>0, <2>2
      <3>2. v[k] = e[k - Len(d)]
        BY <1>3, <3>1
      <3> QED BY <1>0, <1>2, <2>2, <3>1, <3>2
    <2> QED BY <1>0, <2>0, <2>1, <2>2
  <1>6. v = a
    BY <1>3, <1>4, <1>5, SameElements
  <1> QED BY <1>6 DEF v, d, e

\* What leaves the second stack is the last of both, and the rest stays.
LEMMA LastLeaves ==
  ASSUME NEW a \in Seq(Elem), NEW b \in Seq(Elem), b # <<>>
  PROVE  LET w == a \o b
         IN  /\ w # <<>> /\ w[Len(w)] = Top(b)
             /\ a \o Pop(b) = SubSeq(w, 1, Len(w) - 1)
  <1> DEFINE w == a \o b
             d == Pop(b)
             v == a \o d
             u == Pop(w)
  <1>0. /\ d \in Seq(Elem) /\ Len(d) = Len(b) - 1 /\ Len(b) >= 1 /\ Len(b) \in Nat /\ Len(a) \in Nat
        /\ \A k \in 1 .. Len(b) - 1 : d[k] = b[k]
        /\ Top(b) = b[Len(b)]
    BY PopSome
  <1> HIDE DEF d
  <1>1. /\ w \in Seq(Elem) /\ Len(w) = Len(a) + Len(b)
        /\ \A k \in 1 .. Len(a) : w[k] = a[k]
        /\ \A k \in Len(a) + 1 .. Len(a) + Len(b) : w[k] = b[k - Len(a)]
    BY Joined
  <1>2. /\ v \in Seq(Elem) /\ Len(v) = Len(a) + Len(d)
        /\ \A k \in 1 .. Len(a) : v[k] = a[k]
        /\ \A k \in Len(a) + 1 .. Len(a) + Len(d) : v[k] = d[k - Len(a)]
    BY <1>0, Joined
  <1> HIDE DEF w, v
  <1>3. w # <<>> /\ Len(w) \in Len(a) + 1 .. Len(a) + Len(b) /\ Len(w) - Len(a) = Len(b)
    BY <1>0, <1>1
  <1>4. w[Len(w)] = Top(b)
    BY <1>0, <1>1, <1>3
  <1>5. /\ u \in Seq(Elem) /\ Len(u) = Len(w) - 1
        /\ \A k \in 1 .. Len(w) - 1 : u[k] = w[k]
    BY <1>1, <1>3, PopSome
  <1>6. u = SubSeq(w, 1, Len(w) - 1)
    BY <1>3 DEF Pop
  <1> HIDE DEF u
  <1>7. Len(v) = Len(u)
    BY <1>0, <1>1, <1>2, <1>5
  <1>8. ASSUME NEW k \in 1 .. Len(v) PROVE v[k] = u[k]
    <2>0. k \in Int /\ k >= 1 /\ k <= Len(a) + Len(b) - 1
      BY <1>0, <1>2
    <2>1. k \in 1 .. Len(w) - 1
      BY <1>0, <1>1, <2>0
    <2>2. CASE k <= Len(a)
      <3>1. k \in 1 .. Len(a)
        BY <2>0, <2>2
      <3> QED BY <1>1, <1>2, <1>5, <2>1, <3>1
    <2>3. CASE k > Len(a)
      <3>1. /\ k \in Len(a) + 1 .. Len(a) + Len(d) /\ k \in Len(a) + 1 .. Len(a) + Len(b)
            /\ k - Len(a) \in 1 .. Len(b) - 1
        BY <1>0, <2>0, <2>3
      <3>2. v[k] = d[k - Len(a)] /\ d[k - Len(a)] = b[k - Len(a)]
        BY <1>0, <1>2, <3>1
      <3>3. u[k] = w[k] /\ w[k] = b[k - Len(a)]
        BY <1>1, <1>5, <2>1, <3>1
      <3> QED BY <3>2, <3>3
    <2> QED BY <1>0, <2>0, <2>2, <2>3
  <1>9. v = u
    BY <1>2, <1>5, <1>7, <1>8, SameElements
  <1> QED BY <1>3, <1>4, <1>6, <1>9 DEF v, w, d

\* Every step of QUEIS is a step of the stack or leaves it alone: the one
\* value its loop moves goes from the end of the first stack to the second,
\* which is empty.
LEMMA StackSteps ==
  ASSUME QueueInv, inherited, [Next]_vars
  PROVE  Lifo!Next \/ UNCHANGED <<s1 \o s2, taken>>
  <1> USE MaxNat
  <1>0. /\ s1 \in Seq(Elem) /\ s2 \in Seq(Elem) /\ Len(s1) + Len(s2) <= max
        /\ Len(s1) \in Nat /\ Len(s2) \in Nat
    BY DEF QueueInv, TypeOK, LoopInv, HowMany
  <1>1. ASSUME NEW x \in Elem, Enqueue(x) PROVE Lifo!Next
    <2>1. s2 = <<>> /\ s2' = <<>> /\ Len(s1) < max /\ UNCHANGED taken
      BY <1>0, <1>1 DEF QueueInv, LoopInv, Enqueue, HowMany
    <2>2. s1' = Append(s1, x) /\ s1' \in Seq(Elem)
      BY <1>0, <1>1, <2>1 DEF Enqueue, Push
    <2>3. s1 \o s2 = s1 /\ s1' \o s2' = s1'
      BY <1>0, <2>1, <2>2, ConcatEmptySeq
    <2>4. (s1 \o s2)' = Append(s1 \o s2, x) /\ Len(s1 \o s2) < max
      BY <2>1, <2>2, <2>3
    <2> QED BY <2>1, <2>4 DEF Lifo!Next, Lifo!Push
  <1>2. CASE DequeueSecond
    BY <1>2 DEF QueueInv, LoopInv, DequeueSecond
  <1>3. CASE DequeueFirst
    BY <1>3 DEF DequeueFirst
  <1>4. CASE MoveOne
    <2>1. s2 = <<>> /\ s1 # <<>> /\ Len(s1) >= 1
      BY <1>0, <1>4 DEF QueueInv, LoopInv, MoveOne
    <2>2. s1' = Pop(s1) /\ s2' = Push(<<>>, Top(s1)) /\ UNCHANGED taken
      BY <1>4, <2>1 DEF MoveOne
    <2>3. s1' \o s2' = s1
      <3>1. Len(s1) <= max
        BY <1>0
      <3>2. Pop(s1) \o Push(<<>>, Top(s1)) = s1
        BY <1>0, <2>1, <3>1, LastMoves
      <3> QED BY <2>2, <3>2
    <2>4. s1 \o s2 = s1
      BY <1>0, <2>1, ConcatEmptySeq
    <2> QED BY <2>2, <2>3, <2>4
  <1>5. CASE MoveDone
    <2>0. Len(s2) = 1
      BY <1>0, <1>5 DEF QueueInv, LoopInv, MoveDone
    <2>1. s2 # <<>>
      BY <2>0, EmptySeq
    <2>2. taken' = Append(taken, Top(s2)) /\ s2' = Pop(s2) /\ s1' = s1
      BY <1>5 DEF MoveDone, Deliver
    <2>3. /\ s1 \o s2 # <<>> /\ (s1 \o s2)[Len(s1 \o s2)] = Top(s2)
          /\ s1 \o Pop(s2) = SubSeq(s1 \o s2, 1, Len(s1 \o s2) - 1)
      BY <1>0, <2>1, LastLeaves
    <2> QED BY <2>2, <2>3 DEF Lifo!Next, Lifo!Pop
  <1>6. CASE UNCHANGED vars
    BY <1>6 DEF vars
  <1> QED BY <1>1, <1>2, <1>3, <1>4, <1>5, <1>6 DEF Next

\* QUEIS implements the bounded stack, not the queue its name says.
THEOREM QueisImplementsStack == Spec => QueisIsStack
  <1>1. QueueInv /\ [Next]_vars => [~inherited \/ Lifo!Next]_<<s1 \o s2, taken>>
    BY StackSteps
  <1> QED BY <1>1, QueueInit, QueueStep, PTL DEF Spec, QueisIsStack
============================================================================
