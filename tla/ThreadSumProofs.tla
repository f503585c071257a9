--------------------------- MODULE ThreadSumProofs ---------------------------
(* Proofs about lab2.c for any number N of rounds.  One token moves between *)
(* the two semaphores and the two threads; where it is says how many sums   *)
(* have been computed, stored and printed.                                  *)
EXTENDS ThreadSum, TLAPS

Holds1 == IF pc1 \in {"store", "V"} THEN 1 ELSE 0
Holds2 == IF pc2 \in {"print", "V"} THEN 1 ELSE 0

(* A stored sum that is not printed yet. *)
Full == pc1 = "V" \/ sem[1] > 0 \/ pc2 = "print"

Live == mpc \notin {"setall", "exited"}

(* Who exists in which phase of main. *)
PhaseInv ==
  /\ mpc = "setall" => created = {} /\ sem = [s \in {0, 1} |-> 0]
  /\ mpc = "create1" => created = {}
  /\ mpc = "create2" => 2 \notin created
  /\ mpc \in {"join1", "join2", "rm"} => created = {1, 2}
  /\ mpc \in {"join2", "rm"} => pc1 = "done"
  /\ mpc = "rm" => pc2 = "done"
  /\ 1 \notin created <=> pc1 = "unborn"
  /\ 2 \notin created <=> pc2 = "unborn"
  /\ Live => set

TokenInv == Live => sem[0] + sem[1] + Holds1 + Holds2 = 1

(* Rounds done, and the sum each of them stands for. *)
RoundInv ==
  /\ pc1 = "done" <=> i1 = N + 1
  /\ pc2 = "done" <=> i2 = N
  /\ pc1 = "unborn" => i1 = 1
  /\ pc2 = "unborn" => i2 = 0
  /\ Len(printed) = i2 + (IF pc2 = "V" THEN 1 ELSE 0)
  /\ i1 - 1 + (IF pc1 = "V" THEN 1 ELSE 0) = Len(printed) + (IF Full THEN 1 ELSE 0)

SumInv ==
  /\ 2 * num = IF pc1 \in {"store", "V"} THEN i1 * (i1 + 1) ELSE (i1 - 1) * i1
  /\ Full => 2 * a = (Len(printed) + 1) * (Len(printed) + 2)

SumsInv == TypeOK /\ PhaseInv /\ TokenInv /\ RoundInv /\ SumInv
           /\ PrintsPartialSums /\ SetOutlivesThreads
-----------------------------------------------------------------------------
USE NAssumption, MayFailAssumption

(* The initial state. *)
LEMMA SumsInit == Init => SumsInv
  BY DEF Init, SumsInv, TypeOK, PhaseInv, TokenInv, RoundInv, SumInv, Full, Live,
         Holds1, Holds2, PrintsPartialSums, SetOutlivesThreads

(* SETALL, through the 16-bit reading of arr, gives the two semaphores 1, 0. *)
LEMMA SetAllValue == SetAll = [s \in {0, 1} |-> IF s = 0 THEN 1 ELSE 0]
  BY DEF SetAll, arr

(* The steps of main keep the invariant. *)
LEMMA MainKeeps == SumsInv /\ Main => SumsInv'
<1> SUFFICES ASSUME SumsInv, Main PROVE SumsInv'
  OBVIOUS
<1> USE DEF SumsInv, TypeOK, PhaseInv, TokenInv, RoundInv, SumInv, Full, Live,
            Holds1, Holds2, PrintsPartialSums, SetOutlivesThreads, vars1, vars2
<1>1. CASE MainSetAll
  <2>1. TypeOK'
    <3>1. SetAll \in [{0, 1} -> 0 .. 1]
      BY SetAllValue
    <3> HIDE DEF PrintsPartialSums, SumInv, RoundInv
    <3> QED
      BY <1>1, <3>1 DEF MainSetAll
  <2>2. PhaseInv'
    BY <1>1, SetAllValue DEF MainSetAll
  <2>3. TokenInv'
    BY <1>1, SetAllValue DEF MainSetAll
  <2>4. RoundInv'
    BY <1>1, SetAllValue DEF MainSetAll
  <2>5. SumInv'
    BY <1>1, SetAllValue DEF MainSetAll
  <2>6. PrintsPartialSums'
    BY <1>1, SetAllValue DEF MainSetAll
  <2>7. SetOutlivesThreads'
    BY <1>1, SetAllValue DEF MainSetAll
  <2> QED
    BY <2>1, <2>2, <2>3, <2>4, <2>5, <2>6, <2>7
<1>2. CASE MainCreate1
  BY <1>2 DEF MainCreate1
<1>3. CASE MainCreate2
  <2>1. TypeOK'
    BY <1>3 DEF MainCreate2
  <2>2. PhaseInv'
    BY <1>3 DEF MainCreate2
  <2>3. TokenInv'
    BY <1>3 DEF MainCreate2
  <2>4. RoundInv'
    BY <1>3 DEF MainCreate2
  <2>5. SumInv'
    BY <1>3 DEF MainCreate2
  <2>6. PrintsPartialSums'
    BY <1>3 DEF MainCreate2
  <2>7. SetOutlivesThreads'
    BY <1>3 DEF MainCreate2
  <2> QED
    BY <2>1, <2>2, <2>3, <2>4, <2>5, <2>6, <2>7
<1>4. CASE MainCheck
  BY <1>4 DEF MainCheck
<1>5. CASE MainJoin1
  BY <1>5 DEF MainJoin1
<1>6. CASE MainJoin2
  BY <1>6 DEF MainJoin2
<1>7. CASE MainRm
  BY <1>7 DEF MainRm
<1> QED
  BY <1>1, <1>2, <1>3, <1>4, <1>5, <1>6, <1>7 DEF Main

(* The steps of subp1 keep the invariant. *)
LEMMA Subp1Keeps == SumsInv /\ Subp1 => SumsInv'
<1> SUFFICES ASSUME SumsInv, Subp1 PROVE SumsInv'
  OBVIOUS
<1> USE DEF SumsInv, TypeOK, PhaseInv, TokenInv, RoundInv, SumInv, Full, Live,
            Holds1, Holds2, PrintsPartialSums, SetOutlivesThreads, mainVars, vars2
<1>0. set /\ Live
  BY DEF Subp1, Subp1P, Subp1Store, Subp1V, Running
<1>1. CASE Subp1P
  BY <1>0, <1>1 DEF Subp1P, P
<1>2. CASE Subp1Store
  <2>1. TypeOK'
    BY <1>0, <1>2 DEF Subp1Store
  <2>2. PhaseInv'
    BY <1>0, <1>2 DEF Subp1Store
  <2>3. TokenInv'
    BY <1>0, <1>2 DEF Subp1Store
  <2>4. RoundInv'
    BY <1>0, <1>2 DEF Subp1Store
  <2>5. SumInv'
    <3>1. Len(printed) + 1 = i1 /\ 2 * num = i1 * (i1 + 1)
      BY <1>0, <1>2 DEF Subp1Store
    <3>2. 2 * num = (Len(printed) + 1) * (Len(printed) + 2)
      <4> HIDE DEF SumsInv
      <4>1. Len(printed) + 2 = i1 + 1
        BY <3>1 DEF SumsInv
      <4> QED
        BY <3>1, <4>1
    <3> QED
      BY <1>0, <1>2, <3>1, <3>2 DEF Subp1Store
  <2>6. PrintsPartialSums'
    BY <1>0, <1>2 DEF Subp1Store
  <2>7. SetOutlivesThreads'
    BY <1>0, <1>2 DEF Subp1Store
  <2> QED
    BY <2>1, <2>2, <2>3, <2>4, <2>5, <2>6, <2>7
<1>3. CASE Subp1V
  <2>1. TypeOK'
    BY <1>0, <1>3 DEF Subp1V, V
  <2>2. PhaseInv'
    BY <1>0, <1>3 DEF Subp1V, V
  <2>3. TokenInv'
    BY <1>0, <1>3 DEF Subp1V, V
  <2>4. RoundInv'
    BY <1>0, <1>3 DEF Subp1V, V
  <2>5. SumInv'
    <3>1. 2 * num' = (i1' - 1) * i1' /\ pc1' \notin {"store", "V"}
      BY <1>0, <1>3 DEF Subp1V, V
    <3>2. Full /\ a' = a /\ printed' = printed
      BY <1>0, <1>3 DEF Subp1V, V
    <3> QED
      BY <3>1, <3>2
  <2>6. PrintsPartialSums'
    BY <1>0, <1>3 DEF Subp1V, V
  <2>7. SetOutlivesThreads'
    BY <1>0, <1>3 DEF Subp1V, V
  <2> QED
    BY <2>1, <2>2, <2>3, <2>4, <2>5, <2>6, <2>7
<1> QED
  BY <1>1, <1>2, <1>3 DEF Subp1

(* The steps of subp2 keep the invariant. *)
LEMMA Subp2Keeps == SumsInv /\ Subp2 => SumsInv'
<1> SUFFICES ASSUME SumsInv, Subp2 PROVE SumsInv'
  OBVIOUS
<1> USE DEF SumsInv, TypeOK, PhaseInv, TokenInv, RoundInv, SumInv, Full, Live,
            Holds1, Holds2, PrintsPartialSums, SetOutlivesThreads, mainVars, vars1
<1>0. set /\ Live
  BY DEF Subp2, Subp2P, Subp2Print, Subp2V, Running
<1>1. CASE Subp2P
  <2>1. TypeOK'
    BY <1>0, <1>1 DEF Subp2P, P
  <2>2. PhaseInv'
    BY <1>0, <1>1 DEF Subp2P, P
  <2>3. TokenInv'
    BY <1>0, <1>1 DEF Subp2P, P
  <2>4. RoundInv'
    BY <1>0, <1>1 DEF Subp2P, P
  <2>5. SumInv'
    BY <1>0, <1>1 DEF Subp2P, P
  <2>6. PrintsPartialSums'
    BY <1>0, <1>1 DEF Subp2P, P
  <2>7. SetOutlivesThreads'
    BY <1>0, <1>1 DEF Subp2P, P
  <2> QED
    BY <2>1, <2>2, <2>3, <2>4, <2>5, <2>6, <2>7
<1>2. CASE Subp2Print
  <2>1. TypeOK'
    BY <1>0, <1>2 DEF Subp2Print
  <2>2. PhaseInv'
    BY <1>0, <1>2 DEF Subp2Print
  <2>3. TokenInv'
    BY <1>0, <1>2 DEF Subp2Print
  <2>4. RoundInv'
    BY <1>0, <1>2 DEF Subp2Print
  <2>5. SumInv'
    BY <1>0, <1>2 DEF Subp2Print
  <2>6. PrintsPartialSums'
    <3>1. /\ 2 * a = (Len(printed) + 1) * (Len(printed) + 2)
          /\ printed' = Append(printed, a) /\ printed \in Seq(Nat) /\ a \in Nat
      BY <1>2 DEF Subp2Print
    <3>2. /\ DOMAIN printed' = 1 .. Len(printed) + 1
          /\ \A k \in 1 .. Len(printed) : printed'[k] = printed[k]
          /\ printed'[Len(printed) + 1] = a
      BY <3>1
    <3>3. ASSUME NEW k \in DOMAIN printed' PROVE 2 * printed'[k] = k * (k + 1)
      <4>1. CASE k \in 1 .. Len(printed)
        BY <3>1, <3>2, <4>1
      <4>2. CASE k = Len(printed) + 1
        BY <3>1, <3>2, <4>2
      <4> QED
        BY <3>1, <3>2, <3>3, <4>1, <4>2
    <3> QED
      BY <3>3
  <2>7. SetOutlivesThreads'
    BY <1>0, <1>2 DEF Subp2Print
  <2> QED
    BY <2>1, <2>2, <2>3, <2>4, <2>5, <2>6, <2>7
<1>3. CASE Subp2V
  BY <1>0, <1>3 DEF Subp2V, V
<1> QED
  BY <1>1, <1>2, <1>3 DEF Subp2

(* The invariant holds in every state of lab2.c. *)
THEOREM SumsInvariant == Spec => []SumsInv
<1>1. SumsInv /\ [Next]_vars => SumsInv'
  <2>1. ASSUME SumsInv, UNCHANGED vars PROVE SumsInv'
    <3>1. TypeOK' /\ PhaseInv'
      BY <2>1 DEF vars, SumsInv, TypeOK, PhaseInv, Live
    <3>2. TokenInv' /\ RoundInv'
      BY <2>1 DEF vars, SumsInv, TokenInv, RoundInv, Full, Live, Holds1, Holds2
    <3>3. SumInv' /\ PrintsPartialSums' /\ SetOutlivesThreads'
      BY <2>1 DEF vars, SumsInv, SumInv, Full, Live, Holds1, Holds2,
             PrintsPartialSums, SetOutlivesThreads
    <3> QED
      BY <3>1, <3>2, <3>3 DEF SumsInv
  <2> QED
    BY <2>1, MainKeeps, Subp1Keeps, Subp2Keeps DEF Next
<1> QED
  BY <1>1, SumsInit, PTL DEF Spec

(* Every variable of lab2.c keeps its type; the semaphores never exceed 1.  *)
THEOREM SumTypes == Spec => []TypeOK
<1>1. SumsInv => TypeOK
  BY DEF SumsInv
<1> QED
  BY <1>1, SumsInvariant, PTL

(* Whatever the schedule, the lines subp2 prints are the partial sums of    *)
(* subp1, in order.                                                         *)
THEOREM SumsAreExact == Spec => []PrintsPartialSums
<1>1. SumsInv => PrintsPartialSums
  BY DEF SumsInv
<1> QED
  BY <1>1, SumsInvariant, PTL

(* main removes the semaphores only after both threads have returned.       *)
THEOREM SetIsKept == Spec => []SetOutlivesThreads
<1>1. SumsInv => SetOutlivesThreads
  BY DEF SumsInv
<1> QED
  BY <1>1, SumsInvariant, PTL

(* A sum that is about to be stored is one of the values of the queue.      *)
LEMMA SumInRange == SumsInv /\ pc1 = "store" => num \in SumValues
<1> SUFFICES ASSUME SumsInv, pc1 = "store" PROVE num \in SumValues
  OBVIOUS
<1>1. num \in Nat /\ i1 \in 1 .. N /\ 2 * num = i1 * (i1 + 1)
  BY DEF SumsInv, TypeOK, RoundInv, SumInv
<1>2. i1 * (i1 + 1) <= N * (N + 1)
  <2>1. \A x, y, z \in Nat : x <= y => x * z <= y * z /\ z * x <= z * y
    OBVIOUS
  <2>2. i1 * (i1 + 1) <= N * (i1 + 1)
    BY <1>1, <2>1
  <2>3. N * (i1 + 1) <= N * (N + 1)
    BY <1>1, <2>1
  <2> QED
    BY <1>1, <2>2, <2>3
<1> QED
  BY <1>1, <1>2 DEF SumValues

(* lab2.c implements a queue of one place: every step of main and of the    *)
(* two threads leaves the queue alone, puts one sum or takes one.           *)
THEOREM ImplementsOnePlaceQueue == Spec => IsOnePlaceQueue
<1> DEFINE q == IF pc1 = "V" \/ sem[1] > 0 \/ pc2 = "print" THEN <<a>> ELSE <<>>
<1>1. Init => Fifo!Init
  BY DEF Init, Fifo!Init
<1>2. ASSUME SumsInv, [Next]_vars PROVE [Fifo!Next]_<<q, printed>>
  <2> USE <1>2 DEF SumsInv
  <2>1. CASE Main
    <3>1. UNCHANGED <<pc1, pc2, sem, a, printed>> => UNCHANGED <<q, printed>>
      OBVIOUS
    <3>2. CASE MainSetAll
      BY <3>2, SetAllValue DEF MainSetAll, PhaseInv, vars1, vars2
    <3>3. CASE MainCreate1
      BY <3>3 DEF MainCreate1, PhaseInv, vars2
    <3>4. CASE MainCreate2
      BY <3>4 DEF MainCreate2, PhaseInv, vars1
    <3> QED
      BY <2>1, <3>1, <3>2, <3>3, <3>4
      DEF Main, MainCheck, MainJoin1, MainJoin2, MainRm, vars1, vars2
  <2>2. CASE Subp1
    <3>0. set /\ Live
      BY <2>2 DEF Subp1, Subp1P, Subp1Store, Subp1V, Running, Live, PhaseInv
    <3>1. CASE Subp1P
      BY <3>0, <3>1 DEF Subp1P, P, TypeOK, vars2
    <3>2. CASE Subp1Store
      <4>1. q = <<>> /\ q' = <<num>> /\ printed' = printed
        BY <3>0, <3>2 DEF Subp1Store, TypeOK, TokenInv, Holds1, Holds2, vars2
      <4>2. num \in SumValues
        BY <3>2, SumInRange DEF Subp1Store
      <4>3. Fifo!Put
        <5>1. Len(q) < 1 /\ q' = Append(q, num)
          <6> HIDE DEF q, SumsInv
          <6>1. Len(<<>>) = 0 /\ Append(<<>>, num) = <<num>>
            OBVIOUS
          <6> QED
            BY <4>1, <6>1
        <5> QED
          BY <4>1, <4>2, <5>1 DEF Fifo!Put
      <4> QED
        BY <4>3 DEF Fifo!Next
    <3>3. CASE Subp1V
      BY <3>0, <3>3 DEF Subp1V, V, TypeOK, vars2
    <3> QED
      BY <2>2, <3>1, <3>2, <3>3 DEF Subp1
  <2>3. CASE Subp2
    <3>0. set /\ Live
      BY <2>3 DEF Subp2, Subp2P, Subp2Print, Subp2V, Running, Live, PhaseInv
    <3>1. CASE Subp2P
      BY <3>0, <3>1 DEF Subp2P, P, TypeOK, vars1
    <3>2. CASE Subp2Print
      <4>1. q = <<a>> /\ q' = <<>> /\ printed' = Append(printed, a)
        BY <3>0, <3>2 DEF Subp2Print, TypeOK, TokenInv, Holds1, Holds2, vars1
      <4>2. Fifo!Get
        BY <4>1 DEF Fifo!Get
      <4> QED
        BY <4>2 DEF Fifo!Next
    <3>3. CASE Subp2V
      BY <3>0, <3>3 DEF Subp2V, V, TypeOK, vars1
    <3> QED
      BY <2>3, <3>1, <3>2, <3>3 DEF Subp2
  <2>4. CASE UNCHANGED vars
    BY <2>4 DEF vars
  <2> QED
    BY <2>1, <2>2, <2>3, <2>4 DEF Next
<1> QED
  BY <1>1, <1>2, SumsInvariant, PTL DEF Spec, IsOnePlaceQueue, Fifo!Spec
=============================================================================
