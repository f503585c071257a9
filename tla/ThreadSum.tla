------------------------------ MODULE ThreadSum ------------------------------
(***************************************************************************)
(* OSlab/lab/lab2/lab2.c: the main thread makes a set of two semaphores,   *)
(* starts subp1 (adds 1 .. 100) and subp2 (prints every partial sum),      *)
(* joins them and removes the set.  The sums pass through the one global   *)
(* a, guarded by the semaphores.                                           *)
(***************************************************************************)
EXTENDS Integers, Sequences

CONSTANTS
  N,        \* rounds of both loops, 100 in the code
  MayFail   \* TRUE: semctl and pthread_create may fail

ASSUME NAssumption == N \in Nat \ {0}
ASSUME MayFailAssumption == MayFail \in BOOLEAN

VARIABLES
  mpc, set,          \* main: control; the semaphore set exists
  created,           \* main: pthread_create calls that returned 0
  sem, a,            \* the semaphores and the global a
  pc1, i1, num,      \* subp1
  pc2, i2, printed   \* subp2; what printf has been given

mainVars == <<mpc, set, created>>
vars1 == <<pc1, i1, num>>
vars2 == <<pc2, i2, printed>>
vars  == <<mpc, set, created, sem, a, pc1, i1, num, pc2, i2, printed>>

arrTwoPlaces == <<2, 0>>     \* mutant of arr: two sums may be on their way
arr == <<1, 0>>

(* SETALL takes 16-bit values where the union declares 32-bit ones: the two *)
(* semaphores are the low and the high half of arr[0].                      *)
SetAll == [s \in {0, 1} |-> IF s = 0 THEN arr[1] % 65536 ELSE arr[1] \div 65536]

Init ==
  /\ mpc = "setall" /\ set = FALSE /\ created = {}
  /\ sem = [s \in {0, 1} |-> 0] /\ a = 0
  /\ pc1 = "unborn" /\ i1 = 1 /\ num = 0
  /\ pc2 = "unborn" /\ i2 = 0 /\ printed = <<>>
-----------------------------------------------------------------------------
(* main *)

MainSetAll ==
  /\ mpc = "setall"
  /\ \/ mpc' = "create1" /\ set' = TRUE /\ sem' = SetAll
     \/ MayFail /\ mpc' = "exited" /\ set' \in BOOLEAN /\ UNCHANGED sem
  /\ UNCHANGED <<created, a, vars1, vars2>>

MainCreate1 ==
  /\ mpc = "create1" /\ mpc' = "create2"
  /\ \/ created' = created \cup {1} /\ pc1' = "P"
     \/ MayFail /\ UNCHANGED <<created, pc1>>
  /\ UNCHANGED <<set, sem, a, i1, num, vars2>>

MainCreate2 ==
  /\ mpc = "create2" /\ mpc' = "check"
  /\ \/ created' = created \cup {2} /\ pc2' = "P"
     \/ MayFail /\ UNCHANGED <<created, pc2>>
  /\ UNCHANGED <<set, sem, a, vars1, i2, printed>>

(* Both results are looked at only now; exit ends a thread that did start,  *)
(* and leaves the set behind.                                               *)
MainCheck ==
  /\ mpc = "check"
  /\ mpc' = IF created = {1, 2} THEN "join1" ELSE "exited"
  /\ UNCHANGED <<set, created, sem, a, vars1, vars2>>

MainJoin1 ==
  /\ mpc = "join1" /\ pc1 = "done" /\ mpc' = "join2"
  /\ UNCHANGED <<set, created, sem, a, vars1, vars2>>

(* Mutant of MainJoin2: does not wait. *)
MainJoin2Not ==
  /\ mpc = "join2" /\ mpc' = "rm"
  /\ UNCHANGED <<set, created, sem, a, vars1, vars2>>
MainJoin2 ==
  /\ mpc = "join2" /\ pc2 = "done" /\ mpc' = "rm"
  /\ UNCHANGED <<set, created, sem, a, vars1, vars2>>

MainRm ==
  /\ mpc = "rm" /\ mpc' = "exited"
  /\ \/ set' = FALSE
     \/ MayFail /\ UNCHANGED set
  /\ UNCHANGED <<created, sem, a, vars1, vars2>>

Main == MainSetAll \/ MainCreate1 \/ MainCreate2 \/ MainCheck \/ MainJoin1
        \/ MainJoin2 \/ MainRm
-----------------------------------------------------------------------------
Running == mpc # "exited"

(* semop's result is not looked at: on a removed set P does not wait. *)
P(s) == IF set THEN sem[s] > 0 /\ sem' = [sem EXCEPT ![s] = @ - 1]
               ELSE UNCHANGED sem
V(s) == sem' = IF set THEN [sem EXCEPT ![s] = @ + 1] ELSE sem

(* num = num + i; P(semid,0) *)
Subp1P ==
  /\ Running /\ pc1 = "P" /\ pc1' = "store"
  /\ num' = num + i1
  /\ P(0)
  /\ UNCHANGED <<mainVars, a, i1, vars2>>

Subp1Store ==
  /\ Running /\ pc1 = "store" /\ pc1' = "V"
  /\ a' = num
  /\ UNCHANGED <<mainVars, sem, i1, num, vars2>>

Subp1V ==
  /\ Running /\ pc1 = "V"
  /\ V(1)
  /\ i1' = i1 + 1
  /\ pc1' = IF i1' <= N THEN "P" ELSE "done"
  /\ UNCHANGED <<mainVars, a, num, vars2>>

(* Mutant of Subp2P: prints without waiting. *)
Subp2PNoWait ==
  /\ Running /\ pc2 = "P" /\ pc2' = "print"
  /\ UNCHANGED <<mainVars, sem, a, vars1, i2, printed>>
Subp2P ==
  /\ Running /\ pc2 = "P" /\ pc2' = "print"
  /\ P(1)
  /\ UNCHANGED <<mainVars, a, vars1, i2, printed>>

Subp2Print ==
  /\ Running /\ pc2 = "print" /\ pc2' = "V"
  /\ printed' = Append(printed, a)
  /\ UNCHANGED <<mainVars, sem, a, vars1, i2>>

(* Mutant of Subp2V: gives back the semaphore it took. *)
Subp2VWrongSem ==
  /\ Running /\ pc2 = "V"
  /\ V(1)
  /\ i2' = i2 + 1
  /\ pc2' = IF i2' < N THEN "P" ELSE "done"
  /\ UNCHANGED <<mainVars, a, vars1, printed>>
Subp2V ==
  /\ Running /\ pc2 = "V"
  /\ V(0)
  /\ i2' = i2 + 1
  /\ pc2' = IF i2' < N THEN "P" ELSE "done"
  /\ UNCHANGED <<mainVars, a, vars1, printed>>

Subp1 == Subp1P \/ Subp1Store \/ Subp1V
Subp2 == Subp2P \/ Subp2Print \/ Subp2V

Next == Main \/ Subp1 \/ Subp2

Spec == Init /\ [][Next]_vars

(* Every runnable thread is scheduled. *)
FairSpec == Spec /\ WF_vars(Main) /\ WF_vars(Subp1) /\ WF_vars(Subp2)
-----------------------------------------------------------------------------
(* Every value a variable can hold. *)
TypeOK ==
  /\ mpc \in {"setall", "create1", "create2", "check", "join1", "join2", "rm",
              "exited"}
  /\ set \in BOOLEAN /\ created \subseteq {1, 2}
  /\ sem \in [{0, 1} -> 0 .. 1] /\ a \in Nat
  /\ pc1 \in {"unborn", "P", "store", "V", "done"}
  /\ i1 \in 1 .. N + 1 /\ num \in Nat
  /\ pc2 \in {"unborn", "P", "print", "V", "done"}
  /\ i2 \in 0 .. N /\ printed \in Seq(Nat)

(* The k-th line subp2 prints is the sum of 1 .. k that subp1 computed in   *)
(* its k-th round: no sum is skipped, repeated or read half-way, though a   *)
(* is one unprotected global.                                               *)
PrintsPartialSums ==
  \A k \in DOMAIN printed : 2 * printed[k] = k * (k + 1)

(* The set is not removed while a thread may still use it, which P and V,   *)
(* ignoring semop's result, would not notice.                               *)
SetOutlivesThreads ==
  (mpc \in {"rm", "exited"} /\ created = {1, 2}) => pc1 = "done" /\ pc2 = "done"

(* a is a queue of one place: the sums in the order they were computed.     *)
SumValues == 0 .. N * (N + 1)
Fifo == INSTANCE BoundedFifo WITH
  Capacity <- 1,
  Values   <- SumValues,
  queue    <- IF pc1 = "V" \/ sem[1] > 0 \/ pc2 = "print" THEN <<a>> ELSE <<>>,
  taken    <- printed
IsOnePlaceQueue == Fifo!Spec

(* When both threads were created the program ends and has printed all sums. *)
AllSumsPrinted ==
  (mpc = "check" /\ created = {1, 2}) ~> (mpc = "exited" /\ Len(printed) = N)
=============================================================================
