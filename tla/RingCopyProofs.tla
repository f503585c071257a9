--------------------------- MODULE RingCopyProofs ---------------------------
(***************************************************************************)
(* Proofs about RingCopy, for any number of slots, any chunk size, any     *)
(* input and any set of calls that fail.                                   *)
(***************************************************************************)
EXTENDS RingCopyInv, SequenceTheorems, TLAPS

Piece == [chunk : Nat \cup {NoChunk}, len : Nat]

LEMMA SlotsNat == Slots \in Nat /\ Slots > 0
BY SlotsAssumption, SMTT(30)

(* The index of the next slot, (i + 1) % Slots in the code, without %.     *)
LEMMA Wrap ==
  ASSUME NEW i \in Slot
  PROVE  /\ (i + 1) % Slots \in Slot
         /\ (i + 1) % Slots = IF i + 1 = Slots THEN 0 ELSE i + 1
BY SlotsNat DEF Slot

(* Losing the bytes of the last piece leaves a sequence of pieces.         *)
LEMMA LosePiece ==
  ASSUME NEW s \in Seq(Piece), s # <<>>
  PROVE  LET t == [s EXCEPT ![Len(s)] = [chunk |-> @.chunk, len |-> 0]]
         IN  /\ t \in Seq(Piece)
             /\ Len(t) = Len(s)
             /\ \A i \in 1 .. Len(s) : t[i].chunk = s[i].chunk
<1> DEFINE e == [chunk |-> s[Len(s)].chunk, len |-> 0]
<1>1. Len(s) \in 1 .. Len(s)
  BY EmptySeq
<1>2. s[Len(s)] \in Piece
  BY <1>1, ElementOfSeq
<1>3. e \in Piece /\ e.chunk = s[Len(s)].chunk
  BY <1>2 DEF Piece
<1> HIDE DEF e
<1>4. /\ [s EXCEPT ![Len(s)] = e] \in Seq(Piece)
      /\ Len([s EXCEPT ![Len(s)] = e]) = Len(s)
      /\ \A j \in 1 .. Len(s) : [s EXCEPT ![Len(s)] = e][j] = IF j=Len(s) THEN e ELSE s[j]
  BY <1>1, <1>3, ExceptSeq
<1>5. \A j \in 1 .. Len(s) : [s EXCEPT ![Len(s)] = e][j].chunk = s[j].chunk
  BY <1>3, <1>4
<1> QED
  BY <1>4, <1>5 DEF e

(* SETALL only ever stores naturals.                                       *)
LEMMA SetAllType == SetAll(arr) \in [Sems -> Nat]
<1>1. \A i \in Sems : i \div 2 \in Sems
  BY VersionAssumption, SlotsNat DEF Sems
<1>2. \A i \in Sems : arr[i] \in Nat
  BY VersionAssumption, SlotsNat DEF arr
<1>3. \A k \in Nat : k % 65536 \in Nat /\ k \div 65536 \in Nat
  OBVIOUS
<1>4. DOMAIN arr = Sems
  BY DEF arr
<1> QED
  BY <1>1, <1>2, <1>3, <1>4 DEF SetAll

(* The semaphores of a slot are semaphores of the set.                     *)
LEMMA SemIndices ==
  ASSUME NEW i \in Slot
  PROVE  EmptySem(i) \in Sems /\ FullSem(i) \in Sems
BY VersionAssumption, SlotsNat DEF EmptySem, FullSem, Slot, Sems

(* P and V keep semaphores natural: P only takes what is there.            *)
LEMMA SemopType ==
  ASSUME NEW s \in Sems, sem \in [Sems -> Nat], P(s) \/ V(s)
  PROVE  sem' \in [Sems -> Nat]
BY DEF P, V

TypeInv == TypeOK /\ (wpc \in {"V", "fflush"} => fpw # <<>>)

LEMMA TypeInit == Init => TypeInv
BY SlotsNat, ChunkAssumption, FilesAssumption, LeftoversAssumption,
   StraysAssumption
   DEF Init, TypeInv, TypeOK, Slot, Sems, NoChunk, NonDigit, Ended

LEMMA TypeNext == TypeInv /\ [Next]_vars => TypeInv'
<1> SUFFICES ASSUME TypeInv, [Next]_vars PROVE TypeInv'
  OBVIOUS
<1> USE DEF TypeInv, TypeOK, Ended, FaultKinds
<1>1. ASSUME Parent PROVE TypeInv'
  <2>1. CASE ParentShmget
    BY <2>1 DEF ParentShmget, Succeeds, Fails, readerVars, writerVars, envVars, shm
  <2>2. CASE ParentSemctl
    BY <2>2, SetAllType
       DEF ParentSemctl, Succeeds, Fails, readerVars, writerVars, envVars, shm
  <2>3. CASE ParentForkReader
    BY <2>3 DEF ParentForkReader, Succeeds, Fails, writerVars, envVars, shm
  <2>4. CASE ParentForkWriter
    BY <2>4 DEF ParentForkWriter, Succeeds, Fails, readerVars, envVars, shm
  <2>5. CASE ParentWaitReader \/ ParentWaitWriter
    BY <2>5 DEF ParentWaitReader, ParentWaitWriter, readerVars, writerVars,
                envVars, shm
  <2>6. CASE ParentRmSem \/ ParentRmShm
    <3>1. /\ ipc' \subseteq ipc /\ failed' \subseteq failed \cup Faults
          /\ ppc' \in {"rmshm", "exited"}
          /\ UNCHANGED <<sem, shm, readerVars, writerVars, envVars>>
      BY <2>6 DEF ParentRmSem, ParentRmShm, Succeeds, Fails
    <3> QED
      BY <3>1, FaultsAssumption DEF readerVars, writerVars, envVars, shm
  <2> QED
    BY <1>1, <2>1, <2>2, <2>3, <2>4, <2>5, <2>6 DEF Parent
<1>2. ASSUME Reader PROVE TypeInv'
  <2>1. CASE ReaderStart
    BY <2>1 DEF ReaderStart, Succeeds, Fails, parentVars, writerVars, envVars, shm
  <2>2. CASE ReaderP
    <3>1. sem' \in [Sems -> Nat]
      BY <2>2, SemIndices, SemopType DEF ReaderP
    <3> QED
      BY <2>2, <3>1 DEF ReaderP, parentVars, writerVars, envVars, shm
  <2>3. CASE ReaderFread
    <3>1. m' \in 0 .. Chunk
      BY <2>3, ChunkAssumption DEF ReaderFread, Succeeds, Fails, ChunkLen
    <3>2. data' \in [Slot -> Nat \cup {NoChunk}] /\ pos' \in Nat
      BY <2>3 DEF ReaderFread
    <3>3. failed' \subseteq FaultKinds
      BY <2>3 DEF ReaderFread, Succeeds, Fails
    <3> QED
      BY <2>3, <3>1, <3>2, <3>3 DEF ReaderFread, parentVars, writerVars, envVars
  <2>4. CASE ReaderStore
    BY <2>4 DEF ReaderStore, parentVars, writerVars, envVars
  <2>5. CASE ReaderV
    <3>1. sem' \in [Sems -> Nat]
      BY <2>5, SemIndices, SemopType DEF ReaderV
    <3>2. in' \in Slot
      BY <2>5, Wrap DEF ReaderV
    <3> QED
      BY <2>5, <3>1, <3>2 DEF ReaderV, parentVars, writerVars, envVars, shm
  <2> QED
    BY <1>2, <2>1, <2>2, <2>3, <2>4, <2>5 DEF Reader
<1>3. ASSUME Writer PROVE TypeInv'
  <2>1. CASE WriterStart
    BY <2>1 DEF WriterStart, Succeeds, Fails, parentVars, readerVars, envVars, shm
  <2>2. CASE WriterP
    <3>1. sem' \in [Sems -> Nat]
      BY <2>2, SemIndices, SemopType DEF WriterP
    <3> QED
      BY <2>2, <3>1 DEF WriterP, parentVars, readerVars, envVars, shm
  <2>3. CASE WriterGetLen
    <3>1. n' \in Nat
      BY <2>3 DEF WriterGetLen, Decoded, NonDigit
    <3> QED
      BY <2>3, <3>1 DEF WriterGetLen, parentVars, readerVars, envVars, shm
  <2>4. CASE WriterFwrite
    <3>0. \/ n' = n /\ failed' = failed
          \/ n' = 0 /\ failed' = failed \cup {"fwrite"}
      BY <2>4, Zenon DEF WriterFwrite, Succeeds, Fails
    <3>1. n' \in Nat
      BY <3>0
    <3>3. failed' \subseteq FaultKinds
      BY <3>0, Zenon
    <3>2. fpw' \in Seq(Piece) /\ fpw' # <<>>
      <4> DEFINE e == [chunk |-> data[out], len |-> n']
      <4>1. e \in Piece /\ fpw \in Seq(Piece)
        BY <3>1 DEF Piece
      <4>2. fpw' = Append(fpw, e)
        BY <2>4 DEF WriterFwrite
      <4> HIDE DEF e
      <4> QED
        BY <4>1, <4>2
    <3> QED
      BY <2>4, <3>1, <3>2, <3>3 DEF WriterFwrite, parentVars, readerVars, envVars, shm, Piece
  <2>5. CASE WriterV
    <3>1. sem' \in [Sems -> Nat]
      BY <2>5, SemIndices, SemopType DEF WriterV
    <3>2. out' \in Slot
      BY <2>5, Wrap DEF WriterV
    <3> QED
      BY <2>5, <3>1, <3>2 DEF WriterV, parentVars, readerVars, envVars, shm
  <2>6. CASE WriterFflush
    <3>1. fpw' \in Seq(Piece) /\ fpw' # <<>>
      <4>1. fpw \in Seq(Piece) /\ fpw # <<>>
        BY <2>6 DEF WriterFflush, Piece
      <4>2. Len(fpw) > 0
        BY <4>1, EmptySeq
      <4>3. CASE UNCHANGED fpw
        BY <4>1, <4>3
      <4>4. CASE LosesLastPiece
        <5>1. fpw' \in Seq(Piece) /\ Len(fpw') = Len(fpw)
          BY ONLY <4>1, <4>4, LosePiece, Zenon DEF LosesLastPiece
        <5>2. Len(fpw') # 0
          BY <4>2, <5>1
        <5> QED
          BY <5>1, <5>2, EmptySeq
      <4> QED
        BY <2>6, <4>3, <4>4 DEF WriterFflush
    <3>2. failed' \subseteq FaultKinds
      BY <2>6 DEF WriterFflush, Succeeds, Fails
    <3> QED
      BY <2>6, <3>1, <3>2 DEF WriterFflush, parentVars, readerVars, envVars, shm, Piece
  <2> QED
    BY <1>3, <2>1, <2>2, <2>3, <2>4, <2>5, <2>6 DEF Writer
<1>4. CASE UNCHANGED vars
  BY <1>4 DEF vars
<1> QED
  BY <1>1, <1>2, <1>3, <1>4 DEF Next

LEMMA TypeInvariance == Spec => []TypeInv
BY TypeInit, TypeNext, PTL DEF Spec

(* Type correctness of every version of the copier, whatever fails.        *)
THEOREM TypeCorrect == Spec => []TypeOK
BY TypeInvariance, PTL DEF TypeInv

-----------------------------------------------------------------------------
(* Counting semaphores: versions 1.0 and 1.2 *)

(* {5,0} read as 16-bit values is still {5,0}. *)
LEMMA CountingSetAll ==
  ASSUME ~PerSlot
  PROVE  SetAll(arr)[0] = Slots /\ SetAll(arr)[1] = 0
<1>1. Sems = {0, 1} /\ DOMAIN arr = Sems
  BY DEF Sems, arr
<1>2. arr[0] = Slots
  BY <1>1 DEF arr
<1>3. SetAll(arr)[0] = arr[0 \div 2] % 65536 /\ SetAll(arr)[1] = arr[1 \div 2] \div 65536
  BY <1>1 DEF SetAll
<1>4. 0 \div 2 = 0 /\ 1 \div 2 = 0
  OBVIOUS
<1>5. Slots \in Nat /\ Slots < 32768
  BY SlotsAssumption
<1>6. Slots % 65536 = Slots /\ Slots \div 65536 = 0
  BY <1>5
<1> QED
  BY <1>2, <1>3, <1>4, <1>6

(* Nothing read and nothing written: the ring is empty. *)
LEMMA NothingYet ==
  ASSUME TypeOK, pos = 0, fpw = <<>>, rpc = "unborn", wpc = "unborn"
  PROVE  Published = 0 /\ Consumed = 0 /\ Backlog = 0
<1>1. Len(fpw) = 0
  OBVIOUS
<1>2. Published = 0
  <2>1. rpc \notin {"store", "V"}
    OBVIOUS
  <2>2. Published = pos - 0
    BY <2>1, Zenon DEF Published
  <2> QED
    BY <2>2
<1>3. Consumed = 0
  BY <1>1 DEF Consumed, TypeOK
<1> QED
  BY <1>2, <1>3 DEF Backlog

LEMMA RingInit ==
  ASSUME ~PerSlot
  PROVE  Init => RingInv
<1> SUFFICES ASSUME Init PROVE RingInv
  OBVIOUS
<1>1. TypeOK
  BY TypeInit DEF TypeInv
<1>2. ProcInv /\ SemInv
  BY DEF Init, ProcInv, SemInv, ReaderRuns, WriterRuns, Ended
<1>3. Published = 0 /\ Consumed = 0 /\ Backlog = 0
  BY <1>1, NothingYet DEF Init
<1>4. IndexInv
  BY <1>3, SlotsNat DEF Init, IndexInv
<1>5. ContentInv
  BY <1>3, SlotsNat DEF Init, ContentInv, Dist, Slot
<1>6. ReadInv /\ AbortInv
  BY FilesAssumption DEF Init, ReadInv, AbortInv
<1> QED
  BY <1>1, <1>2, <1>4, <1>5, <1>6 DEF RingInv

(* The parent touches neither the ring nor the counts. *)
LEMMA RingParent ==
  ASSUME ~PerSlot, RingInv, TypeOK', Parent
  PROVE  RingInv'
<1> USE DEF RingInv, readerVars, writerVars, envVars, shm, Ended
<1>1. UNCHANGED <<data, len, in, pos, m, out, n, fpw, file, stray>>
  BY DEF Parent, ParentShmget, ParentSemctl, ParentForkReader, ParentForkWriter,
         ParentWaitReader, ParentWaitWriter, ParentRmSem, ParentRmShm
<1>2. \/ UNCHANGED <<rpc, wpc>>
      \/ rpc = "unborn" /\ rpc' = "start" /\ UNCHANGED wpc
      \/ wpc = "unborn" /\ wpc' = "start" /\ UNCHANGED rpc
  BY DEF Parent, ParentShmget, ParentSemctl, ParentForkReader, ParentForkWriter,
         ParentWaitReader, ParentWaitWriter, ParentRmSem, ParentRmShm, ProcInv
<1>3. Published' = Published /\ Consumed' = Consumed /\ Backlog' = Backlog
  BY <1>1, <1>2 DEF Published, Consumed, Backlog
<1>4. ProcInv'
  <2>1. CASE ParentShmget \/ ParentSemctl
    BY <2>1 DEF ParentShmget, ParentSemctl, ProcInv, ReaderRuns, WriterRuns,
                Succeeds, Fails
  <2>2. CASE ParentForkReader \/ ParentForkWriter
    BY <2>2 DEF ParentForkReader, ParentForkWriter, ProcInv, ReaderRuns,
                WriterRuns, Succeeds, Fails
  <2>3. CASE ParentWaitReader \/ ParentWaitWriter
    BY <2>3 DEF ParentWaitReader, ParentWaitWriter, ProcInv, ReaderRuns,
                WriterRuns
  <2>4. CASE ParentRmSem \/ ParentRmShm
    BY <2>4 DEF ParentRmSem, ParentRmShm, ProcInv, ReaderRuns, WriterRuns,
                Succeeds, Fails
  <2> QED
    BY <2>1, <2>2, <2>3, <2>4 DEF Parent
<1>5. SemInv'
  <2>1. CASE ParentSemctl
    <3>1. rpc = "unborn" /\ wpc = "unborn" /\ pos = 0 /\ fpw = <<>>
      BY <2>1 DEF ParentSemctl, ProcInv
    <3>2. Backlog = 0
      BY <3>1, NothingYet
    <3>3. rpc' = "unborn" /\ wpc' = "unborn"
      BY <2>1, <3>1 DEF ParentSemctl
    <3>4. ppc' = "fork1" => sem' = SetAll(arr)
      BY <2>1 DEF ParentSemctl
    <3> QED
      BY <3>2, <3>3, <3>4, <1>3, CountingSetAll, SlotsNat
         DEF SemInv, ReaderInSlot, WriterInSlot
  <2>2. CASE ~ParentSemctl
    <3>1. sem' = sem
      BY <2>2 DEF Parent, ParentShmget, ParentForkReader, ParentForkWriter,
         ParentWaitReader, ParentWaitWriter, ParentRmSem, ParentRmShm
    <3>2. (ppc' = "fork1" \/ rpc' # "unborn") => (ppc = "fork1" \/ rpc # "unborn")
      BY <2>2 DEF Parent, ParentShmget, ParentForkReader, ParentForkWriter,
         ParentWaitReader, ParentWaitWriter, ParentRmSem, ParentRmShm, ProcInv,
         Succeeds, Fails
    <3> QED
      BY <3>1, <3>2, <1>2, <1>3 DEF SemInv, ReaderInSlot, WriterInSlot
  <2> QED
    BY <2>1, <2>2
<1>6. IndexInv'
  BY <1>1, <1>3 DEF IndexInv
<1>7. ContentInv'
  <2>1. \A s : Dist(s)' = Dist(s)
    BY <1>1 DEF Dist
  <2> QED
    BY <1>1, <1>2, <1>3, <2>1 DEF ContentInv
<1>8. ReadInv'
  <2>1. failed \subseteq failed'
    BY DEF Parent, ParentShmget, ParentSemctl, ParentForkReader, ParentForkWriter,
         ParentWaitReader, ParentWaitWriter, ParentRmSem, ParentRmShm, Succeeds, Fails
  <2> QED
    BY <1>1, <1>2, <2>1 DEF ReadInv, ChunkLen
<1>9. AbortInv'
  BY <1>2 DEF AbortInv, Parent, ParentShmget, ParentSemctl, ParentForkReader,
     ParentForkWriter, ParentWaitReader, ParentWaitWriter, ParentRmSem,
     ParentRmShm, Succeeds, Fails
<1> QED
  BY <1>4, <1>5, <1>6, <1>7, <1>8, <1>9

(* The counts are integers. *)
LEMMA CountTypes ==
  ASSUME TypeOK
  PROVE  Published \in Int /\ Consumed \in Int /\ Backlog \in Int
<1>1. Published \in Int
  BY DEF TypeOK, Published
<1>2. Len(fpw) \in Nat
  BY DEF TypeOK
<1>3. Consumed \in Int
  BY <1>2 DEF Consumed
<1> QED
  BY <1>1, <1>3 DEF Backlog

(* The slot after the full ones is at distance Backlog from out. *)
LEMMA NextFreeSlot ==
  ASSUME TypeOK, IndexInv, Backlog < Slots
  PROVE  Dist(in) = Backlog
BY SlotsNat, CountTypes DEF TypeOK, IndexInv, Dist, Slot

(* The types of what the invariant adds and compares. *)
LEMMA RingTypes ==
  ASSUME ~PerSlot, TypeOK
  PROVE  /\ sem \in [{0, 1} -> Nat] /\ sem[0] \in Nat /\ sem[1] \in Nat
         /\ Backlog \in Int /\ Consumed \in Int /\ Published \in Int
         /\ in \in Nat /\ in < Slots /\ out \in Nat /\ out < Slots
         /\ pos \in Nat
<1>1. Sems = {0, 1}
  BY DEF Sems
<1>2. sem \in [{0, 1} -> Nat]
  BY <1>1, Zenon DEF TypeOK
<1>3. sem[0] \in Nat /\ sem[1] \in Nat
  BY <1>2
<1>4. in \in Nat /\ in < Slots /\ out \in Nat /\ out < Slots /\ pos \in Nat
  BY SlotsNat DEF TypeOK, Slot
<1> QED
  BY <1>2, <1>3, <1>4, CountTypes

LEMMA RingReader ==
  ASSUME ~PerSlot, RingInv, TypeOK', Reader
  PROVE  RingInv'
<1> USE DEF parentVars, writerVars, envVars, shm
<1>0. TypeOK /\ ProcInv /\ SemInv /\ IndexInv /\ ContentInv /\ ReadInv
  BY DEF RingInv
<1>1. UNCHANGED <<ipc, ppc, wpc, out, n, fpw, file, stray>>
  BY DEF Reader, ReaderStart, ReaderP, ReaderFread, ReaderStore, ReaderV
<1>2. Consumed' = Consumed /\ \A s : Dist(s)' = Dist(s)
  BY <1>1 DEF Consumed, Dist
<1>3. ReaderRuns /\ "sem" \in ipc /\ rpc # "unborn"
  BY <1>0 DEF Reader, ReaderStart, ReaderP, ReaderFread, ReaderStore, ReaderV,
              ReaderRuns, ProcInv, Ended
<1>4. EmptySem(in) = 0 /\ FullSem(in) = 1 /\ Sems = {0, 1}
  BY DEF EmptySem, FullSem, Sems
<1>41. /\ sem \in [{0, 1} -> Nat] /\ sem[0] \in Nat /\ sem[1] \in Nat
       /\ Backlog \in Int /\ Consumed \in Int /\ Published \in Int
       /\ in \in Nat /\ in < Slots /\ out \in Nat /\ out < Slots /\ pos \in Nat
  BY <1>0, RingTypes
<1>42. /\ sem[0] = Slots - Backlog - (IF ReaderInSlot THEN 1 ELSE 0)
       /\ sem[1] = Backlog - (IF WriterInSlot THEN 1 ELSE 0)
  BY <1>0, <1>3 DEF SemInv
<1>5. ProcInv'
  <2>1. /\ (pos' = pos \/ pos' = pos + 1) /\ pos \in Nat
        /\ rpc # "start" /\ rpc \in {"store", "V"} => pos' = pos
        /\ rpc' \in {"store", "V"} => pos' = pos + 1 \/ rpc = "store"
        /\ rpc' \notin {"unborn", "start"}
    BY <1>0 DEF Reader, ReaderStart, ReaderP, ReaderFread, ReaderStore, ReaderV, TypeOK
  <2> QED
    BY <1>0, <1>1, <1>3, <2>1 DEF ReaderRuns, WriterRuns, ProcInv, Ended
<1>6. /\ Published' = IF rpc = "V" THEN Published + 1 ELSE Published
      /\ Published' \in Int
  <2>1. CASE ReaderV
    <3>1. rpc = "V" /\ rpc' \notin {"store", "V"} /\ pos' = pos
      BY <2>1 DEF ReaderV
    <3>2. Published = pos - 1 /\ Published' = pos - 0
      BY <3>1, Zenon DEF Published
    <3> QED
      BY <3>1, <3>2, <1>41
  <2>2. CASE ReaderFread
    <3>1. rpc = "fread" /\ rpc' = "store" /\ pos' = pos + 1
      BY <2>2 DEF ReaderFread
    <3>2. rpc \notin {"store", "V"} /\ rpc' \in {"store", "V"}
      BY <3>1
    <3>3. Published = pos - 0 /\ Published' = pos' - 1
      BY <3>2, Zenon DEF Published
    <3> QED
      BY <3>1, <3>3, <1>41
  <2>3. CASE ReaderStart \/ ReaderP \/ ReaderStore
    <3>1. pos' = pos /\ (rpc' \in {"store", "V"} <=> rpc \in {"store", "V"}) /\ rpc # "V"
      BY <2>3 DEF ReaderStart, ReaderP, ReaderStore
    <3>2. Published' = Published
      BY <3>1 DEF Published
    <3> QED
      BY <3>1, <3>2, <1>41
  <2> QED
    BY <2>1, <2>2, <2>3 DEF Reader
<1>7. Backlog' = IF rpc = "V" THEN Backlog + 1 ELSE Backlog
  BY <1>2, <1>6, <1>41 DEF Backlog
<1>8. SemInv'
  <2>0. WriterInSlot' = WriterInSlot
    BY <1>1 DEF WriterInSlot
  <2>1. CASE ReaderP
    <3>1. /\ ~ReaderInSlot /\ ReaderInSlot' /\ Backlog' = Backlog
      BY <2>1, <1>7 DEF ReaderP, ReaderInSlot
    <3>2. sem' = [sem EXCEPT ![0] = @ - 1]
      BY <2>1, <1>3, <1>4 DEF ReaderP, P
    <3>3. sem'[0] = sem[0] - 1 /\ sem'[1] = sem[1]
      BY <3>2, <1>41
    <3> QED
      BY <3>1, <3>3, <1>41, <1>42, <2>0, SlotsNat DEF SemInv
  <2>2. CASE ReaderV
    <3>1. ReaderInSlot /\ ~ReaderInSlot' /\ Backlog' = Backlog + 1
      BY <2>2, <1>7 DEF ReaderV, ReaderInSlot
    <3>2. sem' = [sem EXCEPT ![1] = @ + 1]
      BY <2>2, <1>3, <1>4 DEF ReaderV, V
    <3>3. sem'[0] = sem[0] /\ sem'[1] = sem[1] + 1
      BY <3>2, <1>41
    <3> QED
      BY <3>1, <3>3, <1>41, <1>42, <2>0, SlotsNat DEF SemInv
  <2>3. CASE ReaderStart \/ ReaderFread \/ ReaderStore
    <3>1. (ReaderInSlot' <=> ReaderInSlot) /\ Backlog' = Backlog /\ sem' = sem
      BY <2>3, <1>7 DEF ReaderStart, ReaderFread, ReaderStore, ReaderInSlot
    <3> QED
      BY <3>1, <1>41, <1>42, <2>0 DEF SemInv
  <2> QED
    BY <2>1, <2>2, <2>3 DEF Reader
<1>9. ReaderInSlot => Backlog < Slots
  BY <1>41, <1>42, SlotsNat
<1>10. IndexInv'
  <2>1. CASE ReaderV
    <3>1. rpc = "V" /\ Backlog < Slots /\ in' = IF in + 1 = Slots THEN 0 ELSE in + 1
      BY <2>1, <1>0, <1>9, Wrap DEF ReaderV, ReaderInSlot, TypeOK
    <3> QED
      BY <3>1, <1>0, <1>1, <1>7, <1>41, SlotsNat DEF IndexInv
  <2>2. CASE ~ReaderV
    BY <2>2, <1>0, <1>1, <1>7 DEF Reader, ReaderStart, ReaderP, ReaderFread,
       ReaderStore, IndexInv
  <2> QED
    BY <2>1, <2>2
<1>11. ContentInv'
  <2>0. ReaderInSlot => Dist(in) = Backlog
    BY <1>0, <1>9, NextFreeSlot
  <2>1. CASE ReaderFread
    <3>1. \A s \in Slot : Dist(s) < Backlog => s # in
      BY <2>1, <2>0, CountTypes, <1>0 DEF ReaderFread, ReaderInSlot
    <3>2. Backlog' = Backlog
      BY <2>1, <1>7 DEF ReaderFread
    <3>3. data' = [data EXCEPT ![in] = pos] /\ pos' = pos + 1 /\ in' = in
      BY <2>1 DEF ReaderFread
    <3>4. \A s \in Slot : Dist(s)' < Backlog' => data'[s] = Consumed' + Dist(s)'
      BY <1>0, <1>2, <3>1, <3>2, <3>3 DEF ContentInv, TypeOK
    <3>5. data'[in'] = pos' - 1
      BY <1>0, <3>3 DEF TypeOK
    <3> QED
      BY <1>0, <1>1, <3>4, <3>5 DEF ContentInv
  <2>2. CASE ReaderV
    <3>1. Backlog' = Backlog + 1 /\ rpc = "V" /\ data' = data
      BY <2>2, <1>7 DEF ReaderV
    <3>2. \A s \in Slot : Dist(s) < Backlog + 1 => Dist(s) < Backlog \/ s = in
      BY <1>0, <1>9, <1>41, <3>1, SlotsNat DEF IndexInv, Dist, Slot, ReaderInSlot
    <3>3. data[in] = Consumed + Dist(in)
      <4>1. data[in] = pos - 1 /\ Dist(in) = Backlog
        BY <3>1, <2>0, <1>0 DEF ReaderInSlot, ContentInv
      <4>2. Published = pos - 1
        BY <3>1, Zenon DEF Published
      <4> QED
        BY <4>1, <4>2, <1>41 DEF Backlog
    <3>4. \A s \in Slot : Dist(s)' < Backlog' => data'[s] = Consumed' + Dist(s)'
      BY <1>0, <1>2, <3>1, <3>2, <3>3 DEF ContentInv
    <3> QED
      BY <2>2, <1>0, <1>1, <3>4 DEF ContentInv, ReaderV, TypeOK
  <2>3. CASE ReaderStart \/ ReaderP \/ ReaderStore
    BY <2>3, <1>0, <1>1, <1>2, <1>7
       DEF ReaderStart, ReaderP, ReaderStore, ContentInv, TypeOK
  <2> QED
    BY <2>1, <2>2, <2>3 DEF Reader
<1>12. ReadInv'
  <2>1. CASE ReaderFread
    <3>1. /\ rpc = "fread" /\ rpc' = "store" /\ pos' = pos + 1
          /\ \/ m' = ChunkLen(pos) /\ failed' = failed
             \/ m' = 0 /\ "fread" \in failed'
      BY <2>1, Zenon DEF ReaderFread, Succeeds, Fails
    <3>3. pos' - 1 = pos /\ pos' > 0 /\ pos <= file[1]
      BY <1>0, <3>1 DEF TypeOK, ReadInv
    <3>5. ChunkLen(pos) >= 0
      BY <1>0, ChunkAssumption DEF ChunkLen, TypeOK
    <3>6. m' <= ChunkLen(pos - 1)' /\ ("fread" \notin failed' => m' = ChunkLen(pos - 1)')
      <4>1. ChunkLen(pos - 1)' = ChunkLen(pos)
        BY <1>1, <3>3 DEF ChunkLen
      <4>2. ChunkLen(pos) \in Int
        BY <1>0, ChunkAssumption, FilesAssumption DEF ChunkLen, ReadInv
      <4> QED
        BY <3>1, <3>5, <4>1, <4>2
    <3>7. file' \in Files /\ file'[1] \in Nat /\ pos' <= file'[1] + 1
      BY <1>0, <1>1, <3>1, <3>3, FilesAssumption DEF ReadInv, TypeOK
    <3> QED
      BY <3>1, <3>3, <3>6, <3>7 DEF ReadInv
  <2>2. CASE ReaderV
    <3>1. /\ rpc = "V" /\ rpc' = (IF m < Chunk THEN "finished" ELSE "P")
          /\ pos' = pos /\ m' = m /\ file' = file /\ failed' = failed
      BY <2>2, <1>1 DEF ReaderV
    <3>2. \A k : ChunkLen(k)' = ChunkLen(k)
      BY <3>1 DEF ChunkLen
    <3>3. pos \in Nat /\ pos > 0 /\ m \in Nat /\ file[1] \in Nat
          /\ file[2] \in Nat /\ file[2] < Chunk
      BY <1>0, <3>1, ChunkAssumption, FilesAssumption DEF TypeOK, ProcInv, ReadInv
    <3>4. m >= Chunk => pos - 1 < file[1]
      <4>1. m <= ChunkLen(pos - 1)
        BY <1>0, <3>3 DEF ReadInv
      <4> QED
        BY ONLY <4>1, <3>3, ChunkAssumption DEF ChunkLen
    <3>5. m >= Chunk => m = Chunk
      BY <1>0, <3>3, <3>4, ChunkAssumption DEF ReadInv, ChunkLen
    <3> QED
      BY <1>0, <3>1, <3>2, <3>3, <3>4, <3>5, ChunkAssumption DEF ReadInv
  <2>3. CASE ReaderStart \/ ReaderP \/ ReaderStore
    <3>1. pos' = pos /\ m' = m /\ file' = file /\ failed \subseteq failed'
      BY <2>3, <1>1 DEF ReaderStart, ReaderP, ReaderStore, Succeeds, Fails
    <3>2. \A k : ChunkLen(k)' = ChunkLen(k)
      BY <3>1 DEF ChunkLen
    <3>3. /\ rpc' \in {"unborn", "start", "P", "fread"} => rpc \in {"start", "P"}
          /\ rpc' \in {"P", "fread"} /\ pos > 0 => rpc = "P"
          /\ rpc' # "finished"
      BY <2>3, <1>0 DEF ReaderStart, ReaderP, ReaderStore, ProcInv
    <3> QED
      BY <1>0, <3>1, <3>2, <3>3 DEF ReadInv
  <2> QED
    BY <2>1, <2>2, <2>3 DEF Reader
<1>13. AbortInv'
  BY <1>1 DEF RingInv, AbortInv, Reader, ReaderStart, ReaderP, ReaderFread,
              ReaderStore, ReaderV, Succeeds, Fails
<1> QED
  BY <1>5, <1>8, <1>10, <1>11, <1>12, <1>13 DEF RingInv

LEMMA RingWriter ==
  ASSUME ~PerSlot, RingInv, TypeOK', Writer
  PROVE  RingInv'
<1> USE DEF parentVars, readerVars, envVars, shm
<1>0. TypeOK /\ ProcInv /\ SemInv /\ IndexInv /\ ContentInv /\ ReadInv
  BY DEF RingInv
<1>1. UNCHANGED <<ipc, ppc, rpc, in, pos, m, file, stray, data, len>>
  BY DEF Writer, WriterStart, WriterP, WriterGetLen, WriterFwrite, WriterV,
         WriterFflush
<1>2. Published' = Published
  BY <1>1 DEF Published
<1>3. WriterRuns /\ "sem" \in ipc /\ rpc # "unborn"
  BY <1>0 DEF Writer, WriterStart, WriterP, WriterGetLen, WriterFwrite, WriterV,
         WriterFflush, WriterRuns, ProcInv, Ended
<1>4. EmptySem(out) = 0 /\ FullSem(out) = 1
  BY DEF EmptySem, FullSem
<1>5. /\ sem \in [{0, 1} -> Nat] /\ sem[0] \in Nat /\ sem[1] \in Nat
      /\ Backlog \in Int /\ Consumed \in Int /\ Published \in Int
      /\ in \in Nat /\ in < Slots /\ out \in Nat /\ out < Slots /\ pos \in Nat
  BY <1>0, RingTypes
<1>6. /\ sem[0] = Slots - Backlog - (IF ReaderInSlot THEN 1 ELSE 0)
      /\ sem[1] = Backlog - (IF WriterInSlot THEN 1 ELSE 0)
  BY <1>0, <1>3 DEF SemInv
<1>7. fpw \in Seq(Piece)
  BY <1>0 DEF TypeOK, Piece
<1>8. ASSUME WriterFwrite
      PROVE  /\ Len(fpw') = Len(fpw) + 1 /\ fpw' # <<>>
             /\ \A i \in 1 .. Len(fpw) : fpw'[i] = fpw[i]
             /\ fpw'[Len(fpw) + 1].chunk = data[out]
             /\ fpw'[Len(fpw) + 1].len = n'
  <2> DEFINE e == [chunk |-> data[out], len |-> n']
  <2>1. n' \in Nat
    BY DEF TypeOK
  <2>2. e \in Piece /\ e.chunk = data[out] /\ e.len = n'
    BY <2>1, <1>0 DEF Piece, TypeOK
  <2>3. fpw' = Append(fpw, e)
    BY <1>8 DEF WriterFwrite
  <2> HIDE DEF e
  <2> QED
    BY <1>7, <2>2, <2>3, AppendProperties
<1>9. ASSUME WriterFflush
      PROVE  /\ Len(fpw') = Len(fpw) /\ fpw # <<>> /\ fpw' # <<>>
             /\ \A i \in 1 .. Len(fpw) : fpw'[i].chunk = fpw[i].chunk
  <2>1. fpw # <<>>
    BY <1>9, <1>0 DEF WriterFflush, ProcInv
  <2>2. /\ Len(fpw') = Len(fpw)
        /\ \A i \in 1 .. Len(fpw) : fpw'[i].chunk = fpw[i].chunk
    BY <1>7, <1>9, <2>1, LosePiece DEF WriterFflush, LosesLastPiece
  <2>3. fpw' # <<>>
    BY <1>7, <2>1, <2>2, EmptySeq
  <2> QED
    BY <2>1, <2>2, <2>3
<1>10. ProcInv'
  <2>1. CASE WriterFwrite
    BY <2>1, <1>0, <1>1, <1>3, <1>8
       DEF WriterFwrite, ProcInv, ReaderRuns, WriterRuns, Ended
  <2>2. CASE WriterFflush
    BY <2>2, <1>0, <1>1, <1>3, <1>9
       DEF WriterFflush, ProcInv, ReaderRuns, WriterRuns, Ended
  <2>3. CASE WriterStart \/ WriterP \/ WriterGetLen \/ WriterV
    BY <2>3, <1>0, <1>1, <1>3 DEF WriterStart, WriterP, WriterGetLen, WriterV,
       ProcInv, ReaderRuns, WriterRuns, Ended
  <2> QED
    BY <2>1, <2>2, <2>3 DEF Writer
<1>11. /\ Consumed' = IF wpc = "V" THEN Consumed + 1 ELSE Consumed
       /\ Consumed' \in Int
  <2>0. Len(fpw) \in Nat
    BY <1>7
  <2>1. CASE WriterV
    <3>1. wpc = "V" /\ wpc' # "V" /\ fpw' = fpw
      BY <2>1 DEF WriterV
    <3>2. Consumed = Len(fpw) - 1 /\ Consumed' = Len(fpw) - 0
      BY <3>1, Zenon DEF Consumed
    <3> QED
      BY <2>0, <3>1, <3>2
  <2>2. CASE WriterFwrite
    <3>1. wpc # "V" /\ wpc' = "V" /\ Len(fpw') = Len(fpw) + 1
      BY <2>2, <1>8 DEF WriterFwrite
    <3>2. Consumed = Len(fpw) - 0 /\ Consumed' = Len(fpw') - 1
      BY <3>1, Zenon DEF Consumed
    <3> QED
      BY <2>0, <3>1, <3>2
  <2>3. CASE WriterFflush
    <3>1. wpc # "V" /\ wpc' # "V" /\ Len(fpw') = Len(fpw)
      BY <2>3, <1>9 DEF WriterFflush
    <3>2. Consumed' = Consumed
      BY <3>1 DEF Consumed
    <3> QED
      BY <1>5, <3>1, <3>2
  <2>4. CASE WriterStart \/ WriterP \/ WriterGetLen
    <3>1. wpc # "V" /\ wpc' # "V" /\ fpw' = fpw
      BY <2>4 DEF WriterStart, WriterP, WriterGetLen
    <3>2. Consumed' = Consumed
      BY <3>1 DEF Consumed
    <3> QED
      BY <1>5, <3>1, <3>2
  <2> QED
    BY <2>1, <2>2, <2>3, <2>4 DEF Writer
<1>12. Backlog' = IF wpc = "V" THEN Backlog - 1 ELSE Backlog
  BY <1>2, <1>11, <1>5 DEF Backlog
<1>13. SemInv'
  <2>0. ReaderInSlot' = ReaderInSlot
    BY <1>1 DEF ReaderInSlot
  <2>1. CASE WriterP
    <3>1. ~WriterInSlot /\ WriterInSlot' /\ Backlog' = Backlog
      BY <2>1, <1>12 DEF WriterP, WriterInSlot
    <3>2. sem' = [sem EXCEPT ![1] = @ - 1]
      BY <2>1, <1>3, <1>4 DEF WriterP, P
    <3>3. sem'[0] = sem[0] /\ sem'[1] = sem[1] - 1
      BY <3>2, <1>5
    <3> QED
      BY <3>1, <3>3, <1>5, <1>6, <2>0, SlotsNat DEF SemInv
  <2>2. CASE WriterV
    <3>1. WriterInSlot /\ ~WriterInSlot' /\ Backlog' = Backlog - 1
      BY <2>2, <1>12 DEF WriterV, WriterInSlot
    <3>2. sem' = [sem EXCEPT ![0] = @ + 1]
      BY <2>2, <1>3, <1>4 DEF WriterV, V
    <3>3. sem'[0] = sem[0] + 1 /\ sem'[1] = sem[1]
      BY <3>2, <1>5
    <3> QED
      BY <3>1, <3>3, <1>5, <1>6, <2>0, SlotsNat DEF SemInv
  <2>3. CASE WriterStart \/ WriterGetLen \/ WriterFwrite \/ WriterFflush
    <3>1. (WriterInSlot' <=> WriterInSlot) /\ Backlog' = Backlog /\ sem' = sem
      BY <2>3, <1>12
         DEF WriterStart, WriterGetLen, WriterFwrite, WriterFflush, WriterInSlot
    <3> QED
      BY <3>1, <1>5, <1>6, <2>0 DEF SemInv
  <2> QED
    BY <2>1, <2>2, <2>3 DEF Writer
<1>14. WriterInSlot => Backlog > 0
  BY <1>5, <1>6, SlotsNat
<1>15. IndexInv'
  <2>1. CASE WriterV
    <3>1. wpc = "V" /\ Backlog > 0 /\ out' = IF out + 1 = Slots THEN 0 ELSE out + 1
      BY <2>1, <1>0, <1>14, Wrap DEF WriterV, WriterInSlot, TypeOK
    <3> QED
      BY <3>1, <1>0, <1>1, <1>12, <1>5, SlotsNat DEF IndexInv
  <2>2. CASE ~WriterV
    BY <2>2, <1>0, <1>1, <1>12 DEF Writer, WriterStart, WriterP, WriterGetLen,
       WriterFwrite, WriterFflush, IndexInv
  <2> QED
    BY <2>1, <2>2
<1>16. ContentInv'
  <2>1. CASE WriterV
    <3>1. /\ wpc = "V" /\ fpw' = fpw /\ Backlog' = Backlog - 1
          /\ Consumed' = Consumed + 1 /\ Backlog > 0
          /\ out' = IF out + 1 = Slots THEN 0 ELSE out + 1
      BY <2>1, <1>0, <1>11, <1>12, <1>14, Wrap DEF WriterV, WriterInSlot, TypeOK
    <3>2. ASSUME NEW s \in Slot, Dist(s)' < Backlog'
          PROVE  Dist(s) = Dist(s)' + 1 /\ Dist(s)' \in Int
      <4>1. Backlog <= Slots
        BY <1>0 DEF IndexInv
      <4> QED
        BY <3>1, <3>2, <4>1, <1>5, SlotsNat DEF Dist, Slot
    <3>3. \A s \in Slot : Dist(s)' < Backlog' => data[s] = Consumed' + Dist(s)'
      BY <3>1, <3>2, <1>0, <1>5 DEF ContentInv
    <3> QED
      BY <3>1, <3>3, <1>0, <1>1 DEF ContentInv
  <2>2. CASE WriterFwrite
    <3>1. Backlog > 0 /\ Backlog' = Backlog /\ Consumed' = Consumed /\ out' = out
      BY <2>2, <1>11, <1>12, <1>14 DEF WriterFwrite, WriterInSlot
    <3>2. Dist(out) = 0
      BY <1>5 DEF Dist
    <3>3. data[out] = Consumed
      <4>1. out \in Slot /\ Dist(out) < Backlog
        BY <3>1, <3>2, <1>0 DEF TypeOK
      <4>2. data[out] = Consumed + Dist(out)
        BY <4>1, <1>0 DEF ContentInv
      <4> QED
        BY <4>2, <3>2, <1>5
    <3>4. Consumed = Len(fpw)
      <4>1. wpc # "V" /\ Len(fpw) \in Nat
        BY <2>2, <1>7 DEF WriterFwrite
      <4>2. Consumed = Len(fpw) - 0
        BY <4>1, Zenon DEF Consumed
      <4> QED
        BY <4>1, <4>2
    <3>5. \A i \in 1 .. Len(fpw') : fpw'[i].chunk = i - 1
      BY <2>2, <1>7, <1>8, <3>3, <3>4, <1>0 DEF ContentInv
    <3>6. \A s : Dist(s)' = Dist(s)
      BY <3>1 DEF Dist
    <3> QED
      BY <3>1, <3>5, <3>6, <1>0, <1>1 DEF ContentInv
  <2>3. CASE WriterFflush
    <3>1. Backlog' = Backlog /\ Consumed' = Consumed /\ out' = out
      BY <2>3, <1>11, <1>12 DEF WriterFflush
    <3>2. \A s : Dist(s)' = Dist(s)
      BY <3>1 DEF Dist
    <3>3. \A i \in 1 .. Len(fpw') : fpw'[i].chunk = i - 1
      BY <2>3, <1>9, <1>0 DEF ContentInv
    <3> QED
      BY <3>1, <3>2, <3>3, <1>0, <1>1 DEF ContentInv
  <2>4. CASE WriterStart \/ WriterP \/ WriterGetLen
    <3>1. Backlog' = Backlog /\ Consumed' = Consumed /\ out' = out /\ fpw' = fpw
      BY <2>4, <1>11, <1>12 DEF WriterStart, WriterP, WriterGetLen
    <3>2. \A s : Dist(s)' = Dist(s)
      BY <3>1 DEF Dist
    <3> QED
      BY <3>1, <3>2, <1>0, <1>1 DEF ContentInv
  <2> QED
    BY <2>1, <2>2, <2>3, <2>4 DEF Writer
<1>17. ReadInv'
  <2>1. failed \subseteq failed'
    BY DEF Writer, WriterStart, WriterP, WriterGetLen, WriterFwrite, WriterV,
         WriterFflush, Succeeds, Fails
  <2> QED
    BY <2>1, <1>0, <1>1 DEF ReadInv, ChunkLen
<1>18. AbortInv'
  BY <1>1 DEF RingInv, AbortInv, Writer, WriterStart, WriterP, WriterGetLen,
              WriterFwrite, WriterV, WriterFflush, Succeeds, Fails
<1> QED
  BY <1>10, <1>13, <1>15, <1>16, <1>17, <1>18 DEF RingInv

LEMMA RingNext ==
  ASSUME ~PerSlot, RingInv, [Next]_vars
  PROVE  RingInv'
<1>1. TypeInv
  BY DEF RingInv, ProcInv, TypeInv
<1>2. TypeOK'
  BY <1>1, TypeNext DEF TypeInv
<1>3. CASE UNCHANGED vars
  BY <1>2, <1>3 DEF vars, RingInv, AbortInv, ProcInv, SemInv, IndexInv, ContentInv, ReadInv,
     ReaderRuns, WriterRuns, ReaderInSlot, WriterInSlot, Published, Consumed,
     Backlog, Dist, ChunkLen
<1> QED
  BY <1>2, <1>3, RingParent, RingReader, RingWriter DEF Next

LEMMA RingInvariance ==
  ASSUME ~PerSlot
  PROVE  Spec => []RingInv
BY RingInit, RingNext, PTL DEF Spec

(* readbuf and writebuf are never in the same slot: a file of any length,   *)
(* any number of slots, whatever fails and whatever _m[3] holds.            *)
THEOREM SlotsAreExclusive ==
  ASSUME ~PerSlot
  PROVE  Spec => []SlotExclusion
<1>1. RingInv => SlotExclusion
  <2> SUFFICES ASSUME RingInv, ReaderInSlot, WriterInSlot, in = out PROVE FALSE
    BY DEF SlotExclusion
  <2>1. rpc # "unborn"
    BY DEF ReaderInSlot
  <2>2. sem[0] = Slots - Backlog - 1 /\ sem[1] = Backlog - 1
    BY <2>1 DEF RingInv, SemInv
  <2>3. Backlog > 0 /\ Backlog < Slots /\ Backlog \in Int
    BY <2>2, RingTypes, SlotsNat DEF RingInv
  <2>4. in \in Nat /\ out \in Nat /\ (in = out + Backlog \/ in = out + Backlog - Slots)
    BY RingTypes DEF RingInv, IndexInv
  <2> QED
    BY <2>3, <2>4, SlotsNat
<1> QED
  BY <1>1, RingInvariance, PTL

(* The parent removes the IPC objects only after both children ended.       *)
THEOREM IpcIsKept ==
  ASSUME ~PerSlot
  PROVE  Spec => []IpcOutlivesChildren
<1>1. RingInv => IpcOutlivesChildren
  BY DEF RingInv, ProcInv, IpcOutlivesChildren, ReaderRuns, WriterRuns
<1> QED
  BY <1>1, RingInvariance, PTL

=============================================================================
