-------------------------- MODULE RingCopyLengths --------------------------
(***************************************************************************)
(* Proofs for version 1.2 (counting semaphores, the length stored as an    *)
(* int): the lengths travel with the chunks, so that what is written is a  *)
(* prefix of the input, all of it when writebuf says so, and no process is *)
(* left waiting.                                                           *)
(***************************************************************************)
EXTENDS RingCopyProofs

LEMMA LengthInit ==
  ASSUME ~PerSlot
  PROVE  Init => CopyInv
<1> SUFFICES ASSUME Init PROVE LengthInv
  BY RingInit DEF CopyInv
<1>1. fpw = <<>> /\ Len(fpw) = 0 /\ rpc = "unborn" /\ wpc = "unborn"
  BY DEF Init
<1>2. Backlog = 0
  BY NothingYet, RingInit DEF Init, RingInv
<1>3. \A s \in Slot : ~(Dist(s) < Backlog)
  BY <1>2, SlotsNat DEF Init, Dist, Slot
<1> QED
  BY <1>1, <1>3 DEF LengthInv, SlotLengthInv, WriteInv

(* The distance of slot s from slot o, going round the ring. *)
DistFrom(s, o) == IF s >= o THEN s - o ELSE s - o + Slots

(* When o moves on, every slot but the one it leaves comes one nearer.     *)
LEMMA NextDist ==
  ASSUME NEW s \in Int, 0 <= s, s < Slots, NEW o \in Nat, o < Slots,
         NEW next, next = IF o + 1 = Slots THEN 0 ELSE o + 1
  PROVE  /\ DistFrom(s, next) \in Int
         /\ DistFrom(s, next) < Slots - 1 => DistFrom(s, o) = DistFrom(s, next) + 1
<1>1. CASE o + 1 = Slots
  BY ONLY <1>1, SlotsNat, next = (IF o + 1 = Slots THEN 0 ELSE o + 1),
     s \in Int, 0 <= s, s < Slots, o \in Nat DEF DistFrom
<1>2. CASE o + 1 # Slots
  BY ONLY <1>2, SlotsNat, next = (IF o + 1 = Slots THEN 0 ELSE o + 1),
     s \in Int, 0 <= s, s < Slots, o \in Nat, o < Slots DEF DistFrom
<1> QED
  BY <1>1, <1>2

(* Where the reader is when writebuf holds a slot, and what m means.       *)
LEMMA Counts ==
  ASSUME ~PerSlot, RingInv
  PROVE  /\ Len(fpw) \in Nat /\ m \in Nat /\ m <= Chunk /\ n \in Nat
         /\ Published = IF rpc \in {"store", "V"} THEN pos - 1 ELSE pos
         /\ Consumed = IF wpc = "V" THEN Len(fpw) - 1 ELSE Len(fpw)
         /\ Backlog = Published - Consumed
         /\ Backlog \in Int /\ Consumed \in Int /\ Published \in Int /\ pos \in Nat
         /\ Backlog >= 0 /\ Backlog <= Slots /\ Consumed >= 0
         /\ rpc # "unborn" /\ WriterInSlot => Backlog > 0
         /\ rpc # "unborn" /\ ReaderInSlot => Backlog < Slots
<1>1. /\ Len(fpw) \in Nat /\ m \in Nat /\ m <= Chunk /\ n \in Nat /\ pos \in Nat
  BY ChunkAssumption DEF RingInv, TypeOK
<1>2. Published = IF rpc \in {"store", "V"} THEN pos - 1 ELSE pos
  <2>1. Published = IF rpc \in {"store", "V"} THEN pos - 1 ELSE pos - 0
    BY Zenon DEF Published
  <2> QED
    BY <2>1, <1>1
<1>3. Consumed = IF wpc = "V" THEN Len(fpw) - 1 ELSE Len(fpw)
  <2>1. Consumed = IF wpc = "V" THEN Len(fpw) - 1 ELSE Len(fpw) - 0
    BY Zenon DEF Consumed
  <2> QED
    BY <2>1, <1>1
<1>4. /\ Backlog \in Int /\ Consumed \in Int /\ Published \in Int
      /\ sem[0] \in Nat /\ sem[1] \in Nat
  BY RingTypes DEF RingInv
<1>5. Backlog >= 0 /\ Backlog <= Slots
  BY SlotsNat DEF RingInv, IndexInv
<1>6. ASSUME rpc # "unborn"
      PROVE  /\ WriterInSlot => Backlog > 0
             /\ ReaderInSlot => Backlog < Slots
  <2>1. /\ sem[0] = Slots - Backlog - (IF ReaderInSlot THEN 1 ELSE 0)
        /\ sem[1] = Backlog - (IF WriterInSlot THEN 1 ELSE 0)
    BY <1>6 DEF RingInv, SemInv
  <2> QED
    BY <2>1, <1>4, SlotsNat
<1>7. Consumed >= 0
  <2>1. CASE wpc = "V"
    <3>1. Len(fpw) > 0
      BY <2>1, EmptySeq DEF RingInv, ProcInv, TypeOK
    <3> QED
      BY <2>1, <3>1, <1>1, <1>3
  <2>2. CASE wpc # "V"
    BY <2>2, <1>1, <1>3
  <2> QED
    BY <2>1, <2>2
<1> QED
  BY <1>1, <1>2, <1>3, <1>4, <1>5, <1>6, <1>7 DEF Backlog

LEMMA LengthParent ==
  ASSUME ~PerSlot, CopyInv, RingInv', Parent
  PROVE  LengthInv'
<1> USE DEF readerVars, writerVars, envVars, shm
<1>1. UNCHANGED <<data, len, in, pos, m, out, n, fpw, file, stray>>
  BY DEF Parent, ParentShmget, ParentSemctl, ParentForkReader, ParentForkWriter,
         ParentWaitReader, ParentWaitWriter, ParentRmSem, ParentRmShm
<1>2. \/ UNCHANGED <<rpc, wpc>>
      \/ rpc = "unborn" /\ rpc' = "start" /\ UNCHANGED wpc
      \/ wpc = "unborn" /\ wpc' = "start" /\ UNCHANGED rpc
  BY DEF Parent, ParentShmget, ParentSemctl, ParentForkReader, ParentForkWriter,
         ParentWaitReader, ParentWaitWriter, ParentRmSem, ParentRmShm, ProcInv,
         CopyInv, RingInv
<1>3. Published' = Published /\ Consumed' = Consumed /\ Backlog' = Backlog
  BY <1>1, <1>2 DEF Published, Consumed, Backlog
<1>4. failed \subseteq failed'
  BY DEF Parent, ParentShmget, ParentSemctl, ParentForkReader, ParentForkWriter,
         ParentWaitReader, ParentWaitWriter, ParentRmSem, ParentRmShm, Succeeds, Fails
<1>5. (\A s : Dist(s)' = Dist(s)) /\ (\A k : StoredLen(k)' = StoredLen(k))
  BY <1>1 DEF Dist, StoredLen
<1>6. SlotLengthInv'
  BY <1>1, <1>2, <1>3, <1>5 DEF CopyInv, LengthInv, SlotLengthInv
<1>7. WriteInv'
  BY <1>1, <1>2, <1>4, <1>5 DEF CopyInv, LengthInv, WriteInv
<1> QED
  BY <1>6, <1>7 DEF LengthInv

LEMMA LengthReader ==
  ASSUME ~PerSlot, CopyInv, RingInv', Reader
  PROVE  LengthInv'
<1> USE DEF parentVars, writerVars, envVars, shm
<1>0. RingInv /\ SlotLengthInv /\ WriteInv /\ TypeOK
  BY DEF CopyInv, RingInv, LengthInv
<1>1. UNCHANGED <<ipc, ppc, wpc, out, n, fpw, file, stray>> /\ failed \subseteq failed'
  BY DEF Reader, ReaderStart, ReaderP, ReaderFread, ReaderStore, ReaderV,
         Succeeds, Fails
<1>2. Consumed' = Consumed /\ \A s : Dist(s)' = Dist(s)
  BY <1>1 DEF Consumed, Dist
<1>3. rpc # "unborn"
  BY DEF Reader, ReaderStart, ReaderP, ReaderFread, ReaderStore, ReaderV
<1>4. /\ Len(fpw) \in Nat /\ pos \in Nat
      /\ Published = IF rpc \in {"store", "V"} THEN pos - 1 ELSE pos
      /\ Consumed = IF wpc = "V" THEN Len(fpw) - 1 ELSE Len(fpw)
      /\ Backlog = Published - Consumed
      /\ Backlog \in Int /\ Consumed \in Int /\ Published \in Int
      /\ Backlog >= 0 /\ Consumed >= 0
      /\ WriterInSlot => Backlog > 0
      /\ ReaderInSlot => Backlog < Slots
  BY <1>0, <1>3, Counts
<1>41. /\ Backlog = Published - Consumed /\ Backlog \in Int /\ Backlog >= 0
       /\ Consumed \in Nat /\ Published \in Int /\ pos \in Nat /\ Len(fpw) \in Nat
  BY <1>4
<1>5. \A s \in Slot : Dist(s) \in Int /\ Dist(s) >= 0
  BY <1>0, SlotsNat DEF TypeOK, Slot, Dist
<1>6. \A k \in Nat : k < Published => StoredLen(k)' = StoredLen(k)
  <2>1. CASE ReaderFread
    <3>1. rpc = "fread" /\ pos' = pos + 1 /\ (pos > 0 => m = Chunk)
      BY <2>1, <1>0 DEF ReaderFread, RingInv, ReadInv
    <3>2. Published = pos
      BY <3>1, <1>4
    <3>3. \A k \in Nat : k < pos => (k = pos' - 1 <=> FALSE)
      BY <3>1, <1>41
    <3>4. \A k \in Nat : k < pos => StoredLen(k)' = Chunk
      BY <3>3, Zenon DEF StoredLen
    <3>5. \A k \in Nat : k < pos => StoredLen(k) = Chunk
      <4> TAKE k \in Nat
      <4> HAVE k < pos
      <4>1. CASE k = pos - 1
        <5>1. pos > 0
          BY <4>1, <1>41
        <5> QED
          BY <5>1, <3>1, <4>1 DEF StoredLen
      <4>2. CASE k # pos - 1
        BY <4>2 DEF StoredLen
      <4> QED
        BY <4>1, <4>2
    <3> QED
      BY <3>2, <3>4, <3>5
  <2>2. CASE ~ReaderFread
    BY <2>2 DEF Reader, ReaderStart, ReaderP, ReaderStore, ReaderV, StoredLen
  <2> QED
    BY <2>1, <2>2
<1>7. WriteInv'
  <2>1. wpc = "fwrite" => StoredLen(Len(fpw))' = StoredLen(Len(fpw))
    <3>1. SUFFICES ASSUME wpc = "fwrite" PROVE StoredLen(Len(fpw))' = StoredLen(Len(fpw))
      OBVIOUS
    <3>2. Len(fpw) < Published
      BY <3>1, <1>4 DEF WriterInSlot
    <3> QED
      BY <3>2, <1>1, <1>4, <1>6 DEF StoredLen
  <2>2. fpw # <<>> => StoredLen(Len(fpw) - 1)' = StoredLen(Len(fpw) - 1)
    <3>1. Len(fpw) - 1 < Published
      <4>1. CASE wpc = "V"
        <5>1. Consumed = Len(fpw) - 1 /\ Backlog > 0
          BY <4>1, <1>4 DEF WriterInSlot
        <5> QED
          BY <5>1, <1>41
      <4>2. CASE wpc # "V"
        <5>1. Consumed = Len(fpw)
          BY <4>2, <1>4
        <5> QED
          BY <5>1, <1>41
      <4> QED
        BY <4>1, <4>2
    <3> QED
      <4> SUFFICES ASSUME fpw # <<>>
                   PROVE  StoredLen(Len(fpw) - 1)' = StoredLen(Len(fpw) - 1)
        OBVIOUS
      <4>1. Len(fpw) - 1 \in Nat
        BY <1>0, EmptySeq DEF TypeOK
      <4> QED
        BY <3>1, <4>1, <1>1, <1>6 DEF StoredLen
  <2> QED
    BY <2>1, <2>2, <1>0, <1>1 DEF WriteInv
<1>8. SlotLengthInv'
  <2>0. ReaderInSlot => Dist(in) = Backlog
    BY <1>0, <1>4, NextFreeSlot DEF RingInv
  <2>1. CASE ReaderStore
    <3>1. /\ len' = [len EXCEPT ![in] = m] /\ m' = m /\ in' = in
          /\ pos' = pos /\ rpc = "store" /\ rpc' = "V"
      BY <2>1 DEF ReaderStore
    <3>2. Published' = Published
      BY <3>1 DEF Published
    <3>3. Backlog' = Backlog
      BY <3>2, <1>2 DEF Backlog
    <3>4. \A s \in Slot : Dist(s) < Backlog => s # in
      <4>1. Dist(in) = Backlog
        BY <3>1, <2>0 DEF ReaderInSlot
      <4> QED
        BY <4>1, <1>41
    <3>5. \A k : StoredLen(k)' = StoredLen(k)
      BY <3>1 DEF StoredLen
    <3>6. len'[in'] = m'
      BY <3>1, <1>0 DEF TypeOK
    <3>7. \A s \in Slot : Dist(s) < Backlog => len'[s] = len[s]
      BY <3>1, <3>4, <1>0 DEF TypeOK
    <3> QED
      BY <3>3, <3>5, <3>6, <3>7, <1>0, <1>2 DEF SlotLengthInv
  <2>2. CASE ReaderV
    <3>1. /\ len' = len /\ m' = m /\ rpc = "V" /\ rpc' # "V" /\ pos' = pos
          /\ rpc' \notin {"store", "V"}
      BY <2>2 DEF ReaderV
    <3>2. Published' = pos
      <4>1. Published' = pos' - 0
        BY <3>1, Zenon DEF Published
      <4> QED
        BY <4>1, <3>1, <1>4
    <3>3. Backlog' = Backlog + 1
      BY <3>1, <3>2, <1>2, <1>4 DEF Backlog
    <3>4. \A s \in Slot : Dist(s) < Backlog + 1 => Dist(s) < Backlog \/ s = in
      <4>1. Backlog < Slots
        BY <3>1, <1>4 DEF ReaderInSlot
      <4>2. /\ in = out + Backlog \/ in = out + Backlog - Slots
            /\ in \in Nat /\ in < Slots /\ out \in Nat /\ out < Slots
        BY <1>0, RingTypes DEF RingInv, IndexInv
      <4> QED
        BY <4>1, <4>2, <1>41, SlotsNat DEF Dist, Slot
    <3>5. Consumed + Dist(in) = pos - 1 /\ len[in] = m
      BY <3>1, <2>0, <1>0, <1>4 DEF ReaderInSlot, SlotLengthInv
    <3>6. \A k : StoredLen(k)' = StoredLen(k)
      BY <3>1 DEF StoredLen
    <3>7. len[in] = StoredLen(Consumed + Dist(in))
      BY <3>5 DEF StoredLen
    <3>8. \A s \in Slot : Dist(s) < Backlog' => len[s] = StoredLen(Consumed + Dist(s))
      BY <3>3, <3>4, <3>7, <1>0 DEF SlotLengthInv
    <3> QED
      BY <3>1, <3>6, <3>8, <1>2 DEF SlotLengthInv
  <2>3. CASE ReaderStart \/ ReaderP \/ ReaderFread
    <3>1. len' = len /\ rpc' # "V"
      BY <2>3 DEF ReaderStart, ReaderP, ReaderFread
    <3>2. Published' = Published
      <4>1. CASE ReaderFread
        <5>1. rpc' \in {"store", "V"} /\ pos' = pos + 1 /\ rpc \notin {"store", "V"}
          BY <4>1 DEF ReaderFread
        <5>2. Published' = pos' - 1
          BY <5>1, Zenon DEF Published
        <5> QED
          BY <5>1, <5>2, <1>4
      <4>2. CASE ReaderStart \/ ReaderP
        BY <4>2 DEF ReaderStart, ReaderP, Published
      <4> QED
        BY <2>3, <4>1, <4>2
    <3>3. Backlog' = Backlog
      BY <3>2, <1>2 DEF Backlog
    <3>4. \A s \in Slot : Dist(s) < Backlog =>
            StoredLen(Consumed + Dist(s))' = StoredLen(Consumed + Dist(s))
      <4> SUFFICES ASSUME NEW s \in Slot, Dist(s) < Backlog
                   PROVE  StoredLen(Consumed + Dist(s))' = StoredLen(Consumed + Dist(s))
        OBVIOUS
      <4>1. Consumed + Dist(s) < Published /\ Consumed + Dist(s) \in Nat
        BY <1>41, <1>5
      <4>2. (Consumed + Dist(s))' = Consumed + Dist(s)
        BY <1>2
      <4> QED
        BY <4>1, <4>2, <1>6 DEF StoredLen
    <3> QED
      BY <3>1, <3>3, <3>4, <1>0, <1>2 DEF SlotLengthInv
  <2> QED
    BY <2>1, <2>2, <2>3 DEF Reader
<1> QED
  BY <1>7, <1>8 DEF LengthInv

LEMMA LengthWriter ==
  ASSUME ~PerSlot, ~TextLength, CopyInv, RingInv', Writer
  PROVE  LengthInv'
<1> USE DEF parentVars, readerVars, envVars, shm
<1>0. RingInv /\ SlotLengthInv /\ WriteInv /\ TypeOK /\ TypeOK'
  BY DEF CopyInv, RingInv, LengthInv
<1>1. UNCHANGED <<rpc, in, pos, m, file, stray, data, len>> /\ failed \subseteq failed'
  BY DEF Writer, WriterStart, WriterP, WriterGetLen, WriterFwrite, WriterV,
         WriterFflush, Succeeds, Fails
<1>2. Published' = Published /\ \A k : StoredLen(k)' = StoredLen(k)
  BY <1>1 DEF Published, StoredLen
<1>3. rpc # "unborn"
  BY <1>0 DEF Writer, WriterStart, WriterP, WriterGetLen, WriterFwrite, WriterV,
              WriterFflush, RingInv, ProcInv
<1>4. /\ Len(fpw) \in Nat /\ n \in Nat /\ m \in Nat /\ m <= Chunk
      /\ Consumed = IF wpc = "V" THEN Len(fpw) - 1 ELSE Len(fpw)
      /\ Backlog = Published - Consumed
      /\ Backlog \in Int /\ Consumed \in Int /\ Published \in Int
      /\ Backlog >= 0 /\ Backlog <= Slots /\ Consumed >= 0
      /\ WriterInSlot => Backlog > 0
  BY <1>0, <1>3, Counts
<1>5. fpw \in Seq(Piece)
  BY <1>0 DEF TypeOK, Piece
<1>6. \A k : StoredLen(k) <= Chunk
  BY <1>4, ChunkAssumption DEF StoredLen
<1>7. CASE WriterStart
  <2>1. wpc = "start" /\ wpc' \in {"P", "aborted"} /\ UNCHANGED <<out, n, fpw>>
    BY <1>7 DEF WriterStart
  <2>2. fpw = <<>> /\ Len(fpw) = 0
    BY <2>1, <1>0 DEF RingInv, ProcInv
  <2>3. Consumed' = Consumed
    BY <2>1 DEF Consumed
  <2>4. Backlog' = Backlog /\ \A s : Dist(s)' = Dist(s)
    BY <2>1, <2>3, <1>2 DEF Backlog, Dist
  <2>5. SlotLengthInv'
    BY <2>3, <2>4, <1>0, <1>1, <1>2 DEF SlotLengthInv
  <2>6. WriteInv'
    BY <2>1, <2>2 DEF WriteInv
  <2> QED
    BY <2>5, <2>6 DEF LengthInv
<1>8. CASE WriterP
  <2>1. wpc = "P" /\ wpc' = "getlen" /\ UNCHANGED <<out, n, fpw, failed>>
    BY <1>8 DEF WriterP
  <2>2. Consumed' = Consumed
    BY <2>1 DEF Consumed
  <2>3. Backlog' = Backlog /\ \A s : Dist(s)' = Dist(s)
    BY <2>1, <2>2, <1>2 DEF Backlog, Dist
  <2>4. SlotLengthInv'
    BY <2>2, <2>3, <1>0, <1>1, <1>2 DEF SlotLengthInv
  <2>5. WriteInv'
    BY <2>1, <1>0, <1>2 DEF WriteInv
  <2> QED
    BY <2>4, <2>5 DEF LengthInv
<1>9. CASE WriterGetLen
  <2>1. /\ wpc = "getlen" /\ wpc' = "fwrite" /\ UNCHANGED <<out, fpw, failed>>
        /\ n' = len[out]
    BY <1>9 DEF WriterGetLen, Decoded
  <2>2. Consumed' = Consumed /\ Consumed = Len(fpw) /\ Backlog > 0
    BY <2>1, <1>4 DEF Consumed, WriterInSlot
  <2>3. Backlog' = Backlog /\ \A s : Dist(s)' = Dist(s)
    BY <2>1, <2>2, <1>2 DEF Backlog, Dist
  <2>4. SlotLengthInv'
    BY <2>2, <2>3, <1>0, <1>1, <1>2 DEF SlotLengthInv
  <2>5. out \in Slot /\ Dist(out) = 0
    BY <1>0, SlotsNat DEF TypeOK, Slot, Dist
  <2>6. len[out] = StoredLen(Len(fpw))
    <3>1. len[out] = StoredLen(Consumed + 0)
      BY <2>2, <2>5, <1>0, <1>4 DEF SlotLengthInv
    <3>2. Consumed + 0 = Len(fpw)
      BY <2>2, <1>4
    <3> QED
      BY <3>1, <3>2
  <2>7. WriteInv'
    <3>1. n' = StoredLen(Len(fpw))'
      BY <2>1, <2>6, <1>1 DEF StoredLen
    <3>2. fpw # <<>> /\ "fflush" \notin failed => fpw[Len(fpw)].len = Chunk
      BY <2>1, <1>0 DEF WriteInv
    <3> QED
      BY <2>1, <3>1, <3>2, <1>0, <1>1 DEF WriteInv, StoredLen
  <2> QED
    BY <2>4, <2>7 DEF LengthInv
<1>10. CASE WriterFwrite
  <2>1. /\ wpc = "fwrite" /\ wpc' = "V" /\ out' = out
        /\ \/ n' = n /\ failed' = failed
           \/ n' = 0 /\ "fwrite" \in failed'
    BY <1>10, Zenon DEF WriterFwrite, Succeeds, Fails
  <2>2. /\ fpw' # <<>> /\ Len(fpw') = Len(fpw) + 1
        /\ \A i \in 1 .. Len(fpw) : fpw'[i] = fpw[i]
        /\ fpw'[Len(fpw) + 1].len = n'
    <3> DEFINE e == [chunk |-> data[out], len |-> n']
    <3>1. e \in Piece /\ e.len = n'
      BY <1>0 DEF Piece, TypeOK
    <3>2. fpw' = Append(fpw, e)
      BY <1>10 DEF WriterFwrite
    <3> HIDE DEF e
    <3> QED
      BY <1>5, <3>1, <3>2, AppendProperties
  <2>3. Consumed' = Consumed
    <3>1. Consumed = Len(fpw) /\ Consumed' = Len(fpw') - 1
      BY <2>1, <1>4 DEF Consumed
    <3> QED
      BY <3>1, <2>2, <1>4
  <2>4. Backlog' = Backlog /\ \A s : Dist(s)' = Dist(s)
    BY <2>1, <2>3, <1>2 DEF Backlog, Dist
  <2>5. SlotLengthInv'
    BY <2>3, <2>4, <1>0, <1>1, <1>2 DEF SlotLengthInv
  <2>6. n = StoredLen(Len(fpw)) /\ (fpw # <<>> /\ "fflush" \notin failed =>
           fpw[Len(fpw)].len = Chunk)
    BY <2>1, <1>0 DEF WriteInv
  <2>7. StoredLen(Len(fpw) - 1)' = StoredLen(Len(fpw))
    <3>1. Len(fpw') - 1 = Len(fpw)
      BY <2>2, <1>4
    <3> QED
      BY <3>1, <1>1 DEF StoredLen
  <2>8. n' <= n /\ ("fwrite" \notin failed' => n' = n)
    BY <2>1, <1>4
  <2>9. ASSUME "fflush" \notin failed'
        PROVE  \A i \in 1 .. Len(fpw') - 1 : fpw'[i].len = Chunk
    <3> TAKE i \in 1 .. Len(fpw') - 1
    <3>1. i \in 1 .. Len(fpw) /\ fpw'[i] = fpw[i] /\ fpw # <<>> /\ "fflush" \notin failed
      BY <2>2, <2>9, <1>1, <1>4
    <3>2. CASE i = Len(fpw)
      BY <3>1, <3>2, <2>6
    <3>3. CASE i # Len(fpw)
      <4>1. i \in 1 .. Len(fpw) - 1
        BY <3>1, <3>3, <1>4
      <4> QED
        BY <3>1, <4>1, <1>0 DEF WriteInv
    <3> QED
      BY <3>2, <3>3
  <2>10. fpw'[Len(fpw')].len = n'
    BY <2>2
  <2>11. n' <= StoredLen(Len(fpw) - 1)' /\ ("fwrite" \notin failed' =>
            n' = StoredLen(Len(fpw) - 1)')
    BY <2>6, <2>7, <2>8
  <2>12. WriteInv'
    BY <2>1, <2>9, <2>10, <2>11 DEF WriteInv, StoredLen
  <2> QED
    BY <2>5, <2>12 DEF LengthInv
<1>11. CASE WriterV
  <2>1. /\ wpc = "V" /\ wpc' = "fflush" /\ UNCHANGED <<n, fpw, failed>>
        /\ out' = IF out + 1 = Slots THEN 0 ELSE out + 1
    BY <1>11, <1>0, Wrap DEF WriterV, TypeOK
  <2>2. Consumed = Len(fpw) - 1 /\ Consumed' = Len(fpw) /\ Backlog > 0
    BY <2>1, <1>4 DEF Consumed, WriterInSlot
  <2>3. Backlog' = Backlog - 1 /\ Consumed' = Consumed + 1
    BY <2>2, <1>2, <1>4 DEF Backlog
  <2>4. ASSUME NEW s \in Slot, Dist(s)' < Backlog'
        PROVE  Dist(s) = Dist(s)' + 1 /\ Dist(s)' \in Int
    <3>1. out \in Nat /\ out < Slots
      BY <1>0, RingTypes
    <3>2. Backlog \in Int /\ Backlog <= Slots
      BY <1>4
    <3>3. s \in Int /\ 0 <= s /\ s < Slots
      BY SlotsNat DEF Slot
    <3>4. Dist(s)' = DistFrom(s, out') /\ Dist(s) = DistFrom(s, out)
      BY DEF Dist, DistFrom
    <3>5. /\ DistFrom(s, out') \in Int
          /\ DistFrom(s, out') < Slots - 1 => DistFrom(s, out) = DistFrom(s, out') + 1
      BY ONLY <2>1, <3>1, <3>3, SlotsNat, NextDist
    <3>6. DistFrom(s, out') < Slots - 1
      BY ONLY <2>3, <2>4, <3>2, <3>4, <3>5, SlotsNat
    <3> QED
      BY ONLY <3>4, <3>5, <3>6
  <2>5. SlotLengthInv'
    <3>1. ASSUME NEW s \in Slot, Dist(s)' < Backlog'
          PROVE  len'[s] = StoredLen(Consumed + Dist(s))'
      <4>1. Dist(s) < Backlog /\ Consumed + Dist(s) = Consumed' + Dist(s)'
        <5>1. /\ Dist(s) = Dist(s)' + 1 /\ Dist(s)' \in Int
              /\ Backlog \in Int /\ Consumed \in Int
          BY <2>4, <3>1, <1>4
        <5> QED
          BY ONLY <2>3, <3>1, <5>1
      <4>2. len[s] = StoredLen(Consumed' + Dist(s)')
        BY <4>1, <1>0 DEF SlotLengthInv
      <4> QED
        BY <4>2, <1>1 DEF StoredLen
    <3> QED
      BY <3>1, <1>0, <1>1 DEF SlotLengthInv
  <2>6. WriteInv'
    BY <2>1, <1>0, <1>2 DEF WriteInv
  <2> QED
    BY <2>5, <2>6 DEF LengthInv
<1>12. CASE WriterFflush
  <2>1. /\ wpc = "fflush" /\ UNCHANGED <<out, n>>
        /\ wpc' = IF n < Chunk THEN "finished" ELSE "P"
        /\ \/ fpw' = fpw /\ failed' = failed
           \/ "fflush" \in failed' /\ LosesLastPiece
    BY <1>12, Zenon DEF WriterFflush, Succeeds, Fails
  <2>2. fpw # <<>> /\ fpw' # <<>> /\ Len(fpw') = Len(fpw)
    <3>1. fpw # <<>>
      BY <2>1, <1>0 DEF RingInv, ProcInv
    <3>2. Len(fpw') = Len(fpw)
      BY <2>1, <3>1, <1>5, LosePiece DEF LosesLastPiece
    <3> QED
      BY <3>1, <3>2, <1>5, EmptySeq
  <2>3. Consumed' = Consumed
    <3>1. wpc' # "V"
      BY <2>1
    <3> QED
      BY <2>1, <2>2, <3>1 DEF Consumed
  <2>4. Backlog' = Backlog /\ \A s : Dist(s)' = Dist(s)
    BY <2>1, <2>3, <1>2 DEF Backlog, Dist
  <2>5. SlotLengthInv'
    BY <2>3, <2>4, <1>0, <1>1, <1>2 DEF SlotLengthInv
  <2>6. /\ n <= StoredLen(Len(fpw) - 1)
        /\ "fwrite" \notin failed => n = StoredLen(Len(fpw) - 1)
        /\ "fflush" \notin failed => fpw[Len(fpw)].len = n
        /\ "fflush" \notin failed => \A i \in 1 .. Len(fpw) - 1 : fpw[i].len = Chunk
    BY <2>1, <2>2, <1>0 DEF WriteInv
  <2>7. StoredLen(Len(fpw) - 1)' = StoredLen(Len(fpw) - 1)
    BY <2>2, <1>1 DEF StoredLen
  <2>8. wpc' = "P" => n = Chunk
    <3>1. StoredLen(Len(fpw) - 1) \in Nat /\ StoredLen(Len(fpw) - 1) <= Chunk
      BY <1>4, ChunkAssumption DEF StoredLen
    <3> QED
      BY <2>1, <2>6, <3>1, <1>4, ChunkAssumption
  <2>9. wpc' \in {"finished", "P"} /\ (wpc' = "finished" => n < Chunk)
    BY <2>1
  <2>10. "fflush" \notin failed' => fpw' = fpw /\ "fflush" \notin failed
    BY <2>1
  <2>11. WriteInv'
    BY <2>1, <2>2, <2>6, <2>7, <2>8, <2>9, <2>10, <1>1 DEF WriteInv
  <2> QED
    BY <2>5, <2>11 DEF LengthInv
<1> QED
  BY <1>7, <1>8, <1>9, <1>10, <1>11, <1>12 DEF Writer

LEMMA CopyNext ==
  ASSUME ~PerSlot, ~TextLength, CopyInv, [Next]_vars
  PROVE  CopyInv'
<1>1. RingInv'
  BY RingNext DEF CopyInv
<1>2. CASE UNCHANGED vars
  BY <1>1, <1>2 DEF vars, CopyInv, LengthInv, SlotLengthInv, WriteInv,
     Published, Consumed, Backlog, Dist, StoredLen
<1> QED
  BY <1>1, <1>2, LengthParent, LengthReader, LengthWriter DEF Next, CopyInv

LEMMA CopyInvariance ==
  ASSUME ~PerSlot, ~TextLength
  PROVE  Spec => []CopyInv
BY LengthInit, CopyNext, PTL DEF Spec
-----------------------------------------------------------------------------
(* What is stored with a chunk is what fread returned for it. *)
LEMMA StoredIsRead ==
  ASSUME ~PerSlot, RingInv, NEW k \in Nat, k < pos
  PROVE  /\ StoredLen(k) <= ChunkLen(k)
         /\ "fread" \notin failed => StoredLen(k) = ChunkLen(k)
<1>1. pos \in Nat /\ pos > 0 /\ file[1] \in Nat /\ pos <= file[1] + 1
  BY DEF RingInv, TypeOK, ReadInv
<1>2. CASE k = pos - 1
  BY <1>1, <1>2 DEF RingInv, ReadInv, StoredLen
<1>3. CASE k # pos - 1
  <2>1. k < file[1]
    BY <1>1, <1>3
  <2> QED
    BY <2>1, <1>3, ChunkAssumption DEF StoredLen, ChunkLen
<1> QED
  BY <1>2, <1>3

(* Only chunks handed over are written. *)
LEMMA WrittenWasRead ==
  ASSUME ~PerSlot, RingInv
  PROVE  /\ Len(fpw) \in Nat /\ pos \in Nat /\ Published \in Int
         /\ Len(fpw) <= Published /\ Published <= pos
         /\ wpc = "fwrite" => Len(fpw) < Published
         /\ file[1] \in Nat /\ pos <= file[1] + 1
<1>1. /\ Len(fpw) \in Nat /\ pos \in Nat /\ Published \in Int /\ Consumed \in Int
      /\ Backlog \in Int
      /\ Published = IF rpc \in {"store", "V"} THEN pos - 1 ELSE pos
      /\ Consumed = IF wpc = "V" THEN Len(fpw) - 1 ELSE Len(fpw)
      /\ Backlog = Published - Consumed /\ Backlog >= 0
      /\ rpc # "unborn" /\ WriterInSlot => Backlog > 0
  BY Counts
<1>11. /\ Len(fpw) \in Nat /\ Published \in Int /\ Consumed \in Int
       /\ Backlog \in Int /\ Backlog = Published - Consumed /\ Backlog >= 0
  BY <1>1
<1>2. WriterInSlot => rpc # "unborn"
  BY DEF RingInv, ProcInv, WriterInSlot
<1>3. Published <= pos
  BY <1>1
<1>4. CASE wpc = "V"
  <2>1. Consumed = Len(fpw) - 1 /\ Backlog > 0
    BY <1>1, <1>2, <1>4 DEF WriterInSlot
  <2>2. Len(fpw) <= Published
    BY <1>11, <2>1
  <2> QED
    BY <1>1, <1>3, <1>4, <2>2 DEF RingInv, ReadInv, TypeOK
<1>5. CASE wpc # "V"
  <2>1. Consumed = Len(fpw) /\ (wpc = "fwrite" => Backlog > 0)
    BY <1>1, <1>2, <1>5 DEF WriterInSlot
  <2>2. Len(fpw) <= Published /\ (wpc = "fwrite" => Len(fpw) < Published)
    BY <1>11, <2>1
  <2> QED
    BY <1>1, <1>3, <2>2 DEF RingInv, ReadInv, TypeOK
<1> QED
  BY <1>4, <1>5

(* The bytes written are a prefix of the input, whatever fails.            *)
THEOREM OutputStaysPrefix ==
  ASSUME ~PerSlot, ~TextLength
  PROVE  Spec => []OutputIsPrefix
<1>1. CopyInv => OutputIsPrefix
  <2> SUFFICES ASSUME CopyInv, "fflush" \notin failed, NEW i \in 1 .. Len(fpw)
               PROVE  /\ fpw[i].chunk = i - 1
                      /\ fpw[i].len <= ChunkLen(i - 1)
                      /\ i < Len(fpw) => fpw[i].len = ChunkLen(i - 1)
    BY DEF OutputIsPrefix
  <2>0. RingInv /\ WriteInv
    BY DEF CopyInv, LengthInv
  <2>1. fpw[i].chunk = i - 1
    BY <2>0 DEF RingInv, ContentInv
  <2>2. /\ Len(fpw) \in Nat /\ pos \in Nat /\ Published \in Int
        /\ Len(fpw) <= Published /\ Published <= pos
        /\ wpc = "fwrite" => Len(fpw) < Published
        /\ file[1] \in Nat /\ pos <= file[1] + 1
    BY <2>0, WrittenWasRead
  <2>3. \A k \in Nat : k < file[1] => ChunkLen(k) = Chunk
    BY DEF ChunkLen
  <2>4. CASE i < Len(fpw)
    <3>1. fpw[i].len = Chunk
      BY <2>0, <2>2, <2>4 DEF WriteInv
    <3>2. i - 1 \in Nat /\ i - 1 < file[1]
      BY <2>2, <2>4
    <3>3. fpw[i].len = ChunkLen(i - 1)
      BY <3>1, <3>2, <2>3
    <3> QED
      BY <2>1, <3>1, <3>3, ChunkAssumption
  <2>5. CASE i = Len(fpw)
    <3>0. fpw # <<>> /\ i - 1 \in Nat /\ i - 1 < pos
      BY <2>2, <2>5
    <3>1. CASE wpc = "fwrite"
      <4>1. fpw[i].len = Chunk
        BY <3>0, <3>1, <2>0, <2>5 DEF WriteInv
      <4>2. i - 1 < file[1]
        BY <2>2, <2>5, <3>1
      <4>3. ChunkLen(i - 1) = Chunk
        BY <3>0, <4>2, <2>3
      <4> QED
        BY <2>1, <2>2, <2>5, <4>1, <4>3, ChunkAssumption
    <3>2. CASE wpc # "fwrite"
      <4>1. fpw[i].len = n /\ n <= StoredLen(i - 1)
        BY <3>0, <3>2, <2>0, <2>5 DEF WriteInv
      <4>2. StoredLen(i - 1) <= ChunkLen(i - 1)
        BY <3>0, <2>0, StoredIsRead
      <4>3. n \in Nat /\ m \in Nat /\ file[2] \in Nat
        BY <2>0, ChunkAssumption DEF RingInv, TypeOK
      <4>4. StoredLen(i - 1) \in Nat /\ ChunkLen(i - 1) \in Nat
        BY <4>3, ChunkAssumption DEF StoredLen, ChunkLen
      <4>5. fpw[i].len <= ChunkLen(i - 1)
        BY <4>1, <4>2, <4>3, <4>4
      <4> QED
        BY <2>1, <2>2, <2>5, <4>5
    <3> QED
      BY <3>1, <3>2
  <2> QED
    BY <2>2, <2>4, <2>5
<1> QED
  BY <1>1, CopyInvariance, PTL

(* If no call failed, writebuf says that the file is written only when all *)
(* of it is.                                                               *)
THEOREM AnnouncementIsTrue ==
  ASSUME ~PerSlot, ~TextLength
  PROVE  Spec => []AnnouncedCopyIsWhole
<1>1. CopyInv /\ OutputIsPrefix => AnnouncedCopyIsWhole
  <2> SUFFICES ASSUME CopyInv, OutputIsPrefix, wpc = "finished", failed = {}
               PROVE  /\ Len(fpw) = NChunks
                      /\ \A i \in 1 .. Len(fpw) :
                            fpw[i] = [chunk |-> i - 1, len |-> ChunkLen(i - 1)]
    BY DEF AnnouncedCopyIsWhole
  <2>0. RingInv /\ WriteInv
    BY DEF CopyInv, LengthInv
  <2>1. /\ Len(fpw) \in Nat /\ pos \in Nat /\ Published \in Int
        /\ Len(fpw) <= Published /\ Published <= pos
        /\ file[1] \in Nat /\ pos <= file[1] + 1
    BY <2>0, WrittenWasRead
  <2>2. n < Chunk /\ fpw # <<>> /\ fpw \in Seq(Piece)
    BY <2>0 DEF WriteInv, RingInv, TypeOK, Piece
  <2>3. Len(fpw) > 0
    BY <2>2, EmptySeq
  <2>4. n = StoredLen(Len(fpw) - 1) /\ fpw[Len(fpw)].len = n
    BY <2>0, <2>2 DEF WriteInv
  <2>5. StoredLen(Len(fpw) - 1) = ChunkLen(Len(fpw) - 1)
    BY <2>0, <2>1, <2>3, StoredIsRead
  <2>6. Len(fpw) = file[1] + 1
    <3>1. n \in Nat
      BY <2>0 DEF RingInv, TypeOK
    <3>2. ~(Len(fpw) - 1 < file[1])
      BY <3>1, <2>2, <2>4, <2>5, ChunkAssumption DEF ChunkLen
    <3> QED
      BY <3>2, <2>1
  <2>7. ASSUME NEW i \in 1 .. Len(fpw)
        PROVE  fpw[i] = [chunk |-> i - 1, len |-> ChunkLen(i - 1)]
    <3>1. fpw[i].chunk = i - 1 /\ (i < Len(fpw) => fpw[i].len = ChunkLen(i - 1))
      BY DEF OutputIsPrefix
    <3>2. i = Len(fpw) => fpw[i].len = ChunkLen(i - 1)
      BY <2>4, <2>5
    <3>3. fpw[i].len = ChunkLen(i - 1)
      BY <3>1, <3>2, <2>1
    <3>4. fpw[i] \in Piece
      BY <2>2, ElementOfSeq
    <3>5. fpw[i] = [chunk |-> fpw[i].chunk, len |-> fpw[i].len]
      BY <3>4 DEF Piece
    <3> QED
      BY <3>1, <3>3, <3>5
  <2> QED
    BY <2>6, <2>7 DEF NChunks
<1> QED
  BY <1>1, CopyInvariance, OutputStaysPrefix, PTL

(* As long as no call failed, no process waits for one that cannot wake it.*)
THEOREM NobodyIsStranded ==
  ASSUME ~PerSlot, ~TextLength
  PROVE  Spec => []NobodyStranded
<1>1. CopyInv /\ AnnouncedCopyIsWhole => NobodyStranded
  <2> SUFFICES ASSUME CopyInv, AnnouncedCopyIsWhole, failed = {}
               PROVE  /\ ~(ReaderBlocked /\ WriterBlocked)
                      /\ ~(ReaderBlocked /\ wpc \in Ended)
                      /\ ~(WriterBlocked /\ rpc \in Ended)
    BY DEF NobodyStranded
  <2>0. RingInv /\ WriteInv
    BY DEF CopyInv, LengthInv
  <2>1. /\ Len(fpw) \in Nat /\ pos \in Nat /\ Published \in Int
        /\ Len(fpw) <= Published /\ Published <= pos
        /\ file[1] \in Nat /\ pos <= file[1] + 1
    BY <2>0, WrittenWasRead
  <2>2. EmptySem(in) = 0 /\ FullSem(out) = 1
    BY DEF EmptySem, FullSem
  <2>3. ASSUME rpc # "unborn"
        PROVE  /\ sem[0] = Slots - Backlog - (IF ReaderInSlot THEN 1 ELSE 0)
               /\ sem[1] = Backlog - (IF WriterInSlot THEN 1 ELSE 0)
    BY <2>0, <2>3 DEF RingInv, SemInv
  <2>4. Backlog \in Int
    BY <2>0, RingTypes DEF RingInv
  <2>5. ~(ReaderBlocked /\ WriterBlocked)
    <3> SUFFICES ASSUME ReaderBlocked, WriterBlocked PROVE FALSE
      OBVIOUS
    <3>1. rpc = "P" /\ wpc = "P" /\ sem[0] = 0 /\ sem[1] = 0
      BY <2>2 DEF ReaderBlocked, WriterBlocked
    <3>2. ~ReaderInSlot /\ ~WriterInSlot
      BY <3>1 DEF ReaderInSlot, WriterInSlot
    <3> QED
      BY <3>1, <3>2, <2>3, <2>4, SlotsNat
  <2>6. ~(ReaderBlocked /\ wpc \in Ended)
    <3> SUFFICES ASSUME ReaderBlocked, wpc \in Ended PROVE FALSE
      OBVIOUS
    <3>1. rpc = "P" /\ sem[0] = 0
      BY <2>2 DEF ReaderBlocked
    <3>2. pos <= file[1]
      BY <3>1, <2>0 DEF RingInv, ReadInv
    <3>3. wpc = "finished" => Len(fpw) = file[1] + 1
      BY DEF AnnouncedCopyIsWhole, NChunks
    <3>4. wpc = "finished"
      BY <2>0 DEF Ended, AbortInv, RingInv
    <3> QED
      BY <3>2, <3>3, <3>4, <2>1
  <2>7. ~(WriterBlocked /\ rpc \in Ended)
    <3> SUFFICES ASSUME WriterBlocked, rpc \in Ended PROVE FALSE
      OBVIOUS
    <3>1. wpc = "P" /\ sem[1] = 0 /\ rpc # "unborn" /\ ~WriterInSlot
      BY <2>2 DEF WriterBlocked, Ended, WriterInSlot
    <3>2. rpc = "finished"
      BY <2>0 DEF Ended, AbortInv, RingInv
    <3>3. Backlog = 0
      BY <3>1, <2>3, <2>4
    <3>4. Len(fpw) = pos
      BY <3>1, <3>2, <3>3, <2>0, Counts
    <3>5. m < Chunk /\ pos > 0
      BY <3>2, <2>0 DEF RingInv, ReadInv
    <3>6. fpw # <<>>
      BY <3>4, <3>5
    <3>7. n = Chunk /\ n = StoredLen(pos - 1)
      BY <3>1, <3>4, <3>6, <2>0 DEF WriteInv
    <3>8. StoredLen(pos - 1) = m
      BY DEF StoredLen
    <3> QED
      BY <3>5, <3>7, <3>8, ChunkAssumption
  <2> QED
    BY <2>5, <2>6, <2>7
<1> QED
  BY <1>1, CopyInvariance, AnnouncementIsTrue, PTL

-----------------------------------------------------------------------------
(***************************************************************************)
(* With counting semaphores (versions 1.0 and 1.2) the copier implements   *)
(* BoundedFifo: readbuf's V(full) puts a chunk, writebuf's fwrite takes    *)
(* one, every other step leaves the queue as it is.                        *)
(***************************************************************************)

(* Slot indices modulo the ring, up to once round. *)
LEMMA WrapTwice ==
  ASSUME NEW i \in Nat, i < 2 * Slots
  PROVE  i % Slots = IF i < Slots THEN i ELSE i - Slots
BY SlotsNat

InFlight == Published - Len(fpw)

(* By the ring invariant, what is in transit are consecutive chunks.       *)
LEMMA TransitIs ==
  ASSUME ~PerSlot, RingInv
  PROVE  InTransit = [k \in 1 .. InFlight |-> Len(fpw) + k - 1]
<1>0. /\ Len(fpw) \in Nat /\ Published \in Int /\ Consumed \in Int
      /\ Backlog \in Int /\ Backlog = Published - Consumed
      /\ Backlog <= Slots
  BY Counts
<1>1. out \in Nat /\ out < Slots
  BY RingTypes DEF RingInv
<1>2. ASSUME NEW k \in 1 .. InFlight
      PROVE  data[(FirstFull + k - 1) % Slots] = Len(fpw) + k - 1
  <2>0. InFlight \in Int /\ k \in Int /\ k >= 1 /\ k <= InFlight
    BY <1>0 DEF InFlight
  <2>1. PICK d \in {0, 1} : FirstFull = out + d /\ Consumed = Len(fpw) - d
    <3>1. CASE wpc = "V"
      BY <3>1, <1>0, Counts DEF FirstFull
    <3>2. CASE wpc # "V"
      BY <3>2, <1>0, <1>1, Counts DEF FirstFull
    <3> QED
      BY <3>1, <3>2
  <2> DEFINE j == d + k - 1
  <2>2. j \in Nat /\ j < Backlog /\ j < Slots /\ FirstFull + k - 1 = out + j
    <3>1. d \in Int /\ d >= 0 /\ FirstFull = out + d /\ Consumed = Len(fpw) - d
      BY <2>1
    <3>2. InFlight = Published - Len(fpw)
      BY DEF InFlight
    <3>3. j \in Nat /\ j < Backlog
      BY <2>0, <3>1, <3>2, <1>0
    <3>4. j < Slots
      BY <3>3, <1>0, SlotsNat
    <3>5. FirstFull + k - 1 = out + j
      BY <2>0, <3>1, <1>1
    <3> QED
      BY <3>3, <3>4, <3>5
  <2> DEFINE s == IF out + j < Slots THEN out + j ELSE out + j - Slots
  <2>3. (FirstFull + k - 1) % Slots = s
    BY <2>2, <1>1, WrapTwice, SlotsNat
  <2>4. s \in Slot /\ Dist(s) = j
    BY <2>2, <1>1, SlotsNat DEF Slot, Dist
  <2>5. data[s] = Consumed + j
    BY <2>2, <2>4 DEF RingInv, ContentInv
  <2>6. Consumed + j = Len(fpw) + k - 1
    BY <2>0, <2>1, <1>0
  <2> QED
    BY <2>3, <2>5, <2>6
<1> QED
  BY <1>2 DEF InTransit, InFlight

Taken == [i \in 1 .. Len(fpw) |-> fpw[i].chunk]

LEMMA TakenIs ==
  ASSUME ~PerSlot, RingInv
  PROVE  Taken = [i \in 1 .. Len(fpw) |-> i - 1]
BY DEF RingInv, ContentInv, Taken

(* Runs of consecutive numbers as sequences. *)
LEMMA RunAppend ==
  ASSUME NEW a \in Nat, NEW l \in Nat
  PROVE  LET q == [k \in 1 .. l |-> a + k - 1]
         IN  /\ Len(q) = l
             /\ Append(q, a + l) = [k \in 1 .. l + 1 |-> a + k - 1]
<1> DEFINE q == [k \in 1 .. l |-> a + k - 1]
           r == [k \in 1 .. l + 1 |-> a + k - 1]
<1>1. q \in Seq(Int) /\ Len(q) = l
  BY IsASeq
<1>2. r \in Seq(Int) /\ Len(r) = l + 1
  BY IsASeq
<1>3. a + l \in Int
  OBVIOUS
<1>4. /\ Append(q, a + l) \in Seq(Int) /\ Len(Append(q, a + l)) = l + 1
      /\ \A i \in 1 .. l : Append(q, a + l)[i] = q[i]
      /\ Append(q, a + l)[l + 1] = a + l
  <2> HIDE DEF q
  <2> QED
    BY <1>1, <1>3, AppendProperties
<1>5. \A i \in 1 .. l + 1 : Append(q, a + l)[i] = r[i]
  <2> TAKE i \in 1 .. l + 1
  <2>1. CASE i = l + 1
    BY <2>1, <1>4
  <2>2. CASE i # l + 1
    <3>1. i \in 1 .. l
      BY <2>2
    <3> QED
      BY <3>1, <1>4
  <2> QED
    BY <2>1, <2>2
<1> HIDE DEF q, r
<1>6. Append(q, a + l) = r
  BY <1>2, <1>4, <1>5, SeqEqual
<1> QED
  BY <1>1, <1>6 DEF q, r

LEMMA RunTail ==
  ASSUME NEW a \in Nat, NEW l \in Nat, l > 0
  PROVE  LET q == [k \in 1 .. l |-> a + k - 1]
         IN  /\ q # <<>> /\ Head(q) = a
             /\ Tail(q) = [k \in 1 .. l - 1 |-> (a + 1) + k - 1]
<1> DEFINE q == [k \in 1 .. l |-> a + k - 1]
           r == [k \in 1 .. l - 1 |-> (a + 1) + k - 1]
<1>1. q \in Seq(Int) /\ Len(q) = l
  BY IsASeq
<1>2. r \in Seq(Int) /\ Len(r) = l - 1
  BY IsASeq
<1>3. q[1] = a /\ \A i \in 1 .. l - 1 : q[i + 1] = r[i]
  OBVIOUS
<1> HIDE DEF q, r
<1>4. q # <<>>
  BY <1>1
<1>5. /\ Head(q) = q[1] /\ Tail(q) \in Seq(Int) /\ Len(Tail(q)) = l - 1
      /\ \A i \in 1 .. l - 1 : Tail(q)[i] = q[i + 1]
  BY <1>1, <1>4, HeadTailProperties
<1>6. Tail(q) = r
  BY <1>2, <1>3, <1>5, SeqEqual
<1> QED
  BY <1>3, <1>4, <1>5, <1>6 DEF q, r

TransitShape ==
  /\ InTransit = [k \in 1 .. InFlight |-> Len(fpw) + k - 1]
  /\ Taken = [i \in 1 .. Len(fpw) |-> i - 1]

LEMMA ShapeHolds ==
  ASSUME ~PerSlot
  PROVE  RingInv => TransitShape
BY TransitIs, TakenIs DEF TransitShape

LEMMA ShapeHoldsNext ==
  ASSUME ~PerSlot, RingInv'
  PROVE  TransitShape'
BY ShapeHolds, PTL

(* A step that moves neither count leaves queue and taken as they are.      *)
LEMMA QuietStep ==
  ASSUME ~PerSlot, RingInv, RingInv', Published' = Published, Len(fpw') = Len(fpw)
  PROVE  InTransit' = InTransit /\ Taken' = Taken
<1>1. InFlight' = InFlight
  BY DEF InFlight
<1>2. TransitShape /\ TransitShape'
  BY ShapeHolds, ShapeHoldsNext
<1> QED
  BY <1>1, <1>2 DEF TransitShape

(* V(full) puts the chunk readbuf has just read. *)
LEMMA PutStep ==
  ASSUME ~PerSlot, RingInv, RingInv', ReaderV
  PROVE  Fifo!Put
<1>0. TransitShape /\ TransitShape'
  BY ShapeHolds, ShapeHoldsNext
<1>1. rpc = "V" /\ rpc' \notin {"store", "V"} /\ pos' = pos /\ fpw' = fpw
  BY DEF ReaderV, writerVars
<1>2. /\ Len(fpw) \in Nat /\ pos \in Nat /\ Published \in Int
      /\ Len(fpw) <= Published /\ file[1] \in Nat /\ pos <= file[1] + 1
  BY WrittenWasRead
<1>3. Published = pos - 1 /\ Published' = pos
  <2>1. Published = pos - 1 /\ Published' = pos - 0
    BY <1>1, Zenon DEF Published
  <2> QED
    BY <2>1, <1>2
<1>4. InFlight \in Nat /\ InFlight' = InFlight + 1 /\ Len(fpw) + InFlight = Published
  BY <1>1, <1>2, <1>3 DEF InFlight
<1>5. InFlight < Slots
  <2>1. Backlog < Slots /\ Backlog = Published - Consumed /\ Backlog \in Int
        /\ Consumed \in Int /\ (Consumed = Len(fpw) \/ Consumed = Len(fpw) - 1)
    BY <1>1, Counts DEF ReaderInSlot
  <2> QED
    BY <2>1, <1>2, SlotsNat DEF InFlight
<1>6. Published \in ChunkNumbers
  <2>1. file \in Files /\ Published \in 0 .. file[1]
    BY <1>2, <1>3 DEF RingInv, ReadInv
  <2> QED
    BY <2>1 DEF ChunkNumbers
<1>7. Len(InTransit) = InFlight /\ InTransit' = Append(InTransit, Published)
  <2>1. LET q == [k \in 1 .. InFlight |-> Len(fpw) + k - 1]
        IN  /\ Len(q) = InFlight
            /\ Append(q, Len(fpw) + InFlight) =
                 [k \in 1 .. InFlight + 1 |-> Len(fpw) + k - 1]
    BY <1>2, <1>4, RunAppend
  <2> QED
    BY <1>0, <1>1, <1>4, <2>1 DEF TransitShape
<1>8. Taken' = Taken
  BY <1>0, <1>1 DEF TransitShape
<1> QED
  BY <1>5, <1>6, <1>7, <1>8 DEF Fifo!Put, Taken

(* fwrite takes the oldest chunk in transit. *)
LEMMA GetStep ==
  ASSUME ~PerSlot, RingInv, RingInv', WriterFwrite
  PROVE  Fifo!Get
<1>0. TransitShape /\ TransitShape'
  BY ShapeHolds, ShapeHoldsNext
<1>1. wpc = "fwrite" /\ UNCHANGED <<rpc, pos>>
  BY DEF WriterFwrite, readerVars
<1>2. /\ Len(fpw) \in Nat /\ Published \in Int /\ Len(fpw) < Published
  BY <1>1, WrittenWasRead
<1>3. Published' = Published
  BY <1>1 DEF Published
<1>4. Len(fpw') = Len(fpw) + 1
  <2> DEFINE e == [chunk |-> data[out], len |-> n']
  <2>1. e \in Piece /\ fpw \in Seq(Piece)
    BY DEF Piece, RingInv, TypeOK
  <2>2. fpw' = Append(fpw, e)
    BY DEF WriterFwrite
  <2> HIDE DEF e
  <2> QED
    BY <2>1, <2>2, AppendProperties
<1>5. InFlight \in Nat /\ InFlight > 0 /\ InFlight' = InFlight - 1
  BY <1>2, <1>3, <1>4 DEF InFlight
<1>6. /\ InTransit # <<>> /\ Head(InTransit) = Len(fpw)
      /\ InTransit' = Tail(InTransit)
  <2>1. LET q == [k \in 1 .. InFlight |-> Len(fpw) + k - 1]
        IN  /\ q # <<>> /\ Head(q) = Len(fpw)
            /\ Tail(q) = [k \in 1 .. InFlight - 1 |-> (Len(fpw) + 1) + k - 1]
    BY <1>2, <1>5, RunTail
  <2> QED
    BY <1>0, <1>4, <1>5, <2>1 DEF TransitShape
<1>7. Taken' = Append(Taken, Len(fpw))
  <2>1. LET q == [k \in 1 .. Len(fpw) |-> 0 + k - 1]
        IN  Append(q, 0 + Len(fpw)) = [k \in 1 .. Len(fpw) + 1 |-> 0 + k - 1]
    BY <1>2, RunAppend
  <2>2. Taken = [k \in 1 .. Len(fpw) |-> 0 + k - 1]
    BY <1>0 DEF TransitShape
  <2>3. Taken' = [k \in 1 .. Len(fpw) + 1 |-> 0 + k - 1]
    BY <1>0, <1>4 DEF TransitShape
  <2>4. 0 + Len(fpw) = Len(fpw)
    BY <1>2
  <2> QED
    BY <2>1, <2>2, <2>3, <2>4
<1> QED
  BY <1>6, <1>7 DEF Fifo!Get, Taken

LEMMA FifoStep ==
  ASSUME ~PerSlot, RingInv, RingInv', [Next]_vars
  PROVE  [Fifo!Next]_<<InTransit, Taken>>
<1>1. CASE ReaderV
  BY <1>1, PutStep DEF Fifo!Next
<1>2. CASE WriterFwrite
  BY <1>2, GetStep DEF Fifo!Next
<1>3. CASE ~ReaderV /\ ~WriterFwrite
  <2>0. TypeOK /\ ProcInv
    BY DEF RingInv
  <2>1. Published' = Published
    <3>1. CASE ReaderFread
      <4>1. rpc \notin {"store", "V"} /\ rpc' \in {"store", "V"} /\ pos' = pos + 1
        BY <3>1 DEF ReaderFread
      <4>2. Published = pos - 0 /\ Published' = pos' - 1
        BY <4>1, Zenon DEF Published
      <4> QED
        BY <4>1, <4>2, <2>0 DEF TypeOK
    <3>2. CASE ReaderStart \/ ReaderP \/ ReaderStore
      <4>1. pos' = pos /\ (rpc' \in {"store", "V"} <=> rpc \in {"store", "V"})
        BY <3>2 DEF ReaderStart, ReaderP, ReaderStore
      <4> QED
        BY <4>1 DEF Published
    <3>3. CASE Parent
      <4>1. pos' = pos /\ (rpc' \in {"store", "V"} <=> rpc \in {"store", "V"})
        BY <3>3, <2>0 DEF Parent, ParentShmget, ParentSemctl, ParentForkReader,
           ParentForkWriter, ParentWaitReader, ParentWaitWriter, ParentRmSem,
           ParentRmShm, readerVars, ProcInv
      <4> QED
        BY <4>1 DEF Published
    <3>4. CASE Writer \/ UNCHANGED vars
      <4>1. pos' = pos /\ rpc' = rpc
        BY <3>4 DEF Writer, WriterStart, WriterP, WriterGetLen, WriterFwrite,
           WriterV, WriterFflush, readerVars, vars
      <4> QED
        BY <4>1 DEF Published
    <3> QED
      BY <1>3, <3>1, <3>2, <3>3, <3>4 DEF Next, Reader
  <2>2. Len(fpw') = Len(fpw)
    <3>1. CASE WriterFflush
      <4>1. fpw \in Seq(Piece) /\ fpw # <<>>
        BY <3>1, <2>0 DEF WriterFflush, TypeOK, ProcInv, Piece
      <4>2. fpw' = fpw \/ LosesLastPiece
        BY <3>1 DEF WriterFflush
      <4> QED
        BY <4>1, <4>2, LosePiece DEF LosesLastPiece
    <3>2. CASE ~WriterFflush
      <4>1. fpw' = fpw
        BY <1>3, <3>2 DEF Next, Reader, Writer, Parent, ParentShmget, ParentSemctl,
           ParentForkReader, ParentForkWriter, ParentWaitReader, ParentWaitWriter,
           ParentRmSem, ParentRmShm, ReaderStart, ReaderP, ReaderFread, ReaderStore,
           WriterStart, WriterP, WriterGetLen, WriterV, writerVars, vars
      <4> QED
        BY <4>1
    <3> QED
      BY <3>1, <3>2
  <2> QED
    BY <2>1, <2>2, QuietStep
<1> QED
  BY <1>1, <1>2, <1>3

LEMMA FifoInit ==
  ASSUME ~PerSlot, Init
  PROVE  Fifo!Init
<1>0. fpw = <<>>
  BY DEF Init
<1>1. Len(fpw) = 0
  BY <1>0
<1>2. RingInv
  BY RingInit
<1>3. Published = 0
  BY <1>2, NothingYet DEF Init, RingInv
<1>4. InFlight = 0
  BY <1>1, <1>3 DEF InFlight
<1>5. TransitShape
  BY <1>2, ShapeHolds
<1>6. InTransit = <<>> /\ Taken = <<>>
  BY <1>1, <1>4, <1>5 DEF TransitShape
<1> QED
  BY <1>6 DEF Fifo!Init, Taken

(* The copier with counting semaphores implements a FIFO queue of capacity *)
(* Slots between readbuf and writebuf, whatever fails.                     *)
THEOREM ImplementsFifo ==
  ASSUME ~PerSlot
  PROVE  Spec => IsBoundedFifo
<1>1. RingInv /\ RingInv' /\ [Next]_vars => [Fifo!Next]_<<InTransit, Taken>>
  BY FifoStep
<1>2. Init => Fifo!Init
  BY FifoInit
<1>3. Spec => []RingInv
  BY RingInvariance
<1> QED
  BY <1>1, <1>2, <1>3, PTL DEF Spec, IsBoundedFifo, Fifo!Spec, Taken
=============================================================================
