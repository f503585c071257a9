---------------------------- MODULE RingCopyInv ----------------------------
(***************************************************************************)
(* The inductive invariant behind the safety of versions 1.0 and 1.2 of    *)
(* the copier (PerSlot = FALSE): how the two counting semaphores, the      *)
(* indices in and out and the contents of the ring fit together.           *)
(***************************************************************************)
EXTENDS RingCopy

(* Slots given back by writebuf, and slots handed over and not given back. *)
Consumed == Len(fpw) - (IF wpc = "V" THEN 1 ELSE 0)
Backlog  == Published - Consumed

(* How far slot s lies after out, going round the ring.                    *)
Dist(s) == IF s >= out THEN s - out ELSE s - out + Slots

ReaderRuns == rpc \notin {"unborn"} \cup Ended
WriterRuns == wpc \notin {"unborn"} \cup Ended

(* Which children exist at each point of the parent. *)
ProcInv ==
  /\ ppc \in {"shmget", "semctl", "fork1"} => rpc = "unborn"
  /\ ppc = "fork2" => rpc # "unborn"
  /\ rpc = "unborn" \/ ppc = "fork2" => wpc = "unborn"
  /\ ppc \in {"wait2", "rmsem", "rmshm"} => rpc \in Ended
  /\ ppc \in {"rmsem", "rmshm"} => wpc \in Ended
  /\ ppc \in {"semctl", "rmshm"} => ipc = {"shm"}
  /\ ppc = "shmget" => ipc = {}
  /\ ppc \in {"fork1", "fork2", "wait1", "wait2", "rmsem"} => ipc = {"shm", "sem"}
  /\ ReaderRuns \/ WriterRuns => ipc = {"shm", "sem"}
  /\ rpc \in {"unborn", "start"} => pos = 0
  /\ rpc = "unborn" => in = 0
  /\ wpc \in {"unborn", "start"} => fpw = <<>>
  /\ wpc = "unborn" => out = 0
  /\ wpc \in {"V", "fflush"} => fpw # <<>>
  /\ rpc \in {"store", "V"} => pos > 0

(* Each slot is free, full, or held by one of the processes. *)
SemInv ==
  ppc = "fork1" \/ rpc # "unborn" =>
    /\ sem[0] = Slots - Backlog - (IF ReaderInSlot THEN 1 ELSE 0)
    /\ sem[1] = Backlog - (IF WriterInSlot THEN 1 ELSE 0)

(* The full slots are the Backlog slots from out on, readbuf's next after. *)
IndexInv ==
  /\ Backlog \in 0 .. Slots
  /\ in = out + Backlog \/ in = out + Backlog - Slots

(* They hold the chunks that follow those given back, in order. *)
ContentInv ==
  /\ \A s \in Slot : Dist(s) < Backlog => data[s] = Consumed + Dist(s)
  /\ rpc \in {"store", "V"} => data[in] = pos - 1
  /\ \A i \in 1 .. Len(fpw) : fpw[i].chunk = i - 1

(* What readbuf has read: whole chunks, and at most one shorter one, last. *)
ReadInv ==
  /\ file \in Files
  /\ rpc \in {"unborn", "start", "P", "fread"} => pos <= file[1]
  /\ pos <= file[1] + 1
  /\ rpc \in {"P", "fread"} /\ pos > 0 => m = Chunk
  /\ rpc = "finished" => m < Chunk /\ pos > 0
  /\ pos > 0 => m <= ChunkLen(pos - 1)
  /\ pos > 0 /\ "fread" \notin failed => m = ChunkLen(pos - 1)

(* A child that gave up at its start counts as a failure. *)
AbortInv == rpc = "aborted" \/ wpc = "aborted" => failed # {}

RingInv ==
  AbortInv /\ TypeOK /\ ProcInv /\ SemInv /\ IndexInv /\ ContentInv /\ ReadInv

(* The length readbuf stored with chunk k. *)
StoredLen(k) == IF k = pos - 1 THEN m ELSE Chunk

(* Lengths travel with the chunks (when they are stored as integers). *)
SlotLengthInv ==
  /\ \A s \in Slot : Dist(s) < Backlog => len[s] = StoredLen(Consumed + Dist(s))
  /\ rpc = "V" => len[in] = m

(* writebuf's n and the lengths of the pieces it has written. *)
WriteInv ==
  /\ wpc = "fwrite" => n = StoredLen(Len(fpw))
  /\ wpc \in {"P", "getlen"} /\ fpw # <<>> => n = Chunk
  /\ wpc = "finished" => n < Chunk /\ fpw # <<>>
  /\ fpw # <<>> /\ wpc # "fwrite" =>
       /\ n <= StoredLen(Len(fpw) - 1)
       /\ "fwrite" \notin failed => n = StoredLen(Len(fpw) - 1)
       /\ "fflush" \notin failed => fpw[Len(fpw)].len = n
  /\ wpc = "fwrite" /\ fpw # <<>> /\ "fflush" \notin failed =>
       fpw[Len(fpw)].len = Chunk
  /\ "fflush" \notin failed =>
       \A i \in 1 .. Len(fpw) - 1 : fpw[i].len = Chunk

LengthInv == SlotLengthInv /\ WriteInv

CopyInv == RingInv /\ LengthInv
=============================================================================
