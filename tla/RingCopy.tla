------------------------------ MODULE RingCopy ------------------------------
(***************************************************************************)
(* The file copier of OSlab/lab/lab3 and OSlab/design/lab1/lab1: a parent  *)
(* creates a shared segment of Slots buffers and a System V semaphore set, *)
(* forks readbuf (file -> segment) and writebuf (segment -> file), waits   *)
(* for both and removes the IPC objects.  One module stands for the three  *)
(* versions kept in the repository:                                        *)
(*    1.0  PerSlot = FALSE, TextLength = TRUE    lab3.c                    *)
(*    1.1  PerSlot = TRUE,  TextLength = FALSE   lab3_1.1.c                *)
(*    1.2  PerSlot = FALSE, TextLength = FALSE   lab3_1.2.c, lab1_1.c      *)
(* File contents are abstracted to chunk numbers: chunk k is the k-th      *)
(* (from 0) piece that fread returns.                                      *)
(***************************************************************************)
EXTENDS Integers, Sequences

CONSTANTS
  Slots,       \* buffers in the segment (5 in the code)
  Chunk,       \* bytes of a full fread: 256, or 255 in version 1.1
  PerSlot,     \* TRUE: one empty and one full semaphore per buffer
  TextLength,  \* TRUE: the length is kept as three decimal characters
  Files,       \* input files, <<number of full chunks, bytes that follow>>
  Leftovers,   \* length fields a segment leaked by an earlier run may hold
  Strays,      \* values the uninitialised _m[3] of writebuf may hold
  Faults       \* calls that may fail in this instance

FaultKinds ==
  {"shmget", "semctl", "fork1", "fork2", "readbuf", "writebuf",
   "fread", "fwrite", "fflush", "rmsem", "rmshm"}

NonDigit == 10   \* a stray byte at which atoi stops

ASSUME SlotsAssumption == Slots \in 1 .. 32767   \* the largest semaphore value
ASSUME ChunkAssumption == Chunk \in Nat \ {0}
ASSUME VersionAssumption == PerSlot \in BOOLEAN /\ TextLength \in BOOLEAN
ASSUME FilesAssumption == Files \subseteq Nat \X (0 .. Chunk - 1)
ASSUME LeftoversAssumption == Leftovers \subseteq 0 .. Chunk
ASSUME StraysAssumption == Strays \subseteq 0 .. NonDigit
ASSUME FaultsAssumption == Faults \subseteq FaultKinds

VARIABLES
  ipc,     \* the IPC objects that exist
  sem,     \* semaphore values
  data, len,   \* the segment: slot -> chunk held, slot -> length field
  ppc,     \* the parent
  rpc, in, pos, m,        \* readbuf: control, slot, chunks read, fread result
  wpc, out, n, fpw,       \* writebuf: control, slot, length, pieces written
  file,    \* the input file
  stray,   \* writebuf's _m[3]
  failed   \* the faults that happened

parentVars == <<ipc, ppc>>
readerVars == <<rpc, in, pos, m>>
writerVars == <<wpc, out, n, fpw>>
envVars    == <<file, stray>>
shm        == <<data, len>>
vars == <<ipc, sem, data, len, ppc, rpc, in, pos, m, wpc, out, n, fpw, file, stray,
          failed>>

Slot == 0 .. Slots - 1
Sems == IF PerSlot THEN 0 .. 2 * Slots - 1 ELSE 0 .. 1

(* Semaphore indices of a buffer: P(semid,0)/V(semid,1) in versions 1.0 and *)
(* 1.2, P(semid,in)/V(semid,in+5) in version 1.1.                           *)
EmptySem(i) == IF PerSlot THEN i ELSE 0
FullSem(i)  == IF PerSlot THEN i + Slots ELSE 1

(* Mutant of arr: one empty slot too many. *)
arrOneTooMany == [i \in Sems |-> IF i = 0 THEN Slots + 1 ELSE 0]

(* The array the parent passes to SETALL: {5,0} or {1,1,1,1,1,0,0,0,0,0}.   *)
arr == [i \in Sems |-> IF PerSlot THEN IF i < Slots THEN 1 ELSE 0
                                  ELSE IF i = 0 THEN Slots ELSE 0]

(* SETALL reads an array of 16-bit values, the union declares it as         *)
(* unsigned (32 bits, little-endian): semaphore i gets the i-th half word.  *)
SetAll(a) == [i \in DOMAIN a |-> IF i % 2 = 0 THEN a[i \div 2] % 65536
                                              ELSE a[i \div 2] \div 65536]

(* What fread returns for chunk k of the input.                             *)
ChunkLen(k) == IF k < file[1] THEN Chunk ELSE IF k = file[1] THEN file[2] ELSE 0
NChunks == file[1] + 1

(* The length writebuf obtains from a length field holding l.  As text,     *)
(* three digits leave no terminator, so atoi goes on into _m[3].            *)
Decoded(l) == IF TextLength /\ l >= 100 /\ stray # NonDigit
              THEN 10 * l + stray ELSE l

NoChunk == -1
ChunkNumbers == UNION {0 .. f[1] : f \in Files}

Init ==
  /\ ipc = {}
  /\ sem = [s \in Sems |-> 0]
  /\ data = [s \in Slot |-> NoChunk]
  /\ \E l \in Leftovers : len = [s \in Slot |-> l]
  /\ ppc = "shmget"
  /\ rpc = "unborn" /\ in = 0 /\ pos = 0 /\ m = 0
  /\ wpc = "unborn" /\ out = 0 /\ n = 0 /\ fpw = <<>>
  /\ file \in Files
  /\ stray \in Strays
  /\ failed = {}

(* A call that may fail in this instance fails. *)
Fails(call) == call \in Faults /\ failed' = failed \cup {call}
Succeeds == UNCHANGED failed
-----------------------------------------------------------------------------
(* The parent *)

ParentShmget ==
  /\ ppc = "shmget"
  /\ \/ Succeeds /\ ppc' = "semctl" /\ ipc' = ipc \cup {"shm"}
     \/ Fails("shmget") /\ ppc' = "exited" /\ UNCHANGED ipc
  /\ UNCHANGED <<sem, shm, readerVars, writerVars, envVars>>

(* semget, whose result is not checked, and semctl(SETALL).                *)
ParentSemctl ==
  /\ ppc = "semctl"
  /\ \/ /\ Succeeds
        /\ ppc' = "fork1" /\ sem' = SetAll(arr) /\ ipc' = ipc \cup {"sem"}
     \/ /\ Fails("semctl")
        /\ ppc' = "exited" /\ UNCHANGED sem
        /\ ipc' \in {ipc, ipc \cup {"sem"}}
  /\ UNCHANGED <<shm, readerVars, writerVars, envVars>>

ParentForkReader ==
  /\ ppc = "fork1"
  /\ \/ Succeeds /\ ppc' = "fork2" /\ rpc' = "start"
     \/ Fails("fork1") /\ ppc' = "exited" /\ UNCHANGED rpc
  /\ UNCHANGED <<ipc, sem, shm, in, pos, m, writerVars, envVars>>

ParentForkWriter ==
  /\ ppc = "fork2"
  /\ \/ Succeeds /\ ppc' = "wait1" /\ wpc' = "start"
     \/ Fails("fork2") /\ ppc' = "exited" /\ UNCHANGED wpc
  /\ UNCHANGED <<ipc, sem, shm, readerVars, out, n, fpw, envVars>>

Ended == {"finished", "aborted"}

ParentWaitReader ==
  /\ ppc = "wait1" /\ rpc \in Ended
  /\ ppc' = "wait2"
  /\ UNCHANGED <<ipc, sem, shm, readerVars, writerVars, envVars, failed>>

(* Mutant of ParentWaitWriter: does not wait for the child. *)
ParentWaitWriterNot ==
  /\ ppc = "wait2"
  /\ ppc' = "rmsem"
  /\ UNCHANGED <<ipc, sem, shm, readerVars, writerVars, envVars, failed>>

ParentWaitWriter ==
  /\ ppc = "wait2" /\ wpc \in Ended
  /\ ppc' = "rmsem"
  /\ UNCHANGED <<ipc, sem, shm, readerVars, writerVars, envVars, failed>>

ParentRmSem ==
  /\ ppc = "rmsem"
  /\ \/ Succeeds /\ ppc' = "rmshm" /\ ipc' = ipc \ {"sem"}
     \/ Fails("rmsem") /\ ppc' = "exited" /\ UNCHANGED ipc
  /\ UNCHANGED <<sem, shm, readerVars, writerVars, envVars>>

ParentRmShm ==
  /\ ppc = "rmshm"
  /\ ppc' = "exited"
  /\ \/ Succeeds /\ ipc' = ipc \ {"shm"}
     \/ Fails("rmshm") /\ UNCHANGED ipc
  /\ UNCHANGED <<sem, shm, readerVars, writerVars, envVars>>

Parent ==
  \/ ParentShmget \/ ParentSemctl \/ ParentForkReader \/ ParentForkWriter
  \/ ParentWaitReader \/ ParentWaitWriter \/ ParentRmSem \/ ParentRmShm
-----------------------------------------------------------------------------
(* semop(-1) blocks while the semaphore is 0, semop(+1) never does; neither *)
(* result is looked at, so on a removed set both return at once.            *)
P(s) == IF "sem" \in ipc
        THEN sem[s] > 0 /\ sem' = [sem EXCEPT ![s] = @ - 1]
        ELSE UNCHANGED sem
V(s) == sem' = IF "sem" \in ipc THEN [sem EXCEPT ![s] = @ + 1] ELSE sem

(* readbuf *)

(* execv, fopen and shmat; any of them failing ends the process. *)
ReaderStart ==
  /\ rpc = "start"
  /\ \/ Succeeds /\ rpc' = "P"
     \/ Fails("readbuf") /\ rpc' = "aborted"
  /\ UNCHANGED <<parentVars, sem, shm, in, pos, m, writerVars, envVars>>

(* Mutant of ReaderP: P(empty) left out. *)
ReaderPNoWait ==
  /\ rpc = "P"
  /\ rpc' = "fread"
  /\ UNCHANGED <<parentVars, sem, shm, in, pos, m, writerVars, envVars, failed>>

ReaderP ==
  /\ rpc = "P"
  /\ P(EmptySem(in))
  /\ rpc' = "fread"
  /\ UNCHANGED <<parentVars, shm, in, pos, m, writerVars, envVars, failed>>

(* A read error shortens the chunk and is never told apart from the end of *)
(* the file.                                                               *)
ReaderFread ==
  /\ rpc = "fread"
  /\ \/ Succeeds /\ m' = ChunkLen(pos)
     \/ Fails("fread") /\ m' = 0
  /\ data' = [data EXCEPT ![in] = pos]
  /\ pos' = pos + 1
  /\ rpc' = "store"
  /\ UNCHANGED <<parentVars, sem, len, in, writerVars, envVars>>

ReaderStore ==
  /\ rpc = "store"
  /\ len' = [len EXCEPT ![in] = m]
  /\ rpc' = "V"
  /\ UNCHANGED <<parentVars, sem, data, in, pos, m, writerVars, envVars, failed>>

(* Mutants of ReaderV: in never wraps; V on the semaphore P took. *)
ReaderVNoWrap ==
  /\ rpc = "V"
  /\ V(FullSem(in))
  /\ in' = in + 1
  /\ rpc' = IF m < Chunk THEN "finished" ELSE "P"
  /\ UNCHANGED <<parentVars, shm, pos, m, writerVars, envVars, failed>>

ReaderVWrongSem ==
  /\ rpc = "V"
  /\ V(EmptySem(in))
  /\ in' = (in + 1) % Slots
  /\ rpc' = IF m < Chunk THEN "finished" ELSE "P"
  /\ UNCHANGED <<parentVars, shm, pos, m, writerVars, envVars, failed>>

ReaderV ==
  /\ rpc = "V"
  /\ V(FullSem(in))
  /\ in' = (in + 1) % Slots
  /\ rpc' = IF m < Chunk THEN "finished" ELSE "P"
  /\ UNCHANGED <<parentVars, shm, pos, m, writerVars, envVars, failed>>

Reader == ReaderStart \/ ReaderP \/ ReaderFread \/ ReaderStore \/ ReaderV
-----------------------------------------------------------------------------
(* writebuf *)

WriterStart ==
  /\ wpc = "start"
  /\ \/ Succeeds /\ wpc' = "P"
     \/ Fails("writebuf") /\ wpc' = "aborted"
  /\ UNCHANGED <<parentVars, sem, shm, out, n, fpw, readerVars, envVars>>

(* Mutant of WriterP: P(full) left out. *)
WriterPNoWait ==
  /\ wpc = "P"
  /\ wpc' = "getlen"
  /\ UNCHANGED <<parentVars, sem, shm, out, n, fpw, readerVars, envVars, failed>>

WriterP ==
  /\ wpc = "P"
  /\ P(FullSem(out))
  /\ wpc' = "getlen"
  /\ UNCHANGED <<parentVars, shm, out, n, fpw, readerVars, envVars, failed>>

WriterGetLen ==
  /\ wpc = "getlen"
  /\ n' = Decoded(len[out])
  /\ wpc' = "fwrite"
  /\ UNCHANGED <<parentVars, sem, shm, out, fpw, readerVars, envVars, failed>>

(* A short fwrite, the end of the copy to this process.                    *)
WriterFwrite ==
  /\ wpc = "fwrite"
  /\ \/ Succeeds /\ n' = n
     \/ Fails("fwrite") /\ n' = 0
  /\ fpw' = Append(fpw, [chunk |-> data[out], len |-> n'])
  /\ wpc' = "V"
  /\ UNCHANGED <<parentVars, sem, shm, out, readerVars, envVars>>

(* Mutant of WriterV: V(empty) left out. *)
WriterVNoSignal ==
  /\ wpc = "V"
  /\ out' = (out + 1) % Slots
  /\ wpc' = "fflush"
  /\ UNCHANGED <<parentVars, sem, shm, n, fpw, readerVars, envVars, failed>>

(* out is private to this process: its update, after fflush in the code,   *)
(* is part of this step.                                                   *)
WriterV ==
  /\ wpc = "V"
  /\ V(EmptySem(out))
  /\ out' = (out + 1) % Slots
  /\ wpc' = "fflush"
  /\ UNCHANGED <<parentVars, shm, n, fpw, readerVars, envVars, failed>>

LosesLastPiece ==
  fpw' = [fpw EXCEPT ![Len(fpw)] = [chunk |-> @.chunk, len |-> 0]]

(* Mutant of WriterFflush: stops after a full chunk too. *)
WriterFflushStopsEarly ==
  /\ wpc = "fflush"
  /\ \/ Succeeds /\ UNCHANGED fpw
     \/ Fails("fflush") /\ LosesLastPiece
  /\ wpc' = IF n <= Chunk THEN "finished" ELSE "P"
  /\ UNCHANGED <<parentVars, sem, shm, out, n, readerVars, envVars>>

(* The piece fwrite left in the stdio buffer reaches the file, or is lost:  *)
(* the result of fflush is not looked at and the loop goes on.              *)
WriterFflush ==
  /\ wpc = "fflush"
  /\ \/ Succeeds /\ UNCHANGED fpw
     \/ Fails("fflush") /\ LosesLastPiece
  /\ wpc' = IF n < Chunk THEN "finished" ELSE "P"
  /\ UNCHANGED <<parentVars, sem, shm, out, n, readerVars, envVars>>

Writer == WriterStart \/ WriterP \/ WriterGetLen \/ WriterFwrite \/ WriterV
          \/ WriterFflush
-----------------------------------------------------------------------------
Next == Parent \/ Reader \/ Writer

Spec == Init /\ [][Next]_vars

(* The kernel schedules every runnable process. *)
FairSpec == Spec /\ WF_vars(Parent) /\ WF_vars(Reader) /\ WF_vars(Writer)
-----------------------------------------------------------------------------
(* Every variable keeps its type; in and out stay indices of buffers and   *)
(* every length field stays within a chunk.                                *)
TypeOK ==
  /\ ipc \subseteq {"shm", "sem"}
  /\ sem \in [Sems -> Nat]
  /\ data \in [Slot -> Nat \cup {NoChunk}]
  /\ len \in [Slot -> 0 .. Chunk]
  /\ ppc \in {"shmget", "semctl", "fork1", "fork2", "wait1", "wait2", "rmsem",
              "rmshm", "exited"}
  /\ rpc \in {"unborn", "start", "P", "fread", "store", "V"} \cup Ended
  /\ in \in Slot /\ pos \in Nat /\ m \in 0 .. Chunk
  /\ wpc \in {"unborn", "start", "P", "getlen", "fwrite", "V", "fflush"}
             \cup Ended
  /\ out \in Slot /\ n \in Nat
  /\ fpw \in Seq([chunk : Nat \cup {NoChunk}, len : Nat])
  /\ file \in Nat \X (0 .. Chunk - 1)
  /\ stray \in 0 .. NonDigit
  /\ failed \subseteq FaultKinds

ReaderInSlot == rpc \in {"fread", "store", "V"}
WriterInSlot == wpc \in {"getlen", "fwrite", "V"}

(* readbuf never fills a buffer that writebuf is emptying: between P and V  *)
(* the two are in different slots.                                          *)
SlotExclusion == ~(ReaderInSlot /\ WriterInSlot /\ in = out)

(* Whatever call fails, what has been written is a prefix of the input: the *)
(* pieces are chunks 0, 1, 2, ... in order, none twice and none left out,   *)
(* and all but the last are whole.  (A failed fflush loses bytes.)          *)
OutputIsPrefix ==
  "fflush" \notin failed =>
    \A i \in 1 .. Len(fpw) :
       /\ fpw[i].chunk = i - 1
       /\ fpw[i].len <= ChunkLen(i - 1)
       /\ i < Len(fpw) => fpw[i].len = ChunkLen(i - 1)

(* When writebuf announces the end of the copy and no call has failed, the  *)
(* output is the whole input.                                               *)
AnnouncedCopyIsWhole ==
  wpc = "finished" /\ failed = {} =>
    /\ Len(fpw) = NChunks
    /\ \A i \in 1 .. Len(fpw) : fpw[i] = [chunk |-> i - 1, len |-> ChunkLen(i - 1)]

ReaderBlocked == rpc = "P" /\ "sem" \in ipc /\ sem[EmptySem(in)] = 0
WriterBlocked == wpc = "P" /\ "sem" \in ipc /\ sem[FullSem(out)] = 0

(* As long as no call fails, neither process waits for a V the other will   *)
(* never do: not both wait, and none waits for one that has left.           *)
NobodyStranded ==
  failed = {} =>
    /\ ~(ReaderBlocked /\ WriterBlocked)
    /\ ~(ReaderBlocked /\ wpc \in Ended)
    /\ ~(WriterBlocked /\ rpc \in Ended)

(* The parent never removes the semaphores or the segment under a child:    *)
(* both objects exist as long as a child may use them.                      *)
IpcOutlivesChildren ==
  rpc \notin {"unborn"} \cup Ended \/ wpc \notin {"unborn"} \cup Ended =>
    ipc = {"shm", "sem"}

(* If no call fails, the program ends with the file copied and the IPC      *)
(* objects removed.  Whatever call fails, it ends or hangs in one of three  *)
(* ways: readbuf could not start and writebuf waits for a first buffer;     *)
(* writebuf left early, or was never forked, and readbuf has filled the     *)
(* ring with a file that is longer.  In the first two the parent waits for  *)
(* ever too.                                                                *)
GoneOrUnborn == {"unborn"} \cup Ended
EndsOrNamedWait ==
  <>[](\/ /\ ppc = "exited" /\ rpc \in GoneOrUnborn /\ wpc \in GoneOrUnborn
          /\ failed = {} => ipc = {} /\ wpc = "finished"
       \/ "readbuf" \in failed /\ ppc = "wait2" /\ WriterBlocked
       \/ /\ failed \cap {"writebuf", "fwrite"} # {}
          /\ ppc = "wait1" /\ ReaderBlocked /\ NChunks > Slots
       \/ "fork2" \in failed /\ ppc = "exited" /\ ReaderBlocked /\ NChunks > Slots)

(* Chunks handed over by V(full) and not yet written, in slot order.        *)
Published == pos - (IF rpc \in {"store", "V"} THEN 1 ELSE 0)
FirstFull == IF wpc = "V" THEN out + 1 ELSE out
InTransit == [k \in 1 .. Published - Len(fpw) |->
                data[(FirstFull + k - 1) % Slots]]

(* The two processes and the semaphores implement a bounded FIFO queue of   *)
(* chunks, whatever fails.                                                  *)
Fifo == INSTANCE BoundedFifo WITH
          Capacity <- Slots, Values <- ChunkNumbers,
          queue <- InTransit, taken <- [i \in 1 .. Len(fpw) |-> fpw[i].chunk]
IsBoundedFifo == Fifo!Spec
=============================================================================
