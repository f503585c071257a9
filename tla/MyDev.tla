------------------------------- MODULE MyDev -------------------------------
(***************************************************************************)
(* The character device of OSlab/design/lab3 (mydev.c).  All opens share    *)
(* one buffer and the two global offsets r_locate and w_locate; no handler  *)
(* takes a lock.  A step is the code up to the next access to something     *)
(* shared: the load of an offset, one byte of copy_to_user or               *)
(* copy_from_user, the load and the store of r_locate = (r_locate+count)%N. *)
(* Processes call open, read, write and close in any order; dev_test.c is   *)
(* one such process.                                                        *)
(***************************************************************************)
EXTENDS Integers, Sequences

CONSTANTS
  Proc,      \* processes that use the device
  N,         \* size of the buffer: 4096
  Sizes,     \* sizes a process asks for
  Byte,      \* what a process writes (the buffer starts as zeros)
  MaxBytes   \* bound on the bytes moved each way since the last open

ASSUME SizeAssumption == N \in Nat \ {0}
ASSUME SizesAssumption == Sizes \subseteq Nat

VARIABLES
  loaded,              \* the module is loaded
  r_locate, w_locate,  \* the global offsets
  data,                \* dev_buff->data
  fd,                  \* processes that have the device open
  pc,                  \* where each process is in its call
  p, count,            \* locals of mydev_read and mydev_write
  done,                \* bytes copied so far by this call
  temp,                \* the loaded value in r_locate = (r_locate+count)%N
  ubuf,                \* the process's own buffer
  sent, got,           \* history: bytes written and read since the last open
  overlap              \* history: two calls overlapped since the last open

offsets == <<r_locate, w_locate>>
locals == <<p, count, done, temp, ubuf>>
history == <<sent, got, overlap>>
vars == <<loaded, offsets, data, fd, pc, locals, history>>

Reading == {"copy_to_user", "r_load", "r_store"}
Writing == {"copy_from_user", "w_load", "w_store"}
Calls == {"idle", "open"} \cup Reading \cup Writing
Cell == 0 .. N - 1

Others(self) == \E q \in Proc \ {self} : pc[q] # "idle"

Init ==
  /\ loaded = FALSE
  /\ r_locate = 0 /\ w_locate = 0
  /\ data = [i \in Cell |-> 0]
  /\ fd = {}
  /\ pc = [q \in Proc |-> "idle"]
  /\ p = [q \in Proc |-> 0]
  /\ count = [q \in Proc |-> 0]
  /\ done = [q \in Proc |-> 0]
  /\ temp = [q \in Proc |-> 0]
  /\ ubuf = [q \in Proc |-> <<>>]
  /\ sent = <<>> /\ got = <<>> /\ overlap = FALSE

\* insmod: the statics are 0 and the buffer is cleared.  When register_chrdev
\* or kmalloc fails the module is not loaded and nothing has changed.
mydev_init ==
  /\ ~loaded
  /\ loaded' = TRUE
  /\ r_locate' = 0 /\ w_locate' = 0
  /\ data' = [i \in Cell |-> 0]
  /\ sent' = <<>> /\ got' = <<>> /\ overlap' = FALSE
  /\ UNCHANGED <<fd, pc, locals>>

\* rmmod: owner:THIS_MODULE keeps the module while the device is open, and
\* a call of open holds a reference of its own.
mydev_exit ==
  /\ loaded
  /\ fd = {} /\ \A q \in Proc : pc[q] = "idle"
  /\ loaded' = FALSE
  /\ UNCHANGED <<offsets, data, fd, pc, locals, history>>

\* A call returns; its locals are gone.
Return(self) ==
  /\ pc' = [pc EXCEPT ![self] = "idle"]
  /\ p' = [p EXCEPT ![self] = 0]
  /\ count' = [count EXCEPT ![self] = 0]
  /\ done' = [done EXCEPT ![self] = 0]
  /\ temp' = [temp EXCEPT ![self] = 0]
  /\ ubuf' = [ubuf EXCEPT ![self] = <<>>]

\* A call begins: the history notes whether another one is under way, and
\* from then on, until an open finds the device quiet, follows nothing.
Begin(self, call) ==
  /\ pc[self] = "idle"
  /\ pc' = [pc EXCEPT ![self] = call]
  /\ overlap' = (overlap \/ Others(self))

\* mydev_open, the first store.  Like every open, the one that will be
\* refused because of its minor number resets the offsets of all processes.
OpenResetsRead(self) ==
  /\ loaded /\ self \notin fd
  /\ pc[self] = "idle"
  /\ pc' = [pc EXCEPT ![self] = "open"]
  /\ r_locate' = 0
  /\ overlap' = Others(self)
  /\ sent' = <<>> /\ got' = <<>>
  /\ UNCHANGED <<loaded, w_locate, data, fd, locals>>

\* mutant: open forgets the write offset
OpenKeepsWrite(self) ==
  /\ pc[self] = "open"
  /\ pc' = [pc EXCEPT ![self] = "idle"]
  /\ \E minorOk \in BOOLEAN : fd' = IF minorOk THEN fd \cup {self} ELSE fd
  /\ UNCHANGED <<loaded, offsets, data, locals, history>>

\* The second store and the check of the minor number.
OpenResetsWrite(self) ==
  /\ pc[self] = "open"
  /\ pc' = [pc EXCEPT ![self] = "idle"]
  /\ w_locate' = 0
  /\ \E minorOk \in BOOLEAN : fd' = IF minorOk THEN fd \cup {self} ELSE fd
  /\ UNCHANGED <<loaded, r_locate, data, locals, history>>

mydev_release(self) ==
  /\ self \in fd /\ pc[self] = "idle"
  /\ fd' = fd \ {self}
  /\ UNCHANGED <<loaded, offsets, data, pc, locals, history>>

\* mutant: the place is not subtracted
ClippedToBuffer(size, from) == IF size > N THEN N ELSE size

\* if(count > 4096 - p) count = 4096 - p;
Clipped(size, from) == IF size > N - from THEN N - from ELSE size

----------------------------------------------------------------------------
(* mydev_read *)

ReadBegin(self, size) ==
  /\ self \in fd
  /\ Len(got) + size <= MaxBytes
  /\ Begin(self, "copy_to_user")
  /\ p' = [p EXCEPT ![self] = r_locate]
  /\ count' = [count EXCEPT ![self] = Clipped(size, r_locate)]
  /\ done' = [done EXCEPT ![self] = 0]
  /\ ubuf' = [ubuf EXCEPT ![self] = <<>>]
  /\ got' = IF overlap' THEN <<>> ELSE got
  /\ sent' = IF overlap' THEN <<>> ELSE sent
  /\ UNCHANGED <<loaded, offsets, data, fd, temp>>

\* copy_to_user, one byte
ReadByte(self) ==
  /\ pc[self] = "copy_to_user" /\ done[self] < count[self]
  /\ ubuf' = [ubuf EXCEPT ![self] = Append(@, data[p[self] + done[self]])]
  /\ done' = [done EXCEPT ![self] = @ + 1]
  /\ UNCHANGED <<loaded, offsets, data, fd, pc, p, count, temp, history>>

\* The user's buffer is not writable: -EFAULT, the offset stays.
ReadFault(self) ==
  /\ pc[self] = "copy_to_user" /\ done[self] < count[self]
  /\ Return(self)
  /\ UNCHANGED <<loaded, offsets, data, fd, history>>

ReadCopied(self) ==
  /\ pc[self] = "copy_to_user" /\ done[self] = count[self]
  /\ pc' = [pc EXCEPT ![self] = "r_load"]
  /\ UNCHANGED <<loaded, offsets, data, fd, locals, history>>

ReadLoad(self) ==
  /\ pc[self] = "r_load"
  /\ pc' = [pc EXCEPT ![self] = "r_store"]
  /\ temp' = [temp EXCEPT ![self] = r_locate]
  /\ UNCHANGED <<loaded, offsets, data, fd, p, count, done, ubuf, history>>

\* mutant: no wrap around
AdvancedNoWrap(self) == temp[self] + count[self]

\* mutant: moves by one too many
AdvancedOneMore(self) == (temp[self] + count[self] + 1) % N

\* The value stored by r_locate = (r_locate+count)%4096, or its w_ twin.
Advanced(self) == (temp[self] + count[self]) % N

ReadStore(self) ==
  /\ pc[self] = "r_store"
  /\ Return(self)
  /\ r_locate' = Advanced(self)
  /\ got' = IF overlap THEN got
            ELSE got \o [i \in 1 .. count[self] |->
                           [byte |-> ubuf[self][i], had |-> Len(sent)]]
  /\ UNCHANGED <<loaded, w_locate, data, fd, sent, overlap>>

----------------------------------------------------------------------------
(* mydev_write *)

WriteBegin(self, size, b) ==
  /\ self \in fd
  /\ Len(sent) + size <= MaxBytes
  /\ Begin(self, "copy_from_user")
  /\ p' = [p EXCEPT ![self] = w_locate]
  /\ count' = [count EXCEPT ![self] = Clipped(size, w_locate)]
  /\ done' = [done EXCEPT ![self] = 0]
  /\ ubuf' = [ubuf EXCEPT ![self] = [i \in 1 .. size |-> b]]
  /\ got' = IF overlap' THEN <<>> ELSE got
  /\ sent' = IF overlap' THEN <<>> ELSE sent
  /\ UNCHANGED <<loaded, offsets, data, fd, temp>>

\* copy_from_user, one byte
WriteByte(self) ==
  /\ pc[self] = "copy_from_user" /\ done[self] < count[self]
  /\ data' = [data EXCEPT ![p[self] + done[self]] = ubuf[self][done[self] + 1]]
  /\ done' = [done EXCEPT ![self] = @ + 1]
  /\ UNCHANGED <<loaded, offsets, fd, pc, p, count, temp, ubuf, history>>

\* The user's buffer is not readable: copy_from_user clears the rest of its
\* destination, the call returns -EFAULT, the offset stays.
WriteFault(self) ==
  /\ pc[self] = "copy_from_user" /\ done[self] < count[self]
  /\ Return(self)
  /\ data' = [i \in Cell |->
       IF i \in p[self] + done[self] .. p[self] + count[self] - 1 THEN 0 ELSE data[i]]
  /\ UNCHANGED <<loaded, offsets, fd, history>>

WriteCopied(self) ==
  /\ pc[self] = "copy_from_user" /\ done[self] = count[self]
  /\ pc' = [pc EXCEPT ![self] = "w_load"]
  /\ UNCHANGED <<loaded, offsets, data, fd, locals, history>>

WriteLoad(self) ==
  /\ pc[self] = "w_load"
  /\ pc' = [pc EXCEPT ![self] = "w_store"]
  /\ temp' = [temp EXCEPT ![self] = w_locate]
  /\ UNCHANGED <<loaded, offsets, data, fd, p, count, done, ubuf, history>>

WriteStore(self) ==
  /\ pc[self] = "w_store"
  /\ Return(self)
  /\ w_locate' = Advanced(self)
  /\ sent' = IF overlap THEN sent ELSE sent \o SubSeq(ubuf[self], 1, count[self])
  /\ UNCHANGED <<loaded, r_locate, data, fd, got, overlap>>

----------------------------------------------------------------------------
Call(self) ==
  \/ OpenResetsRead(self) \/ OpenResetsWrite(self) \/ mydev_release(self)
  \/ \E size \in Sizes : ReadBegin(self, size)
  \/ ReadByte(self) \/ ReadFault(self) \/ ReadCopied(self)
  \/ ReadLoad(self) \/ ReadStore(self)
  \/ \E size \in Sizes, b \in Byte : WriteBegin(self, size, b)
  \/ WriteByte(self) \/ WriteFault(self) \/ WriteCopied(self)
  \/ WriteLoad(self) \/ WriteStore(self)

Next == mydev_init \/ mydev_exit \/ \E self \in Proc : Call(self)

Spec == Init /\ [][Next]_vars

----------------------------------------------------------------------------
(* Properties *)

\* Types of the variables; the offsets always name a byte of the buffer,
\* which both handlers rely on without a check (mydev.c lines 94 and 114).
TypeOK ==
  /\ loaded \in BOOLEAN
  /\ r_locate \in Cell /\ w_locate \in Cell
  /\ DOMAIN data = Cell
  /\ fd \in SUBSET Proc
  /\ pc \in [Proc -> Calls]
  /\ p \in [Proc -> Cell]
  /\ count \in [Proc -> Nat] /\ done \in [Proc -> Nat] /\ temp \in [Proc -> Cell]

\* However calls overlap, and whichever update of an offset is lost, no copy
\* leaves the buffer: a call copies to or from the count bytes after the
\* offset it loaded, and that count was clipped for this very offset,
\* whatever has happened to the global one since (mydev.c lines 94-103 and
\* 114-123).
CopyInBounds ==
  \A q \in Proc : pc[q] \in Reading \cup Writing =>
    /\ done[q] <= count[q]
    /\ p[q] + count[q] <= N

\* As long as calls do not overlap, the offsets are the numbers of bytes
\* written and read since the last open, of whatever device and by whatever
\* process (mydev.c lines 81-82, 105 and 125).
OffsetsCount ==
  ~overlap /\ (\A q \in Proc : pc[q] = "idle") =>
    /\ w_locate = Len(sent) % N
    /\ r_locate = Len(got) % N

\* As long as calls do not overlap, the i-th byte read since the last open is
\* the i-th byte written, provided it had been written by then and the
\* writer had not come round to it again; refused opens and calls that
\* failed half way included (what dev_test.c expects of its two reads).
ReadsBack ==
  \A i \in DOMAIN got :
    got[i].had \in i .. N - 1 => got[i].byte = sent[i]
============================================================================
