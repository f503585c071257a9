---------------------------- MODULE MyDevProofs ----------------------------
(***************************************************************************)
(* For any size of the buffer, any number of processes and any sizes they   *)
(* ask for: the offsets stay inside the buffer and so does every copy.      *)
(***************************************************************************)
EXTENDS MyDev, TLAPS

\* The two invariants carry each other: the offset a call loads is in range
\* because of the types, and the count it adds because it was clipped.
DevInv == TypeOK /\ CopyInBounds

\* What the clip of mydev_read and mydev_write gives: the copy fits.
LEMMA ClippedFits ==
  ASSUME NEW size \in Nat, NEW from \in Cell
  PROVE  /\ Clipped(size, from) \in Nat
         /\ from + Clipped(size, from) <= N
  BY SizeAssumption DEF Clipped, Cell

\* The remainder puts an offset back into the buffer, even when the loaded
\* value belongs to another call than the count (mydev.c line 105).
LEMMA AdvancedInBuffer ==
  ASSUME TypeOK, NEW self \in Proc
  PROVE  Advanced(self) \in Cell
  <1>1. temp[self] + count[self] \in Nat
    BY SizeAssumption DEF TypeOK, Cell
  <1> QED BY <1>1, SizeAssumption DEF Advanced, Cell

\* The device starts with both offsets at the first byte.
LEMMA DevInit == Init => DevInv
  BY SizeAssumption DEF Init, DevInv, TypeOK, CopyInBounds, Cell, Calls, Reading, Writing

\* Every step of every process keeps the invariant.
LEMMA DevStep == DevInv /\ [Next]_vars => DevInv'
  <1> SUFFICES ASSUME DevInv, [Next]_vars PROVE DevInv'
    OBVIOUS
  <1> USE SizeAssumption, SizesAssumption DEF DevInv, TypeOK, Calls, Reading, Writing
  <1>0. 0 \in Cell
    BY DEF Cell
  <1>1. CASE mydev_init
    BY <1>0, <1>1 DEF mydev_init, locals, CopyInBounds
  <1>2. CASE mydev_exit
    BY <1>2 DEF mydev_exit, locals, offsets, history, CopyInBounds
  <1>3. ASSUME NEW self \in Proc, Call(self) PROVE DevInv'
    <2>1. CASE OpenResetsRead(self)
      BY <1>0, <2>1 DEF OpenResetsRead, locals, CopyInBounds
    <2>2. CASE OpenResetsWrite(self)
      BY <1>0, <2>2 DEF OpenResetsWrite, locals, history, CopyInBounds
    <2>3. CASE mydev_release(self)
      BY <2>3 DEF mydev_release, locals, offsets, history, CopyInBounds
    <2>4. ASSUME NEW size \in Sizes, ReadBegin(self, size) PROVE DevInv'
      <3>1. /\ Clipped(size, r_locate) \in Nat
            /\ r_locate + Clipped(size, r_locate) <= N
        BY ClippedFits
      <3> QED BY <2>4, <3>1 DEF ReadBegin, Begin, offsets, CopyInBounds
    <2>5. CASE ReadByte(self)
      BY <2>5 DEF ReadByte, offsets, history, CopyInBounds
    <2>6. CASE ReadFault(self)
      BY <1>0, <2>6 DEF ReadFault, Return, offsets, history, CopyInBounds
    <2>7. CASE ReadCopied(self)
      BY <2>7 DEF ReadCopied, locals, offsets, history, CopyInBounds
    <2>8. CASE ReadLoad(self)
      BY <2>8 DEF ReadLoad, offsets, history, CopyInBounds
    <2>9. CASE ReadStore(self)
      BY <1>0, <2>9, AdvancedInBuffer DEF ReadStore, Return, CopyInBounds
    <2>10. ASSUME NEW size \in Sizes, NEW b \in Byte, WriteBegin(self, size, b) PROVE DevInv'
      <3>1. /\ Clipped(size, w_locate) \in Nat
            /\ w_locate + Clipped(size, w_locate) <= N
        BY ClippedFits
      <3> QED BY <2>10, <3>1 DEF WriteBegin, Begin, offsets, CopyInBounds
    <2>11. CASE WriteByte(self)
      BY <2>11 DEF WriteByte, offsets, history, CopyInBounds
    <2>12. CASE WriteFault(self)
      BY <1>0, <2>12 DEF WriteFault, Return, offsets, history, CopyInBounds
    <2>13. CASE WriteCopied(self)
      BY <2>13 DEF WriteCopied, locals, offsets, history, CopyInBounds
    <2>14. CASE WriteLoad(self)
      BY <2>14 DEF WriteLoad, offsets, history, CopyInBounds
    <2>15. CASE WriteStore(self)
      BY <1>0, <2>15, AdvancedInBuffer DEF WriteStore, Return, CopyInBounds
    <2> QED BY <1>3, <2>1, <2>2, <2>3, <2>4, <2>5, <2>6, <2>7, <2>8, <2>9,
               <2>10, <2>11, <2>12, <2>13, <2>14, <2>15 DEF Call
  <1>4. CASE UNCHANGED vars
    BY <1>4 DEF vars, locals, offsets, history, CopyInBounds
  <1> QED BY <1>1, <1>2, <1>3, <1>4 DEF Next

\* TypeOK of MyDev, the offsets' range included, whatever calls overlap.
THEOREM OffsetsInBuffer == Spec => []TypeOK
  <1>1. DevInv => TypeOK
    BY DEF DevInv
  <1> QED BY <1>1, DevInit, DevStep, PTL DEF Spec

\* No copy of mydev_read or mydev_write leaves the buffer.
THEOREM CopiesInBuffer == Spec => []CopyInBounds
  <1>1. DevInv => CopyInBounds
    BY DEF DevInv
  <1> QED BY <1>1, DevInit, DevStep, PTL DEF Spec

----------------------------------------------------------------------------
(* The offsets count the bytes moved, as long as calls do not overlap.      *)

\* Division with remainder is unique.
LEMMA RemainderUnique ==
  ASSUME NEW k \in Nat, NEW t \in Cell
  PROVE  (N * k + t) % N = t
  <1> DEFINE x == N * k + t
             d == x \div N
             m == x % N
  <1>0. x \in Nat /\ k \in Int /\ t \in Nat /\ t < N /\ N \in Nat /\ N > 0
    BY SizeAssumption DEF Cell
  <1>1. d \in Int /\ m \in 0 .. N - 1 /\ x = N * d + m
    BY <1>0
  <1>2. N * k + t = N * d + m
    BY <1>1
  <1>3. ~ (k >= d + 1)
    <2> SUFFICES ASSUME k >= d + 1 PROVE FALSE
      OBVIOUS
    <2>1. N * k >= N * (d + 1)
      BY <1>0, <1>1
    <2>2. N * (d + 1) = N * d + N
      BY <1>0, <1>1
    <2> HIDE DEF x, d, m
    <2> QED BY <1>0, <1>1, <1>2, <2>1, <2>2
  <1>4. ~ (d >= k + 1)
    <2> SUFFICES ASSUME d >= k + 1 PROVE FALSE
      OBVIOUS
    <2>1. N * d >= N * (k + 1)
      BY <1>0, <1>1
    <2>2. N * (k + 1) = N * k + N
      BY <1>0, <1>1
    <2> HIDE DEF x, d, m
    <2> QED BY <1>0, <1>1, <1>2, <2>1, <2>2
  <1>5. k = d
    BY <1>0, <1>1, <1>3, <1>4
  <1> QED BY <1>0, <1>1, <1>2, <1>5

\* Taking the remainder early does not change the sum's remainder: why the
\* offset may be wrapped after every call.
LEMMA WrapEarly ==
  ASSUME NEW a \in Nat, NEW c \in Nat
  PROVE  ((a % N) + c) % N = (a + c) % N
  <1> DEFINE q == a \div N
             r == a % N
             e == (r + c) \div N
             s == (r + c) % N
  <1>0. N \in Nat /\ N > 0
    BY SizeAssumption
  <1>1. q \in Nat /\ r \in Cell /\ a = N * q + r
    BY <1>0 DEF Cell
  <1>2. r + c \in Nat
    BY <1>0, <1>1 DEF Cell
  <1>3. e \in Nat /\ s \in Cell /\ r + c = N * e + s
    BY <1>0, <1>2 DEF Cell
  <1>4. a + c = N * (q + e) + s
    <2>1. a + c = N * q + (r + c)
      BY <1>0, <1>1 DEF Cell
    <2>2. N * (q + e) = N * q + N * e
      BY <1>0, <1>1, <1>3
    <2> HIDE DEF q, r, e, s
    <2> QED BY <1>0, <1>1, <1>3, <2>1, <2>2 DEF Cell
  <1>5. (N * (q + e) + s) % N = s
    <2>1. q + e \in Nat
      BY <1>1, <1>3
    <2> HIDE DEF q, r, e, s
    <2> QED BY <1>3, <2>1, RemainderUnique
  <1> QED BY <1>4, <1>5

\* A function on 1 .. n is a sequence of length n.
LEMMA FunctionIsSeq ==
  ASSUME NEW S, NEW n \in Nat, NEW f \in [1 .. n -> S]
  PROVE  f \in Seq(S) /\ Len(f) = n
  OBVIOUS

\* Appending adds the lengths and keeps the old elements in place.
LEMMA Appended ==
  ASSUME NEW S, NEW s \in Seq(S), NEW t \in Seq(S)
  PROVE  /\ s \o t \in Seq(S)
         /\ Len(s \o t) = Len(s) + Len(t)
         /\ \A i \in 1 .. Len(s) : (s \o t)[i] = s[i]
         /\ \A i \in 1 .. Len(t) : (s \o t)[Len(s) + i] = t[i]
  OBVIOUS

Value == Byte \cup {0}
Entry == [byte : Value, had : Nat]

\* Nobody is inside the driver while it is not loaded.
LoadInv == ~loaded => fd = {} /\ \A q \in Proc : pc[q] = "idle"

\* What the buffers hold, and how far a call has come.
BufInv ==
  /\ data \in [Cell -> Value]
  /\ ubuf \in [Proc -> Seq(Value)]
  /\ sent \in Seq(Value) /\ got \in Seq(Entry)
  /\ \A q \in Proc :
       /\ pc[q] \in Reading \cup Writing => q \in fd
       /\ pc[q] \in Reading => Len(ubuf[q]) = done[q]
       /\ pc[q] \in Writing => Len(ubuf[q]) >= count[q]
       /\ pc[q] \in {"r_load", "r_store", "w_load", "w_store"} => done[q] = count[q]

\* The place of the byte that follows n bytes moved since the open.
Place(n) == n % N

\* Without overlap at most one call is under way, it works where the global
\* offset points, and the offsets are the lengths of the history.
PlaceInv ==
  /\ \A q, r \in Proc : pc[q] # "idle" /\ pc[r] # "idle" => q = r
  /\ r_locate = Place(Len(got))
  /\ (\A q \in Proc : pc[q] # "open") => w_locate = Place(Len(sent))
  /\ \A q \in Proc :
       /\ pc[q] = "open" => sent = <<>> /\ got = <<>>
       /\ pc[q] \in Reading => p[q] = r_locate
       /\ pc[q] \in Writing => p[q] = w_locate
       /\ pc[q] = "r_store" => temp[q] = r_locate
       /\ pc[q] = "w_store" => temp[q] = w_locate

\* Without overlap the buffer starts with the history, until the writer has
\* come to its end; the call under way has moved what it says.
MovedInv ==
  \A q \in Proc : pc[q] \in Reading \cup Writing =>
    \A j \in 1 .. done[q] : ubuf[q][j] = data[p[q] + j - 1]
PrefixInv ==
  Len(sent) < N => \A i \in 1 .. Len(sent) : data[i - 1] = sent[i]

\* ReadsBack, and no entry knows of more bytes than were written.
BackInv ==
  \A i \in 1 .. Len(got) :
    /\ got[i].had <= Len(sent)
    /\ got[i].had \in i .. N - 1 => got[i].byte = sent[i]

QuietPlace == ~overlap => PlaceInv
QuietMoved == ~overlap => MovedInv
QuietPrefix == ~overlap => PrefixInv

HistInv ==
  DevInv /\ LoadInv /\ BufInv /\ QuietPlace /\ QuietMoved /\ QuietPrefix /\ BackInv

\* The module cannot be unloaded under a process (owner:THIS_MODULE).
LEMMA LoadStep ==
  ASSUME DevInv, LoadInv, BufInv, [Next]_vars PROVE LoadInv'
  <1> USE SizeAssumption, SizesAssumption DEF LoadInv, BufInv, DevInv, TypeOK, Calls, Reading, Writing
  <1>1. CASE mydev_init
    BY <1>1 DEF mydev_init, locals
  <1>2. CASE mydev_exit
    BY <1>2 DEF mydev_exit, locals, offsets, history
  <1>3. ASSUME NEW self \in Proc, Call(self) PROVE LoadInv'
    <2>1. CASE OpenResetsRead(self)
      BY <2>1 DEF OpenResetsRead, locals, offsets, history, Others
    <2>2. CASE OpenResetsWrite(self)
      BY <2>2 DEF OpenResetsWrite, locals, offsets, history
    <2>3. CASE mydev_release(self)
      BY <2>3 DEF mydev_release, locals, offsets, history
    <2>4. ASSUME NEW size \in Sizes, ReadBegin(self, size) PROVE LoadInv'
      BY <2>4 DEF ReadBegin, Begin, offsets, Others
    <2>5. CASE ReadByte(self)
      BY <2>5 DEF ReadByte, locals, offsets, history
    <2>6. CASE ReadFault(self)
      BY <2>6 DEF ReadFault, Return, locals, offsets, history
    <2>7. CASE ReadCopied(self)
      BY <2>7 DEF ReadCopied, locals, offsets, history
    <2>8. CASE ReadLoad(self)
      BY <2>8 DEF ReadLoad, locals, offsets, history
    <2>9. CASE ReadStore(self)
      BY <2>9 DEF ReadStore, Return, locals, offsets, history
    <2>10. ASSUME NEW size \in Sizes, NEW b \in Byte, WriteBegin(self, size, b) PROVE LoadInv'
      BY <2>10 DEF WriteBegin, Begin, offsets, Others
    <2>11. CASE WriteByte(self)
      BY <2>11 DEF WriteByte, locals, offsets, history
    <2>12. CASE WriteFault(self)
      BY <2>12 DEF WriteFault, Return, locals, offsets, history
    <2>13. CASE WriteCopied(self)
      BY <2>13 DEF WriteCopied, locals, offsets, history
    <2>14. CASE WriteLoad(self)
      BY <2>14 DEF WriteLoad, locals, offsets, history
    <2>15. CASE WriteStore(self)
      BY <2>15 DEF WriteStore, Return, locals, offsets, history
    <2> QED BY <1>3, <2>1, <2>2, <2>3, <2>4, <2>5, <2>6, <2>7, <2>8, <2>9,
               <2>10, <2>11, <2>12, <2>13, <2>14, <2>15 DEF Call
  <1>4. CASE UNCHANGED vars
    BY <1>4 DEF vars, locals, offsets, history
  <1> QED BY <1>1, <1>2, <1>3, <1>4 DEF Next

\* What a completed read adds to the history: one entry for each byte.
LEMMA NewEntries ==
  ASSUME DevInv, BufInv, NEW self \in Proc, pc[self] = "r_store"
  PROVE  LET new == [i \in 1 .. count[self] |-> [byte |-> ubuf[self][i], had |-> Len(sent)]]
         IN  /\ got \o new \in Seq(Entry)
             /\ Len(got \o new) = Len(got) + count[self]
             /\ \A i \in 1 .. Len(got) : (got \o new)[i] = got[i]
             /\ \A i \in 1 .. count[self] : (got \o new)[Len(got) + i] = new[i]
  <1> DEFINE new == [i \in 1 .. count[self] |-> [byte |-> ubuf[self][i], had |-> Len(sent)]]
  <1>1. \A i \in 1 .. count[self] : ubuf[self][i] \in Value
    BY DEF DevInv, TypeOK, BufInv, Reading
  <1>2. \A i \in 1 .. count[self] : [byte |-> ubuf[self][i], had |-> Len(sent)] \in Entry
    BY <1>1 DEF Entry, BufInv
  <1>3. new \in [1 .. count[self] -> Entry] /\ count[self] \in Nat
    BY <1>2 DEF DevInv, TypeOK
  <1>4. got \in Seq(Entry)
    BY DEF BufInv
  <1> HIDE DEF new
  <1>5. new \in Seq(Entry) /\ Len(new) = count[self]
    BY <1>3, FunctionIsSeq
  <1>6. /\ got \o new \in Seq(Entry)
        /\ Len(got \o new) = Len(got) + Len(new)
        /\ \A i \in 1 .. Len(got) : (got \o new)[i] = got[i]
        /\ \A i \in 1 .. Len(new) : (got \o new)[Len(got) + i] = new[i]
    BY <1>4, <1>5, Appended
  <1>7. /\ got \o new \in Seq(Entry)
        /\ Len(got \o new) = Len(got) + count[self]
        /\ \A i \in 1 .. Len(got) : (got \o new)[i] = got[i]
        /\ \A i \in 1 .. count[self] : (got \o new)[Len(got) + i] = new[i]
    BY <1>5, <1>6
  <1> QED BY <1>7, Zenon DEF new

\* What a completed write adds: the first count bytes of its buffer.
LEMMA NewBytes ==
  ASSUME DevInv, BufInv, NEW self \in Proc, pc[self] = "w_store"
  PROVE  LET new == SubSeq(ubuf[self], 1, count[self])
         IN  /\ sent \o new \in Seq(Value)
             /\ Len(sent \o new) = Len(sent) + count[self]
             /\ \A i \in 1 .. Len(sent) : (sent \o new)[i] = sent[i]
             /\ \A i \in 1 .. count[self] : (sent \o new)[Len(sent) + i] = ubuf[self][i]
  <1> DEFINE new == SubSeq(ubuf[self], 1, count[self])
  <1>1. ubuf[self] \in Seq(Value) /\ count[self] \in 0 .. Len(ubuf[self])
    BY DEF DevInv, TypeOK, BufInv, Writing
  <1>2. /\ new \in Seq(Value) /\ Len(new) = count[self]
        /\ \A i \in 1 .. count[self] : new[i] = ubuf[self][i]
    BY <1>1
  <1>3. sent \in Seq(Value)
    BY DEF BufInv
  <1> HIDE DEF new
  <1>4. /\ sent \o new \in Seq(Value)
        /\ Len(sent \o new) = Len(sent) + Len(new)
        /\ \A i \in 1 .. Len(sent) : (sent \o new)[i] = sent[i]
        /\ \A i \in 1 .. Len(new) : (sent \o new)[Len(sent) + i] = new[i]
    BY <1>2, <1>3, Appended
  <1> QED BY <1>2, <1>4 DEF new

\* The buffers keep their shape in every step.
LEMMA BufStep ==
  ASSUME DevInv, LoadInv, BufInv, [Next]_vars PROVE BufInv'
  <1>0. /\ pc \in [Proc -> Calls] /\ fd \subseteq Proc
        /\ count \in [Proc -> Nat] /\ done \in [Proc -> Nat]
    BY DEF DevInv, TypeOK
  <1> USE <1>0 DEF BufInv, Calls, Reading, Writing
  <1>1. CASE mydev_init
    BY <1>1 DEF mydev_init, locals, LoadInv, Value
  <1>2. CASE mydev_exit
    BY <1>2 DEF mydev_exit, locals, offsets, history
  <1>3. ASSUME NEW self \in Proc, Call(self) PROVE BufInv'
    <2>1. CASE OpenResetsRead(self)
      BY <2>1 DEF OpenResetsRead, locals, offsets, history, Others
    <2>2. CASE OpenResetsWrite(self)
      BY <2>2 DEF OpenResetsWrite, locals, offsets, history
    <2>3. CASE mydev_release(self)
      BY <2>3 DEF mydev_release, locals, offsets, history
    <2>4. ASSUME NEW size \in Sizes, ReadBegin(self, size) PROVE BufInv'
      <3>1. got' \in Seq(Entry) /\ sent' \in Seq(Value)
        BY <2>4 DEF ReadBegin
      <3>2. ubuf' \in [Proc -> Seq(Value)] /\ ubuf'[self] = <<>>
        BY <2>4 DEF ReadBegin
      <3>3. \A q \in Proc \ {self} :
              ubuf'[q] = ubuf[q] /\ pc'[q] = pc[q] /\ done'[q] = done[q] /\ count'[q] = count[q]
        BY <2>4 DEF ReadBegin, Begin
      <3> QED BY <2>4, <3>1, <3>2, <3>3 DEF ReadBegin, Begin
    <2>5. CASE ReadByte(self)
      <3>1. data[p[self] + done[self]] \in Value
        <4>1. p[self] + done[self] \in Cell
          BY <2>5, SizeAssumption DEF ReadByte, DevInv, TypeOK, CopyInBounds, Cell
        <4> QED BY <4>1
      <3>2. ubuf' \in [Proc -> Seq(Value)] /\ Len(ubuf'[self]) = done'[self]
        <4>1. /\ Append(ubuf[self], data[p[self] + done[self]]) \in Seq(Value)
              /\ Len(Append(ubuf[self], data[p[self] + done[self]])) = done[self] + 1
          BY <2>5, <3>1 DEF ReadByte
        <4> QED BY <2>5, <4>1 DEF ReadByte
      <3>3. \A q \in Proc \ {self} : ubuf'[q] = ubuf[q] /\ done'[q] = done[q]
        BY <2>5 DEF ReadByte
      <3> QED BY <2>5, <3>2, <3>3 DEF ReadByte, offsets, history
    <2>6. CASE ReadFault(self)
      BY <2>6 DEF ReadFault, Return, locals, offsets, history
    <2>7. CASE ReadCopied(self)
      BY <2>7 DEF ReadCopied, locals, offsets, history
    <2>8. CASE ReadLoad(self)
      BY <2>8 DEF ReadLoad, locals, offsets, history
    <2>9. CASE ReadStore(self)
      <3>1. got' \in Seq(Entry)
        BY <2>9, NewEntries DEF ReadStore
      <3> QED BY <2>9, <3>1 DEF ReadStore, Return
    <2>10. ASSUME NEW size \in Sizes, NEW b \in Byte, WriteBegin(self, size, b) PROVE BufInv'
      <3>1. Clipped(size, w_locate) \in Nat /\ Clipped(size, w_locate) <= size
        BY SizeAssumption, SizesAssumption DEF Clipped, DevInv, TypeOK, Cell
      <3>2. got' \in Seq(Entry) /\ sent' \in Seq(Value)
        BY <2>10 DEF WriteBegin
      <3>3. /\ [k \in 1 .. size |-> b] \in Seq(Value)
            /\ Len([k \in 1 .. size |-> b]) = size
        BY SizesAssumption DEF Value
      <3>4. ubuf' \in [Proc -> Seq(Value)] /\ Len(ubuf'[self]) >= count'[self]
        BY <2>10, <3>1, <3>3, SizesAssumption DEF WriteBegin
      <3>5. \A q \in Proc \ {self} :
              ubuf'[q] = ubuf[q] /\ pc'[q] = pc[q] /\ done'[q] = done[q] /\ count'[q] = count[q]
        BY <2>10 DEF WriteBegin, Begin
      <3> QED BY <2>10, <3>2, <3>4, <3>5 DEF WriteBegin, Begin
    <2>11. CASE WriteByte(self)
      <3>1. data' \in [Cell -> Value]
        <4>1. ubuf[self][done[self] + 1] \in Value
          BY <2>11 DEF WriteByte
        <4> QED BY <2>11, <4>1 DEF WriteByte
      <3> QED BY <2>11, <3>1 DEF WriteByte, history
    <2>12. CASE WriteFault(self)
      BY <2>12 DEF WriteFault, Return, locals, offsets, history, Value
    <2>13. CASE WriteCopied(self)
      BY <2>13 DEF WriteCopied, locals, offsets, history
    <2>14. CASE WriteLoad(self)
      BY <2>14 DEF WriteLoad, locals, offsets, history
    <2>15. CASE WriteStore(self)
      <3>1. sent' \in Seq(Value)
        BY <2>15, NewBytes DEF WriteStore
      <3> QED BY <2>15, <3>1 DEF WriteStore, Return
    <2> QED BY <1>3, <2>1, <2>2, <2>3, <2>4, <2>5, <2>6, <2>7, <2>8, <2>9,
               <2>10, <2>11, <2>12, <2>13, <2>14, <2>15 DEF Call
  <1>4. CASE UNCHANGED vars
    BY <1>4 DEF vars, locals, offsets, history
  <1> QED BY <1>1, <1>2, <1>3, <1>4 DEF Next

\* Without overlap the call under way works where the offsets point, and moves them by what it has moved.
LEMMA PlaceStep ==
  ASSUME DevInv, LoadInv, BufInv, QuietPlace, [Next]_vars PROVE QuietPlace'
  <1>0. pc \in [Proc -> Calls] /\ p \in [Proc -> Cell] /\ temp \in [Proc -> Cell]
    BY DEF DevInv, TypeOK
  <1> USE <1>0 DEF QuietPlace, PlaceInv, Calls, Reading, Writing
  <1>00. Place(0) = 0
    BY SizeAssumption DEF Place
  <1>1. CASE mydev_init
    BY <1>00, <1>1 DEF mydev_init, locals, LoadInv
  <1>2. CASE mydev_exit
    BY <1>2 DEF mydev_exit, locals, offsets, history
  <1>3. ASSUME NEW self \in Proc, Call(self) PROVE QuietPlace'
    <2>1. CASE OpenResetsRead(self)
      BY <1>00, <2>1 DEF OpenResetsRead, locals, offsets, history, Others
    <2>2. CASE OpenResetsWrite(self)
      <3>1. CASE overlap
        BY <2>2, <3>1 DEF OpenResetsWrite, locals, history
      <3>2. CASE ~overlap
        <4>0. sent = <<>>
          BY <2>2, <3>2 DEF OpenResetsWrite
        <4>1. Place(Len(sent)) = 0
          BY <1>00, <4>0
        <4>2. \A q \in Proc : pc'[q] = "idle"
          BY <2>2, <3>2 DEF OpenResetsWrite
        <4> QED BY <2>2, <3>2, <4>1, <4>2 DEF OpenResetsWrite, locals, history
      <3> QED BY <3>1, <3>2
    <2>3. CASE mydev_release(self)
      BY <2>3 DEF mydev_release, locals, offsets, history
    <2>4. ASSUME NEW size \in Sizes, ReadBegin(self, size) PROVE QuietPlace'
      BY <2>4 DEF ReadBegin, Begin, offsets, Others
    <2>5. CASE ReadByte(self)
      BY <2>5 DEF ReadByte, locals, offsets, history
    <2>6. CASE ReadFault(self)
      BY <2>6 DEF ReadFault, Return, locals, offsets, history
    <2>7. CASE ReadCopied(self)
      BY <2>7 DEF ReadCopied, locals, offsets, history
    <2>8. CASE ReadLoad(self)
      BY <2>8 DEF ReadLoad, locals, offsets, history
    <2>9. CASE ReadStore(self)
      <3>1. CASE overlap
        BY <2>9, <3>1 DEF ReadStore, Return
      <3>2. CASE ~overlap
        <4>1. got' \in Seq(Entry) /\ Len(got') = Len(got) + count[self]
          BY <2>9, <3>2, NewEntries DEF ReadStore
        <4>2. Advanced(self) = Place(Len(got'))
          <5>0. temp[self] = Place(Len(got))
            BY <2>9, <3>2 DEF ReadStore
          <5>1. Advanced(self) = ((Len(got) % N) + count[self]) % N
            BY ONLY <5>0 DEF Place, Advanced
          <5>2. Len(got) \in Nat /\ count[self] \in Nat
            BY DEF DevInv, TypeOK, BufInv
          <5>3. ((Len(got) % N) + count[self]) % N = (Len(got) + count[self]) % N
            BY <5>2, WrapEarly
          <5> QED BY ONLY <4>1, <5>1, <5>3 DEF Place
        <4>3. \A q \in Proc : pc'[q] = "idle"
          BY <2>9, <3>2 DEF ReadStore, Return
        <4>4. r_locate' = Place(Len(got'))
          BY <2>9, <4>2 DEF ReadStore
        <4>5. w_locate' = Place(Len(sent'))
          BY <2>9, <3>2 DEF ReadStore
        <4> QED BY <4>3, <4>4, <4>5
      <3> QED BY <3>1, <3>2
    <2>10. ASSUME NEW size \in Sizes, NEW b \in Byte, WriteBegin(self, size, b) PROVE QuietPlace'
      BY <2>10 DEF WriteBegin, Begin, offsets, Others
    <2>11. CASE WriteByte(self)
      BY <2>11 DEF WriteByte, locals, offsets, history
    <2>12. CASE WriteFault(self)
      BY <2>12 DEF WriteFault, Return, locals, offsets, history
    <2>13. CASE WriteCopied(self)
      BY <2>13 DEF WriteCopied, locals, offsets, history
    <2>14. CASE WriteLoad(self)
      BY <2>14 DEF WriteLoad, locals, offsets, history
    <2>15. CASE WriteStore(self)
      <3>1. CASE overlap
        BY <2>15, <3>1 DEF WriteStore, Return
      <3>2. CASE ~overlap
        <4>1. sent' \in Seq(Value) /\ Len(sent') = Len(sent) + count[self]
          BY <2>15, <3>2, NewBytes DEF WriteStore
        <4>2. Advanced(self) = Place(Len(sent'))
          <5>0. temp[self] = Place(Len(sent))
            BY <2>15, <3>2 DEF WriteStore
          <5>1. Advanced(self) = ((Len(sent) % N) + count[self]) % N
            BY ONLY <5>0 DEF Place, Advanced
          <5>2. Len(sent) \in Nat /\ count[self] \in Nat
            BY DEF DevInv, TypeOK, BufInv
          <5>3. ((Len(sent) % N) + count[self]) % N = (Len(sent) + count[self]) % N
            BY <5>2, WrapEarly
          <5> QED BY ONLY <4>1, <5>1, <5>3 DEF Place
        <4>3. \A q \in Proc : pc'[q] = "idle"
          BY <2>15, <3>2 DEF WriteStore, Return
        <4>4. w_locate' = Place(Len(sent'))
          BY <2>15, <4>2 DEF WriteStore
        <4>5. r_locate' = Place(Len(got'))
          BY <2>15, <3>2 DEF WriteStore
        <4> QED BY <4>3, <4>4, <4>5
      <3> QED BY <3>1, <3>2
    <2> QED BY <1>3, <2>1, <2>2, <2>3, <2>4, <2>5, <2>6, <2>7, <2>8, <2>9,
               <2>10, <2>11, <2>12, <2>13, <2>14, <2>15 DEF Call
  <1>4. CASE UNCHANGED vars
    BY <1>4 DEF vars, locals, offsets, history
  <1> QED BY <1>1, <1>2, <1>3, <1>4 DEF Next

\* What PlaceInv says about two calls.
LEMMA OneCall ==
  ASSUME QuietPlace, ~overlap, NEW q \in Proc, NEW r \in Proc,
         pc[q] # "idle", pc[r] # "idle"
  PROVE  q = r
  BY DEF QuietPlace, PlaceInv

\* Where a write without overlap puts its next byte.
LEMMA WritePlace ==
  ASSUME DevInv, BufInv, QuietPlace, ~overlap, NEW q \in Proc, pc[q] \in Writing, Len(sent) < N
  PROVE  p[q] = Len(sent)
  <1>1. \A r \in Proc : pc[r] # "open"
    BY OneCall DEF Writing
  <1>2. p[q] = Len(sent) % N
    BY <1>1 DEF QuietPlace, PlaceInv, Place
  <1>3. Len(sent) \in 0 .. N - 1
    BY SizeAssumption DEF BufInv
  <1> QED BY <1>2, <1>3, SizeAssumption

\* Where a read without overlap takes its next byte from.
LEMMA ReadPlace ==
  ASSUME DevInv, BufInv, QuietPlace, ~overlap, NEW q \in Proc, pc[q] \in Reading, Len(got) < N
  PROVE  p[q] = Len(got)
  <1>1. p[q] = Len(got) % N
    BY DEF QuietPlace, PlaceInv, Place
  <1>2. Len(got) \in 0 .. N - 1
    BY SizeAssumption DEF BufInv
  <1> QED BY <1>1, <1>2, SizeAssumption

\* Without overlap nobody disturbs the bytes the call under way has moved.
LEMMA MovedStep ==
  ASSUME DevInv, LoadInv, BufInv, QuietPlace, QuietMoved, [Next]_vars PROVE QuietMoved'
  <1> USE SizeAssumption, SizesAssumption DEF QuietMoved, MovedInv, Reading, Writing
  <1>t. /\ pc \in [Proc -> Calls] /\ p \in [Proc -> Cell] /\ done \in [Proc -> Nat] /\ count \in [Proc -> Nat]
        /\ ubuf \in [Proc -> Seq(Value)] /\ data \in [Cell -> Value]
    BY DEF DevInv, TypeOK, BufInv
  <1>1. CASE mydev_init
    BY <1>1 DEF mydev_init, locals, LoadInv
  <1>2. CASE mydev_exit
    BY <1>2 DEF mydev_exit, locals, offsets, history
  <1>3. ASSUME NEW self \in Proc, Call(self) PROVE QuietMoved'
    <2>1. CASE OpenResetsRead(self)
      BY <1>t, <2>1 DEF OpenResetsRead, locals, offsets, history, Others
    <2>2. CASE OpenResetsWrite(self)
      BY <1>t, <2>2 DEF OpenResetsWrite, locals, offsets, history
    <2>3. CASE mydev_release(self)
      BY <1>t, <2>3 DEF mydev_release, locals, offsets, history
    <2>4. ASSUME NEW size \in Sizes, ReadBegin(self, size) PROVE QuietMoved'
      <3>1. ~overlap' => \A q \in Proc \ {self} : pc'[q] = "idle"
        BY <1>t, <2>4 DEF ReadBegin, Begin, Others
      <3>2. done'[self] = 0
        BY <1>t, <2>4 DEF ReadBegin
      <3> QED BY <3>1, <3>2
    <2>5. CASE ReadByte(self)
      <3>0. data' = data /\ p' = p /\ pc' = pc /\ overlap' = overlap
        BY <2>5 DEF ReadByte, history
      <3> SUFFICES ASSUME ~overlap, NEW q \in Proc, pc[q] \in Reading \cup Writing,
                          NEW j \in 1 .. done'[q]
                   PROVE  ubuf'[q][j] = data[p[q] + j - 1]
        BY <3>0
      <3>1. q = self
        BY <2>5, OneCall DEF ReadByte
      <3>2. Len(ubuf[self]) = done[self] /\ ubuf[self] \in Seq(Value)
        BY <1>t, <2>5 DEF ReadByte, BufInv
      <3>3. ubuf'[self] = Append(ubuf[self], data[p[self] + done[self]]) /\ done'[self] = done[self] + 1
        BY <1>t, <2>5 DEF ReadByte
      <3>4. CASE j = done[self] + 1
        BY <1>t, <3>1, <3>2, <3>3, <3>4 DEF Cell
      <3>5. CASE j \in 1 .. done[self]
        <4>1. ubuf[self][j] = data[p[self] + j - 1]
          BY <2>5, <3>5 DEF ReadByte
        <4>2. data[p[self] + done[self]] \in Value
          <5>1. p[self] + done[self] \in Cell
            BY <1>t, <2>5, SMTT(20) DEF ReadByte, DevInv, CopyInBounds, Cell
          <5> QED BY ONLY <5>1, BufInv DEF BufInv
        <4>3. ubuf'[self][j] = ubuf[self][j]
          BY <3>2, <3>3, <3>5, <4>2
        <4> QED BY <3>1, <4>1, <4>3
      <3>6. done[self] \in Nat /\ j \in 1 .. done[self] + 1
        BY <1>t, <3>1, <3>3
      <3>7. j = done[self] + 1 \/ j \in 1 .. done[self]
        BY <3>6
      <3> QED BY <3>4, <3>5, <3>7
    <2>6. CASE ReadFault(self)
      BY <1>t, <2>6 DEF ReadFault, Return, locals, offsets, history
    <2>7. CASE ReadCopied(self)
      BY <1>t, <2>7 DEF ReadCopied, locals, offsets, history
    <2>8. CASE ReadLoad(self)
      BY <1>t, <2>8 DEF ReadLoad, locals, offsets, history
    <2>9. CASE ReadStore(self)
      BY <1>t, <2>9 DEF ReadStore, Return, locals, offsets, history
    <2>10. ASSUME NEW size \in Sizes, NEW b \in Byte, WriteBegin(self, size, b) PROVE QuietMoved'
      <3>1. ~overlap' => \A q \in Proc \ {self} : pc'[q] = "idle"
        BY <1>t, <2>10 DEF WriteBegin, Begin, Others
      <3>2. done'[self] = 0
        BY <1>t, <2>10 DEF WriteBegin
      <3> QED BY <3>1, <3>2
    <2>11. CASE WriteByte(self)
      <3> SUFFICES ASSUME ~overlap, NEW q \in Proc, pc[q] \in Reading \cup Writing,
                          NEW j \in 1 .. done'[q]
                   PROVE  ubuf[q][j] = data'[p[q] + j - 1]
        BY <2>11 DEF WriteByte, history
      <3>1. q = self
        BY <2>11, OneCall DEF WriteByte
      <3>2. done'[self] = done[self] + 1 /\ p[self] + done[self] \in Cell
        BY <1>t, <2>11 DEF WriteByte, DevInv, CopyInBounds, Cell
      <3>3. CASE j = done[self] + 1
        BY <1>t, <2>11, <3>1, <3>2, <3>3 DEF WriteByte, Cell
      <3>4. CASE j \in 1 .. done[self]
        <4>1. ubuf[self][j] = data[p[self] + j - 1]
          BY <2>11, <3>4 DEF WriteByte
        <4>2. p[self] + j - 1 # p[self] + done[self]
          BY <1>t, <3>4 DEF Cell
        <4>3. data'[p[self] + j - 1] = data[p[self] + j - 1]
          BY <1>t, <2>11, <4>2 DEF WriteByte
        <4> QED BY <3>1, <4>1, <4>3
      <3> QED BY <1>t, <3>1, <3>2, <3>3, <3>4
    <2>12. CASE WriteFault(self)
      <3>1. ~overlap => \A q \in Proc : pc'[q] = "idle"
        BY <1>t, <2>12, OneCall DEF WriteFault, Return
      <3> QED BY <2>12, <3>1 DEF WriteFault, history
    <2>13. CASE WriteCopied(self)
      BY <1>t, <2>13 DEF WriteCopied, locals, offsets, history
    <2>14. CASE WriteLoad(self)
      BY <1>t, <2>14 DEF WriteLoad, locals, offsets, history
    <2>15. CASE WriteStore(self)
      BY <1>t, <2>15 DEF WriteStore, Return, locals, offsets, history
    <2> QED BY <1>3, <2>1, <2>2, <2>3, <2>4, <2>5, <2>6, <2>7, <2>8, <2>9,
               <2>10, <2>11, <2>12, <2>13, <2>14, <2>15 DEF Call
  <1>4. CASE UNCHANGED vars
    BY <1>4 DEF vars, locals, offsets, history
  <1> QED BY <1>1, <1>2, <1>3, <1>4 DEF Next

\* Without overlap a write touches only what lies behind the bytes written before, until it comes to the end of the buffer.
LEMMA PrefixStep ==
  ASSUME DevInv, LoadInv, BufInv, QuietPlace, QuietMoved, QuietPrefix, [Next]_vars PROVE QuietPrefix'
  <1> USE SizeAssumption, SizesAssumption DEF QuietPrefix, PrefixInv
  <1>t. /\ pc \in [Proc -> Calls] /\ p \in [Proc -> Cell] /\ done \in [Proc -> Nat] /\ count \in [Proc -> Nat]
        /\ ubuf \in [Proc -> Seq(Value)] /\ data \in [Cell -> Value]
        /\ sent \in Seq(Value) /\ got \in Seq(Entry)
    BY DEF DevInv, TypeOK, BufInv
  <1>1. CASE mydev_init
    BY <1>1 DEF mydev_init, locals
  <1>2. CASE mydev_exit
    BY <1>2 DEF mydev_exit, locals, offsets, history
  <1>3. ASSUME NEW self \in Proc, Call(self) PROVE QuietPrefix'
    <2>1. CASE OpenResetsRead(self)
      BY <1>t, <2>1 DEF OpenResetsRead, locals, offsets, history, Others
    <2>2. CASE OpenResetsWrite(self)
      BY <1>t, <2>2 DEF OpenResetsWrite, locals, offsets, history
    <2>3. CASE mydev_release(self)
      BY <1>t, <2>3 DEF mydev_release, locals, offsets, history
    <2>4. ASSUME NEW size \in Sizes, ReadBegin(self, size) PROVE QuietPrefix'
      BY <1>t, <2>4 DEF ReadBegin, Begin, offsets, Others
    <2>5. CASE ReadByte(self)
      BY <1>t, <2>5 DEF ReadByte, locals, offsets, history
    <2>6. CASE ReadFault(self)
      BY <1>t, <2>6 DEF ReadFault, Return, locals, offsets, history
    <2>7. CASE ReadCopied(self)
      BY <1>t, <2>7 DEF ReadCopied, locals, offsets, history
    <2>8. CASE ReadLoad(self)
      BY <1>t, <2>8 DEF ReadLoad, locals, offsets, history
    <2>9. CASE ReadStore(self)
      BY <1>t, <2>9 DEF ReadStore, Return, locals, offsets, history
    <2>10. ASSUME NEW size \in Sizes, NEW b \in Byte, WriteBegin(self, size, b) PROVE QuietPrefix'
      BY <1>t, <2>10 DEF WriteBegin, Begin, offsets, Others
    <2>11. CASE WriteByte(self)
      <3> SUFFICES ASSUME ~overlap, Len(sent) < N, NEW i \in 1 .. Len(sent)
                   PROVE  data'[i - 1] = sent[i]
        BY <2>11 DEF WriteByte, history
      <3>1. p[self] = Len(sent)
        BY <2>11, WritePlace DEF WriteByte, Writing
      <3>2. i - 1 # p[self] + done[self] /\ i - 1 \in Cell
        BY <1>t, <3>1 DEF Cell
      <3>3. data'[i - 1] = data[i - 1]
        BY <1>t, <2>11, <3>2 DEF WriteByte
      <3> QED BY <3>3
    <2>12. CASE WriteFault(self)
      <3> SUFFICES ASSUME ~overlap, Len(sent) < N, NEW i \in 1 .. Len(sent)
                   PROVE  data'[i - 1] = sent[i]
        BY <2>12 DEF WriteFault, history
      <3>1. p[self] = Len(sent)
        BY <2>12, WritePlace DEF WriteFault, Writing
      <3>2. i - 1 \notin p[self] + done[self] .. p[self] + count[self] - 1 /\ i - 1 \in Cell
        BY <1>t, <3>1 DEF Cell
      <3>3. data'[i - 1] = data[i - 1]
        BY <2>12, <3>2 DEF WriteFault
      <3> QED BY <3>3
    <2>13. CASE WriteCopied(self)
      BY <1>t, <2>13 DEF WriteCopied, locals, offsets, history
    <2>14. CASE WriteLoad(self)
      BY <1>t, <2>14 DEF WriteLoad, locals, offsets, history
    <2>15. CASE WriteStore(self)
      <3> SUFFICES ASSUME ~overlap, Len(sent') < N, NEW i \in 1 .. Len(sent')
                   PROVE  data[i - 1] = sent'[i]
        BY <2>15 DEF WriteStore
      <3>1. /\ Len(sent') = Len(sent) + count[self]
            /\ \A k \in 1 .. Len(sent) : sent'[k] = sent[k]
            /\ \A k \in 1 .. count[self] : sent'[Len(sent) + k] = ubuf[self][k]
        BY <2>15, NewBytes DEF WriteStore
      <3>2. Len(sent) \in Nat /\ count[self] \in Nat /\ Len(sent) < N
        BY <1>t, <3>1
      <3>3. CASE i \in 1 .. Len(sent)
        BY <3>1, <3>2, <3>3
      <3>4. CASE i \in Len(sent) + 1 .. Len(sent) + count[self]
        <4>1. p[self] = Len(sent) /\ done[self] = count[self]
          BY <2>15, <3>2, WritePlace DEF WriteStore, Writing, BufInv
        <4>0. i - Len(sent) \in 1 .. done[self]
          BY ONLY <3>2, <3>4, <4>1
        <4>2. ubuf[self][i - Len(sent)] = data[p[self] + (i - Len(sent)) - 1]
          BY <2>15, <4>0 DEF WriteStore, Writing, QuietMoved, MovedInv
        <4>3. sent'[Len(sent) + (i - Len(sent))] = ubuf[self][i - Len(sent)]
          BY <3>1, <4>0, <4>1
        <4>4. Len(sent) + (i - Len(sent)) = i /\ p[self] + (i - Len(sent)) - 1 = i - 1
          BY ONLY <3>2, <3>4, <4>1
        <4> QED BY <2>15, <4>2, <4>3, <4>4 DEF WriteStore
      <3> QED BY <3>1, <3>2, <3>3, <3>4
    <2> QED BY <1>3, <2>1, <2>2, <2>3, <2>4, <2>5, <2>6, <2>7, <2>8, <2>9,
               <2>10, <2>11, <2>12, <2>13, <2>14, <2>15 DEF Call
  <1>4. CASE UNCHANGED vars
    BY <1>4 DEF vars, locals, offsets, history
  <1> QED BY <1>1, <1>2, <1>3, <1>4 DEF Next

\* A completed read adds bytes that are the corresponding bytes written.
LEMMA BackStep ==
  ASSUME DevInv, LoadInv, BufInv, QuietPlace, QuietMoved, QuietPrefix, BackInv, [Next]_vars PROVE BackInv'
  <1> USE SizeAssumption, SizesAssumption DEF BackInv
  <1>t. /\ pc \in [Proc -> Calls] /\ p \in [Proc -> Cell] /\ done \in [Proc -> Nat] /\ count \in [Proc -> Nat]
        /\ ubuf \in [Proc -> Seq(Value)] /\ data \in [Cell -> Value]
        /\ sent \in Seq(Value) /\ got \in Seq(Entry)
    BY DEF DevInv, TypeOK, BufInv
  <1>1. CASE mydev_init
    BY <1>1 DEF mydev_init, locals
  <1>2. CASE mydev_exit
    BY <1>2 DEF mydev_exit, locals, offsets, history
  <1>3. ASSUME NEW self \in Proc, Call(self) PROVE BackInv'
    <2>1. CASE OpenResetsRead(self)
      BY <1>t, <2>1 DEF OpenResetsRead, locals, offsets, history, Others
    <2>2. CASE OpenResetsWrite(self)
      BY <1>t, <2>2 DEF OpenResetsWrite, locals, offsets, history
    <2>3. CASE mydev_release(self)
      BY <1>t, <2>3 DEF mydev_release, locals, offsets, history
    <2>4. ASSUME NEW size \in Sizes, ReadBegin(self, size) PROVE BackInv'
      BY <1>t, <2>4 DEF ReadBegin, Begin, offsets, Others
    <2>5. CASE ReadByte(self)
      BY <1>t, <2>5 DEF ReadByte, locals, offsets, history
    <2>6. CASE ReadFault(self)
      BY <1>t, <2>6 DEF ReadFault, Return, locals, offsets, history
    <2>7. CASE ReadCopied(self)
      BY <1>t, <2>7 DEF ReadCopied, locals, offsets, history
    <2>8. CASE ReadLoad(self)
      BY <1>t, <2>8 DEF ReadLoad, locals, offsets, history
    <2>9. CASE ReadStore(self)
      <3>1. CASE overlap
        BY <2>9, <3>1 DEF ReadStore
      <3>2. CASE ~overlap
        <4> SUFFICES ASSUME NEW i \in 1 .. Len(got')
                     PROVE  /\ got'[i].had <= Len(sent)
                            /\ got'[i].had \in i .. N - 1 => got'[i].byte = sent[i]
          BY <2>9 DEF ReadStore
        <4>1. /\ got' \in Seq(Entry) /\ Len(got') = Len(got) + count[self]
              /\ \A k \in 1 .. Len(got) : got'[k] = got[k]
              /\ \A k \in 1 .. count[self] :
                   got'[Len(got) + k] = [byte |-> ubuf[self][k], had |-> Len(sent)]
          BY <2>9, <3>2, NewEntries DEF ReadStore
        <4>2. Len(got) \in Nat /\ count[self] \in Nat /\ Len(sent) \in Nat
          BY <1>t
        <4>3. CASE i \in 1 .. Len(got)
          BY <1>t, <4>1, <4>3
        <4>4. CASE i \in Len(got) + 1 .. Len(got) + count[self]
          <5> DEFINE k == i - Len(got)
          <5>1. k \in 1 .. count[self] /\ i = Len(got) + k
            BY <4>2, <4>4
          <5>0. got'[Len(got) + k] = [byte |-> ubuf[self][k], had |-> Len(sent)]
            BY <4>1, <5>1
          <5>2. got'[i].byte = ubuf[self][k] /\ got'[i].had = Len(sent)
            BY <5>0, <5>1
          <5> SUFFICES ASSUME Len(sent) \in i .. N - 1 PROVE got'[i].byte = sent[i]
            BY <4>2, <5>2
          <5>3. i <= Len(sent) /\ Len(sent) < N
            BY <4>2
          <5>4. p[self] = Len(got) /\ done[self] = count[self]
            BY <2>9, <3>2, <4>2, <4>4, <5>3, ReadPlace DEF ReadStore, Reading, BufInv
          <5>5. ubuf[self][k] = data[p[self] + k - 1]
            BY <2>9, <3>2, <5>1, <5>4 DEF ReadStore, Reading, QuietMoved, MovedInv
          <5>6. data[i - 1] = sent[i]
            BY <3>2, <4>2, <4>4, <5>3 DEF QuietPrefix, PrefixInv
          <5>7. p[self] + k - 1 = i - 1
            BY <4>2, <5>1, <5>4
          <5> QED BY <5>2, <5>5, <5>6, <5>7
        <4> QED BY <4>1, <4>2, <4>3, <4>4
      <3> QED BY <3>1, <3>2
    <2>10. ASSUME NEW size \in Sizes, NEW b \in Byte, WriteBegin(self, size, b) PROVE BackInv'
      BY <1>t, <2>10 DEF WriteBegin, Begin, offsets, Others
    <2>11. CASE WriteByte(self)
      BY <1>t, <2>11 DEF WriteByte, locals, offsets, history
    <2>12. CASE WriteFault(self)
      BY <1>t, <2>12 DEF WriteFault, Return, locals, offsets, history
    <2>13. CASE WriteCopied(self)
      BY <1>t, <2>13 DEF WriteCopied, locals, offsets, history
    <2>14. CASE WriteLoad(self)
      BY <1>t, <2>14 DEF WriteLoad, locals, offsets, history
    <2>15. CASE WriteStore(self)
      <3>1. CASE overlap
        BY <2>15, <3>1 DEF WriteStore
      <3>2. CASE ~overlap
        <4> SUFFICES ASSUME NEW i \in 1 .. Len(got)
                     PROVE  /\ got[i].had <= Len(sent')
                            /\ got[i].had \in i .. N - 1 => got[i].byte = sent'[i]
          BY <2>15 DEF WriteStore
        <4>1. /\ Len(sent') = Len(sent) + count[self]
              /\ \A k \in 1 .. Len(sent) : sent'[k] = sent[k]
          BY <2>15, <3>2, NewBytes DEF WriteStore
        <4>2. Len(sent) \in Nat /\ count[self] \in Nat /\ got[i].had \in Nat /\ got[i].had <= Len(sent)
          <5>1. got[i] \in Entry
            BY <1>t
          <5> QED BY <1>t, <5>1 DEF Entry
        <4>3. got[i].had \in i .. N - 1 => i \in 1 .. Len(sent)
          BY <4>2
        <4> QED BY <4>1, <4>2, <4>3
      <3> QED BY <3>1, <3>2
    <2> QED BY <1>3, <2>1, <2>2, <2>3, <2>4, <2>5, <2>6, <2>7, <2>8, <2>9,
               <2>10, <2>11, <2>12, <2>13, <2>14, <2>15 DEF Call
  <1>4. CASE UNCHANGED vars
    BY <1>4 DEF vars, locals, offsets, history
  <1> QED BY <1>1, <1>2, <1>3, <1>4 DEF Next

\* The invariant holds at the start.
LEMMA HistInit == Init => HistInv
  <1> SUFFICES ASSUME Init PROVE HistInv
    OBVIOUS
  <1>1. DevInv
    BY DevInit
  <1>2. LoadInv /\ BufInv /\ BackInv /\ QuietMoved
    BY DEF Init, LoadInv, BufInv, BackInv, QuietMoved, MovedInv, Reading, Writing, Value
  <1>3. QuietPlace /\ QuietPrefix
    <2>1. Place(Len(<<>>)) = 0
      BY SizeAssumption DEF Place
    <2> QED BY <2>1 DEF Init, QuietPlace, PlaceInv, QuietPrefix, PrefixInv, Reading, Writing
  <1> QED BY <1>1, <1>2, <1>3 DEF HistInv

\* The invariant holds after every step.
LEMMA HistStep == HistInv /\ [Next]_vars => HistInv'
  BY DevStep, LoadStep, BufStep, PlaceStep, MovedStep, PrefixStep, BackStep DEF HistInv

\* Without overlapping calls the offsets count the bytes moved (OffsetsCount),
\* for any size of the buffer.
THEOREM OffsetsAreCounts == Spec => []OffsetsCount
  <1>1. HistInv => OffsetsCount
    BY DEF HistInv, QuietPlace, PlaceInv, Place, OffsetsCount
  <1> QED BY <1>1, HistInit, HistStep, PTL DEF Spec

\* Without overlapping calls what is read is what was written (ReadsBack).
THEOREM ReadsBackWhatWasWritten == Spec => []ReadsBack
  <1>1. HistInv => ReadsBack
    BY SMTT(20) DEF HistInv, BufInv, BackInv, ReadsBack
  <1> QED BY <1>1, HistInit, HistStep, PTL DEF Spec
============================================================================
