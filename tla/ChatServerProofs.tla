---------------------------- MODULE ChatServerProofs ----------------------------
(***************************************************************************)
(* Proofs about ChatServer, for any number of connections, any devices and *)
(* any bound on the requests.                                              *)
(***************************************************************************)
EXTENDS ChatServer, TLAPS

----------------------------------------------------------------------------
(* The invariant that holds whatever overlaps.                              *)

\* How many places of the array the main thread has ever asked for.
Reach == IF main.pc \in {"accept", "grow"} THEN main.made - 1 ELSE main.made

HasItem(c) == th[c].pc \in {"LOGIN", "SENDMSG", "GETLIST", "LOGOUT", "close",
                            "remove", "copy", "shrink", "write", "clear"}
Closed(c) == th[c].pc \in {"remove", "copy", "shrink", "write", "clear"}

\* Sizes stay within what has been added, and only beans that were added are
\* listed, run or are logged out; a bean is closed before it is taken out.
MainInv ==
  /\ main.pc # "new" => main.made > 0
  /\ main.pc \in {"grow", "store"} => main.slot < main.made

ListedInv ==
  /\ list.size <= Reach
  /\ \A k \in 0 .. Conns - 1 : list.elems[k] # None => list.elems[k] \in Added
  /\ out \subseteq Added
  /\ \A b \in out : bean[b].closed

BornInv == \A c \in Conn : th[c].pc # "unborn" <=> c \in Added

\* So do the indices and the stale copies of sizes that a thread holds; what
\* it does is what its client asked for.
ThreadInv(c) ==
  /\ th[c].pc \in {"copy", "write", "clear"} => th[c].aux < Reach
  /\ th[c].pc = "get" => th[c].i < Conns
  /\ HasItem(c) => th[c].item \in Added
  /\ Closed(c) => bean[th[c].item].closed
  /\ th[c].pc \in Actions => th[c].act = th[c].pc
  /\ th[c].pc \in {"iter", "next"} => th[c].act = "GETLIST"
  /\ th[c].pc = "close" \/ Closed(c) => th[c].act = "LOGOUT"

BaseInv == TypeOK /\ MainInv /\ ListedInv /\ BornInv /\ \A c \in Conn : ThreadInv(c)

----------------------------------------------------------------------------
(* Devices *)

\* While ids are distinct a device is known only of a client that claimed it,
\* and a message is on its way only to such a client.
DeviceInv ==
  /\ \A c \in Conn : th[c].pc \in {"test", "get"} /\ th[c].act = "LOGIN" =>
                       <<c, th[c].dev>> \in claimed
  /\ IdsDistinct =>
       /\ ~astray
       /\ \A b \in Conn : bean[b].device # None => <<b, bean[b].device>> \in claimed
       /\ \A c \in Conn : th[c].pc = "SENDMSG" => <<th[c].item, th[c].dev>> \in claimed

----------------------------------------------------------------------------
(* The list, as long as nothing overlaps *)

\* The one thread that removes a bean has the list for itself.
Alone == \A c \in Conn : Removing(c) => ~Adding /\ \A d \in Conn \ {c} : ~Busy(d)

Taking(c) == th[c].pc \in {"shrink", "write", "clear"}

\* What the array holds between the steps of add and remove.
StillArray ==
  IF main.pc = "store"
  THEN list.size = main.slot + 1 /\ Holds(list.elems, main.slot, Present, main.slot)
  ELSE Holds(list.elems, list.size, Present, list.size)

TakenArray(c) ==
  /\ Holds(list.elems, th[c].aux, Present \ {th[c].item}, th[c].aux + 1)
  /\ list.size = IF th[c].pc = "clear" THEN th[c].aux ELSE th[c].aux + 1

ArrayInv ==
  /\ (\A c \in Conn : ~Taking(c)) => StillArray
  /\ main.pc = "grow" => main.slot = list.size
  /\ \A c \in Conn : Taking(c) => TakenArray(c)

\* The place a thread has found stays the place of its bean.
PlaceOf(c) ==
  /\ HasItem(c) /\ ~Taking(c) => th[c].i < list.size /\ list.elems[th[c].i] = th[c].item
  /\ th[c].pc = "copy" => th[c].aux = list.size - 1
  /\ th[c].pc = "get" => th[c].i < list.size

ListOk == main.pc # "ended" /\ Alone /\ ArrayInv /\ \A c \in Conn : PlaceOf(c)
ListInv == ~overlap => ListOk

----------------------------------------------------------------------------
(* Why threads survive *)

\* A closed bean is out, or about to be.
ClosedInv ==
  \A b \in Conn : bean[b].closed => b \in out \/ \E c \in Conn : Closed(c) /\ th[c].item = b

\* A LOGIN has not yet passed the bean of its own connection.
AheadOf(c) ==
  th[c].pc \in {"test", "get"} /\ th[c].act = "LOGIN" /\ c \notin out =>
    \E k \in th[c].i .. list.size - 1 : list.elems[k] = c

\* Nobody has changed the list under an iterator.
IterOf(c) ==
  /\ th[c].pc \in {"iter", "next"} => th[c].aux = list.mod /\ th[c].i <= list.size
  /\ th[c].pc = "next" => th[c].i < list.size

Survives(c) == th[c].pc = "dead" => bean[c].closed

LifeOk ==
  /\ ClosedInv /\ (\A c \in Conn : AheadOf(c)) /\ (Early => early)
  /\ ~early => \A c \in Conn : IterOf(c) /\ Survives(c)
LifeInv == ~overlap => LifeOk

----------------------------------------------------------------------------
(* What each action does, in terms of the fields it changes *)

DevType == Devices \cup {None}
IndexType == 0 .. Conns
ItemType == Conn \cup {None}
ThreadType == [pc : Pcs, act : Actions, dev : DevType, i : IndexType, item : ItemType, aux : Int]
ArrayType == [0 .. Conns - 1 -> ItemType]
ListType == [elems : ArrayType, size : Int, mod : Nat]
IdType == Seconds \cup {None}
BeanType == [id : IdType, device : DevType, closed : BOOLEAN]

LEMMA Types ==
  ASSUME TypeOK
  PROVE  /\ th \in [Conn -> ThreadType] /\ list \in ListType /\ bean \in [Conn -> BeanType]
         /\ Conns \in Nat \ {0} /\ main.made \in 0 .. Conns /\ main.slot \in Int
  BY ChatAssumption
  DEF TypeOK, ThreadType, IndexType, ItemType, DevType, ListType, ArrayType, BeanType, IdType

LEMMA ThreadFields ==
  ASSUME TypeOK, NEW c \in Conn
  PROVE  /\ th[c] \in ThreadType /\ th[c].pc \in Pcs /\ th[c].act \in Actions /\ th[c].act \in Pcs
         /\ th[c].dev \in DevType /\ th[c].item \in ItemType /\ th[c].i \in IndexType
         /\ th[c].i \in Int /\ 0 <= th[c].i /\ th[c].i <= Conns /\ th[c].aux \in Int
  <1>1. /\ th[c] \in ThreadType /\ th[c].pc \in Pcs /\ th[c].act \in Actions
        /\ th[c].dev \in DevType /\ th[c].item \in ItemType /\ th[c].i \in IndexType
        /\ th[c].aux \in Int
    BY Types DEF ThreadType
  <1> QED BY <1>1, Types DEF IndexType, Pcs

\* A step of thread c alone: it goes on, at place i with bean item, or rests.
Only(c) == th' \in [Conn -> ThreadType] /\ \A d \in Conn \ {c} : th'[d] = th[d]
Takes(c, pc, i, item, aux) ==
  /\ Only(c)
  /\ th'[c].pc = pc /\ th'[c].act = th[c].act /\ th'[c].dev = th[c].dev
  /\ th'[c].i = i /\ th'[c].item = item /\ th'[c].aux = aux
Goes(c, pc) == Takes(c, pc, th[c].i, th[c].item, th[c].aux)
Rested(c, pc) == Only(c) /\ th'[c].pc = pc

LEMMA GotoEffect ==
  ASSUME TypeOK, NEW c \in Conn, NEW pc \in Pcs, Goto(c, pc)
  PROVE  Goes(c, pc)
  BY Types DEF Goto, Goes, Takes, Only, ThreadType

LEMMA Rests ==
  ASSUME NEW pc \in Pcs
  PROVE  Resting(pc) \in ThreadType /\ Resting(pc).pc = pc /\ Resting(pc).i = 0
  <1>1. 0 \in DevType /\ 0 \in IndexType /\ 0 \in ItemType /\ "LOGIN" \in Actions /\ 0 \in Int
    BY ChatAssumption DEF Actions, DevType, IndexType, ItemType, None
  <1> QED BY <1>1 DEF Resting, ThreadType, None

LEMMA RestEffect ==
  ASSUME TypeOK, NEW c \in Conn, NEW pc \in Pcs, th' = [th EXCEPT ![c] = Resting(pc)]
  PROVE  Rested(c, pc)
  BY Rests, Types DEF Rested, Only

LEMMA ReturnEffect ==
  ASSUME TypeOK, NEW c \in Conn, Return(c) PROVE Rested(c, "idle")
  BY RestEffect DEF Return, Pcs

LEMMA ThrowEffect ==
  ASSUME TypeOK, NEW c \in Conn, Throw(c) PROVE Rested(c, "dead")
  BY RestEffect DEF Throw, Pcs

LEMMA RequestEffect ==
  ASSUME TypeOK, NEW c \in Conn, NEW act \in Actions, NEW dev \in Devices, Request(c, act, dev)
  PROVE  /\ Only(c) /\ th[c].pc = "idle"
         /\ th'[c].pc = "test" /\ th'[c].act = act /\ th'[c].dev = dev /\ th'[c].i = 0
  <1> DEFINE r == [Resting("test") EXCEPT !.act = act, !.dev = dev]
  <1>1. th' = [th EXCEPT ![c] = r] /\ th[c].pc = "idle"
    BY DEF Request
  <1>2. dev \in DevType /\ "test" \in Pcs
    BY DEF Pcs, DevType
  <1>3. r \in ThreadType /\ r.pc = "test" /\ r.act = act /\ r.dev = dev /\ r.i = 0
    <2>1. PICK s : s = Resting("test")
      OBVIOUS
    <2>2. s \in ThreadType /\ s.pc = "test" /\ s.i = 0
      BY <1>2, <2>1, Rests
    <2> QED BY ONLY <1>2, <2>1, <2>2, act \in Actions DEF ThreadType
  <1> HIDE DEF r
  <1> QED BY <1>1, <1>3, Types DEF Only

LEMMA LeaveEffect ==
  ASSUME TypeOK, NEW c \in Conn, Leave(c)
  PROVE  Rested(c, IF bean[c].closed THEN "dead" ELSE "gone") /\ th[c].pc = "idle"
  BY RestEffect DEF Leave, Pcs

LEMMA TestEffect ==
  ASSUME TypeOK, NEW c \in Conn, Test(c)
  PROVE  /\ th[c].pc = "test"
         /\ \/ th[c].i < list.size /\ Goes(c, "get")
            \/ ~(th[c].i < list.size) /\ Rested(c, "idle")
  <1>1. "get" \in Pcs
    BY DEF Pcs
  <1> QED BY <1>1, GotoEffect, ReturnEffect, Zenon DEF Test

\* The bean a thread reads.
GotBean(c) == list.elems[th[c].i]
GetFails(c) == \/ th[c].i >= list.size \/ GotBean(c) = None
               \/ /\ GotBean(c) # None /\ AsksDevice(c, GotBean(c))
                  /\ bean[GotBean(c)].device = None
GetHits(c) == /\ ~GetFails(c) /\ Hit(c, GotBean(c))
              /\ Takes(c, th[c].act, th[c].i, GotBean(c), th[c].aux)
              /\ bean' = IF th[c].act = "LOGIN"
                         THEN [bean EXCEPT ![GotBean(c)].device = th[c].dev] ELSE bean
GetMisses(c) == /\ ~GetFails(c) /\ ~Hit(c, GotBean(c)) /\ UNCHANGED bean
                /\ Takes(c, "test", th[c].i + 1, th[c].item, th[c].aux)

LEMMA GetEffect ==
  ASSUME TypeOK, NEW c \in Conn, ThreadInv(c), Get(c)
  PROVE  /\ th[c].pc = "get" /\ th[c].i \in 0 .. Conns - 1 /\ GotBean(c) \in ItemType
         /\ \/ GetFails(c) /\ Rested(c, "dead") /\ UNCHANGED bean
            \/ GetHits(c)
            \/ GetMisses(c)
  <1>1. th[c].pc = "get" /\ th[c].i \in 0 .. Conns - 1 /\ th[c].i + 1 \in IndexType
    BY Types, ThreadFields DEF ThreadInv, Get, IndexType
  <1>2. GotBean(c) \in ItemType /\ "test" \in Pcs
    BY <1>1, Types DEF GotBean, ListType, ArrayType, Pcs
  <1>3. CASE GetFails(c) /\ Throw(c) /\ UNCHANGED bean
    BY <1>1, <1>2, <1>3, ThrowEffect
  <1>4. CASE /\ ~GetFails(c) /\ Hit(c, GotBean(c))
             /\ th' = [th EXCEPT ![c].pc = th[c].act, ![c].item = GotBean(c)]
             /\ bean' = IF th[c].act = "LOGIN"
                        THEN [bean EXCEPT ![GotBean(c)].device = th[c].dev] ELSE bean
    <2>1. Takes(c, th[c].act, th[c].i, GotBean(c), th[c].aux)
      BY <1>2, <1>4, Types, ThreadFields DEF Takes, Only, ThreadType
    <2> QED BY <1>1, <1>2, <1>4, <2>1, Zenon DEF GetHits
  <1>5. CASE /\ ~GetFails(c) /\ ~Hit(c, GotBean(c)) /\ UNCHANGED bean
             /\ th' = [th EXCEPT ![c].pc = "test", ![c].i = @ + 1]
    <2>1. Takes(c, "test", th[c].i + 1, th[c].item, th[c].aux)
      BY <1>1, <1>2, <1>5, Types, ThreadFields DEF Takes, Only, ThreadType
    <2> QED BY <1>1, <1>2, <1>5, <2>1, Zenon DEF GetMisses
  <1> QED BY <1>3, <1>4, <1>5, Zenon DEF Get, GetFails, GotBean

\* What a step does to the list.
ListOf(elems, size, mod) == list' \in ListType /\ list'.elems = elems /\ list'.size = size /\ list'.mod = mod

LEMMA SetEffect ==
  ASSUME TypeOK, NEW c \in Conn, Set(c)
  PROVE  /\ th[c].pc = "LOGIN"
         /\ \/ /\ th[c].i < list.size /\ Rested(c, "idle")
               /\ ListOf([list.elems EXCEPT ![th[c].i] = th[c].item], list.size, list.mod)
            \/ ~(th[c].i < list.size) /\ Rested(c, "dead") /\ UNCHANGED list
  <1>1. CASE th[c].i < list.size
    <2>1. Rested(c, "idle") /\ list' = [list EXCEPT !.elems[th[c].i] = th[c].item]
      BY <1>1, ReturnEffect DEF Set
    <2>2. [list.elems EXCEPT ![th[c].i] = th[c].item] \in ArrayType
      <3>1. list.elems \in ArrayType /\ th[c].item \in ItemType
        BY Types, ThreadFields DEF ListType
      <3> QED BY ONLY <3>1 DEF ArrayType
    <2>3. ListOf([list.elems EXCEPT ![th[c].i] = th[c].item], list.size, list.mod)
      BY <2>1, <2>2, Types DEF ListOf, ListType
    <2> QED BY <1>1, <2>1, <2>3 DEF Set
  <1>2. CASE ~(th[c].i < list.size)
    BY <1>2, ThrowEffect DEF Set
  <1> QED BY <1>1, <1>2

LEMMA DeliverEffect ==
  ASSUME TypeOK, NEW c \in Conn, Deliver(c)
  PROVE  /\ th[c].pc = "SENDMSG"
         /\ \/ bean[th[c].item].closed /\ Rested(c, "dead") /\ UNCHANGED astray
            \/ /\ ~bean[th[c].item].closed /\ Rested(c, "idle")
               /\ astray' = (astray \/ <<th[c].item, th[c].dev>> \notin claimed)
  BY ThrowEffect, ReturnEffect, Zenon DEF Deliver

LEMMA IterBeginEffect ==
  ASSUME TypeOK, NEW c \in Conn, IterBegin(c)
  PROVE  /\ th[c].pc = "GETLIST"
         /\ \/ bean[th[c].item].closed /\ Rested(c, "dead")
            \/ ~bean[th[c].item].closed /\ Takes(c, "iter", 0, th[c].item, list.mod)
  <1>1. CASE bean[th[c].item].closed
    BY <1>1, ThrowEffect DEF IterBegin
  <1>2. CASE ~bean[th[c].item].closed
    <2>1. "iter" \in Pcs /\ 0 \in IndexType /\ list.mod \in Int
      BY Types DEF Pcs, IndexType, ListType
    <2>2. th' = [th EXCEPT ![c].pc = "iter", ![c].i = 0, ![c].aux = list.mod]
      BY <1>2 DEF IterBegin
    <2>3. Takes(c, "iter", 0, th[c].item, list.mod)
      BY <2>1, <2>2, Types DEF Takes, Only, ThreadType
    <2> QED BY <1>2, <2>3 DEF IterBegin
  <1> QED BY <1>1, <1>2

LEMMA IterHasNextEffect ==
  ASSUME TypeOK, NEW c \in Conn, IterHasNext(c)
  PROVE  /\ th[c].pc = "iter"
         /\ \/ th[c].i = list.size /\ Rested(c, "idle")
            \/ th[c].i # list.size /\ Goes(c, "next")
  <1>1. "next" \in Pcs
    BY DEF Pcs
  <1> QED BY <1>1, ReturnEffect, GotoEffect, Zenon DEF IterHasNext

LEMMA IterNextEffect ==
  ASSUME TypeOK, NEW c \in Conn, IterNext(c)
  PROVE  /\ th[c].pc = "next"
         /\ \/ /\ th[c].aux = list.mod /\ th[c].i < list.size /\ list.elems[th[c].i] # None
               /\ Takes(c, "iter", th[c].i + 1, th[c].item, th[c].aux)
            \/ /\ ~(th[c].aux = list.mod /\ th[c].i < list.size /\ list.elems[th[c].i] # None)
               /\ Rested(c, "dead")
  <1> DEFINE fine == th[c].aux = list.mod /\ th[c].i < list.size /\ list.elems[th[c].i] # None
  <1>1. CASE fine
    <2>1. th[c].i + 1 \in IndexType /\ "iter" \in Pcs
      <3>1. list.size \in Int /\ list.size <= Conns
        BY Types DEF TypeOK
      <3> QED BY <1>1, <3>1, Types, ThreadFields DEF IndexType, Pcs
    <2>2. th' = [th EXCEPT ![c].pc = "iter", ![c].i = @ + 1]
      BY <1>1 DEF IterNext
    <2>3. Takes(c, "iter", th[c].i + 1, th[c].item, th[c].aux)
      BY <2>1, <2>2, Types, ThreadFields DEF Takes, Only, ThreadType
    <2> QED BY <1>1, <2>3 DEF IterNext
  <1>2. CASE ~fine
    BY <1>2, ThrowEffect DEF IterNext
  <1> QED BY <1>1, <1>2

LEMMA FarewellEffect ==
  ASSUME TypeOK, NEW c \in Conn, Farewell(c)
  PROVE  /\ th[c].pc = "LOGOUT"
         /\ \/ bean[th[c].item].closed /\ Rested(c, "dead")
            \/ ~bean[th[c].item].closed /\ Goes(c, "close")
  <1>1. "close" \in Pcs
    BY DEF Pcs
  <1> QED BY <1>1, ThrowEffect, GotoEffect, Zenon DEF Farewell

LEMMA CloseEffect ==
  ASSUME TypeOK, NEW c \in Conn, Close(c)
  PROVE  th[c].pc = "close" /\ Goes(c, "remove")
         /\ bean' = [bean EXCEPT ![th[c].item].closed = TRUE]
  <1>1. "remove" \in Pcs
    BY DEF Pcs
  <1> QED BY <1>1, GotoEffect, Zenon DEF Close

LEMMA RemoveCheckEffect ==
  ASSUME TypeOK, NEW c \in Conn, RemoveCheck(c)
  PROVE  /\ th[c].pc = "remove"
         /\ \/ /\ th[c].i < list.size
               /\ Takes(c, "copy", th[c].i, th[c].item, list.size - 1)
               /\ ListOf(list.elems, list.size, list.mod + 1)
            \/ ~(th[c].i < list.size) /\ Rested(c, "dead") /\ UNCHANGED list
  <1>1. CASE th[c].i < list.size
    <2>1. "copy" \in Pcs /\ list.size - 1 \in Int
      BY Types DEF Pcs, ListType
    <2>2. /\ th' = [th EXCEPT ![c].pc = "copy", ![c].aux = list.size - 1]
          /\ list' = [list EXCEPT !.mod = @ + 1]
      BY <1>1 DEF RemoveCheck
    <2>3. Takes(c, "copy", th[c].i, th[c].item, list.size - 1)
      BY <2>1, <2>2, Types, ThreadFields DEF Takes, Only, ThreadType
    <2>4. ListOf(list.elems, list.size, list.mod + 1)
      BY <2>2, Types DEF ListOf, ListType
    <2> QED BY <1>1, <2>3, <2>4 DEF RemoveCheck
  <1>2. CASE ~(th[c].i < list.size)
    BY <1>2, ThrowEffect DEF RemoveCheck
  <1> QED BY <1>1, <1>2

LEMMA RemoveCopyEffect ==
  ASSUME TypeOK, NEW c \in Conn, ThreadInv(c), RemoveCopy(c)
  PROVE  th[c].pc = "copy" /\ Goes(c, "shrink") /\ ListOf(Moved(c), list.size, list.mod)
  <1>1. th[c].pc = "copy" /\ "shrink" \in Pcs /\ list' = [list EXCEPT !.elems = Moved(c)]
    BY DEF RemoveCopy, Pcs
  <1>2. Goes(c, "shrink")
    BY <1>1, GotoEffect DEF RemoveCopy
  <1>3. th[c].aux < Conns
    BY <1>1, Types, ThreadFields DEF ThreadInv, Reach
  <1>4. Moved(c) \in ArrayType
    <2>1. list.elems \in ArrayType
      BY Types DEF ListType
    <2>2. th[c].i \in Int /\ 0 <= th[c].i /\ th[c].aux \in Int /\ Conns \in Nat
      BY Types, ThreadFields
    <2> QED BY ONLY <1>3, <2>1, <2>2 DEF Moved, ArrayType
  <1> QED BY <1>1, <1>2, <1>4, Types DEF ListOf, ListType

LEMMA RemoveReadEffect ==
  ASSUME TypeOK, NEW c \in Conn, RemoveRead(c)
  PROVE  th[c].pc = "shrink" /\ Takes(c, "write", th[c].i, th[c].item, list.size - 1)
  <1>1. "write" \in Pcs /\ list.size - 1 \in Int
    BY Types DEF Pcs, ListType
  <1> QED BY <1>1, Types, ThreadFields DEF RemoveRead, Takes, Only, ThreadType

LEMMA RemoveWriteEffect ==
  ASSUME TypeOK, NEW c \in Conn, RemoveWrite(c)
  PROVE  th[c].pc = "write" /\ Goes(c, "clear") /\ ListOf(list.elems, th[c].aux, list.mod)
  <1>1. th[c].pc = "write" /\ "clear" \in Pcs /\ list' = [list EXCEPT !.size = th[c].aux]
    BY DEF RemoveWrite, Pcs
  <1>2. Goes(c, "clear")
    BY <1>1, GotoEffect DEF RemoveWrite
  <1> QED BY <1>1, <1>2, Types, ThreadFields DEF ListOf, ListType

LEMMA RemoveClearEffect ==
  ASSUME TypeOK, NEW c \in Conn, RemoveClear(c)
  PROVE  /\ th[c].pc = "clear" /\ out' = out \cup {th[c].item}
         /\ \/ /\ th[c].aux \in 0 .. Conns - 1 /\ Rested(c, "idle")
               /\ ListOf([list.elems EXCEPT ![th[c].aux] = None], list.size, list.mod)
            \/ th[c].aux \notin 0 .. Conns - 1 /\ Rested(c, "dead") /\ UNCHANGED list
  <1>0. th[c].pc = "clear" /\ out' = out \cup {th[c].item} /\ DOMAIN list.elems = 0 .. Conns - 1
    BY Types DEF RemoveClear, ListType, ArrayType
  <1>1. CASE th[c].aux \in 0 .. Conns - 1
    <2>1. Rested(c, "idle") /\ list' = [list EXCEPT !.elems[th[c].aux] = None]
      BY <1>0, <1>1, ReturnEffect DEF RemoveClear
    <2>2. [list.elems EXCEPT ![th[c].aux] = None] \in ArrayType
      BY Types DEF ListType, ArrayType, ItemType
    <2>3. ListOf([list.elems EXCEPT ![th[c].aux] = None], list.size, list.mod)
      BY <2>1, <2>2, Types DEF ListOf, ListType
    <2> QED BY <1>0, <1>1, <2>1, <2>3
  <1>2. CASE th[c].aux \notin 0 .. Conns - 1
    BY <1>0, <1>2, ThrowEffect DEF RemoveClear
  <1> QED BY <1>1, <1>2

----------------------------------------------------------------------------
(* What holds whatever overlaps *)

\* The variables besides main and th have their types.
RestTyped ==
  /\ list \in ListType /\ bean \in [Conn -> BeanType] /\ requests \in Nat
  /\ astray \in BOOLEAN /\ claimed \subseteq Conn \X Devices

BeanStays == \A b \in Conn : bean[b].closed => bean'[b].closed

LEMMA AddedConns ==
  ASSUME TypeOK
  PROVE  Added \subseteq Conn /\ Added \subseteq 1 .. main.made /\ Reach \in Int /\ Reach <= main.made
  BY Types DEF Added, Conn, Reach

LEMMA BaseTyped == ASSUME TypeOK PROVE RestTyped /\ out \subseteq Conn
  BY Types DEF TypeOK, RestTyped

\* The step of one thread, by what it does to that thread and to the list.
LEMMA ThreadFrame ==
  ASSUME BaseInv, Observed, NEW c \in Conn, Only(c), UNCHANGED main, BeanStays,
         th[c].pc # "unborn", th'[c].pc # "unborn", ThreadInv(c)', ListedInv', RestTyped'
  PROVE  BaseInv'
  <1>0. TypeOK
    BY DEF BaseInv
  <1>1. Added' = Added /\ Reach' = Reach
    BY DEF Added, Reach
  <1>2. TypeOK'
    <2>1. main' = main /\ main.made \in 0 .. Conns /\ list'.size \in Int /\ list'.size <= main.made
      BY <1>0, <1>1, Types, AddedConns DEF ListedInv, RestTyped, ListType
    <2>2. overlap' \in BOOLEAN /\ early' \in BOOLEAN
      BY DEF Observed
    <2>3. out' \subseteq Conn
      BY <1>0, <1>1, AddedConns DEF ListedInv
    <2>4. th' \in [Conn -> ThreadType]
      BY DEF Only
    <2>5. /\ main' \in [pc : {"new", "accept", "grow", "store", "ended"}, made : 0 .. Conns, slot : Int]
          /\ main'.slot < Conns
      BY <1>0, <2>1 DEF TypeOK
    <2> QED BY <2>1, <2>2, <2>3, <2>4, <2>5
            DEF TypeOK, RestTyped, ThreadType, ListType, ArrayType, BeanType, ItemType, IndexType, DevType, IdType
  <1>3. MainInv'
    BY DEF BaseInv, MainInv
  <1>4. BornInv'
    BY <1>1 DEF BaseInv, BornInv, Only
  <1>5. ASSUME NEW d \in Conn PROVE ThreadInv(d)'
    <2>1. CASE d = c
      BY <2>1
    <2>2. CASE d # c
      <3>1. th'[d] = th[d] /\ ThreadInv(d)
        BY <2>2 DEF Only, BaseInv
      <3>2. HasItem(d) => (bean[th[d].item].closed => bean'[th[d].item].closed)
        BY <1>0, <3>1, AddedConns DEF BeanStays, ThreadInv
      <3> QED BY <1>1, <3>1, <3>2 DEF ThreadInv, HasItem, Closed
    <2> QED BY <2>1, <2>2
  <1> QED BY <1>2, <1>3, <1>4, <1>5 DEF BaseInv

LEMMA RestedInv ==
  ASSUME NEW c \in Conn, NEW pc \in {"idle", "dead", "gone"}, Rested(c, pc)
  PROVE  ThreadInv(c)' /\ Only(c) /\ th'[c].pc # "unborn"
  BY DEF Rested, ThreadInv, HasItem, Closed, Actions

\* The steps that change no more than the thread itself.
LEMMA ThreadFrameOwn ==
  ASSUME BaseInv, Observed, NEW c \in Conn, Only(c),
         UNCHANGED <<main, list, bean, requests, astray, claimed, out>>,
         th[c].pc # "unborn", th'[c].pc # "unborn", ThreadInv(c)'
  PROVE  BaseInv'
  <1>1. TypeOK /\ ListedInv /\ RestTyped
    BY BaseTyped DEF BaseInv
  <1>2. BeanStays
    BY DEF BeanStays
  <1>3. Added' = Added /\ Reach' = Reach
    BY DEF Added, Reach
  <1>4. ListedInv'
    BY <1>1, <1>3 DEF ListedInv
  <1>5. RestTyped'
    BY <1>1 DEF RestTyped
  <1> QED BY <1>2, <1>4, <1>5, ThreadFrame

LEMMA BaseRest ==
  ASSUME BaseInv, Observed, NEW c \in Conn, NEW pc \in {"idle", "dead", "gone"}, Rested(c, pc),
         UNCHANGED <<main, list, bean, requests, astray, claimed, out>>, th[c].pc # "unborn"
  PROVE  BaseInv'
  BY RestedInv, ThreadFrameOwn

\* The steps that leave the list and the beans alone.
LEMMA BaseWalk ==
  ASSUME BaseInv, Observed, NEW c \in Conn,
         \/ Leave(c) \/ Test(c) \/ IterBegin(c) \/ IterHasNext(c) \/ IterNext(c) \/ Farewell(c)
         \/ RemoveRead(c)
  PROVE  BaseInv'
  <1>0. TypeOK /\ ThreadInv(c)
    BY DEF BaseInv
  <1>1. UNCHANGED <<main, list, bean, requests, astray, claimed, out>>
    BY DEF Leave, Test, IterBegin, IterHasNext, IterNext, Farewell, RemoveRead
  <1>2. Reach' = Reach /\ Added' = Added
    BY <1>1 DEF Reach, Added
  <1>3. list.size <= Reach /\ list.size \in Int /\ Reach \in Int /\ Reach <= Conns /\ Conns \in Nat
    BY <1>0, Types, AddedConns DEF BaseInv, ListedInv, ListType
  <1> USE DEF Goes, Takes, ThreadInv, HasItem, Closed, Actions
  <1>4. CASE Leave(c)
    BY <1>0, <1>1, <1>4, LeaveEffect, BaseRest
  <1>5. CASE Test(c)
    <2>1. CASE Rested(c, "idle")
      BY <1>0, <1>1, <1>5, <2>1, TestEffect, BaseRest
    <2>2. CASE th[c].i < list.size /\ Goes(c, "get")
      <3>1. ThreadInv(c)'
        BY <1>0, <1>3, <2>2, ThreadFields
      <3> QED BY <1>0, <1>1, <1>5, <2>2, <3>1, TestEffect, ThreadFrameOwn
    <2> QED BY <1>0, <1>5, <2>1, <2>2, TestEffect
  <1>6. CASE IterBegin(c)
    <2>1. CASE Rested(c, "dead")
      BY <1>0, <1>1, <1>6, <2>1, IterBeginEffect, BaseRest
    <2>2. CASE Takes(c, "iter", 0, th[c].item, list.mod)
      <3>1. ThreadInv(c)'
        BY <1>0, <1>6, <2>2, IterBeginEffect
      <3> QED BY <1>0, <1>1, <1>6, <2>2, <3>1, IterBeginEffect, ThreadFrameOwn
    <2> QED BY <1>0, <1>6, <2>1, <2>2, IterBeginEffect
  <1>7. CASE IterHasNext(c)
    <2>1. CASE Rested(c, "idle")
      BY <1>0, <1>1, <1>7, <2>1, IterHasNextEffect, BaseRest
    <2>2. CASE Goes(c, "next")
      <3>1. ThreadInv(c)'
        BY <1>0, <1>7, <2>2, IterHasNextEffect
      <3> QED BY <1>0, <1>1, <1>7, <2>2, <3>1, IterHasNextEffect, ThreadFrameOwn
    <2> QED BY <1>0, <1>7, <2>1, <2>2, IterHasNextEffect
  <1>8. CASE IterNext(c)
    <2>1. CASE Rested(c, "dead")
      BY <1>0, <1>1, <1>8, <2>1, IterNextEffect, BaseRest
    <2>2. CASE Takes(c, "iter", th[c].i + 1, th[c].item, th[c].aux)
      <3>1. ThreadInv(c)'
        BY <1>0, <1>8, <2>2, IterNextEffect
      <3> QED BY <1>0, <1>1, <1>8, <2>2, <3>1, IterNextEffect, ThreadFrameOwn
    <2> QED BY <1>0, <1>8, <2>1, <2>2, IterNextEffect
  <1>9. CASE Farewell(c)
    <2>1. CASE Rested(c, "dead")
      BY <1>0, <1>1, <1>9, <2>1, FarewellEffect, BaseRest
    <2>2. CASE Goes(c, "close")
      <3>1. ThreadInv(c)'
        BY <1>0, <1>2, <1>9, <2>2, FarewellEffect
      <3> QED BY <1>0, <1>1, <1>9, <2>2, <3>1, FarewellEffect, ThreadFrameOwn
    <2> QED BY <1>0, <1>9, <2>1, <2>2, FarewellEffect
  <1>10. CASE RemoveRead(c)
    <2>1. ThreadInv(c)'
      BY <1>0, <1>1, <1>2, <1>3, <1>10, RemoveReadEffect
    <2> QED BY <1>0, <1>1, <1>10, <2>1, RemoveReadEffect, ThreadFrameOwn
  <1> QED BY <1>4, <1>5, <1>6, <1>7, <1>8, <1>9, <1>10

\* The steps that change what clients have sent or received.
LEMMA BaseRequest ==
  ASSUME BaseInv, Observed, NEW c \in Conn, NEW act \in Actions, NEW dev \in Devices,
         Request(c, act, dev)
  PROVE  BaseInv'
  <1>1. TypeOK /\ ListedInv /\ UNCHANGED <<main, list, bean, astray, out>> /\ Reach' = Reach /\ Added' = Added
    BY DEF BaseInv, Request, Reach, Added
  <1>2. BeanStays /\ ListedInv'
    BY <1>1 DEF BeanStays, ListedInv
  <1>3. RestTyped'
    BY <1>1, BaseTyped DEF RestTyped, Request
  <1>4. ThreadInv(c)'
    BY <1>1, RequestEffect DEF ThreadInv, HasItem, Closed, Actions
  <1> QED BY <1>1, <1>2, <1>3, <1>4, RequestEffect, ThreadFrame

LEMMA BaseDeliver ==
  ASSUME BaseInv, Observed, NEW c \in Conn, Deliver(c)
  PROVE  BaseInv'
  <1>1. TypeOK /\ ListedInv /\ UNCHANGED <<main, list, bean, requests, claimed, out>> /\ Reach' = Reach /\ Added' = Added
    BY DEF BaseInv, Deliver, Reach, Added
  <1>2. BeanStays /\ ListedInv'
    BY <1>1 DEF BeanStays, ListedInv
  <1>3. RestTyped'
    BY <1>1, BaseTyped, DeliverEffect DEF RestTyped
  <1>4. ThreadInv(c)' /\ Only(c) /\ th[c].pc # "unborn" /\ th'[c].pc # "unborn"
    BY <1>1, DeliverEffect, RestedInv
  <1> QED BY <1>1, <1>2, <1>3, <1>4, ThreadFrame

\* The steps that change a bean.
LEMMA BaseGet ==
  ASSUME BaseInv, Observed, NEW c \in Conn, Get(c)
  PROVE  BaseInv'
  <1>1. /\ TypeOK /\ ListedInv /\ ThreadInv(c) /\ UNCHANGED <<main, list, requests, astray, claimed, out>>
        /\ Reach' = Reach /\ Added' = Added
    BY DEF BaseInv, Get, Reach, Added
  <1>2. CASE GetFails(c) /\ Rested(c, "dead") /\ UNCHANGED bean
    BY <1>1, <1>2, GetEffect, BaseRest
  <1>3. CASE GetMisses(c)
    <2>1. Takes(c, "test", th[c].i + 1, th[c].item, th[c].aux) /\ UNCHANGED bean
      BY <1>3 DEF GetMisses
    <2>2. ThreadInv(c)' /\ Only(c) /\ th[c].pc # "unborn" /\ th'[c].pc # "unborn"
      BY <1>1, <2>1, GetEffect DEF ThreadInv, HasItem, Closed, Actions, Takes
    <2> QED BY <1>1, <2>1, <2>2, ThreadFrameOwn
  <1>4. CASE GetHits(c)
    <2>1. /\ Takes(c, th[c].act, th[c].i, GotBean(c), th[c].aux)
          /\ bean' = IF th[c].act = "LOGIN"
                     THEN [bean EXCEPT ![GotBean(c)].device = th[c].dev] ELSE bean
      BY <1>4, Zenon DEF GetHits
    <2>2. GotBean(c) # None /\ GotBean(c) \in Added /\ GotBean(c) \in Conn
      <3>1. GotBean(c) # None
        BY <1>4, Zenon DEF GetHits, GetFails
      <3>2. th[c].i \in 0 .. Conns - 1
        BY <1>1, GetEffect
      <3> QED BY <1>1, <3>1, <3>2, AddedConns DEF GotBean, ListedInv
    <2>3. bean' \in [Conn -> BeanType] /\ \A b \in Conn : bean'[b].closed = bean[b].closed
      <3>1. bean \in [Conn -> BeanType] /\ th[c].dev \in DevType
        BY <1>1, Types, ThreadFields
      <3> QED BY ONLY <2>1, <2>2, <3>1 DEF BeanType
    <2>4. ThreadInv(c)' /\ Only(c) /\ th[c].pc # "unborn" /\ th'[c].pc # "unborn"
      <3>1. th[c].act \in Actions /\ th[c].pc = "get"
        BY <1>1, GetEffect, ThreadFields
      <3>2. Only(c) /\ th'[c].pc = th[c].act /\ th'[c].act = th[c].act /\ th'[c].item = GotBean(c)
        BY <2>1 DEF Takes
      <3> QED BY ONLY <1>1, <2>2, <3>1, <3>2 DEF ThreadInv, HasItem, Closed, Actions
    <2>5. BeanStays /\ ListedInv'
      BY <1>1, <2>3, AddedConns DEF BeanStays, ListedInv
    <2>6. RestTyped'
      BY <1>1, <2>3, BaseTyped DEF RestTyped
    <2> QED BY <1>1, <2>4, <2>5, <2>6, ThreadFrame
  <1> QED BY <1>1, <1>2, <1>3, <1>4, GetEffect

LEMMA BaseClose ==
  ASSUME BaseInv, Observed, NEW c \in Conn, Close(c)
  PROVE  BaseInv'
  <1>1. /\ TypeOK /\ ListedInv /\ ThreadInv(c) /\ UNCHANGED <<main, list, requests, astray, claimed, out>>
        /\ Reach' = Reach /\ Added' = Added
    BY DEF BaseInv, Close, Reach, Added
  <1>2. /\ th[c].pc = "close" /\ Goes(c, "remove")
        /\ bean' = [bean EXCEPT ![th[c].item].closed = TRUE]
    BY <1>1, CloseEffect
  <1>3. th[c].item \in Added /\ th[c].item \in Conn
    BY <1>1, <1>2, AddedConns DEF ThreadInv, HasItem
  <1>4. /\ bean' \in [Conn -> BeanType] /\ bean'[th[c].item].closed
        /\ \A b \in Conn : bean[b].closed => bean'[b].closed
    BY <1>1, <1>2, <1>3, Types DEF BeanType
  <1>5. ThreadInv(c)' /\ Only(c) /\ th'[c].pc # "unborn"
    BY <1>1, <1>2, <1>3, <1>4 DEF ThreadInv, HasItem, Closed, Actions, Goes, Takes
  <1>6. BeanStays /\ ListedInv'
    BY <1>1, <1>4, AddedConns DEF BeanStays, ListedInv
  <1>7. RestTyped'
    BY <1>1, <1>4, BaseTyped DEF RestTyped
  <1> QED BY <1>1, <1>2, <1>5, <1>6, <1>7, ThreadFrame

\* The steps that change the list.
LEMMA BaseSet ==
  ASSUME BaseInv, Observed, NEW c \in Conn, Set(c)
  PROVE  BaseInv'
  <1>1. /\ TypeOK /\ ListedInv /\ ThreadInv(c) /\ UNCHANGED <<main, bean, requests, astray, claimed, out>>
        /\ Reach' = Reach /\ Added' = Added
    BY DEF BaseInv, Set, Reach, Added
  <1>2. CASE Rested(c, "dead") /\ UNCHANGED list
    BY <1>1, <1>2, SetEffect, BaseRest
  <1>3. CASE /\ Rested(c, "idle")
             /\ ListOf([list.elems EXCEPT ![th[c].i] = th[c].item], list.size, list.mod)
    <2>1. th[c].pc = "LOGIN" /\ th[c].item \in Added
      BY <1>1, SetEffect DEF ThreadInv, HasItem
    <2>2. list.elems \in ArrayType
      BY <1>1, Types DEF ListType
    <2>3. ListedInv'
      BY <1>1, <1>3, <2>1, <2>2 DEF ListedInv, ListOf, ArrayType
    <2>4. RestTyped' /\ BeanStays
      BY <1>1, <1>3, BaseTyped DEF RestTyped, ListOf, BeanStays
    <2> QED BY <1>1, <1>3, <2>1, <2>3, <2>4, RestedInv, ThreadFrame
  <1> QED BY <1>1, <1>2, <1>3, SetEffect

LEMMA BaseRemoveCheck ==
  ASSUME BaseInv, Observed, NEW c \in Conn, RemoveCheck(c)
  PROVE  BaseInv'
  <1>1. /\ TypeOK /\ ListedInv /\ ThreadInv(c) /\ UNCHANGED <<main, bean, requests, astray, claimed, out>>
        /\ Reach' = Reach /\ Added' = Added
    BY DEF BaseInv, RemoveCheck, Reach, Added
  <1>2. CASE Rested(c, "dead") /\ UNCHANGED list
    BY <1>1, <1>2, RemoveCheckEffect, BaseRest
  <1>3. CASE /\ Takes(c, "copy", th[c].i, th[c].item, list.size - 1)
             /\ ListOf(list.elems, list.size, list.mod + 1)
    <2>1. th[c].pc = "remove"
      BY <1>1, RemoveCheckEffect
    <2>2. ListedInv'
      BY <1>1, <1>3 DEF ListedInv, ListOf
    <2>3. RestTyped' /\ BeanStays
      BY <1>1, <1>3, BaseTyped DEF RestTyped, ListOf, BeanStays
    <2>4. list.size - 1 < Reach
      BY <1>1, Types, AddedConns DEF ListedInv, ListType
    <2>5. ThreadInv(c)' /\ Only(c) /\ th'[c].pc # "unborn"
      BY <1>1, <1>3, <2>1, <2>4 DEF ThreadInv, HasItem, Closed, Actions, Takes
    <2> QED BY <1>1, <2>1, <2>2, <2>3, <2>5, ThreadFrame
  <1> QED BY <1>1, <1>2, <1>3, RemoveCheckEffect

LEMMA BaseRemoveCopy ==
  ASSUME BaseInv, Observed, NEW c \in Conn, RemoveCopy(c)
  PROVE  BaseInv'
  <1>1. /\ TypeOK /\ ListedInv /\ ThreadInv(c) /\ UNCHANGED <<main, bean, requests, astray, claimed, out>>
        /\ Reach' = Reach /\ Added' = Added
    BY DEF BaseInv, RemoveCopy, Reach, Added
  <1>2. th[c].pc = "copy" /\ Goes(c, "shrink") /\ ListOf(Moved(c), list.size, list.mod)
    BY <1>1, RemoveCopyEffect
  <1>3. ASSUME NEW k \in 0 .. Conns - 1 PROVE Moved(c)[k] # None => Moved(c)[k] \in Added
    <2>1. list.elems \in ArrayType /\ th[c].aux \in Int /\ th[c].i \in Int /\ 0 <= th[c].i /\ th[c].aux < Conns
      BY <1>1, <1>2, Types, ThreadFields, AddedConns DEF ListType, ThreadInv
    <2> DEFINE j == IF th[c].i <= k /\ k < th[c].aux THEN k + 1 ELSE k
    <2>2. DOMAIN list.elems = 0 .. Conns - 1
      BY <2>1 DEF ArrayType
    <2>3. Moved(c)[k] = list.elems[j]
      BY <2>2 DEF Moved
    <2>4. j \in 0 .. Conns - 1
      BY ONLY <2>1, k \in 0 .. Conns - 1, ChatAssumption
    <2> HIDE DEF j
    <2> QED BY <1>1, <2>3, <2>4 DEF ListedInv
  <1>4. ListedInv'
    BY <1>1, <1>2, <1>3 DEF ListedInv, ListOf
  <1>5. RestTyped' /\ BeanStays
    BY <1>1, <1>2, BaseTyped DEF RestTyped, ListOf, BeanStays
  <1>6. ThreadInv(c)' /\ Only(c) /\ th'[c].pc # "unborn"
    BY <1>1, <1>2 DEF ThreadInv, HasItem, Closed, Actions, Takes, Goes
  <1> QED BY <1>1, <1>2, <1>4, <1>5, <1>6, ThreadFrame

LEMMA BaseRemoveWrite ==
  ASSUME BaseInv, Observed, NEW c \in Conn, RemoveWrite(c)
  PROVE  BaseInv'
  <1>1. /\ TypeOK /\ ListedInv /\ ThreadInv(c) /\ UNCHANGED <<main, bean, requests, astray, claimed, out>>
        /\ Reach' = Reach /\ Added' = Added
    BY DEF BaseInv, RemoveWrite, Reach, Added
  <1>2. th[c].pc = "write" /\ Goes(c, "clear") /\ ListOf(list.elems, th[c].aux, list.mod)
    BY <1>1, RemoveWriteEffect
  <1>3. ListedInv'
    BY <1>1, <1>2, ThreadFields, AddedConns DEF ListedInv, ListOf, ThreadInv
  <1>4. RestTyped' /\ BeanStays
    BY <1>1, <1>2, BaseTyped DEF RestTyped, ListOf, BeanStays
  <1>5. ThreadInv(c)' /\ Only(c) /\ th'[c].pc # "unborn"
    BY <1>1, <1>2 DEF ThreadInv, HasItem, Closed, Actions, Takes, Goes
  <1> QED BY <1>1, <1>2, <1>3, <1>4, <1>5, ThreadFrame

LEMMA BaseRemoveClear ==
  ASSUME BaseInv, Observed, NEW c \in Conn, RemoveClear(c)
  PROVE  BaseInv'
  <1>1. /\ TypeOK /\ ListedInv /\ ThreadInv(c) /\ UNCHANGED <<main, bean, requests, astray, claimed>>
        /\ Reach' = Reach /\ Added' = Added
    BY DEF BaseInv, RemoveClear, Reach, Added
  <1>2. /\ th[c].pc = "clear" /\ out' = out \cup {th[c].item}
        /\ th[c].item \in Added /\ bean[th[c].item].closed
    BY <1>1, RemoveClearEffect DEF ThreadInv, HasItem, Closed
  <1>3. /\ Only(c) /\ ThreadInv(c)' /\ th'[c].pc # "unborn"
        /\ \/ UNCHANGED list
           \/ ListOf([list.elems EXCEPT ![th[c].aux] = None], list.size, list.mod)
    BY <1>1, RemoveClearEffect, RestedInv
  <1>4. ListedInv'
    <2>1. CASE UNCHANGED list
      BY <1>1, <1>2, <2>1 DEF ListedInv
    <2>2. CASE ListOf([list.elems EXCEPT ![th[c].aux] = None], list.size, list.mod)
      <3>1. list.elems \in ArrayType
        BY <1>1, Types DEF ListType
      <3>2. /\ list'.size = list.size
            /\ \A k \in 0 .. Conns - 1 : list'.elems[k] = None \/ list'.elems[k] = list.elems[k]
        BY <2>2, <3>1 DEF ListOf, ArrayType
      <3> QED BY <1>1, <1>2, <3>2 DEF ListedInv
    <2> QED BY <1>3, <2>1, <2>2
  <1>5. RestTyped' /\ BeanStays
    BY <1>1, <1>3, BaseTyped DEF RestTyped, ListOf, BeanStays
  <1> QED BY <1>1, <1>2, <1>3, <1>4, <1>5, ThreadFrame

\* The main thread.
MainPcs == {"new", "accept", "grow", "store", "ended"}
MainType == [pc : MainPcs, made : IndexType, slot : Int]
MainOf(pc, made, slot) == main' \in MainType /\ main'.pc = pc /\ main'.made = made /\ main'.slot = slot

LEMMA MainTyped ==
  ASSUME TypeOK
  PROVE  /\ main \in MainType /\ main.made \in 0 .. Conns /\ main.slot \in Int /\ main.slot < Conns
         /\ Conns \in Nat /\ list.size \in Int /\ list.size <= main.made
         /\ "new" \in MainPcs /\ "accept" \in MainPcs /\ "grow" \in MainPcs
         /\ "store" \in MainPcs /\ "ended" \in MainPcs
  BY ChatAssumption DEF TypeOK, MainType, MainPcs, IndexType

LEMMA NewBeanEffect ==
  ASSUME TypeOK, NewBean
  PROVE  /\ main.pc = "new" /\ main.made < Conns /\ MainOf("accept", main.made + 1, main.slot)
         /\ \E id \in IdType : bean' = [bean EXCEPT ![main.made + 1].id = id]
  <1>1. /\ main.pc = "new" /\ main.made < Conns
        /\ main' = [main EXCEPT !.pc = "accept", !.made = @ + 1]
        /\ \E id \in Seconds : bean' = [bean EXCEPT ![main.made + 1].id = id]
    BY DEF NewBean
  <1>2. MainOf("accept", main.made + 1, main.slot)
    <2>1. main.made + 1 \in IndexType
      BY <1>1, MainTyped DEF IndexType
    <2> QED BY <1>1, <2>1, MainTyped DEF MainOf, MainType
  <1> QED BY <1>1, <1>2 DEF IdType

LEMMA AcceptEffect ==
  ASSUME TypeOK, Accept
  PROVE  /\ main.pc = "accept" /\ MainOf("grow", main.made, list.size)
         /\ ListOf(list.elems, list.size, list.mod + 1)
  <1>1. /\ main.pc = "accept" /\ main' = [main EXCEPT !.pc = "grow", !.slot = list.size]
        /\ list' = [list EXCEPT !.mod = @ + 1]
    BY DEF Accept
  <1>2. MainOf("grow", main.made, list.size)
    BY <1>1, MainTyped DEF MainOf, MainType
  <1>3. ListOf(list.elems, list.size, list.mod + 1)
    BY <1>1, Types DEF ListOf, ListType
  <1> QED BY <1>1, <1>2, <1>3

LEMMA AddGrowEffect ==
  ASSUME TypeOK, AddGrow
  PROVE  /\ main.pc = "grow" /\ MainOf("store", main.made, main.slot)
         /\ ListOf(list.elems, main.slot + 1, list.mod)
  <1>1. /\ main.pc = "grow" /\ main' = [main EXCEPT !.pc = "store"]
        /\ list' = [list EXCEPT !.size = main.slot + 1]
    BY DEF AddGrow
  <1>2. MainOf("store", main.made, main.slot)
    BY <1>1, MainTyped DEF MainOf, MainType
  <1>3. ListOf(list.elems, main.slot + 1, list.mod)
    BY <1>1, Types, MainTyped DEF ListOf, ListType
  <1> QED BY <1>1, <1>2, <1>3

LEMMA AddStoreEffect ==
  ASSUME TypeOK, MainInv, AddStore
  PROVE  /\ main.pc = "store" /\ main.made \in Conn
         /\ \/ /\ main.slot \in 0 .. Conns - 1 /\ MainOf("new", main.made, 0)
               /\ ListOf([list.elems EXCEPT ![main.slot] = main.made], list.size, list.mod)
               /\ Rested(main.made, "idle")
            \/ /\ main.slot \notin 0 .. Conns - 1 /\ MainOf("ended", main.made, main.slot)
               /\ UNCHANGED <<list, th>>
  <1>1. main.pc = "store" /\ main.made \in Conn /\ list.elems \in ArrayType
    BY MainTyped, Types DEF AddStore, MainInv, Conn, ListType
  <1>2. DOMAIN list.elems = 0 .. Conns - 1
    BY <1>1 DEF ArrayType
  <1>3. CASE main.slot \in 0 .. Conns - 1
    <2>0. main' = [main EXCEPT !.pc = "new", !.slot = 0]
      BY <1>2, <1>3, Zenon DEF AddStore
    <2>1. /\ list' = [list EXCEPT !.elems[main.slot] = main.made]
          /\ th' = [th EXCEPT ![main.made] = Resting("idle")]
      BY <1>2, <1>3, Zenon DEF AddStore
    <2>2. MainOf("new", main.made, 0)
      <3>1. PICK z \in Int : z = 0
        OBVIOUS
      <3>2. /\ main' = [main EXCEPT !.pc = "new", !.slot = z]
            /\ main \in MainType /\ "new" \in MainPcs
        BY <2>0, <3>1, MainTyped
      <3>3. MainOf("new", main.made, z)
        BY ONLY <3>1, <3>2 DEF MainOf, MainType
      <3> QED BY <3>1, <3>3
    <2>3. Rested(main.made, "idle")
      BY <1>1, <2>1, RestEffect DEF Pcs
    <2>4. [list.elems EXCEPT ![main.slot] = main.made] \in ArrayType
      BY <1>1 DEF ArrayType, ItemType
    <2>5. ListOf([list.elems EXCEPT ![main.slot] = main.made], list.size, list.mod)
      BY <2>1, <2>4, Types DEF ListOf, ListType
    <2> QED BY <1>1, <1>3, <2>2, <2>3, <2>5, Zenon
  <1>4. CASE main.slot \notin 0 .. Conns - 1
    <2>1. main' = [main EXCEPT !.pc = "ended"] /\ UNCHANGED <<list, th>>
      BY <1>2, <1>4 DEF AddStore
    <2>2. MainOf("ended", main.made, main.slot)
      BY <2>1, MainTyped DEF MainOf, MainType
    <2> QED BY <1>1, <1>4, <2>1, <2>2, Zenon
  <1> QED BY <1>3, <1>4

\* The main thread asks for places and adds beans; threads keep what they have.
LEMMA MainFrame ==
  ASSUME BaseInv, Observed, th' \in [Conn -> ThreadType], RestTyped', BeanStays, UNCHANGED out,
         main' \in MainType, main'.slot < Conns, MainInv', list'.size <= Reach', BornInv',
         \A k \in 0 .. Conns - 1 : list'.elems[k] # None => list'.elems[k] \in Added',
         Added \subseteq Added', Reach <= Reach', Reach' <= main'.made,
         \A d \in Conn : th'[d] = th[d] \/ th'[d].pc = "idle"
  PROVE  BaseInv'
  <1>0. TypeOK /\ ListedInv /\ Reach \in Int
    BY AddedConns DEF BaseInv
  <1>1. TypeOK'
    <2>1. list'.size \in Int /\ list'.size <= main'.made /\ main'.made \in 0 .. Conns
      BY <1>0, Types DEF RestTyped, ListType, Reach, MainType, IndexType
    <2>2. overlap' \in BOOLEAN /\ early' \in BOOLEAN /\ out' \subseteq Conn
      BY <1>0 DEF Observed, TypeOK
    <2> QED BY <2>1, <2>2
            DEF TypeOK, RestTyped, MainType, MainPcs, ThreadType, ListType, ArrayType, BeanType, ItemType,
                IndexType, DevType, IdType
  <1>2. ListedInv'
    BY <1>0, AddedConns DEF ListedInv, BeanStays
  <1>3. ASSUME NEW d \in Conn PROVE ThreadInv(d)'
    <2>1. CASE th'[d].pc = "idle"
      BY <2>1 DEF ThreadInv, HasItem, Closed, Actions
    <2>2. CASE th'[d] = th[d]
      <3>1. ThreadInv(d) /\ th[d].aux \in Int /\ Reach' \in Int
        BY <1>0, ThreadFields, Types DEF BaseInv, MainType, IndexType, Reach
      <3>2. HasItem(d) => (bean[th[d].item].closed => bean'[th[d].item].closed)
        BY <1>0, <3>1, AddedConns DEF BeanStays, ThreadInv
      <3> QED BY <1>0, <2>2, <3>1, <3>2 DEF ThreadInv, HasItem, Closed
    <2> QED BY <2>1, <2>2
  <1> QED BY <1>1, <1>2, <1>3 DEF BaseInv

LEMMA BaseMain ==
  ASSUME BaseInv, Observed, Main
  PROVE  BaseInv'
  <1>0. /\ TypeOK /\ MainInv /\ ListedInv /\ BornInv /\ RestTyped
        /\ UNCHANGED <<requests, astray, claimed, out>>
    BY BaseTyped DEF BaseInv, Main, NewBean, Accept, AddGrow, AddStore
  <1>1. /\ Conns \in Nat /\ main.made \in Int /\ 0 <= main.made /\ main.made <= Conns
        /\ main.slot \in Int /\ main.slot < Conns /\ list.size \in Int /\ list.size <= Reach
        /\ main.pc # "new" => main.made > 0
        /\ main.pc \in {"grow", "store"} => main.slot < main.made
        /\ th \in [Conn -> ThreadType] /\ bean \in [Conn -> BeanType]
    BY <1>0, MainTyped, Types DEF MainInv, ListedInv
  <1>2. CASE NewBean
    <2>1. /\ main.pc = "new" /\ main.made < Conns /\ MainOf("accept", main.made + 1, main.slot)
          /\ UNCHANGED <<list, th>>
      BY <1>0, <1>2, NewBeanEffect DEF NewBean
    <2>2. Added' = Added /\ Reach' = Reach /\ Reach' <= main'.made
      BY <1>1, <2>1 DEF MainOf, Added, Reach
    <2>3. bean' \in [Conn -> BeanType] /\ \A b \in Conn : bean'[b].closed = bean[b].closed
      <3>1. PICK id \in IdType : bean' = [bean EXCEPT ![main.made + 1].id = id]
        BY <1>0, <1>2, NewBeanEffect
      <3>2. bean \in [Conn -> BeanType]
        BY <1>1
      <3> QED BY ONLY <3>1, <3>2 DEF BeanType
    <2>4. BornInv' /\ MainInv' /\ BeanStays /\ RestTyped'
      BY <1>0, <1>1, <2>1, <2>2, <2>3 DEF BornInv, MainInv, MainOf, BeanStays, RestTyped
    <2>5. /\ main' \in MainType /\ main'.slot < Conns /\ list'.size <= Reach'
          /\ \A k \in 0 .. Conns - 1 : list'.elems[k] # None => list'.elems[k] \in Added'
      BY <1>0, <1>1, <2>1, <2>2 DEF MainOf, ListedInv
    <2>6. Added \subseteq Added' /\ Reach <= Reach'
      BY <1>0, <2>2, AddedConns
    <2> QED BY <1>0, <1>1, <2>1, <2>2, <2>4, <2>5, <2>6, MainFrame
  <1>3. CASE Accept
    <2>1. /\ main.pc = "accept" /\ MainOf("grow", main.made, list.size)
          /\ ListOf(list.elems, list.size, list.mod + 1) /\ UNCHANGED <<bean, th>>
      BY <1>0, <1>3, AcceptEffect DEF Accept
    <2>2. Added' = Added /\ Reach' = Reach /\ Reach' <= main'.made /\ Reach = main.made - 1
      BY <1>1, <2>1 DEF MainOf, Added, Reach
    <2>3. BornInv' /\ MainInv' /\ BeanStays /\ RestTyped' /\ list.size < Conns
      BY <1>0, <1>1, <2>1, <2>2 DEF BornInv, MainInv, MainOf, BeanStays, RestTyped, ListOf
    <2> QED BY <1>0, <1>1, <2>1, <2>2, <2>3, MainFrame DEF MainOf, ListedInv, ListOf
  <1>4. CASE AddGrow
    <2>1. /\ main.pc = "grow" /\ MainOf("store", main.made, main.slot)
          /\ ListOf(list.elems, main.slot + 1, list.mod) /\ UNCHANGED <<bean, th>>
      BY <1>0, <1>4, AddGrowEffect DEF AddGrow
    <2>2. Added' = Added /\ Reach' = main.made /\ Reach = main.made - 1
      BY <1>1, <2>1 DEF MainOf, Added, Reach
    <2>3. BornInv' /\ MainInv' /\ BeanStays /\ RestTyped' /\ main.slot + 1 <= Reach' /\ Reach <= Reach'
      BY <1>0, <1>1, <2>1, <2>2 DEF BornInv, MainInv, MainOf, BeanStays, RestTyped, ListOf
    <2> QED BY <1>0, <1>1, <2>1, <2>2, <2>3, MainFrame DEF MainOf, ListedInv, ListOf
  <1>5. CASE AddStore
    <2>1. main.pc = "store" /\ main.made \in Conn /\ UNCHANGED bean /\ Reach = main.made
      BY <1>0, <1>5, AddStoreEffect DEF AddStore, Reach
    <2>2. CASE MainOf("ended", main.made, main.slot) /\ UNCHANGED <<list, th>>
      <3>1. Added' = Added /\ Reach' = Reach
        BY <1>1, <2>1, <2>2 DEF MainOf, Added, Reach
      <3>2. BornInv' /\ MainInv' /\ BeanStays /\ RestTyped'
        BY <1>0, <1>1, <2>1, <2>2, <3>1 DEF BornInv, MainInv, MainOf, BeanStays, RestTyped
      <3> QED BY <1>0, <1>1, <2>1, <2>2, <3>1, <3>2, MainFrame DEF MainOf, ListedInv
    <2>3. CASE /\ main.slot \in 0 .. Conns - 1 /\ MainOf("new", main.made, 0)
               /\ ListOf([list.elems EXCEPT ![main.slot] = main.made], list.size, list.mod)
               /\ Rested(main.made, "idle")
      <3>1. Added' = Added \cup {main.made} /\ Reach' = Reach
        BY <1>1, <2>1, <2>3 DEF MainOf, Added, Reach
      <3>2. /\ th' \in [Conn -> ThreadType] /\ th'[main.made].pc = "idle"
            /\ \A d \in Conn \ {main.made} : th'[d] = th[d]
        BY <2>3 DEF Rested, Only
      <3>3. BornInv'
        BY <1>0, <2>1, <3>1, <3>2 DEF BornInv
      <3>4. MainInv' /\ BeanStays /\ RestTyped'
        BY <1>0, <2>1, <2>3 DEF MainInv, MainOf, BeanStays, RestTyped, ListOf
      <3>5. \A k \in 0 .. Conns - 1 : list'.elems[k] # None => list'.elems[k] \in Added'
        <4>1. list.elems \in ArrayType
          BY <1>0, Types DEF ListType
        <4> QED BY <1>0, <2>3, <3>1, <4>1 DEF ListedInv, ListOf, ArrayType
      <3>6. list'.size <= Reach' /\ main'.slot < Conns /\ main' \in MainType /\ main'.made = main.made
        BY <1>0, <1>1, <2>1, <2>3, <3>1 DEF MainOf, ListOf
      <3> QED BY <1>0, <1>1, <2>1, <3>1, <3>2, <3>3, <3>4, <3>5, <3>6, MainFrame
    <2> QED BY <1>0, <1>5, <2>2, <2>3, AddStoreEffect
  <1> QED BY <1>2, <1>3, <1>4, <1>5 DEF Main

LEMMA BaseInit == ASSUME Init PROVE BaseInv
  <1>1. TypeOK
    <2>1. th \in [Conn -> ThreadType]
      BY Rests DEF Init, Pcs
    <2>2. list \in ListType /\ list.size = 0
      <3>1. [k \in 0 .. Conns - 1 |-> None] \in ArrayType
        BY DEF ArrayType, ItemType
      <3> QED BY <3>1 DEF Init, ListType
    <2>3. bean \in [Conn -> BeanType]
      BY DEF Init, BeanType, IdType, DevType
    <2>4. main \in MainType /\ main.slot = 0 /\ main.made = 0
      BY ChatAssumption DEF Init, MainType, MainPcs, IndexType
    <2>5. /\ requests \in Nat /\ astray \in BOOLEAN /\ claimed \subseteq Conn \X Devices
          /\ out \subseteq Conn /\ overlap \in BOOLEAN /\ early \in BOOLEAN
      BY DEF Init
    <2> QED BY ONLY <2>1, <2>2, <2>3, <2>4, <2>5, ChatAssumption
            DEF TypeOK, MainType, MainPcs, ThreadType, ListType, ArrayType, BeanType,
                IndexType, ItemType, DevType, IdType
  <1>2. MainInv /\ ListedInv
    BY <1>1 DEF Init, MainInv, ListedInv, Reach
  <1>3. \A c \in Conn : th[c].pc = "unborn" /\ c \notin Added
    BY Rests DEF Init, Pcs, Added
  <1> QED BY <1>1, <1>2, <1>3 DEF BaseInv, BornInv, ThreadInv, HasItem, Closed, Actions

LEMMA BaseStep == ASSUME BaseInv, [Next]_vars PROVE BaseInv'
  <1>1. CASE Next
    <2>1. CASE Main
      BY <1>1, <2>1, BaseMain DEF Next
    <2>2. ASSUME NEW c \in Conn, Thread(c) \/ Leave(c) PROVE BaseInv'
      BY <1>1, <2>2, BaseWalk, BaseGet, BaseSet, BaseDeliver, BaseClose, BaseRemoveCheck,
         BaseRemoveCopy, BaseRemoveWrite, BaseRemoveClear DEF Next, Thread
    <2>3. ASSUME NEW c \in Conn, NEW act \in Actions, NEW dev \in Devices, Request(c, act, dev)
          PROVE  BaseInv'
      BY <1>1, <2>3, BaseRequest DEF Next
    <2> QED BY <1>1, <2>1, <2>2, <2>3 DEF Next
  <1>2. CASE UNCHANGED vars
    <2>1. TypeOK' /\ MainInv' /\ BornInv'
      BY <1>2 DEF BaseInv, vars, TypeOK, MainInv, BornInv, Added
    <2>2. ListedInv'
      BY <1>2 DEF BaseInv, vars, ListedInv, Added, Reach
    <2>3. \A c \in Conn : ThreadInv(c)'
      BY <1>2 DEF BaseInv, vars, ThreadInv, HasItem, Closed, Added, Reach
    <2> QED BY <2>1, <2>2, <2>3 DEF BaseInv
  <1> QED BY <1>1, <1>2

----------------------------------------------------------------------------
(* Whatever overlaps, and however many connections come, the types hold: no *)
(* index a thread keeps leaves the array, and size never exceeds the number *)
(* of beans made.                                                           *)
THEOREM ChatTypeOK == Spec => []TypeOK
  <1>1. Spec => []BaseInv
    BY BaseInit, BaseStep, PTL DEF Spec
  <1> QED BY <1>1, PTL DEF BaseInv

----------------------------------------------------------------------------
(* Devices *)

IdsStay == /\ main'.made \in Int /\ main.made <= main'.made
           /\ \A b \in 1 .. main.made : bean'[b].id = bean[b].id
DevicesClaimed == \A b \in Conn : bean[b].device # None => <<b, bean[b].device>> \in claimed
\* A thread that walks for a LOGIN, or is about to send.
WalksClaimed(c) ==
  th[c].pc \in {"test", "get"} /\ (th[c].act = "LOGIN" => <<c, th[c].dev>> \in claimed)
SendsClaimed(c) == th[c].pc = "SENDMSG" /\ (IdsDistinct => <<th[c].item, th[c].dev>> \in claimed)
Silent(c) == th[c].pc \notin {"test", "get", "SENDMSG"}

LEMMA DeviceFrame ==
  ASSUME TypeOK, DeviceInv, claimed \subseteq claimed', IdsStay,
         IdsDistinct /\ IdsDistinct' => ~astray' /\ DevicesClaimed',
         \A d \in Conn : th'[d] = th[d] \/ Silent(d)' \/ WalksClaimed(d)' \/ SendsClaimed(d)'
  PROVE  DeviceInv'
  <1>1. IdsDistinct' => IdsDistinct
    BY Types DEF IdsDistinct, IdsStay
  <1>2. ASSUME NEW d \in Conn
        PROVE  /\ th'[d].pc \in {"test", "get"} /\ th'[d].act = "LOGIN" => <<d, th'[d].dev>> \in claimed'
               /\ IdsDistinct' => (th'[d].pc = "SENDMSG" => <<th'[d].item, th'[d].dev>> \in claimed')
    <2>1. CASE th'[d] = th[d]
      BY <1>1, <2>1 DEF DeviceInv
    <2>2. CASE Silent(d)' \/ WalksClaimed(d)' \/ SendsClaimed(d)'
      BY <2>2 DEF Silent, WalksClaimed, SendsClaimed
    <2> QED BY <2>1, <2>2
  <1> QED BY <1>1, <1>2 DEF DeviceInv, DevicesClaimed

\* The steps after which no request of c depends on a device.
LEMMA DeviceSilent ==
  ASSUME TypeOK, DeviceInv, UNCHANGED <<astray, claimed>>, IdsStay,
         \A b \in Conn : bean'[b].device = bean[b].device,
         \A d \in Conn : th'[d] = th[d] \/ Silent(d)' \/ WalksClaimed(d)'
  PROVE  DeviceInv'
  <1>1. IdsDistinct => ~astray' /\ DevicesClaimed'
    BY DEF DeviceInv, DevicesClaimed
  <1> QED BY <1>1, DeviceFrame

LEMMA DeviceRested ==
  ASSUME TypeOK, DeviceInv, NEW c \in Conn, NEW pc \in {"idle", "dead", "gone"}, Rested(c, pc),
         UNCHANGED <<main, bean, astray, claimed>>
  PROVE  DeviceInv'
  <1>1. IdsStay
    BY Types DEF IdsStay
  <1>2. Silent(c)' /\ \A d \in Conn : th'[d] = th[d] \/ Silent(d)'
    BY DEF Silent, Rested, Only
  <1> QED BY <1>1, <1>2, DeviceSilent

LEMMA DeviceTakes ==
  ASSUME TypeOK, DeviceInv, NEW c \in Conn, NEW pc, NEW i, NEW item, NEW aux,
         Takes(c, pc, i, item, aux), pc \notin {"test", "get", "SENDMSG"},
         UNCHANGED <<main, bean, astray, claimed>>
  PROVE  DeviceInv'
  <1>1. IdsStay
    BY Types DEF IdsStay
  <1>2. Silent(c)' /\ \A d \in Conn : th'[d] = th[d] \/ Silent(d)'
    BY DEF Silent, Takes, Only
  <1> QED BY <1>1, <1>2, DeviceSilent

LEMMA DeviceWalk ==
  ASSUME BaseInv, DeviceInv, NEW c \in Conn,
         \/ Leave(c) \/ Test(c) \/ Set(c) \/ IterBegin(c) \/ IterHasNext(c) \/ IterNext(c)
         \/ Farewell(c) \/ RemoveCheck(c) \/ RemoveCopy(c) \/ RemoveRead(c) \/ RemoveWrite(c)
         \/ RemoveClear(c)
  PROVE  DeviceInv'
  <1>0. TypeOK /\ ThreadInv(c)
    BY DEF BaseInv
  <1>1. UNCHANGED <<main, bean, astray, claimed>>
    BY DEF Leave, Test, Set, IterBegin, IterHasNext, IterNext, Farewell, RemoveCheck, RemoveCopy,
           RemoveRead, RemoveWrite, RemoveClear
  <1>2. CASE Leave(c)
    BY <1>0, <1>1, <1>2, LeaveEffect, DeviceRested
  <1>3. CASE Test(c)
    <2>1. CASE Rested(c, "idle")
      BY <1>0, <1>1, <2>1, DeviceRested
    <2>2. CASE Goes(c, "get")
      <3>1. WalksClaimed(c)'
        BY <1>0, <1>1, <1>3, <2>2, TestEffect DEF Goes, Takes, WalksClaimed, DeviceInv
      <3>2. IdsStay /\ \A d \in Conn : th'[d] = th[d] \/ WalksClaimed(d)'
        BY <1>0, <1>1, <2>2, <3>1, Types DEF IdsStay, Goes, Takes, Only
      <3> QED BY <1>0, <1>1, <3>2, DeviceSilent
    <2> QED BY <1>0, <1>3, <2>1, <2>2, TestEffect
  <1>4. CASE Set(c)
    BY <1>0, <1>1, <1>4, SetEffect, DeviceRested
  <1>5. CASE IterBegin(c)
    BY <1>0, <1>1, <1>5, IterBeginEffect, DeviceRested, DeviceTakes
  <1>6. CASE IterHasNext(c)
    BY <1>0, <1>1, <1>6, IterHasNextEffect, DeviceRested, DeviceTakes DEF Goes
  <1>7. CASE IterNext(c)
    BY <1>0, <1>1, <1>7, IterNextEffect, DeviceRested, DeviceTakes
  <1>8. CASE Farewell(c)
    BY <1>0, <1>1, <1>8, FarewellEffect, DeviceRested, DeviceTakes DEF Goes
  <1>9. CASE RemoveCheck(c)
    BY <1>0, <1>1, <1>9, RemoveCheckEffect, DeviceRested, DeviceTakes
  <1>10. CASE RemoveCopy(c)
    BY <1>0, <1>1, <1>10, RemoveCopyEffect, DeviceTakes DEF Goes
  <1>11. CASE RemoveRead(c)
    BY <1>0, <1>1, <1>11, RemoveReadEffect, DeviceTakes
  <1>12. CASE RemoveWrite(c)
    BY <1>0, <1>1, <1>12, RemoveWriteEffect, DeviceTakes DEF Goes
  <1>13. CASE RemoveClear(c)
    BY <1>0, <1>1, <1>13, RemoveClearEffect, DeviceRested
  <1> QED BY <1>2, <1>3, <1>4, <1>5, <1>6, <1>7, <1>8, <1>9, <1>10, <1>11, <1>12, <1>13

LEMMA DeviceRequest ==
  ASSUME BaseInv, DeviceInv, NEW c \in Conn, NEW act \in Actions, NEW dev \in Devices,
         Request(c, act, dev)
  PROVE  DeviceInv'
  <1>1. TypeOK /\ UNCHANGED <<main, bean, astray>>
    BY DEF BaseInv, Request
  <1>2. claimed \subseteq claimed' /\ (act = "LOGIN" => <<c, dev>> \in claimed')
    BY DEF Request
  <1>3. WalksClaimed(c)' /\ \A d \in Conn : th'[d] = th[d] \/ WalksClaimed(d)'
    BY <1>1, <1>2, RequestEffect DEF WalksClaimed, Only
  <1>4. IdsStay
    BY <1>1, Types DEF IdsStay
  <1>5. IdsDistinct => ~astray' /\ DevicesClaimed'
    BY <1>1, <1>2 DEF DeviceInv, DevicesClaimed
  <1> QED BY <1>1, <1>2, <1>3, <1>4, <1>5, DeviceFrame

LEMMA DeviceDeliver ==
  ASSUME BaseInv, DeviceInv, NEW c \in Conn, Deliver(c)
  PROVE  DeviceInv'
  <1>1. TypeOK /\ UNCHANGED <<main, bean, claimed>>
    BY DEF BaseInv, Deliver
  <1>2. IdsStay
    BY <1>1, Types DEF IdsStay
  <1>3. Silent(c)' /\ \A d \in Conn : th'[d] = th[d] \/ Silent(d)'
    BY <1>1, DeliverEffect DEF Silent, Rested, Only
  <1>4. IdsDistinct => ~astray' /\ DevicesClaimed'
    BY <1>1, DeliverEffect DEF DeviceInv, DevicesClaimed
  <1> QED BY <1>1, <1>2, <1>3, <1>4, DeviceFrame

\* With distinct ids a LOGIN finds its own bean and no other.
LEMMA OwnBean ==
  ASSUME BaseInv, IdsDistinct, NEW c \in Added, NEW b \in Added, Own(c, b)
  PROVE  b = c
  BY AddedConns DEF BaseInv, IdsDistinct, Own

LEMMA DeviceGet ==
  ASSUME BaseInv, DeviceInv, NEW c \in Conn, Get(c)
  PROVE  DeviceInv'
  <1>1. /\ TypeOK /\ ThreadInv(c) /\ ListedInv /\ BornInv
        /\ UNCHANGED <<main, list, astray, claimed>>
    BY DEF BaseInv, Get
  <1>2. CASE Rested(c, "dead") /\ UNCHANGED bean
    BY <1>1, <1>2, DeviceRested
  <1>3. CASE GetMisses(c)
    <2>1. UNCHANGED bean /\ Takes(c, "test", th[c].i + 1, th[c].item, th[c].aux)
      BY <1>3 DEF GetMisses
    <2>2. WalksClaimed(c)'
      BY <1>1, <2>1, GetEffect DEF Takes, WalksClaimed, DeviceInv
    <2>3. IdsStay /\ \A d \in Conn : th'[d] = th[d] \/ WalksClaimed(d)'
      BY <1>1, <2>1, <2>2, Types DEF IdsStay, Takes, Only
    <2> QED BY <1>1, <2>1, <2>3, DeviceSilent
  <1>4. CASE GetHits(c)
    <2> DEFINE b == GotBean(c)
    <2>1. /\ Takes(c, th[c].act, th[c].i, b, th[c].aux) /\ ~GetFails(c) /\ Hit(c, b)
          /\ bean' = IF th[c].act = "LOGIN"
                     THEN [bean EXCEPT ![b].device = th[c].dev] ELSE bean
      BY <1>4, Zenon DEF GetHits
    <2>2. b # None
      BY <2>1, Zenon DEF GetFails
    <2>3. th[c].pc = "get" /\ th[c].i \in 0 .. Conns - 1 /\ bean \in [Conn -> BeanType]
      BY <1>1, GetEffect, Types
    <2>4. b \in Added /\ b \in Conn /\ c \in Added
      BY <1>1, <2>2, <2>3, AddedConns DEF GotBean, ListedInv, BornInv
    <2> HIDE DEF b
    <2>5. CASE th[c].act = "LOGIN"
      <3>1. /\ \A a \in Conn : bean'[a].id = bean[a].id
            /\ \A a \in Conn \ {b} : bean'[a].device = bean[a].device
            /\ bean'[b].device = th[c].dev
        BY <2>1, <2>3, <2>4, <2>5 DEF BeanType
      <3>2. IdsStay
        BY <1>1, <3>1, Types DEF IdsStay, Conn
      <3>3. IdsDistinct => DevicesClaimed'
        <4>1. Own(c, b) /\ <<c, th[c].dev>> \in claimed
          BY <2>1, <2>3, <2>5 DEF Hit, DeviceInv
        <4> QED BY <1>1, <2>4, <3>1, <4>1, OwnBean DEF DeviceInv, DevicesClaimed
      <3>4. Silent(c)' /\ \A d \in Conn : th'[d] = th[d] \/ Silent(d)'
        BY <2>1, <2>5 DEF Silent, Takes, Only
      <3> QED BY <1>1, <3>2, <3>3, <3>4, DeviceFrame DEF DeviceInv
    <2>6. CASE th[c].act # "LOGIN"
      <3>1. IdsStay /\ UNCHANGED bean
        BY <1>1, <2>1, <2>6, Types DEF IdsStay
      <3>2. Silent(c)' \/ SendsClaimed(c)'
        <4>1. CASE th[c].act = "SENDMSG"
          <5>1. bean[b].device = th[c].dev /\ bean[b].device # None
            BY <2>1, <2>2, <2>6, <4>1 DEF Hit, GetFails, AsksDevice, b
          <5>2. IdsDistinct' => IdsDistinct
            BY <1>1, <3>1 DEF IdsDistinct
          <5> QED BY <1>1, <2>1, <2>4, <4>1, <5>1, <5>2 DEF SendsClaimed, Takes, DeviceInv
        <4>2. CASE th[c].act # "SENDMSG"
          <5>1. th[c].act \in {"GETLIST", "LOGOUT"}
            BY <1>1, <2>6, <4>2, ThreadFields DEF Actions
          <5> QED BY <2>1, <5>1 DEF Takes, Silent
        <4> QED BY <4>1, <4>2
      <3>3. \A d \in Conn : th'[d] = th[d] \/ Silent(d)' \/ SendsClaimed(d)'
        BY <2>1, <3>2 DEF Takes, Only
      <3>4. IdsDistinct => ~astray' /\ DevicesClaimed'
        BY <1>1, <3>1 DEF DeviceInv, DevicesClaimed
      <3> QED BY <1>1, <3>1, <3>3, <3>4, DeviceFrame
    <2> QED BY <2>5, <2>6
  <1> QED BY <1>1, <1>2, <1>3, <1>4, GetEffect, Zenon

LEMMA DeviceClose ==
  ASSUME BaseInv, DeviceInv, NEW c \in Conn, Close(c)
  PROVE  DeviceInv'
  <1>1. TypeOK /\ UNCHANGED <<main, astray, claimed>> /\ bean \in [Conn -> BeanType]
    BY Types DEF BaseInv, Close
  <1>2. bean' = [bean EXCEPT ![th[c].item].closed = TRUE] /\ Goes(c, "remove")
    BY <1>1, CloseEffect
  <1>3. \A b \in Conn : bean'[b].id = bean[b].id /\ bean'[b].device = bean[b].device
    BY <1>1, <1>2 DEF BeanType
  <1>4. IdsStay
    BY <1>1, <1>3, Types DEF IdsStay, Conn
  <1>5. Silent(c)' /\ \A d \in Conn : th'[d] = th[d] \/ Silent(d)'
    BY <1>2 DEF Silent, Goes, Takes, Only
  <1> QED BY <1>1, <1>3, <1>4, <1>5, DeviceSilent

LEMMA DeviceMain ==
  ASSUME BaseInv, DeviceInv, Main
  PROVE  DeviceInv'
  <1>1. TypeOK /\ MainInv /\ UNCHANGED <<astray, claimed>> /\ bean \in [Conn -> BeanType]
    BY Types DEF BaseInv, Main, NewBean, Accept, AddGrow, AddStore
  <1>2. CASE NewBean
    <2>1. PICK id \in IdType : bean' = [bean EXCEPT ![main.made + 1].id = id]
      BY <1>1, <1>2, NewBeanEffect
    <2>2. MainOf("accept", main.made + 1, main.slot) /\ UNCHANGED th
      BY <1>1, <1>2, NewBeanEffect DEF NewBean
    <2>3. /\ \A b \in Conn : bean'[b].device = bean[b].device
          /\ \A b \in Conn \ {main.made + 1} : bean'[b].id = bean[b].id
      BY ONLY <1>1, <2>1 DEF BeanType
    <2>4. IdsStay
      BY <1>1, <2>2, <2>3, MainTyped DEF IdsStay, MainOf, Conn
    <2> QED BY <1>1, <2>2, <2>3, <2>4, DeviceSilent
  <1>3. CASE Accept \/ AddGrow
    <2>1. UNCHANGED <<bean, th>> /\ main'.made = main.made
      BY <1>1, <1>3, AcceptEffect, AddGrowEffect DEF Accept, AddGrow, MainOf
    <2>2. IdsStay
      BY <1>1, <2>1, MainTyped DEF IdsStay
    <2> QED BY <1>1, <2>1, <2>2, DeviceSilent
  <1>4. CASE AddStore
    <2>1. UNCHANGED bean /\ main'.made = main.made
      BY <1>1, <1>4, AddStoreEffect DEF AddStore, MainOf
    <2>2. \A d \in Conn : th'[d] = th[d] \/ Silent(d)'
      BY <1>1, <1>4, AddStoreEffect DEF Rested, Only, Silent
    <2>3. IdsStay
      BY <1>1, <2>1, MainTyped DEF IdsStay
    <2> QED BY <1>1, <2>1, <2>2, <2>3, DeviceSilent
  <1> QED BY <1>2, <1>3, <1>4 DEF Main

LEMMA DeviceInit == ASSUME Init PROVE DeviceInv
  <1>1. \A c \in Conn : th[c].pc = "unborn"
    BY Rests DEF Init, Pcs
  <1>2. \A b \in Conn : bean[b].device = None
    BY DEF Init
  <1> QED BY <1>1, <1>2 DEF Init, DeviceInv

LEMMA DeviceStep == ASSUME BaseInv, DeviceInv, [Next]_vars PROVE DeviceInv'
  <1>1. CASE Next
    <2>1. CASE Main
      BY <2>1, DeviceMain
    <2>2. ASSUME NEW c \in Conn, Thread(c) \/ Leave(c) PROVE DeviceInv'
      BY <2>2, DeviceWalk, DeviceGet, DeviceDeliver, DeviceClose DEF Thread
    <2>3. ASSUME NEW c \in Conn, NEW act \in Actions, NEW dev \in Devices, Request(c, act, dev)
          PROVE  DeviceInv'
      BY <2>3, DeviceRequest
    <2> QED BY <1>1, <2>1, <2>2, <2>3 DEF Next
  <1>2. CASE UNCHANGED vars
    BY <1>2 DEF vars, DeviceInv, IdsDistinct
  <1> QED BY <1>1, <1>2

(* For any number of connections, as long as no two beans share an id a     *)
(* message reaches only a client that has logged in as the device it is     *)
(* for, whatever overlaps.                                                  *)
THEOREM ChatReachesItsDevice == Spec => []ReachesItsDevice
  <1>1. Init => BaseInv /\ DeviceInv
    BY BaseInit, DeviceInit
  <1>2. BaseInv /\ DeviceInv /\ [Next]_vars => (BaseInv /\ DeviceInv)'
    BY BaseStep, DeviceStep
  <1>3. DeviceInv => ReachesItsDevice
    BY DEF DeviceInv, ReachesItsDevice
  <1> QED BY <1>1, <1>2, <1>3, PTL DEF Spec

----------------------------------------------------------------------------
(* The array, as long as nothing overlaps *)

\* What arraycopy leaves when the bean at place i of n is taken out.
Shifted(e, i, n) == [k \in 0 .. Conns - 1 |-> e[IF i <= k /\ k < n - 1 THEN k + 1 ELSE k]]

LEMMA HoldsAdd ==
  ASSUME NEW e \in ArrayType, NEW n \in 0 .. Conns - 1, NEW S \in SUBSET Conn, NEW x \in Conn,
         \A b \in S : b < x, Holds(e, n, S, n)
  PROVE  Holds([e EXCEPT ![n] = x], n + 1, S \cup {x}, n + 1)
  <1> DEFINE f == [e EXCEPT ![n] = x]
  <1>0. Conns \in Nat
    BY ChatAssumption
  <1>1. f[n] = x /\ \A k \in 0 .. Conns - 1 : k # n => f[k] = e[k]
    BY DEF ArrayType
  <1> HIDE DEF f
  <1>2. \A k \in 0 .. n : f[k] \in S \cup {x}
    BY <1>0, <1>1 DEF Holds
  <1>3. \A b \in S \cup {x} : \E k \in 0 .. n : f[k] = b
    BY <1>0, <1>1 DEF Holds
  <1>4. \A j, k \in 0 .. n : j < k => f[j] < f[k]
    BY <1>0, <1>1 DEF Holds
  <1>5. \A k \in n + 1 .. Conns - 1 : f[k] = None
    BY <1>0, <1>1 DEF Holds
  <1>6. n + 1 \in 0 .. Conns /\ (n + 1) - 1 = n
    BY <1>0
  <1>7. Holds(f, n + 1, S \cup {x}, n + 1)
    BY <1>2, <1>3, <1>4, <1>5, <1>6 DEF Holds
  <1> QED BY <1>7 DEF f

LEMMA HoldsDrop ==
  ASSUME NEW e \in ArrayType, NEW n \in Int, NEW S \in SUBSET Conn, NEW i \in 0 .. n - 1,
         Holds(e, n, S, n)
  PROVE  Holds(Shifted(e, i, n), n - 1, S \ {e[i]}, n)
  <1> DEFINE f == Shifted(e, i, n)
  <1>0. Conns \in Nat /\ n \in 0 .. Conns /\ Conn \subseteq Int
    BY ChatAssumption DEF Holds, Conn
  <1>1. /\ \A k \in 0 .. i - 1 : f[k] = e[k]
        /\ \A k \in i .. n - 2 : f[k] = e[k + 1]
        /\ \A k \in n .. Conns - 1 : f[k] = e[k]
    BY <1>0 DEF Shifted
  <1> HIDE DEF f
  <1>2. \A j, k \in 0 .. n - 1 : e[j] = e[k] => j = k
    <2> SUFFICES ASSUME NEW j \in 0 .. n - 1, NEW k \in 0 .. n - 1, e[j] = e[k] PROVE j = k
      OBVIOUS
    <2>1. e[j] \in Int /\ e[k] \in Int
      BY <1>0 DEF Holds
    <2>2. ~(j < k) /\ ~(k < j)
      BY <2>1 DEF Holds
    <2> QED BY <1>0, <2>2
  <1>3. ASSUME NEW k \in 0 .. n - 2 PROVE f[k] \in S \ {e[i]}
    <2>1. CASE k < i
      BY <1>0, <1>1, <1>2, <2>1 DEF Holds
    <2>2. CASE i <= k
      <3>1. f[k] = e[k + 1] /\ k + 1 \in 0 .. n - 1 /\ k + 1 # i
        BY <1>0, <1>1, <2>2
      <3> QED BY <1>0, <1>2, <3>1 DEF Holds
    <2> QED BY <1>0, <2>1, <2>2
  <1>4. ASSUME NEW b \in S \ {e[i]} PROVE \E k \in 0 .. n - 2 : f[k] = b
    <2>1. PICK k \in 0 .. n - 1 : e[k] = b
      BY DEF Holds
    <2>2. CASE k < i
      BY <1>0, <1>1, <2>1, <2>2
    <2>3. CASE i < k
      <3>1. k - 1 \in i .. n - 2 /\ (k - 1) + 1 = k
        BY <1>0, <2>3
      <3>2. f[k - 1] = b /\ k - 1 \in 0 .. n - 2
        BY <1>0, <1>1, <2>1, <3>1
      <3> QED BY <3>2
    <2> QED BY <1>0, <2>1, <2>2, <2>3
  <1>5. ASSUME NEW j \in 0 .. n - 2, NEW k \in 0 .. n - 2, j < k PROVE f[j] < f[k]
    <2>1. PICK jj \in 0 .. n - 1 : f[j] = e[jj] /\ jj = IF j < i THEN j ELSE j + 1
      BY <1>0, <1>1
    <2>2. PICK kk \in 0 .. n - 1 : f[k] = e[kk] /\ kk = IF k < i THEN k ELSE k + 1
      BY <1>0, <1>1
    <2>3. jj < kk
      BY <1>0, <1>5, <2>1, <2>2
    <2> QED BY <2>1, <2>2, <2>3 DEF Holds
  <1>6. \A k \in n .. Conns - 1 : f[k] = None
    BY <1>1 DEF Holds
  <1>7. n - 1 \in 0 .. Conns /\ (n - 1) - 1 = n - 2
    BY <1>0
  <1>8. Holds(f, n - 1, S \ {e[i]}, n)
    BY <1>3, <1>4, <1>5, <1>6, <1>7 DEF Holds
  <1> QED BY <1>8 DEF f

LEMMA HoldsClear ==
  ASSUME NEW e \in ArrayType, NEW n \in 0 .. Conns - 1, NEW S, Holds(e, n, S, n + 1)
  PROVE  Holds([e EXCEPT ![n] = None], n, S, n)
  <1> DEFINE f == [e EXCEPT ![n] = None]
  <1>0. Conns \in Nat
    BY ChatAssumption
  <1>1. f[n] = None /\ \A k \in 0 .. Conns - 1 : k # n => f[k] = e[k]
    BY DEF ArrayType
  <1> HIDE DEF f
  <1>2. \A k \in 0 .. n - 1 : f[k] = e[k]
    BY <1>0, <1>1
  <1>3. \A k \in n .. Conns - 1 : f[k] = None
    BY <1>0, <1>1 DEF Holds
  <1>4. Holds(f, n, S, n)
    BY <1>2, <1>3 DEF Holds
  <1> QED BY <1>4 DEF f

\* A step after which nothing overlaps leaves the removing thread alone.
LEMMA Apart ==
  ASSUME Observed, ~overlap' PROVE ~overlap /\ ~Overlap' /\ Alone'
  BY DEF Observed, Overlap, Alone

\* A step of thread c that leaves the array, its size and the beans present.
LEMMA ListFrame ==
  ASSUME ListOk, Alone', NEW c \in Conn, Only(c), UNCHANGED <<main, out>>,
         list'.elems = list.elems, list'.size = list.size, ~Taking(c), ~Taking(c)', PlaceOf(c)'
  PROVE  ListOk'
  <1>1. Present' = Present
    BY DEF Present, Added
  <1>2. \A d \in Conn : Taking(d)' = Taking(d) /\ (Taking(d) => th'[d] = th[d])
    BY DEF Only, Taking
  <1>3. StillArray => StillArray'
    BY <1>1 DEF StillArray
  <1>4. ArrayInv'
    BY <1>1, <1>2, <1>3 DEF ListOk, ArrayInv, TakenArray
  <1>5. ASSUME NEW d \in Conn PROVE PlaceOf(d)'
    <2>1. CASE d = c
      BY <2>1
    <2>2. CASE d # c
      <3>1. th'[d] = th[d] /\ PlaceOf(d)
        BY <2>2 DEF Only, ListOk
      <3> QED BY <3>1 DEF PlaceOf, HasItem, Taking
    <2> QED BY <2>1, <2>2
  <1> QED BY <1>4, <1>5 DEF ListOk

LEMMA ListRested ==
  ASSUME ListOk, Alone', NEW c \in Conn, NEW pc \in {"idle", "dead", "gone"}, Rested(c, pc),
         UNCHANGED <<main, out>>, list'.elems = list.elems, list'.size = list.size, ~Taking(c)
  PROVE  ListOk'
  <1>1. ~Taking(c)' /\ PlaceOf(c)' /\ Only(c)
    BY DEF Taking, PlaceOf, HasItem, Rested
  <1> QED BY <1>1, ListFrame

LEMMA ListWalk ==
  ASSUME BaseInv, ListOk, Alone', NEW c \in Conn,
         \/ Leave(c) \/ Test(c) \/ Get(c) \/ Deliver(c) \/ IterBegin(c) \/ IterHasNext(c)
         \/ IterNext(c) \/ Farewell(c) \/ Close(c)
  PROVE  ListOk'
  <1>0. TypeOK /\ ThreadInv(c) /\ PlaceOf(c)
    BY Zenon DEF BaseInv, ListOk
  <1>1. UNCHANGED <<main, list, out>>
    BY Zenon DEF Leave, Test, Get, Deliver, IterBegin, IterHasNext, IterNext, Farewell, Close
  <1> USE DEF Goes, Takes, Taking, PlaceOf, HasItem
  <1>2. CASE Leave(c)
    BY <1>0, <1>1, <1>2, LeaveEffect, ListRested
  <1>3. CASE Test(c)
    <2>1. CASE Rested(c, "idle")
      BY <1>0, <1>1, <1>3, <2>1, TestEffect, ListRested
    <2>2. CASE th[c].i < list.size /\ Goes(c, "get")
      BY <1>0, <1>1, <1>3, <2>2, TestEffect, ListFrame
    <2> QED BY <1>0, <1>3, <2>1, <2>2, TestEffect
  <1>4. CASE Get(c)
    <2>1. CASE Rested(c, "dead")
      BY <1>0, <1>1, <1>4, <2>1, GetEffect, ListRested
    <2>2. CASE GetMisses(c)
      <3>1. Takes(c, "test", th[c].i + 1, th[c].item, th[c].aux)
        BY <2>2, Zenon DEF GetMisses
      <3> QED BY <1>0, <1>1, <1>4, <3>1, GetEffect, ListFrame
    <2>3. CASE GetHits(c)
      <3>1. Takes(c, th[c].act, th[c].i, GotBean(c), th[c].aux) /\ th[c].act \in Actions
        BY <1>0, <2>3, ThreadFields, Zenon DEF GetHits
      <3>2. PlaceOf(c)'
        BY <1>0, <1>1, <1>4, <3>1, GetEffect DEF GotBean, Actions
      <3> QED BY <1>0, <1>1, <1>4, <3>1, <3>2, GetEffect, ListFrame DEF Actions
    <2> QED BY <1>0, <1>4, <2>1, <2>2, <2>3, GetEffect
  <1>5. CASE Deliver(c)
    BY <1>0, <1>1, <1>5, DeliverEffect, ListRested
  <1>6. CASE IterBegin(c)
    <2>1. CASE Rested(c, "dead")
      BY <1>0, <1>1, <1>6, <2>1, IterBeginEffect, ListRested
    <2>2. CASE Takes(c, "iter", 0, th[c].item, list.mod)
      BY <1>0, <1>1, <1>6, <2>2, IterBeginEffect, ListFrame
    <2> QED BY <1>0, <1>6, <2>1, <2>2, IterBeginEffect
  <1>7. CASE IterHasNext(c)
    <2>1. CASE Rested(c, "idle")
      BY <1>0, <1>1, <1>7, <2>1, IterHasNextEffect, ListRested
    <2>2. CASE Goes(c, "next")
      BY <1>0, <1>1, <1>7, <2>2, IterHasNextEffect, ListFrame
    <2> QED BY <1>0, <1>7, <2>1, <2>2, IterHasNextEffect
  <1>8. CASE IterNext(c)
    <2>1. CASE Rested(c, "dead")
      BY <1>0, <1>1, <1>8, <2>1, IterNextEffect, ListRested
    <2>2. CASE Takes(c, "iter", th[c].i + 1, th[c].item, th[c].aux)
      BY <1>0, <1>1, <1>8, <2>2, IterNextEffect, ListFrame
    <2> QED BY <1>0, <1>8, <2>1, <2>2, IterNextEffect
  <1>9. CASE Farewell(c)
    <2>1. CASE Rested(c, "dead")
      BY <1>0, <1>1, <1>9, <2>1, FarewellEffect, ListRested
    <2>2. CASE Goes(c, "close")
      BY <1>0, <1>1, <1>9, <2>2, FarewellEffect, ListFrame
    <2> QED BY <1>0, <1>9, <2>1, <2>2, FarewellEffect
  <1>10. CASE Close(c)
    BY <1>0, <1>1, <1>10, CloseEffect, ListFrame
  <1> QED BY <1>2, <1>3, <1>4, <1>5, <1>6, <1>7, <1>8, <1>9, <1>10

LEMMA ListRequest ==
  ASSUME BaseInv, ListOk, Alone', NEW c \in Conn, NEW act \in Actions, NEW dev \in Devices,
         Request(c, act, dev)
  PROVE  ListOk'
  <1>1. TypeOK /\ UNCHANGED <<main, list, out>>
    BY DEF BaseInv, Request
  <1>2. ~Taking(c) /\ ~Taking(c)' /\ PlaceOf(c)' /\ Only(c)
    BY <1>1, RequestEffect DEF Taking, PlaceOf, HasItem
  <1> QED BY <1>1, <1>2, ListFrame

LEMMA ArrayTyped == ASSUME TypeOK PROVE list.elems \in ArrayType /\ list.size \in Int
  BY Types DEF ListType

\* A LOGIN stores the bean where it already is.
LEMMA ListSet ==
  ASSUME BaseInv, ListOk, Alone', NEW c \in Conn, Set(c)
  PROVE  ListOk'
  <1>0. TypeOK /\ PlaceOf(c) /\ UNCHANGED <<main, out>>
    BY DEF BaseInv, ListOk, Set
  <1>1. /\ th[c].pc = "LOGIN" /\ th[c].i < list.size /\ list.elems[th[c].i] = th[c].item
        /\ list.elems \in ArrayType
    BY <1>0, SetEffect, ArrayTyped DEF PlaceOf, HasItem, Taking
  <1>2. Rested(c, "idle") /\ ListOf([list.elems EXCEPT ![th[c].i] = th[c].item], list.size, list.mod)
    BY <1>0, <1>1, SetEffect
  <1>3. [list.elems EXCEPT ![th[c].i] = th[c].item] = list.elems
    BY <1>1 DEF ArrayType
  <1>4. list'.elems = list.elems /\ list'.size = list.size
    BY <1>2, <1>3 DEF ListOf
  <1> QED BY <1>0, <1>1, <1>2, <1>4, ListRested DEF Taking

LEMMA ListRemoveCheck ==
  ASSUME BaseInv, ListOk, Alone', NEW c \in Conn, RemoveCheck(c)
  PROVE  ListOk'
  <1>0. TypeOK /\ PlaceOf(c) /\ UNCHANGED <<main, out>>
    BY DEF BaseInv, ListOk, RemoveCheck
  <1>1. th[c].pc = "remove" /\ th[c].i < list.size /\ list.elems[th[c].i] = th[c].item
    BY <1>0, RemoveCheckEffect DEF PlaceOf, HasItem, Taking
  <1>2. /\ Takes(c, "copy", th[c].i, th[c].item, list.size - 1)
        /\ list'.elems = list.elems /\ list'.size = list.size
    BY <1>0, <1>1, RemoveCheckEffect DEF ListOf
  <1>3. Only(c) /\ ~Taking(c) /\ ~Taking(c)' /\ PlaceOf(c)'
    BY <1>1, <1>2 DEF Taking, PlaceOf, HasItem, Takes
  <1> QED BY <1>0, <1>2, <1>3, ListFrame

\* While c removes a bean, no other thread uses the list.
LEMMA OthersAway ==
  ASSUME ListOk, NEW c \in Conn, Removing(c), NEW d \in Conn \ {c}
  PROVE  /\ ~Adding /\ ~Busy(d) /\ ~HasItem(d) /\ ~Taking(d) /\ th[d].pc \notin {"copy", "get"}
  <1>1. ~Adding /\ ~Busy(d)
    BY DEF ListOk, Alone
  <1> QED BY <1>1 DEF Busy, HasItem, Taking

\* The steps of c while it moves beans, by what they leave in the array.
LEMMA TakingFrame ==
  ASSUME ListOk, Alone', NEW c \in Conn, Removing(c), Only(c), UNCHANGED main,
         PlaceOf(c)', ~Taking(c)' => StillArray', Taking(c)' => TakenArray(c)'
  PROVE  ListOk'
  <1>1. ASSUME NEW d \in Conn PROVE PlaceOf(d)' /\ (d # c => ~Taking(d)')
    <2>1. CASE d = c
      BY <2>1
    <2>2. CASE d # c
      <3>1. th'[d] = th[d]
        BY <2>2 DEF Only
      <3> QED BY <2>2, <3>1, OthersAway DEF PlaceOf, HasItem, Taking
    <2> QED BY <2>1, <2>2
  <1>2. main'.pc # "grow" /\ main'.pc # "ended"
    BY DEF ListOk, Alone, Adding
  <1>3. ArrayInv'
    BY <1>1, <1>2 DEF ArrayInv
  <1> QED BY <1>1, <1>2, <1>3 DEF ListOk

LEMMA ListRemoveCopy ==
  ASSUME BaseInv, ListOk, Alone', NEW c \in Conn, RemoveCopy(c)
  PROVE  ListOk'
  <1>0. TypeOK /\ ThreadInv(c) /\ PlaceOf(c) /\ UNCHANGED <<main, out>>
    BY DEF BaseInv, ListOk, RemoveCopy
  <1>1. th[c].pc = "copy" /\ Goes(c, "shrink") /\ ListOf(Moved(c), list.size, list.mod)
    BY <1>0, RemoveCopyEffect
  <1>2. /\ th[c].aux = list.size - 1 /\ th[c].i < list.size /\ list.elems[th[c].i] = th[c].item
        /\ Removing(c) /\ ~Taking(c)
    BY <1>0, <1>1 DEF PlaceOf, HasItem, Taking, Removing
  <1>3. /\ list.elems \in ArrayType /\ list.size \in Int /\ th[c].i \in 0 .. list.size - 1
        /\ Present \in SUBSET Conn
    BY <1>0, <1>2, ArrayTyped, ThreadFields, AddedConns DEF Present
  <1>4. Holds(list.elems, list.size, Present, list.size)
    <2>1. \A d \in Conn : ~Taking(d)
      BY <1>2, OthersAway
    <2>2. ~Adding
      BY <1>2 DEF ListOk, Alone
    <2> QED BY <2>1, <2>2 DEF ListOk, ArrayInv, StillArray, Adding
  <1>5. Moved(c) = Shifted(list.elems, th[c].i, list.size)
    <2>1. DOMAIN list.elems = 0 .. Conns - 1
      BY <1>3 DEF ArrayType
    <2> QED BY <1>2, <2>1, Zenon DEF Moved, Shifted
  <1>6. Holds(Moved(c), list.size - 1, Present \ {th[c].item}, list.size)
    BY <1>2, <1>3, <1>4, <1>5, HoldsDrop
  <1>7. Present' = Present /\ list'.elems = Moved(c) /\ list'.size = list.size
    BY <1>0, <1>1 DEF Present, Added, ListOf
  <1>8. Taking(c)' /\ TakenArray(c)' /\ PlaceOf(c)' /\ Only(c)
    BY <1>1, <1>2, <1>3, <1>6, <1>7 DEF Taking, TakenArray, PlaceOf, HasItem, Goes, Takes
  <1> QED BY <1>0, <1>2, <1>8, TakingFrame

LEMMA ListRemoveRead ==
  ASSUME BaseInv, ListOk, Alone', NEW c \in Conn, RemoveRead(c)
  PROVE  ListOk'
  <1>0. TypeOK /\ UNCHANGED <<main, list, out>>
    BY DEF BaseInv, RemoveRead
  <1>1. th[c].pc = "shrink" /\ Takes(c, "write", th[c].i, th[c].item, list.size - 1)
    BY <1>0, RemoveReadEffect
  <1>2. Taking(c) /\ Removing(c) /\ TakenArray(c) /\ list.size - 1 = th[c].aux
    BY <1>0, <1>1, ThreadFields DEF Taking, Removing, ListOk, ArrayInv, TakenArray
  <1>3. Present' = Present
    BY <1>0 DEF Present, Added
  <1>4. Taking(c)' /\ TakenArray(c)' /\ PlaceOf(c)' /\ Only(c)
    BY <1>0, <1>1, <1>2, <1>3 DEF Taking, TakenArray, PlaceOf, HasItem, Takes
  <1> QED BY <1>0, <1>2, <1>4, TakingFrame

LEMMA ListRemoveWrite ==
  ASSUME BaseInv, ListOk, Alone', NEW c \in Conn, RemoveWrite(c)
  PROVE  ListOk'
  <1>0. TypeOK /\ UNCHANGED <<main, out>>
    BY DEF BaseInv, RemoveWrite
  <1>1. th[c].pc = "write" /\ Goes(c, "clear") /\ ListOf(list.elems, th[c].aux, list.mod)
    BY <1>0, RemoveWriteEffect
  <1>2. Taking(c) /\ Removing(c) /\ TakenArray(c)
    BY <1>1 DEF Taking, Removing, ListOk, ArrayInv
  <1>3. Present' = Present
    BY <1>0 DEF Present, Added
  <1>4. Taking(c)' /\ TakenArray(c)' /\ PlaceOf(c)' /\ Only(c)
    BY <1>0, <1>1, <1>2, <1>3 DEF Taking, TakenArray, PlaceOf, HasItem, Goes, Takes, ListOf
  <1> QED BY <1>0, <1>2, <1>4, TakingFrame

LEMMA ListRemoveClear ==
  ASSUME BaseInv, ListOk, Alone', NEW c \in Conn, RemoveClear(c)
  PROVE  ListOk'
  <1>0. TypeOK /\ ThreadInv(c) /\ UNCHANGED main
    BY DEF BaseInv, RemoveClear
  <1>1. th[c].pc = "clear" /\ out' = out \cup {th[c].item}
    BY <1>0, RemoveClearEffect
  <1>2. Taking(c) /\ Removing(c) /\ TakenArray(c)
    BY <1>1 DEF Taking, Removing, ListOk, ArrayInv
  <1>3. th[c].aux \in 0 .. Conns - 1
    BY <1>0, <1>1, <1>2, AddedConns, Types DEF ThreadInv, TakenArray, Holds
  <1>4. Rested(c, "idle") /\ ListOf([list.elems EXCEPT ![th[c].aux] = None], list.size, list.mod)
    BY <1>0, <1>3, RemoveClearEffect
  <1>5. Present' = Present \ {th[c].item}
    BY <1>0, <1>1 DEF Present, Added
  <1>6. list'.size = th[c].aux /\ Holds(list'.elems, th[c].aux, Present', th[c].aux)
    BY <1>0, <1>1, <1>2, <1>3, <1>4, <1>5, ArrayTyped, HoldsClear DEF TakenArray, ListOf
  <1>7. main'.pc # "store"
    BY <1>0, <1>2 DEF ListOk, Alone, Adding
  <1>8. ~Taking(c)' /\ StillArray' /\ PlaceOf(c)' /\ Only(c)
    BY <1>4, <1>6, <1>7 DEF Taking, StillArray, PlaceOf, HasItem, Rested
  <1> QED BY <1>0, <1>2, <1>8, TakingFrame

\* While the main thread adds a bean, or may, no thread removes one.
LEMMA NobodyTaking ==
  ASSUME ListOk, Adding \/ Adding', Alone', UNCHANGED th
  PROVE  \A d \in Conn : ~Removing(d) /\ ~Taking(d)
  <1>1. \A d \in Conn : ~Removing(d)
    BY DEF ListOk, Alone, Removing
  <1> QED BY <1>1 DEF Removing, Taking

LEMMA ListMain ==
  ASSUME BaseInv, ListOk, Alone', Main
  PROVE  ListOk'
  <1>0. /\ TypeOK /\ MainInv /\ ListedInv /\ ArrayInv /\ UNCHANGED out
        /\ \A d \in Conn : PlaceOf(d)
    BY DEF BaseInv, ListOk, Main, NewBean, Accept, AddGrow, AddStore
  <1>1. /\ Conns \in Nat /\ main.made \in Int /\ 0 <= main.made /\ main.made <= Conns
        /\ main.slot \in Int /\ list.size \in Int /\ list.elems \in ArrayType
    BY <1>0, MainTyped, ArrayTyped
  <1>2. CASE NewBean
    <2>1. main.pc = "new" /\ MainOf("accept", main.made + 1, main.slot) /\ UNCHANGED <<list, th>>
      BY <1>0, <1>2, NewBeanEffect DEF NewBean
    <2>2. Present' = Present
      BY <1>0, <1>1, <2>1 DEF Present, Added, MainOf
    <2>3. (StillArray => StillArray') /\ \A d \in Conn : TakenArray(d) => TakenArray(d)'
      BY <2>1, <2>2 DEF StillArray, TakenArray, MainOf
    <2>4. ArrayInv' /\ \A d \in Conn : PlaceOf(d)'
      BY <1>0, <2>1, <2>3 DEF ArrayInv, Taking, PlaceOf, HasItem, MainOf
    <2> QED BY <2>1, <2>4 DEF ListOk, MainOf
  <1>3. CASE Accept
    <2>1. /\ main.pc = "accept" /\ MainOf("grow", main.made, list.size) /\ UNCHANGED th
          /\ list'.elems = list.elems /\ list'.size = list.size
      BY <1>0, <1>3, AcceptEffect DEF Accept, ListOf
    <2>2. Present' = Present /\ Adding'
      BY <1>0, <2>1 DEF Present, Added, MainOf, Adding
    <2>3. \A d \in Conn : ~Taking(d) /\ ~Taking(d)'
      BY <2>1, <2>2, NobodyTaking DEF Taking
    <2>4. StillArray'
      BY <1>0, <2>1, <2>2, <2>3 DEF ArrayInv, StillArray, MainOf
    <2>5. ArrayInv' /\ \A d \in Conn : PlaceOf(d)'
      BY <1>0, <2>1, <2>3, <2>4 DEF ArrayInv, Taking, PlaceOf, HasItem, MainOf
    <2> QED BY <2>1, <2>5 DEF ListOk, MainOf
  <1>4. CASE AddGrow
    <2>1. /\ main.pc = "grow" /\ MainOf("store", main.made, main.slot) /\ UNCHANGED th
          /\ list'.elems = list.elems /\ list'.size = main.slot + 1
      BY <1>0, <1>4, AddGrowEffect DEF AddGrow, ListOf
    <2>2. Present' = Present /\ Adding /\ main.slot = list.size
      BY <1>0, <2>1 DEF Present, Added, MainOf, Adding, ArrayInv
    <2>3. \A d \in Conn : ~Removing(d) /\ ~Taking(d) /\ ~Taking(d)'
      BY <2>1, <2>2, NobodyTaking DEF Taking
    <2>4. StillArray'
      BY <1>0, <2>1, <2>2, <2>3 DEF ArrayInv, StillArray, MainOf
    <2>5. ArrayInv'
      BY <2>1, <2>3, <2>4 DEF ArrayInv, MainOf
    <2>6. ASSUME NEW d \in Conn PROVE PlaceOf(d)'
      <3>1. th'[d] = th[d] /\ th[d].i \in Int /\ ~Removing(d) /\ PlaceOf(d)
        BY <1>0, <2>1, <2>3, ThreadFields
      <3> QED BY <1>1, <2>1, <2>2, <3>1 DEF PlaceOf, HasItem, Taking, Removing
    <2> QED BY <2>1, <2>5, <2>6 DEF ListOk, MainOf
  <1>5. CASE AddStore
    <2>1. main.pc = "store" /\ main.made \in Conn /\ Adding
      BY <1>0, <1>5, AddStoreEffect DEF Adding
    <2>2. \A d \in Conn : ~Removing(d) /\ ~Taking(d)
      BY <2>1 DEF ListOk, Alone, Removing, Taking
    <2>3. list.size = main.slot + 1 /\ Holds(list.elems, main.slot, Present, main.slot)
      BY <1>0, <2>1, <2>2 DEF ArrayInv, StillArray
    <2>4. main.slot \in 0 .. Conns - 1
      BY <1>0, <1>1, <2>1, <2>3 DEF Holds, MainInv
    <2>5. /\ MainOf("new", main.made, 0) /\ Rested(main.made, "idle")
          /\ ListOf([list.elems EXCEPT ![main.slot] = main.made], list.size, list.mod)
      BY <1>0, <1>5, <2>4, AddStoreEffect
    <2>6. /\ Present' = Present \cup {main.made} /\ Present \in SUBSET Conn
          /\ \A b \in Present : b < main.made
      BY <1>0, <1>1, <2>1, <2>5 DEF Present, Added, MainOf, ListedInv, Conn
    <2>7. Holds(list'.elems, list'.size, Present', list'.size)
      BY <1>1, <2>1, <2>3, <2>4, <2>5, <2>6, HoldsAdd DEF ListOf
    <2>8. /\ th'[main.made].pc = "idle" /\ \A d \in Conn \ {main.made} : th'[d] = th[d]
          /\ \A d \in Conn : ~Taking(d)'
      BY <2>2, <2>5 DEF Rested, Only, Taking
    <2>9. ArrayInv'
      BY <2>5, <2>7, <2>8 DEF ArrayInv, StillArray, MainOf
    <2>10. /\ list'.size = list.size /\ list.elems[main.slot] = None
           /\ \A k \in 0 .. Conns - 1 : k # main.slot => list'.elems[k] = list.elems[k]
      BY <1>1, <2>3, <2>4, <2>5 DEF ListOf, ArrayType, Holds
    <2>11. ASSUME NEW d \in Conn PROVE PlaceOf(d)'
      <3>1. CASE d = main.made
        BY <2>8, <3>1 DEF PlaceOf, HasItem
      <3>2. CASE d # main.made
        <4>1. th'[d] = th[d] /\ PlaceOf(d) /\ ~Taking(d)
          BY <1>0, <2>2, <2>8, <3>2
        <4>2. ASSUME HasItem(d) PROVE list'.elems[th[d].i] = th[d].item
          <5>1. th[d].item \in Added /\ th[d].i \in Int /\ 0 <= th[d].i
            BY <1>0, <4>2, ThreadFields DEF BaseInv, ThreadInv
          <5>2. th[d].item # None /\ list.elems[th[d].i] = th[d].item /\ th[d].i < list.size
            BY <1>0, <4>1, <4>2, <5>1, AddedConns DEF PlaceOf, Conn, None
          <5>3. th[d].i \in 0 .. Conns - 1 /\ th[d].i # main.slot
            BY <1>1, <2>3, <2>4, <2>10, <5>1, <5>2
          <5> QED BY <2>10, <5>2, <5>3
        <4> QED BY <2>10, <4>1, <4>2 DEF PlaceOf, HasItem, Taking
      <3> QED BY <3>1, <3>2
    <2> QED BY <2>5, <2>9, <2>11 DEF ListOk, MainOf
  <1> QED BY <1>2, <1>3, <1>4, <1>5 DEF Main

LEMMA ListInit == ASSUME Init PROVE ListInv
  <1>1. \A c \in Conn : th[c].pc = "unborn"
    BY Rests DEF Init, Pcs
  <1>2. main.pc = "new" /\ Alone /\ \A c \in Conn : PlaceOf(c) /\ ~Taking(c)
    BY <1>1 DEF Init, Alone, Removing, PlaceOf, HasItem, Taking
  <1>3. Holds(list.elems, list.size, Present, list.size)
    BY ChatAssumption DEF Init, Holds, Present, Added
  <1> QED BY <1>2, <1>3 DEF ListInv, ListOk, ArrayInv, StillArray

LEMMA ListStep == ASSUME BaseInv, ListInv, [Next]_vars PROVE ListInv'
  <1>1. CASE Next
    <2> SUFFICES ASSUME ~overlap' PROVE ListOk'
      BY DEF ListInv
    <2>0. ListOk /\ Alone'
      BY <1>1, Apart DEF Next, ListInv
    <2>1. CASE Main
      BY <2>0, <2>1, ListMain
    <2>2. ASSUME NEW c \in Conn, Thread(c) \/ Leave(c) PROVE ListOk'
      BY <2>0, <2>2, ListWalk, ListSet, ListRemoveCheck, ListRemoveCopy, ListRemoveRead,
         ListRemoveWrite, ListRemoveClear DEF Thread
    <2>3. ASSUME NEW c \in Conn, NEW act \in Actions, NEW dev \in Devices, Request(c, act, dev)
          PROVE  ListOk'
      BY <2>0, <2>3, ListRequest
    <2> QED BY <1>1, <2>1, <2>2, <2>3 DEF Next
  <1>2. CASE UNCHANGED vars
    <2>1. Alone' = Alone /\ ArrayInv' = ArrayInv /\ \A c \in Conn : PlaceOf(c)' = PlaceOf(c)
      BY <1>2 DEF vars, Alone, Removing, Adding, Busy, ArrayInv, Taking, StillArray, TakenArray,
                  Present, Added, PlaceOf, HasItem
    <2> QED BY <1>2, <2>1 DEF vars, ListInv, ListOk
  <1> QED BY <1>1, <1>2

(* For any number of connections, as long as no LOGOUT has met another      *)
(* request or a new connection, the list between calls is exactly the beans *)
(* added and not logged out, in order.                                      *)
THEOREM ChatListExact == Spec => []ListExact
  <1>1. Init => BaseInv /\ ListInv
    BY BaseInit, ListInit
  <1>2. BaseInv /\ ListInv /\ [Next]_vars => (BaseInv /\ ListInv)'
    BY BaseStep, ListStep
  <1>3. ListInv => ListExact
    <2> SUFFICES ASSUME ListOk, Quiet PROVE Holds(list.elems, list.size, Present, list.size)
      BY DEF ListInv, ListExact
    <2>1. ~Adding /\ \A c \in Conn : ~Taking(c)
      BY DEF Quiet, Removing, Taking
    <2> QED BY <2>1 DEF ListOk, ArrayInv, StillArray, Adding
  <1> QED BY <1>1, <1>2, <1>3, PTL DEF Spec

----------------------------------------------------------------------------
(* Why threads survive *)

\* A thread that walks over the list meets nobody who removes from it.
LEMMA WalksAlone ==
  ASSUME ListOk, NEW c \in Conn, Busy(c), ~Taking(c)
  PROVE  StillArray /\ \A d \in Conn \ {c} : ~Removing(d) /\ ~Closed(d)
  <1>1. \A d \in Conn \ {c} : ~Removing(d)
    BY DEF ListOk, Alone
  <1>2. \A d \in Conn : ~Taking(d)
    BY <1>1 DEF Removing, Taking
  <1> QED BY <1>1, <1>2 DEF ListOk, ArrayInv, Closed, Removing

\* The place of a listed bean holds a bean that is present.
LEMMA PlacePresent ==
  ASSUME StillArray, TypeOK, NEW k \in 0 .. Conns, k < list.size, list.elems[k] # None
  PROVE  list.elems[k] \in Present
  <1>1. list.size \in Int /\ main.slot \in Int /\ Conns \in Nat
    BY MainTyped
  <1>2. CASE main.pc = "store"
    <2>1. Holds(list.elems, main.slot, Present, main.slot) /\ list.size = main.slot + 1
      BY <1>2 DEF StillArray
    <2>2. main.slot < Conns
      BY MainTyped
    <2>3. k # main.slot
      BY <1>1, <2>1, <2>2 DEF Holds
    <2> QED BY <1>1, <2>1, <2>3 DEF Holds
  <1>3. CASE main.pc # "store"
    BY <1>1, <1>3 DEF StillArray, Holds
  <1> QED BY <1>2, <1>3

\* A bean that a request has found is not closed.
LEMMA FoundOpen ==
  ASSUME BaseInv, ListOk, ClosedInv, NEW c \in Conn, HasItem(c), ~Closed(c)
  PROVE  th[c].item \in Conn /\ ~bean[th[c].item].closed
  <1>1. Busy(c) /\ ~Taking(c)
    BY DEF HasItem, Busy, Closed, Taking
  <1>2. StillArray /\ \A d \in Conn \ {c} : ~Closed(d)
    BY <1>1, WalksAlone
  <1>3. TypeOK /\ th[c].item \in Added /\ th[c].item \in Conn /\ th[c].item # None
    BY AddedConns DEF BaseInv, ThreadInv, Conn, None
  <1>4. th[c].i \in 0 .. Conns /\ th[c].i < list.size /\ list.elems[th[c].i] = th[c].item
    BY <1>1, <1>3, ThreadFields DEF ListOk, PlaceOf, IndexType
  <1>5. th[c].item \notin out
    BY <1>2, <1>3, <1>4, PlacePresent DEF Present
  <1> QED BY <1>2, <1>3, <1>5 DEF ClosedInv

ListSame == list'.elems = list.elems /\ list'.size = list.size /\ list'.mod = list.mod

\* The step of one thread.
LEMMA LifeFrame ==
  ASSUME Observed, ~overlap', ListOk, LifeOk, NEW c \in Conn, Only(c), out \subseteq out', BeanStays,
         ListSame \/ Removing(c), ClosedInv', AheadOf(c)', ~early' => IterOf(c)' /\ Survives(c)'
  PROVE  LifeOk'
  <1>1. (Early' => early') /\ (~early' => ~early)
    BY DEF Observed
  <1>2. ASSUME NEW d \in Conn \ {c} PROVE AheadOf(d)' /\ (~early' => IterOf(d)' /\ Survives(d)')
    <2>1. th'[d] = th[d] /\ AheadOf(d) /\ (~early' => IterOf(d) /\ Survives(d))
      BY <1>1 DEF Only, LifeOk
    <2>2. CASE ListSame
      BY <2>1, <2>2 DEF ListSame, AheadOf, IterOf, Survives, BeanStays
    <2>3. CASE Removing(c)
      <3>1. ~Busy(d)
        BY <2>3, OthersAway
      <3> QED BY <2>1, <3>1 DEF Busy, AheadOf, IterOf, Survives, BeanStays
    <2> QED BY <2>2, <2>3
  <1> QED BY <1>1, <1>2 DEF LifeOk

\* The step of a thread that closes no bean and takes none out.
LEMMA ClosedFrame ==
  ASSUME ClosedInv, NEW c \in Conn, Only(c), UNCHANGED out,
         \A b \in Conn : bean'[b].closed => bean[b].closed,
         Closed(c) => Closed(c)' /\ th'[c].item = th[c].item
  PROVE  ClosedInv'
  <1> SUFFICES ASSUME NEW b \in Conn, bean[b].closed, b \notin out
               PROVE  \E d \in Conn : Closed(d)' /\ th'[d].item = b
    BY DEF ClosedInv
  <1>1. PICK d \in Conn : Closed(d) /\ th[d].item = b
    BY DEF ClosedInv
  <1>2. Closed(d)' /\ th'[d].item = b
    BY <1>1 DEF Only, Closed
  <1> QED BY <1>2

\* A step after which c rests.
LEMMA LifeRested ==
  ASSUME Observed, ~overlap', ListOk, LifeOk, NEW c \in Conn, NEW pc \in {"idle", "dead", "gone"},
         Rested(c, pc), UNCHANGED <<out, bean>>, ListSame, ~Closed(c),
         pc = "dead" /\ ~early' => bean[c].closed
  PROVE  LifeOk'
  <1>1. Only(c) /\ AheadOf(c)' /\ IterOf(c)' /\ (~early' => Survives(c)')
    BY DEF Rested, AheadOf, IterOf, Survives
  <1>2. ClosedInv' /\ BeanStays
    BY <1>1, ClosedFrame DEF LifeOk, BeanStays
  <1> QED BY <1>1, <1>2, LifeFrame

\* A step of c before it removes anything.
LEMMA LifeTakes ==
  ASSUME Observed, ~overlap', ListOk, LifeOk, NEW c \in Conn, Only(c), UNCHANGED <<out, bean>>,
         ListSame, ~Closed(c), th'[c].pc # "dead", AheadOf(c)', ~early' => IterOf(c)'
  PROVE  LifeOk'
  <1>1. ClosedInv' /\ BeanStays /\ Survives(c)'
    BY ClosedFrame DEF LifeOk, BeanStays, Survives
  <1> QED BY <1>1, LifeFrame

\* get throws only in the thread of a bean that was logged out, if it meets
\* nobody who has not logged in.
LEMMA GetSurvives ==
  ASSUME BaseInv, ListOk, LifeOk, ~early, NEW c \in Conn, th[c].pc = "get", GetFails(c)
  PROVE  bean[c].closed
  <1>1. TypeOK /\ ListedInv /\ Busy(c) /\ ~Taking(c)
    BY DEF BaseInv, Busy, Taking
  <1>2. /\ StillArray /\ th[c].i \in 0 .. Conns /\ th[c].i < list.size /\ list.size <= Conns
        /\ list.size \in Int /\ Conns \in Nat /\ main.slot \in Int
    BY <1>1, WalksAlone, ThreadFields, MainTyped DEF ListOk, PlaceOf, IndexType
  <1>3. CASE th[c].act # "LOGIN"
    <2>1. ~Adding /\ \A b \in Listed : bean[b].device # None
      BY <1>1, <1>3 DEF LifeOk, Early
    <2>2. Holds(list.elems, list.size, Present, list.size)
      BY <1>2, <2>1 DEF StillArray, Adding
    <2>3. GotBean(c) \in Present /\ GotBean(c) # None
      BY <1>1, <1>2, <2>2, AddedConns DEF Holds, GotBean, Present, Conn, None
    <2>4. GotBean(c) \in Listed
      <3>1. th[c].i \in DOMAIN list.elems
        BY <1>1, <1>2, ArrayTyped DEF ArrayType
      <3> QED BY <2>3, <3>1 DEF Listed, GotBean
    <2> QED BY <1>2, <2>1, <2>3, <2>4 DEF GetFails
  <1>4. CASE th[c].act = "LOGIN"
    <2>1. GotBean(c) = None
      BY <1>2, <1>4 DEF GetFails, AsksDevice
    <2>2. CASE c \in out
      BY <1>1, <2>2 DEF ListedInv
    <2>3. CASE c \notin out
      <3>1. PICK k \in th[c].i .. list.size - 1 : list.elems[k] = c
        BY <1>4, <2>3 DEF LifeOk, AheadOf
      <3>2. k # th[c].i
        BY <2>1, <3>1 DEF GotBean, Conn, None
      <3> DEFINE m == IF main.pc = "store" THEN main.slot ELSE list.size
      <3>3. m \in 0 .. Conns /\ Holds(list.elems, m, Present, m) /\ list.size <= m + 1
        <4>1. Holds(list.elems, m, Present, m) /\ list.size <= m + 1
          BY <1>2 DEF StillArray
        <4> QED BY <4>1 DEF Holds
      <3> HIDE DEF m
      <3>4. PICK n \in 0 .. Conns : Holds(list.elems, n, Present, n) /\ list.size <= n + 1
        BY <3>3, Zenon
      <3>5. th[c].i \in 0 .. n - 1
        BY <1>2, <3>1, <3>2, <3>4
      <3>6. GotBean(c) \in Present
        BY <3>4, <3>5 DEF Holds, GotBean
      <3> QED BY <1>1, <2>1, <3>6, AddedConns DEF Present, Conn, None
    <2> QED BY <2>2, <2>3
  <1> QED BY <1>3, <1>4

LEMMA LifeWalk ==
  ASSUME BaseInv, Observed, ~overlap', ListOk, LifeOk, NEW c \in Conn,
         \/ Leave(c) \/ Test(c) \/ Deliver(c) \/ IterBegin(c) \/ IterHasNext(c)
         \/ IterNext(c) \/ Farewell(c)
  PROVE  LifeOk'
  <1>0. /\ TypeOK /\ PlaceOf(c) /\ AheadOf(c) /\ ClosedInv /\ (Early => early)
        /\ UNCHANGED <<main, list, bean, out>> /\ ListSame
    BY DEF BaseInv, ListOk, LifeOk, ListSame, Leave, Test, Deliver, IterBegin, IterHasNext,
           IterNext, Farewell
  <1>1. ~early' => ~early /\ IterOf(c)
    BY DEF Observed, LifeOk
  <1>2. /\ th[c].i \in 0 .. Conns /\ th[c].i \in Int /\ list.size \in Int
        /\ list.size <= Conns /\ Conns \in Nat
    BY <1>0, ThreadFields, MainTyped DEF IndexType
  <1> USE DEF Goes, Takes, AheadOf, IterOf
  <1>3. CASE Leave(c)
    <2>1. th[c].pc = "idle" /\ Rested(c, IF bean[c].closed THEN "dead" ELSE "gone")
      BY <1>0, <1>3, LeaveEffect
    <2> QED BY <1>0, <2>1, LifeRested DEF Closed
  <1>4. CASE Test(c)
    <2>1. CASE Rested(c, "idle")
      BY <1>0, <1>4, <2>1, TestEffect, LifeRested DEF Closed
    <2>2. CASE Goes(c, "get")
      <3>1. th[c].pc = "test" /\ ~Closed(c) /\ AheadOf(c)' /\ IterOf(c)'
        BY <1>0, <1>4, <2>2, TestEffect DEF Closed
      <3> QED BY <1>0, <2>2, <3>1, LifeTakes
    <2> QED BY <1>0, <1>4, <2>1, <2>2, TestEffect
  <1>5. CASE Deliver(c)
    <2>1. th[c].pc = "SENDMSG" /\ ~bean[th[c].item].closed
      BY <1>0, <1>5, DeliverEffect, FoundOpen DEF HasItem, Closed
    <2>2. Rested(c, "idle")
      BY <1>0, <1>5, <2>1, DeliverEffect
    <2> QED BY <1>0, <2>1, <2>2, LifeRested DEF Closed
  <1>6. CASE IterBegin(c)
    <2>1. th[c].pc = "GETLIST" /\ ~bean[th[c].item].closed
      BY <1>0, <1>6, IterBeginEffect, FoundOpen DEF HasItem, Closed
    <2>2. Takes(c, "iter", 0, th[c].item, list.mod)
      BY <1>0, <1>6, <2>1, IterBeginEffect
    <2>3. 0 <= list.size
      BY <1>0, <1>2, <2>1 DEF PlaceOf, HasItem, Taking
    <2>4. ~Closed(c) /\ AheadOf(c)' /\ IterOf(c)'
      BY <1>0, <1>2, <2>1, <2>2, <2>3 DEF Closed
    <2> QED BY <1>0, <2>2, <2>4, LifeTakes
  <1>7. CASE IterHasNext(c)
    <2>1. CASE Rested(c, "idle")
      BY <1>0, <1>7, <2>1, IterHasNextEffect, LifeRested DEF Closed
    <2>2. CASE th[c].i # list.size /\ Goes(c, "next")
      <3>1. th[c].pc = "iter" /\ ~Closed(c) /\ AheadOf(c)'
        BY <1>0, <1>7, <2>2, IterHasNextEffect DEF Closed
      <3>2. ~early' => IterOf(c)'
        BY <1>0, <1>1, <1>2, <2>2, <3>1
      <3> QED BY <1>0, <2>2, <3>1, <3>2, LifeTakes
    <2> QED BY <1>0, <1>7, <2>1, <2>2, IterHasNextEffect
  <1>8. CASE IterNext(c)
    <2>1. th[c].pc = "next" /\ ~Closed(c) /\ Busy(c) /\ ~Taking(c) /\ th[c].act # "LOGIN"
      BY <1>0, <1>8, IterNextEffect DEF Closed, Busy, Taking, BaseInv, ThreadInv
    <2>2. CASE Takes(c, "iter", th[c].i + 1, th[c].item, th[c].aux)
      <3>1. AheadOf(c)' /\ (~early' => IterOf(c)')
        BY <1>0, <1>1, <1>2, <2>1, <2>2
      <3> QED BY <1>0, <2>1, <2>2, <3>1, LifeTakes
    <2>3. CASE /\ ~(th[c].aux = list.mod /\ th[c].i < list.size /\ list.elems[th[c].i] # None)
               /\ Rested(c, "dead")
      <3>1. ASSUME ~early' PROVE FALSE
        <4>1. th[c].aux = list.mod /\ th[c].i < list.size
          BY <1>1, <2>1, <3>1
        <4>2. ~Adding /\ StillArray
          BY <1>0, <1>1, <2>1, <3>1, WalksAlone DEF Early
        <4>3. Holds(list.elems, list.size, Present, list.size)
          BY <4>2 DEF StillArray, Adding
        <4>4. list.elems[th[c].i] # None
          BY <1>0, <1>2, <4>1, <4>3, AddedConns DEF Holds, Present, Conn, None
        <4> QED BY <2>3, <4>1, <4>4
      <3> QED BY <1>0, <2>1, <2>3, <3>1, LifeRested
    <2> QED BY <1>0, <1>8, <2>2, <2>3, IterNextEffect
  <1>9. CASE Farewell(c)
    <2>1. th[c].pc = "LOGOUT" /\ ~bean[th[c].item].closed
      BY <1>0, <1>9, FarewellEffect, FoundOpen DEF HasItem, Closed
    <2>2. Goes(c, "close")
      BY <1>0, <1>9, <2>1, FarewellEffect
    <2>3. ~Closed(c) /\ AheadOf(c)' /\ IterOf(c)'
      BY <2>1, <2>2 DEF Closed
    <2> QED BY <1>0, <2>2, <2>3, LifeTakes
  <1> QED BY <1>3, <1>4, <1>5, <1>6, <1>7, <1>8, <1>9

LEMMA LifeRequest ==
  ASSUME BaseInv, Observed, ~overlap', ListOk, LifeOk, NEW c \in Conn, NEW act \in Actions,
         NEW dev \in Devices, Request(c, act, dev)
  PROVE  LifeOk'
  <1>0. TypeOK /\ UNCHANGED <<main, list, bean, out>> /\ ListSame
    BY DEF BaseInv, Request, ListSame
  <1>1. Only(c) /\ th[c].pc = "idle" /\ th'[c].pc = "test" /\ th'[c].i = 0
    BY <1>0, RequestEffect
  <1>2. ~Closed(c) /\ IterOf(c)' /\ Busy(c)' /\ ~Taking(c)
    BY <1>1 DEF Closed, IterOf, Busy, Taking
  <1>3. ASSUME c \notin out PROVE \E k \in 0 .. list.size - 1 : list.elems[k] = c
    <2>1. \A d \in Conn : ~Taking(d)
      <3>1. ASSUME NEW d \in Conn \ {c} PROVE ~Taking(d)
        <4>1. ~Removing(d)' /\ th'[d] = th[d]
          BY <1>1, <1>2, Apart DEF Alone, Only
        <4> QED BY <4>1 DEF Removing, Taking
      <3> QED BY <1>2, <3>1
    <2>2. StillArray /\ list.size \in Int /\ main.slot \in Int
      BY <1>0, <2>1, MainTyped DEF ListOk, ArrayInv
    <2>3. c \in Present
      BY <1>1, <1>3 DEF BaseInv, BornInv, Present
    <2>4. CASE main.pc = "store"
      <3>1. PICK k \in 0 .. main.slot - 1 : list.elems[k] = c
        BY <2>2, <2>3, <2>4 DEF StillArray, Holds
      <3> QED BY <2>2, <2>4, <3>1 DEF StillArray
    <2>5. CASE main.pc # "store"
      BY <2>2, <2>3, <2>5 DEF StillArray, Holds
    <2> QED BY <2>4, <2>5
  <1>4. AheadOf(c)'
    BY <1>0, <1>1, <1>3 DEF AheadOf
  <1> QED BY <1>0, <1>1, <1>2, <1>4, LifeTakes

LEMMA LifeGet ==
  ASSUME BaseInv, Observed, ~overlap', ListOk, LifeOk, NEW c \in Conn, Get(c)
  PROVE  LifeOk'
  <1>0. /\ TypeOK /\ ThreadInv(c) /\ ListedInv /\ UNCHANGED <<main, list, out>> /\ ListSame
        /\ ClosedInv /\ AheadOf(c) /\ (~early' => ~early)
    BY DEF BaseInv, Get, ListSame, LifeOk, Observed
  <1>1. th[c].pc = "get" /\ ~Closed(c) /\ th[c].i \in 0 .. Conns - 1
    BY <1>0, GetEffect DEF Closed
  <1>2. CASE GetFails(c) /\ Rested(c, "dead") /\ UNCHANGED bean
    BY <1>0, <1>1, <1>2, GetSurvives, LifeRested
  <1>3. CASE GetMisses(c)
    <2>1. /\ UNCHANGED bean /\ Takes(c, "test", th[c].i + 1, th[c].item, th[c].aux)
          /\ ~Hit(c, GotBean(c))
      BY <1>3, Zenon DEF GetMisses
    <2>2. AheadOf(c)'
      <3> SUFFICES ASSUME th[c].act = "LOGIN", c \notin out
                   PROVE  \E k \in th[c].i + 1 .. list.size - 1 : list.elems[k] = c
        BY <1>0, <2>1 DEF AheadOf, Takes
      <3>1. PICK k \in th[c].i .. list.size - 1 : list.elems[k] = c
        BY <1>0, <1>1 DEF AheadOf
      <3>2. k # th[c].i
        BY <2>1, <3>1 DEF Hit, Own, GotBean
      <3> QED BY <1>0, <1>1, <3>1, <3>2, MainTyped
    <2>3. Only(c) /\ th'[c].pc = "test" /\ IterOf(c)'
      BY <2>1 DEF Takes, IterOf
    <2> QED BY <1>0, <1>1, <2>1, <2>2, <2>3, LifeTakes
  <1>4. CASE GetHits(c)
    <2>1. /\ Takes(c, th[c].act, th[c].i, GotBean(c), th[c].aux) /\ th[c].act \in Actions
          /\ bean' = IF th[c].act = "LOGIN"
                     THEN [bean EXCEPT ![GotBean(c)].device = th[c].dev] ELSE bean
      BY <1>0, <1>4, ThreadFields, Zenon DEF GetHits
    <2>2. bean \in [Conn -> BeanType]
      BY <1>0, Types
    <2>3. \A b \in Conn : bean'[b].closed = bean[b].closed
      BY ONLY <2>1, <2>2 DEF BeanType
    <2>4. Only(c) /\ AheadOf(c)' /\ IterOf(c)' /\ Survives(c)'
      BY <2>1 DEF Takes, AheadOf, IterOf, Survives, Actions
    <2>5. ClosedInv' /\ BeanStays
      BY <1>0, <1>1, <2>3, <2>4, ClosedFrame DEF BeanStays
    <2> QED BY <1>0, <2>4, <2>5, LifeFrame
  <1> QED BY <1>0, <1>2, <1>3, <1>4, GetEffect, Zenon

LEMMA LifeSet ==
  ASSUME BaseInv, Observed, ~overlap', ListOk, LifeOk, NEW c \in Conn, Set(c)
  PROVE  LifeOk'
  <1>0. TypeOK /\ PlaceOf(c) /\ UNCHANGED <<bean, out>>
    BY DEF BaseInv, ListOk, Set
  <1>1. /\ th[c].pc = "LOGIN" /\ th[c].i < list.size /\ list.elems[th[c].i] = th[c].item
        /\ list.elems \in ArrayType
    BY <1>0, SetEffect, ArrayTyped DEF PlaceOf, HasItem, Taking
  <1>2. Rested(c, "idle") /\ ListOf([list.elems EXCEPT ![th[c].i] = th[c].item], list.size, list.mod)
    BY <1>0, <1>1, SetEffect
  <1>3. [list.elems EXCEPT ![th[c].i] = th[c].item] = list.elems
    BY <1>1 DEF ArrayType
  <1>4. ListSame /\ ~Closed(c)
    BY <1>1, <1>2, <1>3 DEF ListOf, ListSame, Closed
  <1> QED BY <1>0, <1>2, <1>4, LifeRested

LEMMA LifeClose ==
  ASSUME BaseInv, Observed, ~overlap', ListOk, LifeOk, NEW c \in Conn, Close(c)
  PROVE  LifeOk'
  <1>0. TypeOK /\ ThreadInv(c) /\ ClosedInv /\ UNCHANGED <<list, out>> /\ ListSame
    BY DEF BaseInv, LifeOk, Close, ListSame
  <1>1. /\ th[c].pc = "close" /\ Goes(c, "remove")
        /\ bean' = [bean EXCEPT ![th[c].item].closed = TRUE]
    BY <1>0, CloseEffect
  <1>2. bean \in [Conn -> BeanType]
    BY <1>0, Types
  <1>3. \A b \in Conn : /\ bean[b].closed => bean'[b].closed
                        /\ bean'[b].closed => bean[b].closed \/ b = th[c].item
    BY ONLY <1>1, <1>2 DEF BeanType
  <1>4. Only(c) /\ Closed(c)' /\ th'[c].item = th[c].item /\ ~Closed(c)
    BY <1>1 DEF Goes, Takes, Closed
  <1>5. ClosedInv'
    <2> SUFFICES ASSUME NEW b \in Conn, bean'[b].closed, b \notin out
                 PROVE  \E d \in Conn : Closed(d)' /\ th'[d].item = b
      BY <1>0 DEF ClosedInv
    <2>1. CASE b = th[c].item
      BY <1>4, <2>1
    <2>2. CASE b # th[c].item
      <3>1. PICK d \in Conn : Closed(d) /\ th[d].item = b
        BY <1>0, <1>3, <2>2 DEF ClosedInv
      <3>2. Closed(d)' /\ th'[d].item = b
        BY <1>4, <3>1 DEF Only, Closed
      <3> QED BY <3>2
    <2> QED BY <2>1, <2>2
  <1>6. AheadOf(c)' /\ IterOf(c)' /\ Survives(c)' /\ BeanStays
    BY <1>1, <1>3 DEF Goes, Takes, AheadOf, IterOf, Survives, BeanStays
  <1> QED BY <1>0, <1>4, <1>5, <1>6, LifeFrame

\* The steps in which c removes the bean it has closed.
LEMMA LifeRemove ==
  ASSUME BaseInv, Observed, ~overlap', ListOk, LifeOk, NEW c \in Conn,
         RemoveCheck(c) \/ RemoveCopy(c) \/ RemoveRead(c) \/ RemoveWrite(c)
  PROVE  LifeOk'
  <1>0. TypeOK /\ ThreadInv(c) /\ PlaceOf(c) /\ ClosedInv /\ UNCHANGED <<bean, out>>
    BY DEF BaseInv, ListOk, LifeOk, RemoveCheck, RemoveCopy, RemoveRead, RemoveWrite
  <1>1. /\ Only(c) /\ th'[c].item = th[c].item /\ th[c].pc \in {"remove", "copy", "shrink", "write"}
        /\ th'[c].pc \in {"copy", "shrink", "write", "clear"}
    <2>1. CASE RemoveCheck(c)
      <3>1. th[c].pc = "remove" /\ th[c].i < list.size
        BY <1>0, <2>1, RemoveCheckEffect DEF PlaceOf, HasItem, Taking
      <3> QED BY <1>0, <2>1, <3>1, RemoveCheckEffect DEF Takes
    <2>2. CASE RemoveCopy(c)
      BY <1>0, <2>2, RemoveCopyEffect DEF Goes, Takes
    <2>3. CASE RemoveRead(c)
      BY <1>0, <2>3, RemoveReadEffect DEF Takes
    <2>4. CASE RemoveWrite(c)
      BY <1>0, <2>4, RemoveWriteEffect DEF Goes, Takes
    <2> QED BY <2>1, <2>2, <2>3, <2>4
  <1>2. /\ Closed(c) /\ Closed(c)' /\ Removing(c) /\ AheadOf(c)' /\ IterOf(c)' /\ Survives(c)'
        /\ BeanStays
    BY <1>0, <1>1 DEF Closed, Removing, AheadOf, IterOf, Survives, BeanStays
  <1>3. ClosedInv'
    BY <1>0, <1>1, <1>2, ClosedFrame
  <1> QED BY <1>0, <1>1, <1>2, <1>3, LifeFrame

LEMMA LifeRemoveClear ==
  ASSUME BaseInv, Observed, ~overlap', ListOk, LifeOk, NEW c \in Conn, RemoveClear(c)
  PROVE  LifeOk'
  <1>0. TypeOK /\ ThreadInv(c) /\ ClosedInv /\ UNCHANGED bean
    BY DEF BaseInv, LifeOk, RemoveClear
  <1>1. th[c].pc = "clear" /\ out' = out \cup {th[c].item}
    BY <1>0, RemoveClearEffect
  <1>2. Taking(c) /\ Removing(c) /\ TakenArray(c)
    BY <1>1 DEF Taking, Removing, ListOk, ArrayInv
  <1>3. th[c].aux \in 0 .. Conns - 1
    BY <1>0, <1>1, <1>2, AddedConns, Types DEF ThreadInv, TakenArray, Holds
  <1>4. Rested(c, "idle")
    BY <1>0, <1>3, RemoveClearEffect
  <1>5. Only(c) /\ AheadOf(c)' /\ IterOf(c)' /\ Survives(c)' /\ BeanStays
    BY <1>0, <1>4 DEF Rested, AheadOf, IterOf, Survives, BeanStays
  <1>6. ClosedInv'
    <2> SUFFICES ASSUME NEW b \in Conn, bean[b].closed, b \notin out'
                 PROVE  \E d \in Conn : Closed(d)' /\ th'[d].item = b
      BY <1>0 DEF ClosedInv
    <2>1. PICK d \in Conn : Closed(d) /\ th[d].item = b
      BY <1>0, <1>1 DEF ClosedInv
    <2>2. d # c /\ th'[d] = th[d]
      BY <1>1, <1>5, <2>1 DEF Only
    <2> QED BY <2>1, <2>2 DEF Closed
  <1> QED BY <1>1, <1>2, <1>5, <1>6, LifeFrame

LEMMA LifeMain ==
  ASSUME BaseInv, Observed, ~overlap', ListOk, LifeOk, Main
  PROVE  LifeOk'
  <1>0. /\ TypeOK /\ MainInv /\ BornInv /\ ArrayInv /\ ClosedInv /\ UNCHANGED out
        /\ (Early => early) /\ (Early' => early') /\ (~early' => ~early) /\ main.slot \in Int
    BY MainTyped DEF BaseInv, ListOk, LifeOk, Observed, Main, NewBean, Accept, AddGrow, AddStore
  <1>1. \A b \in Conn : bean'[b].closed = bean[b].closed
    <2>1. CASE NewBean
      <3>1. PICK id \in IdType : bean' = [bean EXCEPT ![main.made + 1].id = id]
        BY <1>0, <2>1, NewBeanEffect
      <3>2. bean \in [Conn -> BeanType]
        BY <1>0, Types
      <3> QED BY ONLY <3>1, <3>2 DEF BeanType
    <2>2. CASE Accept \/ AddGrow \/ AddStore
      BY <2>2 DEF Accept, AddGrow, AddStore
    <2> QED BY <2>1, <2>2 DEF Main
  <1>2. \A d \in Conn : th'[d] = th[d] \/ (th[d].pc = "unborn" /\ th'[d].pc = "idle")
    <2>1. CASE AddStore
      <3>1. main.pc = "store" /\ main.made \in Conn /\ main.made \notin Added
        BY <1>0, <2>1, AddStoreEffect, MainTyped DEF Added
      <3> QED BY <1>0, <2>1, <3>1, AddStoreEffect DEF Rested, Only, BornInv
    <2>2. CASE NewBean \/ Accept \/ AddGrow
      BY <2>2 DEF NewBean, Accept, AddGrow
    <2> QED BY <2>1, <2>2 DEF Main
  <1>3. ClosedInv'
    BY <1>0, <1>1, <1>2 DEF ClosedInv, Closed
  <1>4. /\ list.size \in Int /\ list'.size \in Int /\ list.size <= list'.size
        /\ \A k \in 0 .. list.size - 1 : list.elems[k] # None => list'.elems[k] = list.elems[k]
    <2>1. list.size \in Int /\ list.elems \in ArrayType /\ list.size <= Conns /\ Conns \in Nat
      BY <1>0, ArrayTyped, MainTyped
    <2>2. CASE NewBean
      BY <2>1, <2>2 DEF NewBean
    <2>3. CASE Accept
      BY <1>0, <2>1, <2>3, AcceptEffect DEF ListOf
    <2>4. CASE AddGrow
      BY <1>0, <2>1, <2>4, AddGrowEffect DEF ListOf, ArrayInv
    <2>5. CASE AddStore
      <3>1. main.pc = "store" /\ \A d \in Conn : ~Taking(d)
        BY <1>0, <2>5, AddStoreEffect DEF ListOk, Alone, Adding, Removing, Taking
      <3>2. /\ list.size = main.slot + 1 /\ Holds(list.elems, main.slot, Present, main.slot)
            /\ main.slot < Conns
        BY <1>0, <3>1, MainTyped DEF ArrayInv, StillArray
      <3>3. main.slot \in 0 .. Conns - 1 /\ list.elems[main.slot] = None
        BY <1>0, <2>1, <3>2 DEF Holds
      <3>4. ListOf([list.elems EXCEPT ![main.slot] = main.made], list.size, list.mod)
        BY <1>0, <2>5, <3>3, AddStoreEffect
      <3> QED BY <2>1, <3>3, <3>4 DEF ListOf, ArrayType
    <2> QED BY <2>2, <2>3, <2>4, <2>5 DEF Main
  <1>5. ASSUME NEW d \in Conn PROVE AheadOf(d)'
    <2> SUFFICES ASSUME th'[d].pc \in {"test", "get"}, th'[d].act = "LOGIN", d \notin out
                 PROVE  \E k \in th'[d].i .. list'.size - 1 : list'.elems[k] = d
      BY <1>0 DEF AheadOf
    <2>1. th'[d] = th[d] /\ AheadOf(d) /\ th[d].i \in Int /\ 0 <= th[d].i /\ d # None
      BY <1>0, <1>2, ThreadFields DEF LifeOk, Conn, None
    <2>2. PICK k \in th[d].i .. list.size - 1 : list.elems[k] = d
      BY <2>1 DEF AheadOf
    <2>3. list'.elems[k] = d /\ k \in th'[d].i .. list'.size - 1
      BY <1>4, <2>1, <2>2
    <2> QED BY <2>3
  <1>6. ASSUME ~early', NEW d \in Conn PROVE IterOf(d)' /\ Survives(d)'
    <2>1. Survives(d)'
      BY <1>0, <1>1, <1>2, <1>6 DEF LifeOk, Survives
    <2>2. CASE th'[d].pc \notin {"iter", "next"}
      BY <2>1, <2>2 DEF IterOf
    <2>3. CASE th'[d].pc \in {"iter", "next"}
      <3>1. th'[d] = th[d] /\ th[d].act # "LOGIN" /\ Busy(d) /\ Busy(d)'
        BY <1>2, <2>3 DEF BaseInv, ThreadInv, Busy
      <3>2. ~Adding /\ ~Adding'
        BY <1>0, <1>6, <3>1 DEF Early
      <3>3. UNCHANGED list
        <4>1. NewBean
          BY <1>0, <3>2, AcceptEffect, AddGrowEffect, AddStoreEffect DEF Main, Adding, MainOf
        <4> QED BY <4>1 DEF NewBean
      <3> QED BY <1>0, <1>6, <2>1, <3>1, <3>3 DEF LifeOk, IterOf
    <2> QED BY <2>2, <2>3
  <1> QED BY <1>0, <1>3, <1>5, <1>6 DEF LifeOk

LEMMA LifeInit == ASSUME Init PROVE LifeInv
  <1>1. \A c \in Conn : th[c].pc = "unborn" /\ ~bean[c].closed
    BY Rests DEF Init, Pcs
  <1> QED BY <1>1 DEF LifeInv, LifeOk, ClosedInv, AheadOf, IterOf, Survives, Early, Busy

LEMMA LifeStep == ASSUME BaseInv, ListInv, LifeInv, [Next]_vars PROVE LifeInv'
  <1>1. CASE Next
    <2> SUFFICES ASSUME ~overlap' PROVE LifeOk'
      BY DEF LifeInv
    <2>0. ListOk /\ LifeOk /\ Observed
      BY <1>1, Apart DEF Next, ListInv, LifeInv
    <2>1. CASE Main
      BY <2>0, <2>1, LifeMain
    <2>2. ASSUME NEW c \in Conn, Thread(c) \/ Leave(c) PROVE LifeOk'
      BY <2>0, <2>2, LifeWalk, LifeGet, LifeSet, LifeClose, LifeRemove, LifeRemoveClear DEF Thread
    <2>3. ASSUME NEW c \in Conn, NEW act \in Actions, NEW dev \in Devices, Request(c, act, dev)
          PROVE  LifeOk'
      BY <2>0, <2>3, LifeRequest
    <2> QED BY <1>1, <2>1, <2>2, <2>3 DEF Next
  <1>2. CASE UNCHANGED vars
    <2>1. /\ ClosedInv' = ClosedInv /\ Early' = Early
          /\ \A c \in Conn : AheadOf(c)' = AheadOf(c) /\ IterOf(c)' = IterOf(c) /\ Survives(c)' = Survives(c)
      BY <1>2 DEF vars, ClosedInv, Closed, Early, Busy, Adding, Listed, AheadOf, IterOf, Survives
    <2> QED BY <1>2, <2>1 DEF vars, LifeInv, LifeOk
  <1> QED BY <1>1, <1>2

(* For any number of connections, as long as no LOGOUT has met another      *)
(* request and no other request has met a connection that has not logged    *)
(* in, a thread ends by an exception only when its socket was closed.       *)
THEOREM ChatThreadsSurvive == Spec => []ThreadsSurvive
  <1>1. Init => BaseInv /\ ListInv /\ LifeInv
    BY BaseInit, ListInit, LifeInit
  <1>2. BaseInv /\ ListInv /\ LifeInv /\ [Next]_vars => (BaseInv /\ ListInv /\ LifeInv)'
    BY BaseStep, ListStep, LifeStep
  <1>3. LifeInv => ThreadsSurvive
    BY DEF LifeInv, LifeOk, Survives, ThreadsSurvive
  <1> QED BY <1>1, <1>2, <1>3, PTL DEF Spec
=============================================================================
