----------------------------- MODULE ChatServer -----------------------------
(***************************************************************************)
(* The chat server of net-work/chat_socket_demo.  The main thread accepts   *)
(* connections and adds a bean for each to mSocketList; a thread for each   *)
(* connection answers LOGIN, GETLIST, SENDMSG and LOGOUT by walking over    *)
(* that list.  The list is an ArrayList without any lock, so the reads and  *)
(* writes of add, remove and the iterator are steps of the model; get and   *)
(* set are one step each, and the array has room for every connection.  A   *)
(* bean is known to the list's users by its id, the second of the day in    *)
(* which it was made.                                                       *)
(***************************************************************************)
EXTENDS Integers, Sequences, FiniteSets

CONSTANTS
  Conns,        \* bound on the connections: beans 1 .. Conns
  Devices,      \* device ids the clients send
  Seconds,      \* the seconds of a day, as HHmmss
  MaxRequests   \* bound on the requests of all clients while n beans are made

ASSUME ChatAssumption ==
  /\ Conns \in Nat \ {0} /\ MaxRequests \in Seq(Nat) /\ Len(MaxRequests) = Conns
  /\ 0 \notin Devices /\ 0 \notin Seconds

VARIABLES
  main,       \* main thread: pc, beans made, the place of the next in the array
  list,       \* the ArrayList: elems, size and modCount (mod)
  bean,       \* id, deviceId and whether the socket is closed, of each bean
  th,         \* threads: pc, request (act, dev), index, bean found, a number
  requests,   \* requests made by all clients
  astray,     \* history: a message has reached a client that did not claim its device
  claimed,    \* history: <<client, device>>, the devices clients logged in as
  out,        \* history: beans a LOGOUT has removed
  overlap, early       \* history: see Observed

vars == <<main, list, bean, th, requests, astray, claimed, out, overlap, early>>

Conn == 1 .. Conns
None == 0
Actions == {"LOGIN", "GETLIST", "SENDMSG", "LOGOUT"}
Resting(pc) == [pc |-> pc, act |-> "LOGIN", dev |-> None, i |-> 0, item |-> None, aux |-> 0]
Busy(c) == th[c].pc \notin {"unborn", "idle", "gone", "dead"}

Init ==
  /\ main = [pc |-> "new", made |-> 0, slot |-> 0]
  /\ list = [elems |-> [k \in 0 .. Conns - 1 |-> None], size |-> 0, mod |-> 0]
  /\ bean = [c \in Conn |-> [id |-> None, device |-> None, closed |-> FALSE]]
  /\ th = [c \in Conn |-> Resting("unborn")]
  /\ requests = 0 /\ astray = FALSE /\ claimed = {} /\ out = {}
  /\ overlap = FALSE /\ early = FALSE

-----------------------------------------------------------------------------
(* The main thread *)

\* The bean is made, with its id, before the connection it is for.  The id is
\* DataUtil.getTimeId(), a second of the day: as a server runs for days and a
\* connection comes at any time, it may be any, one of an earlier bean too.
NewBean ==
  /\ main.pc = "new" /\ main.made < Conns
  /\ main' = [main EXCEPT !.pc = "accept", !.made = @ + 1]
  /\ \E id \in Seconds : bean' = [bean EXCEPT ![main.made + 1].id = id]
  /\ UNCHANGED <<list, th, requests, astray, claimed, out>>

\* A connection; mSocketList.add: modCount++, elementData[size++] = e.
Accept ==
  /\ main.pc = "accept"
  /\ main' = [main EXCEPT !.pc = "grow", !.slot = list.size]
  /\ list' = [list EXCEPT !.mod = @ + 1]
  /\ UNCHANGED <<bean, th, requests, astray, claimed, out>>

\* mutant: size counts the bean twice
AddGrowTwice ==
  /\ main.pc = "grow"
  /\ main' = [main EXCEPT !.pc = "store"]
  /\ list' = [list EXCEPT !.size = main.slot + 2]
  /\ UNCHANGED <<bean, th, requests, astray, claimed, out>>

AddGrow ==
  /\ main.pc = "grow"
  /\ main' = [main EXCEPT !.pc = "store"]
  /\ list' = [list EXCEPT !.size = main.slot + 1]
  /\ UNCHANGED <<bean, th, requests, astray, claimed, out>>

\* The store, and the start of the thread; a negative place is an exception,
\* which ends the server's loop.
AddStore ==
  /\ main.pc = "store"
  /\ \/ /\ main.slot \in DOMAIN list.elems
        /\ main' = [main EXCEPT !.pc = "new", !.slot = 0]
        /\ list' = [list EXCEPT !.elems[main.slot] = main.made]
        /\ th' = [th EXCEPT ![main.made] = Resting("idle")]
     \/ /\ main.slot \notin DOMAIN list.elems
        /\ main' = [main EXCEPT !.pc = "ended"]
        /\ UNCHANGED <<list, th>>
  /\ UNCHANGED <<bean, requests, astray, claimed, out>>

Main == NewBean \/ Accept \/ AddGrow \/ AddStore
-----------------------------------------------------------------------------
(* A thread, run: one request after the other; any exception ends it and     *)
(* leaves its bean in the list.                                              *)

Goto(c, pc) == th' = [th EXCEPT ![c].pc = pc]
Return(c) == th' = [th EXCEPT ![c] = Resting("idle")]
Throw(c) == th' = [th EXCEPT ![c] = Resting("dead")]

\* A line of the client: a well-formed request, even after the socket is
\* closed if the reader had it in its buffer.
Request(c, act, dev) ==
  /\ th[c].pc = "idle" /\ requests < MaxRequests[main.made]
  /\ requests' = requests + 1
  /\ th' = [th EXCEPT ![c] = [Resting("test") EXCEPT !.act = act, !.dev = dev]]
  /\ claimed' = IF act = "LOGIN" THEN claimed \cup {<<c, dev>>} ELSE claimed
  /\ UNCHANGED <<main, list, bean, astray, out>>

\* readLine: end of the stream when the client is gone, an exception on the
\* socket a LOGOUT has closed.  The bean stays in the list.
Leave(c) ==
  /\ th[c].pc = "idle"
  /\ th' = [th EXCEPT ![c] = Resting(IF bean[c].closed THEN "dead" ELSE "gone")]
  /\ UNCHANGED <<main, list, bean, requests, astray, claimed, out>>

\* mutant: i <= mSocketList.size()
TestOnePast(c) ==
  /\ th[c].pc = "test"
  /\ IF th[c].i <= list.size THEN Goto(c, "get") ELSE Return(c)
  /\ UNCHANGED <<main, list, bean, requests, astray, claimed, out>>

\* i < mSocketList.size()
Test(c) ==
  /\ th[c].pc = "test"
  /\ IF th[c].i < list.size THEN Goto(c, "get") ELSE Return(c)
  /\ UNCHANGED <<main, list, bean, requests, astray, claimed, out>>

\* mutant: the first bean is as good as any
OwnAny(c, b) == TRUE
\* item.getId().equals(socketBean.getId())
Own(c, b) == bean[b].id = bean[c].id

\* Whether the condition in the loop calls equals on the bean's deviceId, and
\* whether it holds.
AsksDevice(c, b) == th[c].act = "SENDMSG" \/ (th[c].act # "LOGIN" /\ Own(c, b))
Hit(c, b) == IF th[c].act = "LOGIN" THEN Own(c, b)
             ELSE AsksDevice(c, b) /\ bean[b].device = th[c].dev

\* mSocketList.get(i) and the condition: out of range, a null bean or a null
\* deviceId is an exception.  LOGIN sets the bean's fields.
Get(c) ==
  /\ th[c].pc = "get"
  /\ LET b == list.elems[th[c].i]
         fails == \/ th[c].i >= list.size \/ b = None
                  \/ b # None /\ AsksDevice(c, b) /\ bean[b].device = None
     IN  \/ fails /\ Throw(c) /\ UNCHANGED bean
         \/ /\ ~fails /\ Hit(c, b)
            /\ th' = [th EXCEPT ![c].pc = th[c].act, ![c].item = b]
            /\ bean' = IF th[c].act = "LOGIN" THEN [bean EXCEPT ![b].device = th[c].dev]
                                              ELSE bean
         \/ /\ ~fails /\ ~Hit(c, b)
            /\ th' = [th EXCEPT ![c].pc = "test", ![c].i = @ + 1]
            /\ UNCHANGED bean
  /\ UNCHANGED <<main, list, requests, astray, claimed, out>>

\* login: mSocketList.set(i, item)
Set(c) ==
  /\ th[c].pc = "LOGIN"
  /\ IF th[c].i < list.size
     THEN list' = [list EXCEPT !.elems[th[c].i] = th[c].item] /\ Return(c)
     ELSE UNCHANGED list /\ Throw(c)
  /\ UNCHANGED <<main, bean, requests, astray, claimed, out>>

\* sendmsg: getOutputStream fails on a closed socket.
Deliver(c) ==
  /\ th[c].pc = "SENDMSG"
  /\ IF bean[th[c].item].closed
     THEN UNCHANGED astray /\ Throw(c)
     ELSE astray' = (astray \/ <<th[c].item, th[c].dev>> \notin claimed) /\ Return(c)
  /\ UNCHANGED <<main, list, bean, requests, claimed, out>>

\* getlist: the iterator of getFriend remembers modCount.
IterBegin(c) ==
  /\ th[c].pc = "GETLIST"
  /\ IF bean[th[c].item].closed THEN Throw(c)
     ELSE th' = [th EXCEPT ![c].pc = "iter", ![c].i = 0, ![c].aux = list.mod]
  /\ UNCHANGED <<main, list, bean, requests, astray, claimed, out>>

IterHasNext(c) ==
  /\ th[c].pc = "iter"
  /\ IF th[c].i = list.size THEN Return(c) ELSE Goto(c, "next")
  /\ UNCHANGED <<main, list, bean, requests, astray, claimed, out>>

\* A changed list, its end or a null bean is an exception.
IterNext(c) ==
  /\ th[c].pc = "next"
  /\ IF th[c].aux = list.mod /\ th[c].i < list.size /\ list.elems[th[c].i] # None
     THEN th' = [th EXCEPT ![c].pc = "iter", ![c].i = @ + 1]
     ELSE Throw(c)
  /\ UNCHANGED <<main, list, bean, requests, astray, claimed, out>>

\* logout: getOutputStream of the bean found, close of its socket, then
\* mSocketList.remove(i): range check, modCount++, arraycopy,
\* elementData[--size] = null.
Farewell(c) ==
  /\ th[c].pc = "LOGOUT"
  /\ IF bean[th[c].item].closed THEN Throw(c) ELSE Goto(c, "close")
  /\ UNCHANGED <<main, list, bean, requests, astray, claimed, out>>

Close(c) ==
  /\ th[c].pc = "close" /\ Goto(c, "remove")
  /\ bean' = [bean EXCEPT ![th[c].item].closed = TRUE]
  /\ UNCHANGED <<main, list, requests, astray, claimed, out>>

\* aux is the last place from which a bean is moved.
RemoveCheck(c) ==
  /\ th[c].pc = "remove"
  /\ IF th[c].i < list.size
     THEN /\ th' = [th EXCEPT ![c].pc = "copy", ![c].aux = list.size - 1]
          /\ list' = [list EXCEPT !.mod = @ + 1]
     ELSE Throw(c) /\ UNCHANGED list
  /\ UNCHANGED <<main, bean, requests, astray, claimed, out>>

\* mutant: one bean too few is moved
MovedShort(c) ==
  [k \in DOMAIN list.elems |->
     list.elems[IF th[c].i <= k /\ k < th[c].aux - 1 THEN k + 1 ELSE k]]

\* The array after arraycopy.
Moved(c) ==
  [k \in DOMAIN list.elems |->
     list.elems[IF th[c].i <= k /\ k < th[c].aux THEN k + 1 ELSE k]]

RemoveCopy(c) ==
  /\ th[c].pc = "copy" /\ Goto(c, "shrink")
  /\ list' = [list EXCEPT !.elems = Moved(c)]
  /\ UNCHANGED <<main, bean, requests, astray, claimed, out>>

\* --size is a read and a write.
RemoveRead(c) ==
  /\ th[c].pc = "shrink"
  /\ th' = [th EXCEPT ![c].pc = "write", ![c].aux = list.size - 1]
  /\ UNCHANGED <<main, list, bean, requests, astray, claimed, out>>

RemoveWrite(c) ==
  /\ th[c].pc = "write" /\ Goto(c, "clear")
  /\ list' = [list EXCEPT !.size = th[c].aux]
  /\ UNCHANGED <<main, bean, requests, astray, claimed, out>>

RemoveClear(c) ==
  /\ th[c].pc = "clear"
  /\ IF th[c].aux \in DOMAIN list.elems
     THEN list' = [list EXCEPT !.elems[th[c].aux] = None] /\ Return(c)
     ELSE UNCHANGED list /\ Throw(c)
  /\ out' = out \cup {th[c].item}
  /\ UNCHANGED <<main, bean, requests, astray, claimed>>

Thread(c) ==
  \/ Test(c) \/ Get(c) \/ Set(c) \/ Deliver(c)
  \/ IterBegin(c) \/ IterHasNext(c) \/ IterNext(c) \/ Farewell(c) \/ Close(c)
  \/ RemoveCheck(c) \/ RemoveCopy(c)
  \/ RemoveRead(c) \/ RemoveWrite(c) \/ RemoveClear(c)
-----------------------------------------------------------------------------
Removing(c) == th[c].pc \in {"LOGOUT", "close", "remove", "copy", "shrink", "write", "clear"}
Adding == main.pc \in {"grow", "store"}
Listed == {list.elems[k] : k \in DOMAIN list.elems} \ {None}

\* A LOGOUT changes the list while another request or the main thread uses it.
Overlap == \E c \in Conn : Removing(c) /\ (Adding \/ \E d \in Conn \ {c} : Busy(d))

\* A request other than LOGIN meets a connection that has not logged in.
Early == \E c \in Conn : /\ Busy(c) /\ th[c].act # "LOGIN"
                         /\ Adding \/ \E b \in Listed : bean[b].device = None

\* What the properties remember of a step.
Observed == /\ overlap' = (overlap \/ Overlap')
            /\ early' = (~overlap' /\ (early \/ Early'))

Next ==
  /\ \/ Main
     \/ \E c \in Conn :
          \/ Thread(c) \/ Leave(c)
          \/ \E act \in Actions, dev \in Devices : Request(c, act, dev)
  /\ Observed

Spec == Init /\ [][Next]_vars
-----------------------------------------------------------------------------
Pcs == {"unborn", "idle", "gone", "dead", "test", "get", "iter", "next", "close",
        "remove", "copy", "shrink", "write", "clear"} \cup Actions

(* Types; whatever overlaps, size never exceeds the number of beans, though *)
(* it may fall below 0.                                                     *)
TypeOK ==
  /\ main \in [pc : {"new", "accept", "grow", "store", "ended"}, made : 0 .. Conns, slot : Int]
  /\ main.slot < Conns
  /\ list \in [elems : [0 .. Conns - 1 -> Conn \cup {None}], size : Int, mod : Nat]
  /\ list.size <= main.made
  /\ bean \in [Conn -> [id : Seconds \cup {None}, device : Devices \cup {None}, closed : BOOLEAN]]
  /\ th \in [Conn -> [pc : Pcs, act : Actions, dev : Devices \cup {None}, i : 0 .. Conns,
                      item : Conn \cup {None}, aux : Int]]
  /\ requests \in Nat
  /\ astray \in BOOLEAN /\ claimed \subseteq Conn \X Devices /\ out \subseteq Conn
  /\ overlap \in BOOLEAN /\ early \in BOOLEAN

(* The beans the main thread has added, and those not logged out since. *)
Added == 1 .. (IF main.pc = "new" THEN main.made ELSE main.made - 1)
Present == Added \ out
Quiet == ~Adding /\ \A c \in Conn : ~Removing(c)

(* The first n places of the array hold the beans of S, in the order they   *)
(* were added, and the places from m on are empty.                          *)
Holds(elems, n, S, m) ==
  /\ n \in 0 .. Conns
  /\ \A k \in 0 .. n - 1 : elems[k] \in S
  /\ \A b \in S : \E k \in 0 .. n - 1 : elems[k] = b
  /\ \A j, k \in 0 .. n - 1 : j < k => elems[j] < elems[k]
  /\ \A k \in m .. Conns - 1 : elems[k] = None

(* As long as no LOGOUT has met another request or a new connection, the    *)
(* list is what was added and not logged out, in order: nobody is lost,     *)
(* doubled or left behind.  (A client that is gone without LOGOUT stays.)   *)
ListExact == ~overlap /\ Quiet => Holds(list.elems, list.size, Present, list.size)

(* Nor does a thread end in any other way than by its client leaving or     *)
(* because a LOGOUT has closed its socket, if no request meets a connection *)
(* that has not logged in.                                                  *)
ThreadsSurvive ==
  ~overlap /\ ~early => \A c \in Conn : th[c].pc = "dead" => bean[c].closed

IdsDistinct == \A a, b \in 1 .. main.made : a # b => bean[a].id # bean[b].id

(* While no two beans were made in the same second of the day, a message    *)
(* for a device reaches only a client that has logged in as that device,    *)
(* whatever overlaps.                                                       *)
ReachesItsDevice == IdsDistinct => ~astray
=============================================================================
