----------------------------- MODULE PipeSignal ------------------------------
(***************************************************************************)
(* OSlab/lab/lab1: a parent and two children.  Child 1 writes messages to  *)
(* a pipe, child 2 reads them; on ^C the parent signals both children and  *)
(* waits for them.  Every process has its own wait_mark, which its signal  *)
(* handler stop clears and its main loop tests.                            *)
(*    lab1.c      twoForks = FALSE                                         *)
(*    lab1_1.1.c  twoForks = TRUE: both forks are in one condition, so     *)
(*                child 1 evaluates the second one too and its own child,  *)
(*                writer 2 here, also runs the code of child 1             *)
(* A message is a unit of the pipe.  signal() has BSD semantics in this    *)
(* build: handlers stay installed and an interrupted read or waitpid is    *)
(* restarted.                                                              *)
(***************************************************************************)
EXTENDS Integers

CONSTANTS
  PipeCap,      \* bound: the pipe holds this many messages, or more
  MaxPresses,   \* bound on how often the user types ^C
  MayFail       \* TRUE: fork may fail

ASSUME PipeAssumption ==
  /\ MayFail \in BOOLEAN
  /\ PipeCap \in Nat \ {0} /\ MaxPresses \in Nat

Writers == {1, 2}      \* writer 2 is never born in lab1.c

VARIABLES
  ppc, pmark,          \* parent: control and wait_mark
  wpc, wmark,          \* writers
  rpc, rmark,          \* child 2
  pipe, presses,
  lost, early,         \* history: ^C the parent overwrote, children stopped
                       \* before they set their mark (1 is child 1, 2 child 2)
  twoForks             \* which of the two programs this is

vars == <<ppc, pmark, wpc, wmark, rpc, rmark, pipe, presses, lost, early, twoForks>>

Init ==
  /\ ppc = "fork1" /\ pmark = 0
  /\ wpc = [w \in Writers |-> "unborn"] /\ wmark = [w \in Writers |-> 0]
  /\ rpc = "unborn" /\ rmark = 0
  /\ pipe = 0 /\ presses = 0 /\ lost = 0 /\ early = {}
  /\ twoForks \in BOOLEAN

ParentAlive == ppc \notin {"exited", "killed"}

(* Who holds an end of the pipe: a child closes the end it does not use     *)
(* after it has set its mark, the parent keeps both to the last.            *)
ReadEndOpen ==
  \/ ParentAlive
  \/ rpc \notin {"unborn", "done"}
  \/ \E w \in Writers : wpc[w] \in {"fork", "usr", "int", "mark", "close"}
WriteEndOpen ==
  \/ ParentAlive
  \/ \E w \in Writers : wpc[w] \notin {"unborn", "done"}
-----------------------------------------------------------------------------
(* Parent *)

ParentFork1 ==
  /\ ppc = "fork1"
  /\ \/ ppc' = "fork2" /\ wpc' = [wpc EXCEPT ![1] = IF twoForks THEN "fork" ELSE "usr"]
     \/ MayFail /\ ppc' = "exited" /\ UNCHANGED wpc
  /\ UNCHANGED <<pmark, wmark, rpc, rmark, pipe, presses, lost, early, twoForks>>

ParentFork2 ==
  /\ ppc = "fork2"
  /\ \/ ppc' = "signal" /\ rpc' = "usr"
     \/ MayFail /\ ppc' = "exited" /\ UNCHANGED rpc
  /\ UNCHANGED <<pmark, wpc, wmark, rmark, pipe, presses, lost, early, twoForks>>

ParentSignal ==
  /\ ppc = "signal" /\ ppc' = "mark"
  /\ UNCHANGED <<pmark, wpc, wmark, rpc, rmark, pipe, presses, lost, early, twoForks>>

ParentMark ==
  /\ ppc = "mark" /\ ppc' = "waiting" /\ pmark' = 1
  /\ UNCHANGED <<wpc, wmark, rpc, rmark, pipe, presses, lost, early, twoForks>>

(* The loop of waiting() ends. *)
ParentWaiting ==
  /\ ppc = "waiting" /\ pmark = 0 /\ ppc' = "kill1"
  /\ UNCHANGED <<pmark, wpc, wmark, rpc, rmark, pipe, presses, lost, early, twoForks>>

(* SIGUSR1 kills child 1 before its handler is installed and clears its     *)
(* mark after.                                                              *)
ParentKill1 ==
  /\ ppc = "kill1" /\ ppc' = "kill2"
  /\ wpc' = [wpc EXCEPT ![1] = IF @ \in {"fork", "usr"} THEN "done" ELSE @]
  /\ wmark' = [wmark EXCEPT ![1] = 0]
  /\ early' = early \cup IF wpc[1] \in {"int", "mark"} THEN {1} ELSE {}
  /\ UNCHANGED <<pmark, rpc, rmark, pipe, presses, lost, twoForks>>

(* Mutant of ParentKill2: SIGUSR2 is not sent. *)
ParentKill2Not ==
  /\ ppc = "kill2" /\ ppc' = "wait1"
  /\ UNCHANGED <<pmark, wpc, wmark, rpc, rmark, pipe, presses, lost, early, twoForks>>
ParentKill2 ==
  /\ ppc = "kill2" /\ ppc' = "wait1"
  /\ rpc' = IF rpc = "usr" THEN "done" ELSE rpc
  /\ rmark' = 0
  /\ early' = early \cup IF rpc \in {"int", "mark"} THEN {2} ELSE {}
  /\ UNCHANGED <<pmark, wpc, wmark, pipe, presses, lost, twoForks>>

ParentWait1 ==
  /\ ppc = "wait1" /\ wpc[1] = "done" /\ ppc' = "wait2"
  /\ UNCHANGED <<pmark, wpc, wmark, rpc, rmark, pipe, presses, lost, early, twoForks>>

(* waitpid, close, close, exit *)
ParentWait2 ==
  /\ ppc = "wait2" /\ rpc = "done" /\ ppc' = "exited"
  /\ UNCHANGED <<pmark, wpc, wmark, rpc, rmark, pipe, presses, lost, early, twoForks>>

Parent == ParentFork1 \/ ParentFork2 \/ ParentSignal \/ ParentMark \/ ParentWaiting
          \/ ParentKill1 \/ ParentKill2 \/ ParentWait1 \/ ParentWait2
-----------------------------------------------------------------------------
(* Child 1, and in lab1_1.1.c its child *)

(* The second fork of the condition, evaluated by child 1. *)
WriterFork(w) ==
  /\ wpc[w] = "fork"
  /\ \/ wpc' = [x \in Writers |-> "usr"]
     \/ MayFail /\ wpc' = [wpc EXCEPT ![w] = "done"]
  /\ UNCHANGED <<ppc, pmark, wmark, rpc, rmark, pipe, presses, lost, early, twoForks>>

(* signal(SIGUSR1,stop); signal(SIGINT,SIG_IGN); close(fd[0]) *)
WriterSetup(w) ==
  /\ \E s \in {<<"usr", "int">>, <<"int", "mark">>, <<"close", "loop">>} :
       wpc[w] = s[1] /\ wpc' = [wpc EXCEPT ![w] = s[2]]
  /\ UNCHANGED <<ppc, pmark, wmark, rpc, rmark, pipe, presses, lost, early, twoForks>>

WriterMark(w) ==
  /\ wpc[w] = "mark"
  /\ wpc' = [wpc EXCEPT ![w] = "close"] /\ wmark' = [wmark EXCEPT ![w] = 1]
  /\ UNCHANGED <<ppc, pmark, rpc, rmark, pipe, presses, lost, early, twoForks>>

WriterLoop(w) ==
  /\ wpc[w] = "loop"
  /\ wpc' = [wpc EXCEPT ![w] = IF wmark[w] = 0 THEN "done" ELSE "write"]
  /\ UNCHANGED <<ppc, pmark, wmark, rpc, rmark, pipe, presses, lost, early, twoForks>>

(* Mutant of WriterWrite: the process survives SIGPIPE. *)
WriterWriteSurvives(w) ==
  /\ wpc[w] = "write"
  /\ wpc' = [wpc EXCEPT ![w] = "loop"]
  /\ pipe' = IF ReadEndOpen /\ pipe < PipeCap THEN pipe + 1 ELSE pipe
  /\ UNCHANGED <<ppc, pmark, wmark, rpc, rmark, presses, lost, early, twoForks>>

(* write(fd[1],...), where SIGPIPE ends the process when nobody can read;   *)
(* sleep.                                                                   *)
WriterWrite(w) ==
  /\ wpc[w] = "write"
  /\ \/ /\ ReadEndOpen
        /\ wpc' = [wpc EXCEPT ![w] = "loop"]
        /\ pipe' = IF pipe < PipeCap THEN pipe + 1 ELSE pipe
     \/ /\ ~ReadEndOpen
        /\ wpc' = [wpc EXCEPT ![w] = "done"]
        /\ UNCHANGED pipe
  /\ UNCHANGED <<ppc, pmark, wmark, rpc, rmark, presses, lost, early, twoForks>>

Writer(w) == WriterFork(w) \/ WriterSetup(w) \/ WriterMark(w) \/ WriterLoop(w)
             \/ WriterWrite(w)
-----------------------------------------------------------------------------
(* Child 2 *)

ReaderSetup ==
  /\ \E s \in {<<"usr", "int">>, <<"int", "mark">>, <<"close", "loop">>} :
       rpc = s[1] /\ rpc' = s[2]
  /\ UNCHANGED <<ppc, pmark, wpc, wmark, rmark, pipe, presses, lost, early, twoForks>>

ReaderMark ==
  /\ rpc = "mark" /\ rpc' = "close" /\ rmark' = 1
  /\ UNCHANGED <<ppc, pmark, wpc, wmark, pipe, presses, lost, early, twoForks>>

ReaderLoop ==
  /\ rpc = "loop"
  /\ rpc' = IF rmark = 0 THEN "done" ELSE "read"
  /\ UNCHANGED <<ppc, pmark, wpc, wmark, rmark, pipe, presses, lost, early, twoForks>>

(* read(fd[0],...) takes some of the messages, or returns 0 when nobody can *)
(* write any more; otherwise it blocks, and goes on blocking after stop has *)
(* run.  printf; sleep.                                                     *)
ReaderRead ==
  /\ rpc = "read" /\ rpc' = "loop"
  /\ \/ pipe > 0 /\ pipe' \in 0 .. pipe - 1
     \/ pipe = PipeCap /\ UNCHANGED pipe
     \/ pipe = 0 /\ ~WriteEndOpen /\ UNCHANGED pipe
  /\ UNCHANGED <<ppc, pmark, wpc, wmark, rmark, presses, lost, early, twoForks>>

Reader == ReaderSetup \/ ReaderMark \/ ReaderLoop \/ ReaderRead
-----------------------------------------------------------------------------
(* ^C signals the whole foreground group.  It kills a process whose SIGINT  *)
(* has still its default action; a child that ignores it is untouched; the  *)
(* parent's handler clears pmark.                                           *)
Press ==
  /\ ParentAlive /\ presses < MaxPresses /\ presses' = presses + 1
  /\ ppc' = IF ppc \in {"fork1", "fork2", "signal"} THEN "killed" ELSE ppc
  /\ pmark' = 0
  /\ lost' = IF ppc = "mark" THEN lost + 1 ELSE lost
  /\ wpc' = [w \in Writers |->
               IF wpc[w] \in {"fork", "usr", "int"} THEN "done" ELSE wpc[w]]
  /\ rpc' = IF rpc \in {"usr", "int"} THEN "done" ELSE rpc
  /\ UNCHANGED <<wmark, rmark, pipe, early, twoForks>>

Next == Parent \/ (\E w \in Writers : Writer(w)) \/ Reader \/ Press

(* Runnable processes are scheduled; the user need not type anything.       *)
FairSpec ==
  /\ Init /\ [][Next]_vars
  /\ WF_vars(Parent) /\ WF_vars(Reader)
  /\ \A w \in Writers : WF_vars(Writer(w))
-----------------------------------------------------------------------------
ReadyStates == {"close", "loop", "write", "read"}
Ready == /\ rpc \in ReadyStates /\ wpc[1] \in ReadyStates
         /\ twoForks => wpc[2] \in ReadyStates

AllGone ==
  /\ ~ParentAlive /\ rpc \in {"unborn", "done"}
  /\ \A w \in Writers : wpc[w] \in {"unborn", "done"}

(* Child 2 sits in read on an empty pipe that only the parent, waiting for  *)
(* child 2, still holds open for writing.                                   *)
StuckInRead ==
  /\ rpc = "read" /\ rmark = 0 /\ pipe = 0
  /\ wpc[1] = "done" /\ wpc[2] \in {"unborn", "done"}
  /\ ppc = "wait2"

(* Once the children have set their marks, ^C ends all processes.  In       *)
(* lab1.c the only thing that can prevent it is a child 2 that was in read  *)
(* when child 1 stopped writing; in lab1_1.1.c the writer nobody signals    *)
(* keeps read from blocking and is itself ended by SIGPIPE, so nothing can. *)
ShutdownOrStuck ==
  (ppc = "kill1" /\ Ready) ~> (AllGone \/ (~twoForks /\ StuckInRead))

(* Every run settles in one of five ways: all processes are gone; the       *)
(* parent waits for a ^C, the ones before having come between its signal()  *)
(* and wait_mark = 1; child 2 sits in read (above); the parent waits for a  *)
(* child whose stop came before wait_mark = 1, so that its loop goes on     *)
(* (lab1.c lines 37 and 67); or the parent ended before it could signal     *)
(* anyone and child 2, which ignores SIGINT, runs on.                       *)
Outcomes ==
  <>[](\/ AllGone
       \/ ppc = "waiting" /\ pmark = 1 /\ presses = lost
       \/ StuckInRead
       \/ ppc = "wait1" /\ 1 \in early
       \/ ppc = "wait2" /\ 2 \in early
       \/ ppc = "killed" /\ rmark = 1 /\ rpc \in {"loop", "read"})
=============================================================================
