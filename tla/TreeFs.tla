------------------------------- MODULE TreeFs -------------------------------
(***************************************************************************)
(* What file_manager promises its user: one tree of directories and files, *)
(* changed by one command at a time and kept across exit and restart.  A   *)
(* new node is any node outside the tree; a deleted directory takes its    *)
(* whole subtree with it.                                                  *)
(***************************************************************************)
EXTENDS Integers, Sequences, FiniteSets, SequencesExt

CONSTANTS DNodeNum, FNodeNum, BlkNum, MaxDirs, MaxFiles, BlkPerFile, BlkSize,
          Names, WriteSizes

VARIABLES dirs, files, formatted, cwd

vars == <<dirs, files, formatted, cwd>>

NewDir(name) == [name |-> name, subs |-> <<>>, files |-> <<>>]

Init ==
  /\ dirs = [i \in {0} |-> NewDir("")]
  /\ files = <<>>
  /\ formatted = FALSE
  /\ cwd = 0

Format ==
  /\ ~formatted /\ formatted' = TRUE
  /\ dirs' = [i \in {0} |-> NewDir("root")]
  /\ UNCHANGED <<files, cwd>>

DirNamed(i, name)  == SelectInSeq(dirs[i].subs, LAMBDA c : dirs[c].name = name)
FileNamed(i, name) == SelectInSeq(dirs[i].files, LAMBDA f : files[f].name = name)
Fresh(name) == DirNamed(cwd, name) = 0 /\ FileNamed(cwd, name) = 0
UsedBlks == UNION {Range(files[f].block) : f \in DOMAIN files}

(* The function f with the value at x set, x in its domain or not. *)
Put(f, x, v) == [y \in DOMAIN f \cup {x} |-> IF y = x THEN v ELSE f[y]]

Mkdir(name) ==
  /\ formatted /\ Fresh(name) /\ Len(dirs[cwd].subs) < MaxDirs
  /\ \E i \in (0 .. DNodeNum - 1) \ DOMAIN dirs :
       dirs' = Put([dirs EXCEPT ![cwd].subs = Append(@, i)], i, NewDir(name))
  /\ UNCHANGED <<files, formatted, cwd>>

Touch(name) ==
  /\ formatted /\ Fresh(name) /\ Len(dirs[cwd].files) < MaxFiles
  /\ \E i \in (0 .. FNodeNum - 1) \ DOMAIN files, b \in (0 .. BlkNum - 1) \ UsedBlks :
       /\ files' = Put(files, i, [name |-> name, block |-> <<b>>, rest |-> 0])
       /\ dirs' = [dirs EXCEPT ![cwd].files = Append(@, i)]
  /\ UNCHANGED <<formatted, cwd>>

(* The directory i and all below it: the least set closed under subs. *)
Under(i) ==
  LET closed == {T \in SUBSET DOMAIN dirs :
                   i \in T /\ \A j \in T : Range(dirs[j].subs) \subseteq T}
  IN  {j \in DOMAIN dirs : \A T \in closed : j \in T}

Rmdir(name) ==
  /\ formatted /\ DirNamed(cwd, name) # 0
  /\ LET k    == DirNamed(cwd, name)
         gone == Under(dirs[cwd].subs[k])
         lost == UNION {Range(dirs[j].files) : j \in gone}
     IN  /\ dirs' = [i \in DOMAIN dirs \ gone |->
                       IF i = cwd THEN [dirs[i] EXCEPT !.subs = RemoveAt(@, k)]
                                  ELSE dirs[i]]
         /\ files' = [f \in DOMAIN files \ lost |-> files[f]]
  /\ UNCHANGED <<formatted, cwd>>

Rm(name) ==
  /\ formatted /\ FileNamed(cwd, name) # 0
  /\ LET k == FileNamed(cwd, name)
         f == dirs[cwd].files[k]
     IN  /\ dirs' = [dirs EXCEPT ![cwd].files = RemoveAt(@, k)]
         /\ files' = [g \in DOMAIN files \ {f} |-> files[g]]
  /\ UNCHANGED <<formatted, cwd>>

(* cd moves along one edge of the tree; a restart begins at the root. *)
Cd ==
  /\ \E i \in DOMAIN dirs :
       /\ i \in Range(dirs[cwd].subs) \/ cwd \in Range(dirs[i].subs) \/ i = 0
       /\ cwd' = i
  /\ UNCHANGED <<dirs, files, formatted>>

(* A line is appended; at most one block is added. *)
Write(name, size) ==
  /\ formatted /\ FileNamed(cwd, name) # 0
  /\ LET f == dirs[cwd].files[FileNamed(cwd, name)]
         total == files[f].rest + size
     IN  \/ total <= BlkSize /\ files' = [files EXCEPT ![f].rest = total]
         \/ /\ total > BlkSize /\ Len(files[f].block) < BlkPerFile
            /\ \E b \in (0 .. BlkNum - 1) \ UsedBlks :
                 files' = [files EXCEPT ![f].block = Append(@, b),
                                        ![f].rest = total - BlkSize]
  /\ UNCHANGED <<dirs, formatted, cwd>>

Next ==
  \/ Format \/ Cd
  \/ \E name \in Names :
       \/ Mkdir(name) \/ Touch(name) \/ Rmdir(name) \/ Rm(name)
       \/ \E size \in WriteSizes : Write(name, size)

Spec == Init /\ [][Next]_vars
=============================================================================
