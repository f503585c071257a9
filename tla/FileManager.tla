----------------------------- MODULE FileManager -----------------------------
(***************************************************************************)
(* The simulated file system of OSlab/design/lab5/file_manager.c: bitmaps  *)
(* and the current directory with its entries live in memory, the          *)
(* directory is written back by cd and exit, the bitmaps by exit only.     *)
(* A bitmap is modelled by the set of its marked indices, an array with a  *)
(* count by a sequence.  A command is one step; one that is refused (name  *)
(* empty, taken or unknown, directory or node table full) changes nothing. *)
(***************************************************************************)
EXTENDS Integers, Sequences, FiniteSets, FiniteSetsExt, SequencesExt

CONSTANTS
  DNodeNum, FNodeNum, BlkNum,   \* 128, 1024 and 80*1024 in the code
  MaxDirs, MaxFiles,            \* entries of a directory: 8 and 16
  BlkPerFile, BlkSize,          \* 80 and 1024
  Names,                        \* names the user types
  WriteSizes                    \* lengths of the lines the user writes

ASSUME SizesAssumption ==
  /\ DNodeNum \in Nat \ {0} /\ FNodeNum \in Nat \ {0} /\ BlkNum \in Nat \ {0}
  /\ MaxDirs \in Nat /\ MaxFiles \in Nat
  /\ BlkPerFile \in Nat \ {0} /\ BlkSize \in Nat \ {0}
  /\ WriteSizes \subseteq 0 .. BlkSize - 2

VARIABLES
  up,                           \* the program is running
  dnode_map, fnode_map, blk_map,      \* super_blk
  curr_dir, buff_dir_node, buff_file_node,
  init_flag, dsuper, ddir, dfile      \* the disk: flag, super block, nodes

memVars  == <<dnode_map, fnode_map, blk_map, curr_dir, buff_dir_node,
              buff_file_node>>
diskVars == <<init_flag, dsuper, ddir, dfile>>
vars == <<up, memVars, diskVars>>

DNode == 0 .. DNodeNum - 1
FNode == 0 .. FNodeNum - 1
Blk   == 0 .. BlkNum - 1
LastBlk == BlkNum - 1
Buffered == 2         \* init_flag: set, but still in the stream's buffer

BlankDir  == [dir_num |-> 0, dir_name |-> "", child_dir |-> <<>>,
              child_file |-> <<>>, parent |-> 0]
BlankFile == [file_num |-> 0, file_name |-> "", block |-> <<>>, size_rest |-> 0,
              parent |-> 0]
Root == [BlankDir EXCEPT !.dir_name = "root"]

(* Where x is in a sequence in which it occurs. *)
FirstPos(s, x) == SelectInSeq(s, LAMBDA y : y = x)
LastPos(s, x)  == SelectLastInSeq(s, LAMBDA y : y = x)

(* A disk.dat of zeros, the program not started. *)
Init ==
  /\ up = FALSE
  /\ dnode_map = {} /\ fnode_map = {} /\ blk_map = {}
  /\ curr_dir = BlankDir /\ buff_dir_node = <<>> /\ buff_file_node = <<>>
  /\ init_flag = 0
  /\ dsuper = [d |-> {}, f |-> {}, b |-> {}]
  /\ ddir = [i \in DNode |-> BlankDir]
  /\ dfile = [i \in FNode |-> BlankFile]
-----------------------------------------------------------------------------
(* save_dir and open_dir *)

(* A node table after the nodes vals[k] have been written at idx[k], in     *)
(* this order.                                                              *)
WriteNodes(table, idx, vals) ==
  [i \in DOMAIN table |->
     IF i \in Range(idx) THEN vals[LastPos(idx, i)]
                         ELSE table[i]]

(* ddir after save_dir(num), starting from table t; dfile likewise. *)
SavedDirsNoEntries(t, num) == [t EXCEPT ![num] = curr_dir]   \* mutant
SavedDirs(t, num) ==
  WriteNodes([t EXCEPT ![num] = curr_dir], curr_dir.child_dir, buff_dir_node)
SavedFilesNot == dfile            \* mutant: the file nodes are not written back
SavedFiles == WriteNodes(dfile, curr_dir.child_file, buff_file_node)

(* open_dir(num), reading node tables dt and ft. *)
OpenDir(num, dt, ft) ==
  /\ curr_dir' = dt[num]
  /\ buff_dir_node' = [k \in DOMAIN dt[num].child_dir |-> dt[dt[num].child_dir[k]]]
  /\ buff_file_node' = [k \in DOMAIN dt[num].child_file |-> ft[dt[num].child_file[k]]]

(* The super block starts at byte 4 and is as long as DNodeBeg is far from  *)
(* byte 0: its last word, the mark of the last block, is also the first     *)
(* word of node 0, the root's dir_num.                                      *)
ReadBlkMap == IF ddir[0].dir_num # 0 THEN dsuper.b \cup {LastBlk}
                                     ELSE dsuper.b \ {LastBlk}
OverlaidDirs == [ddir EXCEPT ![0].dir_num = IF LastBlk \in blk_map THEN 1 ELSE 0]

init_fs ==
  /\ ~up /\ up' = TRUE
  /\ \/ /\ init_flag = 0
        /\ init_flag' = Buffered
        /\ dnode_map' = {0} /\ fnode_map' = {} /\ blk_map' = {}
        /\ curr_dir' = Root /\ buff_dir_node' = <<>> /\ buff_file_node' = <<>>
     \/ /\ init_flag = 1
        /\ dnode_map' = dsuper.d /\ fnode_map' = dsuper.f /\ blk_map' = ReadBlkMap
        /\ OpenDir(0, ddir, dfile)
        /\ UNCHANGED init_flag
  /\ UNCHANGED <<dsuper, ddir, dfile>>

(* The process is gone; the next one starts with zeroed globals. *)
Stopped ==
  /\ up /\ up' = FALSE
  /\ dnode_map' = {} /\ fnode_map' = {} /\ blk_map' = {}
  /\ curr_dir' = BlankDir /\ buff_dir_node' = <<>> /\ buff_file_node' = <<>>

SavedSuper == [d |-> dnode_map, f |-> fnode_map, b |-> blk_map]

exit_fs ==
  /\ Stopped
  /\ dsuper' = SavedSuper
  /\ ddir' = SavedDirs(OverlaidDirs, curr_dir.dir_num)
  /\ dfile' = SavedFiles
  /\ init_flag' = 1

(* The user kills the program at its prompt.  Every fseek flushes what was  *)
(* written before it, so of the nodes and the super block nothing is        *)
(* pending; the flag of a first start is until the first fseek after it.    *)
crash ==
  /\ Stopped
  /\ init_flag' = IF init_flag = Buffered THEN 0 ELSE init_flag
  /\ UNCHANGED <<dsuper, ddir, dfile>>
-----------------------------------------------------------------------------
(* Commands *)

DirIndex(name)  == SelectInSeq(buff_dir_node, LAMBDA d : d.dir_name = name)
FileIndex(name) == SelectInSeq(buff_file_node, LAMBDA f : f.file_name = name)
check_name(name) == DirIndex(name) = 0 /\ FileIndex(name) = 0

(* The first node or block the bitmap does not mark. *)
apply_d_nodeOnDisk == Min(DNode \ dsuper.d)       \* mutant: the saved bitmap
apply_d_node == Min(DNode \ dnode_map)
apply_f_node == Min(FNode \ fnode_map)
apply_blkOnDisk == Min(Blk \ dsuper.b)            \* mutant: the saved bitmap
apply_blk == Min(Blk \ blk_map)

create_dir(name) ==
  /\ up
  /\ Len(curr_dir.child_dir) # MaxDirs
  /\ check_name(name)
  /\ DNode \ dnode_map # {}
  /\ LET i == apply_d_node
     IN  /\ dnode_map' = dnode_map \cup {i}
         /\ buff_dir_node' = Append(buff_dir_node,
              [BlankDir EXCEPT !.dir_num = i, !.dir_name = name,
                               !.parent = curr_dir.dir_num])
         /\ curr_dir' = [curr_dir EXCEPT !.child_dir = Append(@, i)]
  /\ UNCHANGED <<up, fnode_map, blk_map, buff_file_node, diskVars>>

create_file(name) ==
  /\ up
  /\ Len(curr_dir.child_file) < MaxFiles
  /\ check_name(name)
  /\ FNode \ fnode_map # {} /\ Blk \ blk_map # {}
  /\ LET i == apply_f_node
         j == apply_blk
     IN  /\ fnode_map' = fnode_map \cup {i}
         /\ blk_map' = blk_map \cup {j}
         /\ buff_file_node' = Append(buff_file_node,
              [file_num |-> i, file_name |-> name, block |-> <<j>>,
               size_rest |-> 0, parent |-> curr_dir.dir_num])
         /\ curr_dir' = [curr_dir EXCEPT !.child_file = Append(@, i)]
  /\ UNCHANGED <<up, dnode_map, buff_dir_node, diskVars>>

(* What kids leads to from S: the least set that has both. *)
Reached(S, kids) ==
  LET closed == {T \in SUBSET DNode : S \subseteq T /\ \A j \in T : kids[j] \subseteq T}
  IN  {i \in DNode : \A T \in closed : i \in T}

(* The nodes del_subdir visits from the directories in S, read from disk.   *)
SubtreeFlat(S) == S                \* mutant: does not recurse
SubtreeNone(S) == {}               \* mutant: frees only the files
Subtree(S) == Reached(S, [i \in DNode |-> Range(ddir[i].child_dir)])

(* The blocks the deletion of the file f gives back. *)
FileBlksButLast(f) == Range(Front(f.block))       \* mutant: off by one
FileBlks(f) == Range(f.block)

del_dir(name) ==
  /\ up
  /\ DirIndex(name) # 0
  /\ LET k     == DirIndex(name)
         top   == buff_dir_node[k]
         subs  == Subtree(Range(top.child_dir))
         files == Range(top.child_file)
                    \cup UNION {Range(ddir[i].child_file) : i \in subs}
     IN  /\ dnode_map' = dnode_map \ ({top.dir_num} \cup subs)
         /\ fnode_map' = fnode_map \ files
         /\ blk_map' = blk_map \ UNION {FileBlks(dfile[f]) : f \in files}
         /\ curr_dir' = [curr_dir EXCEPT !.child_dir = RemoveAt(@, k)]
         /\ buff_dir_node' = RemoveAt(buff_dir_node, k)
  /\ UNCHANGED <<up, buff_file_node, diskVars>>

del_file(name) ==
  /\ up
  /\ FileIndex(name) # 0
  /\ LET k == FileIndex(name)
         f == buff_file_node[k]
     IN  /\ fnode_map' = fnode_map \ {f.file_num}
         /\ blk_map' = blk_map \ FileBlks(f)
         /\ curr_dir' = [curr_dir EXCEPT !.child_file = RemoveAt(@, k)]
         /\ buff_file_node' = RemoveAt(buff_file_node, k)
  /\ UNCHANGED <<up, dnode_map, buff_dir_node, diskVars>>

(* save_dir(curr_dir.dir_num); open_dir(num) *)
SwitchTo(num) ==
  LET dt == SavedDirs(ddir, curr_dir.dir_num)
  IN  /\ ddir' = dt
      /\ dfile' = SavedFiles
      /\ init_flag' = 1
      /\ OpenDir(num, dt, SavedFiles)
      /\ UNCHANGED <<up, dnode_map, fnode_map, blk_map, dsuper>>

change_dir_up == up /\ curr_dir.dir_num # 0 /\ SwitchTo(curr_dir.parent)

change_dir(name) ==
  /\ up
  /\ DirIndex(name) # 0
  /\ SwitchTo(curr_dir.child_dir[DirIndex(name)])

MayGrowOneMore(f) == Len(f.block) <= BlkPerFile   \* mutant: off by one
MayGrow(f) == Len(f.block) < BlkPerFile

(* write_file of a line of size characters *)
write_file(name, size) ==
  /\ up
  /\ FileIndex(name) # 0
  /\ LET k == FileIndex(name)
         f == buff_file_node[k]
     IN  \/ /\ size + f.size_rest > BlkSize
            /\ MayGrow(f)
            /\ Blk \ blk_map # {}
            /\ LET b == apply_blk
               IN  /\ blk_map' = blk_map \cup {b}
                   /\ buff_file_node' = [buff_file_node EXCEPT ![k] =
                        [f EXCEPT !.block = Append(@, b),
                                  !.size_rest = size - BlkSize + @]]
         \/ /\ size + f.size_rest <= BlkSize
            /\ buff_file_node' = [buff_file_node EXCEPT ![k].size_rest = @ + size]
            /\ UNCHANGED blk_map
  /\ init_flag' = 1
  /\ UNCHANGED <<up, dnode_map, fnode_map, curr_dir, buff_dir_node, dsuper, ddir, dfile>>

Next ==
  \/ init_fs \/ exit_fs \/ change_dir_up
  \/ \E name \in Names :
       \/ create_dir(name) \/ create_file(name)
       \/ del_dir(name) \/ del_file(name) \/ change_dir(name)
       \/ \E size \in WriteSizes : write_file(name, size)

Spec == Init /\ [][Next]_vars

(* The same with a user who may kill the program. *)
SpecCrash == Init /\ [][Next \/ crash]_vars
-----------------------------------------------------------------------------
(* The directory and file nodes as the program sees them now: the current   *)
(* directory and its entries from memory, the others from the disk.         *)
DirView(i) ==
  IF up /\ i = curr_dir.dir_num THEN curr_dir
  ELSE IF up /\ i \in Range(curr_dir.child_dir)
       THEN buff_dir_node[FirstPos(curr_dir.child_dir, i)]
       ELSE ddir[i]
FileView(i) ==
  IF up /\ i \in Range(curr_dir.child_file)
  THEN buff_file_node[FirstPos(curr_dir.child_file, i)]
  ELSE dfile[i]

Formatted == init_flag # 0

(* Nodes and blocks that belong to the tree. *)
LiveDirs  == Reached({0}, [i \in DNode |-> Range(DirView(i).child_dir)])
LiveFiles == UNION {Range(DirView(i).child_file) : i \in LiveDirs}
LiveBlks  == UNION {Range(FileView(i).block) : i \in LiveFiles}

(* Every variable keeps its type: bitmaps mark nodes and blocks that exist, *)
(* the cached entries match the counts of curr_dir, no table of the tree    *)
(* outgrows its array and size_rest stays within a block.                   *)
TypeOK ==
  /\ up \in BOOLEAN /\ init_flag \in {0, Buffered, 1}
  /\ dnode_map \subseteq DNode /\ fnode_map \subseteq FNode /\ blk_map \subseteq Blk
  /\ Len(buff_dir_node) = Len(curr_dir.child_dir)
  /\ Len(buff_file_node) = Len(curr_dir.child_file)
  /\ \A i \in LiveDirs : /\ Len(DirView(i).child_dir) <= MaxDirs
                         /\ Len(DirView(i).child_file) <= MaxFiles
  /\ \A f \in LiveFiles : /\ Len(FileView(f).block) \in 1 .. BlkPerFile
                          /\ FileView(f).size_rest \in 0 .. BlkSize

(* The bitmaps mark exactly what the tree uses: nothing that is in use can  *)
(* be handed out again and nothing that was deleted stays marked, across    *)
(* cd, recursive deletion, exit and restart.                                *)
BitmapsExact ==
  up => /\ dnode_map = LiveDirs
        /\ fnode_map = LiveFiles
        /\ blk_map = LiveBlks

(* The entries of the directory i. *)
Entries(i) == Len(DirView(i).child_dir)
FEntries(i) == Len(DirView(i).child_file)

(* No node is an entry twice, whether in one directory or in two, and the   *)
(* root is no entry at all.                                                 *)
NoNodeShared ==
  /\ \A i, j \in LiveDirs : \A p \in 1 .. Entries(i), q \in 1 .. Entries(j) :
        /\ DirView(i).child_dir[p] = DirView(j).child_dir[q] => i = j /\ p = q
        /\ DirView(i).child_dir[p] # 0
  /\ \A i, j \in LiveDirs : \A p \in 1 .. FEntries(i), q \in 1 .. FEntries(j) :
        DirView(i).child_file[p] = DirView(j).child_file[q] => i = j /\ p = q

(* No block belongs to two files, or twice to one. *)
NoBlockShared ==
  \A f, g \in LiveFiles :
    \A p \in DOMAIN FileView(f).block, q \in DOMAIN FileView(g).block :
      FileView(f).block[p] = FileView(g).block[q] => f = g /\ p = q

(* Node numbers, parent links and names are those of a tree with unique     *)
(* names in each directory: cd .. leads back, and a name finds one entry.   *)
TreeLinks ==
  Formatted =>
    \A i \in LiveDirs :
      LET d == DirView(i)
          names == [k \in 1 .. Len(d.child_dir) |-> DirView(d.child_dir[k]).dir_name]
                   \o [k \in 1 .. Len(d.child_file) |-> FileView(d.child_file[k]).file_name]
      IN  /\ up \/ i # 0 => d.dir_num = i
          /\ \A c \in Range(d.child_dir) : DirView(c).parent = i
          /\ \A f \in Range(d.child_file) : /\ FileView(f).parent = i
                                            /\ FileView(f).file_num = f
          /\ IsInjective(names)

(* The nodes the bitmaps mark: the one in memory, or the saved one. *)
MarkedDirs  == IF up THEN dnode_map ELSE IF Formatted THEN dsuper.d ELSE {0}
MarkedFiles == IF up THEN fnode_map ELSE dsuper.f

(* What of a node the user sees. *)
DirSeen(d)  == [name |-> d.dir_name, subs |-> d.child_dir, files |-> d.child_file]
FileSeen(f) == [name |-> f.file_name, block |-> f.block, rest |-> f.size_rest]

TreeDirs  == [i \in MarkedDirs |-> DirSeen(DirView(i))]
TreeFiles == [i \in MarkedFiles |-> FileSeen(FileView(i))]
TreeCwd   == IF up THEN curr_dir.dir_num ELSE 0

(* Without cache, bitmaps and disk this is one tree of directories and      *)
(* files: every command does to the marked nodes what it promises, and cd,  *)
(* exit and restart do nothing to them.                                     *)
Tree == INSTANCE TreeFs WITH
  dirs <- TreeDirs, files <- TreeFiles, formatted <- Formatted, cwd <- TreeCwd
IsTreeFs == Tree!Spec
=============================================================================
