-------------------------- MODULE FileManagerProofs --------------------------
(***************************************************************************)
(* Proofs about the simulated file system.  What the program sees is two   *)
(* tables, of directory and of file nodes, and three sets of marks;        *)
(* memory, disk and cache only say where they are kept.  The invariant     *)
(* says the tables and the marks are one tree, and that the cache is a     *)
(* copy of part of them; cd, exit and restart do not change them at all.   *)
(***************************************************************************)
EXTENDS FileManager, FiniteSetTheorems, SequenceTheorems, WellFoundedInduction, TLAPS

NameSet == Names \cup {"", "root"}
DirRec  == [dir_num : Int, dir_name : NameSet, child_dir : Seq(DNode),
            child_file : Seq(FNode), parent : Int]
FileRec == [file_num : Int, file_name : NameSet, block : Seq(Blk),
            size_rest : Int, parent : Int]

(* The two tables and the marks. *)
ViewD(c, b, t) ==
  [i \in DNode |-> IF i = c.dir_num THEN c
                   ELSE IF i \in Range(c.child_dir)
                        THEN b[FirstPos(c.child_dir, i)] ELSE t[i]]
ViewF(c, b, t) ==
  [i \in FNode |-> IF i \in Range(c.child_file)
                   THEN b[FirstPos(c.child_file, i)] ELSE t[i]]
Dirs  == IF up THEN ViewD(curr_dir, buff_dir_node, ddir) ELSE ddir
Files == IF up THEN ViewF(curr_dir, buff_file_node, dfile) ELSE dfile
MarkedBlks == IF up THEN blk_map ELSE dsuper.b

(* They are one tree: every table entry has its type, md is what is reached *)
(* from the root, mf and mb what the directories and the files have, and no *)
(* entry and no block is there twice.                                       *)
Typed(D, F, md, mf, mb) ==
  /\ D \in [DNode -> DirRec] /\ F \in [FNode -> FileRec]
  /\ md \subseteq DNode /\ mf \subseteq FNode /\ mb \subseteq Blk
Closed(D, T) ==
  \A j \in T : \A p \in DOMAIN D[j].child_dir : D[j].child_dir[p] \in T
Rooted(D, md) ==
  /\ 0 \in md /\ Closed(D, md)
  /\ \A T \in SUBSET DNode : 0 \in T /\ Closed(D, T) => md \subseteq T
DirsOnce(D, md) ==
  /\ \A i, j \in md :
       \A p \in DOMAIN D[i].child_dir, q \in DOMAIN D[j].child_dir :
         D[i].child_dir[p] = D[j].child_dir[q] => i = j /\ p = q
  /\ \A i \in md : \A p \in DOMAIN D[i].child_dir : D[i].child_dir[p] # 0
FilesOnce(D, md) ==
  \A i, j \in md :
    \A p \in DOMAIN D[i].child_file, q \in DOMAIN D[j].child_file :
      D[i].child_file[p] = D[j].child_file[q] => i = j /\ p = q
FilesExact(D, md, mf) ==
  /\ \A i \in md : \A p \in DOMAIN D[i].child_file : D[i].child_file[p] \in mf
  /\ \A f \in mf : \E i \in md : \E p \in DOMAIN D[i].child_file : D[i].child_file[p] = f
BlksOnce(F, mf) ==
  \A f, g \in mf : \A p \in DOMAIN F[f].block, q \in DOMAIN F[g].block :
    F[f].block[p] = F[g].block[q] => f = g /\ p = q
BlksExact(F, mf, mb) ==
  /\ \A f \in mf : \A p \in DOMAIN F[f].block : F[f].block[p] \in mb
  /\ \A b \in mb : \E f \in mf : \E p \in DOMAIN F[f].block : F[f].block[p] = b
DirLinks(D, md) ==
  \A i \in md : /\ D[i].dir_num = i
                /\ \A p \in DOMAIN D[i].child_dir : D[D[i].child_dir[p]].parent = i
FileLinks(D, F, md) ==
  \A i \in md : \A p \in DOMAIN D[i].child_file :
    F[D[i].child_file[p]].parent = i /\ F[D[i].child_file[p]].file_num = D[i].child_file[p]
NamesOnce(D, F, md) ==
  \A i \in md :
    /\ \A p, q \in DOMAIN D[i].child_dir :
         D[D[i].child_dir[p]].dir_name = D[D[i].child_dir[q]].dir_name => p = q
    /\ \A p, q \in DOMAIN D[i].child_file :
         F[D[i].child_file[p]].file_name = F[D[i].child_file[q]].file_name => p = q
    /\ \A p \in DOMAIN D[i].child_dir, q \in DOMAIN D[i].child_file :
         D[D[i].child_dir[p]].dir_name # F[D[i].child_file[q]].file_name
Fits(D, F, md, mf) ==
  /\ \A i \in md : Len(D[i].child_dir) <= MaxDirs /\ Len(D[i].child_file) <= MaxFiles
  /\ \A f \in mf : Len(F[f].block) \in 1 .. BlkPerFile /\ F[f].size_rest \in 0 .. BlkSize

IsTree(D, F, md, mf, mb) ==
  /\ Typed(D, F, md, mf, mb)
  /\ Rooted(D, md) /\ DirsOnce(D, md)
  /\ FilesOnce(D, md) /\ FilesExact(D, md, mf)
  /\ BlksOnce(F, mf) /\ BlksExact(F, mf, mb)
  /\ DirLinks(D, md) /\ FileLinks(D, F, md)
  /\ NamesOnce(D, F, md) /\ Fits(D, F, md, mf)

TreeInv == IsTree(Dirs, Files, MarkedDirs, MarkedFiles, MarkedBlks)

(* The current directory belongs to the tree; its entries are cached. *)
CacheInv ==
  /\ up => /\ curr_dir \in DirRec /\ curr_dir.dir_num \in MarkedDirs
           /\ buff_dir_node \in Seq(DirRec) /\ buff_file_node \in Seq(FileRec)
  /\ ~up => /\ dnode_map = {} /\ fnode_map = {} /\ blk_map = {}
            /\ curr_dir = BlankDir /\ buff_dir_node = <<>> /\ buff_file_node = <<>>
  /\ Len(buff_dir_node) = Len(curr_dir.child_dir)
  /\ Len(buff_file_node) = Len(curr_dir.child_file)

(* The disk keeps its types, and is blank before the first exit or cd. *)
DiskInv ==
  /\ up \in BOOLEAN /\ init_flag \in {0, Buffered, 1}
  /\ ddir \in [DNode -> DirRec] /\ dfile \in [FNode -> FileRec]
  /\ ddir[0].dir_num = 0
  /\ ~up => init_flag # Buffered
  /\ init_flag = 0 => /\ ~up
                      /\ ddir = [i \in DNode |-> BlankDir]
                      /\ dfile = [i \in FNode |-> BlankFile]
                      /\ dsuper.f = {} /\ dsuper.b = {}

Room == LastBlk \notin MarkedBlks

FileInv == TreeInv /\ CacheInv /\ DiskInv /\ Room
-----------------------------------------------------------------------------
(* Sequences *)

(* A sequence without its k-th element: what was after it moves down. *)
LEMMA Removed ==
  ASSUME NEW S, NEW s \in Seq(S), NEW k \in 1 .. Len(s)
  PROVE  /\ RemoveAt(s, k) \in Seq(S)
         /\ Len(RemoveAt(s, k)) = Len(s) - 1
         /\ \A p \in 1 .. Len(s) - 1 :
              RemoveAt(s, k)[p] = IF p < k THEN s[p] ELSE s[p + 1]
<1> DEFINE a == SubSeq(s, 1, k - 1)
           b == SubSeq(s, k + 1, Len(s))
<1>1. Len(s) \in Nat /\ k \in Nat /\ 1 <= k /\ k <= Len(s)
  OBVIOUS
<1>2. a \in Seq(S) /\ Len(a) = k - 1 /\ \A p \in 1 .. k - 1 : a[p] = s[p]
  BY <1>1
<1>3. b \in Seq(S) /\ Len(b) = Len(s) - k /\ \A p \in 1 .. Len(s) - k : b[p] = s[k + p]
  BY <1>1
<1>4. RemoveAt(s, k) = a \o b
  BY DEF RemoveAt
<1> HIDE DEF a, b
<1>5. /\ a \o b \in Seq(S) /\ Len(a \o b) = Len(s) - 1
      /\ \A p \in 1 .. Len(s) - 1 : (a \o b)[p] = IF p <= k - 1 THEN a[p] ELSE b[p - (k - 1)]
  <2>1. /\ a \o b \in Seq(S) /\ Len(a \o b) = Len(a) + Len(b)
        /\ \A p \in 1 .. Len(a) + Len(b) :
             (a \o b)[p] = IF p <= Len(a) THEN a[p] ELSE b[p - Len(a)]
    BY <1>2, <1>3, ConcatProperties
  <2>2. Len(a) + Len(b) = Len(s) - 1
    BY <1>1, <1>2, <1>3
  <2> QED BY <1>2, <2>1, <2>2
<1>6. ASSUME NEW p \in 1 .. Len(s) - 1
      PROVE  (a \o b)[p] = IF p < k THEN s[p] ELSE s[p + 1]
  <2>1. CASE p < k
    BY <1>1, <1>2, <1>5, <2>1
  <2>2. CASE ~ (p < k)
    <3>1. p - (k - 1) \in 1 .. Len(s) - k /\ ~ (p <= k - 1) /\ k + (p - (k - 1)) = p + 1
      BY <1>1, <2>2
    <3>2. b[p - (k - 1)] = s[k + (p - (k - 1))]
      BY <1>3, <3>1
    <3> QED BY <1>5, <2>2, <3>1, <3>2
  <2> QED BY <2>1, <2>2
<1> QED BY <1>4, <1>5, <1>6

(* The position of an element that occurs once. *)
LEMMA Position ==
  ASSUME NEW S, NEW s \in Seq(S), NEW p \in DOMAIN s,
         \A q \in DOMAIN s : s[q] = s[p] => q = p
  PROVE  FirstPos(s, s[p]) = p /\ LastPos(s, s[p]) = p
<1> DEFINE I == {q \in 1 .. Len(s) : s[q] = s[p]}
<1>1. I = {p}
  OBVIOUS
<1>2. p \in Nat
  OBVIOUS
<1>3. Min(I) = p
  BY <1>1, <1>2 DEF Min
<1>4. Max(I) = p
  BY <1>1, <1>2 DEF Max
<1> QED BY <1>1, <1>3, <1>4 DEF FirstPos, LastPos, SelectInSeq, SelectLastInSeq

(* The smallest of a set of natural numbers is one of them. *)
LEMMA Least ==
  ASSUME NEW T, T \subseteq Nat, T # {}
  PROVE  Min(T) \in T /\ \A y \in T : Min(T) <= y
<1> DEFINE R == OpToRel(<, Nat)
<1>1. IsWellFoundedOn(R, Nat)
  BY NatLessThanWellFounded
<1>2. \A a, b \in Nat : a < b => <<a, b>> \in R
  BY DEF OpToRel
<1>3. \E x \in T : \A y \in T : <<y, x>> \notin R
  <2> HIDE DEF R
  <2> QED BY <1>1, WFMin
<1> HIDE DEF R
<1>4. PICK x \in T : \A y \in T : <<y, x>> \notin R
  BY <1>3
<1>5. ASSUME NEW y \in T PROVE x <= y
  <2>1. x \in Nat /\ y \in Nat
    OBVIOUS
  <2>2. ~ (y < x)
    BY <1>2, <1>4, <2>1
  <2> QED BY <2>1, <2>2
<1> QED BY <1>5 DEF Min

(* The first index whose element passes a test: here the one with a name. *)
LEMMA DirIndexFinds ==
  ASSUME NEW S, buff_dir_node \in Seq(S), NEW name
  PROVE  /\ DirIndex(name) # 0 =>
              /\ DirIndex(name) \in 1 .. Len(buff_dir_node)
              /\ buff_dir_node[DirIndex(name)].dir_name = name
         /\ DirIndex(name) = 0 =>
              \A p \in 1 .. Len(buff_dir_node) : buff_dir_node[p].dir_name # name
<1> DEFINE I == {i \in 1 .. Len(buff_dir_node) : buff_dir_node[i].dir_name = name}
<1>1. DirIndex(name) = IF I # {} THEN Min(I) ELSE 0
  BY DEF DirIndex, SelectInSeq
<1>2. I \subseteq Nat /\ 0 \notin I
  OBVIOUS
<1>3. I # {} => Min(I) \in I
  <2> HIDE DEF I
  <2> QED BY <1>2, Least
<1> QED BY <1>1, <1>2, <1>3

LEMMA FileIndexFinds ==
  ASSUME NEW S, buff_file_node \in Seq(S), NEW name
  PROVE  /\ FileIndex(name) # 0 =>
              /\ FileIndex(name) \in 1 .. Len(buff_file_node)
              /\ buff_file_node[FileIndex(name)].file_name = name
         /\ FileIndex(name) = 0 =>
              \A p \in 1 .. Len(buff_file_node) : buff_file_node[p].file_name # name
<1> DEFINE I == {i \in 1 .. Len(buff_file_node) : buff_file_node[i].file_name = name}
<1>1. FileIndex(name) = IF I # {} THEN Min(I) ELSE 0
  BY DEF FileIndex, SelectInSeq
<1>2. I \subseteq Nat /\ 0 \notin I
  OBVIOUS
<1>3. I # {} => Min(I) \in I
  <2> HIDE DEF I
  <2> QED BY <1>2, Least
<1> QED BY <1>1, <1>2, <1>3
-----------------------------------------------------------------------------
(* Records *)

LEMMA DirFields ==
  ASSUME NEW d \in DirRec
  PROVE  /\ d.dir_num \in Int /\ d.dir_name \in NameSet /\ d.parent \in Int
         /\ d.child_dir \in Seq(DNode) /\ d.child_file \in Seq(FNode)
  BY DEF DirRec

LEMMA FileFields ==
  ASSUME NEW f \in FileRec
  PROVE  /\ f.file_num \in Int /\ f.file_name \in NameSet /\ f.parent \in Int
         /\ f.block \in Seq(Blk) /\ f.size_rest \in Int
  BY DEF FileRec

(* A directory with other subdirectories, or with other files. *)
LEMMA DirWithDirs ==
  ASSUME NEW d \in DirRec, NEW s \in Seq(DNode),
         NEW e, e = [d EXCEPT !.child_dir = s]
  PROVE  /\ e \in DirRec /\ e.child_dir = s
         /\ e.dir_num = d.dir_num /\ e.dir_name = d.dir_name
         /\ e.child_file = d.child_file /\ e.parent = d.parent
<1> DEFINE A == Seq(DNode)
           B == Seq(FNode)
<1>1. DirRec = [dir_num : Int, dir_name : NameSet, child_dir : A, child_file : B,
                parent : Int]
  BY DEF DirRec
<1> HIDE DEF A, B
<1> QED BY <1>1 DEF A

LEMMA DirWithFiles ==
  ASSUME NEW d \in DirRec, NEW s \in Seq(FNode),
         NEW e, e = [d EXCEPT !.child_file = s]
  PROVE  /\ e \in DirRec /\ e.child_file = s
         /\ e.dir_num = d.dir_num /\ e.dir_name = d.dir_name
         /\ e.child_dir = d.child_dir /\ e.parent = d.parent
  BY DEF DirRec

LEMMA Empty ==
  ASSUME NEW S
  PROVE  <<>> \in Seq(S)
  OBVIOUS

(* The nodes create_dir and create_file fill in. *)
NewDir(i, name, c) ==
  [BlankDir EXCEPT !.dir_num = i, !.dir_name = name, !.parent = c]
NewFile(i, name, b, c) ==
  [file_num |-> i, file_name |-> name, block |-> <<b>>, size_rest |-> 0, parent |-> c]

LEMMA NewDirIs ==
  ASSUME NEW i \in Int, NEW name \in NameSet, NEW c \in Int, NEW e, e = NewDir(i, name, c)
  PROVE  /\ e \in DirRec /\ e.dir_num = i /\ e.dir_name = name /\ e.parent = c
         /\ e.child_dir = <<>> /\ e.child_file = <<>>
<1> DEFINE A == Seq(DNode)
           B == Seq(FNode)
<1>1. PICK x \in A : x = <<>>
  BY Empty
<1>2. PICK y \in B : y = <<>>
  BY Empty
<1>3. e = [dir_num |-> i, dir_name |-> name, child_dir |-> x, child_file |-> y, parent |-> c]
  BY <1>1, <1>2 DEF BlankDir, NewDir
<1>4. DirRec = [dir_num : Int, dir_name : NameSet, child_dir : A, child_file : B,
                parent : Int]
  BY DEF DirRec
<1> HIDE DEF A, B
<1> QED BY ONLY <1>1, <1>2, <1>3, <1>4, i \in Int, name \in NameSet, c \in Int

LEMMA BlankDirIs ==
  /\ BlankDir \in DirRec /\ BlankDir.dir_num = 0
  /\ BlankDir.child_dir = <<>> /\ BlankDir.child_file = <<>>
  /\ Root \in DirRec /\ Root.dir_num = 0
  /\ Root.child_dir = <<>> /\ Root.child_file = <<>>
<1> DEFINE A == Seq(DNode)
           B == Seq(FNode)
<1>1. PICK x \in A : x = <<>>
  BY Empty
<1>2. PICK y \in B : y = <<>>
  BY Empty
<1>3. DirRec = [dir_num : Int, dir_name : NameSet, child_dir : A, child_file : B,
                parent : Int]
  BY DEF DirRec
<1>4. PICK z \in Int : z = 0
  OBVIOUS
<1>5. PICK n \in NameSet : n = ""
  BY DEF NameSet
<1>6. PICK r \in NameSet : r = "root"
  BY DEF NameSet
<1> HIDE DEF A, B
<1>7. BlankDir = [dir_num |-> z, dir_name |-> n, child_dir |-> x, child_file |-> y,
                  parent |-> z]
  BY <1>1, <1>2, <1>4, <1>5 DEF BlankDir
<1>8. Root = [BlankDir EXCEPT !.dir_name = r]
  BY <1>6 DEF Root
<1>9. /\ BlankDir \in DirRec /\ BlankDir.dir_num = z
      /\ BlankDir.child_dir = x /\ BlankDir.child_file = y
  BY ONLY <1>3, <1>7, x \in A, y \in B, z \in Int, n \in NameSet
<1>10. /\ Root \in DirRec /\ Root.dir_num = z /\ Root.child_dir = x /\ Root.child_file = y
  BY ONLY <1>3, <1>9, <1>8, r \in NameSet
<1> QED BY <1>1, <1>2, <1>4, <1>9, <1>10

LEMMA BlankFileIs == BlankFile \in FileRec /\ BlankFile.block = <<>>
<1> DEFINE B == Seq(Blk)
<1>1. FileRec = [file_num : Int, file_name : NameSet, block : B, size_rest : Int,
                 parent : Int]
  BY DEF FileRec
<1>2. PICK y \in B : y = <<>>
  BY Empty
<1>3. PICK z \in Int : z = 0
  OBVIOUS
<1>4. PICK n \in NameSet : n = ""
  BY DEF NameSet
<1> HIDE DEF B
<1>5. BlankFile = [file_num |-> z, file_name |-> n, block |-> y, size_rest |-> z,
                   parent |-> z]
  BY <1>2, <1>3, <1>4 DEF BlankFile
<1>6. BlankFile \in FileRec /\ BlankFile.block = y
  BY ONLY <1>1, <1>5, y \in B, z \in Int, n \in NameSet
<1> QED BY <1>2, <1>6

LEMMA NewFileIs ==
  ASSUME NEW i \in Int, NEW name \in NameSet, NEW b \in Blk, NEW c \in Int, NEW e,
         e = NewFile(i, name, b, c)
  PROVE  /\ e \in FileRec /\ e.file_num = i /\ e.file_name = name /\ e.parent = c
         /\ e.block = <<b>> /\ e.size_rest = 0
  BY DEF FileRec, NewFile

(* A file that got a block more, or more into its last block. *)
Grown(f, s, n)  == [f EXCEPT !.block = s, !.size_rest = n]
Filled(f, n) == [f EXCEPT !.size_rest = n]

LEMMA FileWith ==
  ASSUME NEW f \in FileRec, NEW s \in Seq(Blk), NEW n \in Int, NEW e,
         e = Grown(f, s, n) \/ (s = f.block /\ e = Filled(f, n))
  PROVE  /\ e \in FileRec /\ e.block = s /\ e.size_rest = n
         /\ e.file_num = f.file_num /\ e.file_name = f.file_name /\ e.parent = f.parent
  BY DEF FileRec, Grown, Filled
-----------------------------------------------------------------------------
(* What the commands do to a tree *)

(* A table of directories, field by field. *)
LEMMA DirTable ==
  ASSUME NEW D \in [DNode -> DirRec], NEW i \in DNode
  PROVE  /\ D[i].dir_num \in Int /\ D[i].dir_name \in NameSet /\ D[i].parent \in Int
         /\ D[i].child_dir \in Seq(DNode) /\ D[i].child_file \in Seq(FNode)
         /\ DOMAIN D[i].child_dir = 1 .. Len(D[i].child_dir) /\ Len(D[i].child_dir) \in Nat
         /\ DOMAIN D[i].child_file = 1 .. Len(D[i].child_file) /\ Len(D[i].child_file) \in Nat
<1>1. D[i] \in DirRec
  OBVIOUS
<1>2. /\ D[i].dir_num \in Int /\ D[i].dir_name \in NameSet /\ D[i].parent \in Int
      /\ D[i].child_dir \in Seq(DNode) /\ D[i].child_file \in Seq(FNode)
  BY <1>1, DirFields
<1> QED BY <1>2

LEMMA FileTable ==
  ASSUME NEW F \in [FNode -> FileRec], NEW f \in FNode
  PROVE  /\ F[f].file_num \in Int /\ F[f].file_name \in NameSet /\ F[f].parent \in Int
         /\ F[f].block \in Seq(Blk) /\ F[f].size_rest \in Int
         /\ DOMAIN F[f].block = 1 .. Len(F[f].block) /\ Len(F[f].block) \in Nat
<1>1. F[f] \in FileRec
  OBVIOUS
<1>2. /\ F[f].file_num \in Int /\ F[f].file_name \in NameSet /\ F[f].parent \in Int
      /\ F[f].block \in Seq(Blk) /\ F[f].size_rest \in Int
  BY <1>1, FileFields
<1> QED BY <1>2

(* create_dir adds an empty directory at the end of the current one. *)
Made(D, E, F, md, mf, mb, c, n) ==
  /\ c \in md /\ n \in DNode /\ n \notin md
  /\ E \in [DNode -> DirRec] /\ \A i \in DNode : i # c /\ i # n => E[i] = D[i]
  /\ E[c].child_dir = Append(D[c].child_dir, n) /\ E[c].child_file = D[c].child_file
  /\ E[c].dir_num = D[c].dir_num /\ E[c].dir_name = D[c].dir_name /\ E[c].parent = D[c].parent
  /\ E[n].child_dir = <<>> /\ E[n].child_file = <<>> /\ E[n].dir_num = n /\ E[n].parent = c
  /\ Len(D[c].child_dir) < MaxDirs
  /\ \A p \in DOMAIN D[c].child_dir : D[D[c].child_dir[p]].dir_name # E[n].dir_name
  /\ \A p \in DOMAIN D[c].child_file : F[D[c].child_file[p]].file_name # E[n].dir_name

LEMMA Mkdir ==
  ASSUME NEW D, NEW E, NEW F, NEW md, NEW mf, NEW mb,
         NEW c, NEW n,
         IsTree(D, F, md, mf, mb), Made(D, E, F, md, mf, mb, c, n)
  PROVE  IsTree(E, F, md \cup {n}, mf, mb)
<1> USE DEF Made
<1> DEFINE me == md \cup {n}
           L == Len(D[c].child_dir)
<1>1. Typed(D, F, md, mf, mb)
  BY DEF IsTree
<1>2. Typed(E, F, me, mf, mb)
  BY <1>1 DEF Typed
<1>3. D \in [DNode -> DirRec] /\ md \subseteq DNode /\ c \in DNode /\ c # n
  BY <1>1 DEF Typed
<1>4. L \in Nat /\ D[c].child_dir \in Seq(DNode) /\ DOMAIN D[c].child_dir = 1 .. L
  BY <1>3, DirTable
<1>5. /\ DOMAIN E[c].child_dir = 1 .. L + 1
      /\ \A p \in 1 .. L : E[c].child_dir[p] = D[c].child_dir[p]
      /\ E[c].child_dir[L + 1] = n
      /\ Len(E[c].child_dir) = L + 1
  BY ONLY <1>4, n \in DNode, E[c].child_dir = Append(D[c].child_dir, n)
<1>6. DOMAIN E[n].child_dir = {} /\ DOMAIN E[n].child_file = {}
      /\ Len(E[n].child_dir) = 0 /\ Len(E[n].child_file) = 0
  OBVIOUS
<1>7. \A i \in md : /\ E[i].child_file = D[i].child_file /\ E[i].dir_num = D[i].dir_num
                    /\ E[i].dir_name = D[i].dir_name /\ E[i].parent = D[i].parent
                    /\ i # c => E[i].child_dir = D[i].child_dir
  BY <1>3
<1>8. Closed(D, md)
  BY DEF IsTree, Rooted
<1>9. ASSUME NEW i \in me, NEW p \in DOMAIN E[i].child_dir
      PROVE  \/ /\ i \in md /\ p \in DOMAIN D[i].child_dir
                /\ E[i].child_dir[p] = D[i].child_dir[p] /\ E[i].child_dir[p] \in md
             \/ i = c /\ p = L + 1 /\ E[i].child_dir[p] = n
  <2>1. i \in md
    BY <1>6
  <2>2. CASE i # c
    BY <1>7, <1>8, <2>1, <2>2 DEF Closed
  <2>3. CASE i = c
    <3>1. p \in 1 .. L \/ p = L + 1
      BY <1>4, <1>5, <2>3
    <3>2. CASE p \in 1 .. L
      BY <1>4, <1>5, <1>8, <2>1, <2>3, <3>2 DEF Closed
    <3>3. CASE p = L + 1
      BY <1>5, <2>3, <3>3
    <3> QED BY <3>1, <3>2, <3>3
  <2> QED BY <2>2, <2>3
<1>10. ASSUME NEW i \in md, NEW p \in DOMAIN D[i].child_dir
       PROVE  p \in DOMAIN E[i].child_dir /\ E[i].child_dir[p] = D[i].child_dir[p]
  <2>1. CASE i # c
    BY <1>7, <2>1
  <2>2. CASE i = c
    <3>1. p \in 1 .. L /\ p \in 1 .. L + 1
      BY ONLY <1>4, <2>2, p \in DOMAIN D[i].child_dir
    <3> QED BY <1>5, <2>2, <3>1
  <2> QED BY <2>1, <2>2
<1>11. Rooted(E, me)
  <2>1. 0 \in me
    BY DEF IsTree, Rooted
  <2>2. Closed(E, me)
    BY <1>9, Zenon DEF Closed
  <2>3. ASSUME NEW T \in SUBSET DNode, 0 \in T, Closed(E, T)
        PROVE  me \subseteq T
    <3>1. Closed(D, T \cap md)
      BY <1>8, <1>10, <2>3, Zenon DEF Closed
    <3>2. md \subseteq T
      <4>1. 0 \in T \cap md /\ T \cap md \in SUBSET DNode
        BY <2>3 DEF IsTree, Rooted
      <4>2. md \subseteq T \cap md
        BY <3>1, <4>1 DEF IsTree, Rooted
      <4> QED BY <4>2
    <3>3. n \in T
      BY <1>4, <1>5, <2>3, <3>2 DEF Closed
    <3> QED BY <3>2, <3>3
  <2> QED BY <2>1, <2>2, <2>3 DEF Rooted
<1>12. DirsOnce(E, me)
  <2>1. DirsOnce(D, md) /\ n # 0
    BY DEF IsTree, Rooted
  <2>2. ASSUME NEW i \in me, NEW j \in me, NEW p \in DOMAIN E[i].child_dir,
               NEW q \in DOMAIN E[j].child_dir, E[i].child_dir[p] = E[j].child_dir[q]
        PROVE  i = j /\ p = q
    BY <1>9, <2>1, <2>2 DEF DirsOnce
  <2>3. ASSUME NEW i \in me, NEW p \in DOMAIN E[i].child_dir
        PROVE  E[i].child_dir[p] # 0
    BY <1>9, <2>1 DEF DirsOnce
  <2> QED BY <2>2, <2>3, Zenon DEF DirsOnce
<1>13. FilesOnce(E, me)
  <2>1. FilesOnce(D, md)
    BY DEF IsTree
  <2>2. ASSUME NEW i \in me, NEW p \in DOMAIN E[i].child_file
        PROVE  i \in md
    BY <1>6
  <2>3. ASSUME NEW i \in me, NEW j \in me, NEW p \in DOMAIN E[i].child_file,
               NEW q \in DOMAIN E[j].child_file, E[i].child_file[p] = E[j].child_file[q]
        PROVE  i = j /\ p = q
    <3>1. i \in md /\ j \in md
      BY <2>2
    <3>2. E[i].child_file = D[i].child_file /\ E[j].child_file = D[j].child_file
      BY <1>7, <3>1
    <3> QED BY <2>1, <2>3, <3>1, <3>2 DEF FilesOnce
  <2> QED BY <2>3, Zenon DEF FilesOnce
<1>14. FilesExact(E, me, mf)
  <2>1. FilesExact(D, md, mf)
    BY DEF IsTree
  <2>2. ASSUME NEW i \in me, NEW p \in DOMAIN E[i].child_file
        PROVE  E[i].child_file[p] \in mf
    BY <1>6, <1>7, <2>1 DEF FilesExact
  <2>3. ASSUME NEW f \in mf
        PROVE  \E i \in me : \E p \in DOMAIN E[i].child_file : E[i].child_file[p] = f
    BY <1>7, <2>1 DEF FilesExact
  <2> QED BY <2>2, <2>3 DEF FilesExact
<1>15. DirLinks(E, me)
  <2>1. DirLinks(D, md)
    BY DEF IsTree
  <2>2. ASSUME NEW i \in me PROVE E[i].dir_num = i
    BY <1>7, <2>1 DEF DirLinks
  <2>3. ASSUME NEW i \in me, NEW p \in DOMAIN E[i].child_dir
        PROVE  E[E[i].child_dir[p]].parent = i
    BY <1>7, <1>9, <2>1 DEF DirLinks
  <2> QED BY <2>2, <2>3 DEF DirLinks
<1>16. FileLinks(E, F, me)
  <2>1. FileLinks(D, F, md)
    BY DEF IsTree
  <2> QED BY <1>6, <1>7, <2>1 DEF FileLinks
<1>17. NamesOnce(E, F, me)
  <2>1. NamesOnce(D, F, md)
    BY DEF IsTree
  <2>2. ASSUME NEW i \in me, NEW p \in DOMAIN E[i].child_dir, NEW q \in DOMAIN E[i].child_dir,
               E[E[i].child_dir[p]].dir_name = E[E[i].child_dir[q]].dir_name
        PROVE  p = q
    <3>1. CASE i = c /\ p = L + 1 /\ E[i].child_dir[p] = n
      BY <1>7, <1>9, <2>2, <3>1
    <3>2. CASE i = c /\ q = L + 1 /\ E[i].child_dir[q] = n
      BY <1>7, <1>9, <2>2, <3>2
    <3>3. CASE /\ i \in md /\ p \in DOMAIN D[i].child_dir /\ q \in DOMAIN D[i].child_dir
               /\ E[i].child_dir[p] = D[i].child_dir[p] /\ E[i].child_dir[p] \in md
               /\ E[i].child_dir[q] = D[i].child_dir[q] /\ E[i].child_dir[q] \in md
      BY <1>7, <2>1, <2>2, <3>3 DEF NamesOnce
    <3> QED BY <1>9, <3>1, <3>2, <3>3, Zenon
  <2>3. ASSUME NEW i \in me, NEW p \in DOMAIN E[i].child_file, NEW q \in DOMAIN E[i].child_file,
               F[E[i].child_file[p]].file_name = F[E[i].child_file[q]].file_name
        PROVE  p = q
    BY <1>6, <1>7, <2>1, <2>3 DEF NamesOnce
  <2>4. ASSUME NEW i \in me, NEW p \in DOMAIN E[i].child_dir, NEW q \in DOMAIN E[i].child_file
        PROVE  E[E[i].child_dir[p]].dir_name # F[E[i].child_file[q]].file_name
    <3>1. i \in md /\ E[i].child_file = D[i].child_file
      BY <1>6, <1>7
    <3>2. CASE i = c /\ p = L + 1 /\ E[i].child_dir[p] = n
      BY <3>1, <3>2
    <3>3. CASE /\ p \in DOMAIN D[i].child_dir
               /\ E[i].child_dir[p] = D[i].child_dir[p] /\ E[i].child_dir[p] \in md
      BY <1>7, <2>1, <3>1, <3>3 DEF NamesOnce
    <3> QED BY <1>9, <3>2, <3>3, Zenon
  <2> QED BY <2>2, <2>3, <2>4, Zenon DEF NamesOnce
<1>18. Fits(E, F, me, mf)
  <2>1. Fits(D, F, md, mf)
    BY DEF IsTree
  <2>2. ASSUME NEW i \in me
        PROVE  Len(E[i].child_dir) <= MaxDirs /\ Len(E[i].child_file) <= MaxFiles
    <3>0. MaxDirs \in Nat /\ MaxFiles \in Nat
      BY SizesAssumption DEF SizesAssumption
    <3>1. CASE i = n
      BY <1>6, <3>0, <3>1
    <3>2. CASE i = c
      BY <1>3, <1>4, <1>5, <2>1, <3>0, <3>2 DEF Fits
    <3>3. CASE i # c /\ i # n
      BY <1>7, <2>1, <3>3 DEF Fits
    <3> QED BY <3>1, <3>2, <3>3
  <2> QED BY <2>1, <2>2 DEF Fits
<1> QED BY <1>2, <1>11, <1>12, <1>13, <1>14, <1>15, <1>16, <1>17, <1>18 DEF IsTree

(* Where only the lists of files differ the directories are the same tree. *)
LEMMA SameDirs ==
  ASSUME NEW D, NEW E, NEW md, md \subseteq DNode, 
         \A i \in DNode : /\ E[i].child_dir = D[i].child_dir /\ E[i].dir_num = D[i].dir_num
                          /\ E[i].parent = D[i].parent,
         \A i \in md : \A p \in DOMAIN D[i].child_dir : D[i].child_dir[p] \in DNode,
         Rooted(D, md), DirsOnce(D, md), DirLinks(D, md)
  PROVE  Rooted(E, md) /\ DirsOnce(E, md) /\ DirLinks(E, md)
<1>1. \A T \in SUBSET DNode : Closed(E, T) = Closed(D, T)
  BY DEF Closed
<1>2. Rooted(E, md)
  <2>1. 0 \in md /\ Closed(E, md)
    BY <1>1 DEF Rooted
  <2>2. ASSUME NEW T \in SUBSET DNode, 0 \in T, Closed(E, T) PROVE md \subseteq T
    BY <1>1, <2>2 DEF Rooted
  <2> QED BY <2>1, <2>2 DEF Rooted
<1>3. \A i \in md : /\ E[i].child_dir = D[i].child_dir /\ E[i].dir_num = D[i].dir_num
                    /\ \A p \in DOMAIN D[i].child_dir :
                         E[D[i].child_dir[p]].parent = D[D[i].child_dir[p]].parent
  OBVIOUS
<1>4. DirsOnce(E, md)
  BY <1>3 DEF DirsOnce
<1>5. DirLinks(E, md)
  BY <1>3 DEF DirLinks
<1> QED BY <1>2, <1>4, <1>5

(* create_file adds a file of one block to the current directory. *)
Touched(D, E, F, G, md, mf, mb, c, n, b) ==
  /\ c \in md /\ n \in FNode /\ n \notin mf /\ b \in Blk /\ b \notin mb
  /\ E \in [DNode -> DirRec] /\ \A i \in DNode : i # c => E[i] = D[i]
  /\ G \in [FNode -> FileRec] /\ \A f \in FNode : f # n => G[f] = F[f]
  /\ E[c].child_file = Append(D[c].child_file, n) /\ E[c].child_dir = D[c].child_dir
  /\ E[c].dir_num = D[c].dir_num /\ E[c].dir_name = D[c].dir_name /\ E[c].parent = D[c].parent
  /\ G[n].file_num = n /\ G[n].parent = c /\ G[n].size_rest = 0 /\ G[n].block = <<b>>
  /\ Len(D[c].child_file) < MaxFiles
  /\ \A p \in DOMAIN D[c].child_dir : D[D[c].child_dir[p]].dir_name # G[n].file_name
  /\ \A p \in DOMAIN D[c].child_file : F[D[c].child_file[p]].file_name # G[n].file_name

LEMMA Touch ==
  ASSUME NEW D, NEW E, NEW F, NEW G, NEW md, NEW mf, NEW mb,
         NEW c, NEW n, NEW b,
         IsTree(D, F, md, mf, mb), Touched(D, E, F, G, md, mf, mb, c, n, b)
  PROVE  IsTree(E, G, md, mf \cup {n}, mb \cup {b})
<1> USE DEF Touched
<1> DEFINE ne == mf \cup {n}
           be == mb \cup {b}
           L == Len(D[c].child_file)
<1>1. Typed(D, F, md, mf, mb)
  BY DEF IsTree
<1>2. Typed(E, G, md, ne, be)
  BY <1>1 DEF Typed
<1>3. /\ D \in [DNode -> DirRec] /\ md \subseteq DNode /\ c \in DNode /\ mf \subseteq FNode
      /\ F \in [FNode -> FileRec]
  BY <1>1 DEF Typed
<1>4. L \in Nat /\ D[c].child_file \in Seq(FNode) /\ DOMAIN D[c].child_file = 1 .. L
  BY <1>3, DirTable
<1>5. /\ DOMAIN E[c].child_file = 1 .. L + 1
      /\ \A p \in 1 .. L : E[c].child_file[p] = D[c].child_file[p]
      /\ E[c].child_file[L + 1] = n
      /\ Len(E[c].child_file) = L + 1
  BY ONLY <1>4, n \in FNode, E[c].child_file = Append(D[c].child_file, n)
<1>6. \A i \in DNode : /\ E[i].child_dir = D[i].child_dir /\ E[i].dir_num = D[i].dir_num
                       /\ E[i].dir_name = D[i].dir_name /\ E[i].parent = D[i].parent
                       /\ i # c => E[i].child_file = D[i].child_file
  OBVIOUS
<1>7. \A f \in mf : G[f] = F[f] /\ f # n
  BY <1>3
<1>8. FilesExact(D, md, mf)
  BY DEF IsTree
<1>9. ASSUME NEW i \in md, NEW p \in DOMAIN E[i].child_file
      PROVE  \/ /\ p \in DOMAIN D[i].child_file
                /\ E[i].child_file[p] = D[i].child_file[p] /\ E[i].child_file[p] \in mf
             \/ i = c /\ p = L + 1 /\ E[i].child_file[p] = n
  <2>2. CASE i # c
    BY <1>3, <1>6, <1>8, <2>2 DEF FilesExact
  <2>3. CASE i = c
    <3>1. p \in 1 .. L \/ p = L + 1
      BY <1>4, <1>5, <2>3
    <3>2. CASE p \in 1 .. L
      BY <1>4, <1>5, <1>8, <2>3, <3>2 DEF FilesExact
    <3>3. CASE p = L + 1
      BY <1>5, <2>3, <3>3
    <3> QED BY <3>1, <3>2, <3>3
  <2> QED BY <2>2, <2>3
<1>10. ASSUME NEW i \in md, NEW p \in DOMAIN D[i].child_file
       PROVE  p \in DOMAIN E[i].child_file /\ E[i].child_file[p] = D[i].child_file[p]
  <2>1. CASE i # c
    BY <1>3, <1>6, <2>1
  <2>2. CASE i = c
    <3>1. p \in 1 .. L /\ p \in 1 .. L + 1
      BY ONLY <1>4, <2>2, p \in DOMAIN D[i].child_file
    <3> QED BY <1>5, <2>2, <3>1
  <2> QED BY <2>1, <2>2
<1>11. \A i \in md : \A p \in DOMAIN D[i].child_dir : D[i].child_dir[p] \in DNode
  BY <1>3 DEF IsTree, Rooted, Closed
<1>12. Rooted(E, md) /\ DirsOnce(E, md) /\ DirLinks(E, md)
  <2>1. Rooted(D, md) /\ DirsOnce(D, md) /\ DirLinks(D, md)
    BY DEF IsTree
  <2>2. \A i \in DNode : /\ E[i].child_dir = D[i].child_dir /\ E[i].dir_num = D[i].dir_num
                         /\ E[i].parent = D[i].parent
    BY <1>6
  <2> QED BY ONLY <1>3, <1>11, <2>1, <2>2, SameDirs
<1>13. FilesOnce(E, md)
  <2>1. FilesOnce(D, md)
    BY DEF IsTree
  <2>2. ASSUME NEW i \in md, NEW j \in md, NEW p \in DOMAIN E[i].child_file,
               NEW q \in DOMAIN E[j].child_file, E[i].child_file[p] = E[j].child_file[q]
        PROVE  i = j /\ p = q
    BY <1>9, <2>1, <2>2 DEF FilesOnce
  <2> QED BY <2>2, Zenon DEF FilesOnce
<1>14. FilesExact(E, md, ne)
  <2>1. ASSUME NEW i \in md, NEW p \in DOMAIN E[i].child_file
        PROVE  E[i].child_file[p] \in ne
    BY <1>9
  <2>2. ASSUME NEW f \in ne
        PROVE  \E i \in md : \E p \in DOMAIN E[i].child_file : E[i].child_file[p] = f
    <3>1. CASE f = n
      <4>1. L + 1 \in DOMAIN E[c].child_file
        BY <1>4, <1>5
      <4> QED BY <1>5, <3>1, <4>1
    <3>2. CASE f \in mf
      BY <1>8, <1>10, <3>2 DEF FilesExact
    <3> QED BY <3>1, <3>2
  <2> QED BY <2>1, <2>2 DEF FilesExact
<1>15. DOMAIN G[n].block = {1} /\ G[n].block[1] = b /\ Len(G[n].block) = 1
  OBVIOUS
<1>16. BlksOnce(G, ne)
  <2>1. BlksOnce(F, mf) /\ BlksExact(F, mf, mb)
    BY DEF IsTree
  <2>2. ASSUME NEW f \in ne, NEW p \in DOMAIN G[f].block
        PROVE  \/ /\ f \in mf /\ p \in DOMAIN F[f].block
                  /\ G[f].block[p] = F[f].block[p] /\ G[f].block[p] # b
               \/ f = n /\ p = 1 /\ G[f].block[p] = b
    BY <1>7, <1>15, <2>1 DEF BlksExact
  <2>3. ASSUME NEW f \in ne, NEW g \in ne, NEW p \in DOMAIN G[f].block,
               NEW q \in DOMAIN G[g].block, G[f].block[p] = G[g].block[q]
        PROVE  f = g /\ p = q
    BY <2>1, <2>2, <2>3 DEF BlksOnce
  <2> QED BY <2>3, Zenon DEF BlksOnce
<1>17. BlksExact(G, ne, be)
  <2>1. BlksExact(F, mf, mb)
    BY DEF IsTree
  <2>2. ASSUME NEW f \in ne, NEW p \in DOMAIN G[f].block PROVE G[f].block[p] \in be
    BY <1>7, <1>15, <2>1 DEF BlksExact
  <2>3. ASSUME NEW a \in be
        PROVE  \E f \in ne : \E p \in DOMAIN G[f].block : G[f].block[p] = a
    BY <1>7, <1>15, <2>1 DEF BlksExact
  <2> QED BY <2>2, <2>3 DEF BlksExact
<1>18. FileLinks(E, G, md)
  <2>1. FileLinks(D, F, md)
    BY DEF IsTree
  <2>2. ASSUME NEW i \in md, NEW p \in DOMAIN E[i].child_file
        PROVE  /\ G[E[i].child_file[p]].parent = i
               /\ G[E[i].child_file[p]].file_num = E[i].child_file[p]
    BY <1>7, <1>9, <2>1 DEF FileLinks
  <2> QED BY <2>2 DEF FileLinks
<1>19. NamesOnce(E, G, md)
  <2>1. NamesOnce(D, F, md)
    BY DEF IsTree
  <2>2. ASSUME NEW i \in md, NEW p \in DOMAIN E[i].child_file, NEW q \in DOMAIN E[i].child_file,
               G[E[i].child_file[p]].file_name = G[E[i].child_file[q]].file_name
        PROVE  p = q
    <3>1. CASE i = c /\ p = L + 1 /\ E[i].child_file[p] = n
      BY <1>7, <1>9, <2>2, <3>1
    <3>2. CASE i = c /\ q = L + 1 /\ E[i].child_file[q] = n
      BY <1>7, <1>9, <2>2, <3>2
    <3>3. CASE /\ p \in DOMAIN D[i].child_file /\ q \in DOMAIN D[i].child_file
               /\ E[i].child_file[p] = D[i].child_file[p] /\ E[i].child_file[p] \in mf
               /\ E[i].child_file[q] = D[i].child_file[q] /\ E[i].child_file[q] \in mf
      BY <1>7, <2>1, <2>2, <3>3 DEF NamesOnce
    <3> QED BY <1>9, <3>1, <3>2, <3>3, Zenon
  <2>3. \A i \in md : \A p \in DOMAIN E[i].child_dir :
          /\ p \in DOMAIN D[i].child_dir
          /\ E[E[i].child_dir[p]].dir_name = D[D[i].child_dir[p]].dir_name
    BY <1>3, <1>6, <1>11
  <2>4. ASSUME NEW i \in md, NEW p \in DOMAIN E[i].child_dir, NEW q \in DOMAIN E[i].child_dir,
               E[E[i].child_dir[p]].dir_name = E[E[i].child_dir[q]].dir_name
        PROVE  p = q
    BY <2>1, <2>3, <2>4 DEF NamesOnce
  <2>5. ASSUME NEW i \in md, NEW p \in DOMAIN E[i].child_dir, NEW q \in DOMAIN E[i].child_file
        PROVE  E[E[i].child_dir[p]].dir_name # G[E[i].child_file[q]].file_name
    <3>2. CASE i = c /\ q = L + 1 /\ E[i].child_file[q] = n
      BY <2>3, <3>2
    <3>3. CASE /\ q \in DOMAIN D[i].child_file
               /\ E[i].child_file[q] = D[i].child_file[q] /\ E[i].child_file[q] \in mf
      BY <1>7, <2>1, <2>3, <3>3 DEF NamesOnce
    <3> QED BY <1>9, <3>2, <3>3, Zenon
  <2> QED BY <2>2, <2>4, <2>5, Zenon DEF NamesOnce
<1>20. Fits(E, G, md, ne)
  <2>1. Fits(D, F, md, mf)
    BY DEF IsTree
  <2>2. ASSUME NEW i \in md
        PROVE  Len(E[i].child_dir) <= MaxDirs /\ Len(E[i].child_file) <= MaxFiles
    <3>1. CASE i = c
      BY <1>4, <1>5, <1>6, <2>1, <3>1, <1>3, SizesAssumption DEF Fits, SizesAssumption
    <3>2. CASE i # c
      BY <1>3, <1>6, <2>1, <3>2 DEF Fits
    <3> QED BY <3>1, <3>2
  <2>3. ASSUME NEW f \in ne
        PROVE  Len(G[f].block) \in 1 .. BlkPerFile /\ G[f].size_rest \in 0 .. BlkSize
    <3>1. CASE f = n
      <4>1. BlkPerFile \in Nat \ {0} /\ BlkSize \in Nat
        BY SizesAssumption DEF SizesAssumption
      <4>2. 1 \in 1 .. BlkPerFile /\ 0 \in 0 .. BlkSize
        BY ONLY <4>1
      <4> QED BY <1>15, <3>1, <4>2
    <3>2. CASE f \in mf
      BY <1>7, <2>1, <3>2 DEF Fits
    <3> QED BY <3>1, <3>2
  <2> QED BY <2>2, <2>3 DEF Fits
<1> QED BY <1>2, <1>12, <1>13, <1>14, <1>16, <1>17, <1>18, <1>19, <1>20 DEF IsTree

(* write_file changes one file: its last block fills up, or it gets one     *)
(* block more.                                                              *)
Written(D, F, G, md, mf, mb, be, f) ==
  /\ f \in mf
  /\ G \in [FNode -> FileRec] /\ \A g \in FNode : g # f => G[g] = F[g]
  /\ G[f].file_num = F[f].file_num /\ G[f].file_name = F[f].file_name
  /\ G[f].parent = F[f].parent /\ G[f].size_rest \in 0 .. BlkSize
  /\ \/ G[f].block = F[f].block /\ be = mb
     \/ \E b \in Blk : /\ b \notin mb /\ be = mb \cup {b}
                       /\ G[f].block = Append(F[f].block, b)
                       /\ Len(F[f].block) < BlkPerFile

LEMMA Write ==
  ASSUME NEW D, NEW F, NEW G, NEW md, NEW mf, NEW mb, NEW be,
         NEW f,
         IsTree(D, F, md, mf, mb), Written(D, F, G, md, mf, mb, be, f)
  PROVE  IsTree(D, G, md, mf, be)
<1> USE DEF Written
<1>1. Typed(D, F, md, mf, mb)
  BY DEF IsTree
<1>2. Typed(D, G, md, mf, be)
  BY <1>1 DEF Typed
<1>3. F \in [FNode -> FileRec] /\ mf \subseteq FNode
  BY <1>1 DEF Typed
<1>4. \A g \in FNode : /\ G[g].file_num = F[g].file_num /\ G[g].file_name = F[g].file_name
                       /\ G[g].parent = F[g].parent
  OBVIOUS
<1>5. \A i \in md : \A p \in DOMAIN D[i].child_file : D[i].child_file[p] \in FNode
  BY <1>3 DEF IsTree, FilesExact
<1>6. FileLinks(D, G, md)
  <2>1. FileLinks(D, F, md)
    BY DEF IsTree
  <2> QED BY <1>4, <1>5, <2>1 DEF FileLinks
<1>7. NamesOnce(D, G, md)
  <2>1. NamesOnce(D, F, md)
    BY DEF IsTree
  <2>2. \A i \in md : \A p \in DOMAIN D[i].child_file :
          G[D[i].child_file[p]].file_name = F[D[i].child_file[p]].file_name
    BY <1>4, <1>5
  <2> QED BY <2>1, <2>2 DEF NamesOnce
<1>8. BlksOnce(F, mf) /\ BlksExact(F, mf, mb) /\ Fits(D, F, md, mf)
  BY DEF IsTree
<1>9. \A g \in mf : g # f => G[g] = F[g]
  BY <1>3
<1>10. BlksOnce(G, mf) /\ BlksExact(G, mf, be) /\ Fits(D, G, md, mf)
  <2>1. CASE G[f].block = F[f].block /\ be = mb
    <3>1. \A g \in mf : G[g].block = F[g].block
      BY <1>9, <2>1
    <3>2. BlksOnce(G, mf)
      BY <1>8, <3>1 DEF BlksOnce
    <3>3. BlksExact(G, mf, be)
      BY <1>8, <2>1, <3>1 DEF BlksExact
    <3>4. \A g \in mf : Len(G[g].block) \in 1 .. BlkPerFile /\ G[g].size_rest \in 0 .. BlkSize
      BY <1>8, <1>9, <3>1 DEF Fits
    <3> QED BY <1>8, <3>2, <3>3, <3>4 DEF Fits
  <2>2. ASSUME NEW b \in Blk, b \notin mb, be = mb \cup {b},
               G[f].block = Append(F[f].block, b), Len(F[f].block) < BlkPerFile
        PROVE  BlksOnce(G, mf) /\ BlksExact(G, mf, be) /\ Fits(D, G, md, mf)
    <3> DEFINE L == Len(F[f].block)
    <3>1. F[f].block \in Seq(Blk) /\ L \in Nat /\ DOMAIN F[f].block = 1 .. L
      BY <1>3, FileTable
    <3>2. /\ DOMAIN G[f].block = 1 .. L + 1 /\ Len(G[f].block) = L + 1
          /\ \A p \in 1 .. L : G[f].block[p] = F[f].block[p]
          /\ G[f].block[L + 1] = b
      BY ONLY <3>1, <2>2, b \in Blk
    <3>3. ASSUME NEW g \in mf, NEW p \in DOMAIN G[g].block
          PROVE  \/ /\ p \in DOMAIN F[g].block /\ G[g].block[p] = F[g].block[p]
                    /\ G[g].block[p] \in mb
                 \/ g = f /\ p = L + 1 /\ G[g].block[p] = b
      <4>1. CASE g # f
        BY <1>8, <1>9, <4>1 DEF BlksExact
      <4>2. CASE g = f
        <5>1. p \in 1 .. L \/ p = L + 1
          BY <3>1, <3>2, <4>2
        <5>2. CASE p \in 1 .. L
          BY <1>8, <3>1, <3>2, <4>2, <5>2 DEF BlksExact
        <5>3. CASE p = L + 1
          BY <3>2, <4>2, <5>3
        <5> QED BY <5>1, <5>2, <5>3
      <4> QED BY <4>1, <4>2
    <3>4. ASSUME NEW g \in mf, NEW p \in DOMAIN F[g].block
          PROVE  p \in DOMAIN G[g].block /\ G[g].block[p] = F[g].block[p]
      <4>1. CASE g # f
        BY <1>9, <4>1
      <4>2. CASE g = f
        <5>1. p \in 1 .. L /\ p \in 1 .. L + 1
          BY <3>1, <4>2
        <5> QED BY <3>2, <4>2, <5>1
      <4> QED BY <4>1, <4>2
    <3>5. BlksOnce(G, mf)
      <4>1. ASSUME NEW g \in mf, NEW h \in mf, NEW p \in DOMAIN G[g].block,
                   NEW q \in DOMAIN G[h].block, G[g].block[p] = G[h].block[q]
            PROVE  g = h /\ p = q
        BY <1>8, <2>2, <3>3, <4>1 DEF BlksOnce
      <4> QED BY <4>1, Zenon DEF BlksOnce
    <3>6. BlksExact(G, mf, be)
      <4>1. ASSUME NEW g \in mf, NEW p \in DOMAIN G[g].block PROVE G[g].block[p] \in be
        BY <2>2, <3>3
      <4>2. ASSUME NEW a \in be
            PROVE  \E g \in mf : \E p \in DOMAIN G[g].block : G[g].block[p] = a
        <5>1. CASE a = b
          <6>1. L + 1 \in DOMAIN G[f].block
            BY <3>1, <3>2
          <6> QED BY <3>2, <5>1, <6>1
        <5>2. CASE a \in mb
          BY <1>8, <3>4, <5>2 DEF BlksExact
        <5> QED BY <2>2, <5>1, <5>2
      <4> QED BY <4>1, <4>2 DEF BlksExact
    <3>7. \A g \in mf : Len(G[g].block) \in 1 .. BlkPerFile /\ G[g].size_rest \in 0 .. BlkSize
      <4>1. Len(G[f].block) \in 1 .. BlkPerFile
        BY <2>2, <3>1, <3>2, SizesAssumption DEF SizesAssumption
      <4> QED BY <1>8, <1>9, <4>1 DEF Fits
    <3> QED BY <1>8, <3>5, <3>6, <3>7 DEF Fits
  <2> QED BY <2>1, <2>2
<1> QED BY <1>2, <1>6, <1>7, <1>10 DEF IsTree

(* Some files are deleted with all their blocks. *)
LEMMA FewerBlks ==
  ASSUME NEW F, NEW G, NEW mf, NEW mb, NEW gone, BlksOnce(F, mf), BlksExact(F, mf, mb),
         gone \subseteq mf, \A f \in mf \ gone : G[f] = F[f]
  PROVE  /\ BlksOnce(G, mf \ gone)
         /\ BlksExact(G, mf \ gone, mb \ UNION {Range(F[f].block) : f \in gone})
<1> DEFINE ne == mf \ gone
           be == mb \ UNION {Range(F[f].block) : f \in gone}
<1>1. BlksOnce(G, ne)
  BY DEF BlksOnce
<1>2. ASSUME NEW f \in ne, NEW p \in DOMAIN G[f].block PROVE G[f].block[p] \in be
  <2>1. G[f] = F[f] /\ f \in mf /\ f \notin gone /\ G[f].block[p] \in mb
    BY DEF BlksExact
  <2>2. ASSUME NEW g \in gone, G[f].block[p] \in Range(F[g].block) PROVE FALSE
    <3>1. PICK q \in DOMAIN F[g].block : F[g].block[q] = F[f].block[p]
      BY <2>1, <2>2 DEF Range
    <3> QED BY <2>1, <3>1 DEF BlksOnce
  <2> QED BY <2>1, <2>2
<1>3. ASSUME NEW b \in be
      PROVE  \E f \in ne : \E p \in DOMAIN G[f].block : G[f].block[p] = b
  <2>1. PICK f \in mf : \E p \in DOMAIN F[f].block : F[f].block[p] = b
    BY DEF BlksExact
  <2>2. b \in Range(F[f].block)
    BY <2>1 DEF Range
  <2>3. f \notin gone
    BY <2>2
  <2> QED BY <2>1, <2>3
<1>4. BlksExact(G, ne, be)
  BY <1>2, <1>3 DEF BlksExact
<1> QED BY <1>1, <1>4

(* Where the p-th element of a sequence without its k-th one came from. *)
Over(k, p) == IF p < k THEN p ELSE p + 1

LEMMA RemovedFrom ==
  ASSUME NEW S, NEW s \in Seq(S), NEW k \in DOMAIN s, NEW r, r = RemoveAt(s, k)
  PROVE  /\ r \in Seq(S) /\ Len(r) = Len(s) - 1
         /\ \A p \in DOMAIN r : Over(k, p) \in DOMAIN s /\ Over(k, p) # k /\ r[p] = s[Over(k, p)]
         /\ \A p, q \in DOMAIN r : Over(k, p) = Over(k, q) => p = q
         /\ \A q \in DOMAIN s : q # k => \E p \in DOMAIN r : r[p] = s[q]
<1>1. k \in 1 .. Len(s) /\ DOMAIN s = 1 .. Len(s) /\ Len(s) \in Nat
  <2>1. DOMAIN s = 1 .. Len(s) /\ Len(s) \in Nat
    BY ONLY s \in Seq(S)
  <2> QED BY ONLY <2>1, k \in DOMAIN s, Zenon
<1>2. /\ r \in Seq(S) /\ Len(r) = Len(s) - 1
      /\ \A p \in 1 .. Len(s) - 1 : r[p] = IF p < k THEN s[p] ELSE s[p + 1]
  BY <1>1, Removed
<1>3. DOMAIN r = 1 .. Len(s) - 1
  BY <1>2
<1>4. ASSUME NEW p \in DOMAIN r
      PROVE  Over(k, p) \in DOMAIN s /\ Over(k, p) # k /\ r[p] = s[Over(k, p)]
  BY <1>1, <1>2, <1>3 DEF Over
<1>5. ASSUME NEW p \in DOMAIN r, NEW q \in DOMAIN r, Over(k, p) = Over(k, q)
      PROVE  p = q
  BY ONLY <1>1, <1>3, <1>5, p \in DOMAIN r, q \in DOMAIN r DEF Over
<1>6. ASSUME NEW q \in DOMAIN s, q # k
      PROVE  \E p \in DOMAIN r : r[p] = s[q]
  <2>1. CASE q < k
    <3>1. q \in DOMAIN r /\ r[q] = s[q]
      BY <1>1, <1>2, <1>3, <2>1
    <3> QED BY <3>1
  <2>2. CASE k < q
    <3>1. q - 1 \in DOMAIN r /\ ~ (q - 1 < k) /\ (q - 1) + 1 = q
      BY ONLY <1>1, <1>3, <2>2, q \in DOMAIN s
    <3>2. r[q - 1] = s[q]
      BY <1>2, <1>3, <3>1
    <3> QED BY <3>1, <3>2
  <2> QED BY <1>1, <1>6, <2>1, <2>2
<1> QED BY <1>2, <1>4, <1>5, <1>6

(* del_file takes the k-th file of the current directory out of the tree.   *)
Removal(D, E, F, G, md, mf, mb, c, k, x) ==
  /\ c \in md /\ k \in DOMAIN D[c].child_file /\ x = D[c].child_file[k]
  /\ E \in [DNode -> DirRec] /\ \A i \in DNode : i # c => E[i] = D[i]
  /\ G \in [FNode -> FileRec] /\ \A f \in FNode : f # x => G[f] = F[f]
  /\ E[c].child_file = RemoveAt(D[c].child_file, k) /\ E[c].child_dir = D[c].child_dir
  /\ E[c].dir_num = D[c].dir_num /\ E[c].dir_name = D[c].dir_name /\ E[c].parent = D[c].parent

LEMMA Rm ==
  ASSUME NEW D, NEW E, NEW F, NEW G, NEW md, NEW mf, NEW mb,
         NEW c, NEW k, NEW x,
         IsTree(D, F, md, mf, mb), Removal(D, E, F, G, md, mf, mb, c, k, x)
  PROVE  IsTree(E, G, md, mf \ {x}, mb \ Range(F[x].block))
<1> USE DEF Removal
<1> DEFINE ne == mf \ {x}
           be == mb \ Range(F[x].block)
           Src(i, p) == IF i = c THEN Over(k, p) ELSE p
<1>1. Typed(D, F, md, mf, mb)
  BY DEF IsTree
<1>2. Typed(E, G, md, ne, be)
  BY <1>1 DEF Typed
<1>3. /\ D \in [DNode -> DirRec] /\ md \subseteq DNode /\ c \in DNode /\ mf \subseteq FNode
      /\ F \in [FNode -> FileRec]
  BY <1>1 DEF Typed
<1>4. D[c].child_file \in Seq(FNode)
  BY <1>3, DirTable
<1>5. /\ Len(E[c].child_file) = Len(D[c].child_file) - 1
      /\ \A p \in DOMAIN E[c].child_file :
           /\ Over(k, p) \in DOMAIN D[c].child_file /\ Over(k, p) # k
           /\ E[c].child_file[p] = D[c].child_file[Over(k, p)]
      /\ \A p, q \in DOMAIN E[c].child_file : Over(k, p) = Over(k, q) => p = q
      /\ \A q \in DOMAIN D[c].child_file :
           q # k => \E p \in DOMAIN E[c].child_file : E[c].child_file[p] = D[c].child_file[q]
  <2> DEFINE s == D[c].child_file
             r == E[c].child_file
  <2>1. s \in Seq(FNode) /\ k \in DOMAIN s /\ r = RemoveAt(s, k)
    BY <1>4
  <2> HIDE DEF s, r
  <2>2. /\ Len(r) = Len(s) - 1
        /\ \A p \in DOMAIN r :
             Over(k, p) \in DOMAIN s /\ Over(k, p) # k /\ r[p] = s[Over(k, p)]
        /\ \A p, q \in DOMAIN r : Over(k, p) = Over(k, q) => p = q
        /\ \A q \in DOMAIN s : q # k => \E p \in DOMAIN r : r[p] = s[q]
    BY ONLY <2>1, RemovedFrom
  <2> QED BY <2>2, Zenon DEF s, r
<1>6. \A i \in DNode : /\ E[i].child_dir = D[i].child_dir /\ E[i].dir_num = D[i].dir_num
                       /\ E[i].dir_name = D[i].dir_name /\ E[i].parent = D[i].parent
                       /\ i # c => E[i].child_file = D[i].child_file
  OBVIOUS
<1>7. FilesExact(D, md, mf) /\ FilesOnce(D, md)
  BY DEF IsTree
<1>8. ASSUME NEW i \in md, NEW p \in DOMAIN E[i].child_file
      PROVE  /\ Src(i, p) \in DOMAIN D[i].child_file
             /\ E[i].child_file[p] = D[i].child_file[Src(i, p)]
             /\ E[i].child_file[p] \in ne
  <2>1. /\ Src(i, p) \in DOMAIN D[i].child_file
        /\ E[i].child_file[p] = D[i].child_file[Src(i, p)]
        /\ i = c => Src(i, p) # k
    BY <1>3, <1>5, <1>6
  <2>2. E[i].child_file[p] \in mf
    BY <1>7, <2>1 DEF FilesExact
  <2>3. E[i].child_file[p] # x
    BY <1>7, <2>1 DEF FilesOnce
  <2> QED BY <2>1, <2>2, <2>3
<1>9. ASSUME NEW i \in md, NEW p \in DOMAIN E[i].child_file, NEW q \in DOMAIN E[i].child_file,
             Src(i, p) = Src(i, q)
      PROVE  p = q
  BY <1>5, <1>9
<1>10. \A i \in md : \A p \in DOMAIN D[i].child_dir : D[i].child_dir[p] \in DNode
  BY <1>3 DEF IsTree, Rooted, Closed
<1>11. Rooted(E, md) /\ DirsOnce(E, md) /\ DirLinks(E, md)
  <2>1. Rooted(D, md) /\ DirsOnce(D, md) /\ DirLinks(D, md)
    BY DEF IsTree
  <2>2. \A i \in DNode : /\ E[i].child_dir = D[i].child_dir /\ E[i].dir_num = D[i].dir_num
                         /\ E[i].parent = D[i].parent
    BY <1>6
  <2> QED BY ONLY <1>3, <1>10, <2>1, <2>2, SameDirs
<1>12. \A f \in ne : G[f] = F[f]
  BY <1>3
<1>13. BlksOnce(G, ne) /\ BlksExact(G, ne, be)
  <2>1. BlksOnce(F, mf) /\ BlksExact(F, mf, mb) /\ {x} \subseteq mf
    BY <1>7 DEF IsTree, FilesExact
  <2>2. UNION {Range(F[f].block) : f \in {x}} = Range(F[x].block)
    OBVIOUS
  <2> DEFINE X == {x}
  <2>3. X \subseteq mf /\ ne = mf \ X /\ be = mb \ UNION {Range(F[f].block) : f \in X}
    BY <2>1, <2>2
  <2>4. \A f \in mf \ X : G[f] = F[f]
    BY <1>12
  <2> HIDE DEF X, ne, be
  <2>5. BlksOnce(G, mf \ X)
        /\ BlksExact(G, mf \ X, mb \ UNION {Range(F[f].block) : f \in X})
    BY ONLY <2>1, <2>3, <2>4, FewerBlks
  <2> QED BY ONLY <2>3, <2>5
<1>14. FilesOnce(E, md)
  <2>1. ASSUME NEW i \in md, NEW j \in md, NEW p \in DOMAIN E[i].child_file,
               NEW q \in DOMAIN E[j].child_file, E[i].child_file[p] = E[j].child_file[q]
        PROVE  i = j /\ p = q
    <3> HIDE DEF Src
    <3>1. i = j /\ Src(i, p) = Src(j, q)
      BY <1>7, <1>8, <2>1 DEF FilesOnce
    <3> QED BY <1>9, <3>1
  <2> QED BY <2>1, Zenon DEF FilesOnce
<1>15. FilesExact(E, md, ne)
  <2>1. ASSUME NEW f \in ne
        PROVE  \E i \in md : \E p \in DOMAIN E[i].child_file : E[i].child_file[p] = f
    <3>0. PICK i \in md : \E q \in DOMAIN D[i].child_file : D[i].child_file[q] = f
      BY <1>7 DEF FilesExact
    <3>1. PICK q \in DOMAIN D[i].child_file : D[i].child_file[q] = f
      BY <3>0
    <3>2. CASE i = c
      BY <1>5, <3>1, <3>2
    <3>3. CASE i # c
      BY <1>3, <1>6, <3>1, <3>3
    <3> QED BY <3>2, <3>3
  <2> QED BY <1>8, <2>1 DEF FilesExact
<1>16. FileLinks(E, G, md)
  <2>1. FileLinks(D, F, md)
    BY DEF IsTree
  <2>2. ASSUME NEW i \in md, NEW p \in DOMAIN E[i].child_file
        PROVE  /\ G[E[i].child_file[p]].parent = i
               /\ G[E[i].child_file[p]].file_num = E[i].child_file[p]
    BY <1>8, <1>12, <2>1 DEF FileLinks
  <2> QED BY <2>2 DEF FileLinks
<1>17. NamesOnce(E, G, md)
  <2>1. NamesOnce(D, F, md)
    BY DEF IsTree
  <2>2. ASSUME NEW i \in md, NEW p \in DOMAIN E[i].child_file, NEW q \in DOMAIN E[i].child_file,
               G[E[i].child_file[p]].file_name = G[E[i].child_file[q]].file_name
        PROVE  p = q
    <3> HIDE DEF Src
    <3>1. Src(i, p) = Src(i, q)
      BY <1>8, <1>12, <2>1, <2>2 DEF NamesOnce
    <3> QED BY <1>9, <3>1
  <2>3. \A i \in md : \A p \in DOMAIN E[i].child_dir :
          /\ p \in DOMAIN D[i].child_dir
          /\ E[E[i].child_dir[p]].dir_name = D[D[i].child_dir[p]].dir_name
    BY <1>3, <1>6, <1>10
  <2>4. ASSUME NEW i \in md, NEW p \in DOMAIN E[i].child_dir, NEW q \in DOMAIN E[i].child_dir,
               E[E[i].child_dir[p]].dir_name = E[E[i].child_dir[q]].dir_name
        PROVE  p = q
    BY <2>1, <2>3, <2>4 DEF NamesOnce
  <2>5. ASSUME NEW i \in md, NEW p \in DOMAIN E[i].child_dir, NEW q \in DOMAIN E[i].child_file
        PROVE  E[E[i].child_dir[p]].dir_name # G[E[i].child_file[q]].file_name
    <3> HIDE DEF Src
    <3> QED BY <1>8, <1>12, <2>1, <2>3 DEF NamesOnce
  <2> QED BY <2>2, <2>4, <2>5, Zenon DEF NamesOnce
<1>18. Fits(E, G, md, ne)
  <2>1. Fits(D, F, md, mf)
    BY DEF IsTree
  <2>2. ASSUME NEW i \in md
        PROVE  Len(E[i].child_dir) <= MaxDirs /\ Len(E[i].child_file) <= MaxFiles
    <3>1. CASE i = c
      <4>1. Len(D[c].child_file) \in Nat /\ MaxFiles \in Nat
        BY <1>4, SizesAssumption DEF SizesAssumption
      <4> QED BY <1>3, <1>5, <1>6, <2>1, <3>1, <4>1 DEF Fits
    <3>2. CASE i # c
      BY <1>3, <1>6, <2>1, <3>2 DEF Fits
    <3> QED BY <3>1, <3>2
  <2> QED BY <1>12, <2>1, <2>2 DEF Fits
<1> QED BY <1>2, <1>11, <1>13, <1>14, <1>15, <1>16, <1>17, <1>18 DEF IsTree

(* No directory is an entry of itself. *)
LEMMA NoLoop ==
  ASSUME NEW D, NEW md, md \subseteq DNode, Rooted(D, md), DirsOnce(D, md),
         NEW c \in md, NEW k \in DOMAIN D[c].child_dir
  PROVE  D[c].child_dir[k] # c
<1> SUFFICES ASSUME D[c].child_dir[k] = c PROVE FALSE
  OBVIOUS
<1> DEFINE T == md \ {c}
<1>1. 0 \in T /\ T \in SUBSET DNode
  BY DEF Rooted, DirsOnce
<1>2. Closed(D, T)
  BY DEF Rooted, DirsOnce, Closed
<1>3. md \subseteq T
  <2> HIDE DEF T
  <2> QED BY <1>1, <1>2 DEF Rooted
<1> QED BY <1>3

(* The subtree X at the entry t of c: what leads into it from outside is    *)
(* that entry alone, and neither the root nor c itself is in it.            *)
LEMMA SubtreeApart ==
  ASSUME NEW D, NEW md, md \subseteq DNode, Rooted(D, md), DirsOnce(D, md),
         NEW c \in md, NEW k \in DOMAIN D[c].child_dir, NEW t, t = D[c].child_dir[k],
         NEW X, X \subseteq md, t \in X, Closed(D, X),
         \A T \in SUBSET DNode : t \in T /\ Closed(D, T) => X \subseteq T
  PROVE  /\ c \notin X /\ 0 \notin X
         /\ \A j \in md : \A p \in DOMAIN D[j].child_dir :
              D[j].child_dir[p] \in X => j \in X \/ (j = c /\ p = k)
<1>1. ASSUME NEW x \in X, x # t
      PROVE  \E j \in X : \E p \in DOMAIN D[j].child_dir : D[j].child_dir[p] = x
  <2> SUFFICES ASSUME \A j \in X : \A p \in DOMAIN D[j].child_dir : D[j].child_dir[p] # x
               PROVE  FALSE
    OBVIOUS
  <2> DEFINE T == X \ {x}
  <2>1. t \in T /\ T \in SUBSET DNode /\ Closed(D, T)
    BY <1>1 DEF Closed
  <2>2. X \subseteq T
    <3> HIDE DEF T
    <3> QED BY <2>1
  <2> QED BY <2>2
<1>2. 0 \notin X
  BY <1>1 DEF DirsOnce
<1>3. ASSUME NEW j \in md, NEW p \in DOMAIN D[j].child_dir, D[j].child_dir[p] \in X
      PROVE  j \in X \/ (j = c /\ p = k)
  <2>1. CASE D[j].child_dir[p] = t
    BY <2>1 DEF DirsOnce
  <2>2. CASE D[j].child_dir[p] # t
    <3>1. PICK i \in X : \E q \in DOMAIN D[i].child_dir : D[i].child_dir[q] = D[j].child_dir[p]
      BY <1>1, <1>3, <2>2
    <3> QED BY <3>1 DEF DirsOnce
  <2> QED BY <2>1, <2>2
<1>4. c \notin X
  <2> SUFFICES ASSUME c \in X PROVE FALSE
    OBVIOUS
  <2> DEFINE T == md \ X
  <2>1. 0 \in T /\ T \in SUBSET DNode
    BY <1>2 DEF Rooted
  <2>2. Closed(D, T)
    BY <1>3 DEF Rooted, Closed
  <2>3. md \subseteq T
    <3> HIDE DEF T
    <3> QED BY <2>1, <2>2 DEF Rooted
  <2> QED BY <2>3
<1> QED BY <1>2, <1>3, <1>4

(* del_dir takes the k-th entry of the current directory out of the tree,   *)
(* with all that is below it.                                               *)
Pruned(D, E, F, md, mf, mb, c, k, t, X, gone) ==
  /\ c \in md /\ k \in DOMAIN D[c].child_dir /\ t = D[c].child_dir[k]
  /\ X \subseteq md /\ t \in X /\ c \notin X /\ 0 \notin X /\ Closed(D, X)
  /\ \A j \in md : \A p \in DOMAIN D[j].child_dir :
       D[j].child_dir[p] \in X => j \in X \/ (j = c /\ p = k)
  /\ gone = UNION {Range(D[i].child_file) : i \in X}
  /\ E \in [DNode -> DirRec] /\ \A i \in DNode : i # c /\ i # t => E[i] = D[i]
  /\ E[c].child_dir = RemoveAt(D[c].child_dir, k) /\ E[c].child_file = D[c].child_file
  /\ E[c].dir_num = D[c].dir_num /\ E[c].dir_name = D[c].dir_name /\ E[c].parent = D[c].parent

LEMMA Rmdir ==
  ASSUME NEW D, NEW E, NEW F, NEW md, NEW mf, NEW mb,
         NEW c, NEW k, NEW t, NEW X, NEW gone,
         IsTree(D, F, md, mf, mb), Pruned(D, E, F, md, mf, mb, c, k, t, X, gone)
  PROVE  IsTree(E, F, md \ X, mf \ gone, mb \ UNION {Range(F[f].block) : f \in gone})
<1> USE DEF Pruned
<1> DEFINE me == md \ X
           ne == mf \ gone
           be == mb \ UNION {Range(F[f].block) : f \in gone}
           Src(i, p) == IF i = c THEN Over(k, p) ELSE p
<1>1. Typed(D, F, md, mf, mb)
  BY DEF IsTree
<1>2. Typed(E, F, me, ne, be)
  BY <1>1 DEF Typed
<1>3. /\ D \in [DNode -> DirRec] /\ md \subseteq DNode /\ c \in DNode /\ mf \subseteq FNode
      /\ F \in [FNode -> FileRec] /\ c \in me
  BY <1>1 DEF Typed
<1>4. /\ Len(E[c].child_dir) = Len(D[c].child_dir) - 1
      /\ \A p \in DOMAIN E[c].child_dir :
           /\ Over(k, p) \in DOMAIN D[c].child_dir /\ Over(k, p) # k
           /\ E[c].child_dir[p] = D[c].child_dir[Over(k, p)]
      /\ \A p, q \in DOMAIN E[c].child_dir : Over(k, p) = Over(k, q) => p = q
      /\ \A q \in DOMAIN D[c].child_dir :
           q # k => \E p \in DOMAIN E[c].child_dir : E[c].child_dir[p] = D[c].child_dir[q]
  <2> DEFINE s == D[c].child_dir
             r == E[c].child_dir
  <2>1. s \in Seq(DNode) /\ k \in DOMAIN s /\ r = RemoveAt(s, k)
    BY <1>3, DirTable
  <2> HIDE DEF s, r
  <2>2. /\ Len(r) = Len(s) - 1
        /\ \A p \in DOMAIN r :
             Over(k, p) \in DOMAIN s /\ Over(k, p) # k /\ r[p] = s[Over(k, p)]
        /\ \A p, q \in DOMAIN r : Over(k, p) = Over(k, q) => p = q
        /\ \A q \in DOMAIN s : q # k => \E p \in DOMAIN r : r[p] = s[q]
    BY ONLY <2>1, RemovedFrom
  <2> QED BY <2>2, Zenon DEF s, r
<1>5. \A i \in me : /\ i \in md /\ i \notin X
                    /\ E[i].child_file = D[i].child_file /\ E[i].dir_num = D[i].dir_num
                    /\ E[i].dir_name = D[i].dir_name /\ E[i].parent = D[i].parent
                    /\ i # c => E[i].child_dir = D[i].child_dir
  BY <1>3
<1>6. Closed(D, md)
  BY DEF IsTree, Rooted
<1>7. ASSUME NEW i \in me, NEW p \in DOMAIN E[i].child_dir
      PROVE  /\ Src(i, p) \in DOMAIN D[i].child_dir
             /\ E[i].child_dir[p] = D[i].child_dir[Src(i, p)]
             /\ E[i].child_dir[p] \in me
  <2>1. /\ Src(i, p) \in DOMAIN D[i].child_dir
        /\ E[i].child_dir[p] = D[i].child_dir[Src(i, p)]
        /\ i = c => Src(i, p) # k
    BY <1>4, <1>5
  <2>2. E[i].child_dir[p] \in md
    BY <1>5, <1>6, <2>1 DEF Closed
  <2>3. E[i].child_dir[p] \notin X
    BY <1>5, <2>1
  <2> QED BY <2>1, <2>2, <2>3
<1>8. ASSUME NEW i \in me, NEW p \in DOMAIN E[i].child_dir, NEW q \in DOMAIN E[i].child_dir,
             Src(i, p) = Src(i, q)
      PROVE  p = q
  BY <1>4, <1>8
<1>9. Rooted(E, me)
  <2>1. 0 \in me
    BY DEF IsTree, Rooted
  <2>2. Closed(E, me)
    BY <1>7, Zenon DEF Closed
  <2>3. ASSUME NEW T \in SUBSET DNode, 0 \in T, Closed(E, T)
        PROVE  me \subseteq T
    <3> DEFINE U == (T \cap md) \cup X
    <3>1. ASSUME NEW j \in U, NEW p \in DOMAIN D[j].child_dir
          PROVE  D[j].child_dir[p] \in U
      <4>1. CASE j \in X
        BY <4>1 DEF Closed
      <4>2. CASE j \in T /\ j \in me /\ j # c
        BY <1>5, <1>6, <2>3, <4>2 DEF Closed
      <4>3. CASE j \in T /\ j = c
        <5>1. CASE p = k
          BY <4>3, <5>1
        <5>2. CASE p # k
          <6>1. \E q \in DOMAIN E[c].child_dir : E[c].child_dir[q] = D[c].child_dir[p]
            BY <1>4, <4>3, <5>2
          <6> QED BY <1>6, <2>3, <4>3, <6>1 DEF Closed
        <5> QED BY <5>1, <5>2
      <4> QED BY <4>1, <4>2, <4>3
    <3>2. Closed(D, U)
      <4> HIDE DEF U
      <4> QED BY <3>1, Zenon DEF Closed
    <3>3. 0 \in U /\ U \in SUBSET DNode
      BY <1>3, <2>1, <2>3
    <3>4. md \subseteq U
      <4> HIDE DEF U
      <4> QED BY <3>2, <3>3 DEF IsTree, Rooted
    <3> QED BY <3>4
  <2> QED BY <2>1, <2>2, <2>3 DEF Rooted
<1>10. DirsOnce(E, me)
  <2> HIDE DEF Src
  <2>1. DirsOnce(D, md)
    BY DEF IsTree
  <2>2. ASSUME NEW i \in me, NEW j \in me, NEW p \in DOMAIN E[i].child_dir,
               NEW q \in DOMAIN E[j].child_dir, E[i].child_dir[p] = E[j].child_dir[q]
        PROVE  i = j /\ p = q
    <3>1. i = j /\ Src(i, p) = Src(j, q)
      BY <1>5, <1>7, <2>1, <2>2 DEF DirsOnce
    <3> QED BY <1>8, <3>1
  <2>3. ASSUME NEW i \in me, NEW p \in DOMAIN E[i].child_dir PROVE E[i].child_dir[p] # 0
    BY <1>5, <1>7, <2>1 DEF DirsOnce
  <2> QED BY <2>2, <2>3, Zenon DEF DirsOnce
<1>11. FilesOnce(D, md) /\ FilesExact(D, md, mf)
  BY DEF IsTree
<1>12. FilesOnce(E, me)
  BY <1>5, <1>11 DEF FilesOnce
<1>13. FilesExact(E, me, ne)
  <2>1. ASSUME NEW i \in me, NEW p \in DOMAIN E[i].child_file PROVE E[i].child_file[p] \in ne
    <3>1. E[i].child_file = D[i].child_file /\ E[i].child_file[p] \in mf
      BY <1>5, <1>11 DEF FilesExact
    <3>2. ASSUME NEW j \in X, E[i].child_file[p] \in Range(D[j].child_file) PROVE FALSE
      <4>1. PICK q \in DOMAIN D[j].child_file : D[j].child_file[q] = D[i].child_file[p]
        BY <3>1, <3>2 DEF Range
      <4> QED BY <1>5, <1>11, <3>1, <4>1 DEF FilesOnce
    <3> QED BY <3>1, <3>2
  <2>2. ASSUME NEW f \in ne
        PROVE  \E i \in me : \E p \in DOMAIN E[i].child_file : E[i].child_file[p] = f
    <3>1. PICK i \in md : \E p \in DOMAIN D[i].child_file : D[i].child_file[p] = f
      BY <1>11 DEF FilesExact
    <3>2. f \in Range(D[i].child_file)
      BY <3>1 DEF Range
    <3>3. i \in me
      BY <3>2
    <3> QED BY <1>5, <3>1, <3>3
  <2> QED BY <2>1, <2>2 DEF FilesExact
<1>14. BlksOnce(F, ne) /\ BlksExact(F, ne, be)
  <2>1. BlksOnce(F, mf) /\ BlksExact(F, mf, mb)
    BY DEF IsTree
  <2>2. gone \subseteq mf
    BY <1>11 DEF FilesExact, Range
  <2>3. \A f \in mf \ gone : F[f] = F[f]
    OBVIOUS
  <2> QED BY ONLY <2>1, <2>2, <2>3, FewerBlks
<1>15. DirLinks(E, me)
  <2> HIDE DEF Src
  <2>1. DirLinks(D, md)
    BY DEF IsTree
  <2> QED BY <1>5, <1>7, <2>1 DEF DirLinks
<1>16. FileLinks(E, F, me)
  <2>1. FileLinks(D, F, md)
    BY DEF IsTree
  <2> QED BY <1>5, <2>1 DEF FileLinks
<1>17. NamesOnce(E, F, me)
  <2> HIDE DEF Src
  <2>1. NamesOnce(D, F, md)
    BY DEF IsTree
  <2>2. ASSUME NEW i \in me, NEW p \in DOMAIN E[i].child_dir, NEW q \in DOMAIN E[i].child_dir,
               E[E[i].child_dir[p]].dir_name = E[E[i].child_dir[q]].dir_name
        PROVE  p = q
    <3>1. Src(i, p) = Src(i, q)
      BY ONLY <1>5, <1>7, <2>1, <2>2 DEF NamesOnce
    <3> QED BY <1>8, <3>1
  <2>3. ASSUME NEW i \in me, NEW p \in DOMAIN E[i].child_file, NEW q \in DOMAIN E[i].child_file,
               F[E[i].child_file[p]].file_name = F[E[i].child_file[q]].file_name
        PROVE  p = q
    BY <1>5, <2>1, <2>3 DEF NamesOnce
  <2>4. ASSUME NEW i \in me, NEW p \in DOMAIN E[i].child_dir, NEW q \in DOMAIN E[i].child_file
        PROVE  E[E[i].child_dir[p]].dir_name # F[E[i].child_file[q]].file_name
    BY <1>5, <1>7, <2>1 DEF NamesOnce
  <2> QED BY <2>2, <2>3, <2>4, Zenon DEF NamesOnce
<1>18. Fits(E, F, me, ne)
  <2>1. Fits(D, F, md, mf)
    BY DEF IsTree
  <2>2. ASSUME NEW i \in me
        PROVE  Len(E[i].child_dir) <= MaxDirs /\ Len(E[i].child_file) <= MaxFiles
    <3>1. CASE i = c
      <4>1. Len(D[c].child_dir) \in Nat /\ MaxDirs \in Nat
        BY <1>3, DirTable, SizesAssumption DEF SizesAssumption
      <4> QED BY <1>3, <1>4, <1>5, <2>1, <3>1, <4>1 DEF Fits
    <3>2. CASE i # c
      BY <1>5, <2>1, <3>2 DEF Fits
    <3> QED BY <3>1, <3>2
  <2> QED BY <2>1, <2>2 DEF Fits
<1> QED BY <1>2, <1>9, <1>10, <1>12, <1>13, <1>14, <1>15, <1>16, <1>17, <1>18 DEF IsTree
-----------------------------------------------------------------------------
(* Where the tree is kept *)

(* The elements of s are different. *)
Distinct(s) == \A p, q \in DOMAIN s : s[p] = s[q] => p = q

(* A running program sees its cache and, behind it, the disk. *)
LEMMA SeenDirs ==
  ASSUME NEW c \in DirRec, NEW b \in Seq(DirRec), NEW t \in [DNode -> DirRec],
         Len(b) = Len(c.child_dir), c.dir_num \in DNode, Distinct(c.child_dir),
         \A p \in DOMAIN c.child_dir : c.child_dir[p] # c.dir_num,
         NEW V, V = ViewD(c, b, t)
  PROVE  /\ V \in [DNode -> DirRec] /\ V[c.dir_num] = c
         /\ \A p \in DOMAIN c.child_dir : V[c.child_dir[p]] = b[p]
         /\ \A i \in DNode : i # c.dir_num /\ i \notin Range(c.child_dir) => V[i] = t[i]
<1>1. c.child_dir \in Seq(DNode) /\ DOMAIN c.child_dir = DOMAIN b
  BY DirFields
<1>2. \A i \in DNode : V[i] = IF i = c.dir_num THEN c
                              ELSE IF i \in Range(c.child_dir)
                                   THEN b[FirstPos(c.child_dir, i)] ELSE t[i]
  BY DEF ViewD
<1>3. ASSUME NEW p \in DOMAIN c.child_dir
      PROVE  V[c.child_dir[p]] = b[p] /\ b[p] \in DirRec
  <2>1. FirstPos(c.child_dir, c.child_dir[p]) = p
    BY <1>1, Position DEF Distinct
  <2>2. c.child_dir[p] \in DNode /\ c.child_dir[p] \in Range(c.child_dir)
    BY <1>1 DEF Range
  <2>3. b[p] \in DirRec
    BY <1>1
  <2> QED BY <1>2, <2>1, <2>2, <2>3
<1>4. ASSUME NEW i \in DNode PROVE V[i] \in DirRec
  <2>1. CASE i \in Range(c.child_dir)
    <3>1. PICK p \in DOMAIN c.child_dir : i = c.child_dir[p]
      BY <2>1 DEF Range
    <3> QED BY <1>3, <3>1
  <2>2. CASE i \notin Range(c.child_dir)
    BY <1>2, <2>2
  <2> QED BY <2>1, <2>2
<1>5. V = [i \in DNode |-> V[i]]
  BY DEF ViewD
<1>6. V \in [DNode -> DirRec]
  BY <1>4, <1>5
<1> QED BY <1>2, <1>3, <1>6

LEMMA SeenFiles ==
  ASSUME NEW c \in DirRec, NEW b \in Seq(FileRec), NEW t \in [FNode -> FileRec],
         Len(b) = Len(c.child_file), Distinct(c.child_file), NEW V, V = ViewF(c, b, t)
  PROVE  /\ V \in [FNode -> FileRec]
         /\ \A p \in DOMAIN c.child_file : V[c.child_file[p]] = b[p]
         /\ \A i \in FNode : i \notin Range(c.child_file) => V[i] = t[i]
<1>1. c.child_file \in Seq(FNode) /\ DOMAIN c.child_file = DOMAIN b
  BY DirFields
<1>2. \A i \in FNode : V[i] = IF i \in Range(c.child_file)
                              THEN b[FirstPos(c.child_file, i)] ELSE t[i]
  BY DEF ViewF
<1>3. ASSUME NEW p \in DOMAIN c.child_file
      PROVE  V[c.child_file[p]] = b[p] /\ b[p] \in FileRec
  <2>1. FirstPos(c.child_file, c.child_file[p]) = p
    BY <1>1, Position DEF Distinct
  <2>2. c.child_file[p] \in FNode /\ c.child_file[p] \in Range(c.child_file)
    BY <1>1 DEF Range
  <2>3. b[p] \in FileRec
    BY <1>1
  <2> QED BY <1>2, <2>1, <2>2, <2>3
<1>4. ASSUME NEW i \in FNode PROVE V[i] \in FileRec
  <2>1. CASE i \in Range(c.child_file)
    <3>1. PICK p \in DOMAIN c.child_file : i = c.child_file[p]
      BY <2>1 DEF Range
    <3> QED BY <1>3, <3>1
  <2>2. CASE i \notin Range(c.child_file)
    BY <1>2, <2>2
  <2> QED BY <2>1, <2>2
<1>5. V = [i \in FNode |-> V[i]]
  BY DEF ViewF
<1>6. V \in [FNode -> FileRec]
  BY <1>4, <1>5
<1> QED BY <1>2, <1>3, <1>6

(* open_dir caches part of what is on the disk, and so changes nothing. *)
LEMMA Opened ==
  ASSUME NEW D \in [DNode -> DirRec], NEW F \in [FNode -> FileRec], NEW n \in DNode,
         D[n].dir_num = n, Distinct(D[n].child_dir), Distinct(D[n].child_file),
         \A p \in DOMAIN D[n].child_dir : D[n].child_dir[p] # n,
         NEW b, b = [k \in DOMAIN D[n].child_dir |-> D[D[n].child_dir[k]]],
         NEW e, e = [k \in DOMAIN D[n].child_file |-> F[D[n].child_file[k]]]
  PROVE  /\ ViewD(D[n], b, D) = D /\ ViewF(D[n], e, F) = F
         /\ D[n] \in DirRec /\ b \in Seq(DirRec) /\ e \in Seq(FileRec)
         /\ Len(b) = Len(D[n].child_dir) /\ Len(e) = Len(D[n].child_file)
<1>1. /\ D[n].child_dir \in Seq(DNode) /\ D[n].child_file \in Seq(FNode)
      /\ DOMAIN D[n].child_dir = 1 .. Len(D[n].child_dir) /\ Len(D[n].child_dir) \in Nat
      /\ DOMAIN D[n].child_file = 1 .. Len(D[n].child_file) /\ Len(D[n].child_file) \in Nat
  BY DirTable
<1>2. D[n] \in DirRec
  OBVIOUS
<1>3. b \in Seq(DirRec) /\ Len(b) = Len(D[n].child_dir)
  BY <1>1
<1>4. e \in Seq(FileRec) /\ Len(e) = Len(D[n].child_file)
  BY <1>1
<1>5. ViewD(D[n], b, D) = D /\ ViewF(D[n], e, F) = F
  <2> DEFINE V == ViewD(D[n], b, D)
             W == ViewF(D[n], e, F)
  <2>1. /\ V \in [DNode -> DirRec] /\ V[D[n].dir_num] = D[n]
        /\ \A p \in DOMAIN D[n].child_dir : V[D[n].child_dir[p]] = b[p]
        /\ \A i \in DNode : i # D[n].dir_num /\ i \notin Range(D[n].child_dir) => V[i] = D[i]
    <3> DEFINE c == D[n]
    <3>1. c \in DirRec /\ Len(b) = Len(c.child_dir) /\ c.dir_num \in DNode
          /\ Distinct(c.child_dir) /\ \A p \in DOMAIN c.child_dir : c.child_dir[p] # c.dir_num
      BY <1>2, <1>3
    <3>2. V = ViewD(c, b, D)
      OBVIOUS
    <3> HIDE DEF c, V
    <3>3. /\ V \in [DNode -> DirRec] /\ V[c.dir_num] = c
          /\ \A p \in DOMAIN c.child_dir : V[c.child_dir[p]] = b[p]
          /\ \A i \in DNode : i # c.dir_num /\ i \notin Range(c.child_dir) => V[i] = D[i]
      BY ONLY <1>3, <3>1, <3>2, SeenDirs, D \in [DNode -> DirRec]
    <3> QED BY <3>3 DEF c
  <2>2. /\ W \in [FNode -> FileRec]
        /\ \A p \in DOMAIN D[n].child_file : W[D[n].child_file[p]] = e[p]
        /\ \A i \in FNode : i \notin Range(D[n].child_file) => W[i] = F[i]
    <3>2. W = ViewF(D[n], e, F)
      OBVIOUS
    <3> DEFINE c == D[n]
    <3>3. c \in DirRec /\ Len(e) = Len(c.child_file) /\ Distinct(c.child_file)
          /\ W = ViewF(c, e, F)
      BY <1>2, <1>4, <3>2
    <3> HIDE DEF c, W
    <3>4. /\ W \in [FNode -> FileRec]
          /\ \A p \in DOMAIN c.child_file : W[c.child_file[p]] = e[p]
          /\ \A i \in FNode : i \notin Range(c.child_file) => W[i] = F[i]
      BY ONLY <1>4, <3>3, SeenFiles, F \in [FNode -> FileRec]
    <3> QED BY <3>4 DEF c
  <2> HIDE DEF V, W
  <2>3. \A p \in DOMAIN D[n].child_dir : V[D[n].child_dir[p]] = D[D[n].child_dir[p]]
    BY <2>1
  <2>4. \A p \in DOMAIN D[n].child_file : W[D[n].child_file[p]] = F[D[n].child_file[p]]
    BY <2>2
  <2>5. ASSUME NEW i \in DNode PROVE V[i] = D[i]
    <3>1. CASE i \in Range(D[n].child_dir)
      BY <2>3, <3>1 DEF Range
    <3> QED BY <2>1, <3>1
  <2>6. ASSUME NEW i \in FNode PROVE W[i] = F[i]
    <3>1. CASE i \in Range(D[n].child_file)
      BY <2>4, <3>1 DEF Range
    <3> QED BY <2>2, <3>1
  <2>7. V = D
    BY <2>1, <2>5
  <2>8. W = F
    BY <2>2, <2>6
  <2> QED BY <2>7, <2>8 DEF V, W
<1> QED BY <1>2, <1>3, <1>4, <1>5

(* What the invariant says of a running program. *)
Cached ==
  /\ IsTree(Dirs, Files, dnode_map, fnode_map, blk_map)
  /\ curr_dir \in DirRec /\ curr_dir.dir_num \in dnode_map /\ curr_dir.dir_num \in DNode
  /\ buff_dir_node \in Seq(DirRec) /\ buff_file_node \in Seq(FileRec)
  /\ Len(buff_dir_node) = Len(curr_dir.child_dir)
  /\ Len(buff_file_node) = Len(curr_dir.child_file)
  /\ Distinct(curr_dir.child_dir) /\ Distinct(curr_dir.child_file)
  /\ Dirs[curr_dir.dir_num] = curr_dir
  /\ \A p \in DOMAIN curr_dir.child_dir :
       /\ curr_dir.child_dir[p] # curr_dir.dir_num /\ curr_dir.child_dir[p] \in dnode_map
       /\ Dirs[curr_dir.child_dir[p]] = buff_dir_node[p]
  /\ \A p \in DOMAIN curr_dir.child_file :
       /\ curr_dir.child_file[p] \in fnode_map
       /\ Files[curr_dir.child_file[p]] = buff_file_node[p]
  /\ \A i \in DNode : i # curr_dir.dir_num /\ i \notin Range(curr_dir.child_dir)
                        => Dirs[i] = ddir[i]
  /\ \A i \in FNode : i \notin Range(curr_dir.child_file) => Files[i] = dfile[i]

LEMMA IsCached ==
  ASSUME FileInv, up
  PROVE  Cached
<1> DEFINE c == curr_dir
<1>1. /\ IsTree(Dirs, Files, dnode_map, fnode_map, blk_map)
      /\ c \in DirRec /\ c.dir_num \in dnode_map
      /\ buff_dir_node \in Seq(DirRec) /\ buff_file_node \in Seq(FileRec)
      /\ Len(buff_dir_node) = Len(c.child_dir) /\ Len(buff_file_node) = Len(c.child_file)
  BY DEF FileInv, TreeInv, CacheInv, MarkedDirs, MarkedFiles, MarkedBlks
<1>2. ddir \in [DNode -> DirRec] /\ dfile \in [FNode -> FileRec]
  BY DEF FileInv, DiskInv
<1>3. Dirs = ViewD(c, buff_dir_node, ddir) /\ Files = ViewF(c, buff_file_node, dfile)
  BY DEF Dirs, Files
<1>4. dnode_map \subseteq DNode /\ Rooted(Dirs, dnode_map) /\ DirsOnce(Dirs, dnode_map)
      /\ FilesOnce(Dirs, dnode_map) /\ FilesExact(Dirs, dnode_map, fnode_map)
  BY <1>1 DEF IsTree, Typed
<1>5. c.dir_num \in DNode
  BY <1>1, <1>4
<1>6. Dirs[c.dir_num] = c
  BY <1>3, <1>5 DEF ViewD
<1> HIDE DEF c
<1>7. Distinct(c.child_dir) /\ Distinct(c.child_file)
  BY <1>1, <1>4, <1>6 DEF Distinct, DirsOnce, FilesOnce
<1>8. \A p \in DOMAIN c.child_dir : c.child_dir[p] # c.dir_num /\ c.child_dir[p] \in dnode_map
  <2>1. \A p \in DOMAIN Dirs[c.dir_num].child_dir : Dirs[c.dir_num].child_dir[p] # c.dir_num
    BY ONLY <1>1, <1>4, NoLoop
  <2> QED BY <1>1, <1>4, <1>6, <2>1 DEF Rooted, Closed
<1>9. \A p \in DOMAIN c.child_file : c.child_file[p] \in fnode_map
  BY <1>1, <1>4, <1>6 DEF FilesExact
<1>10. /\ \A p \in DOMAIN c.child_dir : Dirs[c.child_dir[p]] = buff_dir_node[p]
       /\ \A i \in DNode : i # c.dir_num /\ i \notin Range(c.child_dir) => Dirs[i] = ddir[i]
  BY ONLY <1>1, <1>2, <1>3, <1>5, <1>7, <1>8, SeenDirs
<1>11. /\ \A p \in DOMAIN c.child_file : Files[c.child_file[p]] = buff_file_node[p]
       /\ \A i \in FNode : i \notin Range(c.child_file) => Files[i] = dfile[i]
  BY ONLY <1>1, <1>2, <1>3, <1>7, SeenFiles
<1> QED BY <1>1, <1>5, <1>6, <1>7, <1>8, <1>9, <1>10, <1>11 DEF Cached, c

(* save_dir writes to the disk what the program sees. *)
LEMMA Saved ==
  ASSUME FileInv, up
  PROVE  SavedDirs(ddir, curr_dir.dir_num) = Dirs /\ SavedFiles = Files
<1> DEFINE c == curr_dir
<1>1. Cached
  BY IsCached
<1>2. /\ ddir \in [DNode -> DirRec] /\ dfile \in [FNode -> FileRec]
      /\ Dirs \in [DNode -> DirRec] /\ Files \in [FNode -> FileRec]
  BY <1>1 DEF FileInv, DiskInv, Cached, IsTree, Typed
<1>3. c.child_dir \in Seq(DNode) /\ c.child_file \in Seq(FNode)
  BY <1>1, DirFields DEF Cached
<1>4. ASSUME NEW i \in DNode PROVE SavedDirs(ddir, c.dir_num)[i] = Dirs[i]
  <2>1. SavedDirs(ddir, c.dir_num)[i] =
          IF i \in Range(c.child_dir) THEN buff_dir_node[LastPos(c.child_dir, i)]
          ELSE IF i = c.dir_num THEN c ELSE ddir[i]
    BY <1>2 DEF SavedDirs, WriteNodes
  <2>2. CASE i \in Range(c.child_dir)
    <3>1. PICK p \in DOMAIN c.child_dir : i = c.child_dir[p]
      BY <2>2 DEF Range
    <3>2. LastPos(c.child_dir, c.child_dir[p]) = p
      BY <1>1, <1>3, Position DEF Cached, Distinct
    <3> QED BY <1>1, <2>1, <2>2, <3>1, <3>2 DEF Cached
  <2>3. CASE i \notin Range(c.child_dir)
    BY <1>1, <2>1, <2>3 DEF Cached
  <2> QED BY <2>2, <2>3
<1>5. ASSUME NEW i \in FNode PROVE SavedFiles[i] = Files[i]
  <2>1. SavedFiles[i] = IF i \in Range(c.child_file)
                        THEN buff_file_node[LastPos(c.child_file, i)] ELSE dfile[i]
    BY <1>2 DEF SavedFiles, WriteNodes
  <2>2. CASE i \in Range(c.child_file)
    <3>1. PICK p \in DOMAIN c.child_file : i = c.child_file[p]
      BY <2>2 DEF Range
    <3>2. LastPos(c.child_file, c.child_file[p]) = p
      BY <1>1, <1>3, Position DEF Cached, Distinct
    <3> QED BY <1>1, <2>1, <2>2, <3>1, <3>2 DEF Cached
  <2>3. CASE i \notin Range(c.child_file)
    BY <1>1, <2>1, <2>3 DEF Cached
  <2> QED BY <2>2, <2>3
<1>6. SavedDirs(ddir, c.dir_num) = [i \in DNode |-> SavedDirs(ddir, c.dir_num)[i]]
  BY <1>2 DEF SavedDirs, WriteNodes
<1>7. SavedFiles = [i \in FNode |-> SavedFiles[i]]
  BY <1>2 DEF SavedFiles, WriteNodes
<1>8. Dirs = [i \in DNode |-> Dirs[i]] /\ Files = [i \in FNode |-> Files[i]]
  BY <1>2
<1> QED BY <1>4, <1>5, <1>6, <1>7, <1>8

(* The marks' last word lies over a word that is zero anyway. *)
LEMMA Overlaid ==
  ASSUME FileInv
  PROVE  /\ up => OverlaidDirs = ddir
         /\ ~up => ReadBlkMap = dsuper.b
<1>1. DiskInv /\ Room
  BY DEF FileInv
<1>2. ASSUME up PROVE OverlaidDirs = ddir
  <2>1. LastBlk \notin blk_map
    BY <1>1, <1>2 DEF Room, MarkedBlks
  <2>2. PICK z \in Int : z = 0
    OBVIOUS
  <2>3. OverlaidDirs = [ddir EXCEPT ![z].dir_num = z]
    BY <2>1, <2>2 DEF OverlaidDirs
  <2>4. ddir \in [DNode -> DirRec] /\ ddir[z].dir_num = z /\ z \in DNode
    BY <1>1, <2>2, SizesAssumption DEF DiskInv, DNode, SizesAssumption
  <2>5. ddir[z] \in DirRec
    BY <2>4
  <2>6. [ddir[z] EXCEPT !.dir_num = z] = ddir[z]
    BY <2>4, <2>5 DEF DirRec
  <2> QED BY <2>3, <2>4, <2>6
<1>3. ASSUME ~up PROVE ReadBlkMap = dsuper.b
  <2>1. LastBlk \notin dsuper.b /\ ddir[0].dir_num = 0
    BY <1>1, <1>3 DEF Room, MarkedBlks, DiskInv
  <2> QED BY <2>1 DEF ReadBlkMap
<1> QED BY <1>2, <1>3
-----------------------------------------------------------------------------
(* The steps.  Room is not part of what a step preserves: the last block is *)
(* handed out when all others are in use.                                   *)
Kept == TreeInv /\ CacheInv /\ DiskInv

(* A step of a running program that leaves the disk as it is. *)
LEMMA StillUp ==
  ASSUME FileInv, up, up', UNCHANGED <<ddir, dfile, dsuper>>,
         init_flag' \in {init_flag, 1},
         curr_dir' \in DirRec, buff_dir_node' \in Seq(DirRec), buff_file_node' \in Seq(FileRec),
         Len(buff_dir_node') = Len(curr_dir'.child_dir),
         Len(buff_file_node') = Len(curr_dir'.child_file),
         curr_dir'.dir_num \in dnode_map',
         IsTree(Dirs', Files', dnode_map', fnode_map', blk_map')
  PROVE  Kept'
<1>1. up' \in BOOLEAN /\ init_flag' # 0 /\ init_flag' \in {0, Buffered, 1}
  <2>1. up \in BOOLEAN /\ init_flag \in {0, Buffered, 1} /\ init_flag # 0
    BY DEF FileInv, DiskInv
  <2> QED BY <2>1 DEF Buffered
<1>2. DiskInv'
  BY <1>1 DEF FileInv, DiskInv
<1>3. TreeInv'
  BY DEF TreeInv, MarkedDirs, MarkedFiles, MarkedBlks
<1>4. CacheInv'
  BY DEF CacheInv, MarkedDirs
<1> QED BY <1>2, <1>3, <1>4 DEF Kept

LEMMA CreateDir ==
  ASSUME FileInv, NEW name \in Names, create_dir(name)
  PROVE  /\ Kept' /\ Files' = Files
         /\ Made(Dirs, Dirs', Files, dnode_map, fnode_map, blk_map, curr_dir.dir_num,
                 apply_d_node)
         /\ Dirs'[apply_d_node].dir_name = name
<1> DEFINE c == curr_dir
           n == apply_d_node
           d == NewDir(n, name, c.dir_num)
           L == Len(c.child_dir)
<1>0. up /\ up' = up /\ UNCHANGED <<ddir, dfile, dsuper, init_flag>> /\ fnode_map' = fnode_map
      /\ blk_map' = blk_map /\ buff_file_node' = buff_file_node
  BY DEF create_dir, diskVars
<1>1. /\ L # MaxDirs /\ check_name(name) /\ DNode \ dnode_map # {}
      /\ dnode_map' = dnode_map \cup {n}
      /\ buff_dir_node' = Append(buff_dir_node, d)
      /\ curr_dir' = [c EXCEPT !.child_dir = Append(c.child_dir, n)]
  BY DEF create_dir, NewDir
<1>2. Cached /\ ddir \in [DNode -> DirRec] /\ dfile \in [FNode -> FileRec]
  BY <1>0, IsCached DEF FileInv, DiskInv
<1>3. n \in DNode /\ n \notin dnode_map /\ n \in Int
  <2>1. DNode \ dnode_map \subseteq Nat
    BY SizesAssumption DEF DNode, SizesAssumption
  <2>2. Min(DNode \ dnode_map) \in DNode \ dnode_map
    BY <1>1, <2>1, Least
  <2> QED BY <2>1, <2>2 DEF apply_d_node
<1>4. c \in DirRec /\ c.dir_num \in Int /\ c.child_dir \in Seq(DNode)
      /\ c.child_file \in Seq(FNode) /\ L \in Nat /\ DOMAIN c.child_dir = 1 .. L
  BY <1>2, DirFields DEF Cached
<1> DEFINE s == Append(c.child_dir, n)
           e == curr_dir'
<1>5. /\ s \in Seq(DNode) /\ Len(s) = L + 1 /\ DOMAIN s = 1 .. L + 1
      /\ \A p \in 1 .. L : s[p] = c.child_dir[p]
      /\ s[L + 1] = n
  BY <1>3, <1>4
<1>6. /\ e \in DirRec /\ e.child_dir = s /\ e.dir_num = c.dir_num /\ e.dir_name = c.dir_name
      /\ e.child_file = c.child_file /\ e.parent = c.parent
  <2>1. e = [c EXCEPT !.child_dir = s]
    BY <1>1
  <2> HIDE DEF e, s, c
  <2> QED BY ONLY <1>4, <1>5, <2>1, DirWithDirs
<1>7. /\ d \in DirRec /\ d.dir_num = n /\ d.dir_name = name /\ d.parent = c.dir_num
      /\ d.child_dir = <<>> /\ d.child_file = <<>>
  <2>1. name \in NameSet
    BY DEF NameSet
  <2> DEFINE m == c.dir_num
  <2>2. d = NewDir(n, name, m) /\ m \in Int
    BY <1>4
  <2> HIDE DEF n, m, d
  <2>3. /\ d \in DirRec /\ d.dir_num = n /\ d.dir_name = name /\ d.parent = m
        /\ d.child_dir = <<>> /\ d.child_file = <<>>
    BY ONLY <1>3, <2>1, <2>2, NewDirIs
  <2> QED BY <2>3 DEF m
<1> HIDE DEF n, d, s, e
<1>8. /\ buff_dir_node' \in Seq(DirRec) /\ Len(buff_dir_node') = L + 1
      /\ \A p \in 1 .. L : buff_dir_node'[p] = buff_dir_node[p]
      /\ buff_dir_node'[L + 1] = d
  <2>1. buff_dir_node \in Seq(DirRec) /\ Len(buff_dir_node) = L
    BY <1>2 DEF Cached
  <2> QED BY ONLY <1>1, <1>4, <1>7, <2>1
<1>9. \A p \in 1 .. L : c.child_dir[p] \in dnode_map /\ c.child_dir[p] # c.dir_num
  BY <1>2, <1>4 DEF Cached
<1>10. Distinct(s) /\ \A p \in DOMAIN s : s[p] # c.dir_num
  <2>1. Distinct(c.child_dir) /\ c.dir_num \in dnode_map
    BY <1>2 DEF Cached
  <2>2. ASSUME NEW p \in DOMAIN s
        PROVE  \/ p \in 1 .. L /\ s[p] = c.child_dir[p] /\ s[p] \in dnode_map
               \/ p = L + 1 /\ s[p] = n
    BY <1>4, <1>5, <1>9
  <2> QED BY <1>3, <1>4, <1>9, <2>1, <2>2 DEF Distinct
<1> DEFINE E == Dirs'
<1>11. E = ViewD(e, buff_dir_node', ddir)
  BY <1>0 DEF Dirs, e
<1>12. /\ E \in [DNode -> DirRec] /\ E[e.dir_num] = e
       /\ \A p \in DOMAIN e.child_dir : E[e.child_dir[p]] = buff_dir_node'[p]
       /\ \A i \in DNode : i # e.dir_num /\ i \notin Range(e.child_dir) => E[i] = ddir[i]
  <2>1. Len(buff_dir_node') = Len(e.child_dir) /\ e.dir_num \in DNode /\ Distinct(e.child_dir)
        /\ \A p \in DOMAIN e.child_dir : e.child_dir[p] # e.dir_num
    BY <1>2, <1>5, <1>6, <1>8, <1>10 DEF Cached
  <2> DEFINE b == buff_dir_node'
             t == ddir
  <2>2. /\ b \in Seq(DirRec) /\ t \in [DNode -> DirRec] /\ Len(b) = Len(e.child_dir)
        /\ E = ViewD(e, b, t) /\ e \in DirRec
    BY <1>2, <1>6, <1>8, <1>11, <2>1
  <2> HIDE DEF E, b, t
  <2>3. /\ E \in [DNode -> DirRec] /\ E[e.dir_num] = e
        /\ \A p \in DOMAIN e.child_dir : E[e.child_dir[p]] = b[p]
        /\ \A i \in DNode : i # e.dir_num /\ i \notin Range(e.child_dir) => E[i] = t[i]
    BY ONLY <2>1, <2>2, SeenDirs
  <2> QED BY <2>3 DEF b, t
<1>13. Files' = Files
  BY <1>0, <1>6 DEF Files, ViewF, e
<1> HIDE DEF E
<1>14. E[n] = d
  <2>1. L + 1 \in DOMAIN e.child_dir
    BY <1>4, <1>5, <1>6
  <2> QED BY <1>5, <1>6, <1>8, <1>12, <2>1
<1>15. ASSUME NEW i \in DNode, i # c.dir_num, i # n PROVE E[i] = Dirs[i]
  <2>1. CASE i \in Range(c.child_dir)
    <3>1. PICK p \in DOMAIN c.child_dir : i = c.child_dir[p]
      BY <2>1 DEF Range
    <3>2. p \in 1 .. L /\ p \in DOMAIN e.child_dir /\ e.child_dir[p] = i
      BY <1>4, <1>5, <1>6, <3>1
    <3>3. E[i] = buff_dir_node[p]
      BY <1>8, <1>12, <3>2
    <3> QED BY <1>2, <3>1, <3>3 DEF Cached
  <2>2. CASE i \notin Range(c.child_dir)
    <3>1. i \notin Range(e.child_dir)
      <4>1. ASSUME NEW p \in DOMAIN s, i = s[p] PROVE FALSE
        BY <1>4, <1>5, <1>15, <2>2, <4>1 DEF Range
      <4> QED BY <1>6, <4>1 DEF Range
    <3> QED BY <1>2, <1>6, <1>12, <1>15, <2>2, <3>1 DEF Cached
  <2> QED BY <2>1, <2>2
<1> DEFINE k == c.dir_num
           D == Dirs
           F == Files
<1>16. /\ IsTree(D, F, dnode_map, fnode_map, blk_map) /\ k \in dnode_map
       /\ D[k] = c /\ k \in DNode
  BY <1>2 DEF Cached
<1>17. /\ E[k] = e /\ E[k].child_dir = Append(D[k].child_dir, n)
       /\ E[k].child_file = D[k].child_file /\ E[k].dir_num = D[k].dir_num
       /\ E[k].dir_name = D[k].dir_name /\ E[k].parent = D[k].parent
  BY <1>6, <1>12, <1>16 DEF s
<1>18. Len(D[k].child_dir) < MaxDirs
  <2>1. L <= MaxDirs /\ MaxDirs \in Nat
    BY <1>16, SizesAssumption DEF IsTree, Fits, SizesAssumption
  <2> QED BY <1>1, <1>4, <1>16, <2>1
<1>19. /\ \A p \in DOMAIN D[k].child_dir : D[D[k].child_dir[p]].dir_name # E[n].dir_name
       /\ \A p \in DOMAIN D[k].child_file : F[D[k].child_file[p]].file_name # E[n].dir_name
  <2>1. DirIndex(name) = 0 /\ FileIndex(name) = 0
    BY <1>1 DEF check_name
  <2>2. buff_dir_node \in Seq(DirRec) /\ buff_file_node \in Seq(FileRec)
        /\ Len(buff_dir_node) = Len(c.child_dir) /\ Len(buff_file_node) = Len(c.child_file)
    BY <1>2 DEF Cached
  <2>3. /\ \A p \in 1 .. Len(buff_dir_node) : buff_dir_node[p].dir_name # name
        /\ \A p \in 1 .. Len(buff_file_node) : buff_file_node[p].file_name # name
    BY <2>1, <2>2, DirIndexFinds, FileIndexFinds
  <2>4. DOMAIN c.child_file = 1 .. Len(buff_file_node) /\ DOMAIN c.child_dir = 1 .. Len(buff_dir_node)
    BY <1>4, <2>2
  <2>5. /\ \A p \in DOMAIN c.child_dir : D[c.child_dir[p]] = buff_dir_node[p]
        /\ \A p \in DOMAIN c.child_file : F[c.child_file[p]] = buff_file_node[p]
    BY <1>2 DEF Cached
  <2> QED BY <1>7, <1>14, <1>16, <2>3, <2>4, <2>5
<1>20. Made(D, E, F, dnode_map, fnode_map, blk_map, k, n)
  <2>1. E[n].child_dir = <<>> /\ E[n].child_file = <<>> /\ E[n].dir_num = n /\ E[n].parent = k
    BY <1>7, <1>14
  <2>2. \A i \in DNode : i # k /\ i # n => E[i] = D[i]
    BY <1>15
  <2>3. E \in [DNode -> DirRec]
    BY <1>12
  <2> HIDE DEF k, D, F
  <2> QED BY ONLY <1>3, <1>16, <1>17, <1>18, <1>19, <2>1, <2>2, <2>3 DEF Made
<1>a. IsTree(E, F, dnode_map \cup {n}, fnode_map, blk_map)
  BY ONLY <1>16, <1>20, Mkdir
<1>21. e.dir_num \in dnode_map' /\ Len(buff_dir_node') = Len(e.child_dir)
       /\ Len(buff_file_node') = Len(e.child_file) /\ buff_file_node' \in Seq(FileRec)
  BY <1>0, <1>1, <1>2, <1>5, <1>6, <1>8 DEF Cached
<1>22. IsTree(Dirs', Files', dnode_map', fnode_map', blk_map')
  BY <1>0, <1>1, <1>13, <1>a DEF E
<1>23. Kept'
  BY <1>0, <1>6, <1>8, <1>21, <1>22, StillUp DEF e
<1> QED BY <1>7, <1>13, <1>14, <1>20, <1>23 DEF E, n

(* The current directory changes, its subdirectories do not. *)
LEMMA OneDir ==
  ASSUME NEW c, NEW e \in DirRec, NEW b, NEW t, NEW D \in [DNode -> DirRec],
         D = ViewD(c, b, t), NEW E, E = ViewD(e, b, t),
         e.child_dir = c.child_dir, e.dir_num = c.dir_num, c.dir_num \in DNode
  PROVE  /\ E \in [DNode -> DirRec] /\ E[c.dir_num] = e
         /\ \A i \in DNode : i # c.dir_num => E[i] = D[i]
<1>1. \A i \in DNode : i # c.dir_num => E[i] = D[i]
  BY DEF ViewD
<1>2. E[c.dir_num] = e
  BY DEF ViewD
<1>3. E = [i \in DNode |-> E[i]]
  BY DEF ViewD
<1>4. \A i \in DNode : E[i] \in DirRec
  BY <1>1, <1>2
<1> QED BY <1>1, <1>2, <1>3, <1>4

(* The names of the cached entries are those of the current directory. *)
LEMMA NameFree ==
  ASSUME Cached, NEW name, check_name(name)
  PROVE  /\ \A p \in DOMAIN curr_dir.child_dir : Dirs[curr_dir.child_dir[p]].dir_name # name
         /\ \A p \in DOMAIN curr_dir.child_file : Files[curr_dir.child_file[p]].file_name # name
<1>1. DirIndex(name) = 0 /\ FileIndex(name) = 0
  BY DEF check_name
<1>2. buff_dir_node \in Seq(DirRec) /\ buff_file_node \in Seq(FileRec)
      /\ Len(buff_dir_node) = Len(curr_dir.child_dir)
      /\ Len(buff_file_node) = Len(curr_dir.child_file)
  BY DEF Cached
<1>3. /\ \A p \in 1 .. Len(buff_dir_node) : buff_dir_node[p].dir_name # name
      /\ \A p \in 1 .. Len(buff_file_node) : buff_file_node[p].file_name # name
  BY <1>1, <1>2, DirIndexFinds, FileIndexFinds
<1>4. DOMAIN curr_dir.child_file = 1 .. Len(buff_file_node)
      /\ DOMAIN curr_dir.child_dir = 1 .. Len(buff_dir_node)
  BY <1>2, DirFields DEF Cached
<1> QED BY <1>3, <1>4 DEF Cached

LEMMA CreateFile ==
  ASSUME FileInv, NEW name \in Names, create_file(name)
  PROVE  /\ Kept'
         /\ Touched(Dirs, Dirs', Files, Files', dnode_map, fnode_map, blk_map,
                    curr_dir.dir_num, apply_f_node, apply_blk)
         /\ Files'[apply_f_node].file_name = name
<1> DEFINE c == curr_dir
           n == apply_f_node
           a == apply_blk
           d == NewFile(n, name, a, c.dir_num)
           L == Len(c.child_file)
<1>0. up /\ up' = up /\ UNCHANGED <<ddir, dfile, dsuper, init_flag>> /\ dnode_map' = dnode_map
      /\ buff_dir_node' = buff_dir_node
  BY DEF create_file, diskVars
<1>1. /\ L < MaxFiles /\ check_name(name) /\ FNode \ fnode_map # {} /\ Blk \ blk_map # {}
      /\ fnode_map' = fnode_map \cup {n} /\ blk_map' = blk_map \cup {a}
      /\ buff_file_node' = Append(buff_file_node, d)
      /\ curr_dir' = [c EXCEPT !.child_file = Append(c.child_file, n)]
  BY DEF create_file, NewFile
<1>2. Cached /\ ddir \in [DNode -> DirRec] /\ dfile \in [FNode -> FileRec]
  BY <1>0, IsCached DEF FileInv, DiskInv
<1>3. n \in FNode /\ n \notin fnode_map /\ n \in Int /\ a \in Blk /\ a \notin blk_map
  <2>1. FNode \ fnode_map \subseteq Nat /\ Blk \ blk_map \subseteq Nat
    BY SizesAssumption DEF FNode, Blk, SizesAssumption
  <2>2. Min(FNode \ fnode_map) \in FNode \ fnode_map /\ Min(Blk \ blk_map) \in Blk \ blk_map
    BY <1>1, <2>1, Least
  <2> QED BY <2>1, <2>2 DEF apply_f_node, apply_blk
<1>4. c \in DirRec /\ c.dir_num \in Int /\ c.child_dir \in Seq(DNode)
      /\ c.child_file \in Seq(FNode) /\ L \in Nat /\ DOMAIN c.child_file = 1 .. L
  BY <1>2, DirFields DEF Cached
<1> DEFINE s == Append(c.child_file, n)
           e == curr_dir'
<1>5. /\ s \in Seq(FNode) /\ Len(s) = L + 1 /\ DOMAIN s = 1 .. L + 1
      /\ \A p \in 1 .. L : s[p] = c.child_file[p]
      /\ s[L + 1] = n
  BY <1>3, <1>4
<1>6. /\ e \in DirRec /\ e.child_file = s /\ e.dir_num = c.dir_num /\ e.dir_name = c.dir_name
      /\ e.child_dir = c.child_dir /\ e.parent = c.parent
  <2>1. e = [c EXCEPT !.child_file = s]
    BY <1>1
  <2> HIDE DEF e, s, c
  <2> QED BY ONLY <1>4, <1>5, <2>1, DirWithFiles
<1>7. /\ d \in FileRec /\ d.file_num = n /\ d.file_name = name /\ d.parent = c.dir_num
      /\ d.block = <<a>> /\ d.size_rest = 0
  <2>1. name \in NameSet
    BY DEF NameSet
  <2> DEFINE m == c.dir_num
  <2>2. d = NewFile(n, name, a, m) /\ m \in Int
    BY <1>4
  <2> HIDE DEF n, m, d, a
  <2>3. /\ d \in FileRec /\ d.file_num = n /\ d.file_name = name /\ d.parent = m
        /\ d.block = <<a>> /\ d.size_rest = 0
    BY ONLY <1>3, <2>1, <2>2, NewFileIs
  <2> QED BY <2>3 DEF m
<1> HIDE DEF n, d, s, e, a
<1>8. /\ buff_file_node' \in Seq(FileRec) /\ Len(buff_file_node') = L + 1
      /\ \A p \in 1 .. L : buff_file_node'[p] = buff_file_node[p]
      /\ buff_file_node'[L + 1] = d
  <2>1. buff_file_node \in Seq(FileRec) /\ Len(buff_file_node) = L
    BY <1>2 DEF Cached
  <2> QED BY ONLY <1>1, <1>4, <1>7, <2>1
<1>9. \A p \in 1 .. L : c.child_file[p] \in fnode_map
  BY <1>2, <1>4 DEF Cached
<1>10. Distinct(s)
  <2>1. Distinct(c.child_file)
    BY <1>2 DEF Cached
  <2>2. ASSUME NEW p \in DOMAIN s
        PROVE  \/ p \in 1 .. L /\ s[p] = c.child_file[p] /\ s[p] \in fnode_map
               \/ p = L + 1 /\ s[p] = n
    BY <1>4, <1>5, <1>9
  <2> QED BY <1>3, <1>4, <2>1, <2>2 DEF Distinct
<1> DEFINE E == Dirs'
           G == Files'
           k == c.dir_num
           D == Dirs
           F == Files
<1>11. /\ IsTree(D, F, dnode_map, fnode_map, blk_map) /\ k \in dnode_map
       /\ D[k] = c /\ k \in DNode /\ D \in [DNode -> DirRec]
  BY <1>2 DEF Cached, IsTree, Typed
<1>12. /\ E \in [DNode -> DirRec] /\ E[k] = e
       /\ \A i \in DNode : i # k => E[i] = D[i]
  <2> DEFINE b == buff_dir_node
             t == ddir
  <2>1. D = ViewD(c, b, t) /\ E = ViewD(e, b, t) /\ e.dir_num = c.dir_num /\ c.dir_num \in DNode
    BY <1>0, <1>6, <1>11 DEF Dirs, e
  <2> HIDE DEF D, E, b, t, c
  <2>2. /\ E \in [DNode -> DirRec] /\ E[c.dir_num] = e
        /\ \A i \in DNode : i # c.dir_num => E[i] = D[i]
    BY ONLY <1>6, <1>11, <2>1, OneDir
  <2> QED BY <2>2
<1>13. /\ G \in [FNode -> FileRec]
       /\ \A p \in DOMAIN e.child_file : G[e.child_file[p]] = buff_file_node'[p]
       /\ \A i \in FNode : i \notin Range(e.child_file) => G[i] = dfile[i]
  <2> DEFINE b == buff_file_node'
             t == dfile
  <2>1. /\ b \in Seq(FileRec) /\ t \in [FNode -> FileRec] /\ Len(b) = Len(e.child_file)
        /\ G = ViewF(e, b, t) /\ e \in DirRec /\ Distinct(e.child_file)
    BY <1>0, <1>2, <1>5, <1>6, <1>8, <1>10 DEF Files, e
  <2> HIDE DEF G, b, t
  <2>2. /\ G \in [FNode -> FileRec]
        /\ \A p \in DOMAIN e.child_file : G[e.child_file[p]] = b[p]
        /\ \A i \in FNode : i \notin Range(e.child_file) => G[i] = t[i]
    BY ONLY <2>1, SeenFiles
  <2> QED BY <2>2 DEF b, t
<1> HIDE DEF E, G
<1>14. G[n] = d
  <2>1. L + 1 \in DOMAIN e.child_file
    BY <1>4, <1>5, <1>6
  <2> QED BY <1>5, <1>6, <1>8, <1>13, <2>1
<1>15. ASSUME NEW i \in FNode, i # n PROVE G[i] = F[i]
  <2>1. CASE i \in Range(c.child_file)
    <3>1. PICK p \in DOMAIN c.child_file : i = c.child_file[p]
      BY <2>1 DEF Range
    <3>2. p \in 1 .. L /\ p \in DOMAIN e.child_file /\ e.child_file[p] = i
      BY <1>4, <1>5, <1>6, <3>1
    <3>3. G[i] = buff_file_node[p]
      BY <1>8, <1>13, <3>2
    <3> QED BY <1>2, <3>1, <3>3 DEF Cached
  <2>2. CASE i \notin Range(c.child_file)
    <3>1. i \notin Range(e.child_file)
      <4>1. ASSUME NEW p \in DOMAIN s, i = s[p] PROVE FALSE
        BY <1>4, <1>5, <1>15, <2>2, <4>1 DEF Range
      <4> QED BY <1>6, <4>1 DEF Range
    <3> QED BY <1>2, <1>13, <2>2, <3>1 DEF Cached
  <2> QED BY <2>1, <2>2
<1>16. Touched(D, E, F, G, dnode_map, fnode_map, blk_map, k, n, a)
  <2>1. /\ E[k].child_file = Append(D[k].child_file, n)
        /\ E[k].child_dir = D[k].child_dir /\ E[k].dir_num = D[k].dir_num
        /\ E[k].dir_name = D[k].dir_name /\ E[k].parent = D[k].parent
    BY <1>6, <1>11, <1>12 DEF s
  <2>2. G[n].file_num = n /\ G[n].parent = k /\ G[n].size_rest = 0 /\ G[n].block = <<a>>
    BY <1>7, <1>14
  <2>3. \A f \in FNode : f # n => G[f] = F[f]
    BY <1>15
  <2>4. /\ Len(D[k].child_file) < MaxFiles
        /\ \A p \in DOMAIN D[k].child_dir : D[D[k].child_dir[p]].dir_name # G[n].file_name
        /\ \A p \in DOMAIN D[k].child_file : F[D[k].child_file[p]].file_name # G[n].file_name
    BY <1>1, <1>2, <1>7, <1>11, <1>14, NameFree
  <2>5. G \in [FNode -> FileRec]
    BY <1>13
  <2> HIDE DEF k, D, F
  <2> QED BY ONLY <1>3, <1>11, <1>12, <2>1, <2>2, <2>3, <2>4, <2>5 DEF Touched
<1>a. IsTree(E, G, dnode_map, fnode_map \cup {n}, blk_map \cup {a})
  BY ONLY <1>11, <1>16, Touch
<1>17. e.dir_num \in dnode_map' /\ Len(buff_dir_node') = Len(e.child_dir)
       /\ Len(buff_file_node') = Len(e.child_file) /\ buff_dir_node' \in Seq(DirRec)
  BY <1>0, <1>1, <1>2, <1>5, <1>6, <1>8 DEF Cached
<1>18. IsTree(Dirs', Files', dnode_map', fnode_map', blk_map')
  BY <1>0, <1>1, <1>a DEF E, G
<1>19. Kept'
  BY <1>0, <1>6, <1>8, <1>17, <1>18, StillUp DEF e
<1> QED BY <1>7, <1>14, <1>16, <1>19 DEF E, G, n, a

(* The entry of the current directory that a name finds. *)
LEMMA FileFound ==
  ASSUME Cached, NEW name, FileIndex(name) # 0, NEW k, k = FileIndex(name)
  PROVE  /\ k \in DOMAIN curr_dir.child_file /\ k \in DOMAIN buff_file_node
         /\ curr_dir.child_file[k] \in fnode_map /\ curr_dir.child_file[k] \in FNode
         /\ Files[curr_dir.child_file[k]] = buff_file_node[k]
         /\ buff_file_node[k].file_num = curr_dir.child_file[k]
         /\ buff_file_node[k].file_name = name
<1>1. buff_file_node \in Seq(FileRec) /\ Len(buff_file_node) = Len(curr_dir.child_file)
      /\ curr_dir.child_file \in Seq(FNode)
  BY DirFields DEF Cached
<1>2. k \in 1 .. Len(buff_file_node) /\ buff_file_node[k].file_name = name
  BY <1>1, FileIndexFinds
<1>3. k \in DOMAIN curr_dir.child_file /\ k \in DOMAIN buff_file_node
  BY <1>1, <1>2
<1>4. curr_dir.child_file[k] \in FNode
  BY <1>1, <1>3
<1>5. /\ FileLinks(Dirs, Files, dnode_map) /\ curr_dir.dir_num \in dnode_map
      /\ Dirs[curr_dir.dir_num] = curr_dir
  BY DEF Cached, IsTree
<1>6. Files[curr_dir.child_file[k]].file_num = curr_dir.child_file[k]
  BY <1>3, <1>5 DEF FileLinks
<1> QED BY <1>2, <1>3, <1>4, <1>6 DEF Cached

LEMMA DirFound ==
  ASSUME Cached, NEW name, DirIndex(name) # 0, NEW k, k = DirIndex(name)
  PROVE  /\ k \in DOMAIN curr_dir.child_dir /\ k \in DOMAIN buff_dir_node
         /\ curr_dir.child_dir[k] \in dnode_map /\ curr_dir.child_dir[k] \in DNode
         /\ Dirs[curr_dir.child_dir[k]] = buff_dir_node[k]
         /\ buff_dir_node[k].dir_num = curr_dir.child_dir[k]
         /\ buff_dir_node[k].dir_name = name
<1>1. buff_dir_node \in Seq(DirRec) /\ Len(buff_dir_node) = Len(curr_dir.child_dir)
      /\ curr_dir.child_dir \in Seq(DNode)
  BY DirFields DEF Cached
<1>2. k \in 1 .. Len(buff_dir_node) /\ buff_dir_node[k].dir_name = name
  BY <1>1, DirIndexFinds
<1>3. k \in DOMAIN curr_dir.child_dir /\ k \in DOMAIN buff_dir_node
  BY <1>1, <1>2
<1>4. curr_dir.child_dir[k] \in DNode
  BY <1>1, <1>3
<1>5. curr_dir.child_dir[k] \in dnode_map /\ Dirs[curr_dir.child_dir[k]] = buff_dir_node[k]
  BY <1>3 DEF Cached
<1>6. DirLinks(Dirs, dnode_map)
  BY DEF Cached, IsTree
<1>7. Dirs[curr_dir.child_dir[k]].dir_num = curr_dir.child_dir[k]
  BY <1>5, <1>6 DEF DirLinks
<1> QED BY <1>2, <1>3, <1>4, <1>5, <1>7

LEMMA DelFile ==
  ASSUME FileInv, NEW name \in Names, del_file(name)
  PROVE  /\ Kept'
         /\ \E k : /\ k = FileIndex(name) /\ fnode_map' = fnode_map \ {curr_dir.child_file[k]}
                  /\ Removal(Dirs, Dirs', Files, Files', dnode_map, fnode_map, blk_map,
                             curr_dir.dir_num, k, curr_dir.child_file[k])
<1> DEFINE c == curr_dir
           k == FileIndex(name)
           x == c.child_file[k]
           s == c.child_file
           r == RemoveAt(s, k)
           e == curr_dir'
           B == buff_file_node'
<1>0. up /\ up' = up /\ UNCHANGED <<ddir, dfile, dsuper, init_flag>> /\ dnode_map' = dnode_map
      /\ buff_dir_node' = buff_dir_node
  BY DEF del_file, diskVars
<1>1. /\ k # 0
      /\ fnode_map' = fnode_map \ {buff_file_node[k].file_num}
      /\ blk_map' = blk_map \ Range(buff_file_node[k].block)
      /\ e = [c EXCEPT !.child_file = r] /\ B = RemoveAt(buff_file_node, k)
  BY DEF del_file, FileBlks
<1>2. Cached /\ ddir \in [DNode -> DirRec] /\ dfile \in [FNode -> FileRec]
  BY <1>0, IsCached DEF FileInv, DiskInv
<1>3. /\ k \in DOMAIN s /\ k \in DOMAIN buff_file_node
      /\ x \in fnode_map /\ x \in FNode /\ Files[x] = buff_file_node[k]
      /\ buff_file_node[k].file_num = x
  BY <1>1, <1>2, FileFound
<1>4. /\ c \in DirRec /\ s \in Seq(FNode) /\ buff_file_node \in Seq(FileRec)
      /\ Len(buff_file_node) = Len(s)
  BY <1>2, DirFields DEF Cached
<1> HIDE DEF k, e, B
<1>5. /\ r \in Seq(FNode) /\ Len(r) = Len(s) - 1
      /\ \A p \in DOMAIN r : Over(k, p) \in DOMAIN s /\ Over(k, p) # k /\ r[p] = s[Over(k, p)]
      /\ \A p, q \in DOMAIN r : Over(k, p) = Over(k, q) => p = q
      /\ \A q \in DOMAIN s : q # k => \E p \in DOMAIN r : r[p] = s[q]
  <2>1. r = RemoveAt(s, k) /\ s \in Seq(FNode) /\ k \in DOMAIN s
    BY <1>3, <1>4
  <2> HIDE DEF r, s
  <2> QED BY ONLY <2>1, RemovedFrom
<1>6. /\ B \in Seq(FileRec) /\ Len(B) = Len(s) - 1
      /\ \A p \in DOMAIN B : B[p] = buff_file_node[Over(k, p)]
  BY ONLY <1>1, <1>3, <1>4, RemovedFrom
<1>7. /\ e \in DirRec /\ e.child_file = r /\ e.dir_num = c.dir_num /\ e.dir_name = c.dir_name
      /\ e.child_dir = c.child_dir /\ e.parent = c.parent
  <2> HIDE DEF c, r
  <2> QED BY ONLY <1>1, <1>4, <1>5, DirWithFiles
<1>8. Distinct(s) /\ \A p \in DOMAIN s : Files[s[p]] = buff_file_node[p]
  BY <1>2 DEF Cached
<1>9. Distinct(r)
  <2> HIDE DEF r, s
  <2> QED BY ONLY <1>5, <1>8 DEF Distinct
<1> DEFINE E == Dirs'
           G == Files'
           m == c.dir_num
           D == Dirs
           F == Files
<1>11. /\ IsTree(D, F, dnode_map, fnode_map, blk_map) /\ m \in dnode_map
       /\ D[m] = c /\ m \in DNode /\ D \in [DNode -> DirRec]
  BY <1>2 DEF Cached, IsTree, Typed
<1>12. /\ E \in [DNode -> DirRec] /\ E[m] = e
       /\ \A i \in DNode : i # m => E[i] = D[i]
  <2> DEFINE b == buff_dir_node
             t == ddir
  <2>1. D = ViewD(c, b, t) /\ E = ViewD(e, b, t) /\ e.dir_num = c.dir_num /\ c.dir_num \in DNode
    BY <1>0, <1>7, <1>11 DEF Dirs, e
  <2> HIDE DEF D, E, b, t, c
  <2>2. /\ E \in [DNode -> DirRec] /\ E[c.dir_num] = e
        /\ \A i \in DNode : i # c.dir_num => E[i] = D[i]
    BY ONLY <1>7, <1>11, <2>1, OneDir
  <2> QED BY <2>2
<1>13. /\ G \in [FNode -> FileRec]
       /\ \A p \in DOMAIN r : G[r[p]] = B[p]
       /\ \A i \in FNode : i \notin Range(r) => G[i] = dfile[i]
  <2> DEFINE t == dfile
  <2>1. /\ B \in Seq(FileRec) /\ t \in [FNode -> FileRec] /\ Len(B) = Len(e.child_file)
        /\ G = ViewF(e, B, t) /\ e \in DirRec /\ Distinct(e.child_file)
    BY <1>0, <1>2, <1>5, <1>6, <1>7, <1>9 DEF Files, e, B
  <2> HIDE DEF G, t
  <2>2. /\ G \in [FNode -> FileRec]
        /\ \A p \in DOMAIN e.child_file : G[e.child_file[p]] = B[p]
        /\ \A i \in FNode : i \notin Range(e.child_file) => G[i] = t[i]
    BY ONLY <2>1, SeenFiles
  <2> QED BY <1>7, <2>2 DEF t
<1> HIDE DEF E, G, r
<1>14. ASSUME NEW i \in FNode, i # x PROVE G[i] = F[i]
  <2>1. CASE i \in Range(s)
    <3>1. PICK q \in DOMAIN s : i = s[q]
      BY <2>1 DEF Range
    <3>2. PICK p \in DOMAIN r : r[p] = i
      BY <1>5, <1>14, <3>1
    <3>3. G[i] = B[p] /\ B[p] = buff_file_node[Over(k, p)] /\ i = s[Over(k, p)]
          /\ Over(k, p) \in DOMAIN s
      <4>1. DOMAIN r = DOMAIN B
        BY <1>5, <1>6
      <4> QED BY <1>5, <1>6, <1>13, <3>2, <4>1
    <3> QED BY <1>8, <3>3
  <2>2. CASE i \notin Range(s)
    <3>1. i \notin Range(r)
      BY <1>5, <2>2 DEF Range
    <3> QED BY <1>2, <1>13, <2>2, <3>1 DEF Cached
  <2> QED BY <2>1, <2>2
<1>15. Removal(D, E, F, G, dnode_map, fnode_map, blk_map, m, k, x)
  <2>1. /\ E[m].child_file = RemoveAt(D[m].child_file, k) /\ E[m].child_dir = D[m].child_dir
        /\ E[m].dir_num = D[m].dir_num /\ E[m].dir_name = D[m].dir_name
        /\ E[m].parent = D[m].parent
    BY <1>7, <1>11, <1>12 DEF r
  <2>2. k \in DOMAIN D[m].child_file /\ x = D[m].child_file[k]
    BY <1>3, <1>11
  <2>3. \A f \in FNode : f # x => G[f] = F[f]
    BY <1>14
  <2> HIDE DEF m, x, D, F
  <2> QED BY <1>11, <1>12, <1>13, <2>1, <2>2, <2>3 DEF Removal
<1>16. IsTree(E, G, dnode_map, fnode_map \ {x}, blk_map \ Range(F[x].block))
  <2> HIDE DEF m, x, D, F
  <2> QED BY ONLY <1>11, <1>15, Rm
<1>17. e.dir_num \in dnode_map' /\ Len(buff_dir_node') = Len(e.child_dir)
       /\ Len(B) = Len(e.child_file) /\ buff_dir_node' \in Seq(DirRec)
  BY <1>0, <1>2, <1>5, <1>6, <1>7 DEF Cached
<1>18. IsTree(Dirs', Files', dnode_map', fnode_map', blk_map')
  BY <1>0, <1>1, <1>3, <1>16 DEF E, G
<1>19. Kept'
  BY <1>0, <1>6, <1>7, <1>17, <1>18, StillUp DEF e, B
<1>20. fnode_map' = fnode_map \ {x}
  BY <1>1, <1>3
<1> QED BY <1>15, <1>19, <1>20 DEF E, G, k

(* What write_file does to the file f: the line goes into its last block,   *)
(* or into that one and a new one.                                          *)
Appended(F, G, mb, be, f, size) ==
  /\ \A g \in FNode : g # f => G[g] = F[g]
  /\ G[f].file_name = F[f].file_name
  /\ \/ /\ size + F[f].size_rest <= BlkSize /\ G[f].block = F[f].block /\ be = mb
        /\ G[f].size_rest = F[f].size_rest + size
     \/ /\ size + F[f].size_rest > BlkSize /\ Len(F[f].block) < BlkPerFile
        /\ G[f].size_rest = size - BlkSize + F[f].size_rest
        /\ \E b \in Blk : /\ b \notin mb /\ be = mb \cup {b}
                          /\ G[f].block = Append(F[f].block, b)

LEMMA WriteFile ==
  ASSUME FileInv, NEW name \in Names, NEW size \in WriteSizes, write_file(name, size)
  PROVE  /\ Kept' /\ Dirs' = Dirs
         /\ \E x : /\ x = curr_dir.child_file[FileIndex(name)] /\ x \in fnode_map
                  /\ Appended(Files, Files', blk_map, blk_map', x, size)
<1> DEFINE c == curr_dir
           k == FileIndex(name)
           x == c.child_file[k]
           s == c.child_file
           f == buff_file_node[k]
           B == buff_file_node'
<1>0. up /\ up' = up /\ UNCHANGED <<ddir, dfile, dsuper, dnode_map, fnode_map, curr_dir>>
      /\ buff_dir_node' = buff_dir_node /\ init_flag' = 1
  BY DEF write_file
<1>1. /\ k # 0
      /\ \/ /\ size + f.size_rest > BlkSize /\ Len(f.block) < BlkPerFile /\ Blk \ blk_map # {}
            /\ blk_map' = blk_map \cup {apply_blk}
            /\ B = [buff_file_node EXCEPT ![k] =
                      [f EXCEPT !.block = Append(f.block, apply_blk),
                                !.size_rest = size - BlkSize + f.size_rest]]
         \/ /\ size + f.size_rest <= BlkSize
            /\ B = [buff_file_node EXCEPT ![k] = [f EXCEPT !.size_rest = f.size_rest + size]]
            /\ blk_map' = blk_map
  BY DEF write_file, MayGrow
<1>2. Cached /\ dfile \in [FNode -> FileRec]
  BY <1>0, IsCached DEF FileInv, DiskInv
<1>3. /\ k \in DOMAIN s /\ k \in DOMAIN buff_file_node
      /\ x \in fnode_map /\ x \in FNode /\ Files[x] = f
  BY <1>1, <1>2, FileFound
<1>4. /\ c \in DirRec /\ s \in Seq(FNode) /\ buff_file_node \in Seq(FileRec)
      /\ Len(buff_file_node) = Len(s) /\ Distinct(s)
      /\ \A p \in DOMAIN s : Files[s[p]] = buff_file_node[p]
  BY <1>2, DirFields DEF Cached
<1>5. f \in FileRec /\ f.block \in Seq(Blk) /\ f.size_rest \in 0 .. BlkSize
  <2>1. f \in FileRec
    BY <1>3, <1>4
  <2>2. Fits(Dirs, Files, dnode_map, fnode_map)
    BY <1>2 DEF Cached, IsTree
  <2> QED BY <1>3, <2>1, <2>2, FileFields DEF Fits
<1>6. size \in Nat /\ size <= BlkSize /\ BlkSize \in Nat /\ f.size_rest \in Nat
      /\ f.size_rest <= BlkSize
  <2>1. size \in 0 .. BlkSize - 2 /\ BlkSize \in Nat
    BY SizesAssumption DEF SizesAssumption
  <2> QED BY ONLY <1>5, <2>1
<1> HIDE DEF k, f
<1>7. PICK g : /\ g \in FileRec /\ B = [buff_file_node EXCEPT ![k] = g]
               /\ g.file_num = f.file_num /\ g.file_name = f.file_name /\ g.parent = f.parent
               /\ g.size_rest \in 0 .. BlkSize
               /\ \/ /\ g.block = f.block /\ blk_map' = blk_map
                     /\ size + f.size_rest <= BlkSize /\ g.size_rest = f.size_rest + size
                  \/ \E b \in Blk : /\ b \notin blk_map /\ blk_map' = blk_map \cup {b}
                                    /\ g.block = Append(f.block, b)
                                    /\ Len(f.block) < BlkPerFile
                                    /\ size + f.size_rest > BlkSize
                                    /\ g.size_rest = size - BlkSize + f.size_rest
  <2>1. CASE /\ size + f.size_rest > BlkSize /\ Len(f.block) < BlkPerFile /\ Blk \ blk_map # {}
             /\ blk_map' = blk_map \cup {apply_blk}
             /\ B = [buff_file_node EXCEPT ![k] =
                       [f EXCEPT !.block = Append(f.block, apply_blk),
                                 !.size_rest = size - BlkSize + f.size_rest]]
    <3> DEFINE b == apply_blk
               n == size - BlkSize + f.size_rest
               t == Append(f.block, b)
               g == [f EXCEPT !.block = t, !.size_rest = n]
    <3>1. b \in Blk /\ b \notin blk_map
      <4>1. Blk \ blk_map \subseteq Nat
        BY SizesAssumption DEF Blk, SizesAssumption
      <4> QED BY <2>1, <4>1, Least DEF apply_blk
    <3>2. n \in 0 .. BlkSize /\ n \in Int
      BY <1>6, <2>1
    <3> HIDE DEF b, n
    <3>3. t \in Seq(Blk)
      BY <1>5, <3>1
    <3>4. B = [buff_file_node EXCEPT ![k] = g] /\ blk_map' = blk_map \cup {b}
      BY <2>1 DEF b, n
    <3> HIDE DEF t
    <3>5. g = Grown(f, t, n)
      BY DEF Grown
    <3> HIDE DEF g
    <3>6. /\ g \in FileRec /\ g.block = t /\ g.size_rest = n
          /\ g.file_num = f.file_num /\ g.file_name = f.file_name /\ g.parent = f.parent
      BY ONLY <1>5, <3>2, <3>3, <3>5, FileWith
    <3> QED BY <2>1, <3>1, <3>2, <3>4, <3>6 DEF t, n
  <2>2. CASE /\ size + f.size_rest <= BlkSize
             /\ B = [buff_file_node EXCEPT ![k] = [f EXCEPT !.size_rest = f.size_rest + size]]
             /\ blk_map' = blk_map
    <3> DEFINE n == f.size_rest + size
               g == [f EXCEPT !.size_rest = n]
    <3>1. n \in 0 .. BlkSize /\ n \in Int
      BY <1>6, <2>2
    <3>2. B = [buff_file_node EXCEPT ![k] = g]
      BY <2>2
    <3> HIDE DEF n
    <3>3. g = Filled(f, n)
      BY DEF Filled
    <3> HIDE DEF g
    <3>4. /\ g \in FileRec /\ g.block = f.block /\ g.size_rest = n
          /\ g.file_num = f.file_num /\ g.file_name = f.file_name /\ g.parent = f.parent
      <4>1. f.block \in Seq(Blk)
        BY <1>5
      <4> QED BY ONLY <1>5, <3>1, <3>3, <4>1, FileWith
    <3> QED BY <2>2, <3>1, <3>2, <3>4 DEF n
  <2> QED BY <1>1, <2>1, <2>2 DEF f
<1>8. /\ B \in Seq(FileRec) /\ Len(B) = Len(s) /\ DOMAIN B = DOMAIN s /\ B[k] = g
      /\ \A p \in DOMAIN s : p # k => B[p] = buff_file_node[p]
  BY ONLY <1>3, <1>4, <1>7
<1> HIDE DEF B
<1> DEFINE G == Files'
           D == Dirs
           F == Files
<1>9. /\ G \in [FNode -> FileRec]
      /\ \A p \in DOMAIN s : G[s[p]] = B[p]
      /\ \A i \in FNode : i \notin Range(s) => G[i] = dfile[i]
  <2> DEFINE t == dfile
  <2>1. G = ViewF(c, B, t) /\ t \in [FNode -> FileRec] /\ Len(B) = Len(c.child_file)
        /\ Distinct(c.child_file)
    BY <1>0, <1>2, <1>4, <1>8 DEF Files, B
  <2> HIDE DEF G, t, c
  <2>2. /\ G \in [FNode -> FileRec]
        /\ \A p \in DOMAIN c.child_file : G[c.child_file[p]] = B[p]
        /\ \A i \in FNode : i \notin Range(c.child_file) => G[i] = t[i]
    BY ONLY <1>4, <1>8, <2>1, SeenFiles
  <2> QED BY <2>2 DEF t
<1>10. Dirs' = D
  BY <1>0 DEF Dirs
<1> HIDE DEF G
<1>11. G[x] = g
  BY <1>3, <1>8, <1>9
<1>12. ASSUME NEW i \in FNode, i # x PROVE G[i] = F[i]
  <2>1. CASE i \in Range(s)
    <3>1. PICK p \in DOMAIN s : i = s[p]
      BY <2>1 DEF Range
    <3>2. p # k
      BY <1>12, <3>1
    <3> QED BY <1>4, <1>8, <1>9, <3>1, <3>2
  <2>2. CASE i \notin Range(s)
    BY <1>2, <1>9, <2>2 DEF Cached
  <2> QED BY <2>1, <2>2
<1>13. IsTree(D, F, dnode_map, fnode_map, blk_map)
  BY <1>2 DEF Cached
<1> DEFINE be == blk_map'
<1>14. Written(D, F, G, dnode_map, fnode_map, blk_map, be, x)
  <2>1. \A h \in FNode : h # x => G[h] = F[h]
    BY <1>12
  <2>2. F[x] = f
    BY <1>3
  <2> HIDE DEF x, D, F, be
  <2> QED BY <1>3, <1>7, <1>9, <1>11, <2>1, <2>2 DEF Written, be
<1>15. IsTree(D, G, dnode_map, fnode_map, be)
  <2> HIDE DEF x, D, F, be
  <2> QED BY ONLY <1>13, <1>14, Write
<1>16. IsTree(Dirs', Files', dnode_map', fnode_map', blk_map')
  BY <1>0, <1>10, <1>15 DEF G
<1>17. curr_dir' = c /\ buff_dir_node' = buff_dir_node /\ buff_dir_node \in Seq(DirRec)
       /\ Len(buff_dir_node) = Len(c.child_dir) /\ c.dir_num \in dnode_map'
  BY <1>0, <1>2 DEF Cached
<1>18. Kept'
  BY <1>0, <1>4, <1>8, <1>16, <1>17, StillUp DEF B
<1>19. Appended(F, G, blk_map, be, x, size)
  <2>1. \A h \in FNode : h # x => G[h] = F[h]
    BY <1>12
  <2>2. F[x] = f
    BY <1>3
  <2> HIDE DEF x, D, F
  <2> QED BY <1>7, <1>11, <2>1, <2>2 DEF Appended, be
<1> QED BY <1>3, <1>10, <1>18, <1>19 DEF G, be, k

(* What is reached from S is the least closed set with S in it. *)
LEMMA ReachedIs ==
  ASSUME NEW D \in [DNode -> DirRec], NEW S, S \subseteq DNode, NEW R,
         R = Reached(S, [i \in DNode |-> Range(D[i].child_dir)])
  PROVE  /\ S \subseteq R /\ R \subseteq DNode /\ Closed(D, R)
         /\ \A T \in SUBSET DNode : S \subseteq T /\ Closed(D, T) => R \subseteq T
<1> DEFINE kids == [i \in DNode |-> Range(D[i].child_dir)]
           closed == {T \in SUBSET DNode : S \subseteq T /\ \A j \in T : kids[j] \subseteq T}
<1>1. R = {i \in DNode : \A T \in closed : i \in T}
  BY DEF Reached
<1>2. ASSUME NEW T \in SUBSET DNode, S \subseteq T, Closed(D, T) PROVE T \in closed
  BY <1>2 DEF Closed, Range
<1>3. ASSUME NEW T \in closed PROVE T \in SUBSET DNode /\ S \subseteq T /\ Closed(D, T)
  BY DEF Closed, Range
<1> HIDE DEF closed
<1>4. S \subseteq R /\ R \subseteq DNode
  BY <1>1, <1>3
<1>5. ASSUME NEW j \in R, NEW p \in DOMAIN D[j].child_dir PROVE D[j].child_dir[p] \in R
  <2>1. j \in DNode /\ D[j].child_dir \in Seq(DNode)
    BY <1>1, DirTable
  <2>2. D[j].child_dir[p] \in DNode
    BY <2>1
  <2>3. ASSUME NEW T \in closed PROVE D[j].child_dir[p] \in T
    BY <1>1, <1>3 DEF Closed
  <2> QED BY <1>1, <2>2, <2>3
<1>6. ASSUME NEW T \in SUBSET DNode, S \subseteq T, Closed(D, T) PROVE R \subseteq T
  BY <1>1, <1>2, <1>6
<1>7. Closed(D, R)
  BY <1>5, Zenon DEF Closed
<1> QED BY <1>4, <1>6, <1>7

(* del_subdir reads the disk, and still finds the whole subtree: none of    *)
(* the nodes below an entry is in the cache.                                *)
LEMMA SubtreeOnDisk ==
  ASSUME Cached, ddir \in [DNode -> DirRec], NEW k \in DOMAIN curr_dir.child_dir,
         NEW t, t = curr_dir.child_dir[k],
         NEW subs, subs = Subtree(Range(Dirs[t].child_dir)),
         NEW X, X = {t} \cup subs, NEW n, n = curr_dir.dir_num
  PROVE  /\ X \subseteq dnode_map /\ n \notin X /\ 0 \notin X /\ Closed(Dirs, X)
         /\ \A j \in dnode_map : \A p \in DOMAIN Dirs[j].child_dir :
              Dirs[j].child_dir[p] \in X => j \in X \/ (j = n /\ p = k)
         /\ \A j \in subs : ddir[j] = Dirs[j]
         /\ \A T \in SUBSET DNode : t \in T /\ Closed(Dirs, T) => X \subseteq T
<1> DEFINE D == Dirs
           md == dnode_map
           c == curr_dir.dir_num
<1>1. /\ IsTree(D, Files, md, fnode_map, blk_map) /\ c \in md /\ D[c] = curr_dir
      /\ \A i \in DNode : i # c /\ i \notin Range(curr_dir.child_dir) => D[i] = ddir[i]
  BY DEF Cached
<1>2. D \in [DNode -> DirRec] /\ md \subseteq DNode /\ Rooted(D, md) /\ DirsOnce(D, md)
  BY <1>1 DEF IsTree, Typed
<1>3. k \in DOMAIN D[c].child_dir /\ t = D[c].child_dir[k]
  BY <1>1
<1>4. t \in md /\ t \in DNode
  BY <1>1, <1>2, <1>3 DEF Rooted, Closed
<1> HIDE DEF D, md, c
<1> DEFINE Y == Reached({t}, [i \in DNode |-> Range(D[i].child_dir)])
<1>5. /\ t \in Y /\ Y \subseteq DNode /\ Closed(D, Y)
      /\ \A T \in SUBSET DNode : t \in T /\ Closed(D, T) => Y \subseteq T
  <2> DEFINE S == {t}
  <2>1. S \subseteq DNode /\ Y = Reached(S, [i \in DNode |-> Range(D[i].child_dir)])
    BY <1>4
  <2> HIDE DEF S, Y
  <2>2. /\ S \subseteq Y /\ Y \subseteq DNode /\ Closed(D, Y)
        /\ \A T \in SUBSET DNode : S \subseteq T /\ Closed(D, T) => Y \subseteq T
    BY ONLY <1>2, <2>1, ReachedIs
  <2> QED BY <2>2 DEF S
<1> HIDE DEF Y
<1>6. Y \subseteq md
  BY <1>2, <1>4, <1>5 DEF Rooted
<1>7. /\ c \notin Y /\ 0 \notin Y
      /\ \A j \in md : \A p \in DOMAIN D[j].child_dir :
           D[j].child_dir[p] \in Y => j \in Y \/ (j = c /\ p = k)
  BY ONLY <1>1, <1>2, <1>3, <1>5, <1>6, SubtreeApart
<1>8. ASSUME NEW j \in Y, j # t PROVE ddir[j] = D[j]
  <2>1. j # c /\ j \in DNode
    BY <1>5, <1>7
  <2>2. ASSUME NEW p \in DOMAIN curr_dir.child_dir, j = curr_dir.child_dir[p] PROVE FALSE
    BY <1>1, <1>3, <1>7, <1>8, <2>2
  <2>3. j \notin Range(curr_dir.child_dir)
    BY <2>2 DEF Range
  <2> QED BY <1>1, <2>1, <2>3
<1>9. \A p \in DOMAIN D[t].child_dir : D[t].child_dir[p] \in Y /\ D[t].child_dir[p] # t
  <2>1. \A p \in DOMAIN D[t].child_dir : D[t].child_dir[p] # t
    BY ONLY <1>2, <1>4, NoLoop
  <2> QED BY <1>5, <2>1 DEF Closed
<1>10. /\ Range(D[t].child_dir) \subseteq subs /\ subs \subseteq DNode /\ Closed(ddir, subs)
       /\ \A T \in SUBSET DNode :
            Range(D[t].child_dir) \subseteq T /\ Closed(ddir, T) => subs \subseteq T
  <2> DEFINE S == Range(D[t].child_dir)
  <2>1. S \subseteq DNode
    BY <1>5, <1>9 DEF Range
  <2>2. subs = Reached(S, [i \in DNode |-> Range(ddir[i].child_dir)])
    BY DEF Subtree, D
  <2> HIDE DEF S
  <2>3. /\ S \subseteq subs /\ subs \subseteq DNode /\ Closed(ddir, subs)
        /\ \A T \in SUBSET DNode : S \subseteq T /\ Closed(ddir, T) => subs \subseteq T
    BY ONLY <2>1, <2>2, ReachedIs, ddir \in [DNode -> DirRec]
  <2> QED BY <2>3 DEF S
<1>11. subs \subseteq Y \ {t}
  <2> DEFINE T == Y \ {t}
  <2>1. T \in SUBSET DNode /\ Range(D[t].child_dir) \subseteq T
    BY <1>5, <1>9 DEF Range
  <2>2. ASSUME NEW j \in T, NEW p \in DOMAIN ddir[j].child_dir
        PROVE  ddir[j].child_dir[p] \in T
    <3>1. ddir[j] = D[j] /\ j \in md /\ j \in Y
      BY <1>6, <1>8
    <3>2. D[j].child_dir[p] \in Y
      BY <1>5, <3>1 DEF Closed
    <3>3. D[j].child_dir[p] # t
      BY <1>1, <1>2, <1>3, <1>7, <3>1 DEF DirsOnce
    <3> QED BY <3>1, <3>2, <3>3
  <2>3. Closed(ddir, T)
    <3> HIDE DEF T
    <3> QED BY <2>2, Zenon DEF Closed
  <2> HIDE DEF T
  <2>4. subs \subseteq T
    BY <1>10, <2>1, <2>3
  <2> QED BY <2>4 DEF T
<1>12. Y \subseteq {t} \cup subs
  <2> DEFINE T == {t} \cup subs
  <2>1. t \in T /\ T \in SUBSET DNode
    BY <1>4, <1>10
  <2>2. ASSUME NEW j \in T, NEW p \in DOMAIN D[j].child_dir
        PROVE  D[j].child_dir[p] \in T
    <3>1. CASE j = t
      BY <1>10, <3>1 DEF Range
    <3>2. CASE j \in subs
      BY ONLY <1>8, <1>10, <1>11, <2>1, <2>2, <3>2 DEF Closed
    <3> QED BY <3>1, <3>2
  <2>3. Closed(D, T)
    <3> HIDE DEF T
    <3> QED BY <2>2, Zenon DEF Closed
  <2> HIDE DEF T
  <2>4. Y \subseteq T
    BY <1>5, <2>1, <2>3
  <2> QED BY <2>4 DEF T
<1>13. Y = {t} \cup subs
  BY <1>5, <1>11, <1>12
<1>14. \A j \in subs : ddir[j] = D[j]
  BY <1>8, <1>11
<1>15. {t} \cup subs \subseteq md
  BY <1>6, <1>13
<1> QED BY <1>5, <1>7, <1>13, <1>14, <1>15 DEF D, md, c

LEMMA DelDir ==
  ASSUME FileInv, NEW name \in Names, del_dir(name)
  PROVE  /\ Kept' /\ Files' = Files
         /\ \E k, t, X, gone :
              /\ k = DirIndex(name)
              /\ dnode_map' = dnode_map \ X /\ fnode_map' = fnode_map \ gone
              /\ Pruned(Dirs, Dirs', Files, dnode_map, fnode_map, blk_map,
                        curr_dir.dir_num, k, t, X, gone)
              /\ \A T \in SUBSET DNode : t \in T /\ Closed(Dirs, T) => X \subseteq T
<1> DEFINE c == curr_dir
           k == DirIndex(name)
           s == c.child_dir
           t == s[k]
           r == RemoveAt(s, k)
           e == curr_dir'
           B == buff_dir_node'
           top == buff_dir_node[k]
           subs == Subtree(Range(top.child_dir))
           gone == Range(top.child_file) \cup UNION {Range(ddir[i].child_file) : i \in subs}
           X == {t} \cup subs
           m == c.dir_num
           D == Dirs
           F == Files
<1>0. up /\ up' = up /\ UNCHANGED <<ddir, dfile, dsuper, init_flag>>
      /\ buff_file_node' = buff_file_node
  BY DEF del_dir, diskVars
<1>1. /\ k # 0
      /\ dnode_map' = dnode_map \ ({top.dir_num} \cup subs)
      /\ fnode_map' = fnode_map \ gone
      /\ blk_map' = blk_map \ UNION {Range(dfile[f].block) : f \in gone}
      /\ e = [c EXCEPT !.child_dir = r] /\ B = RemoveAt(buff_dir_node, k)
  BY DEF del_dir, FileBlks
<1>2. Cached /\ ddir \in [DNode -> DirRec] /\ dfile \in [FNode -> FileRec]
  BY <1>0, IsCached DEF FileInv, DiskInv
<1>3. /\ k \in DOMAIN s /\ k \in DOMAIN buff_dir_node
      /\ t \in dnode_map /\ t \in DNode /\ D[t] = top /\ top.dir_num = t
  BY <1>1, <1>2, DirFound
<1>4. /\ c \in DirRec /\ s \in Seq(DNode) /\ buff_dir_node \in Seq(DirRec)
      /\ Len(buff_dir_node) = Len(s)
  BY <1>2, DirFields DEF Cached
<1> HIDE DEF k, e, B, top, subs
<1>5. /\ r \in Seq(DNode) /\ Len(r) = Len(s) - 1
      /\ \A p \in DOMAIN r : Over(k, p) \in DOMAIN s /\ Over(k, p) # k /\ r[p] = s[Over(k, p)]
      /\ \A p, q \in DOMAIN r : Over(k, p) = Over(k, q) => p = q
      /\ \A q \in DOMAIN s : q # k => \E p \in DOMAIN r : r[p] = s[q]
  <2>1. r = RemoveAt(s, k) /\ s \in Seq(DNode) /\ k \in DOMAIN s
    BY <1>3, <1>4
  <2> HIDE DEF r, s
  <2> QED BY ONLY <2>1, RemovedFrom
<1>6. /\ B \in Seq(DirRec) /\ Len(B) = Len(s) - 1
      /\ \A p \in DOMAIN B : B[p] = buff_dir_node[Over(k, p)]
  BY ONLY <1>1, <1>3, <1>4, RemovedFrom
<1>7. /\ e \in DirRec /\ e.child_dir = r /\ e.dir_num = c.dir_num /\ e.dir_name = c.dir_name
      /\ e.child_file = c.child_file /\ e.parent = c.parent
  <2> HIDE DEF c, r
  <2> QED BY ONLY <1>1, <1>4, <1>5, DirWithDirs
<1>8. Distinct(s) /\ \A p \in DOMAIN s : D[s[p]] = buff_dir_node[p] /\ s[p] # m
  BY <1>2 DEF Cached
<1>9. Distinct(r) /\ \A p \in DOMAIN r : r[p] # m
  <2> HIDE DEF r, s, m
  <2> QED BY ONLY <1>5, <1>8 DEF Distinct
<1> DEFINE E == Dirs'
<1>10. /\ IsTree(D, F, dnode_map, fnode_map, blk_map) /\ m \in dnode_map
       /\ D[m] = c /\ m \in DNode /\ D \in [DNode -> DirRec]
  BY <1>2 DEF Cached, IsTree, Typed
<1>11. /\ E \in [DNode -> DirRec] /\ E[m] = e
       /\ \A p \in DOMAIN r : E[r[p]] = B[p]
       /\ \A i \in DNode : i # m /\ i \notin Range(r) => E[i] = ddir[i]
  <2> DEFINE u == ddir
  <2>1. /\ B \in Seq(DirRec) /\ u \in [DNode -> DirRec] /\ Len(B) = Len(e.child_dir)
        /\ E = ViewD(e, B, u) /\ e \in DirRec /\ e.dir_num \in DNode /\ Distinct(e.child_dir)
        /\ \A p \in DOMAIN e.child_dir : e.child_dir[p] # e.dir_num
    <3>1. E = ViewD(e, B, u)
      BY <1>0 DEF Dirs, e, B
    <3> HIDE DEF E
    <3> QED BY <1>2, <1>5, <1>6, <1>7, <1>9, <1>10, <3>1
  <2> HIDE DEF E, u
  <2>2. /\ E \in [DNode -> DirRec] /\ E[e.dir_num] = e
        /\ \A p \in DOMAIN e.child_dir : E[e.child_dir[p]] = B[p]
        /\ \A i \in DNode : i # e.dir_num /\ i \notin Range(e.child_dir) => E[i] = u[i]
    BY ONLY <2>1, SeenDirs
  <2> QED BY <1>7, <2>2 DEF u
<1>12. Files' = F
  BY <1>0, <1>7 DEF Files, ViewF, e
<1> HIDE DEF E, r
<1>13. ASSUME NEW i \in DNode, i # m, i # t PROVE E[i] = D[i]
  <2>1. CASE i \in Range(s)
    <3>1. PICK q \in DOMAIN s : i = s[q]
      BY <2>1 DEF Range
    <3>2. PICK p \in DOMAIN r : r[p] = i
      BY <1>5, <1>13, <3>1
    <3>3. E[i] = B[p] /\ B[p] = buff_dir_node[Over(k, p)] /\ i = s[Over(k, p)]
          /\ Over(k, p) \in DOMAIN s
      <4>1. DOMAIN r = DOMAIN B
        BY <1>5, <1>6
      <4> QED BY <1>5, <1>6, <1>11, <3>2, <4>1
    <3> QED BY <1>8, <3>3
  <2>2. CASE i \notin Range(s)
    <3>1. i \notin Range(r)
      BY <1>5, <2>2 DEF Range
    <3> QED BY <1>2, <1>11, <1>13, <2>2, <3>1 DEF Cached
  <2> QED BY <2>1, <2>2
<1>14. /\ X \subseteq dnode_map /\ m \notin X /\ 0 \notin X /\ Closed(D, X)
       /\ \A j \in dnode_map : \A p \in DOMAIN D[j].child_dir :
            D[j].child_dir[p] \in X => j \in X \/ (j = m /\ p = k)
       /\ \A j \in subs : ddir[j] = D[j]
       /\ \A T \in SUBSET DNode : t \in T /\ Closed(D, T) => X \subseteq T
  <2>1. k \in DOMAIN curr_dir.child_dir /\ t = curr_dir.child_dir[k]
        /\ subs = Subtree(Range(Dirs[t].child_dir))
    BY <1>3 DEF subs
  <2> DEFINE Z == {t} \cup subs
             n == curr_dir.dir_num
  <2>2. Z = {t} \cup subs /\ n = curr_dir.dir_num
    OBVIOUS
  <2> HIDE DEF t, Z, n
  <2>3. /\ Z \subseteq dnode_map /\ n \notin Z /\ 0 \notin Z /\ Closed(Dirs, Z)
        /\ \A j \in dnode_map : \A p \in DOMAIN Dirs[j].child_dir :
             Dirs[j].child_dir[p] \in Z => j \in Z \/ (j = n /\ p = k)
        /\ \A j \in subs : ddir[j] = Dirs[j]
        /\ \A T \in SUBSET DNode : t \in T /\ Closed(Dirs, T) => Z \subseteq T
    BY ONLY <1>2, <2>1, <2>2, SubtreeOnDisk
  <2> QED BY <2>3 DEF Z, n
<1>15. gone = UNION {Range(D[i].child_file) : i \in X}
  <2>1. Range(top.child_file) = Range(D[t].child_file)
    BY <1>3
  <2>2. UNION {Range(ddir[i].child_file) : i \in subs} = UNION {Range(D[i].child_file) : i \in subs}
    BY <1>14
  <2> HIDE DEF t, D
  <2> QED BY <2>1, <2>2
<1>16. ASSUME NEW f \in gone PROVE f \in FNode /\ dfile[f] = F[f]
  <2>1. PICK i \in X : f \in Range(D[i].child_file)
    BY <1>15
  <2>2. PICK p \in DOMAIN D[i].child_file : f = D[i].child_file[p]
    BY <2>1 DEF Range
  <2>3. i \in dnode_map /\ i # m
    BY <1>14
  <2>4. FilesOnce(D, dnode_map) /\ FilesExact(D, dnode_map, fnode_map) /\ fnode_map \subseteq FNode
    BY <1>10 DEF IsTree, Typed
  <2>5. f \in FNode
    BY <2>2, <2>3, <2>4 DEF FilesExact
  <2>6. ASSUME NEW q \in DOMAIN c.child_file, f = c.child_file[q] PROVE FALSE
    BY <1>10, <2>2, <2>3, <2>4, <2>6 DEF FilesOnce
  <2>7. f \notin Range(c.child_file)
    BY <2>6 DEF Range
  <2> QED BY <1>2, <2>5, <2>7 DEF Cached
<1>17. UNION {Range(dfile[f].block) : f \in gone} = UNION {Range(F[f].block) : f \in gone}
  <2> HIDE DEF gone, F
  <2> QED BY <1>16
<1> DEFINE mb == blk_map
           mf == fnode_map
           md == dnode_map
<1>18. Pruned(D, E, F, md, mf, mb, m, k, t, X, gone)
  <2>1. /\ E[m].child_dir = RemoveAt(D[m].child_dir, k) /\ E[m].child_file = D[m].child_file
        /\ E[m].dir_num = D[m].dir_num /\ E[m].dir_name = D[m].dir_name
        /\ E[m].parent = D[m].parent
    BY <1>7, <1>10, <1>11 DEF r
  <2>2. k \in DOMAIN D[m].child_dir /\ t = D[m].child_dir[k] /\ t \in X
    BY <1>3, <1>10
  <2>3. \A i \in DNode : i # m /\ i # t => E[i] = D[i]
    BY <1>13
  <2> HIDE DEF m, t, X, D, F, gone
  <2> QED BY <1>10, <1>11, <1>14, <1>15, <2>1, <2>2, <2>3 DEF Pruned
<1>19. IsTree(E, F, md \ X, mf \ gone, mb \ UNION {Range(F[f].block) : f \in gone})
  <2> HIDE DEF m, t, X, D, F, gone
  <2> QED BY ONLY <1>10, <1>18, Rmdir
<1>20. dnode_map' = md \ X /\ fnode_map' = mf \ gone
       /\ blk_map' = mb \ UNION {Range(F[f].block) : f \in gone}
  BY <1>1, <1>3, <1>17
<1>21. e.dir_num \in dnode_map' /\ Len(B) = Len(e.child_dir)
       /\ Len(buff_file_node') = Len(e.child_file) /\ buff_file_node' \in Seq(FileRec)
  <2>1. buff_file_node \in Seq(FileRec) /\ Len(buff_file_node) = Len(c.child_file)
    BY <1>2 DEF Cached
  <2> HIDE DEF X
  <2> QED BY <1>0, <1>5, <1>6, <1>7, <1>10, <1>14, <1>20, <2>1
<1>22. IsTree(Dirs', Files', dnode_map', fnode_map', blk_map')
  <2> HIDE DEF X, gone
  <2> QED BY <1>12, <1>19, <1>20 DEF E
<1>23. Kept'
  BY <1>0, <1>6, <1>7, <1>21, <1>22, StillUp DEF e, B
<1>24. \A T \in SUBSET DNode : t \in T /\ Closed(D, T) => X \subseteq T
  BY <1>14
<1> HIDE DEF X, gone, t
<1> QED BY <1>12, <1>18, <1>20, <1>23, <1>24 DEF E, k
-----------------------------------------------------------------------------
(* cd, exit and restart move the tree between memory and disk. *)

(* open_dir of a directory of the tree D, F that is on the disk. *)
LEMMA Reopened ==
  ASSUME NEW D, NEW F, NEW md, NEW mf, NEW mb, IsTree(D, F, md, mf, mb),
         NEW n \in md, up' = TRUE, ddir' = D, dfile' = F, init_flag' = 1,
         dnode_map' = md, fnode_map' = mf, blk_map' = mb, OpenDir(n, D, F)
  PROVE  Kept' /\ Dirs' = D /\ Files' = F /\ curr_dir'.dir_num = n
<1>1. /\ D \in [DNode -> DirRec] /\ F \in [FNode -> FileRec]
      /\ md \subseteq DNode /\ n \in DNode
      /\ Rooted(D, md) /\ DirsOnce(D, md) /\ FilesOnce(D, md) /\ DirLinks(D, md)
  BY DEF IsTree, Typed
<1>2. D[n].dir_num = n /\ Distinct(D[n].child_dir) /\ Distinct(D[n].child_file)
  BY <1>1 DEF DirLinks, Distinct, DirsOnce, FilesOnce
<1>3. \A p \in DOMAIN D[n].child_dir : D[n].child_dir[p] # n
  BY ONLY <1>1, n \in md, NoLoop
<1> DEFINE b == buff_dir_node'
           e == buff_file_node'
           c == curr_dir'
<1>4. /\ c = D[n] /\ b = [k \in DOMAIN D[n].child_dir |-> D[D[n].child_dir[k]]]
      /\ e = [k \in DOMAIN D[n].child_file |-> F[D[n].child_file[k]]]
  BY DEF OpenDir
<1> HIDE DEF b, e, c
<1>5. /\ ViewD(D[n], b, D) = D /\ ViewF(D[n], e, F) = F
      /\ D[n] \in DirRec /\ b \in Seq(DirRec) /\ e \in Seq(FileRec)
      /\ Len(b) = Len(D[n].child_dir) /\ Len(e) = Len(D[n].child_file)
  BY ONLY <1>1, <1>2, <1>3, <1>4, Opened
<1>6. Dirs' = D /\ Files' = F
  <2>1. Dirs' = ViewD(c, b, D) /\ Files' = ViewF(c, e, F)
    BY DEF Dirs, Files, c, b, e
  <2> QED BY <1>4, <1>5, <2>1
<1>7. TreeInv'
  BY <1>6 DEF TreeInv, MarkedDirs, MarkedFiles, MarkedBlks
<1>8. CacheInv'
  BY <1>2, <1>4, <1>5 DEF CacheInv, MarkedDirs, c, b, e
<1>9. DiskInv'
  <2>1. D[0].dir_num = 0
    BY <1>1 DEF Rooted, DirLinks
  <2> QED BY <1>1, <2>1 DEF DiskInv, Buffered
<1> QED BY <1>2, <1>4, <1>6, <1>7, <1>8, <1>9 DEF Kept, c

(* save_dir and open_dir: the entries of the old directory are on the disk  *)
(* when those of the new one are read.                                      *)
LEMMA SwitchesTo ==
  ASSUME FileInv, up, NEW n, n \in dnode_map, SwitchTo(n)
  PROVE  /\ Kept' /\ Dirs' = Dirs /\ Files' = Files /\ curr_dir'.dir_num = n
         /\ UNCHANGED <<up, dnode_map, fnode_map>>
<1> DEFINE D == Dirs
           F == Files
           md == dnode_map
           mf == fnode_map
           mb == blk_map
<1>1. IsTree(D, F, md, mf, mb)
  BY IsCached DEF Cached
<1>2. SavedDirs(ddir, curr_dir.dir_num) = D /\ SavedFiles = F
  BY Saved
<1>3. /\ ddir' = D /\ dfile' = F /\ init_flag' = 1 /\ OpenDir(n, D, F)
      /\ up' = TRUE /\ dnode_map' = md /\ fnode_map' = mf /\ blk_map' = mb
  <2>1. up = TRUE
    BY DEF FileInv, DiskInv
  <2> HIDE DEF D, F
  <2> QED BY <1>2, <2>1 DEF SwitchTo
<1> HIDE DEF D, F, md, mf, mb
<1>4. n \in md
  BY DEF md
<1>5. Kept' /\ Dirs' = D /\ Files' = F /\ curr_dir'.dir_num = n
  BY ONLY <1>1, <1>3, <1>4, Reopened
<1> QED BY <1>5 DEF D, F, SwitchTo

(* A directory other than the root is an entry of its parent. *)
LEMMA HasParent ==
  ASSUME NEW D, NEW md, md \subseteq DNode, Rooted(D, md), DirLinks(D, md),
         NEW c \in md, c # 0
  PROVE  /\ D[c].parent \in md
         /\ \E p \in DOMAIN D[D[c].parent].child_dir : D[D[c].parent].child_dir[p] = c
<1> DEFINE T == md \ {c}
<1>1. PICK j \in md : \E p \in DOMAIN D[j].child_dir : D[j].child_dir[p] = c
  <2>1. SUFFICES ASSUME \A j \in md : \A p \in DOMAIN D[j].child_dir : D[j].child_dir[p] # c
                 PROVE  FALSE
    OBVIOUS
  <2>2. 0 \in T /\ T \in SUBSET DNode
    BY DEF Rooted
  <2>3. Closed(D, T)
    BY <2>1 DEF Rooted, Closed
  <2>4. md \subseteq T
    <3> HIDE DEF T
    <3> QED BY <2>2, <2>3 DEF Rooted
  <2> QED BY <2>4
<1> QED BY <1>1 DEF DirLinks

LEMMA ChangeDirUp ==
  ASSUME FileInv, change_dir_up
  PROVE  /\ Kept' /\ Dirs' = Dirs /\ Files' = Files /\ UNCHANGED <<up, dnode_map, fnode_map>>
         /\ curr_dir'.dir_num \in dnode_map
         /\ \E p \in DOMAIN Dirs[curr_dir'.dir_num].child_dir :
              Dirs[curr_dir'.dir_num].child_dir[p] = curr_dir.dir_num
<1> DEFINE D == Dirs
           md == dnode_map
           c == curr_dir.dir_num
<1>1. up /\ c # 0 /\ SwitchTo(curr_dir.parent)
  BY DEF change_dir_up
<1>2. Cached
  BY <1>1, IsCached
<1>3. D[c] = curr_dir /\ c \in md /\ md \subseteq DNode /\ Rooted(D, md) /\ DirLinks(D, md)
  BY <1>2 DEF Cached, IsTree, Typed
<1>4. /\ D[c].parent \in md
      /\ \E p \in DOMAIN D[D[c].parent].child_dir : D[D[c].parent].child_dir[p] = c
  <2> HIDE DEF D, md, c
  <2> QED BY ONLY <1>1, <1>3, HasParent
<1>5. /\ Kept' /\ Dirs' = Dirs /\ Files' = Files /\ curr_dir'.dir_num = curr_dir.parent
      /\ UNCHANGED <<up, dnode_map, fnode_map>>
  BY <1>1, <1>3, <1>4, SwitchesTo
<1> QED BY <1>3, <1>4, <1>5

LEMMA ChangeDir ==
  ASSUME FileInv, NEW name, change_dir(name)
  PROVE  /\ Kept' /\ Dirs' = Dirs /\ Files' = Files /\ UNCHANGED <<up, dnode_map, fnode_map>>
         /\ curr_dir'.dir_num \in dnode_map
         /\ \E p \in DOMAIN curr_dir.child_dir : curr_dir.child_dir[p] = curr_dir'.dir_num
<1>1. up /\ DirIndex(name) # 0 /\ SwitchTo(curr_dir.child_dir[DirIndex(name)])
  BY DEF change_dir
<1>2. Cached
  BY <1>1, IsCached
<1>3. curr_dir.child_dir[DirIndex(name)] \in dnode_map
      /\ DirIndex(name) \in DOMAIN curr_dir.child_dir
  BY <1>1, <1>2, DirFound
<1> DEFINE n == curr_dir.child_dir[DirIndex(name)]
<1>4. SwitchTo(n) /\ n \in dnode_map
  BY <1>1, <1>3
<1> HIDE DEF n
<1>5. /\ Kept' /\ Dirs' = Dirs /\ Files' = Files /\ curr_dir'.dir_num = n
      /\ UNCHANGED <<up, dnode_map, fnode_map>>
  BY <1>1, <1>4, SwitchesTo
<1>6. \E p \in DOMAIN curr_dir.child_dir : curr_dir.child_dir[p] = n
  BY <1>3 DEF n
<1> QED BY <1>4, <1>5, <1>6

LEMMA ExitFs ==
  ASSUME FileInv, exit_fs
  PROVE  Kept' /\ Dirs' = Dirs /\ Files' = Files
<1>1. /\ up /\ up' = FALSE /\ dnode_map' = {} /\ fnode_map' = {} /\ blk_map' = {}
      /\ curr_dir' = BlankDir /\ buff_dir_node' = <<>> /\ buff_file_node' = <<>>
      /\ dsuper' = [d |-> dnode_map, f |-> fnode_map, b |-> blk_map]
      /\ ddir' = SavedDirs(OverlaidDirs, curr_dir.dir_num) /\ dfile' = SavedFiles
      /\ init_flag' = 1
  BY DEF exit_fs, Stopped, SavedSuper
<1>2. OverlaidDirs = ddir
  BY <1>1, Overlaid
<1>3. ddir' = Dirs /\ dfile' = Files
  BY <1>1, <1>2, Saved
<1>4. /\ IsTree(Dirs, Files, dnode_map, fnode_map, blk_map)
  BY <1>1, IsCached DEF Cached
<1>5. Dirs' = Dirs /\ Files' = Files /\ MarkedDirs' = dnode_map
      /\ MarkedFiles' = fnode_map /\ MarkedBlks' = blk_map
  <2>1. Dirs' = ddir' /\ Files' = dfile'
    BY <1>1 DEF Dirs, Files
  <2>2. MarkedDirs' = dsuper'.d /\ MarkedFiles' = dsuper'.f /\ MarkedBlks' = dsuper'.b
    BY <1>1 DEF MarkedDirs, MarkedFiles, MarkedBlks, Formatted
  <2> QED BY <1>1, <1>3, <2>1, <2>2
<1>6. TreeInv'
  BY <1>4, <1>5 DEF TreeInv
<1>7. CacheInv'
  <2>1. BlankDir.child_dir = <<>> /\ BlankDir.child_file = <<>>
    BY BlankDirIs
  <2> QED BY <1>1, <2>1 DEF CacheInv
<1>8. DiskInv'
  <2>1. Dirs \in [DNode -> DirRec] /\ Files \in [FNode -> FileRec] /\ Dirs[0].dir_num = 0
    BY <1>4 DEF IsTree, Typed, DirLinks, Rooted
  <2> DEFINE D == Dirs
             F == Files
  <2>2. ddir' = D /\ dfile' = F /\ up' = FALSE /\ init_flag' = 1
    BY <1>1, <1>3
  <2>3. D \in [DNode -> DirRec] /\ F \in [FNode -> FileRec] /\ D[0].dir_num = 0
    BY <2>1
  <2> HIDE DEF D, F
  <2>4. up' \in BOOLEAN
    BY ONLY <2>2, Zenon
  <2>5. init_flag' # Buffered /\ init_flag' # 0 /\ init_flag' \in {0, Buffered, 1}
    BY ONLY <2>2 DEF Buffered
  <2> QED BY ONLY <2>2, <2>3, <2>4, <2>5 DEF DiskInv
<1> QED BY <1>5, <1>6, <1>7, <1>8 DEF Kept

(* The tree of an empty disk: the root. *)
LEMMA OnlyRoot ==
  ASSUME NEW D \in [DNode -> DirRec], NEW F \in [FNode -> FileRec],
         D[0].dir_num = 0, D[0].child_dir = <<>>, D[0].child_file = <<>>
  PROVE  IsTree(D, F, {0}, {}, {})
<1>1. 0 \in DNode
  BY SizesAssumption DEF SizesAssumption, DNode
<1>2. DOMAIN D[0].child_dir = {} /\ DOMAIN D[0].child_file = {} /\ Len(D[0].child_dir) = 0
      /\ Len(D[0].child_file) = 0
  OBVIOUS
<1>3. Typed(D, F, {0}, {}, {})
  BY <1>1 DEF Typed
<1>4. Rooted(D, {0})
  BY <1>2 DEF Rooted, Closed
<1>5. DirsOnce(D, {0}) /\ FilesOnce(D, {0})
  BY <1>2 DEF DirsOnce, FilesOnce
<1>6. FilesExact(D, {0}, {}) /\ BlksOnce(F, {}) /\ BlksExact(F, {}, {})
  BY <1>2 DEF FilesExact, BlksOnce, BlksExact
<1>7. DirLinks(D, {0}) /\ FileLinks(D, F, {0}) /\ NamesOnce(D, F, {0})
  BY <1>2 DEF DirLinks, FileLinks, NamesOnce
<1>8. Fits(D, F, {0}, {})
  BY <1>2, SizesAssumption DEF Fits, SizesAssumption
<1> QED BY <1>3, <1>4, <1>5, <1>6, <1>7, <1>8 DEF IsTree

LEMMA InitFs ==
  ASSUME FileInv, init_fs
  PROVE  Kept'
<1>1. ~up /\ up' = TRUE /\ UNCHANGED <<dsuper, ddir, dfile>>
  BY DEF init_fs
<1>2. /\ ddir \in [DNode -> DirRec] /\ dfile \in [FNode -> FileRec] /\ ddir[0].dir_num = 0
      /\ up \in BOOLEAN /\ 0 \in DNode
  BY SizesAssumption DEF FileInv, DiskInv, DNode, SizesAssumption
<1>3. CASE init_flag = 0
  <2>1. /\ init_flag' = Buffered /\ dnode_map' = {0} /\ fnode_map' = {} /\ blk_map' = {}
        /\ curr_dir' = Root /\ buff_dir_node' = <<>> /\ buff_file_node' = <<>>
    BY <1>3 DEF init_fs
  <2>2. /\ Root \in DirRec /\ Root.dir_num = 0
        /\ Root.child_dir = <<>> /\ Root.child_file = <<>>
    BY BlankDirIs
  <2>3. Dirs' = [i \in DNode |-> IF i = 0 THEN Root ELSE ddir[i]]
    <3>1. Dirs' = ViewD(Root, <<>>, ddir)
      BY <1>1, <2>1 DEF Dirs
    <3>2. Range(Root.child_dir) = {}
      BY <2>2 DEF Range
    <3> QED BY <2>2, <3>1, <3>2 DEF ViewD
  <2>4. Files' = dfile
    <3>1. Files' = ViewF(Root, <<>>, dfile)
      BY <1>1, <2>1 DEF Files
    <3>2. Range(Root.child_file) = {}
      BY <2>2 DEF Range
    <3>3. Files' = [i \in FNode |-> dfile[i]]
      BY <3>1, <3>2 DEF ViewF
    <3> QED BY <1>2, <3>3
  <2> DEFINE D == Dirs'
             F == Files'
  <2>5. /\ D \in [DNode -> DirRec] /\ D[0] = Root /\ F \in [FNode -> FileRec]
    BY <1>2, <2>2, <2>3, <2>4
  <2>6. D[0].dir_num = 0 /\ D[0].child_dir = <<>> /\ D[0].child_file = <<>>
    BY <2>2, <2>5
  <2> HIDE DEF D, F
  <2>7. IsTree(D, F, {0}, {}, {})
    BY ONLY <2>5, <2>6, OnlyRoot
  <2>8. TreeInv'
    BY <1>1, <2>1, <2>7 DEF TreeInv, MarkedDirs, MarkedFiles, MarkedBlks, D, F
  <2>9. CacheInv'
    <3>1. <<>> \in Seq(DirRec) /\ <<>> \in Seq(FileRec)
      BY Empty
    <3> QED BY <1>1, <2>1, <2>2, <3>1 DEF CacheInv, MarkedDirs
  <2>10. DiskInv'
    BY <1>1, <1>2, <2>1 DEF DiskInv, Buffered
  <2> QED BY <2>8, <2>9, <2>10 DEF Kept
<1>4. CASE init_flag = 1
  <2> DEFINE D == ddir
             F == dfile
             md == dsuper.d
             mf == dsuper.f
             mb == dsuper.b
  <2>1. ReadBlkMap = dsuper.b
    BY <1>1, Overlaid
  <2>2. /\ dnode_map' = md /\ fnode_map' = mf /\ blk_map' = mb
        /\ OpenDir(0, D, F) /\ init_flag' = 1
    BY <1>4, <2>1 DEF init_fs
  <2>3. IsTree(D, F, md, mf, mb)
    <3>1. TreeInv
      BY DEF FileInv
    <3> QED BY <1>1, <1>4, <3>1
            DEF TreeInv, Dirs, Files, MarkedDirs, MarkedFiles, MarkedBlks, Formatted
  <2>4. 0 \in md
    BY <2>3 DEF IsTree, Rooted
  <2>5. ddir' = D /\ dfile' = F
    BY <1>1
  <2> HIDE DEF D, F, md, mf, mb
  <2> QED BY ONLY <1>1, <2>2, <2>3, <2>4, <2>5, Reopened
<1> QED BY <1>3, <1>4 DEF init_fs
-----------------------------------------------------------------------------
(* The invariant *)

LEMMA InitInv ==
  ASSUME Init
  PROVE  FileInv
<1>1. /\ up = FALSE /\ dnode_map = {} /\ fnode_map = {} /\ blk_map = {}
      /\ curr_dir = BlankDir /\ buff_dir_node = <<>> /\ buff_file_node = <<>>
      /\ init_flag = 0 /\ dsuper.f = {} /\ dsuper.b = {}
      /\ ddir = [i \in DNode |-> BlankDir] /\ dfile = [i \in FNode |-> BlankFile]
  BY DEF Init
<1>2. /\ BlankDir \in DirRec /\ BlankDir.dir_num = 0
      /\ BlankDir.child_dir = <<>> /\ BlankDir.child_file = <<>> /\ BlankFile \in FileRec
  BY BlankDirIs, BlankFileIs
<1>3. 0 \in DNode
  BY SizesAssumption DEF SizesAssumption, DNode
<1>4. /\ ddir \in [DNode -> DirRec] /\ dfile \in [FNode -> FileRec]
      /\ ddir[0].dir_num = 0 /\ ddir[0].child_dir = <<>> /\ ddir[0].child_file = <<>>
  BY <1>1, <1>2, <1>3
<1> DEFINE D == ddir
           F == dfile
<1>5. IsTree(D, F, {0}, {}, {})
  <2> HIDE DEF D, F
  <2> QED BY <1>4, OnlyRoot DEF D, F
<1>6. TreeInv
  BY <1>1, <1>5 DEF TreeInv, Dirs, Files, MarkedDirs, MarkedFiles, MarkedBlks, Formatted
<1>7. CacheInv
  BY <1>1, <1>2 DEF CacheInv
<1>8. DiskInv
  <2>1. up \in BOOLEAN
    BY ONLY <1>1, Zenon
  <2>2. init_flag # Buffered /\ init_flag \in {0, Buffered, 1}
    BY ONLY <1>1 DEF Buffered
  <2> QED BY <1>1, <1>4, <2>1, <2>2 DEF DiskInv
<1>9. Room
  BY <1>1 DEF Room, MarkedBlks
<1> QED BY <1>6, <1>7, <1>8, <1>9 DEF FileInv

LEMMA StepInv ==
  ASSUME FileInv, [Next]_vars
  PROVE  Kept'
<1>1. CASE init_fs
  BY <1>1, InitFs
<1>2. CASE exit_fs
  BY <1>2, ExitFs
<1>3. CASE change_dir_up
  BY <1>3, ChangeDirUp
<1>4. ASSUME NEW name \in Names, create_dir(name) PROVE Kept'
  BY <1>4, CreateDir
<1>5. ASSUME NEW name \in Names, create_file(name) PROVE Kept'
  BY <1>5, CreateFile
<1>6. ASSUME NEW name \in Names, del_dir(name) PROVE Kept'
  BY <1>6, DelDir
<1>7. ASSUME NEW name \in Names, del_file(name) PROVE Kept'
  BY <1>7, DelFile
<1>8. ASSUME NEW name \in Names, change_dir(name) PROVE Kept'
  BY <1>8, ChangeDir
<1>9. ASSUME NEW name \in Names, NEW size \in WriteSizes, write_file(name, size) PROVE Kept'
  BY <1>9, WriteFile
<1>10. CASE UNCHANGED vars
  <2>1. UNCHANGED <<up, dnode_map, fnode_map, blk_map, curr_dir, buff_dir_node,
                    buff_file_node, init_flag, dsuper, ddir, dfile>>
    BY <1>10 DEF vars, memVars, diskVars
  <2>2. Dirs' = Dirs /\ Files' = Files /\ MarkedDirs' = MarkedDirs
        /\ MarkedFiles' = MarkedFiles /\ MarkedBlks' = MarkedBlks
    BY <2>1 DEF Dirs, Files, MarkedDirs, MarkedFiles, MarkedBlks, Formatted
  <2>3. TreeInv'
    BY <2>2 DEF FileInv, TreeInv
  <2>4. CacheInv'
    BY <2>1, <2>2 DEF FileInv, CacheInv
  <2>5. DiskInv'
    BY <2>1 DEF FileInv, DiskInv
  <2> QED BY <2>3, <2>4, <2>5 DEF Kept
<1> QED BY <1>1, <1>2, <1>3, <1>4, <1>5, <1>6, <1>7, <1>8, <1>9, <1>10 DEF Next

(* The tables, the marks, the cache and the disk keep to FileInv as long    *)
(* as the last block is not handed out.                                     *)
LEMMA Invariance == Spec /\ []Room => []FileInv
<1>1. Init => FileInv
  BY InitInv
<1>2. FileInv /\ [Next]_vars /\ Room' => FileInv'
  BY StepInv DEF FileInv, Kept
<1> QED BY <1>1, <1>2, PTL DEF Spec
-----------------------------------------------------------------------------
(* What the properties speak of is the tree of the invariant. *)

LEMMA Views ==
  ASSUME DiskInv
  PROVE  /\ \A i \in DNode : DirView(i) = Dirs[i]
         /\ \A i \in FNode : FileView(i) = Files[i]
  BY DEF DiskInv, DirView, FileView, Dirs, Files, ViewD, ViewF

LEMMA Live ==
  ASSUME FileInv
  PROVE  /\ LiveDirs = MarkedDirs /\ LiveFiles = MarkedFiles /\ LiveBlks = MarkedBlks
<1> DEFINE D == Dirs
           F == Files
           md == MarkedDirs
           mf == MarkedFiles
           mb == MarkedBlks
           S == {0}
           R == LiveDirs
<1>1. IsTree(D, F, md, mf, mb) /\ DiskInv
  BY DEF FileInv, TreeInv
<1>2. /\ \A i \in DNode : DirView(i) = D[i]
      /\ \A i \in FNode : FileView(i) = F[i]
  BY <1>1, Views
<1>3. R = Reached(S, [i \in DNode |-> Range(D[i].child_dir)])
  <2>1. [i \in DNode |-> Range(DirView(i).child_dir)] = [i \in DNode |-> Range(D[i].child_dir)]
    BY <1>2
  <2> HIDE DEF D
  <2> QED BY <2>1 DEF LiveDirs
<1>4. /\ D \in [DNode -> DirRec] /\ md \subseteq DNode /\ mf \subseteq FNode
      /\ Rooted(D, md) /\ FilesExact(D, md, mf) /\ BlksExact(F, mf, mb)
  BY <1>1 DEF IsTree, Typed
<1>5. S \subseteq DNode
  BY SizesAssumption DEF SizesAssumption, DNode
<1> HIDE DEF D, F, md, mf, mb, S, R
<1>6. /\ S \subseteq R /\ R \subseteq DNode /\ Closed(D, R)
      /\ \A T \in SUBSET DNode : S \subseteq T /\ Closed(D, T) => R \subseteq T
  <2>1. D \in [DNode -> DirRec]
    BY <1>4
  <2> QED BY ONLY <1>3, <1>5, <2>1, ReachedIs
<1>7. R = md
  <2>1. 0 \in R
    BY <1>6 DEF S
  <2>2. md \subseteq R
    BY <1>4, <1>6, <2>1 DEF Rooted
  <2>3. S \subseteq md
    BY <1>4 DEF Rooted, S
  <2>4. R \subseteq md
    BY <1>4, <1>6, <2>3 DEF Rooted
  <2> QED BY <2>2, <2>4
<1>8. LiveFiles = mf
  <2>1. LiveFiles = UNION {Range(D[i].child_file) : i \in md}
    <3>1. \A i \in md : DirView(i) = D[i]
      BY <1>2, <1>4
    <3> QED BY <1>7, <3>1 DEF LiveFiles, R
  <2>2. UNION {Range(D[i].child_file) : i \in md} = mf
    BY <1>4 DEF FilesExact, Range
  <2> QED BY <2>1, <2>2
<1>9. LiveBlks = mb
  <2>1. LiveBlks = UNION {Range(F[f].block) : f \in mf}
    <3>1. \A f \in mf : FileView(f) = F[f]
      BY <1>2, <1>4
    <3> QED BY <1>8, <3>1 DEF LiveBlks
  <2>2. UNION {Range(F[f].block) : f \in mf} = mb
    BY <1>4 DEF BlksExact, Range
  <2> QED BY <2>1, <2>2
<1> QED BY <1>7, <1>8, <1>9 DEF md, mf, mb, R

(* The entries of a node of the tree, counted. *)
LEMMA Counted ==
  ASSUME FileInv
  PROVE  /\ \A i \in LiveDirs :
              /\ DirView(i) = Dirs[i]
              /\ DOMAIN Dirs[i].child_dir = 1 .. Len(Dirs[i].child_dir)
              /\ DOMAIN Dirs[i].child_file = 1 .. Len(Dirs[i].child_file)
              /\ Len(Dirs[i].child_dir) \in Nat /\ Len(Dirs[i].child_file) \in Nat
         /\ \A f \in LiveFiles : FileView(f) = Files[f]
         /\ LiveDirs \subseteq DNode /\ LiveFiles \subseteq FNode
         /\ IsTree(Dirs, Files, LiveDirs, LiveFiles, LiveBlks)
<1>1. IsTree(Dirs, Files, LiveDirs, LiveFiles, LiveBlks) /\ DiskInv
  BY Live DEF FileInv, TreeInv
<1>2. /\ Dirs \in [DNode -> DirRec] /\ LiveDirs \subseteq DNode /\ LiveFiles \subseteq FNode
  BY <1>1 DEF IsTree, Typed
<1>3. /\ \A i \in DNode : DirView(i) = Dirs[i]
      /\ \A i \in FNode : FileView(i) = Files[i]
  BY <1>1, Views
<1>4. ASSUME NEW i \in DNode
      PROVE  /\ DOMAIN Dirs[i].child_dir = 1 .. Len(Dirs[i].child_dir)
             /\ DOMAIN Dirs[i].child_file = 1 .. Len(Dirs[i].child_file)
             /\ Len(Dirs[i].child_dir) \in Nat /\ Len(Dirs[i].child_file) \in Nat
  <2>1. Dirs[i].child_dir \in Seq(DNode) /\ Dirs[i].child_file \in Seq(FNode)
    <3>1. Dirs[i] \in DirRec
      BY <1>2
    <3> QED BY <3>1, DirFields
  <2> QED BY <2>1
<1> QED BY <1>1, <1>2, <1>3, <1>4

(* Every variable keeps its type, however commands, exits and restarts      *)
(* follow each other, as long as the last block, whose mark lies over the   *)
(* root's number, is not handed out: the cached entries match the counts of *)
(* curr_dir, and no table of the tree outgrows its array.                   *)
THEOREM FileTypeOK == Spec /\ []Room => []TypeOK
<1>1. ASSUME FileInv PROVE TypeOK
  <2>1. IsTree(Dirs, Files, LiveDirs, LiveFiles, LiveBlks)
    BY <1>1, Counted
  <2>2. /\ \A i \in LiveDirs : DirView(i) = Dirs[i]
        /\ \A f \in LiveFiles : FileView(f) = Files[f]
    BY <1>1, Counted
  <2>3. /\ \A i \in LiveDirs : /\ Len(DirView(i).child_dir) <= MaxDirs
                               /\ Len(DirView(i).child_file) <= MaxFiles
        /\ \A f \in LiveFiles : /\ Len(FileView(f).block) \in 1 .. BlkPerFile
                                /\ FileView(f).size_rest \in 0 .. BlkSize
    BY <2>1, <2>2 DEF IsTree, Fits
  <2>4. dnode_map \subseteq DNode /\ fnode_map \subseteq FNode /\ blk_map \subseteq Blk
    <3>1. CASE up
      BY <1>1, <3>1 DEF FileInv, TreeInv, IsTree, Typed, MarkedDirs, MarkedFiles, MarkedBlks
    <3>2. CASE ~up
      BY <1>1, <3>2 DEF FileInv, CacheInv
    <3> QED BY <3>1, <3>2
  <2> QED BY <1>1, <2>3, <2>4 DEF TypeOK, FileInv, CacheInv, DiskInv
<1> QED BY <1>1, Invariance, PTL

(* The bitmaps mark exactly what the tree uses: create_dir, create_file and *)
(* write_file cannot hand out what is in use, and what del_dir and del_file *)
(* take from the tree can be used again, though del_dir walks the disk and  *)
(* the bitmaps are only saved at exit.                                      *)
THEOREM FileBitmapsExact == Spec /\ []Room => []BitmapsExact
<1>1. ASSUME FileInv PROVE BitmapsExact
  BY <1>1, Live DEF BitmapsExact, MarkedDirs, MarkedFiles, MarkedBlks
<1> QED BY <1>1, Invariance, PTL

(* No directory or file node is an entry twice, and the root is none. *)
THEOREM FileNoNodeShared == Spec /\ []Room => []NoNodeShared
<1>1. ASSUME FileInv PROVE NoNodeShared
  <2>1. /\ \A i \in LiveDirs :
             /\ DirView(i) = Dirs[i]
             /\ DOMAIN Dirs[i].child_dir = 1 .. Entries(i)
             /\ DOMAIN Dirs[i].child_file = 1 .. FEntries(i)
    BY <1>1, Counted DEF Entries, FEntries
  <2>2. DirsOnce(Dirs, LiveDirs) /\ FilesOnce(Dirs, LiveDirs)
    BY <1>1, Counted DEF IsTree
  <2>3. ASSUME NEW i \in LiveDirs, NEW j \in LiveDirs,
               NEW p \in 1 .. Entries(i), NEW q \in 1 .. Entries(j)
        PROVE  /\ DirView(i).child_dir[p] = DirView(j).child_dir[q] => i = j /\ p = q
               /\ DirView(i).child_dir[p] # 0
    <3>1. DirView(i) = Dirs[i] /\ DirView(j) = Dirs[j]
          /\ p \in DOMAIN Dirs[i].child_dir /\ q \in DOMAIN Dirs[j].child_dir
      BY ONLY <2>1, <2>3
    <3> QED BY ONLY <2>2, <2>3, <3>1 DEF DirsOnce
  <2>4. ASSUME NEW i \in LiveDirs, NEW j \in LiveDirs,
               NEW p \in 1 .. FEntries(i), NEW q \in 1 .. FEntries(j)
        PROVE  DirView(i).child_file[p] = DirView(j).child_file[q] => i = j /\ p = q
    <3>1. DirView(i) = Dirs[i] /\ DirView(j) = Dirs[j]
          /\ p \in DOMAIN Dirs[i].child_file /\ q \in DOMAIN Dirs[j].child_file
      BY ONLY <2>1, <2>4
    <3> QED BY ONLY <2>2, <2>4, <3>1 DEF FilesOnce
  <2> QED BY <2>3, <2>4 DEF NoNodeShared
<1> QED BY <1>1, Invariance, PTL

(* No block belongs to two files, or twice to one. *)
THEOREM FileNoBlockShared == Spec /\ []Room => []NoBlockShared
<1>1. ASSUME FileInv PROVE NoBlockShared
  <2>1. \A f \in LiveFiles : FileView(f) = Files[f]
    BY <1>1, Counted
  <2>2. BlksOnce(Files, LiveFiles)
    BY <1>1, Counted DEF IsTree
  <2> QED BY <2>1, <2>2 DEF NoBlockShared, BlksOnce
<1> QED BY <1>1, Invariance, PTL

(* Two lists without repetition that share nothing make one. *)
LEMMA JoinInjective ==
  ASSUME NEW m \in Nat, NEW n \in Nat, NEW a, NEW b,
         a = [k \in 1 .. m |-> a[k]], b = [k \in 1 .. n |-> b[k]],
         \A p, q \in 1 .. m : a[p] = a[q] => p = q,
         \A p, q \in 1 .. n : b[p] = b[q] => p = q,
         \A p \in 1 .. m, q \in 1 .. n : a[p] # b[q]
  PROVE  IsInjective(a \o b)
<1> DEFINE S == {a[k] : k \in 1 .. m} \cup {b[k] : k \in 1 .. n}
<1>1. a \in Seq(S) /\ b \in Seq(S) /\ Len(a) = m /\ Len(b) = n
  <2>1. a \in [1 .. m -> S] /\ b \in [1 .. n -> S]
    OBVIOUS
  <2> HIDE DEF S
  <2> QED BY <2>1
<1> HIDE DEF S
<1>2. /\ a \o b \in Seq(S) /\ Len(a \o b) = m + n
      /\ \A p \in 1 .. m + n : (a \o b)[p] = IF p <= m THEN a[p] ELSE b[p - m]
  <2>1. /\ a \o b \in Seq(S) /\ Len(a \o b) = Len(a) + Len(b)
        /\ \A p \in 1 .. Len(a) + Len(b) :
             (a \o b)[p] = IF p <= Len(a) THEN a[p] ELSE b[p - Len(a)]
    BY ONLY <1>1, ConcatProperties
  <2> QED BY ONLY <1>1, <2>1
<1> DEFINE c == a \o b
<1>3. DOMAIN c = 1 .. m + n
  BY <1>2
<1> HIDE DEF c
<1>4. ASSUME NEW p \in 1 .. m + n, NEW q \in 1 .. m + n, c[p] = c[q] PROVE p = q
  <2>1. c[p] = (IF p <= m THEN a[p] ELSE b[p - m]) /\ c[q] = (IF q <= m THEN a[q] ELSE b[q - m])
    BY <1>2 DEF c
  <2>2. /\ p <= m => p \in 1 .. m
        /\ q <= m => q \in 1 .. m
        /\ ~ (p <= m) => p - m \in 1 .. n
        /\ ~ (q <= m) => q - m \in 1 .. n
        /\ p - m = q - m => p = q
    OBVIOUS
  <2> QED BY <1>4, <2>1, <2>2
<1> QED BY <1>3, <1>4 DEF IsInjective, c

(* cd .. leads back, and a name finds one entry: numbers, parents and names *)
(* are those of a tree, and no directory has a name twice.                  *)
THEOREM FileTreeLinks == Spec /\ []Room => []TreeLinks
<1>1. ASSUME FileInv PROVE TreeLinks
  <2> DEFINE D == Dirs
             F == Files
             md == LiveDirs
             mf == LiveFiles
  <2>1. IsTree(D, F, md, mf, LiveBlks) /\ md \subseteq DNode /\ mf \subseteq FNode
    BY <1>1, Counted
  <2>2. /\ \A i \in md :
             /\ DirView(i) = D[i]
             /\ DOMAIN D[i].child_dir = 1 .. Len(D[i].child_dir)
             /\ DOMAIN D[i].child_file = 1 .. Len(D[i].child_file)
             /\ Len(D[i].child_dir) \in Nat /\ Len(D[i].child_file) \in Nat
        /\ \A f \in mf : FileView(f) = F[f]
    BY <1>1, Counted
  <2>3. /\ Rooted(D, md) /\ FilesExact(D, md, mf) /\ DirLinks(D, md) /\ FileLinks(D, F, md)
        /\ NamesOnce(D, F, md)
    BY <2>1 DEF IsTree
  <2> HIDE DEF D, F, md, mf
  <2>4. ASSUME NEW i \in md
        PROVE  LET d == DirView(i)
                   names == [k \in 1 .. Len(d.child_dir) |-> DirView(d.child_dir[k]).dir_name]
                     \o [k \in 1 .. Len(d.child_file) |-> FileView(d.child_file[k]).file_name]
               IN  /\ up \/ i # 0 => d.dir_num = i
                   /\ \A c \in Range(d.child_dir) : DirView(c).parent = i
                   /\ \A f \in Range(d.child_file) : /\ FileView(f).parent = i
                                                     /\ FileView(f).file_num = f
                   /\ IsInjective(names)
    <3> DEFINE d == D[i]
               m == Len(d.child_dir)
               n == Len(d.child_file)
               a == [k \in 1 .. m |-> D[d.child_dir[k]].dir_name]
               b == [k \in 1 .. n |-> F[d.child_file[k]].file_name]
    <3>1. /\ DirView(i) = d /\ m \in Nat /\ n \in Nat
          /\ DOMAIN d.child_dir = 1 .. m /\ DOMAIN d.child_file = 1 .. n
      BY <2>2
    <3>2. \A k \in 1 .. m : DirView(d.child_dir[k]) = D[d.child_dir[k]]
      BY <2>2, <2>3, <3>1 DEF Rooted, Closed
    <3>3. \A k \in 1 .. n : FileView(d.child_file[k]) = F[d.child_file[k]]
      BY <2>2, <2>3, <3>1 DEF FilesExact
    <3>4. /\ a = [k \in 1 .. m |-> DirView(d.child_dir[k]).dir_name]
          /\ b = [k \in 1 .. n |-> FileView(d.child_file[k]).file_name]
      BY <3>2, <3>3
    <3>5. /\ \A p, q \in 1 .. m : a[p] = a[q] => p = q
          /\ \A p, q \in 1 .. n : b[p] = b[q] => p = q
          /\ \A p \in 1 .. m, q \in 1 .. n : a[p] # b[q]
      BY <2>3, <3>1 DEF NamesOnce
    <3>6. a = [k \in 1 .. m |-> a[k]] /\ b = [k \in 1 .. n |-> b[k]]
      OBVIOUS
    <3>7. IsInjective(a \o b)
      <4> HIDE DEF a, b, m, n
      <4> QED BY ONLY <3>1, <3>5, <3>6, JoinInjective
    <3>8. d.dir_num = i
      BY <2>3 DEF DirLinks
    <3>9. ASSUME NEW c \in Range(d.child_dir) PROVE DirView(c).parent = i
      <4>1. PICK k \in DOMAIN d.child_dir : c = d.child_dir[k]
        BY DEF Range
      <4> QED BY <2>3, <3>1, <3>2, <4>1 DEF DirLinks
    <3>10. ASSUME NEW f \in Range(d.child_file)
           PROVE  FileView(f).parent = i /\ FileView(f).file_num = f
      <4>1. PICK k \in DOMAIN d.child_file : f = d.child_file[k]
        BY DEF Range
      <4> QED BY <2>3, <3>1, <3>3, <4>1 DEF FileLinks
    <3> HIDE DEF d, a, b
    <3> QED BY <3>1, <3>4, <3>7, <3>8, <3>9, <3>10 DEF m, n
  <2> QED BY <2>4 DEF TreeLinks, md
<1> QED BY <1>1, Invariance, PTL
-----------------------------------------------------------------------------
(* Blocks to spare *)

(* The file nodes cannot use up the blocks. *)
Spare == FNodeNum * BlkPerFile < BlkNum

(* Files of at most BlkPerFile blocks each do not have them all. *)
LEMMA BlkLeft ==
  ASSUME NEW D, NEW F, NEW md, NEW mf, NEW mb, IsTree(D, F, md, mf, mb), Spare
  PROVE  mb # Blk
<1> SUFFICES ASSUME mb = Blk PROVE FALSE
  OBVIOUS
<1> DEFINE P == FNode \X (1 .. BlkPerFile)
           I == {F[z[1]].block[z[2]] : z \in P}
<1>1. FNodeNum \in Nat /\ BlkNum \in Nat /\ BlkPerFile \in Nat
      /\ FNodeNum # 0 /\ BlkNum # 0 /\ BlkPerFile # 0
  BY SizesAssumption DEF SizesAssumption
<1>2. IsFiniteSet(FNode) /\ Cardinality(FNode) = FNodeNum
  <2>1. /\ IsFiniteSet(0 .. FNodeNum - 1)
        /\ Cardinality(0 .. FNodeNum - 1) =
             IF 0 > FNodeNum - 1 THEN 0 ELSE (FNodeNum - 1) - 0 + 1
    BY <1>1, FS_Interval
  <2> QED BY <1>1, <2>1 DEF FNode
<1>3. IsFiniteSet(1 .. BlkPerFile) /\ Cardinality(1 .. BlkPerFile) = BlkPerFile
  <2>1. /\ IsFiniteSet(1 .. BlkPerFile)
        /\ Cardinality(1 .. BlkPerFile) = IF 1 > BlkPerFile THEN 0 ELSE BlkPerFile - 1 + 1
    BY <1>1, FS_Interval
  <2> QED BY <1>1, <2>1
<1>4. IsFiniteSet(Blk) /\ Cardinality(Blk) = BlkNum
  <2>1. /\ IsFiniteSet(0 .. BlkNum - 1)
        /\ Cardinality(0 .. BlkNum - 1) = IF 0 > BlkNum - 1 THEN 0 ELSE (BlkNum - 1) - 0 + 1
    BY <1>1, FS_Interval
  <2> QED BY <1>1, <2>1 DEF Blk
<1>5. IsFiniteSet(P) /\ Cardinality(P) = FNodeNum * BlkPerFile
  BY <1>2, <1>3, FS_Product
<1>6. mb \subseteq I
  <2>1. BlksExact(F, mf, mb) /\ Fits(D, F, md, mf) /\ mf \subseteq FNode
        /\ F \in [FNode -> FileRec]
    BY DEF IsTree, Typed
  <2>2. SUFFICES ASSUME NEW b \in mb PROVE b \in I
    OBVIOUS
  <2>3. PICK f \in mf : \E p \in DOMAIN F[f].block : F[f].block[p] = b
    BY <2>1 DEF BlksExact
  <2>4. PICK p \in DOMAIN F[f].block : F[f].block[p] = b
    BY <2>3
  <2>5. F[f].block \in Seq(Blk) /\ f \in FNode
    <3>1. F[f] \in FileRec
      BY <2>1
    <3> QED BY <2>1, <3>1, FileFields
  <2>6. Len(F[f].block) \in 1 .. BlkPerFile
    BY <2>1 DEF Fits
  <2>7. p \in 1 .. BlkPerFile
    BY <1>1, <2>5, <2>6
  <2>8. <<f, p>> \in P
    BY <2>5, <2>7
  <2> QED BY <2>4, <2>8
<1>7. IsFiniteSet(I) /\ Cardinality(I) <= Cardinality(P)
  <2> DEFINE g == [z \in P |-> F[z[1]].block[z[2]]]
  <2>1. I = {g[z] : z \in P} /\ I = Range(g) /\ DOMAIN g = P
    BY DEF Range
  <2> HIDE DEF P, I
  <2>2. g \in Surjection(P, I)
    BY <2>1 DEF Surjection, Range
  <2> HIDE DEF g
  <2> QED BY ONLY <1>5, <2>2, FS_Surjection
<1> HIDE DEF I, P
<1>8. Cardinality(mb) <= Cardinality(I) /\ Cardinality(I) \in Nat
  BY ONLY <1>6, <1>7, FS_Subset, FS_CardinalityType
<1>9. BlkNum <= Cardinality(I) /\ Cardinality(I) <= FNodeNum * BlkPerFile
  BY <1>4, <1>5, <1>7, <1>8
<1>10. FNodeNum * BlkPerFile \in Nat
  BY <1>1
<1> DEFINE m == FNodeNum * BlkPerFile
<1>11. m < BlkNum /\ m \in Nat /\ BlkNum <= Cardinality(I) /\ Cardinality(I) <= m
  BY <1>9, <1>10 DEF Spare
<1> HIDE DEF m
<1> QED BY ONLY <1>1, <1>8, <1>11

(* The smallest free block is the last one only when no other is free. *)
LEMMA LastLast ==
  ASSUME blk_map \subseteq Blk, Blk \ blk_map # {}, apply_blk = LastBlk
  PROVE  blk_map \cup {LastBlk} = Blk
<1> DEFINE T == Blk \ blk_map
<1>1. T \subseteq Nat /\ T # {} /\ BlkNum \in Nat
  BY SizesAssumption DEF Blk, SizesAssumption
<1>2. LastBlk \in T /\ \A y \in T : LastBlk <= y
  <2>1. Min(T) \in T /\ \A y \in T : Min(T) <= y
    <3> HIDE DEF T
    <3> QED BY <1>1, Least
  <2> QED BY <2>1 DEF apply_blk
<1>3. ASSUME NEW b \in T PROVE b = LastBlk
  <2>1. b \in 0 .. BlkNum - 1 /\ BlkNum - 1 <= b
    BY <1>2 DEF Blk, LastBlk
  <2> QED BY <1>1, <2>1 DEF LastBlk
<1> QED BY <1>2, <1>3

LEMMA RoomStays ==
  ASSUME FileInv, [Next]_vars, Spare
  PROVE  Room'
<1>1. Kept'
  BY StepInv
<1>2. MarkedBlks' # Blk
  <2> DEFINE D == Dirs'
             F == Files'
             md == MarkedDirs'
             mf == MarkedFiles'
             mb == MarkedBlks'
  <2>1. IsTree(D, F, md, mf, mb)
    BY <1>1 DEF Kept, TreeInv
  <2> HIDE DEF D, F, md, mf, mb
  <2>2. mb # Blk
    BY ONLY <2>1, Spare, BlkLeft
  <2> QED BY <2>2 DEF mb
<1>3. LastBlk \notin MarkedBlks /\ MarkedBlks \subseteq Blk
  BY DEF FileInv, Room, TreeInv, IsTree, Typed
<1> DEFINE Grows == \/ MarkedBlks' \subseteq MarkedBlks
                     \/ /\ up /\ Blk \ blk_map # {}
                        /\ MarkedBlks' = blk_map \cup {apply_blk}
<1>4. Grows
  <2>1. CASE init_fs
    <3>1. up' /\ ~up /\ (blk_map' = {} \/ blk_map' = ReadBlkMap)
      BY <2>1 DEF init_fs
    <3>2. ReadBlkMap = dsuper.b
      BY <3>1, Overlaid
    <3> QED BY <3>1, <3>2 DEF MarkedBlks
  <2>2. CASE exit_fs
    <3>1. up /\ ~up' /\ dsuper'.b = blk_map
      BY <2>2 DEF exit_fs, Stopped, SavedSuper
    <3> QED BY <3>1 DEF MarkedBlks
  <2>3. ASSUME up, up', \/ blk_map' \subseteq blk_map
                        \/ Blk \ blk_map # {} /\ blk_map' = blk_map \cup {apply_blk}
        PROVE  Grows
    BY <2>3 DEF MarkedBlks
  <2>4. CASE change_dir_up
    BY <2>3, <2>4 DEF change_dir_up, SwitchTo
  <2>5. ASSUME NEW name \in Names, create_dir(name) PROVE Grows
    BY <2>3, <2>5 DEF create_dir
  <2>6. ASSUME NEW name \in Names, create_file(name) PROVE Grows
    BY <2>3, <2>6 DEF create_file
  <2>7. ASSUME NEW name \in Names, del_dir(name) PROVE Grows
    BY <2>3, <2>7 DEF del_dir
  <2>8. ASSUME NEW name \in Names, del_file(name) PROVE Grows
    BY <2>3, <2>8 DEF del_file
  <2>9. ASSUME NEW name \in Names, change_dir(name) PROVE Grows
    BY <2>3, <2>9 DEF change_dir, SwitchTo
  <2>10. ASSUME NEW name \in Names, NEW size \in WriteSizes, write_file(name, size) PROVE Grows
    BY <2>3, <2>10 DEF write_file
  <2>11. CASE UNCHANGED vars
    BY <2>11 DEF MarkedBlks, vars, memVars, diskVars
  <2> QED BY <2>1, <2>2, <2>4, <2>5, <2>6, <2>7, <2>8, <2>9, <2>10, <2>11 DEF Next
<1>5. CASE MarkedBlks' \subseteq MarkedBlks
  BY <1>3, <1>5 DEF Room, LastBlk
<1>6. CASE up /\ Blk \ blk_map # {} /\ MarkedBlks' = blk_map \cup {apply_blk}
  <2>1. blk_map \subseteq Blk /\ LastBlk \notin blk_map
    BY <1>3, <1>6 DEF MarkedBlks
  <2>2. apply_blk # LastBlk
    BY <1>2, <1>6, <2>1, LastLast
  <2>3. LastBlk \notin MarkedBlks'
    BY <1>6, <2>1, <2>2
  <2> QED BY <2>3 DEF Room, LastBlk
<1> QED BY <1>4, <1>5, <1>6

(* With more blocks than the files can use, apply_blk never comes to the    *)
(* last one: the bitmaps count exactly the blocks of the files, so another  *)
(* one is free whenever write_file asks.                                    *)
THEOREM FileRoom ==
  ASSUME Spare
  PROVE  Spec => []Room
<1>1. Init => FileInv
  BY InitInv
<1>2. FileInv /\ [Next]_vars => FileInv'
  BY StepInv, RoomStays DEF FileInv, Kept
<1>3. Spec => []FileInv
  BY <1>1, <1>2, PTL DEF Spec
<1>4. FileInv => Room
  BY DEF FileInv
<1> QED BY <1>3, <1>4, PTL
-----------------------------------------------------------------------------
(* The file system implements TreeFs.  The nodes the user sees are those    *)
(* of the marked part of the two tables.                                    *)

SeenD(D, md) == [i \in md |-> DirSeen(D[i])]
SeenF(F, mf) == [i \in mf |-> FileSeen(F[i])]

LEMMA TreeIs ==
  Kept => /\ TreeDirs = SeenD(Dirs, MarkedDirs) /\ TreeFiles = SeenF(Files, MarkedFiles)
          /\ MarkedDirs \subseteq DNode /\ MarkedFiles \subseteq FNode
<1> SUFFICES ASSUME Kept PROVE
         /\ TreeDirs = SeenD(Dirs, MarkedDirs) /\ TreeFiles = SeenF(Files, MarkedFiles)
         /\ MarkedDirs \subseteq DNode /\ MarkedFiles \subseteq FNode
  OBVIOUS
<1>1. DiskInv /\ MarkedDirs \subseteq DNode /\ MarkedFiles \subseteq FNode
  BY DEF Kept, TreeInv, IsTree, Typed
<1>2. /\ \A i \in MarkedDirs : DirView(i) = Dirs[i]
      /\ \A i \in MarkedFiles : FileView(i) = Files[i]
  BY <1>1, Views
<1>3. TreeDirs = SeenD(Dirs, MarkedDirs)
  BY <1>2 DEF TreeDirs, SeenD
<1>4. TreeFiles = SeenF(Files, MarkedFiles)
  BY <1>2 DEF TreeFiles, SeenF
<1> QED BY <1>1, <1>3, <1>4

(* The same after a step. *)
LEMMA TreeIsThen ==
  Kept' => /\ TreeDirs' = SeenD(Dirs', MarkedDirs') /\ TreeFiles' = SeenF(Files', MarkedFiles')
           /\ MarkedDirs' \subseteq DNode /\ MarkedFiles' \subseteq FNode
<1> DEFINE A == /\ TreeDirs = SeenD(Dirs, MarkedDirs) /\ TreeFiles = SeenF(Files, MarkedFiles)
                /\ MarkedDirs \subseteq DNode /\ MarkedFiles \subseteq FNode
<1>1. Kept => A
  BY TreeIs
<1>2. A' => /\ TreeDirs' = SeenD(Dirs', MarkedDirs') /\ TreeFiles' = SeenF(Files', MarkedFiles')
            /\ MarkedDirs' \subseteq DNode /\ MarkedFiles' \subseteq FNode
  BY DEF SeenD, SeenF
<1> HIDE DEF A
<1>3. Kept' => A'
  BY <1>1, PTL
<1> QED BY <1>2, <1>3

(* A running program and its tree. *)
TreeUp ==
  /\ TreeDirs = SeenD(Dirs, dnode_map) /\ TreeFiles = SeenF(Files, fnode_map)
  /\ TreeCwd = curr_dir.dir_num /\ Formatted
  /\ curr_dir.dir_num \in dnode_map /\ Dirs[curr_dir.dir_num] = curr_dir

LEMMA RunningTree ==
  ASSUME FileInv, up
  PROVE  TreeUp /\ Cached
<1>1. Cached
  BY IsCached
<1>2. Kept
  BY DEF Kept, FileInv
<1>3. TreeDirs = SeenD(Dirs, dnode_map) /\ TreeFiles = SeenF(Files, fnode_map)
  BY <1>2, TreeIs DEF MarkedDirs, MarkedFiles
<1>4. Formatted
  BY DEF FileInv, DiskInv, Formatted
<1> QED BY <1>1, <1>3, <1>4 DEF TreeUp, Cached, TreeCwd

LEMMA RunningTreeThen ==
  ASSUME Kept', up'
  PROVE  /\ TreeDirs' = SeenD(Dirs', dnode_map') /\ TreeFiles' = SeenF(Files', fnode_map')
         /\ TreeCwd' = curr_dir'.dir_num /\ Formatted'
<1>1. TreeDirs' = SeenD(Dirs', dnode_map') /\ TreeFiles' = SeenF(Files', fnode_map')
  BY TreeIsThen DEF MarkedDirs, MarkedFiles
<1>2. Formatted'
  BY DEF Kept, DiskInv, Formatted
<1> QED BY <1>1, <1>2 DEF TreeCwd

(* A name finds the same entry in the cache and in the tree. *)
LEMMA SameEntry ==
  ASSUME TreeUp, Cached, NEW name
  PROVE  /\ Tree!DirNamed(TreeCwd, name) = DirIndex(name)
         /\ Tree!FileNamed(TreeCwd, name) = FileIndex(name)
<1> DEFINE c == curr_dir
           I == {i \in 1 .. Len(buff_dir_node) : buff_dir_node[i].dir_name = name}
           J == {i \in 1 .. Len(buff_file_node) : buff_file_node[i].file_name = name}
<1>1. DirIndex(name) = (IF I # {} THEN Min(I) ELSE 0)
      /\ FileIndex(name) = (IF J # {} THEN Min(J) ELSE 0)
  BY DEF DirIndex, FileIndex, SelectInSeq
<1>2. TreeDirs[TreeCwd] = DirSeen(c)
  BY DEF TreeUp, SeenD
<1>3. TreeDirs[TreeCwd].subs = c.child_dir /\ TreeDirs[TreeCwd].files = c.child_file
  BY <1>2 DEF DirSeen
<1> DEFINE K == {i \in 1 .. Len(c.child_dir) : TreeDirs[c.child_dir[i]].name = name}
           M == {i \in 1 .. Len(c.child_file) : TreeFiles[c.child_file[i]].name = name}
<1>4. Tree!DirNamed(TreeCwd, name) = (IF K # {} THEN Min(K) ELSE 0)
      /\ Tree!FileNamed(TreeCwd, name) = (IF M # {} THEN Min(M) ELSE 0)
  BY <1>3 DEF Tree!DirNamed, Tree!FileNamed, Tree!SelectInSeq, Tree!Min, Min
<1>5. /\ c.child_dir \in Seq(DNode) /\ c.child_file \in Seq(FNode)
      /\ Len(buff_dir_node) = Len(c.child_dir) /\ Len(buff_file_node) = Len(c.child_file)
  BY DirFields DEF Cached
<1>6. ASSUME NEW i \in 1 .. Len(c.child_dir)
      PROVE  TreeDirs[c.child_dir[i]].name = buff_dir_node[i].dir_name
  <2>1. i \in DOMAIN c.child_dir
    BY <1>5
  <2>2. c.child_dir[i] \in dnode_map /\ Dirs[c.child_dir[i]] = buff_dir_node[i]
    BY <2>1 DEF Cached
  <2>3. TreeDirs[c.child_dir[i]] = DirSeen(buff_dir_node[i])
    BY <2>2 DEF TreeUp, SeenD
  <2> QED BY <2>3 DEF DirSeen
<1>7. ASSUME NEW i \in 1 .. Len(c.child_file)
      PROVE  TreeFiles[c.child_file[i]].name = buff_file_node[i].file_name
  <2>1. i \in DOMAIN c.child_file
    BY <1>5
  <2>2. c.child_file[i] \in fnode_map /\ Files[c.child_file[i]] = buff_file_node[i]
    BY <2>1 DEF Cached
  <2>3. TreeFiles[c.child_file[i]] = FileSeen(buff_file_node[i])
    BY <2>2 DEF TreeUp, SeenF
  <2> QED BY <2>3 DEF FileSeen
<1>8. K = I /\ M = J
  BY <1>5, <1>6, <1>7
<1> HIDE DEF I, J, K, M
<1> QED BY <1>1, <1>4, <1>8

(* The blocks of the tree's files are those the bitmap marks. *)
LEMMA SameBlks ==
  ASSUME TreeUp, Cached
  PROVE  Tree!UsedBlks = blk_map
<1>1. DOMAIN TreeFiles = fnode_map /\ \A f \in fnode_map : TreeFiles[f].block = Files[f].block
  BY DEF TreeUp, SeenF, FileSeen
<1>2. BlksExact(Files, fnode_map, blk_map)
  BY DEF Cached, IsTree
<1>3. Tree!UsedBlks = UNION {Range(Files[f].block) : f \in fnode_map}
  BY <1>1 DEF Tree!UsedBlks, Tree!Range, Range
<1> QED BY <1>2, <1>3 DEF BlksExact, Range

(* What is seen of a directory with another list of subdirectories or       *)
(* files, and of the tree with that directory in it.                        *)
WithSubs(d, s)  == [name |-> d.dir_name, subs |-> s, files |-> d.child_file]
WithFiles(d, s) == [name |-> d.dir_name, subs |-> d.child_dir, files |-> s]
PutSubs(T, c, s)  == [T EXCEPT ![c].subs = s]
PutFiles(T, c, s) == [T EXCEPT ![c].files = s]

LEMMA SubsReplaced ==
  ASSUME NEW D, NEW md, NEW c \in md, NEW s, NEW P, P = PutSubs(SeenD(D, md), c, s)
  PROVE  P = [i \in md |-> IF i = c THEN WithSubs(D[c], s) ELSE DirSeen(D[i])]
<1> DEFINE T == SeenD(D, md)
<1>1. T = [i \in md |-> DirSeen(D[i])] /\ DOMAIN T = md /\ T[c] = DirSeen(D[c])
  BY DEF SeenD
<1> HIDE DEF T
<1>2. [T[c] EXCEPT !.subs = s] = WithSubs(D[c], s)
  <2>1. T[c] = [name |-> D[c].dir_name, subs |-> D[c].child_dir, files |-> D[c].child_file]
    BY <1>1 DEF DirSeen
  <2> QED BY ONLY <2>1 DEF WithSubs
<1>3. P = [i \in DOMAIN T |-> IF i = c THEN [T[c] EXCEPT !.subs = s] ELSE T[i]]
  <2>1. P = [T EXCEPT ![c] = [T[c] EXCEPT !.subs = s]]
    BY DEF PutSubs, T
  <2> DEFINE v == [T[c] EXCEPT !.subs = s]
  <2> HIDE DEF v
  <2>2. P = [T EXCEPT ![c] = v]
    BY <2>1 DEF v
  <2>3. P = [i \in DOMAIN T |-> IF i = c THEN v ELSE T[i]]
    BY ONLY <1>1, <2>2
  <2> QED BY <2>3 DEF v
<1> DEFINE w == WithSubs(D[c], s)
<1>4. P = [i \in md |-> IF i = c THEN w ELSE T[i]]
  BY <1>1, <1>2, <1>3
<1> HIDE DEF w
<1>5. P = [i \in md |-> IF i = c THEN w ELSE DirSeen(D[i])]
  BY ONLY <1>1, <1>4
<1> QED BY <1>5 DEF w

LEMMA FilesReplaced ==
  ASSUME NEW D, NEW md, NEW c \in md, NEW s, NEW P, P = PutFiles(SeenD(D, md), c, s)
  PROVE  P = [i \in md |-> IF i = c THEN WithFiles(D[c], s) ELSE DirSeen(D[i])]
<1> DEFINE T == SeenD(D, md)
<1>1. T = [i \in md |-> DirSeen(D[i])] /\ DOMAIN T = md /\ T[c] = DirSeen(D[c])
  BY DEF SeenD
<1> HIDE DEF T
<1>2. [T[c] EXCEPT !.files = s] = WithFiles(D[c], s)
  <2>1. T[c] = [name |-> D[c].dir_name, subs |-> D[c].child_dir, files |-> D[c].child_file]
    BY <1>1 DEF DirSeen
  <2> QED BY ONLY <2>1 DEF WithFiles
<1>3. P = [i \in DOMAIN T |-> IF i = c THEN [T[c] EXCEPT !.files = s] ELSE T[i]]
  <2>1. P = [T EXCEPT ![c] = [T[c] EXCEPT !.files = s]]
    BY DEF PutFiles, T
  <2> DEFINE v == [T[c] EXCEPT !.files = s]
  <2> HIDE DEF v
  <2>2. P = [T EXCEPT ![c] = v]
    BY <2>1 DEF v
  <2>3. P = [i \in DOMAIN T |-> IF i = c THEN v ELSE T[i]]
    BY ONLY <1>1, <2>2
  <2> QED BY <2>3 DEF v
<1> DEFINE w == WithFiles(D[c], s)
<1>4. P = [i \in md |-> IF i = c THEN w ELSE T[i]]
  BY <1>1, <1>2, <1>3
<1> HIDE DEF w
<1>5. P = [i \in md |-> IF i = c THEN w ELSE DirSeen(D[i])]
  BY ONLY <1>1, <1>4
<1> QED BY <1>5 DEF w

LEMMA MkdirTree ==
  ASSUME FileInv, NEW name \in Names, create_dir(name)
  PROVE  Tree!Mkdir(name)
<1> DEFINE D == Dirs
           E == Dirs'
           md == dnode_map
           c == curr_dir.dir_num
           n == apply_d_node
           s == Append(D[c].child_dir, n)
<1>1. up /\ up' /\ check_name(name) /\ dnode_map' = md \cup {n} /\ fnode_map' = fnode_map
      /\ curr_dir'.dir_num = c
  <2>1. up /\ up' = up /\ check_name(name) /\ dnode_map' = md \cup {n} /\ fnode_map' = fnode_map
        /\ curr_dir' = [curr_dir EXCEPT !.child_dir = Append(curr_dir.child_dir, n)]
    BY DEF create_dir
  <2>2. curr_dir \in DirRec
    BY <2>1, IsCached DEF Cached
  <2>3. curr_dir'.dir_num = c
    <3> DEFINE e == curr_dir'
               r == Append(curr_dir.child_dir, n)
    <3>1. e = [curr_dir EXCEPT !.child_dir = r]
      BY <2>1
    <3> HIDE DEF r
    <3> QED BY <2>2, <3>1 DEF DirRec
  <2> QED BY <2>1, <2>3
<1>2. TreeUp /\ Cached
  BY <1>1, RunningTree
<1>3. /\ Kept' /\ Files' = Files /\ E[n].dir_name = name
      /\ Made(D, E, Files, md, fnode_map, blk_map, c, n)
  BY CreateDir
<1>4. /\ TreeDirs' = SeenD(E, md \cup {n}) /\ TreeFiles' = TreeFiles
      /\ TreeCwd' = TreeCwd /\ Formatted' = Formatted
  <2>1. /\ TreeDirs' = SeenD(Dirs', dnode_map') /\ TreeFiles' = SeenF(Files', fnode_map')
        /\ TreeCwd' = curr_dir'.dir_num /\ Formatted'
    BY <1>1, <1>3, RunningTreeThen
  <2> QED BY <1>1, <1>2, <1>3, <2>1 DEF TreeUp, Formatted
<1>5. Tree!Fresh(name)
  BY <1>1, <1>2, SameEntry DEF Tree!Fresh, check_name
<1>6. /\ TreeDirs = SeenD(D, md) /\ TreeCwd = c /\ c \in md /\ Formatted
      /\ DOMAIN TreeDirs = md /\ TreeDirs[c] = DirSeen(D[c])
  BY <1>2 DEF TreeUp, SeenD
<1>7. TreeDirs[c].subs = D[c].child_dir
  BY <1>6 DEF DirSeen
<1>8. Len(TreeDirs[TreeCwd].subs) < MaxDirs
  BY <1>3, <1>6, <1>7 DEF Made
<1>9. n \in (0 .. DNodeNum - 1) \ DOMAIN TreeDirs
  BY <1>3, <1>6 DEF Made, DNode
<1> HIDE DEF D, E, n, md, c
<1> DEFINE f == PutSubs(TreeDirs, c, s)
           v == Tree!NewDir(name)
<1>10. f = [i \in md |-> IF i = c THEN WithSubs(D[c], s) ELSE DirSeen(D[i])]
  <2>1. f = PutSubs(SeenD(D, md), c, s)
    BY <1>6
  <2> HIDE DEF f, s
  <2> QED BY ONLY <1>6, <2>1, SubsReplaced
<1>11. SeenD(E, md \cup {n}) =
         [i \in md \cup {n} |-> IF i = n THEN v
                                ELSE IF i = c THEN WithSubs(D[c], s) ELSE DirSeen(D[i])]
  <2>1. DirSeen(E[n]) = v
    BY <1>3 DEF Made, DirSeen, Tree!NewDir
  <2>2. DirSeen(E[c]) = WithSubs(D[c], s)
    BY <1>3 DEF Made, DirSeen, WithSubs
  <2>3. \A i \in md : i # c => E[i] = D[i]
    <3>1. md \subseteq DNode /\ n \notin md
      BY <1>2, <1>3 DEF Cached, IsTree, Typed, md, Made
    <3> QED BY <1>3, <3>1 DEF Made
  <2> HIDE DEF v, s
  <2> QED BY <2>1, <2>2, <2>3 DEF SeenD
<1>12. TreeDirs' = Tree!Put([TreeDirs EXCEPT ![TreeCwd].subs = Append(TreeDirs[TreeCwd].subs, n)],
                            n, Tree!NewDir(name))
  <2>1. f = [TreeDirs EXCEPT ![TreeCwd].subs = Append(TreeDirs[TreeCwd].subs, n)]
    BY <1>6, <1>7 DEF PutSubs
  <2> HIDE DEF f, v, s
  <2>2. SeenD(E, md \cup {n}) = [y \in DOMAIN f \cup {n} |-> IF y = n THEN v ELSE f[y]]
    BY <1>10, <1>11
  <2>3. TreeDirs' = Tree!Put(f, n, v)
    BY <1>4, <2>2 DEF Tree!Put
  <2> QED BY <2>1, <2>3 DEF v
<1> QED BY <1>4, <1>5, <1>6, <1>8, <1>9, <1>12 DEF Tree!Mkdir

(* The current directory's number does not change with its entries. *)
LEMMA SameNum ==
  ASSUME NEW d \in DirRec, NEW s
  PROVE  /\ [d EXCEPT !.child_dir = s].dir_num = d.dir_num
         /\ [d EXCEPT !.child_file = s].dir_num = d.dir_num
  BY DEF DirRec

LEMMA TouchTree ==
  ASSUME FileInv, NEW name \in Names, create_file(name)
  PROVE  Tree!Touch(name)
<1> DEFINE D == Dirs
           E == Dirs'
           F == Files
           G == Files'
           md == dnode_map
           mf == fnode_map
           c == curr_dir.dir_num
           n == apply_f_node
           b == apply_blk
           s == Append(D[c].child_file, n)
<1>1. up /\ up' /\ check_name(name) /\ fnode_map' = mf \cup {n} /\ dnode_map' = md
      /\ curr_dir'.dir_num = c
  <2>1. up /\ up' = up /\ check_name(name) /\ fnode_map' = mf \cup {n} /\ dnode_map' = md
        /\ curr_dir' = [curr_dir EXCEPT !.child_file = Append(curr_dir.child_file, n)]
    BY DEF create_file
  <2>2. curr_dir \in DirRec
    BY <2>1, IsCached DEF Cached
  <2>3. curr_dir'.dir_num = c
    BY <2>1, <2>2, SameNum
  <2> QED BY <2>1, <2>3
<1>2. TreeUp /\ Cached
  BY <1>1, RunningTree
<1>3. /\ Kept' /\ G[n].file_name = name
      /\ Touched(D, E, F, G, md, mf, blk_map, c, n, b)
  BY CreateFile
<1>4. /\ TreeDirs' = SeenD(E, md) /\ TreeFiles' = SeenF(G, mf \cup {n})
      /\ TreeCwd' = TreeCwd /\ Formatted' = Formatted
  <2>1. /\ TreeDirs' = SeenD(Dirs', dnode_map') /\ TreeFiles' = SeenF(Files', fnode_map')
        /\ TreeCwd' = curr_dir'.dir_num /\ Formatted'
    BY <1>1, <1>3, RunningTreeThen
  <2> QED BY <1>1, <1>2, <1>3, <2>1 DEF TreeUp, Formatted
<1>5. Tree!Fresh(name)
  BY <1>1, <1>2, SameEntry DEF Tree!Fresh, check_name
<1>6. /\ TreeDirs = SeenD(D, md) /\ TreeFiles = SeenF(F, mf) /\ TreeCwd = c /\ c \in md
      /\ Formatted /\ DOMAIN TreeFiles = mf /\ TreeDirs[c] = DirSeen(D[c])
  BY <1>2 DEF TreeUp, SeenD, SeenF
<1>7. TreeDirs[c].files = D[c].child_file
  BY <1>6 DEF DirSeen
<1>8. Len(TreeDirs[TreeCwd].files) < MaxFiles
  BY <1>3, <1>6, <1>7 DEF Touched
<1>9. n \in (0 .. FNodeNum - 1) \ DOMAIN TreeFiles
  BY <1>3, <1>6 DEF Touched, FNode
<1>10. b \in (0 .. BlkNum - 1) \ Tree!UsedBlks
  BY <1>2, <1>3, SameBlks DEF Touched, Blk
<1>11. md \subseteq DNode /\ mf \subseteq FNode
  BY <1>2 DEF Cached, IsTree, Typed
<1> HIDE DEF D, E, F, G, n, md, mf, c, b
<1> DEFINE f == PutFiles(TreeDirs, c, s)
           v == [name |-> name, block |-> <<b>>, rest |-> 0]
<1>12. f = [i \in md |-> IF i = c THEN WithFiles(D[c], s) ELSE DirSeen(D[i])]
  <2>1. f = PutFiles(SeenD(D, md), c, s)
    BY <1>6
  <2> HIDE DEF f, s
  <2> QED BY ONLY <1>6, <2>1, FilesReplaced
<1>13. SeenD(E, md) = f
  <2>1. DirSeen(E[c]) = WithFiles(D[c], s)
    BY <1>3 DEF Touched, DirSeen, WithFiles
  <2>2. \A i \in md : i # c => E[i] = D[i]
    BY <1>3, <1>11 DEF Touched
  <2> HIDE DEF f, s
  <2> QED BY <1>12, <2>1, <2>2 DEF SeenD
<1>14. TreeDirs' = [TreeDirs EXCEPT ![TreeCwd].files = Append(TreeDirs[TreeCwd].files, n)]
  <2>1. f = [TreeDirs EXCEPT ![TreeCwd].files = Append(TreeDirs[TreeCwd].files, n)]
    BY <1>6, <1>7 DEF PutFiles
  <2> HIDE DEF f
  <2> QED BY <1>4, <1>13, <2>1
<1>15. TreeFiles' = Tree!Put(TreeFiles, n, v)
  <2>1. FileSeen(G[n]) = v
    BY <1>3 DEF Touched, FileSeen
  <2>2. \A i \in mf : i # n /\ G[i] = F[i]
    BY <1>3, <1>11 DEF Touched
  <2> HIDE DEF v
  <2>3. TreeFiles' = [i \in mf \cup {n} |-> IF i = n THEN v ELSE FileSeen(F[i])]
    BY <1>4, <2>1, <2>2 DEF SeenF
  <2>4. \A i \in mf : TreeFiles[i] = FileSeen(F[i])
    BY <1>6 DEF SeenF
  <2> QED BY <1>6, <2>3, <2>4 DEF Tree!Put
<1> QED BY <1>4, <1>5, <1>6, <1>8, <1>9, <1>10, <1>14, <1>15 DEF Tree!Touch

LEMMA RmTree ==
  ASSUME FileInv, NEW name \in Names, del_file(name)
  PROVE  Tree!Rm(name)
<1> DEFINE D == Dirs
           E == Dirs'
           F == Files
           G == Files'
           md == dnode_map
           mf == fnode_map
           c == curr_dir.dir_num
           k == FileIndex(name)
           x == curr_dir.child_file[k]
           s == RemoveAt(D[c].child_file, k)
<1>1. up /\ up' /\ k # 0 /\ dnode_map' = md /\ curr_dir'.dir_num = c
  <2>1. up /\ up' = up /\ k # 0 /\ dnode_map' = md
        /\ curr_dir' = [curr_dir EXCEPT !.child_file = RemoveAt(curr_dir.child_file, k)]
    BY DEF del_file
  <2>2. curr_dir \in DirRec
    BY <2>1, IsCached DEF Cached
  <2>3. curr_dir'.dir_num = c
    BY <2>1, <2>2, SameNum
  <2> QED BY <2>1, <2>3
<1>2. TreeUp /\ Cached
  BY <1>1, RunningTree
<1>3. Kept' /\ fnode_map' = mf \ {x} /\ Removal(D, E, F, G, md, mf, blk_map, c, k, x)
  BY DelFile
<1>4. /\ TreeDirs' = SeenD(E, md) /\ TreeFiles' = SeenF(G, mf \ {x})
      /\ TreeCwd' = TreeCwd /\ Formatted' = Formatted
  <2>1. /\ TreeDirs' = SeenD(Dirs', dnode_map') /\ TreeFiles' = SeenF(Files', fnode_map')
        /\ TreeCwd' = curr_dir'.dir_num /\ Formatted'
    BY <1>1, <1>3, RunningTreeThen
  <2> QED BY <1>1, <1>2, <1>3, <2>1 DEF TreeUp, Formatted
<1>5. Tree!FileNamed(TreeCwd, name) = k
  BY <1>2, SameEntry
<1>6. /\ TreeDirs = SeenD(D, md) /\ TreeFiles = SeenF(F, mf) /\ TreeCwd = c /\ c \in md
      /\ Formatted /\ DOMAIN TreeFiles = mf /\ TreeDirs[c] = DirSeen(D[c]) /\ D[c] = curr_dir
  BY <1>2 DEF TreeUp, SeenD, SeenF
<1>7. TreeDirs[c].files = D[c].child_file /\ TreeDirs[c].files[k] = x
  BY <1>6 DEF DirSeen
<1>8. md \subseteq DNode /\ mf \subseteq FNode
  BY <1>2 DEF Cached, IsTree, Typed
<1> HIDE DEF D, E, F, G, k, x, md, mf, c
<1> DEFINE f == PutFiles(TreeDirs, c, s)
<1>9. f = [i \in md |-> IF i = c THEN WithFiles(D[c], s) ELSE DirSeen(D[i])]
  <2>1. f = PutFiles(SeenD(D, md), c, s)
    BY <1>6
  <2> HIDE DEF f, s
  <2> QED BY ONLY <1>6, <2>1, FilesReplaced
<1>10. SeenD(E, md) = f
  <2>1. DirSeen(E[c]) = WithFiles(D[c], s)
    BY <1>3 DEF Removal, DirSeen, WithFiles
  <2>2. \A i \in md : i # c => E[i] = D[i]
    BY <1>3, <1>8 DEF Removal
  <2> HIDE DEF f, s
  <2> QED BY <1>9, <2>1, <2>2 DEF SeenD
<1>11. TreeDirs' = [TreeDirs EXCEPT ![TreeCwd].files = Tree!RemoveAt(TreeDirs[TreeCwd].files, k)]
  <2>1. Tree!RemoveAt(TreeDirs[TreeCwd].files, k) = s
    BY <1>6, <1>7 DEF Tree!RemoveAt, RemoveAt
  <2> HIDE DEF s
  <2>2. f = [TreeDirs EXCEPT ![TreeCwd].files = Tree!RemoveAt(TreeDirs[TreeCwd].files, k)]
    BY <1>6, <2>1 DEF PutFiles
  <2> HIDE DEF f
  <2> QED BY <1>4, <1>10, <2>2
<1>12. TreeFiles' = [g \in DOMAIN TreeFiles \ {x} |-> TreeFiles[g]]
  <2>1. \A i \in mf \ {x} : G[i] = F[i]
    BY <1>3, <1>8 DEF Removal
  <2>2. TreeFiles' = [i \in mf \ {x} |-> FileSeen(F[i])]
    BY <1>4, <2>1 DEF SeenF
  <2>3. \A i \in mf : TreeFiles[i] = FileSeen(F[i])
    BY <1>6 DEF SeenF
  <2> QED BY <1>6, <2>2, <2>3
<1>13. TreeDirs[TreeCwd].files[k] = x /\ k # 0
  BY <1>1, <1>6, <1>7 DEF k
<1> QED BY <1>4, <1>5, <1>6, <1>11, <1>12, <1>13 DEF Tree!Rm

(* The subtree del_dir takes is the least one. *)
LEMMA UnderIs ==
  ASSUME NEW D, NEW md, md \subseteq DNode, TreeDirs = SeenD(D, md),
         NEW X, X \subseteq md, NEW t \in X, Closed(D, X),
         \A T \in SUBSET DNode : t \in T /\ Closed(D, T) => X \subseteq T
  PROVE  Tree!Under(t) = X
<1> DEFINE closed == {T \in SUBSET md :
                        t \in T /\ \A j \in T : Tree!Range(TreeDirs[j].subs) \subseteq T}
<1>1. DOMAIN TreeDirs = md /\ \A j \in md : TreeDirs[j].subs = D[j].child_dir
  BY DEF SeenD, DirSeen
<1>2. Tree!Under(t) = {j \in md : \A T \in closed : j \in T}
  BY <1>1 DEF Tree!Under
<1>3. ASSUME NEW T \in closed PROVE X \subseteq T
  <2>1. T \subseteq md /\ t \in T /\ \A j \in T : Tree!Range(TreeDirs[j].subs) \subseteq T
    OBVIOUS
  <2>2. ASSUME NEW j \in T, NEW p \in DOMAIN D[j].child_dir PROVE D[j].child_dir[p] \in T
    BY <1>1, <2>1 DEF Tree!Range
  <2>3. Closed(D, T)
    <3> HIDE DEF closed
    <3> QED BY <2>2, Zenon DEF Closed
  <2>4. T \in SUBSET DNode
    BY <2>1
  <2> QED BY <2>1, <2>3, <2>4
<1>4. X \in closed
  <2>1. ASSUME NEW j \in X PROVE Tree!Range(TreeDirs[j].subs) \subseteq X
    BY <1>1 DEF Tree!Range, Closed
  <2> QED BY <2>1
<1> HIDE DEF closed
<1> QED BY <1>2, <1>3, <1>4

LEMMA RmdirTree ==
  ASSUME FileInv, NEW name \in Names, del_dir(name)
  PROVE  Tree!Rmdir(name)
<1> DEFINE D == Dirs
           E == Dirs'
           F == Files
           md == dnode_map
           mf == fnode_map
           c == curr_dir.dir_num
           k == DirIndex(name)
<1>1. up /\ up' /\ k # 0 /\ curr_dir'.dir_num = c
  <2>1. up /\ up' = up /\ k # 0
        /\ curr_dir' = [curr_dir EXCEPT !.child_dir = RemoveAt(curr_dir.child_dir, k)]
    BY DEF del_dir
  <2>2. curr_dir \in DirRec
    BY <2>1, IsCached DEF Cached
  <2>3. curr_dir'.dir_num = c
    BY <2>1, <2>2, SameNum
  <2> QED BY <2>1, <2>3
<1>2. TreeUp /\ Cached
  BY <1>1, RunningTree
<1>3. /\ Kept' /\ Files' = F
      /\ \E t, X, gone :
           /\ dnode_map' = md \ X /\ fnode_map' = mf \ gone
           /\ Pruned(D, E, F, md, mf, blk_map, c, k, t, X, gone)
           /\ \A T \in SUBSET DNode : t \in T /\ Closed(D, T) => X \subseteq T
  BY DelDir
<1>4. PICK t, X, gone :
           /\ dnode_map' = md \ X /\ fnode_map' = mf \ gone
           /\ Pruned(D, E, F, md, mf, blk_map, c, k, t, X, gone)
           /\ \A T \in SUBSET DNode : t \in T /\ Closed(D, T) => X \subseteq T
  BY <1>3
<1>5. /\ TreeDirs' = SeenD(E, md \ X) /\ TreeFiles' = SeenF(F, mf \ gone)
      /\ TreeCwd' = TreeCwd /\ Formatted' = Formatted
  <2>1. /\ TreeDirs' = SeenD(Dirs', dnode_map') /\ TreeFiles' = SeenF(Files', fnode_map')
        /\ TreeCwd' = curr_dir'.dir_num /\ Formatted'
    BY <1>1, <1>3, RunningTreeThen
  <2> QED BY <1>1, <1>2, <1>3, <1>4, <2>1 DEF TreeUp, Formatted
<1>6. Tree!DirNamed(TreeCwd, name) = k /\ k # 0
  BY <1>1, <1>2, SameEntry
<1>7. /\ TreeDirs = SeenD(D, md) /\ TreeFiles = SeenF(F, mf) /\ TreeCwd = c /\ c \in md
      /\ Formatted /\ DOMAIN TreeFiles = mf /\ DOMAIN TreeDirs = md
      /\ \A i \in md : TreeDirs[i] = DirSeen(D[i])
      /\ \A i \in mf : TreeFiles[i] = FileSeen(F[i])
  BY <1>2 DEF TreeUp, SeenD, SeenF
<1>8. md \subseteq DNode /\ mf \subseteq FNode
  BY <1>2 DEF Cached, IsTree, Typed
<1> HIDE DEF D, E, F, k, md, mf, c
<1>9. TreeDirs[c].subs = D[c].child_dir /\ TreeDirs[c].subs[k] = t
  <2>1. TreeDirs[c].subs = D[c].child_dir
    BY <1>7 DEF DirSeen
  <2> QED BY <1>4, <2>1 DEF Pruned
<1>10. Tree!Under(t) = X
  <2>1. X \subseteq md /\ t \in X /\ Closed(D, X)
    BY <1>4 DEF Pruned
  <2>2. \A T \in SUBSET DNode : t \in T /\ Closed(D, T) => X \subseteq T
    BY <1>4
  <2>3. TreeDirs = SeenD(D, md)
    BY <1>7
  <2> QED BY ONLY <1>8, <2>1, <2>2, <2>3, UnderIs
<1>11. UNION {Tree!Range(TreeDirs[j].files) : j \in X} = gone
  <2>1. X \subseteq md /\ gone = UNION {Range(D[i].child_file) : i \in X}
    BY <1>4 DEF Pruned
  <2>2. \A j \in X : Tree!Range(TreeDirs[j].files) = Range(D[j].child_file)
    BY <1>7, <2>1 DEF DirSeen, Tree!Range, Range
  <2> QED BY <2>1, <2>2
<1> DEFINE s == RemoveAt(D[c].child_dir, k)
<1>12. [TreeDirs[c] EXCEPT !.subs = Tree!RemoveAt(TreeDirs[c].subs, k)] = DirSeen(E[c])
  <2>1. Tree!RemoveAt(TreeDirs[c].subs, k) = s
    BY <1>9 DEF Tree!RemoveAt, RemoveAt
  <2>2. DirSeen(E[c]) = WithSubs(D[c], s)
    BY <1>4 DEF Pruned, DirSeen, WithSubs
  <2>3. TreeDirs[c] = [name |-> D[c].dir_name, subs |-> D[c].child_dir,
                       files |-> D[c].child_file]
    BY <1>7 DEF DirSeen
  <2> HIDE DEF s
  <2>4. [TreeDirs[c] EXCEPT !.subs = s] = WithSubs(D[c], s)
    BY ONLY <2>3 DEF WithSubs
  <2> QED BY <2>1, <2>2, <2>4
<1>13. TreeDirs' = [i \in DOMAIN TreeDirs \ X |->
                      IF i = TreeCwd
                      THEN [TreeDirs[i] EXCEPT !.subs = Tree!RemoveAt(TreeDirs[i].subs, k)]
                      ELSE TreeDirs[i]]
  <2> DEFINE w(i) == [TreeDirs[i] EXCEPT !.subs = Tree!RemoveAt(TreeDirs[i].subs, k)]
  <2>1. w(c) = DirSeen(E[c])
    BY <1>12
  <2>2. \A i \in md \ X : i # c => E[i] = D[i]
    BY <1>4, <1>8 DEF Pruned
  <2> HIDE DEF w
  <2>3. \A i \in md \ X : DirSeen(E[i]) = IF i = c THEN w(i) ELSE TreeDirs[i]
    BY <1>7, <2>1, <2>2
  <2>4. TreeDirs' = [i \in md \ X |-> IF i = c THEN w(i) ELSE TreeDirs[i]]
    BY <1>5, <2>3 DEF SeenD
  <2> QED BY <1>7, <2>4 DEF w
<1>14. TreeFiles' = [f \in DOMAIN TreeFiles \ gone |-> TreeFiles[f]]
  BY <1>5, <1>7 DEF SeenF
<1>15. TreeDirs[TreeCwd].subs[k] = t
  BY <1>7, <1>9
<1> QED BY <1>5, <1>6, <1>7, <1>10, <1>11, <1>13, <1>14, <1>15 DEF Tree!Rmdir

(* What is seen of a file with other blocks and another fill. *)
WithBlks(f, s, r) == [name |-> f.file_name, block |-> s, rest |-> r]
PutRest(T, x, r) == [T EXCEPT ![x].rest = r]
PutBlks(T, x, s, r) == [T EXCEPT ![x].block = s, ![x].rest = r]

LEMMA RestReplaced ==
  ASSUME NEW F, NEW mf, NEW x \in mf, NEW T, T = SeenF(F, mf), NEW s, NEW r,
         NEW P, P = PutRest(T, x, r), NEW Q, Q = PutBlks(T, x, s, r)
  PROVE  /\ P = [i \in mf |-> IF i = x THEN WithBlks(F[x], F[x].block, r) ELSE T[i]]
         /\ Q = [i \in mf |-> IF i = x THEN WithBlks(F[x], s, r) ELSE T[i]]
<1>1. DOMAIN T = mf /\ T = [i \in mf |-> T[i]]
      /\ T[x] = [name |-> F[x].file_name, block |-> F[x].block, rest |-> F[x].size_rest]
  BY DEF SeenF, FileSeen
<1> DEFINE u == [T[x] EXCEPT !.rest = r]
           v == [T[x] EXCEPT !.block = s]
           w == [v EXCEPT !.rest = r]
<1>2. u = WithBlks(F[x], F[x].block, r)
  BY ONLY <1>1 DEF WithBlks
<1>3. v = [name |-> F[x].file_name, block |-> s, rest |-> F[x].size_rest]
  BY ONLY <1>1
<1>4. w = WithBlks(F[x], s, r)
  <2> HIDE DEF v
  <2> QED BY ONLY <1>3 DEF WithBlks
<1>5. [T EXCEPT ![x].rest = r] = [T EXCEPT ![x] = u]
  OBVIOUS
<1>6. [T EXCEPT ![x].block = s, ![x].rest = r] = [T EXCEPT ![x] = w]
  <2> DEFINE T1 == [T EXCEPT ![x] = v]
  <2>1. [T EXCEPT ![x].block = s, ![x].rest = r] = [T1 EXCEPT ![x].rest = r]
    OBVIOUS
  <2>2. T1[x] = v /\ T1 = [i \in mf |-> IF i = x THEN v ELSE T[i]]
    <3> HIDE DEF v
    <3> QED BY <1>1
  <2>3. [T1 EXCEPT ![x].rest = r] = [T1 EXCEPT ![x] = [T1[x] EXCEPT !.rest = r]]
    OBVIOUS
  <2>4. [T1 EXCEPT ![x].rest = r] = [T1 EXCEPT ![x] = w]
    <3> HIDE DEF T1, v
    <3> QED BY <2>2, <2>3
  <2>5. [T1 EXCEPT ![x] = w] = [T EXCEPT ![x] = w]
    <3> HIDE DEF T1, v, w
    <3> QED BY ONLY <1>1, <2>2
  <2> QED BY <2>1, <2>4, <2>5
<1> HIDE DEF u, v, w
<1>7. /\ [T EXCEPT ![x] = u] = [i \in mf |-> IF i = x THEN u ELSE T[i]]
      /\ [T EXCEPT ![x] = w] = [i \in mf |-> IF i = x THEN w ELSE T[i]]
  BY ONLY <1>1
<1>8. /\ P = [i \in mf |-> IF i = x THEN u ELSE T[i]]
      /\ Q = [i \in mf |-> IF i = x THEN w ELSE T[i]]
  BY <1>5, <1>6, <1>7 DEF PutRest, PutBlks
<1> QED BY <1>2, <1>4, <1>8

LEMMA WriteTree ==
  ASSUME FileInv, NEW name \in Names, NEW size \in WriteSizes, write_file(name, size)
  PROVE  Tree!Write(name, size)
<1> DEFINE F == Files
           G == Files'
           mf == fnode_map
           k == FileIndex(name)
           x == curr_dir.child_file[k]
<1>1. up /\ up' /\ k # 0 /\ dnode_map' = dnode_map /\ fnode_map' = mf /\ curr_dir' = curr_dir
  BY DEF write_file
<1>2. TreeUp /\ Cached
  BY <1>1, RunningTree
<1>3. Kept' /\ Dirs' = Dirs /\ x \in mf /\ Appended(F, G, blk_map, blk_map', x, size)
  BY WriteFile
<1>4. /\ TreeDirs' = TreeDirs /\ TreeFiles' = SeenF(G, mf)
      /\ TreeCwd' = TreeCwd /\ Formatted' = Formatted
  <2>1. /\ TreeDirs' = SeenD(Dirs', dnode_map') /\ TreeFiles' = SeenF(Files', fnode_map')
        /\ TreeCwd' = curr_dir'.dir_num /\ Formatted'
    BY <1>1, <1>3, RunningTreeThen
  <2> QED BY <1>1, <1>2, <1>3, <2>1 DEF TreeUp, Formatted
<1>5. Tree!FileNamed(TreeCwd, name) = k /\ k # 0
  BY <1>1, <1>2, SameEntry
<1>6. TreeFiles = SeenF(F, mf) /\ Formatted /\ TreeDirs[TreeCwd].files[k] = x
      /\ DOMAIN TreeFiles = mf /\ \A i \in mf : TreeFiles[i] = FileSeen(F[i])
  <2>1. TreeDirs[TreeCwd] = DirSeen(curr_dir)
    BY <1>2 DEF TreeUp, SeenD
  <2>2. TreeDirs[TreeCwd].files = curr_dir.child_file
    BY <2>1 DEF DirSeen
  <2> QED BY <1>2, <2>2 DEF TreeUp, SeenF
<1>7. mf \subseteq FNode /\ F[x].size_rest \in Int /\ size \in Int /\ BlkSize \in Int
  <2>1. F \in [FNode -> FileRec] /\ mf \subseteq FNode
    BY <1>2 DEF Cached, IsTree, Typed
  <2>2. F[x] \in FileRec
    BY <1>3, <2>1
  <2>3. size \in 0 .. BlkSize - 2 /\ BlkSize \in Nat
    BY SizesAssumption DEF SizesAssumption
  <2> QED BY <2>1, <2>2, <2>3, FileFields
<1>8. Tree!UsedBlks = blk_map
  BY <1>2, SameBlks
<1> HIDE DEF F, G, mf, k, x
<1>9. TreeFiles[x].rest = F[x].size_rest /\ TreeFiles[x].block = F[x].block
  BY <1>3, <1>6 DEF FileSeen
<1>10. TreeFiles' = [i \in mf |-> IF i = x THEN WithBlks(F[x], G[x].block, G[x].size_rest)
                                  ELSE TreeFiles[i]]
  <2>1. \A i \in mf : i # x => G[i] = F[i]
    BY <1>3, <1>7 DEF Appended
  <2>2. FileSeen(G[x]) = WithBlks(F[x], G[x].block, G[x].size_rest)
    BY <1>3 DEF Appended, WithBlks, FileSeen
  <2>3. \A i \in mf : FileSeen(G[i]) = IF i = x THEN WithBlks(F[x], G[x].block, G[x].size_rest)
                                                ELSE TreeFiles[i]
    BY <1>6, <2>1, <2>2
  <2> QED BY <1>4, <2>3 DEF SeenF
<1> DEFINE total == TreeFiles[x].rest + size
<1>11. CASE /\ size + F[x].size_rest <= BlkSize /\ G[x].block = F[x].block
            /\ G[x].size_rest = F[x].size_rest + size
  <2>1. total <= BlkSize /\ total = G[x].size_rest
    BY <1>7, <1>9, <1>11
  <2> DEFINE r == G[x].size_rest
             s == G[x].block
             T == TreeFiles
             P == PutRest(T, x, r)
             Q == PutBlks(T, x, s, r)
  <2>2. T = SeenF(F, mf) /\ x \in mf /\ P = PutRest(T, x, r) /\ Q = PutBlks(T, x, s, r)
    BY <1>3, <1>6
  <2> HIDE DEF r, s, T, P, Q
  <2>3. P = [i \in mf |-> IF i = x THEN WithBlks(F[x], F[x].block, r) ELSE T[i]]
    BY ONLY <2>2, RestReplaced
  <2>4. TreeFiles' = [TreeFiles EXCEPT ![x].rest = total]
    <3>1. TreeFiles' = P
      BY <1>10, <1>11, <2>3 DEF r, T
    <3> QED BY <2>1, <3>1 DEF r, T, P, PutRest
  <2> HIDE DEF total
  <2> QED BY <1>4, <1>5, <1>6, <2>1, <2>4 DEF Tree!Write, total
<1>12. ASSUME NEW b \in Blk, b \notin blk_map, G[x].block = Append(F[x].block, b),
              size + F[x].size_rest > BlkSize, Len(F[x].block) < BlkPerFile,
              G[x].size_rest = size - BlkSize + F[x].size_rest
       PROVE  Tree!Write(name, size)
  <2>1. total > BlkSize /\ total - BlkSize = G[x].size_rest
    BY <1>7, <1>9, <1>12
  <2> DEFINE r == G[x].size_rest
             s == G[x].block
             T == TreeFiles
             P == PutRest(T, x, r)
             Q == PutBlks(T, x, s, r)
  <2>2. T = SeenF(F, mf) /\ x \in mf /\ P = PutRest(T, x, r) /\ Q = PutBlks(T, x, s, r)
    BY <1>3, <1>6
  <2> HIDE DEF r, s, T, P, Q
  <2>3. Q = [i \in mf |-> IF i = x THEN WithBlks(F[x], s, r) ELSE T[i]]
    BY ONLY <2>2, RestReplaced
  <2>4. TreeFiles' = [TreeFiles EXCEPT ![x].block = s, ![x].rest = r]
    <3>1. TreeFiles' = Q
      BY <1>10, <2>3 DEF r, s, T
    <3> QED BY <3>1 DEF T, Q, PutBlks
  <2>5. s = Append(TreeFiles[x].block, b) /\ r = total - BlkSize
    BY <1>9, <1>12, <2>1 DEF r, s
  <2>6. TreeFiles' = [TreeFiles EXCEPT ![x].block = Append(TreeFiles[x].block, b),
                                       ![x].rest = total - BlkSize]
    BY <2>4, <2>5
  <2>7. b \in (0 .. BlkNum - 1) \ Tree!UsedBlks /\ Len(TreeFiles[x].block) < BlkPerFile
    BY <1>8, <1>9, <1>12 DEF Blk
  <2> QED BY <1>4, <1>5, <1>6, <2>1, <2>6, <2>7 DEF Tree!Write
<1> QED BY <1>3, <1>11, <1>12 DEF Appended

(* cd, exit and restart only move the user. *)
LEMMA CdTree ==
  ASSUME FileInv, change_dir_up \/ \E name \in Names : change_dir(name)
  PROVE  Tree!Cd
<1>1. up
  BY DEF change_dir_up, change_dir
<1>2. TreeUp /\ Cached
  BY <1>1, RunningTree
<1> DEFINE D == Dirs
           n == curr_dir'.dir_num
           c == curr_dir.dir_num
<1>3. /\ Kept' /\ Dirs' = D /\ Files' = Files /\ UNCHANGED <<up, dnode_map, fnode_map>>
      /\ n \in dnode_map
      /\ \/ \E p \in DOMAIN D[n].child_dir : D[n].child_dir[p] = c
         \/ \E p \in DOMAIN curr_dir.child_dir : curr_dir.child_dir[p] = n
  BY ChangeDirUp, ChangeDir
<1>4. /\ TreeDirs' = SeenD(Dirs', dnode_map') /\ TreeFiles' = SeenF(Files', fnode_map')
      /\ TreeCwd' = curr_dir'.dir_num /\ Formatted'
  BY <1>1, <1>3, RunningTreeThen
<1>5. /\ TreeDirs = SeenD(Dirs, dnode_map) /\ TreeFiles = SeenF(Files, fnode_map)
      /\ TreeCwd = c /\ Formatted /\ c \in dnode_map /\ D[c] = curr_dir
  BY <1>2 DEF TreeUp
<1> HIDE DEF D, n, c
<1>6. TreeDirs' = TreeDirs /\ TreeFiles' = TreeFiles /\ Formatted' = Formatted /\ TreeCwd' = n
  BY <1>3, <1>4, <1>5 DEF D, n, Formatted
<1>7. DOMAIN TreeDirs = dnode_map /\ \A i \in dnode_map : TreeDirs[i].subs = D[i].child_dir
  BY <1>5 DEF SeenD, DirSeen, D
<1>8. n \in Tree!Range(TreeDirs[c].subs) \/ c \in Tree!Range(TreeDirs[n].subs)
  BY <1>3, <1>5, <1>7 DEF Tree!Range
<1> QED BY <1>3, <1>5, <1>6, <1>7, <1>8 DEF Tree!Cd

LEMMA ExitTree ==
  ASSUME FileInv, exit_fs
  PROVE  Tree!Cd
<1>1. up /\ ~up' /\ init_flag' = 1 /\ dsuper' = [d |-> dnode_map, f |-> fnode_map, b |-> blk_map]
  BY DEF exit_fs, Stopped, SavedSuper
<1>2. TreeUp /\ Cached
  BY <1>1, RunningTree
<1>3. Kept' /\ Dirs' = Dirs /\ Files' = Files
  BY ExitFs
<1>4. TreeDirs' = SeenD(Dirs', MarkedDirs') /\ TreeFiles' = SeenF(Files', MarkedFiles')
  BY <1>3, TreeIsThen
<1>5. MarkedDirs' = dnode_map /\ MarkedFiles' = fnode_map /\ TreeCwd' = 0 /\ Formatted'
  BY <1>1 DEF MarkedDirs, MarkedFiles, TreeCwd, Formatted
<1>6. TreeDirs' = TreeDirs /\ TreeFiles' = TreeFiles /\ Formatted' = Formatted
  <2>1. TreeDirs' = TreeDirs /\ TreeFiles' = TreeFiles
    BY <1>2, <1>3, <1>4, <1>5 DEF TreeUp
  <2>2. Formatted
    BY <1>2 DEF TreeUp
  <2> QED BY <1>5, <2>1, <2>2 DEF Formatted
<1>7. 0 \in DOMAIN TreeDirs
  BY <1>2 DEF TreeUp, Cached, IsTree, Rooted, SeenD
<1> QED BY <1>5, <1>6, <1>7 DEF Tree!Cd

LEMMA InitTree ==
  ASSUME FileInv, init_fs
  PROVE  Tree!Format \/ UNCHANGED <<TreeDirs, TreeFiles, Formatted, TreeCwd>>
<1>1. ~up /\ up' /\ UNCHANGED <<dsuper, ddir, dfile>>
  BY DEF init_fs
<1>2. Kept /\ Kept'
  BY InitFs DEF FileInv, Kept
<1>3. /\ TreeDirs = SeenD(ddir, MarkedDirs) /\ TreeFiles = SeenF(dfile, MarkedFiles)
      /\ TreeCwd = 0 /\ MarkedFiles = dsuper.f
  BY <1>1, <1>2, TreeIs DEF Dirs, Files, TreeCwd, MarkedFiles
<1>4. /\ TreeDirs' = SeenD(Dirs', dnode_map') /\ TreeFiles' = SeenF(Files', fnode_map')
      /\ TreeCwd' = curr_dir'.dir_num /\ Formatted'
  BY <1>1, <1>2, RunningTreeThen
<1>5. CASE init_flag = 0
  <2>1. /\ dnode_map' = {0} /\ fnode_map' = {} /\ curr_dir' = Root
    BY <1>5 DEF init_fs
  <2>2. MarkedFiles = {} /\ ~Formatted
    BY <1>3, <1>5 DEF FileInv, DiskInv, Formatted
  <2>3. /\ Root.dir_num = 0 /\ Root.child_dir = <<>> /\ Root.child_file = <<>>
        /\ Root.dir_name = "root"
    BY BlankDirIs DEF Root, BlankDir
  <2>4. TreeFiles' = TreeFiles /\ TreeCwd' = TreeCwd
    BY <1>3, <1>4, <2>1, <2>2, <2>3 DEF SeenF
  <2>5. TreeDirs' = [i \in {0} |-> Tree!NewDir("root")]
    <3>1. Dirs'[0] = Root
      <4>1. Dirs' = ViewD(Root, buff_dir_node', ddir')
        BY <1>1, <2>1 DEF Dirs
      <4>2. 0 \in DNode
        BY SizesAssumption DEF SizesAssumption, DNode
      <4> QED BY <2>3, <4>1, <4>2 DEF ViewD
    <3>2. DirSeen(Root) = Tree!NewDir("root")
      BY <2>3 DEF DirSeen, Tree!NewDir
    <3> QED BY <1>4, <2>1, <3>1, <3>2 DEF SeenD
  <2>6. Formatted' = TRUE
    BY <1>4 DEF Formatted
  <2> QED BY <2>2, <2>4, <2>5, <2>6 DEF Tree!Format
<1>6. CASE init_flag = 1
  <2>1. dnode_map' = dsuper.d /\ fnode_map' = dsuper.f /\ OpenDir(0, ddir, dfile)
        /\ init_flag' = 1 /\ blk_map' = ReadBlkMap
    BY <1>6 DEF init_fs
  <2>2. Formatted' = Formatted /\ MarkedDirs = dsuper.d
    BY <1>1, <1>6, <2>1 DEF Formatted, MarkedDirs
  <2> DEFINE D == ddir
             F == dfile
             md == dsuper.d
             mf == dsuper.f
             mb == dsuper.b
  <2>3. IsTree(D, F, md, mf, mb)
    <3>1. TreeInv
      BY DEF FileInv
    <3> QED BY <1>1, <1>6, <3>1
            DEF TreeInv, Dirs, Files, MarkedDirs, MarkedFiles, MarkedBlks, Formatted
  <2>4. 0 \in md /\ blk_map' = mb /\ dnode_map' = md /\ fnode_map' = mf /\ ddir' = D
        /\ dfile' = F /\ up' = TRUE
    BY <1>1, <2>1, <2>3, Overlaid DEF IsTree, Rooted, init_fs
  <2>5. OpenDir(0, D, F) /\ init_flag' = 1
    BY <2>1
  <2>6. Dirs' = D /\ Files' = F /\ curr_dir'.dir_num = 0
    <3> HIDE DEF D, F, md, mf, mb
    <3> QED BY ONLY <2>3, <2>4, <2>5, Reopened
  <2> QED BY <1>3, <1>4, <2>1, <2>2, <2>6
<1> QED BY <1>5, <1>6 DEF init_fs

LEMMA StepTree ==
  ASSUME FileInv, [Next]_vars
  PROVE  [Tree!Next]_(Tree!vars)
<1>1. CASE init_fs
  BY <1>1, InitTree DEF Tree!Next, Tree!vars
<1>2. CASE exit_fs
  BY <1>2, ExitTree DEF Tree!Next
<1>3. CASE change_dir_up
  BY <1>3, CdTree DEF Tree!Next
<1>4. ASSUME NEW name \in Names, create_dir(name) PROVE Tree!Next
  BY <1>4, MkdirTree DEF Tree!Next
<1>5. ASSUME NEW name \in Names, create_file(name) PROVE Tree!Next
  BY <1>5, TouchTree DEF Tree!Next
<1>6. ASSUME NEW name \in Names, del_dir(name) PROVE Tree!Next
  BY <1>6, RmdirTree DEF Tree!Next
<1>7. ASSUME NEW name \in Names, del_file(name) PROVE Tree!Next
  BY <1>7, RmTree DEF Tree!Next
<1>8. ASSUME NEW name \in Names, change_dir(name) PROVE Tree!Next
  BY <1>8, CdTree DEF Tree!Next
<1>9. ASSUME NEW name \in Names, NEW size \in WriteSizes, write_file(name, size) PROVE Tree!Next
  BY <1>9, WriteTree DEF Tree!Next
<1>10. CASE UNCHANGED vars
  <2>1. UNCHANGED <<up, dnode_map, fnode_map, blk_map, curr_dir, buff_dir_node,
                    buff_file_node, init_flag, dsuper, ddir, dfile>>
    BY <1>10 DEF vars, memVars, diskVars
  <2>2. UNCHANGED <<TreeDirs, TreeFiles, Formatted, TreeCwd>>
    BY <2>1 DEF TreeDirs, TreeFiles, Formatted, TreeCwd, MarkedDirs, MarkedFiles, DirView,
                FileView
  <2> QED BY <2>2 DEF Tree!vars
<1> QED BY <1>1, <1>2, <1>3, <1>4, <1>5, <1>6, <1>7, <1>8, <1>9, <1>10 DEF Next

LEMMA InitIsTree ==
  ASSUME Init
  PROVE  Tree!Init
<1>1. FileInv /\ Kept
  BY InitInv DEF FileInv, Kept
<1>2. /\ up = FALSE /\ init_flag = 0 /\ dsuper.f = {} /\ ddir = [i \in DNode |-> BlankDir]
  BY DEF Init
<1>3. TreeDirs = SeenD(ddir, {0}) /\ TreeFiles = SeenF(dfile, {})
      /\ TreeCwd = 0 /\ Formatted = FALSE
  BY <1>1, <1>2, TreeIs DEF Dirs, Files, TreeCwd, MarkedDirs, MarkedFiles, Formatted
<1>4. TreeDirs = [i \in {0} |-> Tree!NewDir("")]
  <2>1. ddir[0] = BlankDir
    BY <1>2, SizesAssumption DEF SizesAssumption, DNode
  <2>2. DirSeen(BlankDir) = Tree!NewDir("")
    BY DEF DirSeen, BlankDir, Tree!NewDir
  <2> QED BY <1>3, <2>1, <2>2 DEF SeenD
<1>5. TreeFiles = <<>>
  BY <1>3 DEF SeenF
<1> QED BY <1>3, <1>4, <1>5 DEF Tree!Init

(* Cache, bitmaps and disk implement one tree of directories and files: a   *)
(* command of the user is the same command of TreeFs, cd and exit only      *)
(* move him, and a restart is seen by nobody.                               *)
THEOREM FileIsTreeFs == Spec /\ []Room => IsTreeFs
<1>1. Init => Tree!Init
  BY InitIsTree
<1>2. FileInv /\ [Next]_vars => [Tree!Next]_(Tree!vars)
  BY StepTree
<1> QED BY <1>1, <1>2, Invariance, PTL DEF Spec, IsTreeFs, Tree!Spec

(* With more blocks than the files can use, what the theorems above say     *)
(* holds of every run, without a hypothesis on it.                          *)
THEOREM FileSpare ==
  ASSUME Spare
  PROVE  Spec => /\ [](TypeOK /\ BitmapsExact /\ NoNodeShared /\ NoBlockShared /\ TreeLinks)
                 /\ IsTreeFs
<1>1. Spec => []Room
  BY FileRoom
<1>2. Spec => IsTreeFs
  BY <1>1, FileIsTreeFs, PTL
<1>3. Spec => [](TypeOK /\ BitmapsExact /\ NoNodeShared /\ NoBlockShared /\ TreeLinks)
  BY <1>1, FileTypeOK, FileBitmapsExact, FileNoNodeShared, FileNoBlockShared, FileTreeLinks, PTL
<1> QED BY <1>2, <1>3
=============================================================================
