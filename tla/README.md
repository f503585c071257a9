# TLA+ models of the stateful programs of Daily-Learning

The repository is a student's collection of course work. Most of it is
sequential exercises, documents, generated project files and third-party code.
The programs whose correctness is hard to see by reading and hard to test are
those of `src/OSlab`: processes and threads around System V semaphores, shared
memory, pipes and signals, a character device without a lock, and a simulated
file system with an on-disk format. Beside them this project models a chat
server whose threads share one list, the symbol table of a compiler, and two
queues made of stacks.

## 1. Inventory

### Modelled

| part | source | state | operations | what makes it correct |
|---|---|---|---|---|
| file copier, versions 1.0, 1.1, 1.2 and the copy in `design/lab1` | `OSlab/lab/lab3/*.c`, `OSlab/design/lab1/lab1/*.c` | a shared segment of 5 buffers with a length each, a semaphore set, the indices `in` and `out`, the two files | parent: create, fork, wait, remove; readbuf: P, fread, store, V; writebuf: P, read length, fwrite, V, fflush | no buffer is filled while it is emptied; the output is a prefix of the input and whole when announced; nobody waits for ever; the IPC objects outlive their users |
| simulated file system | `OSlab/design/lab5/file_manager.c` | bitmaps, current directory and its entries in memory; flag, super block, node tables and data area on disk | start, mkdir, touch, rmd, rmf, cd, write, read, exit; a kill at the prompt | bitmaps mark exactly what is in use; no node or block has two owners; names and links are those of a tree |
| summing threads | `OSlab/lab/lab2/lab2.c` | global `a`, two semaphores, two threads | create, join, P, store, V, P, print, V | every partial sum is printed once, in order; the set outlives the threads |
| character device | `OSlab/design/lab3/mydev.c`, `dev_test.c` | one buffer, the global offsets `r_locate` and `w_locate`, for every open file | load, unload, open, read, write, release, by several processes at once | no copy leaves the buffer; what is written is read back in order |
| chat server | `net-work/chat_socket_demo` | an `ArrayList` of beans (id, device, socket), a thread for each connection | accept, LOGIN, GETLIST, SENDMSG, LOGOUT, a client that leaves | the list is who is connected; a thread ends only with its client; messages reach their device |
| symbol table of the compiler | `Compilers/ao/sbtable.c`, the calls in `semantic.c` | hash lists, scope stack, one chain of symbols for each scope, `n_token` | open and close a scope, look up, enter a variable, function or structure | nothing is lost, freed too early or reachable after it; names are unique where the language says so |
| queues on stacks | `C++/classroom_experiment` `STACK`, `QUE2S`, `QUEIS` | two stacks of bounded size | `operator<<`, `operator>>` | nothing is lost or repeated, and in which order it comes out |
| pipe and signals, two versions | `OSlab/lab/lab1/lab1.c`, `lab1_1.1.c` | a pipe, three or four processes, a `wait_mark` in each | fork, install handlers, write, read, ^C, kill, waitpid | ^C ends every process |

The copier's three processes interact only through the segment and the
semaphores, lab2's threads through `a` and the semaphores, lab1's processes
through the pipe, signals and `waitpid`. `file_manager` is one sequential
process; what makes it hard is that its state is split between memory and disk
and that the parts are written back at different commands. The device and the
chat server are called by many at once over shared variables nobody locks. The
symbol table is sequential; there the order of calls, which is the nesting of
the program being compiled, decides which chain a symbol ends up in.

### Not modelled

| part | why / plan |
|---|---|
| socket examples `net-work/socket_demo` | prints what a client says and answers once; connections share nothing |
| the rest of `Compilers/ao` and the calculator | types, expressions, code emission and the parsers build a list or tree once |
| `POSTK`, `OOSTK`, copying and assigning of queues | the stack again; `STACK::operator=` is undefined behaviour (it deletes an array as one object and copies through a wrong pointer) |
| bytes of the files in `file_manager` | the address of a block is its number, not multiplied by 1024 (lines 514 to 524), so every write destroys its neighbours: there is no promise left to check |
| copy system call `ao_copy` in `OSlab/design/lab2/sys.c` | opens, copies and closes; its hazard, early returns that leave files open and the address limit changed, shows on reading |
| f2fs victim selection (`filesystem/f2fs/gc.c`) | a cost function over kernel structures; the rest of f2fs is the Linux source |
| OpenMP, pthread and MPI programs, `Algorithms` | pure functions; planned against reference definitions |
| `autosm.v` | planned: its state machine |
| `lab4.c`, `task1.c`, the GTK task manager | print or draw what the kernel tells them, no state of their own |
| everything else | documents, generated files, third-party code, single-function exercises |

Most of the repository's roughly 195,000 lines of source are not its own: the BDD package cudd, the data lab checker, Matlab toolboxes,
the Linux f2fs and `sys.c`. The programs written here, of which the
stateful ones are modelled, are a few percent of it.

`PROJECT.json` lists the hazards one by one, each with its line and the
properties that would catch it.

## 2. Modules

| module | content |
|---|---|
| `BoundedFifo` | abstract: a queue of bounded capacity |
| `RingCopy` | the file copier |
| `RingCopyInv` | its inductive invariant |
| `RingCopyProofs`, `RingCopyLengths` | proofs: types, exclusion and IPC life time; lengths, waiting and refinement of `BoundedFifo` |
| `MCRing` | input files and fault sets for TLC |
| `TreeFs` | abstract: one tree of directories and files |
| `FileManager`, `FileManagerProofs` | the simulated file system without the bytes of files, and its proofs |
| `MCFile` | symmetry of names for TLC |
| `ThreadSum`, `ThreadSumProofs` | lab2 and its proofs |
| `PipeSignal` | both versions of lab1 |
| `MyDev`, `MyDevProofs`, `MCDev` | the character device, its proofs, and the symmetry of processes for TLC |
| `ChatServer`, `ChatServerProofs`, `MCChat` | the chat server, its proofs, and symmetry of ids and the bound on requests |
| `SymbolTable`, `SymbolTableProofs`, `MCSymbols` | the compiler's symbol table, its proofs, and a hash function for TLC |
| `BoundedStack` | abstract: a stack of bounded capacity |
| `StackQueue`, `StackQueueProofs` | `QUE2S` and `QUEIS`, and their proofs |

Operators whose comment calls them a mutant are small bugs of the definition
that follows them. No specification uses them; each one, put in the place of
its definition, makes TLC report the property it is listed with.

### RingCopy

One module stands for the three versions. `PerSlot` tells one pair of counting
semaphores (1.0, 1.2) from a pair for each buffer (1.1), `TextLength` tells a
length kept as three decimal characters (1.0) from an integer. An action is the
code up to the next access to something shared: `ReaderP`, `ReaderFread`,
`ReaderStore`, `ReaderV` are one round of readbuf's loop, `WriterP`,
`WriterGetLen`, `WriterFwrite`, `WriterV`, `WriterFflush` one of writebuf's.
The contents of a file are the numbers of its chunks; `len` holds the lengths.

* `SetAll` models what the kernel does with the argument of `SETALL`: it reads
  16-bit values where the union declares 32-bit ones. With `{5,0}` that
  happens to give 5 and 0, with ten elements it gives 1,0,1,0,...
* `Decoded` models `atoi` on three digits without terminator. `Strays` are the
  values the uninitialised fourth byte may hold, `NonDigit` standing for all
  bytes at which `atoi` stops.
* `Leftovers` are the length fields of a segment that an earlier, killed run
  left under the fixed key.
* `Faults` are the calls that may fail. `failed` records those that did, so that
  properties can say which failures they cover. After a failure the model does
  what the code does, including leaving a partner blocked for ever.
* P and V ignore the result of `semop`: on a removed set they do not wait.

### FileManager, TreeFs

Bitmaps are sets of marked indices and arrays with counts are sequences. The
variables `curr_dir`, `buff_dir_node`, `buff_file_node` are the cache; `dsuper`,
`ddir`, `dfile`, `init_flag` are the disk. A command is one step, since nothing
runs beside it; a refused command changes nothing and is no step. `SavedDirs`,
`SavedFiles` and `OpenDir` are `save_dir` and `open_dir` in the order of their
writes and reads. `ReadBlkMap` and `OverlaidDirs` model that the last word of
the super block, the mark of the last block, lies on the first word of node 0.
`crash` (only in `SpecCrash`) is a kill at the prompt: the stream's buffer is
written out by the next seek, so only the flag of a first start can be pending,
which is `init_flag = Buffered`.

`TreeFs` is what the user is promised: a tree
changed by one command at a time, untouched by cd, exit and restart. The
mapping in `FileManager` (`Tree`) takes the nodes the bitmap marks, the one in
memory while the program runs and the saved one otherwise, and looks at each
through the cache.

### ThreadSum

`Subp1P`, `Subp1Store`, `Subp1V` and `Subp2P`, `Subp2Print`, `Subp2V` are one
round of the two loops. main looks at the results of both `pthread_create`
calls only after the second, so one thread may run alone until `exit`.

### PipeSignal

`twoForks` is chosen once, in the initial state: FALSE is `lab1.c`; TRUE is
`lab1_1.1.c`, where both forks stand in one condition, so that child 1
evaluates the second fork too and its own child runs child 1's code (writer 2).
Installing the handlers, setting `wait_mark` and closing the unused end of the
pipe are separate steps, because ^C and the user signals may fall between them.
A signal takes effect in the step that sends it. `signal()` has BSD semantics
in this build: an interrupted `read` or `waitpid` is restarted. The history
variables `lost` and `early` count the presses of ^C that fell between the
parent's `signal()` and its mark, and name the children whose stop came before
theirs.

### MyDev

A step is the code up to the next access to something shared: the load of an
offset (with the clipping of the count, which is local), each byte of a copy, the
load and the store of `r_locate = (r_locate+count)%4096`. An open is two stores,
and the check of the minor number comes after both. `ReadFault` and `WriteFault`
are `-EFAULT` at any byte; a failing `copy_from_user` clears the rest of its
destination. `sent` and `got` are history: the bytes moved since the last open, and
for each byte read how many had been written by then. They are kept as long as
no two calls have overlapped (`overlap`), which an open of a quiet device resets.

### ChatServer

`Main` is the accepting thread, `Thread(c)` the thread of a connection. The four
requests share their loop: `Test` and `Get` are `i < size()` and `get(i)` with the
condition of the request that runs; what follows a hit is an action of its own.
`ArrayList` is not the repository's code; `add`, `remove` and the iterator are
modelled by the reads and writes of `size`, `modCount` and the array that the
library makes, `get` and `set` as one step, and the array is taken to be large
enough (its first growth comes with the eleventh bean). An exception ends the
thread (`Throw`), or, in the accepting thread, the server. A bean's id is any second
of the day, as beans of different days may share one. Requests are well formed.
`overlap` and `early` remember that a LOGOUT ran beside another use of the list, and
that a request met a connection without a device.

### SymbolTable

`tab` is the C data structure: `next` and `prev` link a symbol into the list of its
hash, `below` into the chain of a scope. `addscope`, `ensymbol` and the
`pro_` functions are operators from table to table, in the order of the stores in
`sbtable.c`. `delscope` takes several steps: the action of that name pops the scope, moves
`n_token` and leaves in `token`, the variable of the C function, the first symbol to free;
`FreeToken` is one round of the loop, and `StructEnd` or `ScopeEnd` what the caller does
when it is done. The properties are therefore checked between the rounds as well. A loop
that only looks along links (`looksymbol`, the search for the end of a chain) is the set of
symbols it meets, `Chain`, the least set closed under the link. The walk of `semantic.c` over a syntax tree is the stack `ctx`: an
action is the part of a handler between two of its calls on the table, and its
guard what the grammar allows next. Types are left out, since `ensymbol` would follow
the null pointer of an undefined one; a tag and a name are told apart by `specifier`.
`apart` is history: the symbols declared in a scope behind a nested one.

### StackQueue

`inherited` is chosen once and says which class the queue is; the two differ in
where the loop of `operator>>` starts. The loop is one step for each value moved.

## 3. Runs

| run | instance | result |
|---|---|---|
| `ring12` | version 1.2, 5 slots, chunk 256, five files of 1 to 8 chunks, 11 calls that may fail | passes: `SlotExclusion`, `OutputIsPrefix`, `AnnouncedCopyIsWhole`, `NobodyStranded`, `IpcOutlivesChildren`, `EndsOrNamedWait`, `IsBoundedFifo` |
| `ring11_truncates` | version 1.1 | violated `AnnouncedCopyIsWhole`: the semaphores become 1,0,1,0,... and writebuf stops at a buffer nobody filled |
| `file_dirs` | 4 directory nodes, 2 entries each, no files | passes: `BitmapsExact`, `NoNodeShared`, `TreeLinks` |
| `file_tree` | 3 directory nodes, one file of up to 2 blocks | passes: `BitmapsExact`, `IsTreeFs` |
| `file_blocks` | root only, 2 files of up to 2 blocks | passes: `BitmapsExact`, `NoBlockShared` |
| `file_crash` | as `file_dirs` with kills | violated `NoNodeShared`: cd saves nodes, only exit saves the bitmap |
| `sum` | 100 rounds, as in the code | passes: `PrintsPartialSums`, `SetOutlivesThreads`, `IsOnePlaceQueue`, `AllSumsPrinted` |
| `pipe` | both versions, two ^C | passes: `ShutdownOrStuck`, `Outcomes` |
| `mydev` | 2 processes, buffer of 3, sizes 0, 2 and 4, up to 5 bytes each way | passes: `CopyInBounds`, `OffsetsCount`, `ReadsBack` |
| `queue` | both classes, capacity 3, three values, 5 taken out | passes: `Que2sIsQueue`, `QueisIsStack` |
| `symtab` | 2 names that share a hash with others, 6 symbols, 4 scopes | passes: `TableSound`, `NoEarlyFree`, `SplitScopesEnd`, `FunctionsStay`, `GlobalsUnique` |
| `chat` | 3 connections, 2 devices, 3 seconds, up to 4 requests | passes: `ListExact`, `ThreadsSurvive`, `ReachesItsDevice` |

`ring12`, `file_tree`, `sum`, `mydev`, `queue`, `symtab` and `chat` check their module's
`TypeOK` as well.

What the runs say of the code beyond "it holds":

* `EndsOrNamedWait` lists the only ways in which a failed call can hang the copier,
  `Outcomes` the only six in which a run of lab1 settles; dropping any of the cases
  makes TLC show the run it stands for. In one of them, `StuckInRead`, the parent of
  `lab1.c` waits for a child that waits in `read` on a pipe the parent holds open.
* Overlapping reads and writes of the device may lose updates of an offset but never
  leave the buffer (`CopyInBounds`), because the count is clipped for the very offset
  that was loaded.
* A function's name stays in the compiler's table only because `addscope` does not
  reset `n_token` (`FunctionsStay` fails with a mutant that does). When a structure is
  defined between the type and the name of a function, the name goes with the
  function's scope, and a second function of that name is accepted, although
  `sbtable.c:225` says 函数不能重名 (no two functions of one name). This was seen in the
  compiled program too.
* `QUEIS` delivers the newest value, not the oldest: it is a stack.
* In the chat server two LOGOUTs that overlap with an accept may bring `size` to -1 (with
  more connections to any negative number), and the next accept then ends the server. `ListExact` and `ThreadsSurvive` therefore
  speak of runs without such overlaps; `ReachesItsDevice` needs only distinct ids.

Seen on the compiled programs: version 1.1 of the copier cuts a file of 700 bytes
to 255; in `file_manager`, `mkdir a`, `cd a`, kill, restart, `mkdir b` ends with two
entries `b`, and writing `hello` to one file and `WORLD` to another makes the first
read `hWORL`; `lab1` hangs with the parent in `waitpid` and child 2 in `read`.

### Bounds

* Ring: the code's own 5 slots and chunk sizes. The files are empty, a byte
  short of a chunk, exactly one chunk, and longer than the ring, so that both
  indices wrap, both processes block, and the end falls on a chunk boundary.
* File system: two entries for each directory make siblings (deleting the first
  moves the second), four nodes make a chain whose deletion has to recurse, two
  names collide. Two blocks for each file reach the limit of a file, and of two
  lines of 5 in blocks of 7 the second crosses a block boundary. The node tables can be filled.
  In the passing runs the last block is never allocated
  (`FNodeNum * BlkPerFile < BlkNum`): its mark is also the first word of node 0, and
  is lost or invented by an exit once it is in use.
  No command tells one name from another, so permuting names is a symmetry.
* lab2: none, the run has the size of the program.
* Pipe: `PipeCap` = 3 stands for "3 or more" messages (writing saturates and
  reading from the bound may leave it); two presses of ^C, so that the first may
  be lost before the parent's mark is set and the second finds it set. The real pipe holds some thousands of messages:
  a writer blocked on a full pipe is not modelled.
* Device: a buffer of 3 with sizes 0, 2 and 4 makes calls that are clipped, that end
  exactly at the end and that wrap; `MaxBytes` bounds only the history and lets the
  offsets go round once.
* Queue: `MaxTaken` bounds the history; every filling of both stacks is reached.
* Symbol table: all identifiers share few hash values, so that lists of several
  symbols are unlinked in every order; four scopes are the program, a function, a
  structure or block in it, and one behind or inside that.
* Chat: `MaxRequests` is a bound for each number of beans made. With two it is 4, two
  LOGINs and two LOGOUTs, which takes `size` to -1, and a third connection then meets
  that list; with three it is 3. Ids and devices are only compared, so that permuting
  them is a symmetry; three seconds allow distinct ids and every collision.

`CHECK_DEADLOCK FALSE` is set where the program ends or a bound does (ring, sum, pipe,
queue, symtab, chat). The file
manager can always be started again, and its runs check for deadlock.

### Fairness

Weak fairness of each process or thread, as a whole: the kernel schedules
whatever is runnable, and each of them is sequential. A blocked P, `read` or
`waitpid` is a disabled action, so fairness never forces it. The user (`Press`)
has no fairness. The device, the chat server, the queues and the symbol table have
safety properties only: what is called when is up to their users. Strong fairness is not needed: when a `semop` is enabled, only
the waiting process can disable it.

### What the properties leave out, and why

`NobodyStranded` speaks of runs in which no call fails: a child that cannot open
its file leaves the other one waiting, in the ways `EndsOrNamedWait` lists.
`OutputIsPrefix` excludes a failed `fflush`, whose result nobody reads.
`ShutdownOrStuck` starts when the parent has left `waiting()` and the children have
set their marks; what happens otherwise is in `Outcomes`. `OffsetsCount` and
`ReadsBack` of the device end with the first overlap of two calls: then two readers
may get the same bytes, and nothing in the driver says otherwise.

## 4. Proofs

Proved for every value of the constants that satisfies the assumptions named
next to them (`SlotsAssumption`: between 1 and 32767 slots, the largest value of
a semaphore; `ChunkAssumption`; `FilesAssumption`; ... and `NAssumption`):

| theorem | statement |
|---|---|
| `TypeCorrect` | `RingCopy`: `Spec => []TypeOK`, all versions |
| `SlotsAreExclusive` | 1.0 and 1.2: `[]SlotExclusion` |
| `IpcIsKept` | 1.0 and 1.2: `[]IpcOutlivesChildren` |
| `OutputStaysPrefix`, `AnnouncementIsTrue`, `NobodyIsStranded` | 1.2: `[]OutputIsPrefix`, `[]AnnouncedCopyIsWhole`, `[]NobodyStranded` |
| `ImplementsFifo` | 1.0 and 1.2: `Spec => IsBoundedFifo` |
| `SumTypes`, `SumsAreExact`, `SetIsKept` | lab2, any number of rounds: `[]TypeOK`, `[]PrintsPartialSums`, `[]SetOutlivesThreads` |
| `ImplementsOnePlaceQueue` | lab2: `Spec => IsOnePlaceQueue` |
| `OffsetsInBuffer`, `CopiesInBuffer`, `OffsetsAreCounts`, `ReadsBackWhatWasWritten` | `MyDev`, any processes and buffer size: `[]TypeOK`, `[]CopyInBounds`, `[]OffsetsCount`, `[]ReadsBack` |
| `ChatTypeOK`, `ChatReachesItsDevice`, `ChatListExact`, `ChatThreadsSurvive` | `ChatServer`, any connections, devices, ids and requests: `[]TypeOK`, `[]ReachesItsDevice`, `[]ListExact`, `[]ThreadsSurvive` |
| `FileTypeOK`, `FileBitmapsExact`, `FileNoNodeShared`, `FileNoBlockShared`, `FileTreeLinks` | `FileManager`, any sizes, names and lines: `Spec /\ []Room` implies `[]TypeOK`, `[]BitmapsExact`, `[]NoNodeShared`, `[]NoBlockShared`, `[]TreeLinks` |
| `FileIsTreeFs` | `FileManager`: `Spec /\ []Room => IsTreeFs` |
| `FileRoom`, `FileSpare` | with `FNodeNum * BlkPerFile < BlkNum`: `Spec => []Room`, and so all six of the above for every run |
| `SymTypeOK`, `SymTableSound`, `SymNoEarlyFree`, `SymSplitScopesEnd`, `SymFunctionsStay`, `SymGlobalsUnique` | `SymbolTable`, any names, hash function, program and bounds: `[]TypeOK`, `[]TableSound`, `[]NoEarlyFree`, `[]SplitScopesEnd`, `[]FunctionsStay`, `[]GlobalsUnique` |
| `QueueTypes`, `Que2sImplementsQueue`, `QueisImplementsStack` | `StackQueue`, any capacity and values: `[]TypeOK`, `Spec => Que2sIsQueue`, `Spec => QueisIsStack` |

**Copier.** None of the properties is inductive: exclusion depends on the
semaphore values, these on how many chunks each side has handled, and the chunk
numbers on both. `RingInv` ties them together: `ProcInv` (who exists at which
point of the parent, and which IPC objects), `SemInv` (the two semaphores count
the slots that are neither full nor held, and the full ones not held),
`IndexInv` (the full slots are the `Backlog` slots from `out` on, and `in` is the
next), `ContentInv` (those slots hold the chunks that follow the ones given
back, in order), `ReadInv` (what readbuf has read: whole chunks, and one shorter
one, last) and `AbortInv`. If both processes were in one slot, `IndexInv` would
make the backlog 0 or `Slots`, and `SemInv` a semaphore negative. `LengthInv`
adds that lengths travel with the chunks and what writebuf has made of them,
which the three results about 1.2 need. With `TextLength` it is false, since
`atoi` may read on behind the three digits, and with `PerSlot` even `SemInv` is. For the refinement,
`RingCopyLengths` shows that the queue seen through the mapping is a run of
consecutive chunk numbers: `ReaderV` appends the next one, `WriterFwrite` takes
the first, and no other step changes it.

**lab2.** One token moves between the two semaphores and the two threads
(`TokenInv`). Where it is says how many sums are computed, stored and printed
(`RoundInv`), and `SumInv` says which sum `num` and `a` hold, as in
`2 * num = i * (i + 1)`. `PhaseInv` says which threads exist when; it is what
makes the set outlive them.

**Device.** `CopyInBounds` is inductive together with `TypeOK`: the offset and the clipped
count of a call belong together, and nothing about the global offsets is needed beyond
their range, which is why overlap cannot break it. For `OffsetsCount` and `ReadsBack`
the invariant adds, as long as calls have not overlapped, that at most one call is in
progress and the offsets are the numbers of bytes moved (`PlaceInv`), that what the call
has copied so far is the same on both sides (`MovedInv`), and that the buffer starts with
the bytes sent as long as they have not filled it (`PrefixInv`); and always that nobody
is inside an unloaded module and that a byte read has recorded no more bytes than were
written (`BackInv`).

**Chat server.** `BaseInv` holds whatever overlaps: `size`, and every stale copy of it that a
thread carries through `remove`, stays below the number of places the main thread has asked
for (`Reach`), only added beans are listed, found or logged out, and a bean is closed before
it is taken out. It carries the types, and `DeviceInv` on top of it, which says that with
distinct ids a device is known only of a client that claimed it, since a LOGIN can then
find no bean but its own. `ListInv` and `LifeInv` hold as long as no LOGOUT has overlapped.
`ListInv` says what the array holds between the steps of `add` and `remove` (`StillArray`,
`TakenArray`), and that the place a thread has found stays the place of its bean
(`PlaceOf`); the removing thread has the list to itself (`Alone`), which is what the
history variable gives, so nobody else's place moves. The lemmas `HoldsAdd`, `HoldsDrop`
and `HoldsClear` are the three updates of the array. `LifeInv` lists why each exception
cannot happen: a closed bean is out or being taken out (`ClosedInv`), so a request never
finds one; a LOGIN has its own bean still ahead of it (`AheadOf`), so it stops before an
empty place the main thread is about to fill; and an iterator's `modCount` is current
(`IterOf`).

**File system.** The tree is spread over the cache, the bitmaps in memory and the disk, and
no command keeps any of the three correct alone. `FileManagerProofs` therefore looks at two
tables and three sets: `Dirs` and `Files` are the node tables as they will be once the cache
has been saved, and `MarkedDirs`, `MarkedFiles`, `MarkedBlks` the marks that count (those in
memory while the program runs, the saved ones otherwise). `FileInv` has four parts.
`TreeInv` says that tables and marks are a tree (`IsTree`): the marked directories are the
ones reached from the root, each with one entry, and the same for files and blocks; numbers,
parents and names agree; every array has room. `CacheInv` says that the current directory is in the tree and
has one cached node for each entry, and that nothing is cached while the program is down;
`DiskInv` that the disk keeps its types and the root its number, and is blank until the
first start; `Room` that the last block is free.
The five invariants are each a part of what `IsTree` says; none is inductive without the
others, since for instance `rmd` walks the disk, not the cache, and gives back the right nodes
only if the links below the current directory are on the disk already, and a node taken by
`mkdir` is fresh only if the marks are exact.

The proof has two layers. Below, the lemmas about `IsTree` know no variables: adding a leaf,
adding a block, taking a file out, taking a subtree out keep a tree a tree (`Mkdir`, `Touch`,
`Write`, `Rm`, `Rmdir`). A subtree is the least set closed under links (`Reached`), and so
are the directories in use; that a directory outside the removed subtree keeps its way
from the root is an argument about closed sets and needs no induction over paths. Above, one
lemma for each command says which of these edits it makes on `Dirs` and `Files`; for
`cd`, exit and restart it is none, as saving and reloading only move what is in the cache
(`Saved`, `Opened`, `SubtreeOnDisk`). The refinement uses the same layer: what `TreeFs` sees
is the marked part of the two tables, and each edit of them is the edit `TreeFs` makes.

`Room` is a hypothesis because of a flaw of the layout: the mark of the last block is also the
first word of node 0, the root's number. With the sizes in the code the files can use all
blocks (1024 files of 80 blocks, 81920 blocks), so that a full disk does reach it; the
theorems speak of every run up to then. `FileRoom` shows that with one block more than
the files can use the last block is never asked for: were all blocks marked, then
exactness of the bitmap would count them as blocks of marked files, and those are too few.
All the `file_` runs have such sizes. Kills (`SpecCrash`) are outside the theorems, and
`file_crash` shows why.

**Symbol table.** Which chain a symbol is in depends on everything that was nested before it, and
the links do not say it. The invariant (`SymInv`) therefore speaks of a function `own` from the
live symbols to the open scopes, 0 standing for the chain that `delscope` is freeing; the theorem
`SymInvariant` says that at all times there is one. `ChainInv` says that the symbols with
`own[t] = k` are a list from the token of scope `k` in which every link goes to the next younger
symbol (`Linked`), and that `n_token` ends a list; `HashInv` that in a bucket `prev` undoes
`next` and leads to a younger symbol or to the head. Since the links follow the order in
which symbols were entered, both speak of one symbol and its neighbours only, and what a
loop along them meets follows without induction over its length: if a closed set left out part of a
list, the oldest symbol left out would be linked from an older one that is not (`ChainIs`), and in a
bucket the youngest one from a younger one or the head (`BucketIs`). `NumInv` adds that scopes are numbered in the order they are
opened and a chain has symbols only of its own and of later scopes, so that what `delscope` frees is
of no open scope; `ApartInv` that the symbols entered behind a nested scope are in the chain
of their own scope and all other functions in the global one; `Unique` is `GlobalsUnique`.
None of this is kept without knowing where `n_token` stands, which the table alone does not
say either: `TailInv` ties it to the walk. Behind a nested scope it is at the end of the chain of
the innermost scope, because `delscope` has put it there; and while no frame but the global
one has seen a nested scope end, it is still in the global chain, which is why the function whose name
is read in its own scope stays. One lemma for each operation on the table (`AddTable`,
`EnTable`, `PopTable`, `UnlinkTable`) keeps the parts about the table, with the `own` that belongs
to the new one, and one for each action of the walk adds the frames.

**Queues.** `TypeOK` carries the induction: both stacks together fit into one. For
`QUE2S` each step of the loop leaves the waiting sequence unchanged, because reversing a
stack and appending one value commute; for `QUEIS` the loop index and the sizes are tied
together, so that exactly one value is moved, and the two stacks one behind the other are
the abstract stack.

Only model-checked: the liveness properties (`EndsOrNamedWait`, `AllSumsPrinted`,
`ShutdownOrStuck`, `Outcomes`), since the prover does no fairness, and version 1.1. Every
invariant of the runs that pass is proved.

## 5. Plan

1. Proofs: for `PipeSignal` an invariant that says who can still be running when its parent
   has ended; for 1.1 the token invariant of each buffer.
2. Two copiers at once on the same IPC keys, as far as something remains true of them.
3. Small functional models: row partition, victim selection, quicksort and selection
   against reference definitions.
