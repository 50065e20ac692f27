------------------------------ MODULE InodeLocks ------------------------------
(***************************************************************************)
(* The threads that call the file system of the first exercise             *)
(* (p1 fs/operations.c, fs/state.c): the read-write lock of each i-node,   *)
(* the mutex of each open file and that of their table, taken and given up *)
(* one by one, with the ones a call leaves held when it returns.  Files    *)
(* are reduced to their first block; BlockMap.tla has the rest.            *)
(*                                                                         *)
(* The locks are those of glibc.  The thread that has the write lock of an *)
(* i-node and asks for either lock again gets EDEADLK, which the code does *)
(* not look at, and its next unlock gives the write lock up.  To lock a    *)
(* mutex again, or to ask for the write lock while one reads, blocks.      *)
(***************************************************************************)
EXTENDS Integers, FiniteSets

CONSTANTS
  Threads, NoThread,
  INODE_TABLE_SIZE, DATA_BLOCKS, MAX_OPEN_FILES,  \* fs/config.h
  MAX_DIR_ENTRIES,  \* entries that fit in the block of a directory
  Names, NoName,    \* the names of files; that of an entry never filled
  Calls             \* the calls threads make

ROOT_DIR_INUM == 0
Inodes  == 0 .. INODE_TABLE_SIZE - 1
Blocks  == 0 .. DATA_BLOCKS - 1
Handles == 0 .. MAX_OPEN_FILES - 1
Slots   == 0 .. MAX_DIR_ENTRIES - 1

ASSUME LocksAssumption ==
  /\ NoThread \notin Threads /\ NoName \notin Names
  /\ {INODE_TABLE_SIZE, DATA_BLOCKS} \subseteq Nat \ {0}
  /\ {MAX_OPEN_FILES, MAX_DIR_ENTRIES} \subseteq Nat \ {0}
  /\ Calls \subseteq {"open", "close", "write", "read"}

\* The directory is full before the i-nodes are: 23 entries, 50 i-nodes.
ASSUME DirectoryAssumption == MAX_DIR_ENTRIES + 1 < INODE_TABLE_SIZE

VARIABLES
  writer,       \* the thread that has the write lock of each i-node
  readers,      \* the threads that have its read lock
  mtx,          \* the owner of the mutex of each open file
  table_mtx,    \* the owner of free_open_file_entries_mtx
  freeinode_ts, free_blocks, free_open_file_entries,  \* FREE or TAKEN
  i_data_block, \* the first block of each i-node, -1 while it is empty
  dir_entry,    \* the entries of the root directory
  of_inumber,   \* the i-node of each open file
  pc,           \* where each thread stands
  call,         \* the call each thread makes, or made last
  inum,         \* its local variable inum, or the i-node of its file
  at            \* the index its loop has come to, or found

locks  == <<writer, readers, mtx, table_mtx>>
tables == <<freeinode_ts, free_blocks, free_open_file_entries, i_data_block,
            dir_entry, of_inumber>>
locals == <<call, inum, at>>
vars   == <<locks, tables, pc, locals>>

Lowest(S) == CHOOSE i \in S : \A j \in S : i <= j

EmptySlots == {s \in Slots : dir_entry[s].d_inumber = -1}

\* Mutant: the search ends before the last entry.
MissesTheLast(name) ==
  LET hits == {s \in Slots \ (EmptySlots \cup {MAX_DIR_ENTRIES - 1}) :
                 dir_entry[s].d_name = name}
  IN  IF hits = {} THEN -1 ELSE dir_entry[Lowest(hits)].d_inumber

find_in_dir(name) ==
  LET hits == {s \in Slots \ EmptySlots : dir_entry[s].d_name = name}
  IN  IF hits = {} THEN -1 ELSE dir_entry[Lowest(hits)].d_inumber

NoCall == [op |-> "none", name |-> NoName, fh |-> -1]

Init ==
  /\ writer = [i \in Inodes |-> NoThread] /\ readers = [i \in Inodes |-> {}]
  /\ mtx = [h \in Handles |-> NoThread] /\ table_mtx = NoThread
  /\ freeinode_ts = [i \in Inodes |-> IF i = ROOT_DIR_INUM THEN "TAKEN" ELSE "FREE"]
  /\ free_blocks = [b \in Blocks |-> IF b = 0 THEN "TAKEN" ELSE "FREE"]
  /\ free_open_file_entries = [h \in Handles |-> "FREE"]
  /\ i_data_block = [i \in Inodes |-> 0]
  /\ dir_entry = [s \in Slots |-> [d_inumber |-> -1, d_name |-> NoName]]
  /\ of_inumber = [h \in Handles |-> 0]
  /\ pc = [t \in Threads |-> "idle"]
  /\ call = [t \in Threads |-> NoCall]
  /\ inum = [t \in Threads |-> 0] /\ at = [t \in Threads |-> 0]

(***************************************************************************)
(* The locks.                                                              *)
(***************************************************************************)

CanRead(t, i)  == writer[i] \in {NoThread, t}
CanWrite(t, i) == writer[i] = t \/ (writer[i] = NoThread /\ readers[i] = {})

rdlock(t, i) ==
  /\ CanRead(t, i)
  /\ readers' = IF writer[i] = t THEN readers
                ELSE [readers EXCEPT ![i] = readers[i] \cup {t}]
  /\ UNCHANGED writer

wrlock(t, i) ==
  /\ CanWrite(t, i)
  /\ writer' = [writer EXCEPT ![i] = t]
  /\ UNCHANGED readers

\* unlock of each i-node in S by t.
unlock(t, S) ==
  /\ writer'  = [i \in Inodes |-> IF i \in S /\ writer[i] = t THEN NoThread ELSE writer[i]]
  /\ readers' = [i \in Inodes |-> IF i \in S /\ writer[i] # t
                                  THEN readers[i] \ {t} ELSE readers[i]]

\* rdlock, a look, and unlock: a thread that has the write lock gives it up.
glance(t, i) ==
  /\ CanRead(t, i)
  /\ writer' = [writer EXCEPT ![i] = NoThread]
  /\ UNCHANGED readers

Goto(t, label) == pc' = [pc EXCEPT ![t] = label]

\* The call returns, and its local variables are gone.
Return(t) ==
  /\ Goto(t, "idle")
  /\ call' = [call EXCEPT ![t] = NoCall]
  /\ inum' = [inum EXCEPT ![t] = 0] /\ at' = [at EXCEPT ![t] = 0]

-----------------------------------------------------------------------------
(***************************************************************************)
(* A thread enters a call.                                                 *)
(***************************************************************************)

\* Files are opened with or without TFS_O_CREAT; handles are those some
\* tfs_open returned.
Invoke(t) ==
  /\ pc[t] = "idle"
  /\ \E op \in Calls :
       \/ /\ op = "open"
          /\ \E name \in Names : \E creat \in {"create", "find"} :
               call' = [call EXCEPT ![t] = [op |-> creat, name |-> name, fh |-> -1]]
          /\ Goto(t, "lookup")
       \/ /\ op # "open"
          /\ \E h \in Handles :
               /\ of_inumber[h] # ROOT_DIR_INUM
               /\ call' = [call EXCEPT ![t] = [op |-> op, name |-> NoName, fh |-> h]]
          /\ Goto(t, "entry mutex")
  /\ UNCHANGED <<locks, tables, inum, at>>

-----------------------------------------------------------------------------
(***************************************************************************)
(* tfs_open.                                                               *)
(***************************************************************************)

Lookup(t) ==
  LET found == find_in_dir(call[t].name)
  IN  /\ pc[t] = "lookup"
      /\ glance(t, ROOT_DIR_INUM)
      /\ \/ /\ found = -1 /\ call[t].op = "find"
            /\ Return(t)
         \/ /\ found # -1 \/ call[t].op = "create"
            /\ inum' = [inum EXCEPT ![t] = found]
            /\ Goto(t, IF found = -1 THEN "inode_create" ELSE "inode_get")
            /\ UNCHANGED <<call, at>>
      /\ UNCHANGED <<mtx, table_mtx, tables>>

\* The file exists: inode_get, and then the offset is taken from the size.
Existing(t) ==
  /\ pc[t] \in {"inode_get", "offset"}
  /\ glance(t, inum[t])
  /\ Goto(t, IF pc[t] = "inode_get" THEN "offset" ELSE "table")
  /\ UNCHANGED <<mtx, table_mtx, tables, locals>>

\* Mutant: the write lock of an i-node that is not free is given up again.
Releases(t, i) == CanWrite(t, i) /\ unlock(t, {i})

\* The i-nodes inode_create skips stay locked.
Skips(t, i) == wrlock(t, i)

\* One turn of the loop of inode_create, which never comes to its end.  Only
\* the lock of the i-node it takes is given up.
inode_create(t) ==
  LET i == at[t]
  IN  /\ pc[t] = "inode_create"
      /\ i \in Inodes
      /\ IF freeinode_ts[i] = "FREE"
         THEN /\ CanWrite(t, i) /\ unlock(t, {i})
              /\ freeinode_ts' = [freeinode_ts EXCEPT ![i] = "TAKEN"]
              /\ i_data_block' = [i_data_block EXCEPT ![i] = -1]
              /\ inum' = [inum EXCEPT ![t] = i]
              /\ Goto(t, "lock_new")
              /\ UNCHANGED at
         ELSE /\ Skips(t, i)
              /\ at' = [at EXCEPT ![t] = i + 1]
              /\ UNCHANGED <<freeinode_ts, i_data_block, inum, pc>>
      /\ UNCHANGED <<mtx, table_mtx, free_blocks, free_open_file_entries,
                     dir_entry, of_inumber, call>>

\* inode_get and rdlock of the new i-node.
LockNew(t) ==
  /\ pc[t] = "lock_new"
  /\ rdlock(t, inum[t])
  /\ Goto(t, "find_slot")
  /\ UNCHANGED <<mtx, table_mtx, tables, locals>>

\* add_dir_entry up to the first empty entry.  When there is none, inode_delete
\* asks for the write lock of the i-node that the thread itself reads: it
\* stays at "inode_delete" for ever.
FindSlot(t) ==
  /\ pc[t] = "find_slot"
  /\ IF EmptySlots = {}
     THEN glance(t, ROOT_DIR_INUM) /\ Goto(t, "inode_delete") /\ UNCHANGED at
     ELSE /\ rdlock(t, ROOT_DIR_INUM)
          /\ at' = [at EXCEPT ![t] = Lowest(EmptySlots)]
          /\ Goto(t, "fill_slot")
  /\ UNCHANGED <<mtx, table_mtx, tables, call, inum>>

\* The rest of add_dir_entry, and the unlock of the new i-node.
FillSlot(t) ==
  /\ pc[t] = "fill_slot"
  /\ dir_entry' = [dir_entry EXCEPT
       ![at[t]] = [d_inumber |-> inum[t], d_name |-> call[t].name]]
  /\ unlock(t, {ROOT_DIR_INUM, inum[t]})
  /\ Goto(t, "table")
  /\ UNCHANGED <<mtx, table_mtx, freeinode_ts, free_blocks,
                 free_open_file_entries, i_data_block, of_inumber, locals>>

\* add_to_open_file_table takes the mutex of the table.
LockTable(t) ==
  /\ pc[t] = "table" /\ table_mtx = NoThread
  /\ table_mtx' = t
  /\ at' = [at EXCEPT ![t] = 0]
  /\ Goto(t, "entries")
  /\ UNCHANGED <<writer, readers, mtx, tables, call, inum>>

\* Mutant: the mutex of an entry that is taken is given up again.
GivesUp(t, h) == mtx

\* The mutex of an entry that is taken stays locked.
SkipsEntry(t, h) == [mtx EXCEPT ![h] = t]

\* One turn of its loop.  After the last entry tfs_open returns -1.
TryEntry(t) ==
  LET h == at[t]
  IN  /\ pc[t] = "entries" /\ mtx[h] = NoThread
      /\ IF free_open_file_entries[h] = "FREE"
         THEN /\ free_open_file_entries' = [free_open_file_entries EXCEPT ![h] = "TAKEN"]
              /\ of_inumber' = [of_inumber EXCEPT ![h] = inum[t]]
              /\ UNCHANGED mtx
         ELSE mtx' = SkipsEntry(t, h) /\ UNCHANGED <<free_open_file_entries, of_inumber>>
      /\ IF free_open_file_entries[h] = "FREE" \/ h + 1 \notin Handles
         THEN table_mtx' = NoThread /\ Return(t)
         ELSE /\ at' = [at EXCEPT ![t] = h + 1]
              /\ UNCHANGED <<table_mtx, pc, call, inum>>
      /\ UNCHANGED <<writer, readers, freeinode_ts, free_blocks, i_data_block,
                     dir_entry>>

-----------------------------------------------------------------------------
(***************************************************************************)
(* tfs_close, tfs_write and tfs_read.                                      *)
(***************************************************************************)

\* Mutant: tfs_write and tfs_read do not take the mutex again that
\* get_open_file_entry has released.
TestsTheMutex(t) ==
  IF call[t].op = "close" THEN [mtx EXCEPT ![call[t].fh] = t] ELSE mtx

EntryMutex(t) == [mtx EXCEPT ![call[t].fh] = t]

\* The mutex of the open file: the first of tfs_close, and the one tfs_write
\* and tfs_read take after get_open_file_entry has taken and released it.
LockEntry(t) ==
  LET h == call[t].fh
  IN  /\ pc[t] = "entry mutex" /\ mtx[h] = NoThread
      /\ mtx' = EntryMutex(t)
      /\ inum' = [inum EXCEPT ![t] = of_inumber[h]]
      /\ Goto(t, IF call[t].op = "close" THEN "close" ELSE "file inode")
      /\ UNCHANGED <<writer, readers, table_mtx, tables, call, at>>

\* remove_from_open_file_table, once it has both mutexes.
Close(t) ==
  /\ pc[t] = "close" /\ table_mtx = NoThread
  /\ free_open_file_entries' = [free_open_file_entries EXCEPT ![call[t].fh] = "FREE"]
  /\ mtx' = [mtx EXCEPT ![call[t].fh] = NoThread]
  /\ Return(t)
  /\ UNCHANGED <<writer, readers, table_mtx, freeinode_ts, free_blocks,
                 i_data_block, dir_entry, of_inumber>>

\* Mutant: inode_get returns with the read lock held.
KeepsReadLock(t) ==
  /\ pc[t] = "file inode"
  /\ rdlock(t, inum[t])
  /\ Goto(t, "file lock")
  /\ UNCHANGED <<mtx, table_mtx, tables, locals>>

\* inode_get of the file.
GetInode(t) ==
  /\ pc[t] = "file inode"
  /\ glance(t, inum[t])
  /\ Goto(t, "file lock")
  /\ UNCHANGED <<mtx, table_mtx, tables, locals>>

FileLock(t, i) == IF call[t].op = "write" THEN wrlock(t, i) ELSE rdlock(t, i)

\* A write to an empty file needs a block first.
LockInode(t) ==
  /\ pc[t] = "file lock"
  /\ FileLock(t, inum[t])
  /\ Goto(t, IF call[t].op = "write" /\ i_data_block[inum[t]] = -1 THEN "alloc" ELSE "copy")
  /\ UNCHANGED <<mtx, table_mtx, tables, locals>>

FreeBlocks == {b \in Blocks : free_blocks[b] = "FREE"}

\* Mutant: a search that finds no block ends with the index it has come to.
FindsTheEnd(t) ==
  /\ pc[t] = "alloc"
  /\ Goto(t, "take")
  /\ at' = [at EXCEPT ![t] = IF FreeBlocks = {} THEN DATA_BLOCKS ELSE Lowest(FreeBlocks)]
  /\ UNCHANGED <<locks, tables, call, inum>>

\* data_block_alloc finds a free block; without one tfs_write returns -1 and
\* leaves the mutex and the write lock as they are.
FindBlock(t) ==
  /\ pc[t] = "alloc"
  /\ IF FreeBlocks = {} THEN Return(t)
     ELSE /\ Goto(t, "take") /\ at' = [at EXCEPT ![t] = Lowest(FreeBlocks)]
          /\ UNCHANGED <<call, inum>>
  /\ UNCHANGED <<locks, tables>>

\* data_block_alloc marks it, whoever has marked it since.
TakeBlock(t) ==
  /\ pc[t] = "take"
  /\ free_blocks' = [free_blocks EXCEPT ![at[t]] = "TAKEN"]
  /\ i_data_block' = [i_data_block EXCEPT ![inum[t]] = at[t]]
  /\ Goto(t, "copy")
  /\ UNCHANGED <<locks, freeinode_ts, free_open_file_entries, dir_entry,
                 of_inumber, locals>>

\* The bytes have been copied: both locks are given up.
Finish(t) ==
  /\ pc[t] = "copy"
  /\ mtx' = [mtx EXCEPT ![call[t].fh] = NoThread]
  /\ unlock(t, {inum[t]})
  /\ Return(t)
  /\ UNCHANGED <<table_mtx, tables>>

\* What a thread does inside a call when it is not blocked.
Step(t) ==
  \/ Lookup(t) \/ Existing(t) \/ inode_create(t) \/ LockNew(t)
  \/ FindSlot(t) \/ FillSlot(t) \/ LockTable(t) \/ TryEntry(t)
  \/ LockEntry(t) \/ Close(t) \/ GetInode(t) \/ LockInode(t)
  \/ FindBlock(t) \/ TakeBlock(t) \/ Finish(t)

Next == \E t \in Threads : Invoke(t) \/ Step(t)

\* A thread inside a call is scheduled; nobody has to make a call.
Fairness == \A t \in Threads : WF_vars(Step(t))

Spec == Init /\ [][Next]_vars

FairSpec == Spec /\ Fairness

-----------------------------------------------------------------------------
Labels == {"idle", "lookup", "inode_get", "offset", "inode_create", "lock_new",
           "find_slot", "fill_slot", "inode_delete", "table", "entries",
           "entry mutex", "close", "file inode", "file lock", "alloc", "take",
           "copy"}

\* Every variable holds values of its kind, and inode_create always finds an
\* i-node: the -1 it would return is used as one before it is looked at.
TypeOK ==
  /\ writer \in [Inodes -> Threads \cup {NoThread}]
  /\ readers \in [Inodes -> SUBSET Threads]
  /\ mtx \in [Handles -> Threads \cup {NoThread}]
  /\ table_mtx \in Threads \cup {NoThread}
  /\ freeinode_ts \in [Inodes -> {"FREE", "TAKEN"}]
  /\ free_blocks \in [Blocks -> {"FREE", "TAKEN"}]
  /\ free_open_file_entries \in [Handles -> {"FREE", "TAKEN"}]
  /\ i_data_block \in [Inodes -> Blocks \cup {-1}]
  /\ dir_entry \in [Slots -> [d_inumber : Inodes \cup {-1}, d_name : Names \cup {NoName}]]
  /\ of_inumber \in [Handles -> Inodes]
  /\ pc \in [Threads -> Labels]
  /\ call \in [Threads -> [op : {"none", "create", "find", "close", "write", "read"},
                           name : Names \cup {NoName}, fh : Handles \cup {-1}]]
  /\ inum \in [Threads -> Inodes \cup {-1}] /\ at \in [Threads -> Nat]
  /\ \A t \in Threads : pc[t] = "inode_create" => at[t] \in Inodes

\* The threads that have taken an i-node and not entered it yet.
Creating(t) == pc[t] \in {"lock_new", "find_slot", "fill_slot", "inode_delete"}

\* No two creates take the same entry of the directory, although both write
\* it under a read lock (add_dir_entry): every i-node that is taken is that of
\* one entry, or that of the one thread about to enter it.
DirectoryMatches ==
  LET files   == {i \in Inodes \ {ROOT_DIR_INUM} : freeinode_ts[i] = "TAKEN"}
      full    == Slots \ EmptySlots
      entered == {dir_entry[s].d_inumber : s \in full}
      pending == {inum[t] : t \in {u \in Threads : Creating(u)}}
  IN  /\ entered \cup pending = files /\ entered \cap pending = {}
      /\ \A s, r \in full : dir_entry[s].d_inumber = dir_entry[r].d_inumber => s = r
      /\ \A t, u \in Threads : Creating(t) /\ Creating(u) /\ inum[t] = inum[u] => t = u

Writing(t) == call[t].op = "write" /\ pc[t] \in {"alloc", "take", "copy"}
Reading(t) == call[t].op = "read" /\ pc[t] = "copy"

\* While a thread writes a file no other reads or writes it, also when its
\* lock was left to it by an earlier call and is not asked for again, and no
\* two threads move the offset of the same handle.
FilesExclusive ==
  \A t, u \in Threads : t # u /\ (Writing(t) \/ Reading(t)) /\ (Writing(u) \/ Reading(u)) =>
     /\ inum[t] = inum[u] => Reading(t) /\ Reading(u)
     /\ call[t].fh # call[u].fh

Held(t) == {i \in Inodes : writer[i] = t \/ t \in readers[i]}
Locked(t) == {h \in Handles : mtx[h] = t}

\* The locks a call is in need of.
InodesInUse(t) ==
  (IF pc[t] = "inode_create" \/ Creating(t) THEN {ROOT_DIR_INUM} ELSE {}) \cup
  (IF Creating(t) \/ pc[t] \in {"file lock", "alloc", "take", "copy"}
   THEN {inum[t]} ELSE {})

EntriesInUse(t) ==
  IF pc[t] \in {"close", "file inode", "file lock", "alloc", "take", "copy"}
  THEN {call[t].fh} ELSE {}

\* No thread has a lock it needs no more, be it before its call has returned (as
\* an open that finds the directory full, and waits for the read lock of its new
\* i-node to delete it); no close meets an open.
NothingLeft ==
  \A t \in Threads :
    /\ Held(t) \subseteq InodesInUse(t) /\ Locked(t) \subseteq EntriesInUse(t)
    /\ \A u \in Threads : ~(pc[t] = "entries" /\ pc[u] = "close")

\* The locks that calls leave held, or hold on to, and the opposite orders of the
\* two mutexes in open and close are the only ways to block for ever:
\* without them every call returns once threads make no more calls.
CallsReturn ==
  []NothingLeft /\ <>[][\A t \in Threads : pc[t] = "idle" => pc'[t] = "idle"]_vars =>
    \A t \in Threads : (pc[t] # "idle" ~> pc[t] = "idle")

\* "verifies if tecnico_fs can open and create multiple files in paralell",
\* assert(new_open[j].return_value >= 0) (tests/open_files.c): every tfs_open
\* returns.
OpensReturn == \A t \in Threads : (pc[t] # "idle" ~> pc[t] = "idle")

\* data_block_alloc tests and marks a block without a lock, yet two files never
\* have the same: an open that skips a handle leaves its mutex locked, so that
\* at most one handle is of use and one file is written at a time.
NoBlockShared ==
  \A i, j \in Inodes :
    /\ freeinode_ts[i] = "TAKEN" /\ freeinode_ts[j] = "TAKEN"
    /\ i_data_block[i] = i_data_block[j] /\ i_data_block[i] # -1
    => i = j

NamesUnique ==
  \A s, r \in Slots \ EmptySlots : dir_entry[s].d_name = dir_entry[r].d_name => s = r

\* A thread past its lookup of a name, before the name is entered.
PastLookup(t) == pc[t] = "inode_create" \/ Creating(t)

SameNameRace ==
  \E t, u \in Threads : /\ t # u /\ call[t].name = call[u].name
                       /\ PastLookup(t) /\ PastLookup(u)

NamesFresh ==
  /\ NamesUnique
  /\ \A t \in Threads, s \in Slots \ EmptySlots :
       PastLookup(t) => dir_entry[s].d_name # call[t].name

\* "create file if it does not exist (TFS_O_CREAT)" (operations.h): tfs_open
\* looks a name up and enters it under different holds of the lock.  As long as
\* no two threads are between the two with the same name, what a thread has
\* found missing still is, and no two files have the same name.
OnlyRacesDuplicateNames == [][NamesFresh /\ ~SameNameRace => NamesFresh']_vars
=============================================================================
