------------------------------- MODULE BlockMap -------------------------------
(***************************************************************************)
(* The file system of the first exercise as one thread sees it: files of   *)
(* direct blocks and one indirect block (p1 fs/operations.c, fs/state.c),  *)
(* with the locks that a call leaves held when it returns, on which a      *)
(* later call of the same thread blocks for ever.  InodeLocks.tla takes    *)
(* the calls apart for several threads.  Lengths and offsets count memory  *)
(* cells of sizeof(int) bytes, so that a cell holds a datum or an index.   *)
(***************************************************************************)
EXTENDS Integers, Sequences, FiniteSets

CONSTANTS
  INODE_TABLE_SIZE, DATA_BLOCKS, MAX_OPEN_FILES, \* fs/config.h
  BLOCK_SIZE,       \* in cells, hence also the indices an indirect block holds
  NDIRECT,          \* the direct blocks of a file (10)
  MAX_DIR_ENTRIES,  \* entries that fit in the block of a directory
  Names,            \* names of files that fit in d_name, the paths callers pass
  NoName,           \* the name of an entry never filled
  Data,             \* what callers write in a cell; 0 is memory never written
  Lens,             \* bound: the lengths of the buffers callers pass
  Flags,            \* the flags callers use
  LargeWrites       \* may the write that outgrows the direct blocks add several?

ROOT_DIR_INUM == 0
Inodes  == 0 .. INODE_TABLE_SIZE - 1
Blocks  == 0 .. DATA_BLOCKS - 1
Handles == 0 .. MAX_OPEN_FILES - 1
Slots   == 0 .. MAX_DIR_ENTRIES - 1
Cells   == 0 .. BLOCK_SIZE - 1
MAX_FILE_SIZE == (NDIRECT + BLOCK_SIZE) * BLOCK_SIZE

ASSUME SizesAssumption ==
  /\ {INODE_TABLE_SIZE, DATA_BLOCKS, MAX_OPEN_FILES} \subseteq Nat \ {0}
  /\ {BLOCK_SIZE, NDIRECT, MAX_DIR_ENTRIES} \subseteq Nat \ {0}

ASSUME CallersAssumption ==
  /\ NoName \notin Names /\ Data \subseteq Nat \ {0} /\ Lens \subseteq Nat
  /\ Flags \subseteq {"TFS_O_CREAT", "TFS_O_TRUNC", "TFS_O_APPEND"}
  /\ LargeWrites \in BOOLEAN

\* The directory is full before the i-nodes are: 23 entries, 50 i-nodes.
ASSUME DirectoryAssumption == MAX_DIR_ENTRIES + 1 < INODE_TABLE_SIZE

VARIABLES
  inode_table,             \* i_size and i_data_blocks of each i-node
  freeinode_ts,            \* FREE or TAKEN, per i-node
  free_blocks,             \* FREE or TAKEN, per block
  fs_data,                 \* the cells of the blocks
  dir_entry,               \* the contents of the block of the root directory
  open_file_table,         \* of_inumber and of_offset of each handle
  free_open_file_entries,  \* FREE or TAKEN, per handle
  mtx,                     \* the handles whose mutex is left locked
  lock,                    \* the i-nodes whose lock has no writer any more
  reply                    \* the last call, its handle, its result, what it read

tables  == <<inode_table, freeinode_ts, free_blocks, fs_data, dir_entry>>
handles == <<open_file_table, free_open_file_entries, mtx>>
vars    == <<tables, handles, lock, reply>>

(***************************************************************************)
(* Helpers of fs/state.c.                                                  *)
(***************************************************************************)

Lowest(S) == CHOOSE i \in S : \A j \in S : i <= j

Free(table)  == {i \in DOMAIN table : table[i] = "FREE"}
Taken(table) == {i \in DOMAIN table : table[i] = "TAKEN"}

OpenHandles == Taken(free_open_file_entries)

EmptySlots == {s \in Slots : dir_entry[s].d_inumber = -1}

find_in_dir(name) ==
  LET hits == {s \in Slots \ EmptySlots : dir_entry[s].d_name = name}
  IN  IF hits = {} THEN -1 ELSE dir_entry[Lowest(hits)].d_inumber

\* Mutant: a search that finds nothing returns the index it ended at.
ReturnsTheEnd(free) == IF Free(free) = {} THEN DATA_BLOCKS ELSE Lowest(Free(free))

\* The block data_block_alloc returns, and the table it leaves.
data_block_alloc(free) == IF Free(free) = {} THEN -1 ELSE Lowest(Free(free))

\* Mutant: the block is returned and not marked.
NotMarked(free) == free

AfterAlloc(free) == [b \in Blocks |->
                       IF b = data_block_alloc(free) THEN "TAKEN" ELSE free[b]]

Init ==
  /\ inode_table = [i \in Inodes |->
       [i_size        |-> IF i = ROOT_DIR_INUM THEN BLOCK_SIZE ELSE 0,
        i_data_blocks |-> [k \in 0 .. NDIRECT |-> 0]]]
  /\ freeinode_ts = [i \in Inodes |-> IF i = ROOT_DIR_INUM THEN "TAKEN" ELSE "FREE"]
  /\ free_blocks = [b \in Blocks |-> IF b = 0 THEN "TAKEN" ELSE "FREE"]
  /\ fs_data = [b \in Blocks |-> [c \in Cells |-> 0]]
  /\ dir_entry = [s \in Slots |-> [d_inumber |-> -1, d_name |-> NoName]]
  /\ open_file_table = [h \in Handles |-> [of_inumber |-> 0, of_offset |-> 0]]
  /\ free_open_file_entries = [h \in Handles |-> "FREE"]
  /\ mtx = {} /\ lock = {}
  /\ reply = [call |-> "init", fh |-> -1, ret |-> 0, bytes |-> <<>>]

Reply(call, fh, ret, bytes) ==
  reply' = [call |-> call, fh |-> fh, ret |-> ret, bytes |-> bytes]

\* The call never returns ("hung"), ends the process ("crash"), has written over
\* the block of the root directory ("overrun"), or has used memory outside the
\* tables as a mutex ("wild"): no call is modelled after.
End(how) == Reply(how, -1, -1, <<>>)

Running == reply.call \notin {"hung", "crash", "overrun", "wild"}

-----------------------------------------------------------------------------
(***************************************************************************)
(* tfs_open and tfs_close.                                                 *)
(***************************************************************************)

\* The entry the search takes, as a set that may be empty, and those it skips.
Chosen  == {h \in Handles : h \in Free(free_open_file_entries) /\
              \A k \in Free(free_open_file_entries) : h <= k}

\* Mutant: the mutex of the entry taken is not unlocked either.
UnlocksNone == {k \in Handles : \A h \in Free(free_open_file_entries) : k <= h}

Skipped == {k \in Handles : \A h \in Free(free_open_file_entries) : k < h}

\* The search locks the mutex of each entry it looks at and unlocks that of
\* the entry it takes, never those of the entries it skips.
add_to_open_file_table(inum, offset) ==
  IF mtx \cap (Skipped \cup Chosen) # {}
  THEN End("hung") /\ UNCHANGED handles
  ELSE /\ mtx' = mtx \cup Skipped
       /\ free_open_file_entries' = [h \in Handles |->
            IF h \in Chosen THEN "TAKEN" ELSE free_open_file_entries[h]]
       /\ open_file_table' = [h \in Handles |->
            IF h \in Chosen THEN [of_inumber |-> inum, of_offset |-> offset]
                            ELSE open_file_table[h]]
       /\ LET h == IF Chosen = {} THEN -1 ELSE Lowest(Chosen)
          IN  Reply("open", h, h, <<>>)

Invalid(indices) == {k \in DOMAIN indices : indices[k] \notin Blocks}

\* data_block_free of each index until the first that is no block.
FreedOf(indices) ==
  {indices[k] : k \in {j \in DOMAIN indices :
                         \A x \in Invalid(indices) : j < x}}

\* Truncation frees the indices of the indirect block, then the others; a
\* -1 among them ends it.  Both loops look at every index.
TruncFrees(inode) ==
  LET map    == inode.i_data_blocks
      spills == map[NDIRECT] # -1
      listed == IF spills THEN fs_data[map[NDIRECT]] ELSE [c \in {} |-> 0]
  IN  [done  |-> Invalid(listed) = {} /\ Invalid(map) = {},
       freed |-> FreedOf(listed) \cup
                   IF Invalid(listed) = {} THEN FreedOf(map) ELSE {}]

\* The name is in the directory.  A truncation that is done unlocks twice.
OpenExisting(inum, flags) ==
  LET inode  == inode_table[inum]
      cuts   == "TFS_O_TRUNC" \in flags /\ inode.i_size > 0
      trunc  == TruncFrees(inode)
      size   == IF cuts THEN 0 ELSE inode.i_size
  IN  /\ free_blocks' = IF cuts
           THEN [b \in Blocks |-> IF b \in trunc.freed THEN "FREE" ELSE free_blocks[b]]
           ELSE free_blocks
      /\ UNCHANGED <<freeinode_ts, fs_data, dir_entry>>
      /\ IF cuts /\ ~trunc.done
         THEN /\ Reply("open", -1, -1, <<>>)
              /\ UNCHANGED <<inode_table, handles, lock>>
         ELSE /\ inode_table' = [inode_table EXCEPT ![inum].i_size = size]
              /\ lock' = IF cuts THEN lock \cup {inum} ELSE lock
              /\ add_to_open_file_table(inum, IF "TFS_O_APPEND" \in flags THEN size ELSE 0)

NewInode == [i_size |-> 0, i_data_blocks |-> [k \in 0 .. NDIRECT |-> -1]]

\* inode_create asks for the write lock of every i-node up to the first free
\* one.  A full directory leads to inode_delete, which asks for the write lock
\* of the i-node whose read lock tfs_open holds.
OpenCreated(name) ==
  LET inum == Lowest(Free(freeinode_ts))
      slot == Lowest(EmptySlots)
  IN  IF lock \cap 0 .. inum # {}
      THEN End("hung") /\ UNCHANGED <<tables, handles, lock>>
      ELSE /\ freeinode_ts' = [freeinode_ts EXCEPT ![inum] = "TAKEN"]
           /\ inode_table' = [inode_table EXCEPT ![inum] = NewInode]
           /\ UNCHANGED <<free_blocks, fs_data, lock>>
           /\ IF EmptySlots = {}
              THEN End("hung") /\ UNCHANGED <<dir_entry, handles>>
              ELSE /\ dir_entry' = [dir_entry EXCEPT
                        ![slot] = [d_inumber |-> inum, d_name |-> name]]
                   /\ add_to_open_file_table(inum, 0)

tfs_open(name, flags) ==
  LET inum == find_in_dir(name)
  IN  /\ Running
      /\ \/ inum >= 0 /\ OpenExisting(inum, flags)
         \/ inum = -1 /\ "TFS_O_CREAT" \in flags /\ OpenCreated(name)
         \/ /\ inum = -1 /\ "TFS_O_CREAT" \notin flags
            /\ Reply("open", -1, -1, <<>>) /\ UNCHANGED <<tables, handles, lock>>

tfs_close(fh) ==
  /\ Running
  /\ UNCHANGED <<tables, open_file_table, mtx, lock>>
  /\ IF fh \in mtx
     THEN End("hung") /\ UNCHANGED free_open_file_entries
     ELSE IF fh \in OpenHandles
     THEN /\ free_open_file_entries' = [free_open_file_entries EXCEPT ![fh] = "FREE"]
          /\ Reply("close", fh, 0, <<>>)
     ELSE Reply("close", fh, -1, <<>>) /\ UNCHANGED free_open_file_entries

-----------------------------------------------------------------------------
(***************************************************************************)
(* tfs_write and tfs_read.                                                 *)
(***************************************************************************)

\* Callers pass what some tfs_open returned, open or closed since.
Issued(fh) == open_file_table[fh].of_inumber # ROOT_DIR_INUM

BlocksOf(size) == (size + BLOCK_SIZE - 1) \div BLOCK_SIZE

\* The block that holds the k-th block of a file, with ind the indirect block:
\* -1 where data_block_get returns NULL, and -2 where ind itself is NULL.
BlockAt(map, data, ind, k) ==
  CASE k < NDIRECT                  -> map[k]
    [] k >= NDIRECT /\ ind = -1     -> -2
    [] OTHER                        -> data[ind][k - NDIRECT]

\* Where the indirect block holds the index of the k-th block.
Place(k) == k - NDIRECT

\* Mutant: it also does when one block has its index there.
RenewsOnceMore(from) == from <= NDIRECT + 1

\* Does a write to a file of that many blocks take a new indirect block?
Renews(from) == from <= NDIRECT

\* One turn of the loop that gives a file its k-th block when it grows from
\* "from" blocks to "to".  The first loop body past the direct blocks takes a
\* block for the indices and clears the places beyond those it will use; so
\* does every later one of the same write.
Grow(g, k, from, to) ==
  IF g.fault THEN g
  ELSE IF k < NDIRECT
  THEN [g EXCEPT !.map[k] = data_block_alloc(g.free), !.free = AfterAlloc(@)]
  ELSE LET renews == Renews(from)
           ind    == IF renews THEN data_block_alloc(g.free) ELSE g.ind
           free   == IF renews THEN AfterAlloc(g.free) ELSE g.free
       IN  IF ind = -1 THEN [g EXCEPT !.fault = TRUE]
           ELSE [g EXCEPT !.map[NDIRECT] = IF renews THEN ind ELSE @,
                          !.ind = ind, !.free = AfterAlloc(free),
                          !.data[ind] = [c \in Cells |->
                            CASE c = Place(k) -> data_block_alloc(free)
                              [] renews /\ c >= to - NDIRECT -> -1
                              [] OTHER -> @[c]]]

\* The turns of a loop over the blocks "from" to "to" - 1 of a file.
Turns(from, to) == IF from < to THEN to - from ELSE 0

Ungrown(inode) ==
  [map |-> inode.i_data_blocks, ind |-> inode.i_data_blocks[NDIRECT],
   free |-> free_blocks, data |-> fs_data, fault |-> FALSE]

Grown(inode, to) ==
  LET from == BlocksOf(inode.i_size)
      turn[n \in Nat] == IF n = 0 THEN Ungrown(inode)
                         ELSE Grow(turn[n - 1], from + n - 1, from, to)
  IN  turn[Turns(from, to)]

\* The copy into the k-th block of the file; "from" and "to" are cells of the
\* file.  It stops at the first block there is none for.
Copy(g, k, from, to, v) ==
  LET b == BlockAt(g.map, g.data, g.ind, k)
  IN  IF g.stop # "no" THEN g
      ELSE IF b = -2 THEN [g EXCEPT !.stop = "crash"]
      ELSE IF b \notin Blocks THEN [g EXCEPT !.stop = "error"]
      ELSE IF b = 0 THEN [g EXCEPT !.stop = "overrun"]
      ELSE [g EXCEPT !.data[b] = [c \in Cells |->
              IF k * BLOCK_SIZE + c \in from .. to - 1 THEN v ELSE @[c]]]

Uncopied(g) ==
  [map |-> g.map, ind |-> g.ind, data |-> g.data, stop |-> IF g.fault THEN "crash" ELSE "no"]

Copied(g, from, to, v) ==
  LET first == from \div BLOCK_SIZE
      turn[n \in Nat] == IF n = 0 THEN Uncopied(g)
                         ELSE Copy(turn[n - 1], first + n - 1, from, to, v)
  IN  turn[Turns(first, BlocksOf(to))]

\* A call that fails after it has taken the mutex returns with it held.
LeavesLocked(call, fh) ==
  /\ mtx' = mtx \cup {fh}
  /\ Reply(call, fh, -1, <<>>)
  /\ UNCHANGED <<open_file_table, free_open_file_entries>>

Hangs == End("hung") /\ UNCHANGED <<tables, handles, lock>>

\* A write of n cells v.
tfs_write(fh, v, n) ==
  LET inum     == open_file_table[fh].of_inumber
      offset   == open_file_table[fh].of_offset
      inode    == inode_table[inum]
      to_write == IF n + offset > MAX_FILE_SIZE THEN MAX_FILE_SIZE - offset ELSE n
      end      == offset + to_write
      to       == BlocksOf(end)
      grown    == Grown(inode, to)
      copied   == Copied(grown, offset, end, v)
  IN  /\ Running /\ Issued(fh)
      /\ LargeWrites \/ to <= NDIRECT + 1 \/ BlocksOf(inode.i_size) > NDIRECT
      /\ IF fh \in mtx \/ inum \in lock THEN Hangs
         ELSE IF to_write = 0
         THEN Reply("write", fh, 0, <<>>) /\ UNCHANGED <<tables, handles, lock>>
         ELSE /\ free_blocks' = grown.free
              /\ fs_data' = copied.data
              /\ inode_table' = [inode_table EXCEPT ![inum] =
                   [i_data_blocks |-> grown.map,
                    i_size |-> IF copied.stop = "no" /\ end > inode.i_size
                               THEN end ELSE inode.i_size]]
              /\ UNCHANGED <<freeinode_ts, dir_entry, lock>>
              /\ CASE copied.stop = "no" ->
                        /\ open_file_table' =
                             [open_file_table EXCEPT ![fh].of_offset = end]
                        /\ Reply("write", fh, to_write, <<>>)
                        /\ UNCHANGED <<free_open_file_entries, mtx>>
                   [] copied.stop = "error" -> LeavesLocked("write", fh)
                   [] OTHER -> End(copied.stop) /\ UNCHANGED handles

\* What a read of n cells from offset on copies: all of them, or those before
\* the first block there is none for.
Gathered(inode, offset, n) ==
  LET at(p) == BlockAt(inode.i_data_blocks, fs_data, inode.i_data_blocks[NDIRECT],
                       p \div BLOCK_SIZE)
      fails == {p \in offset .. offset + n - 1 : at(p) \notin Blocks}
      last  == IF fails = {} THEN offset + n ELSE Lowest(fails)
  IN  [stop  |-> IF fails = {} THEN "no" ELSE IF at(last) = -2 THEN "crash" ELSE "error",
       bytes |-> [k \in 1 .. last - offset |->
                    fs_data[at(offset + k - 1)][(offset + k - 1) % BLOCK_SIZE]]]

\* size_t subtraction: a negative difference exceeds every length.
ToRead(size, offset, len) ==
  IF size < offset \/ size - offset > len THEN len ELSE size - offset

tfs_read(fh, len) ==
  LET inum    == open_file_table[fh].of_inumber
      offset  == open_file_table[fh].of_offset
      inode   == inode_table[inum]
      to_read == ToRead(inode.i_size, offset, len)
      read    == Gathered(inode, offset, to_read)
  IN  /\ Running /\ Issued(fh)
      /\ UNCHANGED tables
      /\ IF fh \in mtx THEN End("hung") /\ UNCHANGED <<handles, lock>>
         ELSE CASE read.stop = "no" ->
                     /\ open_file_table' =
                          [open_file_table EXCEPT ![fh].of_offset = offset + to_read]
                     /\ Reply("read", fh, to_read, read.bytes)
                     /\ UNCHANGED <<free_open_file_entries, mtx, lock>>
                [] read.stop = "error" ->
                     LeavesLocked("read", fh) /\ lock' = lock \cup {inum}
                [] OTHER -> End("crash") /\ UNCHANGED <<handles, lock>>

\* A handle of -1: the mutex of open_file_table[-1], memory outside the table, is
\* locked before the handle is tested.  If that returns and changes nothing,
\* tfs_close returns -1, and tfs_write and tfs_read use the NULL they get.
BadHandle(call) ==
  /\ Running
  /\ \/ End("wild")
     \/ IF call = "close" THEN Reply("close", -1, -1, <<>>) ELSE End("crash")
  /\ UNCHANGED <<tables, handles, lock>>

\* One turn of the loop of the copy: a read of up to BLOCK_SIZE.
CopyBlock(inode, out) ==
  LET done == Len(out.bytes)
      read == Gathered(inode, done, ToRead(inode.i_size, done, BLOCK_SIZE))
  IN  IF out.stop # "no" THEN out
      ELSE IF read.stop # "no" THEN [out EXCEPT !.stop = read.stop]
      ELSE [out EXCEPT !.bytes = @ \o read.bytes]

\* Mutant: the reads end before the one of the last block.
ReadsToEnd(size) == size \div BLOCK_SIZE

\* The reads that return something: the one after them returns 0.
Reads(size) == BlocksOf(size)

CopiedOut(inode) ==
  LET turn[n \in Nat] == IF n = 0 THEN [stop |-> "no", bytes |-> <<>>]
                         ELSE CopyBlock(inode, turn[n - 1])
  IN  turn[Reads(inode.i_size)]

\* tfs_open of the source without flags, fopen of the destination, which may
\* fail, reads of one block until one returns 0, and the close of both.  A
\* read that fails leaves both open.  The reply holds what the destination is
\* left with.
tfs_copy_to_external_fs(name) ==
  LET inum == find_in_dir(name)
      out  == CopiedOut(inode_table[inum])
      Leaves(h_state, offset) ==
        /\ free_open_file_entries' = [h \in Handles |->
             IF h \in Chosen THEN h_state ELSE free_open_file_entries[h]]
        /\ open_file_table' = [h \in Handles |->
             IF h \in Chosen THEN [of_inumber |-> inum, of_offset |-> offset]
                             ELSE open_file_table[h]]
      Returns(ret, bytes) == Reply("copy", -1, ret, bytes)
  IN  /\ Running
      /\ UNCHANGED tables
      /\ \/ /\ inum = -1
            /\ Returns(-1, <<>>) /\ UNCHANGED <<handles, lock>>
         \/ /\ inum >= 0 /\ mtx \cap (Skipped \cup Chosen) # {}
            /\ End("hung") /\ UNCHANGED <<handles, lock>>
         \/ /\ inum >= 0 /\ mtx \cap (Skipped \cup Chosen) = {}
            /\ \/ /\ mtx' = mtx \cup Skipped
                  /\ Returns(-1, <<>>) /\ Leaves("FREE", 0) /\ UNCHANGED lock
               \/ /\ Chosen # {} /\ out.stop = "no"
                  /\ mtx' = mtx \cup Skipped
                  /\ Returns(0, out.bytes) /\ Leaves("FREE", Len(out.bytes))
                  /\ UNCHANGED lock
               \/ /\ Chosen # {} /\ out.stop = "error"
                  /\ mtx' = mtx \cup Skipped \cup Chosen
                  /\ Returns(-1, out.bytes) /\ Leaves("TAKEN", Len(out.bytes))
                  /\ lock' = lock \cup {inum}
               \/ /\ Chosen # {} /\ out.stop = "crash"
                  /\ End("crash") /\ UNCHANGED <<handles, lock>>

Next ==
  \/ \E name \in Names, flags \in SUBSET Flags : tfs_open(name, flags)
  \/ \E fh \in Handles : tfs_close(fh)
  \/ \E fh \in Handles, v \in Data, n \in Lens : tfs_write(fh, v, n)
  \/ \E fh \in Handles, len \in Lens : tfs_read(fh, len)
  \/ \E name \in Names : tfs_copy_to_external_fs(name)
  \/ \E call \in {"close", "write", "read"} : BadHandle(call)

Spec == Init /\ [][Next]_vars

-----------------------------------------------------------------------------
(***************************************************************************)
(* Properties.                                                             *)
(***************************************************************************)

\* Every table holds values of its declared type (p1 fs/state.c, state.h): no
\* offset or size exceeds MAX_FILE_SIZE.
TypeOK ==
  /\ inode_table \in [Inodes -> [i_size : 0 .. MAX_FILE_SIZE,
                                 i_data_blocks : [0 .. NDIRECT -> Blocks \cup {-1}]]]
  /\ freeinode_ts \in [Inodes -> {"FREE", "TAKEN"}]
  /\ free_blocks \in [Blocks -> {"FREE", "TAKEN"}]
  /\ fs_data \in [Blocks -> [Cells -> Data \cup {0, -1} \cup Blocks]]
  /\ dir_entry \in [Slots -> [d_inumber : Inodes \cup {-1}, d_name : Names \cup {NoName}]]
  /\ open_file_table \in [Handles -> [of_inumber : Inodes, of_offset : 0 .. MAX_FILE_SIZE]]
  /\ free_open_file_entries \in [Handles -> {"FREE", "TAKEN"}]
  /\ mtx \subseteq Handles /\ lock \subseteq Inodes

Files == Inodes \ {ROOT_DIR_INUM}

\* The bytes of a file, found block by block.
FileBytes(i) ==
  Gathered(inode_table[i], 0, inode_table[i].i_size).bytes

\* Where the bytes of a file are, and the blocks it needs for that: those of
\* its bytes, each paired with its place in the file, and the indirect one.
Holds(i) ==
  LET map == inode_table[i].i_data_blocks
      n   == BlocksOf(inode_table[i].i_size)
  IN  {<<i, k, BlockAt(map, fs_data, map[NDIRECT], k)>> : k \in 0 .. n - 1} \cup
        IF n > NDIRECT THEN {<<i, -1, map[NDIRECT]>>} ELSE {}

\* The blocks of the files are theirs: TAKEN, never that of the directory,
\* never used twice in a file or by two files, be it for bytes or for indices;
\* growth through the indirect block, and writes that fail half way, keep it.
NoBlockShared ==
  /\ reply.call # "overrun"
  /\ LET held == UNION {Holds(i) : i \in Files \cap Taken(freeinode_ts)}
     IN  /\ \A x \in held : x[3] \in Taken(free_blocks) \ {0}
         /\ \A x, y \in held : x[3] = y[3] => x = y

\* A thread that never opens a file, nor copies one, while it has another open,
\* and never runs out of blocks, never blocks on a mutex of the tables, unless the
\* directory is full: up to then no call returns with one locked.
OneFileNeverHangs ==
  [][/\ mtx = {} /\ reply'.call = "hung" => EmptySlots = {}
     /\ mtx = {} /\ mtx' # {} =>
          \/ reply'.call \in {"open", "copy"} /\ OpenHandles # {}
          \/ reply'.call = "write" /\ Free(free_blocks') = {}]_vars

\* "Copies the contents of a file that exists in TecnicoFS" (operations.h): a
\* copy that returns 0 has the bytes the file has, to the last one.
CopyIsWhole ==
  [][\A name \in Names :
       tfs_copy_to_external_fs(name) /\ reply'.ret = 0 =>
         reply'.bytes = FileBytes(find_in_dir(name))]_vars

\* "Writes to an open file" (operations.h): never to the directory.
DirectoryNotOverrun == reply.call # "overrun"

\* "truncate file contents (TFS_O_TRUNC)" (operations.h): after such an open
\* the file is empty.
TruncEmpties ==
  [][\A name \in Names, flags \in SUBSET Flags :
       /\ tfs_open(name, flags) /\ reply'.call = "open"
       /\ "TFS_O_TRUNC" \in flags /\ find_in_dir(name) >= 0
       => inode_table'[find_in_dir(name)].i_size = 0]_vars

-----------------------------------------------------------------------------
(***************************************************************************)
(* The promise of FileStore, read off the tables.                          *)
(***************************************************************************)

Store == INSTANCE FileStore WITH
  Bytes     <- Data,
  MaxSize   <- MAX_FILE_SIZE,
  directory <- [n \in {dir_entry[s].d_name : s \in Slots \ EmptySlots} |-> find_in_dir(n)],
  contents  <- [i \in Files |->
                  [k \in 0 .. inode_table[i].i_size - 1 |-> FileBytes(i)[k + 1]]]

\* Files of direct and indirect blocks are independent strings of bytes, as
\* FileStore says: no call on one changes the bytes or the size of another, and
\* every byte is one that a caller wrote, never an index or unwritten memory.
IsFileStore == Store!Spec
=============================================================================
