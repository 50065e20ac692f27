------------------------------ MODULE TecnicoFS ------------------------------
(***************************************************************************)
(* The in-memory file system of the second exercise: the tables of         *)
(* fs/state.c and the calls of fs/operations.c.  Every call of             *)
(* operations.c runs from its first to its last access to the tables under *)
(* single_global_lock, so a call is one action here; DestroyWait.tla opens *)
(* the lock up.                                                            *)
(***************************************************************************)
EXTENDS Integers, FiniteSets

CONSTANTS
  INODE_TABLE_SIZE, DATA_BLOCKS, MAX_OPEN_FILES, BLOCK_SIZE, \* fs/config.h
  MAX_DIR_ENTRIES,   \* entries that fit in the block of a directory
  SIZE_MOD,          \* size_t arithmetic is modulo this (2^64)
  Names,             \* names without the leading '/'
  NoName,            \* the empty name
  LongNames,         \* the names that do not fit in d_name
  Prefix,            \* what strncpy keeps of each long name
  Paths,             \* the paths callers pass
  Data,              \* the bytes callers write; 0 is a byte never written
  MaxLen,            \* bound: the longest buffer callers pass
  OffsetBound,       \* bound: the largest offset a read may reach
  UseAfterClose,     \* may a caller pass a handle it has closed?
  TruncateOpen       \* may a caller truncate a file that is open?

ROOT_DIR_INUM == 0
Inodes  == 0 .. INODE_TABLE_SIZE - 1
Blocks  == 0 .. DATA_BLOCKS - 1
Handles == 0 .. MAX_OPEN_FILES - 1
Slots   == 0 .. MAX_DIR_ENTRIES - 1
Cells   == 0 .. BLOCK_SIZE - 1
Bytes   == Data \cup {0}
Lens    == 0 .. MaxLen
Flags   == {"TFS_O_CREAT", "TFS_O_TRUNC", "TFS_O_APPEND"}

ASSUME SizesAssumption ==
  /\ {INODE_TABLE_SIZE, DATA_BLOCKS, MAX_OPEN_FILES} \subseteq Nat \ {0}
  /\ {BLOCK_SIZE, MAX_DIR_ENTRIES} \subseteq Nat \ {0}
  /\ MaxLen \in Nat /\ OffsetBound \in Nat /\ BLOCK_SIZE <= OffsetBound
  /\ SIZE_MOD \in Nat /\ SIZE_MOD > 2 * (OffsetBound + MaxLen)

ASSUME NamesAssumption ==
  /\ NoName \notin Names /\ LongNames \subseteq Names
  /\ Prefix \in [LongNames -> Names \ LongNames]
  /\ Paths \subseteq [absolute : BOOLEAN, sub : Names \cup {NoName}]

ASSUME CallersAssumption ==
  /\ Data \subseteq Nat \ {0}
  /\ UseAfterClose \in BOOLEAN /\ TruncateOpen \in BOOLEAN

VARIABLES
  inode_table,             \* i_node_type, i_size and i_data_block of each i-node
  freeinode_ts,            \* FREE or TAKEN, per i-node
  free_blocks,             \* FREE or TAKEN, per block
  fs_data,                 \* the contents of the blocks of files
  dir_entry,               \* the contents of the block of the root directory
  open_file_table,         \* of_inumber and of_offset of each handle
  free_open_file_entries,  \* FREE or TAKEN, per handle
  var,                     \* the number of open files, what ret_var returns
  reply                    \* the last call, its handle, its result, the bytes read

vars == <<inode_table, freeinode_ts, free_blocks, fs_data, dir_entry,
          open_file_table, free_open_file_entries, var, reply>>

openTable == <<open_file_table, free_open_file_entries, var>>

(***************************************************************************)
(* Helpers of fs/state.c.                                                  *)
(***************************************************************************)

\* Every allocator of state.c scans its table upwards and takes the first hit.
Lowest(S) == CHOOSE i \in S : \A j \in S : i <= j

Free(table)  == {i \in DOMAIN table : table[i] = "FREE"}
Taken(table) == {i \in DOMAIN table : table[i] = "TAKEN"}

OpenHandles == Taken(free_open_file_entries)

\* The block index data_block_alloc would return.
AllocatedBlock ==
  IF Free(free_blocks) = {} THEN -1 ELSE Lowest(Free(free_blocks))

\* strncpy into d_name keeps at most MAX_FILE_NAME - 1 characters.
Stored(name) == IF name \in LongNames THEN Prefix[name] ELSE name

EmptySlots == {s \in Slots : dir_entry[s].d_inumber = -1}

\* Mutant: the search ends before the last entry.
MissesTheLast(name) ==
  LET hits == {s \in Slots \ {MAX_DIR_ENTRIES - 1} : dir_entry[s].d_name = name}
  IN  IF hits = {} THEN -1 ELSE dir_entry[Lowest(hits)].d_inumber

\* strncmp over MAX_FILE_NAME characters is equality: d_name is terminated.
find_in_dir(name) ==
  LET hits == {s \in Slots \ EmptySlots : dir_entry[s].d_name = name}
  IN  IF hits = {} THEN -1 ELSE dir_entry[Lowest(hits)].d_inumber

valid_pathname(path) == path.absolute /\ path.sub # NoName

lookup(path) == IF valid_pathname(path) THEN find_in_dir(path.sub) ELSE -1

\* size_t subtraction.
Minus(a, b) == (a - b) % SIZE_MOD

NewInode == [i_node_type |-> "T_FILE", i_size |-> 0, i_data_block |-> -1]

\* The k-th byte from the start of block b in the flat array fs_data, with
\* g standing for whatever memory holds past the end of the array.
ByteAt(b, k, g) ==
  LET block == b + (k \div BLOCK_SIZE)
  IN  IF block \in Blocks THEN fs_data[block][k % BLOCK_SIZE] ELSE g

-----------------------------------------------------------------------------

\* The state tfs_init leaves: the root directory is i-node 0, in block 0.
Init ==
  /\ inode_table = [i \in Inodes |->
       [i_node_type  |-> IF i = ROOT_DIR_INUM THEN "T_DIRECTORY" ELSE "T_FILE",
        i_size       |-> IF i = ROOT_DIR_INUM THEN BLOCK_SIZE ELSE 0,
        i_data_block |-> 0]]
  /\ freeinode_ts = [i \in Inodes |->
       IF i = ROOT_DIR_INUM THEN "TAKEN" ELSE "FREE"]
  /\ free_blocks = [b \in Blocks |-> IF b = 0 THEN "TAKEN" ELSE "FREE"]
  /\ fs_data = [b \in Blocks |-> [k \in Cells |-> 0]]
  /\ dir_entry = [s \in Slots |-> [d_inumber |-> -1, d_name |-> NoName]]
  /\ open_file_table = [h \in Handles |-> [of_inumber |-> 0, of_offset |-> 0]]
  /\ free_open_file_entries = [h \in Handles |-> "FREE"]
  /\ var = 0
  /\ reply = [call |-> "init", fh |-> -1, ret |-> 0, bytes |-> <<>>]

\* A call that runs off the memory of the process ends it.
Running == reply.call # "crash"

Reply(call, fh, ret) ==
  reply' = [call |-> call, fh |-> fh, ret |-> ret, bytes |-> <<>>]

\* Mutant: counts a file as open although the table of open files is full.
CountsFailedOpens(inum, offset) ==
  LET free == Free(free_open_file_entries)
      h    == IF free = {} THEN -1 ELSE Lowest(free)
  IN  /\ free_open_file_entries' =
            [k \in Handles |-> IF k = h THEN "TAKEN" ELSE free_open_file_entries[k]]
      /\ open_file_table' = [k \in Handles |->
            IF k = h THEN [of_inumber |-> inum, of_offset |-> offset]
                     ELSE open_file_table[k]]
      /\ var' = var + 1
      /\ Reply("open", h, h)

add_to_open_file_table(inum, offset) ==
  LET free == Free(free_open_file_entries)
      h    == Lowest(free)
  IN  IF free = {}
      THEN Reply("open", -1, -1) /\ UNCHANGED openTable
      ELSE /\ free_open_file_entries' =
                [free_open_file_entries EXCEPT ![h] = "TAKEN"]
           /\ open_file_table' = [open_file_table EXCEPT
                ![h] = [of_inumber |-> inum, of_offset |-> offset]]
           /\ var' = var + 1
           /\ Reply("open", h, h)

OpenFails ==
  /\ Reply("open", -1, -1)
  /\ UNCHANGED <<inode_table, freeinode_ts, free_blocks, fs_data, dir_entry,
                 openTable>>

Truncates(inode, flags) == "TFS_O_TRUNC" \in flags /\ inode.i_size > 0

SizeAtOpen(inode, flags) == IF Truncates(inode, flags) THEN 0 ELSE inode.i_size

\* Mutant: truncation forgets data_block_free.
KeepsBlock(inode, flags) == free_blocks

BlocksAtOpen(inode, flags) ==
  IF Truncates(inode, flags)
  THEN [free_blocks EXCEPT ![inode.i_data_block] = "FREE"] ELSE free_blocks

\* Mutant: APPEND takes the size from before the truncation.
AppendsBeforeTruncating(inode, flags) ==
  IF "TFS_O_APPEND" \in flags THEN inode.i_size ELSE 0

OffsetAtOpen(inode, flags) ==
  IF "TFS_O_APPEND" \in flags THEN SizeAtOpen(inode, flags) ELSE 0

\* _tfs_open_unsynchronized when the name is in the directory.  A failure to
\* find a free handle keeps the truncation.
OpenExisting(inum, flags) ==
  LET inode == inode_table[inum]
  IN  IF Truncates(inode, flags) /\ inode.i_data_block \notin Blocks
      THEN OpenFails
      ELSE /\ free_blocks' = BlocksAtOpen(inode, flags)
           /\ inode_table' =
                [inode_table EXCEPT ![inum].i_size = SizeAtOpen(inode, flags)]
           /\ add_to_open_file_table(inum, OffsetAtOpen(inode, flags))
           /\ UNCHANGED <<freeinode_ts, fs_data, dir_entry>>

\* Mutant: a failed add_dir_entry does not give the i-node back.
KeepsInode(table, inum) == table

\* A new file has no block to free.
inode_delete(table, inum) == [table EXCEPT ![inum] = "FREE"]

\* inode_create, then add_dir_entry, which fails on an empty name and on a
\* full directory.
OpenCreated(path) ==
  LET inum    == Lowest(Free(freeinode_ts))
      slot    == Lowest(EmptySlots)
      created == [freeinode_ts EXCEPT ![inum] = "TAKEN"]
  IN  /\ Free(freeinode_ts) # {}
      /\ inode_table' = [inode_table EXCEPT ![inum] = NewInode]
      /\ UNCHANGED <<free_blocks, fs_data>>
      /\ IF path.sub = NoName \/ EmptySlots = {}
         THEN /\ freeinode_ts' = inode_delete(created, inum)
              /\ Reply("open", -1, -1)
              /\ UNCHANGED <<dir_entry, openTable>>
         ELSE /\ freeinode_ts' = created
              /\ dir_entry' = [dir_entry EXCEPT
                   ![slot] = [d_inumber |-> inum, d_name |-> Stored(path.sub)]]
              /\ add_to_open_file_table(inum, 0)

IsOpen(inum) == \E h \in OpenHandles :
                  open_file_table[h].of_inumber = inum

tfs_open(path, flags) ==
  LET inum == lookup(path)
  IN  /\ Running
      /\ \/ /\ inum >= 0
            /\ TruncateOpen \/ "TFS_O_TRUNC" \notin flags \/ ~IsOpen(inum)
            /\ OpenExisting(inum, flags)
         \/ inum = -1 /\ "TFS_O_CREAT" \in flags /\ OpenCreated(path)
         \/ /\ inum = -1
            /\ "TFS_O_CREAT" \notin flags \/ Free(freeinode_ts) = {}
            /\ OpenFails

\* Mutant: the entry is released without looking whether it is TAKEN.
ClosesTwice(fh) ==
  /\ Running /\ fh \in Handles
  /\ free_open_file_entries' = [free_open_file_entries EXCEPT ![fh] = "FREE"]
  /\ var' = var - 1
  /\ Reply("close", fh, 0)
  /\ UNCHANGED <<inode_table, freeinode_ts, free_blocks, fs_data, dir_entry,
                 open_file_table>>

tfs_close(fh) ==
  /\ Running
  /\ IF fh \in OpenHandles
     THEN /\ free_open_file_entries' =
               [free_open_file_entries EXCEPT ![fh] = "FREE"]
          /\ var' = var - 1
          /\ Reply("close", fh, 0)
     ELSE Reply("close", fh, -1) /\ UNCHANGED <<free_open_file_entries, var>>
  /\ UNCHANGED <<inode_table, freeinode_ts, free_blocks, fs_data, dir_entry,
                 open_file_table>>

-----------------------------------------------------------------------------

\* Callers pass what some tfs_open returned: a handle (an entry never filled
\* still has the i-number 0 of a static variable), or -1.
Issued(fh) ==
  /\ open_file_table[fh].of_inumber # ROOT_DIR_INUM
  /\ UseAfterClose \/ fh \in OpenHandles

\* get_open_file_entry returns NULL for -1.
BadHandle(call) ==
  /\ Running
  /\ Reply(call, -1, -1)
  /\ UNCHANGED <<inode_table, freeinode_ts, free_blocks, fs_data, dir_entry,
                 openTable>>

\* _tfs_write_unsynchronized with a buffer of n bytes v.  An empty file gets
\* a block first; the copy runs off fs_data when the offset is past the block.
tfs_write(fh, v, n) ==
  LET file     == open_file_table[fh]
      offset   == file.of_offset
      inode    == inode_table[file.of_inumber]
      to_write == IF n + offset > BLOCK_SIZE THEN Minus(BLOCK_SIZE, offset) ELSE n
      alloc    == to_write > 0 /\ inode.i_size = 0
      block    == IF alloc THEN AllocatedBlock ELSE inode.i_data_block
      end      == offset + to_write
      written  == to_write > 0 /\ block \in Blocks
  IN  /\ Running /\ Issued(fh)
      /\ UNCHANGED <<freeinode_ts, dir_entry, free_open_file_entries, var>>
      /\ IF written /\ end > BLOCK_SIZE
         THEN /\ Reply("crash", fh, 0)
              /\ UNCHANGED <<inode_table, free_blocks, fs_data, open_file_table>>
         ELSE /\ free_blocks' = IF alloc /\ written
                   THEN [free_blocks EXCEPT ![block] = "TAKEN"] ELSE free_blocks
              /\ Reply("write", fh, IF to_write > 0 /\ ~written THEN -1 ELSE to_write)
              /\ inode_table' = [inode_table EXCEPT
                   ![file.of_inumber].i_data_block = block,
                   ![file.of_inumber].i_size =
                     IF written /\ end > inode.i_size THEN end ELSE inode.i_size]
              /\ fs_data' = IF written
                   THEN [fs_data EXCEPT ![block] =
                          [k \in Cells |-> IF k \in offset .. end - 1 THEN v ELSE @[k]]]
                   ELSE fs_data
              /\ open_file_table' = IF written
                   THEN [open_file_table EXCEPT ![fh].of_offset = end]
                   ELSE open_file_table

\* Mutant: a read returns the length asked for.
ReadsPastTheEnd(size, offset, len) == len

ToRead(size, offset, len) ==
  IF Minus(size, offset) > len THEN len ELSE Minus(size, offset)

\* _tfs_read_unsynchronized into a buffer of len bytes.
tfs_read(fh, len) ==
  LET file    == open_file_table[fh]
      offset  == file.of_offset
      inode   == inode_table[file.of_inumber]
      to_read == ToRead(inode.i_size, offset, len)
      fails   == to_read > 0 /\ inode.i_data_block \notin Blocks
  IN  /\ Running /\ Issued(fh)
      /\ offset + to_read <= OffsetBound
      /\ UNCHANGED <<inode_table, freeinode_ts, free_blocks, fs_data, dir_entry,
                     free_open_file_entries, var>>
      /\ IF fails
         THEN Reply("read", fh, -1) /\ UNCHANGED open_file_table
         ELSE /\ open_file_table' =
                   [open_file_table EXCEPT ![fh].of_offset = offset + to_read]
              /\ \E g \in Bytes :
                   reply' = [call |-> "read", fh |-> fh, ret |-> to_read,
                             bytes |-> [k \in 1 .. to_read |->
                               ByteAt(inode.i_data_block, offset + k - 1, g)]]

Next ==
  \/ \E path \in Paths, flags \in SUBSET Flags : tfs_open(path, flags)
  \/ \E fh \in Handles \cup {-1} : tfs_close(fh)
  \/ \E fh \in Handles, v \in Data, n \in Lens : tfs_write(fh, v, n)
  \/ \E fh \in Handles, len \in Lens : tfs_read(fh, len)
  \/ \E call \in {"write", "read"} : BadHandle(call)

Spec == Init /\ [][Next]_vars

-----------------------------------------------------------------------------
(***************************************************************************)
(* Properties.                                                             *)
(***************************************************************************)

InodeRecord == [i_node_type  : {"T_FILE", "T_DIRECTORY"},
                i_size       : 0 .. BLOCK_SIZE,
                i_data_block : Blocks \cup {-1}]

\* Every table holds values of its declared type (fs/state.c).
TypeOK ==
  /\ inode_table \in [Inodes -> InodeRecord]
  /\ freeinode_ts \in [Inodes -> {"FREE", "TAKEN"}]
  /\ free_blocks \in [Blocks -> {"FREE", "TAKEN"}]
  /\ fs_data \in [Blocks -> [Cells -> Bytes]]
  /\ dir_entry \in [Slots -> [d_inumber : Inodes \cup {-1},
                              d_name : Names \cup {NoName}]]
  /\ open_file_table \in [Handles -> [of_inumber : Inodes,
                                      of_offset : 0 .. OffsetBound]]
  /\ free_open_file_entries \in [Handles -> {"FREE", "TAKEN"}]
  /\ var \in Nat
  /\ reply.call \in {"init", "open", "close", "write", "read", "crash"}
  /\ reply.fh \in Handles \cup {-1} /\ reply.ret \in Int

\* The i-nodes that own a block: allocated and not empty.
Owners == {i \in Taken(freeinode_ts) : inode_table[i].i_size > 0}

\* A block is marked TAKEN exactly when one allocated i-node owns it, and no
\* two own the same: truncation, the late allocation in tfs_write and the
\* failures of both never leak a block nor share one between files.
BlocksAccounted ==
  /\ {inode_table[i].i_data_block : i \in Owners} = Taken(free_blocks)
  /\ \A i, j \in Owners :
       inode_table[i].i_data_block = inode_table[j].i_data_block => i = j

FullSlots == Slots \ EmptySlots

\* The directory and the i-node table agree: every allocated i-node but the
\* root has exactly one entry and every entry names an allocated file, also
\* after a tfs_open that failed between inode_create and add_dir_entry.
DirectoryMatchesInodes ==
  /\ {dir_entry[s].d_inumber : s \in FullSlots} =
       Taken(freeinode_ts) \ {ROOT_DIR_INUM}
  /\ \A s, t \in FullSlots :
       dir_entry[s].d_inumber = dir_entry[t].d_inumber => s = t

\* ret_var, on which tfs_destroy_after_all_closed decides, counts the open
\* handles, and an open handle refers to an allocated file.
OpenFilesCounted ==
  /\ var = Cardinality(OpenHandles)
  /\ \A h \in OpenHandles :
       LET i == open_file_table[h].of_inumber
       IN  i \in Taken(freeinode_ts) /\ inode_table[i].i_node_type = "T_FILE"

\* tfs_read copies at most what is left of the file after the offset: it
\* "can be lower than 'len' if the file size was reached" (operations.h).
ReadStopsAtSize ==
  [][reply'.call = "read" /\ reply'.fh \in Handles =>
       LET file == open_file_table[reply'.fh]
           size == inode_table[file.of_inumber].i_size
       IN  reply'.ret <= IF size > file.of_offset THEN size - file.of_offset ELSE 0
    ]_vars

\* No offset is beyond its file, so that the subtractions of tfs_read and
\* tfs_write on size_t never wrap and no call leaves the block of its file.
OffsetsWithinFiles ==
  /\ reply.call # "crash"
  /\ \A h \in OpenHandles :
       open_file_table[h].of_offset <= inode_table[open_file_table[h].of_inumber].i_size

-----------------------------------------------------------------------------
(***************************************************************************)
(* The promise of FileStore, read off the tables.                          *)
(***************************************************************************)

FileBytes(i) ==
  [k \in 0 .. (IF i \in Owners THEN inode_table[i].i_size ELSE 0) - 1 |->
     fs_data[inode_table[i].i_data_block][k]]

Store == INSTANCE FileStore WITH
  Files     <- Inodes \ {ROOT_DIR_INUM},
  MaxSize   <- BLOCK_SIZE,
  directory <- [n \in {dir_entry[s].d_name : s \in FullSlots} |-> find_in_dir(n)],
  contents  <- [i \in Inodes \ {ROOT_DIR_INUM} |-> FileBytes(i)]

\* The tables implement a store of independent files: no call of one file
\* changes the bytes of another, whatever blocks have been freed and reused.
IsFileStore == Store!Spec

=============================================================================
