------------------------- MODULE TecnicoFS_refinement -------------------------
(***************************************************************************)
(* The tables of fs/state.c implement FileStore: every call of             *)
(* fs/operations.c creates one file, empties one file, overwrites one      *)
(* range of one file, or leaves all files as they are.  Callers may use    *)
(* closed handles and truncate open files.                                 *)
(***************************************************************************)
EXTENDS TecnicoFS_proofs

\* What operations.h asks of a path: absolute, its name short enough.
DocumentedPaths == \A path \in Paths : path.absolute /\ path.sub \notin LongNames

\* No two entries have the same name, and each has one.
NamesUnique ==
  /\ \A s \in FullSlots : dir_entry[s].d_name \in Names
  /\ \A s, t \in FullSlots : dir_entry[s].d_name = dir_entry[t].d_name => s = t

RInv == IInv /\ NamesUnique

\* What FileStore sees of the tables.
Files    == Inodes \ {ROOT_DIR_INUM}
Dir      == [n \in {dir_entry[s].d_name : s \in FullSlots} |-> find_in_dir(n)]
Contents == [i \in Files |-> FileBytes(i)]

-----------------------------------------------------------------------------
(***************************************************************************)
(* Lemmas about the directory and the bytes of files.                      *)
(***************************************************************************)

\* The name of an entry leads to its i-node.
LEMMA FindsEntry ==
  ASSUME RInv, NEW s \in FullSlots
  PROVE  find_in_dir(dir_entry[s].d_name) = dir_entry[s].d_inumber
  <1> DEFINE hits == {r \in Slots \ EmptySlots : dir_entry[r].d_name = dir_entry[s].d_name}
  <1>1. hits = {s}
    BY DEF RInv, NamesUnique, FullSlots
  <1>2. hits \in SUBSET Nat
    BY SizesAssumption DEF Slots
  <1>3. Lowest(hits) = s
    BY <1>1, <1>2, LowestIn
  <1> QED
    BY <1>1, <1>3 DEF find_in_dir

\* So it is after the next step.
LEMMA FindsEntryNext ==
  (RInv => \A s \in FullSlots : find_in_dir(dir_entry[s].d_name) = dir_entry[s].d_inumber)'
  <1>1. RInv => \A s \in FullSlots : find_in_dir(dir_entry[s].d_name) = dir_entry[s].d_inumber
    BY FindsEntry
  <1> QED
    BY <1>1, PTL

\* A name that is not found is the name of no entry.
LEMMA NotFound ==
  ASSUME IInv, NEW name, find_in_dir(name) = -1
  PROVE  \A s \in FullSlots : dir_entry[s].d_name # name
  <1> DEFINE hits == {r \in Slots \ EmptySlots : dir_entry[r].d_name = name}
  <1>1. hits \in SUBSET Nat
    BY SizesAssumption DEF Slots
  <1>2. ASSUME hits # {} PROVE FALSE
    <2>1. Lowest(hits) \in hits
      BY <1>1, <1>2, LowestIn
    <2>2. dir_entry[Lowest(hits)].d_inumber # -1
      BY <2>1 DEF EmptySlots
    <2> QED
      BY <1>2, <2>2 DEF find_in_dir
  <1> QED
    BY <1>2 DEF FullSlots

\* FileStore has a file for every allocated i-node but the root.
LEMMA AllocatedExist ==
  ASSUME RInv, NEW i \in Files, freeinode_ts[i] = "TAKEN"
  PROVE  i \in Store!Existing
  <1>1. PICK s \in FullSlots : dir_entry[s].d_inumber = i
    BY DEF RInv, IInv, DirectoryMatchesInodes, Taken, TypeOK, Files
  <1>2. find_in_dir(dir_entry[s].d_name) = i
    BY <1>1, FindsEntry
  <1> QED
    BY <1>2 DEF Store!Existing

\* And it has no other file.
LEMMA ExistingAllocated ==
  ASSUME RInv, NEW i \in Store!Existing
  PROVE  freeinode_ts[i] = "TAKEN"
  <1>1. PICK s \in FullSlots : i = find_in_dir(dir_entry[s].d_name)
    BY DEF Store!Existing
  <1>2. i = dir_entry[s].d_inumber
    BY <1>1, FindsEntry
  <1> QED
    BY <1>2 DEF RInv, IInv, DirectoryMatchesInodes, Taken

\* The directory FileStore sees is a function of the entries.
LEMMA SameDirectory ==
  ASSUME dir_entry' = dir_entry
  PROVE  Dir' = Dir
  BY DEF Dir, FullSlots, EmptySlots, find_in_dir, Lowest

\* The size of a file, 0 for an i-node that is not allocated.
Size(i) == IF i \in Owners THEN inode_table[i].i_size ELSE 0

LEMMA SizeType ==
  ASSUME IInv, NEW i \in Inodes
  PROVE  /\ Size(i) \in 0 .. BLOCK_SIZE
         /\ i \notin Owners => Size(i) = 0
         /\ i \in Owners => /\ Size(i) = inode_table[i].i_size
                            /\ inode_table[i].i_data_block \in Blocks
  <1>1. i \in Owners => inode_table[i].i_data_block \in Blocks
    BY DEF IInv, BlocksAccounted, Taken, TypeOK
  <1> QED
    BY <1>1, SizesAssumption DEF Size, IInv, TypeOK, InodeRecord

-----------------------------------------------------------------------------
(***************************************************************************)
(* The names stay unique.                                                  *)
(***************************************************************************)

\* A call that leaves the directory alone.
LEMMA SameNames ==
  ASSUME NamesUnique, dir_entry' = dir_entry
  PROVE  NamesUnique'
  BY DEF NamesUnique, FullSlots, EmptySlots

\* What tfs_open does to the tables when it creates a file, or fails to.
LEMMA CreatedEntry ==
  ASSUME DocumentedPaths, RInv, NEW path \in Paths, lookup(path) = -1, OpenCreated(path)
  PROVE  \E inum \in Files :
           /\ freeinode_ts[inum] = "FREE"
           /\ inode_table' = [inode_table EXCEPT ![inum] = NewInode]
           /\ UNCHANGED <<free_blocks, fs_data>>
           /\ \/ UNCHANGED <<freeinode_ts, dir_entry>>
              \/ \E slot \in EmptySlots, name \in Names :
                   /\ freeinode_ts' = [freeinode_ts EXCEPT ![inum] = "TAKEN"]
                   /\ dir_entry' = [dir_entry EXCEPT
                        ![slot] = [d_inumber |-> inum, d_name |-> name]]
                   /\ \A s \in FullSlots : dir_entry[s].d_name # name
  <1> DEFINE inum    == Lowest(Free(freeinode_ts))
             slot    == Lowest(EmptySlots)
             created == [freeinode_ts EXCEPT ![inum] = "TAKEN"]
             fails   == path.sub = NoName \/ EmptySlots = {}
  <1> USE DEF RInv, IInv
  <1>1. inum \in Files /\ freeinode_ts[inum] = "FREE"
    <2>1. Free(freeinode_ts) \in SUBSET Nat
      BY SizesAssumption DEF Free, TypeOK, Inodes
    <2>2. inum \in Free(freeinode_ts)
      BY <2>1, LowestIn DEF OpenCreated
    <2> QED
      BY <2>2 DEF Free, TypeOK, Linked, Files
  <1>2. /\ inode_table' = [inode_table EXCEPT ![inum] = NewInode]
        /\ UNCHANGED <<free_blocks, fs_data>>
    BY DEF OpenCreated
  <1>3. CASE fails
    <2>1. freeinode_ts' = inode_delete(created, inum) /\ UNCHANGED dir_entry
      BY <1>3 DEF OpenCreated
    <2>2. freeinode_ts' = freeinode_ts
      BY <1>1, <2>1 DEF inode_delete, TypeOK
    <2> HIDE DEF inum
    <2> QED
      BY <1>1, <1>2, <2>1, <2>2
  <1>4. CASE ~ fails
    <2>1. slot \in EmptySlots
      <3>1. EmptySlots \in SUBSET Nat
        BY SizesAssumption DEF EmptySlots, Slots
      <3> QED
        BY <1>4, <3>1, LowestIn
    <2>2. Stored(path.sub) = path.sub
      BY DEF DocumentedPaths, Stored
    <2>3. /\ freeinode_ts' = created
          /\ dir_entry' = [dir_entry EXCEPT
               ![slot] = [d_inumber |-> inum, d_name |-> path.sub]]
      BY <1>4, <2>2 DEF OpenCreated
    <2>4. path.sub \in Names
      BY <1>4, NamesAssumption
    <2>5. find_in_dir(path.sub) = -1
      BY <1>4 DEF lookup, valid_pathname, DocumentedPaths
    <2>6. \A s \in FullSlots : dir_entry[s].d_name # path.sub
      BY <2>5, NotFound
    <2> HIDE DEF inum, slot
    <2> QED
      BY <1>1, <1>2, <2>1, <2>3, <2>4, <2>6
  <1> QED
    BY <1>3, <1>4

\* A new entry in an empty slot adds one name.
Entered(inum, slot, name) ==
  dir_entry' = [dir_entry EXCEPT ![slot] = [d_inumber |-> inum, d_name |-> name]]

LEMMA AddedEntry ==
  ASSUME RInv, NEW inum \in Files, NEW slot \in EmptySlots, NEW name \in Names,
         Entered(inum, slot, name)
  PROVE  /\ FullSlots' = FullSlots \cup {slot} /\ slot \notin FullSlots
         /\ dir_entry'[slot] = [d_inumber |-> inum, d_name |-> name]
         /\ \A s \in FullSlots : dir_entry'[s] = dir_entry[s]
  <1>1. slot \in Slots /\ slot \notin FullSlots
    BY DEF EmptySlots, FullSlots
  <1>2. inum # -1
    BY SizesAssumption DEF Files, Inodes
  <1>3. \A s \in Slots : dir_entry'[s] = IF s = slot
                                        THEN [d_inumber |-> inum, d_name |-> name]
                                        ELSE dir_entry[s]
    BY <1>1 DEF Entered, RInv, IInv, TypeOK
  <1> QED
    BY <1>1, <1>2, <1>3 DEF FullSlots, EmptySlots

\* The names stay unique whichever call is made.
LEMMA NextNames ==
  ASSUME DocumentedPaths, RInv, Next
  PROVE  NamesUnique'
  <1>1. CASE \E path \in Paths, flags \in SUBSET Flags : tfs_open(path, flags)
    <2>1. PICK path \in Paths, flags \in SUBSET Flags : tfs_open(path, flags)
      BY <1>1
    <2>2. CASE lookup(path) = -1 /\ OpenCreated(path)
      <3>1. CASE dir_entry' = dir_entry
        BY <3>1, SameNames DEF RInv
      <3>2. CASE dir_entry' # dir_entry
        <4>1. PICK inum \in Files, slot \in EmptySlots, name \in Names :
                /\ dir_entry' = [dir_entry EXCEPT
                     ![slot] = [d_inumber |-> inum, d_name |-> name]]
                /\ \A s \in FullSlots : dir_entry[s].d_name # name
          BY <2>2, <3>2, CreatedEntry
        <4> HIDE DEF RInv
        <4>2. /\ FullSlots' = FullSlots \cup {slot}
              /\ dir_entry'[slot] = [d_inumber |-> inum, d_name |-> name]
              /\ \A s \in FullSlots : dir_entry'[s] = dir_entry[s]
          <5>1. Entered(inum, slot, name)
            BY <4>1 DEF Entered
          <5> QED
            BY <5>1, AddedEntry
        <4> QED
          BY <4>1, <4>2 DEF RInv, NamesUnique
      <3> QED
        BY <3>1, <3>2
    <2>3. CASE dir_entry' = dir_entry
      BY <2>3, SameNames DEF RInv
    <2> QED
      BY <2>1, <2>2, <2>3 DEF tfs_open, OpenExisting, OpenFails
  <1>2. CASE \E fh \in Handles \cup {-1} : tfs_close(fh)
    <2>1. PICK fh \in Handles \cup {-1} : tfs_close(fh)
      BY <1>2
    <2>2. dir_entry' = dir_entry
      BY <2>1 DEF tfs_close
    <2> QED
      BY <2>2, SameNames DEF RInv
  <1>3. CASE \E fh \in Handles, v \in Data, n \in Lens : tfs_write(fh, v, n)
    <2>1. PICK fh \in Handles, v \in Data, n \in Lens : tfs_write(fh, v, n)
      BY <1>3
    <2>2. dir_entry' = dir_entry
      BY <2>1 DEF tfs_write
    <2> QED
      BY <2>2, SameNames DEF RInv
  <1>4. CASE \E fh \in Handles, len \in Lens : tfs_read(fh, len)
    <2>1. PICK fh \in Handles, len \in Lens : tfs_read(fh, len)
      BY <1>4
    <2>2. dir_entry' = dir_entry
      BY <2>1 DEF tfs_read
    <2> QED
      BY <2>2, SameNames DEF RInv
  <1>5. CASE \E call \in {"write", "read"} : BadHandle(call)
    <2>1. PICK call \in {"write", "read"} : BadHandle(call)
      BY <1>5
    <2>2. dir_entry' = dir_entry
      BY <2>1 DEF BadHandle
    <2> QED
      BY <2>2, SameNames DEF RInv
  <1> QED
    BY <1>1, <1>2, <1>3, <1>4, <1>5 DEF Next

-----------------------------------------------------------------------------
(***************************************************************************)
(* The step of FileStore that each call is.                                *)
(***************************************************************************)

LEMMA StoreVars == Store!vars = <<Dir, Contents>>
  BY DEF Store!vars, Dir, Contents, Files

\* A call that changes neither the entries nor the bytes of a file stutters.
LEMMA Stutters ==
  ASSUME dir_entry' = dir_entry, \A i \in Files : FileBytes(i)' = FileBytes(i)
  PROVE  UNCHANGED Store!vars
  <1>1. Contents' = Contents
    BY DEF Contents, Files, Inodes
  <1> QED
    BY <1>1, SameDirectory, StoreVars DEF Store!vars, Dir, Contents, Files

\* A call that leaves the tables of files alone.
LEMMA TablesStutter ==
  ASSUME UNCHANGED <<inode_table, freeinode_ts, fs_data, dir_entry>>
  PROVE  UNCHANGED Store!vars
  BY Stutters DEF FileBytes, Owners, Taken

\* tfs_open of a name that is in the directory empties the file or does
\* nothing to it.
LEMMA OpenExistingRefines ==
  ASSUME RInv, NEW inum \in Files, freeinode_ts[inum] = "TAKEN", NEW flags,
         OpenExisting(inum, flags)
  PROVE  [Store!Next]_(Store!vars)
  <1> DEFINE inode == inode_table[inum]
             size  == SizeAtOpen(inode, flags)
  <1> USE DEF RInv
  <1>1. CASE OpenFails
    BY <1>1, TablesStutter DEF OpenFails
  <1>2. CASE ~ OpenFails
    <2>1. /\ inode_table' = [inode_table EXCEPT ![inum].i_size = size]
          /\ UNCHANGED <<freeinode_ts, fs_data, dir_entry>>
      BY <1>2 DEF OpenExisting
    <2>2. inum \in Inodes /\ inode.i_size \in 0 .. BLOCK_SIZE
      BY DEF Files, IInv, TypeOK, InodeRecord
    <2>3. CASE ~ Truncates(inode, flags)
      <3>1. size = inode.i_size
        BY <2>3 DEF SizeAtOpen
      <3>2. inode_table' = inode_table
        BY <2>1, <2>2, <3>1 DEF IInv, TypeOK, InodeRecord
      <3> QED
        BY <2>1, <3>2, TablesStutter
    <2>4. CASE Truncates(inode, flags)
      <3>1. size = 0
        BY <2>4 DEF SizeAtOpen
      <3>2. /\ inode_table'[inum].i_size = 0
            /\ \A i \in Inodes \ {inum} : inode_table'[i] = inode_table[i]
        BY <2>1, <2>2, <3>1 DEF IInv, TypeOK, InodeRecord
      <3>3. Owners' = Owners \ {inum}
        BY <2>1, <2>2, <3>2 DEF Owners, Taken, IInv, TypeOK
      <3>4. \A i \in Files \ {inum} : FileBytes(i)' = FileBytes(i)
        BY <2>1, <3>2, <3>3 DEF FileBytes, Files
      <3>5. FileBytes(inum)' = Store!Nothing
        <4>1. inum \notin Owners'
          BY <3>3
        <4>2. 0 .. 0 - 1 = {}
          OBVIOUS
        <4> QED
          BY <4>1, <4>2 DEF FileBytes, Store!Nothing
      <3>6. Contents' = [Contents EXCEPT ![inum] = Store!Nothing]
        BY <3>4, <3>5 DEF Contents, Files, Inodes
      <3>7. inum \in Store!Existing
        BY AllocatedExist
      <3>8. Store!Truncate(inum)
        BY <2>1, <3>6, SameDirectory DEF Store!Truncate, Contents, Dir, Files
      <3> QED
        BY <3>7, <3>8 DEF Store!Next
    <2> QED
      BY <2>3, <2>4
  <1> QED
    BY <1>1, <1>2

\* tfs_open of another name creates the file or leaves all files alone.
LEMMA OpenCreatedRefines ==
  ASSUME DocumentedPaths, RInv, NEW path \in Paths, lookup(path) = -1, OpenCreated(path)
  PROVE  [Store!Next]_(Store!vars)
  <1> USE DEF RInv
  <1>1. PICK inum \in Files :
          /\ freeinode_ts[inum] = "FREE"
          /\ inode_table' = [inode_table EXCEPT ![inum] = NewInode]
          /\ UNCHANGED <<free_blocks, fs_data>>
          /\ \/ UNCHANGED <<freeinode_ts, dir_entry>>
             \/ \E slot \in EmptySlots, name \in Names :
                  /\ freeinode_ts' = [freeinode_ts EXCEPT ![inum] = "TAKEN"]
                  /\ dir_entry' = [dir_entry EXCEPT
                       ![slot] = [d_inumber |-> inum, d_name |-> name]]
                  /\ \A s \in FullSlots : dir_entry[s].d_name # name
    BY CreatedEntry
  <1>2. inum \in Inodes
    BY DEF Files
  <1>3. Owners' = Owners /\ inum \notin Owners
    BY <1>1, <1>2 DEF Owners, Taken, IInv, TypeOK, NewInode
  <1>4. \A i \in Owners : inode_table'[i] = inode_table[i]
    BY <1>1, <1>3 DEF Owners, Taken, IInv, TypeOK
  <1>5. \A i \in Files : FileBytes(i)' = FileBytes(i)
    BY <1>1, <1>3, <1>4 DEF FileBytes
  <1>6. CASE UNCHANGED <<freeinode_ts, dir_entry>>
    BY <1>5, <1>6, Stutters
  <1>7. CASE \E slot \in EmptySlots, name \in Names :
               /\ freeinode_ts' = [freeinode_ts EXCEPT ![inum] = "TAKEN"]
               /\ dir_entry' = [dir_entry EXCEPT
                    ![slot] = [d_inumber |-> inum, d_name |-> name]]
               /\ \A s \in FullSlots : dir_entry[s].d_name # name
    <2>1. PICK slot \in EmptySlots, name \in Names :
               /\ dir_entry' = [dir_entry EXCEPT
                    ![slot] = [d_inumber |-> inum, d_name |-> name]]
               /\ \A s \in FullSlots : dir_entry[s].d_name # name
      BY <1>7
    <2>2. /\ FullSlots' = FullSlots \cup {slot} /\ slot \notin FullSlots
          /\ dir_entry'[slot] = [d_inumber |-> inum, d_name |-> name]
          /\ \A s \in FullSlots : dir_entry'[s] = dir_entry[s]
      <3>1. Entered(inum, slot, name)
        BY <2>1 DEF Entered
      <3> QED
        BY <3>1, AddedEntry
    <2>3. NamesUnique' /\ IInv'
      <3>1. NamesUnique'
        BY <2>1, <2>2 DEF NamesUnique
      <3> QED
        BY <3>1, OpenCreatedIInv
    <2>4. \A s \in FullSlots' : find_in_dir(dir_entry[s].d_name)' = dir_entry'[s].d_inumber
      BY <2>3, FindsEntryNext
    <2>5. Dir' = [n \in DOMAIN Dir \cup {name} |-> IF n = name THEN inum ELSE Dir[n]]
      <3>1. DOMAIN Dir' = DOMAIN Dir \cup {name}
        BY <2>2 DEF Dir
      <3>2. ASSUME NEW n \in DOMAIN Dir'
            PROVE  Dir'[n] = IF n = name THEN inum ELSE Dir[n]
        BY <2>1, <2>2, <2>4, FindsEntry DEF Dir
      <3>3. Dir' = [n \in DOMAIN Dir' |-> Dir'[n]]
        BY DEF Dir
      <3> QED
        BY <3>1, <3>2, <3>3
    <2>6. name \notin DOMAIN Dir
      BY <2>1 DEF Dir
    <2>7. inum \notin Store!Existing
      BY <1>1, ExistingAllocated
    <2>8. Contents' = Contents
      BY <1>5 DEF Contents, Files, Inodes
    <2>9. Store!Create(name, inum)
      BY <2>5, <2>6, <2>7, <2>8 DEF Store!Create, Dir, Contents, Files
    <2> QED
      BY <2>1, <2>9 DEF Store!Next, Files
  <1> QED
    BY <1>1, <1>6, <1>7

\* tfs_write overwrites a range of one file or leaves all files alone.
LEMMA WriteRefines ==
  ASSUME RInv, NEW fh \in Handles, NEW v \in Data, NEW n \in Lens, tfs_write(fh, v, n)
  PROVE  [Store!Next]_(Store!vars)
  <1> USE DEF RInv
  <1>0. PICK inum \in Files : inum = open_file_table[fh].of_inumber
    BY DEF IInv, TypeOK, tfs_write, Issued, Files
  <1> DEFINE offset   == open_file_table[fh].of_offset
             inode    == inode_table[inum]
             to_write == IF n + offset > BLOCK_SIZE THEN Minus(BLOCK_SIZE, offset) ELSE n
             alloc    == to_write > 0 /\ inode.i_size = 0
             block    == IF alloc THEN AllocatedBlock ELSE inode.i_data_block
             end      == offset + to_write
             written  == to_write > 0 /\ block \in Blocks
             size     == IF written /\ end > inode.i_size THEN end ELSE inode.i_size
  <1>1. /\ inum \in Inodes /\ offset \in Nat
        /\ inode.i_size \in 0 .. BLOCK_SIZE /\ freeinode_ts[inum] = "TAKEN"
    <2>1. fh \in Handles /\ Issued(fh) /\ Linked /\ TypeOK
      BY DEF IInv, tfs_write
    <2>2. inum \in Inodes /\ freeinode_ts[inum] = "TAKEN"
      BY <1>0, <2>1 DEF Linked, Issued, Files
    <2>3. inode_table[inum] \in InodeRecord /\ offset \in Nat
      BY <2>1, <2>2 DEF TypeOK
    <2> QED
      BY <2>2, <2>3 DEF InodeRecord
  <1>2. to_write \in Nat
    <2>1. n \in Nat /\ BLOCK_SIZE \in Int /\ offset \in Int
      BY <1>1, SizesAssumption DEF Lens
    <2> QED
      BY <2>1, MinusIsNat
  <1>3. UNCHANGED <<freeinode_ts, dir_entry>>
    BY DEF tfs_write
  <1>4. CASE written /\ end > BLOCK_SIZE
    BY <1>0, <1>3, <1>4, TablesStutter DEF tfs_write
  <1>5. CASE ~ (written /\ end > BLOCK_SIZE)
    <2>1. /\ inode_table' = [inode_table EXCEPT ![inum].i_data_block = block,
                                                ![inum].i_size = size]
          /\ fs_data' = IF written
               THEN [fs_data EXCEPT ![block] =
                      [k \in Cells |-> IF k \in offset .. end - 1 THEN v ELSE @[k]]]
               ELSE fs_data
      BY <1>0, <1>5 DEF tfs_write
    <2>2. /\ alloc <=> to_write > 0 /\ inode.i_size = 0
          /\ written <=> to_write > 0 /\ block \in Blocks
          /\ ~ alloc => block = inode.i_data_block
          /\ alloc /\ written => free_blocks[block] = "FREE"
          /\ end = offset + to_write /\ (written => end \in 1 .. BLOCK_SIZE)
      <3>1. alloc /\ written => free_blocks[block] = "FREE"
        <4>1. -1 \notin Blocks
          BY SizesAssumption DEF Blocks
        <4> QED
          BY <4>1, AllocatedBlockIsFree DEF IInv, TypeOK
      <3> QED
        BY <1>1, <1>2, <1>5, <3>1, SizesAssumption
    <2> HIDE DEF to_write, alloc, block, end, written
    <2>3. size \in 0 .. BLOCK_SIZE /\ inode.i_size <= size /\ (written => end <= size)
      BY <1>1, <2>2, SizesAssumption
    <2>4. /\ inode_table'[inum].i_size = size /\ inode_table'[inum].i_data_block = block
          /\ \A i \in Inodes \ {inum} : inode_table'[i] = inode_table[i]
      <3> HIDE DEF size
      <3> QED
        BY <1>1, <2>1 DEF IInv, TypeOK, InodeRecord
    <2>5. CASE ~ written
      <3>1. size = inode.i_size
        BY <2>5
      <3> HIDE DEF size
      <3>2. \A i \in Inodes : inode_table'[i].i_size = inode_table[i].i_size
        BY <2>4, <3>1
      <3>3. Owners' = Owners
        BY <1>3, <3>2 DEF Owners, Taken, IInv, TypeOK
      <3>4. \A i \in Owners : inode_table'[i].i_data_block = inode_table[i].i_data_block
        <4>1. inum \in Owners => inode.i_size > 0 /\ inode.i_data_block \in Blocks
          BY <1>1, SizeType DEF Owners
        <4>2. inum \in Owners => block = inode.i_data_block
          BY <2>2, <2>5, <4>1
        <4> QED
          BY <2>4, <4>2 DEF Owners, Taken, IInv, TypeOK
      <3>5. \A i \in Files : FileBytes(i)' = FileBytes(i)
        <4>1. fs_data' = fs_data
          BY <2>1, <2>5
        <4>2. \A i \in Owners : inode_table'[i].i_size = inode_table[i].i_size
          BY <3>2 DEF Owners, Taken, IInv, TypeOK
        <4> QED
          BY <3>3, <3>4, <4>1, <4>2 DEF FileBytes
      <3> QED
        BY <1>3, <3>5, Stutters
    <2>6. CASE written
      <3> DEFINE old == FileBytes(inum)
                 new == FileBytes(inum)'
      <3>1. /\ end \in 1 .. BLOCK_SIZE /\ block \in Blocks /\ offset < end /\ size > 0
            /\ offset \in 0 .. BLOCK_SIZE - 1
        BY <1>1, <1>2, <2>2, <2>3, <2>6, SizesAssumption
      <3>2. fs_data' = [fs_data EXCEPT ![block] =
                         [k \in Cells |-> IF k \in offset .. end - 1 THEN v ELSE @[k]]]
        BY <2>1, <2>6
      <3>3. /\ \A b \in Blocks \ {block} : fs_data'[b] = fs_data[b]
            /\ \A k \in Cells : fs_data'[block][k] =
                 IF k \in offset .. end - 1 THEN v ELSE fs_data[block][k]
        BY <3>1, <3>2 DEF IInv, TypeOK
      <3>4. Owners' = Owners \cup {inum}
        <4> HIDE DEF size
        <4> QED
          BY <1>1, <1>3, <2>4, <3>1 DEF Owners, Taken, IInv, TypeOK
      <3>5. \A i \in Owners \ {inum} : /\ i \in Inodes
                                       /\ inode_table[i].i_data_block \in Blocks \ {block}
        <4>1. CASE alloc
          BY <2>2, <2>6, <4>1, SizeType
          DEF Owners, Taken, IInv, TypeOK, BlocksAccounted
        <4>2. CASE ~ alloc
          <5>1. inum \in Owners /\ block = inode.i_data_block
            BY <1>1, <1>2, <2>2, <2>6, <4>2 DEF Owners, Taken, IInv, TypeOK
          <5> QED
            BY <5>1, SizeType DEF Owners, Taken, IInv, TypeOK, BlocksAccounted
        <4> QED
          BY <4>1, <4>2
      <3>6. \A i \in Files \ {inum} : FileBytes(i)' = FileBytes(i)
        BY <2>4, <3>3, <3>4, <3>5 DEF FileBytes, Files
      <3>7. DOMAIN new = 0 .. size - 1
            /\ \A k \in 0 .. size - 1 : new[k] = fs_data'[block][k]
        <4> HIDE DEF size
        <4> QED
          BY <2>4, <3>4 DEF FileBytes
      <3>8. /\ DOMAIN old = 0 .. inode.i_size - 1
            /\ \A k \in DOMAIN old : old[k] = fs_data[block][k]
        <4>1. CASE inode.i_size > 0
          <5>1. inum \in Owners /\ block = inode.i_data_block
            BY <1>1, <2>2, <4>1 DEF Owners, Taken, IInv, TypeOK
          <5> QED
            BY <5>1 DEF FileBytes
        <4>2. CASE inode.i_size = 0
          <5>1. inum \notin Owners
            BY <4>2 DEF Owners
          <5> QED
            BY <4>2, <5>1 DEF FileBytes
        <4> QED
          BY <1>1, <4>1, <4>2
      <3>9. Contents' = [Contents EXCEPT ![inum] = new]
        BY <1>1, <3>6 DEF Contents, Files, Inodes
      <3>10. \A k \in 0 .. size - 1 :
               /\ k \in Cells
               /\ new[k] = IF k \in offset .. end - 1 THEN v ELSE fs_data[block][k]
        <4> HIDE DEF size
        <4> QED
          BY <2>3, <3>3, <3>7, SizesAssumption DEF Cells
      <3>11. DOMAIN new = DOMAIN old \cup 0 .. end - 1
        <4>1. \/ size = end /\ inode.i_size <= end
              \/ size = inode.i_size /\ end <= inode.i_size
          BY <1>1, <2>6, <3>1, SizesAssumption
        <4>2. \A a, b \in Int : a <= b => 0 .. b - 1 = 0 .. a - 1 \cup 0 .. b - 1
          OBVIOUS
        <4>3. inode.i_size \in Int /\ end \in Int
          BY <1>1, <3>1, SizesAssumption
        <4>4. DOMAIN new = 0 .. size - 1 /\ DOMAIN old = 0 .. inode.i_size - 1
          BY <3>7, <3>8
        <4> HIDE DEF size, new, old
        <4>5. 0 .. size - 1 = 0 .. inode.i_size - 1 \cup 0 .. end - 1
          BY <4>1, <4>2, <4>3
        <4> QED
          BY <4>4, <4>5
      <3>12. \A k \in DOMAIN new : new[k] \in Bytes
        BY <3>1, <3>7, <3>10 DEF IInv, TypeOK, Bytes
      <3>13. new = [k \in DOMAIN new |-> new[k]]
        BY DEF FileBytes
      <3> HIDE DEF new, old, size
      <3>14. Store!Overwritten(old, new, offset, end - 1, v)
        <4>1. \A k \in offset .. end - 1 : k \in 0 .. size - 1
          BY <1>1, <2>3, <2>6, <3>1, SizesAssumption
        <4>2. \A k \in DOMAIN old : k \in 0 .. size - 1
          BY <3>7, <3>8, <3>11
        <4>3. new \in [DOMAIN old \cup 0 .. end - 1 -> Bytes]
          BY <3>11, <3>12, <3>13
        <4> QED
          BY <3>8, <3>10, <4>1, <4>2, <4>3 DEF Store!Overwritten
      <3>15. CASE new = old
        BY <1>3, <3>6, <3>15, Stutters DEF new, old
      <3>16. CASE new # old
        <4>1. end - 1 \in 0 .. BLOCK_SIZE - 1 /\ v \in Bytes /\ offset \in 0 .. end - 1
          BY <3>1, SizesAssumption DEF Bytes
        <4>2. /\ Contents[inum] = old /\ Contents'[inum] = new
              /\ Contents' = [Contents EXCEPT ![inum] = new]
          BY <1>1, <3>9 DEF Contents, old, new, Files, Inodes
        <4>3. Store!Overwrite(inum)
          BY <1>3, <3>14, <3>16, <4>1, <4>2, SameDirectory
          DEF Store!Overwrite, Contents, Dir, Files
        <4>4. inum \in Store!Existing
          BY <1>1, AllocatedExist
        <4> QED
          BY <4>3, <4>4 DEF Store!Next
      <3> QED
        BY <3>15, <3>16
    <2> QED
      BY <2>5, <2>6
  <1> QED
    BY <1>4, <1>5

\* Every call is a step of FileStore or leaves all files alone.
LEMMA NextRefines ==
  ASSUME DocumentedPaths, RInv, Next
  PROVE  [Store!Next]_(Store!vars)
  <1>1. CASE \E path \in Paths, flags \in SUBSET Flags : tfs_open(path, flags)
    <2>1. PICK path \in Paths, flags \in SUBSET Flags : tfs_open(path, flags)
      BY <1>1
    <2>2. CASE lookup(path) >= 0 /\ OpenExisting(lookup(path), flags)
      <3>1. PICK inum : inum = lookup(path)
        OBVIOUS
      <3>2. inum \in Files /\ freeinode_ts[inum] = "TAKEN"
        <4>1. inum # -1 /\ inum = find_in_dir(path.sub)
          BY <2>2, <3>1 DEF lookup
        <4>2. PICK s \in FullSlots : inum = dir_entry[s].d_inumber
          BY <4>1, FoundInDir DEF RInv, IInv
        <4> QED
          BY <4>2 DEF RInv, IInv, DirectoryMatchesInodes, Taken, TypeOK, Files
      <3> QED
        BY <2>2, <3>1, <3>2, OpenExistingRefines
    <2>3. CASE lookup(path) = -1 /\ OpenCreated(path)
      BY <2>3, OpenCreatedRefines
    <2>4. CASE OpenFails
      BY <2>4, TablesStutter DEF OpenFails
    <2> QED
      BY <2>1, <2>2, <2>3, <2>4 DEF tfs_open
  <1>2. CASE \E fh \in Handles \cup {-1} : tfs_close(fh)
    BY <1>2, TablesStutter DEF tfs_close
  <1>3. CASE \E fh \in Handles, v \in Data, n \in Lens : tfs_write(fh, v, n)
    BY <1>3, WriteRefines
  <1>4. CASE \E fh \in Handles, len \in Lens : tfs_read(fh, len)
    BY <1>4, TablesStutter DEF tfs_read
  <1>5. CASE \E call \in {"write", "read"} : BadHandle(call)
    BY <1>5, TablesStutter DEF BadHandle
  <1> QED
    BY <1>1, <1>2, <1>3, <1>4, <1>5 DEF Next

\* tfs_init leaves a store without files.
LEMMA InitRefines ==
  ASSUME Init
  PROVE  NamesUnique /\ Store!Init
  <1>1. FullSlots = {}
    BY DEF Init, FullSlots, EmptySlots
  <1>2. Owners \subseteq {ROOT_DIR_INUM}
    BY DEF Init, Owners, Taken
  <1>3. Dir = Store!Nothing
    BY <1>1 DEF Dir, Store!Nothing
  <1>4. \A i \in Files : FileBytes(i) = Store!Nothing
    <2>1. 0 .. 0 - 1 = {}
      OBVIOUS
    <2> QED
      BY <1>2, <2>1 DEF FileBytes, Files, Store!Nothing
  <1> QED
    BY <1>1, <1>3, <1>4 DEF NamesUnique, Store!Init, Dir, Contents, Files

\* The tables implement a store of independent files, whatever the callers do
\* with their handles, as long as the paths they pass are the documented ones:
\* no call of fs/operations.c touches the bytes of a file other than the one
\* it names or has open, nor makes two files of one name.
THEOREM TablesImplementStore ==
  ASSUME DocumentedPaths
  PROVE  Spec => IsFileStore
  <1>1. Init => RInv /\ Store!Init
    BY InitRefines, InitIInv DEF RInv
  <1>2. RInv /\ [Next]_vars => RInv'
    BY NextNames, NextIInv, SameNames DEF RInv, vars
  <1>3. RInv /\ [Next]_vars => [Store!Next]_(Store!vars)
    BY NextRefines, TablesStutter DEF vars
  <1> QED
    BY <1>1, <1>2, <1>3, PTL DEF Spec, IsFileStore, Store!Spec
=============================================================================
