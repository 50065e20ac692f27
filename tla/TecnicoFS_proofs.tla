--------------------------- MODULE TecnicoFS_proofs ---------------------------
(***************************************************************************)
(* Proofs about TecnicoFS, for tables of every size: blocks, i-nodes,      *)
(* directory entries and handles are accounted for after every call.       *)
(***************************************************************************)
EXTENDS TecnicoFS, FiniteSetTheorems, WellFoundedInduction, TLAPS

\* What the invariants rest on: the root stays allocated, everything else is a
\* file, and a handle, also a closed one, refers to an allocated i-node.
Linked ==
  /\ freeinode_ts[ROOT_DIR_INUM] = "TAKEN"
  /\ \A i \in Inodes \ {ROOT_DIR_INUM} : inode_table[i].i_node_type = "T_FILE"
  /\ \A h \in Handles :
       /\ freeinode_ts[open_file_table[h].of_inumber] = "TAKEN"
       /\ h \in OpenHandles =>
            open_file_table[h].of_inumber # ROOT_DIR_INUM

Counted == var = Cardinality(OpenHandles)

IInv == TypeOK /\ BlocksAccounted /\ DirectoryMatchesInodes /\ Linked /\ Counted

-----------------------------------------------------------------------------
(***************************************************************************)
(* Lemmas about the helpers.                                               *)
(***************************************************************************)

\* A scan upwards finds a member of any set of indices that has one.
LEMMA LowestIn ==
  ASSUME NEW S \in SUBSET Nat, S # {}
  PROVE  Lowest(S) \in S
  <1> DEFINE Below == {ss \in Nat \X Nat : ss[1] < ss[2]}
  <1>1. IsWellFoundedOn(Below, Nat)
    BY NatLessThanWellFounded DEF OpToRel
  <1> HIDE DEF Below
  <1>2. PICK x \in S : \A y \in S : ~ (<<y, x>> \in Below)
    BY <1>1, WFMin
  <1>3. \A y \in S : x <= y
    <2> SUFFICES ASSUME NEW y \in S, y < x PROVE FALSE
      OBVIOUS
    <2>1. <<y, x>> \in Nat \X Nat /\ <<y, x>>[1] < <<y, x>>[2]
      OBVIOUS
    <2>2. <<y, x>> \in Below
      BY <2>1 DEF Below
    <2> QED
      BY <1>2, <2>2
  <1> QED
    BY <1>2, <1>3 DEF Lowest

\* data_block_alloc returns a block that is FREE, or -1.
LEMMA AllocatedBlockIsFree ==
  ASSUME free_blocks \in [Blocks -> {"FREE", "TAKEN"}]
  PROVE  \/ AllocatedBlock = -1
         \/ AllocatedBlock \in Blocks /\ free_blocks[AllocatedBlock] = "FREE"
  <1>1. Free(free_blocks) \in SUBSET Nat
    BY SizesAssumption DEF Free, Blocks
  <1> QED
    BY <1>1, LowestIn DEF AllocatedBlock, Free

\* A name found in the directory is the name of some entry.
LEMMA FoundInDir ==
  ASSUME TypeOK, NEW name, find_in_dir(name) # -1
  PROVE  \E s \in FullSlots : find_in_dir(name) = dir_entry[s].d_inumber
  <1> DEFINE hits == {s \in Slots \ EmptySlots : dir_entry[s].d_name = name}
  <1>1. hits # {} /\ find_in_dir(name) = dir_entry[Lowest(hits)].d_inumber
    BY DEF find_in_dir
  <1>2. hits \in SUBSET Nat
    BY SizesAssumption DEF Slots
  <1>3. Lowest(hits) \in hits
    BY <1>1, <1>2, LowestIn
  <1> QED
    BY <1>1, <1>3 DEF FullSlots

\* The size_t difference is a size_t.
LEMMA MinusIsNat ==
  ASSUME NEW a \in Int, NEW b \in Int
  PROVE  Minus(a, b) \in Nat
  BY SizesAssumption DEF Minus

\* Moving the offset of a handle leaves its i-number alone.
LEMMA MoveOffset ==
  ASSUME TypeOK, NEW fh \in Handles, NEW offset \in 0 .. OffsetBound,
         open_file_table' = [open_file_table EXCEPT ![fh].of_offset = offset]
  PROVE  /\ open_file_table' \in [Handles -> [of_inumber : Inodes,
                                             of_offset : 0 .. OffsetBound]]
         /\ \A h \in Handles :
              open_file_table'[h].of_inumber = open_file_table[h].of_inumber
  <1> DEFINE moved == [open_file_table[fh] EXCEPT !.of_offset = offset]
  <1>1. /\ moved \in [of_inumber : Inodes, of_offset : 0 .. OffsetBound]
        /\ moved.of_inumber = open_file_table[fh].of_inumber
    BY DEF TypeOK
  <1>2. open_file_table' = [open_file_table EXCEPT ![fh] = moved]
    OBVIOUS
  <1> HIDE DEF moved
  <1>3. \A h \in Handles : open_file_table'[h] = IF h = fh THEN moved ELSE open_file_table[h]
    BY <1>2 DEF TypeOK
  <1> QED
    BY <1>1, <1>2, <1>3 DEF TypeOK

\* The open handles are finitely many.
LEMMA OpenHandlesFinite ==
  ASSUME TypeOK
  PROVE  IsFiniteSet(OpenHandles)
  <1>1. IsFiniteSet(0 .. MAX_OPEN_FILES - 1)
    BY SizesAssumption, FS_Interval
  <1>2. OpenHandles \subseteq 0 .. MAX_OPEN_FILES - 1
    BY DEF OpenHandles, Taken, TypeOK, Handles
  <1> QED
    BY <1>1, <1>2, FS_Subset

\* Taking a free entry of the table of open files, or none, keeps the table
\* typed and counted, and leaves every other handle alone.
LEMMA OpenHandle ==
  ASSUME TypeOK, Counted, NEW inum \in Inodes, NEW offset \in 0 .. OffsetBound,
         add_to_open_file_table(inum, offset)
  PROVE  /\ open_file_table' \in [Handles -> [of_inumber : Inodes,
                                             of_offset : 0 .. OffsetBound]]
         /\ free_open_file_entries' \in [Handles -> {"FREE", "TAKEN"}]
         /\ var' \in Nat /\ Counted'
         /\ reply'.call = "open" /\ reply'.fh \in Handles \cup {-1} /\ reply'.ret \in Int
         /\ \A h \in Handles :
              \/ open_file_table'[h].of_inumber = inum
              \/ /\ open_file_table'[h] = open_file_table[h]
                 /\ free_open_file_entries'[h] = free_open_file_entries[h]
  <1> DEFINE taken == OpenHandles
             h     == Lowest(Free(free_open_file_entries))
  <1>1. CASE Free(free_open_file_entries) = {}
    BY <1>1 DEF add_to_open_file_table, Reply, openTable, TypeOK, Counted,
                OpenHandles, Taken
  <1>2. CASE Free(free_open_file_entries) # {}
    <2>1. Free(free_open_file_entries) \in SUBSET Nat
      BY SizesAssumption DEF Free, Handles, TypeOK
    <2>2. h \in Free(free_open_file_entries)
      BY <1>2, <2>1, LowestIn
    <2>20. h \in Handles /\ h \notin taken /\ h \in Int
      BY <2>2, SizesAssumption DEF Free, OpenHandles, Taken, TypeOK, Handles
    <2>3. /\ free_open_file_entries' = [free_open_file_entries EXCEPT ![h] = "TAKEN"]
          /\ open_file_table' = [open_file_table EXCEPT
                                  ![h] = [of_inumber |-> inum, of_offset |-> offset]]
          /\ var' = var + 1 /\ Reply("open", h, h)
      BY <1>2 DEF add_to_open_file_table
    <2>4. OpenHandles' = taken \cup {h}
      BY <2>20, <2>3 DEF OpenHandles, Taken, TypeOK
    <2>5. IsFiniteSet(taken)
      BY OpenHandlesFinite
    <2>6. Cardinality(taken \cup {h}) = Cardinality(taken) + 1
      BY <2>20, <2>5, FS_AddElement
    <2> HIDE DEF h
    <2>7. Counted' /\ var' \in Nat
      BY <2>3, <2>4, <2>6 DEF Counted, TypeOK
    <2>8. /\ open_file_table' \in [Handles -> [of_inumber : Inodes,
                                               of_offset : 0 .. OffsetBound]]
          /\ free_open_file_entries' \in [Handles -> {"FREE", "TAKEN"}]
      BY <2>20, <2>3 DEF TypeOK
    <2>9. reply'.call = "open" /\ reply'.fh = h /\ reply'.ret = h
      BY <2>3 DEF Reply
    <2>10. \A k \in Handles :
             \/ open_file_table'[k].of_inumber = inum
             \/ /\ open_file_table'[k] = open_file_table[k]
                /\ free_open_file_entries'[k] = free_open_file_entries[k]
      BY <2>20, <2>3 DEF TypeOK
    <2> QED
      BY <2>20, <2>7, <2>8, <2>9, <2>10
  <1> QED
    BY <1>1, <1>2

\* A call that changes nothing but the reply keeps the invariant.
LEMMA OnlyReplies ==
  ASSUME IInv, OpenFails \/ \E call \in {"write", "read"} : BadHandle(call)
  PROVE  IInv'
  <1>1. /\ UNCHANGED <<inode_table, freeinode_ts, free_blocks, fs_data, dir_entry,
                      open_file_table, free_open_file_entries, var>>
        /\ reply'.call \in {"open", "write", "read"}
        /\ reply'.fh = -1 /\ reply'.ret = -1
    BY DEF OpenFails, BadHandle, Reply, openTable
  <1>2. TypeOK'
    BY <1>1 DEF IInv, TypeOK
  <1>3. (BlocksAccounted /\ DirectoryMatchesInodes)'
    BY <1>1 DEF IInv, BlocksAccounted, Owners, Taken, DirectoryMatchesInodes,
                FullSlots, EmptySlots
  <1>4. (Linked /\ Counted)'
    BY <1>1 DEF IInv, Linked, Counted, OpenHandles, Taken
  <1> QED
    BY <1>2, <1>3, <1>4 DEF IInv

-----------------------------------------------------------------------------
(***************************************************************************)
(* Every call keeps the invariant.                                         *)
(***************************************************************************)

LEMMA OpenExistingIInv ==
  ASSUME IInv, NEW inum \in Inodes \ {ROOT_DIR_INUM}, freeinode_ts[inum] = "TAKEN",
         NEW flags, OpenExisting(inum, flags)
  PROVE  IInv'
  <1> DEFINE inode == inode_table[inum]
  <1> USE DEF IInv
  <1>1. CASE Truncates(inode, flags) /\ inode.i_data_block \notin Blocks
    BY <1>1, OnlyReplies DEF OpenExisting
  <1>2. CASE ~ (Truncates(inode, flags) /\ inode.i_data_block \notin Blocks)
    <2> DEFINE size   == SizeAtOpen(inode, flags)
               offset == OffsetAtOpen(inode, flags)
    <2>1. /\ free_blocks' = BlocksAtOpen(inode, flags)
          /\ inode_table' = [inode_table EXCEPT ![inum].i_size = size]
          /\ add_to_open_file_table(inum, offset)
          /\ UNCHANGED <<freeinode_ts, fs_data, dir_entry>>
      BY <1>2 DEF OpenExisting
    <2>2. size \in 0 .. BLOCK_SIZE /\ offset \in 0 .. OffsetBound
      <3>1. inode.i_size \in 0 .. BLOCK_SIZE
        BY DEF TypeOK, InodeRecord
      <3> QED
        BY <3>1, SizesAssumption DEF SizeAtOpen, OffsetAtOpen
    <2>3. TypeOK' /\ Counted'
      <3>1. inode_table' \in [Inodes -> InodeRecord]
        <4>1. [inode EXCEPT !.i_size = size] \in InodeRecord
          BY <2>2 DEF TypeOK, InodeRecord
        <4>2. inode_table' = [inode_table EXCEPT ![inum] = [inode EXCEPT !.i_size = size]]
          BY <2>1
        <4> QED
          BY <4>1, <4>2 DEF TypeOK
      <3>2. free_blocks' \in [Blocks -> {"FREE", "TAKEN"}]
        BY <2>1 DEF TypeOK, BlocksAtOpen
      <3> QED
        BY <2>1, <2>2, <3>1, <3>2, OpenHandle DEF TypeOK
    <2>4. BlocksAccounted'
      <3>1. CASE Truncates(inode, flags)
        <4>1. /\ free_blocks' = [free_blocks EXCEPT ![inode.i_data_block] = "FREE"]
              /\ size = 0 /\ inum \in Owners
          BY <2>1, <3>1 DEF BlocksAtOpen, SizeAtOpen, Truncates, Owners, Taken, TypeOK
        <4>2. Owners' = Owners \ {inum}
          BY <2>1, <4>1 DEF Owners, Taken, TypeOK, InodeRecord
        <4>3. \A i \in Inodes : inode_table'[i].i_data_block = inode_table[i].i_data_block
          BY <2>1 DEF TypeOK, InodeRecord
        <4>4. Taken(free_blocks)' = Taken(free_blocks) \ {inode.i_data_block}
          BY <4>1 DEF Taken, TypeOK
        <4>5. Owners \subseteq Inodes
          BY DEF Owners, Taken, TypeOK
        <4>6. \A i \in Owners' : inode_table'[i].i_data_block = inode_table[i].i_data_block
          BY <4>2, <4>3, <4>5
        <4>7. {inode_table'[i].i_data_block : i \in Owners'} = Taken(free_blocks)'
          <5>1. ASSUME NEW b, b # inode.i_data_block
                PROVE  (\E i \in Owners' : inode_table'[i].i_data_block = b)
                         <=> \E i \in Owners : inode_table[i].i_data_block = b
            BY <4>2, <4>6, <5>1
          <5>2. ~ \E i \in Owners' : inode_table'[i].i_data_block = inode.i_data_block
            BY <4>1, <4>2, <4>6 DEF BlocksAccounted
          <5>3. \A b : b \in Taken(free_blocks)
                        <=> \E i \in Owners : inode_table[i].i_data_block = b
            BY DEF BlocksAccounted
          <5> HIDE DEF inode
          <5> QED
            BY <4>4, <5>1, <5>2, <5>3
        <4> QED
          BY <4>2, <4>6, <4>7 DEF BlocksAccounted
      <3>2. CASE ~ Truncates(inode, flags)
        <4>1. size = inode.i_size /\ free_blocks' = free_blocks
          BY <2>1, <3>2 DEF SizeAtOpen, BlocksAtOpen
        <4>2. inode_table' = inode_table
          BY <2>1, <4>1 DEF TypeOK, InodeRecord
        <4> QED
          BY <2>1, <4>1, <4>2 DEF BlocksAccounted, Owners
      <3> QED
        BY <3>1, <3>2
    <2>5. DirectoryMatchesInodes'
      BY <2>1 DEF DirectoryMatchesInodes, FullSlots, EmptySlots
    <2>6. Linked'
      <3>1. \A i \in Inodes \ {ROOT_DIR_INUM} : inode_table'[i].i_node_type = "T_FILE"
        BY <2>1 DEF Linked, TypeOK, InodeRecord
      <3>2. \A h \in Handles :
              \/ open_file_table'[h].of_inumber = inum
              \/ /\ open_file_table'[h] = open_file_table[h]
                 /\ free_open_file_entries'[h] = free_open_file_entries[h]
        BY <2>1, <2>2, OpenHandle
      <3>3. free_open_file_entries' \in [Handles -> {"FREE", "TAKEN"}]
        BY <2>3 DEF TypeOK
      <3> QED
        BY <2>1, <3>1, <3>2, <3>3 DEF Linked, OpenHandles, Taken, TypeOK
    <2> QED
      BY <2>3, <2>4, <2>5, <2>6
  <1> QED
    BY <1>1, <1>2

LEMMA OpenCreatedIInv ==
  ASSUME IInv, NEW path \in Paths, OpenCreated(path)
  PROVE  IInv'
  <1> DEFINE inum    == Lowest(Free(freeinode_ts))
             slot    == Lowest(EmptySlots)
             created == [freeinode_ts EXCEPT ![inum] = "TAKEN"]
             fails   == path.sub = NoName \/ EmptySlots = {}
  <1> USE DEF IInv
  <1>1. inum \in Free(freeinode_ts)
    <2>1. Free(freeinode_ts) \in SUBSET Nat
      BY SizesAssumption DEF Free, TypeOK, Inodes
    <2> QED
      BY <2>1, LowestIn DEF OpenCreated
  <1>2. inum \in Inodes \ {ROOT_DIR_INUM} /\ freeinode_ts[inum] = "FREE"
    BY <1>1 DEF Free, TypeOK, Linked
  <1>3. ~ fails => slot \in EmptySlots
    <2>1. EmptySlots \in SUBSET Nat
      BY SizesAssumption DEF EmptySlots, Slots
    <2> QED
      BY <2>1, LowestIn
  <1>4. /\ inode_table' = [inode_table EXCEPT ![inum] = NewInode]
        /\ UNCHANGED <<free_blocks, fs_data>>
    BY DEF OpenCreated
  <1>5. fails => /\ freeinode_ts' = inode_delete(created, inum)
                 /\ Reply("open", -1, -1)
                 /\ UNCHANGED <<dir_entry, openTable>>
    BY DEF OpenCreated
  <1>6. ~ fails => /\ freeinode_ts' = created
                   /\ dir_entry' = [dir_entry EXCEPT
                        ![slot] = [d_inumber |-> inum, d_name |-> Stored(path.sub)]]
                   /\ add_to_open_file_table(inum, 0)
    BY DEF OpenCreated
  <1> HIDE DEF inum, slot
  <1>7. inode_table' \in [Inodes -> InodeRecord]
    <2>1. NewInode \in InodeRecord
      BY SizesAssumption DEF NewInode, InodeRecord
    <2> QED
      BY <1>2, <1>4, <2>1 DEF TypeOK
  <1>8. fails => freeinode_ts' = freeinode_ts
    BY <1>2, <1>5 DEF inode_delete, TypeOK
  <1>9. BlocksAccounted'
    <2>1. Owners' = Owners
      BY <1>2, <1>4, <1>6, <1>8 DEF Owners, Taken, TypeOK, NewInode
    <2>2. \A i \in Owners : inode_table'[i] = inode_table[i]
      BY <1>2, <1>4 DEF Owners, Taken, TypeOK
    <2> QED
      BY <1>4, <2>1, <2>2 DEF BlocksAccounted
  <1>10. \A i \in Inodes \ {ROOT_DIR_INUM} : inode_table'[i].i_node_type = "T_FILE"
    BY <1>2, <1>4 DEF Linked, TypeOK, NewInode
  <1>11. CASE fails
    <2>1. TypeOK'
      BY <1>4, <1>5, <1>7, <1>8, <1>11 DEF TypeOK, openTable, Reply
    <2>2. DirectoryMatchesInodes'
      BY <1>5, <1>8, <1>11 DEF DirectoryMatchesInodes, FullSlots, EmptySlots
    <2>3. (Linked /\ Counted)'
      BY <1>5, <1>8, <1>10, <1>11 DEF Linked, Counted, OpenHandles, Taken, openTable
    <2> QED
      BY <1>9, <2>1, <2>2, <2>3
  <1>12. CASE ~ fails
    <2>1. Stored(path.sub) \in Names
      BY <1>12, NamesAssumption DEF Stored
    <2>2. dir_entry' \in [Slots -> [d_inumber : Inodes \cup {-1},
                                  d_name : Names \cup {NoName}]]
      BY <1>2, <1>6, <1>12, <2>1 DEF TypeOK
    <2>3. TypeOK' /\ Counted'
      <3>1. 0 \in 0 .. OffsetBound
        BY SizesAssumption
      <3>2. freeinode_ts' \in [Inodes -> {"FREE", "TAKEN"}]
        BY <1>6, <1>12 DEF TypeOK
      <3> QED
        BY <1>2, <1>4, <1>6, <1>7, <1>12, <2>2, <3>1, <3>2, OpenHandle DEF TypeOK
    <2>4. DirectoryMatchesInodes'
      <3>1. slot \in Slots \ FullSlots
        BY <1>3, <1>12 DEF FullSlots, EmptySlots
      <3>2. FullSlots' = FullSlots \cup {slot}
        BY <1>2, <1>6, <1>12, <3>1 DEF FullSlots, EmptySlots, TypeOK, Inodes
      <3>3. /\ dir_entry'[slot].d_inumber = inum
            /\ \A s \in FullSlots : dir_entry'[s] = dir_entry[s]
        BY <1>6, <1>12, <3>1 DEF TypeOK, FullSlots
      <3>4. Taken(freeinode_ts)' = Taken(freeinode_ts) \cup {inum}
        BY <1>2, <1>6, <1>12 DEF Taken, TypeOK
      <3>5. inum \notin Taken(freeinode_ts) /\ inum # ROOT_DIR_INUM
        BY <1>2 DEF Taken
      <3>6. {dir_entry'[s].d_inumber : s \in FullSlots'} =
              Taken(freeinode_ts)' \ {ROOT_DIR_INUM}
        BY <3>2, <3>3, <3>4, <3>5 DEF DirectoryMatchesInodes
      <3>7. \A s \in FullSlots : dir_entry[s].d_inumber # inum
        BY <3>5 DEF DirectoryMatchesInodes
      <3> QED
        BY <3>2, <3>3, <3>6, <3>7 DEF DirectoryMatchesInodes
    <2>5. Linked'
      <3>1. \A h \in Handles :
              \/ open_file_table'[h].of_inumber = inum
              \/ /\ open_file_table'[h] = open_file_table[h]
                 /\ free_open_file_entries'[h] = free_open_file_entries[h]
        BY <1>2, <1>6, <1>12, SizesAssumption, OpenHandle
      <3>2. free_open_file_entries' \in [Handles -> {"FREE", "TAKEN"}]
        BY <2>3 DEF TypeOK
      <3>3. \A i \in Inodes : freeinode_ts[i] = "TAKEN" => freeinode_ts'[i] = "TAKEN"
        BY <1>2, <1>6, <1>12 DEF TypeOK
      <3>4. freeinode_ts'[inum] = "TAKEN"
        BY <1>2, <1>6, <1>12 DEF TypeOK
      <3>5. ROOT_DIR_INUM \in Inodes
        BY SizesAssumption DEF Inodes, ROOT_DIR_INUM
      <3> QED
        BY <1>2, <1>10, <3>1, <3>2, <3>3, <3>4, <3>5
        DEF Linked, OpenHandles, Taken, TypeOK
    <2> QED
      BY <1>9, <2>3, <2>4, <2>5
  <1> QED
    BY <1>11, <1>12

LEMMA OpenIInv ==
  ASSUME IInv, NEW path \in Paths, NEW flags \in SUBSET Flags, tfs_open(path, flags)
  PROVE  IInv'
  <1> DEFINE inum == lookup(path)
  <1>1. CASE inum >= 0 /\ OpenExisting(inum, flags)
    <2>1. PICK s \in FullSlots : inum = dir_entry[s].d_inumber
      BY <1>1, FoundInDir DEF lookup, IInv
    <2>2. inum \in Inodes \ {ROOT_DIR_INUM} /\ freeinode_ts[inum] = "TAKEN"
      BY <2>1 DEF IInv, DirectoryMatchesInodes, Taken, TypeOK
    <2> QED
      BY <1>1, <2>2, OpenExistingIInv
  <1>2. CASE OpenCreated(path)
    BY <1>2, OpenCreatedIInv
  <1>3. CASE OpenFails
    BY <1>3, OnlyReplies
  <1> QED
    BY <1>1, <1>2, <1>3 DEF tfs_open

LEMMA CloseIInv ==
  ASSUME IInv, NEW fh \in Handles \cup {-1}, tfs_close(fh)
  PROVE  IInv'
  <1> USE DEF IInv
  <1>1. (BlocksAccounted /\ DirectoryMatchesInodes)'
    BY DEF tfs_close, BlocksAccounted, Owners, Taken, DirectoryMatchesInodes,
           FullSlots, EmptySlots
  <1>2. CASE fh \in OpenHandles
    <2>1. fh \in Handles
      BY <1>2 DEF OpenHandles, Taken, TypeOK
    <2>2. OpenHandles' = OpenHandles \ {fh}
      BY <1>2, <2>1 DEF tfs_close, OpenHandles, Taken, TypeOK
    <2>3. IsFiniteSet(OpenHandles)
      BY OpenHandlesFinite
    <2>4. /\ Cardinality(OpenHandles \ {fh}) = Cardinality(OpenHandles) - 1
          /\ Cardinality(OpenHandles \ {fh}) \in Nat
      BY <1>2, <2>3, FS_RemoveElement, FS_CardinalityType
    <2>5. Counted' /\ var' \in Nat
      BY <1>2, <2>2, <2>4 DEF tfs_close, Counted, TypeOK
    <2>6. TypeOK'
      <3>1. /\ free_open_file_entries' = [free_open_file_entries EXCEPT ![fh] = "FREE"]
            /\ reply'.call = "close" /\ reply'.fh = fh /\ reply'.ret = 0
            /\ UNCHANGED <<inode_table, freeinode_ts, free_blocks, fs_data, dir_entry,
                           open_file_table>>
        BY <1>2 DEF tfs_close, Reply
      <3>2. free_open_file_entries' \in [Handles -> {"FREE", "TAKEN"}]
        BY <3>1 DEF TypeOK
      <3> QED
        BY <2>1, <2>5, <3>1, <3>2 DEF TypeOK
    <2>7. Linked'
      BY <1>2, <2>2 DEF tfs_close, Linked
    <2> QED
      BY <1>1, <2>5, <2>6, <2>7
  <1>3. CASE fh \notin OpenHandles
    <2>1. TypeOK'
      BY <1>3 DEF tfs_close, Reply, TypeOK
    <2>2. (Linked /\ Counted)'
      BY <1>3 DEF tfs_close, Linked, Counted, OpenHandles, Taken
    <2> QED
      BY <1>1, <2>1, <2>2
  <1> QED
    BY <1>2, <1>3

LEMMA ReadIInv ==
  ASSUME IInv, NEW fh \in Handles, NEW len \in Lens, tfs_read(fh, len)
  PROVE  IInv'
  <1> DEFINE file    == open_file_table[fh]
             inode   == inode_table[file.of_inumber]
             to_read == ToRead(inode.i_size, file.of_offset, len)
  <1> USE DEF IInv
  <1>1. file.of_inumber \in Inodes /\ file.of_offset \in 0 .. OffsetBound
    BY DEF TypeOK
  <1>2. inode.i_size \in 0 .. BLOCK_SIZE
    BY <1>1 DEF TypeOK, InodeRecord
  <1>3. to_read \in Nat
    <2>1. len \in Nat
      BY SizesAssumption DEF Lens
    <2>2. inode.i_size \in Int /\ file.of_offset \in Int
      BY <1>1, <1>2
    <2> QED
      BY <2>1, <2>2, MinusIsNat DEF ToRead
  <1>4. /\ UNCHANGED <<inode_table, freeinode_ts, free_blocks, fs_data, dir_entry,
                      free_open_file_entries, var>>
        /\ file.of_offset + to_read <= OffsetBound
    BY DEF tfs_read
  <1>5. \/ open_file_table' = open_file_table /\ reply'.ret = -1
        \/ /\ open_file_table' =
                 [open_file_table EXCEPT ![fh].of_offset = file.of_offset + to_read]
           /\ reply'.ret = to_read
    BY DEF tfs_read, Reply
  <1>6. reply'.call = "read" /\ reply'.fh = fh
    BY DEF tfs_read, Reply
  <1> HIDE DEF to_read
  <1>7. /\ open_file_table' \in [Handles -> [of_inumber : Inodes,
                                            of_offset : 0 .. OffsetBound]]
        /\ \A h \in Handles :
             open_file_table'[h].of_inumber = open_file_table[h].of_inumber
    <2>1. file.of_offset + to_read \in 0 .. OffsetBound
      BY <1>1, <1>3, <1>4, SizesAssumption
    <2>2. CASE open_file_table' = open_file_table
      BY <2>2 DEF TypeOK
    <2> QED
      BY <1>5, <2>1, <2>2, MoveOffset
  <1>8. TypeOK'
    BY <1>3, <1>4, <1>5, <1>6, <1>7 DEF TypeOK
  <1>9. (BlocksAccounted /\ DirectoryMatchesInodes /\ Counted)'
    BY <1>4 DEF BlocksAccounted, Owners, Taken, DirectoryMatchesInodes, FullSlots,
                EmptySlots, Counted, OpenHandles
  <1>10. Linked'
    BY <1>4, <1>7 DEF Linked, OpenHandles, Taken
  <1> QED
    BY <1>8, <1>9, <1>10

LEMMA WriteIInv ==
  ASSUME IInv, NEW fh \in Handles, NEW v \in Data, NEW n \in Lens, tfs_write(fh, v, n)
  PROVE  IInv'
  <1> DEFINE file     == open_file_table[fh]
             inum     == file.of_inumber
             offset   == file.of_offset
             inode    == inode_table[inum]
             to_write == IF n + offset > BLOCK_SIZE THEN Minus(BLOCK_SIZE, offset) ELSE n
             alloc    == to_write > 0 /\ inode.i_size = 0
             block    == IF alloc THEN AllocatedBlock ELSE inode.i_data_block
             end      == offset + to_write
             written  == to_write > 0 /\ block \in Blocks
  <1> USE DEF IInv
  <1>1. /\ inum \in Inodes /\ offset \in Nat
        /\ inode.i_size \in 0 .. BLOCK_SIZE /\ inode.i_data_block \in Blocks \cup {-1}
        /\ inum # ROOT_DIR_INUM /\ inum \in Taken(freeinode_ts)
    <2>1. Issued(fh)
      BY DEF tfs_write
    <2>2. inum \in Inodes /\ offset \in Nat
      BY DEF TypeOK
    <2>3. inum # ROOT_DIR_INUM /\ freeinode_ts[inum] = "TAKEN"
      BY <2>1 DEF Issued, Linked
    <2>4. inode \in InodeRecord
      BY <2>2 DEF TypeOK
    <2>5. inum \in Taken(freeinode_ts)
      BY <2>2, <2>3 DEF TypeOK, Taken
    <2> HIDE DEF inode
    <2>6. inode.i_size \in 0 .. BLOCK_SIZE /\ inode.i_data_block \in Blocks \cup {-1}
      BY <2>4 DEF InodeRecord
    <2> QED
      BY <2>2, <2>3, <2>5, <2>6
  <1>2. to_write \in Nat
    <2>1. n \in Nat /\ BLOCK_SIZE \in Int /\ offset \in Int
      BY <1>1, SizesAssumption DEF Lens
    <2>2. Minus(BLOCK_SIZE, offset) \in Nat
      BY <2>1, MinusIsNat
    <2> QED
      BY <2>1, <2>2
  <1>3. UNCHANGED <<freeinode_ts, dir_entry, free_open_file_entries, var>>
    BY DEF tfs_write
  <1>4. (DirectoryMatchesInodes /\ Counted)'
    BY <1>3 DEF DirectoryMatchesInodes, FullSlots, EmptySlots, Counted, OpenHandles, Taken
  <1>5. CASE written /\ end > BLOCK_SIZE
    <2>1. /\ Reply("crash", fh, 0)
          /\ UNCHANGED <<inode_table, free_blocks, fs_data, open_file_table>>
      BY <1>5 DEF tfs_write
    <2>2. TypeOK'
      BY <1>3, <2>1 DEF TypeOK, Reply
    <2>3. (BlocksAccounted /\ Linked)'
      BY <1>3, <2>1 DEF BlocksAccounted, Owners, Taken, Linked, OpenHandles
    <2> QED
      BY <1>4, <2>2, <2>3
  <1>6. CASE ~ (written /\ end > BLOCK_SIZE)
    <2> DEFINE size == IF written /\ end > inode.i_size THEN end ELSE inode.i_size
    <2>1. /\ free_blocks' = IF alloc /\ written
               THEN [free_blocks EXCEPT ![block] = "TAKEN"] ELSE free_blocks
          /\ Reply("write", fh, IF to_write > 0 /\ ~written THEN -1 ELSE to_write)
          /\ inode_table' = [inode_table EXCEPT ![inum].i_data_block = block,
                                                ![inum].i_size = size]
          /\ fs_data' = IF written
               THEN [fs_data EXCEPT ![block] =
                      [k \in Cells |-> IF k \in offset .. end - 1 THEN v ELSE @[k]]]
               ELSE fs_data
          /\ open_file_table' = IF written
               THEN [open_file_table EXCEPT ![fh].of_offset = end]
               ELSE open_file_table
      BY <1>6 DEF tfs_write
    <2>2. block \in Blocks \cup {-1} /\ (alloc /\ written => free_blocks[block] = "FREE")
      <3>1. -1 \notin Blocks
        BY SizesAssumption DEF Blocks
      <3> QED
        BY <1>1, <3>1, AllocatedBlockIsFree DEF TypeOK
    <2>3. /\ alloc <=> to_write > 0 /\ inode.i_size = 0
          /\ written <=> to_write > 0 /\ block \in Blocks
          /\ ~ alloc => block = inode.i_data_block
          /\ end = offset + to_write /\ (written => end <= BLOCK_SIZE)
      BY <1>1, <1>2, <1>6, SizesAssumption
    <2> HIDE DEF to_write, alloc, block, end, written
    <2>4. /\ size \in 0 .. BLOCK_SIZE /\ (written => end \in 0 .. OffsetBound)
          /\ size > 0 <=> (inode.i_size > 0 \/ (alloc /\ written))
      <3>1. CASE written
        BY <1>1, <1>2, <2>3, <3>1, SizesAssumption
      <3>2. CASE ~ written
        BY <1>1, <2>3, <3>2
      <3> QED
        BY <3>1, <3>2
    <2> HIDE DEF size
    <2>5. /\ inode_table' \in [Inodes -> InodeRecord]
          /\ \A i \in Inodes \ {inum} : inode_table'[i] = inode_table[i]
          /\ inode_table'[inum].i_size = size
          /\ inode_table'[inum].i_data_block = block
          /\ inode_table'[inum].i_node_type = inode.i_node_type
      <3> DEFINE new == [inode EXCEPT !.i_data_block = block, !.i_size = size]
      <3>1. /\ new \in InodeRecord /\ new.i_size = size
            /\ new.i_data_block = block /\ new.i_node_type = inode.i_node_type
        <4>1. inode \in InodeRecord
          BY <1>1 DEF TypeOK
        <4> HIDE DEF inode
        <4> QED
          BY <2>2, <2>4, <4>1 DEF InodeRecord
      <3>2. inode_table' = [inode_table EXCEPT ![inum] = new]
        BY <2>1
      <3> HIDE DEF new
      <3> QED
        BY <1>1, <3>1, <3>2 DEF TypeOK
    <2>6. /\ open_file_table' \in [Handles -> [of_inumber : Inodes,
                                              of_offset : 0 .. OffsetBound]]
          /\ \A h \in Handles :
               open_file_table'[h].of_inumber = open_file_table[h].of_inumber
      BY <2>1, <2>4, MoveOffset DEF TypeOK
    <2>7. fs_data' \in [Blocks -> [Cells -> Bytes]]
      BY <2>1, <2>3 DEF TypeOK, Bytes
    <2>8. TypeOK'
      <3>1. free_blocks' \in [Blocks -> {"FREE", "TAKEN"}]
        BY <2>1 DEF TypeOK
      <3>2. reply'.call = "write" /\ reply'.fh = fh /\ reply'.ret \in Int
        BY <1>2, <2>1 DEF Reply
      <3> QED
        BY <1>3, <2>5, <2>6, <2>7, <3>1, <3>2 DEF TypeOK
    <2>9. Linked'
      BY <1>1, <1>3, <2>5, <2>6 DEF Linked, OpenHandles, Taken
    <2>10. BlocksAccounted'
      <3>1. CASE alloc /\ written
        <4>1. inum \notin Owners /\ Owners' = Owners \cup {inum}
          BY <1>1, <1>3, <2>3, <2>4, <2>5, <3>1 DEF Owners, Taken, TypeOK
        <4>2. Taken(free_blocks)' = Taken(free_blocks) \cup {block}
          BY <2>1, <2>3, <3>1 DEF Taken, TypeOK
        <4>3. block \notin Taken(free_blocks)
          BY <2>2, <3>1 DEF Taken
        <4>4. \A i \in Owners : inode_table'[i] = inode_table[i]
          BY <2>5, <4>1 DEF Owners, Taken, TypeOK
        <4>5. \A i \in Owners : inode_table[i].i_data_block # block
          BY <4>3 DEF BlocksAccounted
        <4>6. {inode_table'[i].i_data_block : i \in Owners'} = Taken(free_blocks)'
          BY <2>5, <4>1, <4>2, <4>4 DEF BlocksAccounted
        <4> QED
          BY <2>5, <4>1, <4>4, <4>5, <4>6 DEF BlocksAccounted
      <3>2. CASE ~ (alloc /\ written)
        <4>1. Owners' = Owners
          BY <1>1, <1>3, <2>4, <2>5, <3>2 DEF Owners, Taken, TypeOK
        <4>2. free_blocks' = free_blocks
          BY <2>1, <3>2
        <4>3. \A i \in Owners : inode_table'[i].i_data_block = inode_table[i].i_data_block
          BY <1>1, <1>2, <2>3, <2>5 DEF Owners, Taken, TypeOK
        <4> QED
          BY <4>1, <4>2, <4>3 DEF BlocksAccounted
      <3> QED
        BY <3>1, <3>2
    <2> QED
      BY <1>4, <2>8, <2>9, <2>10
  <1> QED
    BY <1>5, <1>6

-----------------------------------------------------------------------------

LEMMA InitIInv == Init => IInv
  <1> SUFFICES ASSUME Init PROVE IInv
    OBVIOUS
  <1> USE SizesAssumption DEF Init
  <1>1. TypeOK
    <2>1. 0 \in Inodes /\ 0 \in Blocks /\ 0 \in 0 .. OffsetBound /\ 0 \in Bytes
      BY DEF Inodes, Blocks, Bytes
    <2> QED
      BY <2>1 DEF TypeOK, InodeRecord
  <1>2. BlocksAccounted
    <2>1. Owners = {ROOT_DIR_INUM}
      BY DEF Owners, Taken, ROOT_DIR_INUM, Inodes
    <2>2. Taken(free_blocks) = {0}
      BY DEF Taken, Blocks
    <2> QED
      BY <2>1, <2>2 DEF BlocksAccounted, ROOT_DIR_INUM, Inodes
  <1>3. DirectoryMatchesInodes
    <2>1. FullSlots = {}
      BY DEF FullSlots, EmptySlots
    <2>2. Taken(freeinode_ts) = {ROOT_DIR_INUM}
      BY DEF Taken, ROOT_DIR_INUM, Inodes
    <2> QED
      BY <2>1, <2>2 DEF DirectoryMatchesInodes
  <1>4. OpenHandles = {}
    BY DEF OpenHandles, Taken
  <1>5. Linked /\ Counted
    BY <1>4, FS_EmptySet DEF Linked, Counted, ROOT_DIR_INUM, Inodes
  <1> QED
    BY <1>1, <1>2, <1>3, <1>5 DEF IInv

LEMMA NextIInv == IInv /\ [Next]_vars => IInv'
  <1> SUFFICES ASSUME IInv, [Next]_vars PROVE IInv'
    OBVIOUS
  <1>1. CASE UNCHANGED vars
    BY <1>1 DEF vars, IInv, TypeOK, BlocksAccounted, Owners, Taken,
                DirectoryMatchesInodes, FullSlots, EmptySlots, Linked, Counted, OpenHandles
  <1>2. CASE Next
    BY <1>2, OpenIInv, CloseIInv, WriteIInv, ReadIInv, OnlyReplies DEF Next
  <1> QED
    BY <1>1, <1>2

LEMMA Invariance == Spec => []IInv
  BY InitIInv, NextIInv, PTL DEF Spec

\* The tables of fs/state.c hold values of their types after every call.
THEOREM TypeCorrect == Spec => []TypeOK
  BY Invariance, PTL DEF IInv

\* No call of fs/operations.c leaks a block or gives it to two files.
THEOREM BlocksAreAccounted == Spec => []BlocksAccounted
  BY Invariance, PTL DEF IInv

\* No call leaves an i-node without an entry or an entry without an i-node.
THEOREM DirectoryMatches == Spec => []DirectoryMatchesInodes
  BY Invariance, PTL DEF IInv

\* var is the number of open handles, and each is the handle of a file.
THEOREM OpenFilesAreCounted == Spec => []OpenFilesCounted
  <1>1. IInv => OpenFilesCounted
    BY DEF IInv, Linked, Counted, OpenFilesCounted, OpenHandles, Taken, TypeOK
  <1> QED
    BY <1>1, Invariance, PTL
=============================================================================
