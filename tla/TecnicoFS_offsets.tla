--------------------------- MODULE TecnicoFS_offsets ---------------------------
(***************************************************************************)
(* Proofs about callers that use a handle only while it is open and do not *)
(* truncate an open file: no subtraction on size_t wraps, no call leaves   *)
(* the block of its file, and a read stops where the file ends.            *)
(***************************************************************************)
EXTENDS TecnicoFS_proofs

\* What callers do in the run fs_careful.
CarefulCallers == ~ UseAfterClose /\ ~ TruncateOpen

SizeOf(h) == inode_table[open_file_table[h].of_inumber].i_size

CInv == IInv /\ OffsetsWithinFiles

-----------------------------------------------------------------------------

\* Where nothing wraps the size_t difference is the difference.
LEMMA MinusIsDifference ==
  ASSUME NEW a \in 0 .. BLOCK_SIZE, NEW b \in 0 .. a
  PROVE  Minus(a, b) = a - b
  <1>1. a - b \in 0 .. SIZE_MOD - 1
    BY SizesAssumption
  <1> QED
    BY <1>1, SizesAssumption DEF Minus

\* A handle that a careful caller passes is open, its offset in its file.
LEMMA CarefulHandle ==
  ASSUME CarefulCallers, CInv, NEW fh \in Handles, Issued(fh)
  PROVE  /\ fh \in OpenHandles
         /\ open_file_table[fh].of_inumber \in Inodes
         /\ SizeOf(fh) \in 0 .. BLOCK_SIZE
         /\ open_file_table[fh].of_offset \in 0 .. SizeOf(fh)
  <1>1. fh \in OpenHandles
    BY DEF CarefulCallers, Issued
  <1>2. /\ open_file_table[fh].of_inumber \in Inodes
        /\ open_file_table[fh].of_offset \in 0 .. OffsetBound
    BY DEF CInv, IInv, TypeOK
  <1>3. SizeOf(fh) \in 0 .. BLOCK_SIZE
    BY <1>2 DEF CInv, IInv, TypeOK, InodeRecord, SizeOf
  <1>4. open_file_table[fh].of_offset <= SizeOf(fh)
    BY <1>1 DEF CInv, OffsetsWithinFiles, SizeOf
  <1> QED
    BY <1>1, <1>2, <1>3, <1>4, SizesAssumption

\* What a careful caller reads is in the file.
LEMMA ToReadInFile ==
  ASSUME NEW size \in 0 .. BLOCK_SIZE, NEW offset \in 0 .. size, NEW len \in Lens
  PROVE  ToRead(size, offset, len) \in 0 .. size - offset
  <1>1. Minus(size, offset) = size - offset
    BY MinusIsDifference
  <1>2. len \in Nat
    BY SizesAssumption DEF Lens
  <1> QED
    BY <1>1, <1>2, SizesAssumption DEF ToRead

-----------------------------------------------------------------------------
(***************************************************************************)
(* Every call keeps the offsets in their files.                            *)
(***************************************************************************)

\* A new handle has an offset in its file; the others have what they had.
LEMMA OpenHandleWithin ==
  ASSUME IInv, NEW inum \in Inodes, NEW offset \in 0 .. OffsetBound,
         add_to_open_file_table(inum, offset)
  PROVE  /\ reply'.call = "open"
         /\ \A h \in OpenHandles' :
              /\ h \in Handles
              /\ \/ open_file_table'[h] = [of_inumber |-> inum, of_offset |-> offset]
                 \/ h \in OpenHandles /\ open_file_table'[h] = open_file_table[h]
  <1> DEFINE h == Lowest(Free(free_open_file_entries))
  <1> USE DEF IInv, TypeOK, OpenHandles, Taken
  <1>1. CASE Free(free_open_file_entries) = {}
    BY <1>1 DEF add_to_open_file_table, openTable, Reply
  <1>2. CASE Free(free_open_file_entries) # {}
    <2>1. Free(free_open_file_entries) \in SUBSET Nat
      BY SizesAssumption DEF Free, Handles
    <2>2. h \in Handles
      BY <1>2, <2>1, LowestIn DEF Free
    <2>3. /\ free_open_file_entries' = [free_open_file_entries EXCEPT ![h] = "TAKEN"]
          /\ open_file_table' = [open_file_table EXCEPT
                                  ![h] = [of_inumber |-> inum, of_offset |-> offset]]
          /\ Reply("open", h, h)
      BY <1>2 DEF add_to_open_file_table
    <2> HIDE DEF h
    <2> QED
      BY <2>2, <2>3 DEF Reply
  <1> QED
    BY <1>1, <1>2

\* A call that changes no table but perhaps the replies and frees handles.
LEMMA OnlyClosesWithin ==
  ASSUME OffsetsWithinFiles, UNCHANGED <<inode_table, open_file_table>>,
         OpenHandles' \subseteq OpenHandles, reply'.call # "crash"
  PROVE  OffsetsWithinFiles'
  BY DEF OffsetsWithinFiles

LEMMA OpenExistingWithin ==
  ASSUME CarefulCallers, CInv, NEW inum \in Inodes \ {ROOT_DIR_INUM},
         NEW flags \in SUBSET Flags,
         "TFS_O_TRUNC" \notin flags \/ ~ IsOpen(inum), OpenExisting(inum, flags)
  PROVE  OffsetsWithinFiles'
  <1> DEFINE inode  == inode_table[inum]
             size   == SizeAtOpen(inode, flags)
             offset == OffsetAtOpen(inode, flags)
  <1> USE DEF CInv
  <1>1. CASE OpenFails
    BY <1>1, OnlyClosesWithin DEF OpenFails, Reply, openTable, OpenHandles
  <1>2. CASE ~ OpenFails
    <2>1. /\ inode_table' = [inode_table EXCEPT ![inum].i_size = size]
          /\ add_to_open_file_table(inum, offset)
      BY <1>2 DEF OpenExisting
    <2>2. size \in 0 .. BLOCK_SIZE /\ offset \in 0 .. OffsetBound /\ offset <= size
      BY SizesAssumption DEF IInv, TypeOK, InodeRecord, SizeAtOpen, OffsetAtOpen
    <2>3. /\ inode_table'[inum].i_size = size
          /\ \A i \in Inodes \ {inum} : inode_table'[i] = inode_table[i]
      BY <2>1 DEF IInv, TypeOK, InodeRecord
    <2>4. IsOpen(inum) => size = inode.i_size
      BY DEF SizeAtOpen, Truncates
    <2> HIDE DEF size, offset
    <2>5. /\ reply'.call = "open"
          /\ \A h \in OpenHandles' :
               /\ h \in Handles
               /\ \/ open_file_table'[h] = [of_inumber |-> inum, of_offset |-> offset]
                  \/ h \in OpenHandles /\ open_file_table'[h] = open_file_table[h]
      BY <2>1, <2>2, OpenHandleWithin
    <2>6. ASSUME NEW h \in OpenHandles'
          PROVE  open_file_table'[h].of_offset
                   <= inode_table'[open_file_table'[h].of_inumber].i_size
      <3>1. CASE open_file_table'[h] = [of_inumber |-> inum, of_offset |-> offset]
        BY <2>2, <2>3, <3>1
      <3>2. CASE h \in OpenHandles /\ open_file_table'[h] = open_file_table[h]
        <4>1. /\ open_file_table[h].of_inumber \in Inodes
              /\ open_file_table[h].of_offset
                   <= inode_table[open_file_table[h].of_inumber].i_size
          BY <2>5, <3>2 DEF IInv, TypeOK, OffsetsWithinFiles
        <4>2. open_file_table[h].of_inumber = inum => IsOpen(inum)
          BY <3>2 DEF IsOpen
        <4> QED
          BY <2>3, <2>4, <3>2, <4>1, <4>2
      <3> QED
        BY <2>5, <3>1, <3>2
    <2> QED
      BY <2>5, <2>6 DEF OffsetsWithinFiles
  <1> QED
    BY <1>1, <1>2

LEMMA OpenCreatedWithin ==
  ASSUME CInv, NEW path \in Paths, OpenCreated(path)
  PROVE  OffsetsWithinFiles'
  <1> DEFINE inum == Lowest(Free(freeinode_ts))
  <1> USE DEF CInv
  <1>1. inum \in Inodes /\ freeinode_ts[inum] = "FREE"
    <2>1. Free(freeinode_ts) \in SUBSET Nat
      BY SizesAssumption DEF Free, IInv, TypeOK, Inodes
    <2> QED
      BY <2>1, LowestIn DEF OpenCreated, Free, IInv, TypeOK
  <1>2. /\ inode_table' = [inode_table EXCEPT ![inum] = NewInode]
        /\ \/ Reply("open", -1, -1) /\ UNCHANGED openTable
           \/ add_to_open_file_table(inum, 0)
    BY DEF OpenCreated
  <1> HIDE DEF inum
  <1>3. /\ inode_table'[inum].i_size = 0
        /\ \A i \in Inodes \ {inum} : inode_table'[i] = inode_table[i]
    BY <1>1, <1>2 DEF IInv, TypeOK, NewInode
  <1>4. \A h \in OpenHandles :
          /\ open_file_table[h].of_inumber \in Inodes \ {inum}
          /\ open_file_table[h].of_offset
               <= inode_table[open_file_table[h].of_inumber].i_size
    BY <1>1 DEF IInv, TypeOK, Linked, OpenHandles, Taken, OffsetsWithinFiles
  <1>5. /\ reply'.call = "open"
        /\ \A h \in OpenHandles' :
             \/ open_file_table'[h] = [of_inumber |-> inum, of_offset |-> 0]
             \/ h \in OpenHandles /\ open_file_table'[h] = open_file_table[h]
    <2>1. 0 \in 0 .. OffsetBound
      BY SizesAssumption
    <2> QED
      BY <1>1, <1>2, <2>1, OpenHandleWithin DEF openTable, OpenHandles, Reply
  <1> QED
    BY <1>3, <1>4, <1>5 DEF OffsetsWithinFiles

LEMMA OpenWithin ==
  ASSUME CarefulCallers, CInv, NEW path \in Paths, NEW flags \in SUBSET Flags,
         tfs_open(path, flags)
  PROVE  OffsetsWithinFiles'
  <1> DEFINE inum == lookup(path)
  <1>1. CASE /\ inum >= 0 /\ OpenExisting(inum, flags)
             /\ "TFS_O_TRUNC" \notin flags \/ ~ IsOpen(inum)
    <2>1. PICK s \in FullSlots : inum = dir_entry[s].d_inumber
      BY <1>1, FoundInDir DEF lookup, CInv, IInv
    <2>2. inum \in Inodes \ {ROOT_DIR_INUM}
      BY <2>1 DEF CInv, IInv, DirectoryMatchesInodes, Taken, TypeOK
    <2> QED
      BY <1>1, <2>2, OpenExistingWithin
  <1>2. CASE OpenCreated(path)
    BY <1>2, OpenCreatedWithin
  <1>3. CASE OpenFails
    BY <1>3, OnlyClosesWithin DEF CInv, OpenFails, Reply, openTable, OpenHandles
  <1> QED
    BY <1>1, <1>2, <1>3 DEF tfs_open, CarefulCallers

LEMMA CloseWithin ==
  ASSUME CInv, NEW fh \in Handles \cup {-1}, tfs_close(fh)
  PROVE  OffsetsWithinFiles'
  <1>1. OpenHandles' \subseteq OpenHandles
    BY DEF tfs_close, OpenHandles, Taken, CInv, IInv, TypeOK
  <1> QED
    BY <1>1, OnlyClosesWithin DEF tfs_close, Reply, CInv

LEMMA ReadWithin ==
  ASSUME CarefulCallers, CInv, NEW fh \in Handles, NEW len \in Lens, tfs_read(fh, len)
  PROVE  OffsetsWithinFiles' /\ reply'.fh = fh
         /\ reply'.ret <= SizeOf(fh) - open_file_table[fh].of_offset
  <1> DEFINE offset  == open_file_table[fh].of_offset
             to_read == ToRead(SizeOf(fh), offset, len)
  <1>1. /\ fh \in OpenHandles /\ open_file_table[fh].of_inumber \in Inodes
        /\ SizeOf(fh) \in 0 .. BLOCK_SIZE /\ offset \in 0 .. SizeOf(fh)
    BY CarefulHandle DEF tfs_read
  <1>2. to_read \in 0 .. SizeOf(fh) - offset
    BY <1>1, ToReadInFile
  <1>3. /\ UNCHANGED <<inode_table, free_open_file_entries>>
        /\ offset + to_read <= OffsetBound
        /\ \/ open_file_table' = open_file_table /\ reply'.ret = -1
           \/ /\ open_file_table' = [open_file_table EXCEPT ![fh].of_offset = offset + to_read]
              /\ reply'.ret = to_read
        /\ reply'.fh = fh /\ reply'.call = "read"
    BY DEF tfs_read, SizeOf, Reply
  <1> HIDE DEF to_read
  <1>4. OpenHandles' = OpenHandles
    BY <1>3 DEF OpenHandles
  <1>5. \A h \in OpenHandles : h \in Handles
    BY DEF OpenHandles, Taken, CInv, IInv, TypeOK
  <1>6. CASE open_file_table' = open_file_table /\ reply'.ret = -1
    BY <1>1, <1>3, <1>4, <1>6, OnlyClosesWithin DEF CInv
  <1>7. CASE /\ open_file_table' = [open_file_table EXCEPT ![fh].of_offset = offset + to_read]
             /\ reply'.ret = to_read
    <2>1. /\ open_file_table'[fh].of_inumber = open_file_table[fh].of_inumber
          /\ open_file_table'[fh].of_offset = offset + to_read
          /\ \A h \in Handles \ {fh} : open_file_table'[h] = open_file_table[h]
      BY <1>7 DEF CInv, IInv, TypeOK
    <2>2. offset + to_read <= SizeOf(fh)
      BY <1>1, <1>2
    <2> QED
      BY <1>1, <1>2, <1>3, <1>4, <1>5, <1>7, <2>1, <2>2
      DEF OffsetsWithinFiles, CInv, SizeOf
  <1> QED
    BY <1>3, <1>6, <1>7

LEMMA WriteWithin ==
  ASSUME CarefulCallers, CInv, NEW fh \in Handles, NEW v \in Data, NEW n \in Lens,
         tfs_write(fh, v, n)
  PROVE  OffsetsWithinFiles' /\ reply'.call = "write"
  <1> DEFINE file     == open_file_table[fh]
             inum     == file.of_inumber
             offset   == file.of_offset
             inode    == inode_table[inum]
             to_write == IF n + offset > BLOCK_SIZE THEN Minus(BLOCK_SIZE, offset) ELSE n
             alloc    == to_write > 0 /\ inode.i_size = 0
             block    == IF alloc THEN AllocatedBlock ELSE inode.i_data_block
             end      == offset + to_write
             written  == to_write > 0 /\ block \in Blocks
             size     == IF written /\ end > inode.i_size THEN end ELSE inode.i_size
  <1>1. /\ fh \in OpenHandles /\ inum \in Inodes
        /\ inode.i_size \in 0 .. BLOCK_SIZE /\ offset \in 0 .. inode.i_size
    BY CarefulHandle DEF tfs_write, SizeOf
  <1>2. to_write \in 0 .. BLOCK_SIZE - offset
    <2>1. n \in Nat
      BY SizesAssumption DEF Lens
    <2>2. CASE n + offset > BLOCK_SIZE
      <3>1. offset \in 0 .. BLOCK_SIZE /\ BLOCK_SIZE \in 0 .. BLOCK_SIZE
        BY <1>1, SizesAssumption
      <3>2. Minus(BLOCK_SIZE, offset) = BLOCK_SIZE - offset
        BY <3>1, MinusIsDifference
      <3> QED
        BY <2>2, <3>1, <3>2
    <2>3. CASE ~ (n + offset > BLOCK_SIZE)
      BY <1>1, <2>1, <2>3, SizesAssumption
    <2> QED
      BY <2>2, <2>3
  <1>3. end \in 0 .. BLOCK_SIZE
    BY <1>1, <1>2, SizesAssumption
  <1>4. /\ free_open_file_entries' = free_open_file_entries
        /\ Reply("write", fh, IF to_write > 0 /\ ~written THEN -1 ELSE to_write)
        /\ inode_table' = [inode_table EXCEPT ![inum].i_data_block = block,
                                              ![inum].i_size = size]
        /\ open_file_table' = IF written
             THEN [open_file_table EXCEPT ![fh].of_offset = end] ELSE open_file_table
    <2>1. ~ (written /\ end > BLOCK_SIZE)
      BY <1>3, SizesAssumption
    <2> QED
      BY <2>1 DEF tfs_write
  <1>5. size \in 0 .. BLOCK_SIZE /\ inode.i_size <= size /\ (written => end <= size)
    BY <1>1, <1>3, SizesAssumption
  <1> HIDE DEF to_write, alloc, block, end, written, size
  <1>6. /\ inode_table'[inum].i_size = size
        /\ \A i \in Inodes \ {inum} : inode_table'[i] = inode_table[i]
    BY <1>1, <1>4 DEF CInv, IInv, TypeOK, InodeRecord
  <1>7. /\ \A h \in Handles : open_file_table'[h].of_inumber = open_file_table[h].of_inumber
        /\ \A h \in Handles \ {fh} : open_file_table'[h] = open_file_table[h]
        /\ open_file_table'[fh].of_offset = IF written THEN end ELSE offset
    BY <1>4 DEF CInv, IInv, TypeOK
  <1>8. OpenHandles' = OpenHandles /\ OpenHandles \subseteq Handles
    BY <1>4 DEF OpenHandles, Taken, CInv, IInv, TypeOK
  <1>9. \A h \in OpenHandles : open_file_table[h].of_inumber \in Inodes
                                /\ open_file_table[h].of_offset \in Int
                                /\ SizeOf(h) \in Int
    BY <1>8 DEF CInv, IInv, TypeOK, InodeRecord, SizeOf
  <1>10. ASSUME NEW h \in OpenHandles
         PROVE  open_file_table'[h].of_offset
                  <= inode_table'[open_file_table'[h].of_inumber].i_size
    <2>1. open_file_table[h].of_offset <= SizeOf(h)
      BY DEF CInv, OffsetsWithinFiles, SizeOf
    <2>2. SizeOf(h) <= inode_table'[open_file_table[h].of_inumber].i_size
      BY <1>5, <1>6, <1>8, <1>9 DEF SizeOf
    <2>3. CASE h = fh
      BY <1>1, <1>5, <1>6, <1>7, <1>8, <1>9, <2>3 DEF SizeOf
    <2>4. CASE h # fh
      <3>1. open_file_table'[h] = open_file_table[h]
        BY <1>7, <1>8, <2>4
      <3>2. inode_table'[open_file_table[h].of_inumber].i_size \in Int
        BY <1>5, <1>6, <1>9 DEF SizeOf
      <3> QED
        BY <1>9, <2>1, <2>2, <3>1, <3>2
    <2> QED
      BY <2>3, <2>4
  <1> QED
    BY <1>4, <1>8, <1>10 DEF OffsetsWithinFiles, Reply

-----------------------------------------------------------------------------

\* A call that keeps the offsets in their files, and returns what is left of
\* one at most when it is a read.
CarefulStep ==
  /\ OffsetsWithinFiles'
  /\ reply'.call = "read" /\ reply'.fh \in Handles =>
       /\ reply'.fh \in OpenHandles
       /\ reply'.ret <= SizeOf(reply'.fh) - open_file_table[reply'.fh].of_offset

LEMMA NextCareful ==
  ASSUME CarefulCallers, CInv, Next
  PROVE  CarefulStep
  <1>1. CASE \E path \in Paths, flags \in SUBSET Flags : tfs_open(path, flags)
    <2>1. reply'.call = "open"
      BY <1>1 DEF tfs_open, OpenExisting, OpenCreated, OpenFails, Reply,
                  add_to_open_file_table
    <2> QED
      BY <1>1, <2>1, OpenWithin DEF CarefulStep
  <1>2. CASE \E fh \in Handles \cup {-1} : tfs_close(fh)
    <2>1. reply'.call = "close"
      BY <1>2 DEF tfs_close, Reply
    <2> QED
      BY <1>2, <2>1, CloseWithin DEF CarefulStep
  <1>3. CASE \E fh \in Handles, v \in Data, n \in Lens : tfs_write(fh, v, n)
    BY <1>3, WriteWithin DEF CarefulStep
  <1>4. CASE \E fh \in Handles, len \in Lens : tfs_read(fh, len)
    <2>1. PICK fh \in Handles, len \in Lens : tfs_read(fh, len)
      BY <1>4
    <2>2. fh \in OpenHandles
      BY <2>1, CarefulHandle DEF tfs_read
    <2> QED
      BY <2>1, <2>2, ReadWithin DEF CarefulStep
  <1>5. CASE \E call \in {"write", "read"} : BadHandle(call)
    <2>1. reply'.fh = -1 /\ reply'.call # "crash"
          /\ UNCHANGED <<inode_table, open_file_table, free_open_file_entries>>
      BY <1>5 DEF BadHandle, Reply, openTable
    <2>2. reply'.fh \notin Handles
      BY <2>1, SizesAssumption DEF Handles
    <2> QED
      BY <2>1, <2>2, OnlyClosesWithin DEF CarefulStep, CInv, OpenHandles
  <1> QED
    BY <1>1, <1>2, <1>3, <1>4, <1>5 DEF Next

LEMMA CarefulInvariance ==
  ASSUME CarefulCallers
  PROVE  Spec => []CInv
  <1>1. Init => CInv
    <2>1. Init => OpenHandles = {} /\ reply.call # "crash"
      BY DEF Init, OpenHandles, Taken
    <2> QED
      BY <2>1, InitIInv DEF CInv, OffsetsWithinFiles
  <1>2. CInv /\ [Next]_vars => CInv'
    <2>1. CASE UNCHANGED vars
      BY <2>1, NextIInv DEF CInv, vars, OffsetsWithinFiles, OpenHandles
    <2>2. CASE Next
      BY <2>2, NextIInv, NextCareful DEF CInv, CarefulStep
    <2> QED
      BY <2>1, <2>2
  <1> QED
    BY <1>1, <1>2, PTL DEF Spec

\* As long as callers are careful no offset leaves its file, and no write runs
\* off the memory of the process.
THEOREM OffsetsStayWithinFiles ==
  ASSUME CarefulCallers
  PROVE  Spec => []OffsetsWithinFiles
  <1>1. CInv => OffsetsWithinFiles
    BY DEF CInv
  <1> QED
    BY <1>1, CarefulInvariance, PTL

\* As long as callers are careful tfs_read returns at most what is left of the
\* file after the offset.
THEOREM ReadsStopAtSize ==
  ASSUME CarefulCallers
  PROVE  Spec => ReadStopsAtSize
  <1> DEFINE StopsAtSize ==
        reply'.call = "read" /\ reply'.fh \in Handles =>
          LET file == open_file_table[reply'.fh]
              size == inode_table[file.of_inumber].i_size
          IN  reply'.ret <= IF size > file.of_offset THEN size - file.of_offset ELSE 0
  <1>1. CInv /\ [Next]_vars => [StopsAtSize]_vars
    <2> SUFFICES ASSUME CInv, Next PROVE StopsAtSize
      OBVIOUS
    <2> SUFFICES ASSUME reply'.call = "read", reply'.fh \in Handles
                 PROVE  LET file == open_file_table[reply'.fh]
                            size == inode_table[file.of_inumber].i_size
                        IN  reply'.ret <= IF size > file.of_offset
                                          THEN size - file.of_offset ELSE 0
      OBVIOUS
    <2>1. /\ reply'.fh \in OpenHandles
          /\ reply'.ret <= SizeOf(reply'.fh) - open_file_table[reply'.fh].of_offset
      BY NextCareful DEF CarefulStep
    <2>2. /\ open_file_table[reply'.fh].of_offset \in Int
          /\ SizeOf(reply'.fh) \in Int
          /\ open_file_table[reply'.fh].of_offset <= SizeOf(reply'.fh)
      BY <2>1, SizesAssumption
      DEF CInv, IInv, TypeOK, InodeRecord, SizeOf, OffsetsWithinFiles
    <2> QED
      BY <2>1, <2>2 DEF SizeOf
  <1> QED
    BY <1>1, CarefulInvariance, PTL DEF Spec, ReadStopsAtSize
=============================================================================
