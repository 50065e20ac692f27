--------------------------- MODULE InodeLocks_proofs ---------------------------
(***************************************************************************)
(* What every interleaving of the threads of the first exercise keeps,     *)
(* for any number of threads, i-nodes, blocks and handles.                 *)
(***************************************************************************)
EXTENDS InodeLocks, WellFoundedInduction, TLAPS

-----------------------------------------------------------------------------
(***************************************************************************)
(* The inductive invariant.                                                *)
(***************************************************************************)

Types ==
  /\ writer \in [Inodes -> Threads \cup {NoThread}]
  /\ readers \in [Inodes -> SUBSET Threads]
  /\ mtx \in [Handles -> Threads \cup {NoThread}]
  /\ table_mtx \in Threads \cup {NoThread}
  /\ freeinode_ts \in [Inodes -> {"FREE", "TAKEN"}]
  /\ free_blocks \in [Blocks -> {"FREE", "TAKEN"}]
  /\ free_open_file_entries \in [Handles -> {"FREE", "TAKEN"}]
  /\ i_data_block \in [Inodes -> Blocks \cup {-1}]
  /\ dir_entry \in [Slots -> [d_inumber : Inodes \cup {-1}, d_name : Names \cup {NoName}]]
  /\ of_inumber \in [Handles -> Inodes]
  /\ pc \in [Threads -> Labels]
  /\ call \in [Threads -> [op : {"none", "create", "find", "close", "write", "read"},
                           name : Names \cup {NoName}, fh : Handles \cup {-1}]]
  /\ inum \in [Threads -> Inodes \cup {-1}] /\ at \in [Threads -> Nat]

\* A thread that has skipped the root directory has its write lock until it
\* has entered its file: no two threads search or fill the directory at once.
HoldsRoot(t) ==
  \/ pc[t] = "inode_create" /\ at[t] > 0
  \/ pc[t] \in {"lock_new", "find_slot", "fill_slot"}

Exclusion == \A i \in Inodes : writer[i] # NoThread => readers[i] = {}

\* The locks a thread has where it stands, and those nobody has of the i-node
\* it creates.
LocksOf(t) ==
  /\ HoldsRoot(t) => writer[ROOT_DIR_INUM] = t
  /\ Creating(t) => writer[inum[t]] = NoThread
  /\ pc[t] \in {"find_slot", "fill_slot", "inode_delete"} => t \in readers[inum[t]]
  /\ pc[t] \in {"alloc", "take"} => Writing(t)
  /\ Writing(t) => writer[inum[t]] = t
  /\ Reading(t) => writer[inum[t]] = t \/ t \in readers[inum[t]]

LocksKept == \A t \in Threads : LocksOf(t)

\* The thread has the i-node of a file that is in the directory.
HasFile(t) == pc[t] \in {"inode_get", "offset", "table", "entries", "close",
                         "file inode", "file lock", "alloc", "take", "copy"}

\* The first m entries are filled, in the order of the i-nodes, and the i-node
\* after theirs is that of the one thread that is creating a file.
PlaceOf(t, m) ==
  /\ Creating(t) => inum[t] = m + 1 /\ freeinode_ts[m + 1] = "TAKEN"
  /\ HasFile(t) => inum[t] \in 1 .. m
  /\ pc[t] = "inode_create" => at[t] <= m + 1
  /\ pc[t] \in {"idle", "lookup"} => at[t] = 0
  /\ pc[t] = "fill_slot" => at[t] = m /\ m < MAX_DIR_ENTRIES
  /\ pc[t] = "inode_delete" => m = MAX_DIR_ENTRIES

InOrder(m) ==
  /\ \A s \in Slots : dir_entry[s].d_inumber = IF s < m THEN s + 1 ELSE -1
  /\ \A i \in Inodes : /\ i <= m => freeinode_ts[i] = "TAKEN"
                       /\ i > m + 1 => freeinode_ts[i] = "FREE"
  /\ freeinode_ts[m + 1] = "TAKEN" => \E t \in Threads : Creating(t)
  /\ \A h \in Handles : of_inumber[h] \in 0 .. m
  /\ \A t \in Threads : PlaceOf(t, m)

DirectoryInOrder ==
  /\ \A t, u \in Threads : Creating(t) /\ Creating(u) => t = u
  /\ \E m \in 0 .. MAX_DIR_ENTRIES : InOrder(m)

\* The thread has the mutex of the open file of its call.
EntryLabels == {"close", "file inode", "file lock", "alloc", "take", "copy"}
InEntry(t)  == pc[t] \in EntryLabels

\* The mutex of the handle is that of no call: it stays locked for ever.
Dead(h) ==
  /\ mtx[h] # NoThread
  /\ \A t \in Threads : InEntry(t) => call[t].fh # h

EntryOf(t) ==
  /\ InEntry(t) => mtx[call[t].fh] = t
  /\ pc[t] = "entry mutex" \/ InEntry(t) =>
       call[t].fh \in Handles /\ of_inumber[call[t].fh] # ROOT_DIR_INUM

\* A thread that looks for a free entry leaves dead ones behind, and an entry
\* that has been used has dead ones before it.
SkippedBy(t) ==
  pc[t] = "entries" => at[t] \in Handles /\ \A h \in Handles : h < at[t] => Dead(h)

SkippedDead ==
  \A h, k \in Handles : h < k /\ of_inumber[k] # ROOT_DIR_INUM => Dead(h)

HandlesKept ==
  /\ \A t \in Threads : EntryOf(t) /\ SkippedBy(t)
  /\ SkippedDead

BlocksKept ==
  /\ NoBlockShared
  /\ \A i \in Inodes : freeinode_ts[i] = "TAKEN" /\ i_data_block[i] # -1 =>
                         free_blocks[i_data_block[i]] = "TAKEN"
  /\ \A t \in Threads : pc[t] = "take" => at[t] \in Blocks /\ free_blocks[at[t]] = "FREE"

IInv == Types /\ Exclusion /\ LocksKept /\ DirectoryInOrder /\ HandlesKept /\ BlocksKept

-----------------------------------------------------------------------------
(***************************************************************************)
(* What a step leaves to the other threads.                                *)
(***************************************************************************)

\* Scanning a table upwards finds an element of the set looked for.
LEMMA LowestIn ==
  ASSUME NEW S \in SUBSET Nat, S # {}
  PROVE  Lowest(S) \in S /\ \A i \in S : Lowest(S) <= i
  <1> DEFINE Below == {ss \in Nat \X Nat : ss[1] < ss[2]}
  <1>1. IsWellFoundedOn(Below, Nat)
    BY NatLessThanWellFounded DEF OpToRel
  <1> HIDE DEF Below
  <1>2. PICK x \in S : \A y \in S : ~(<<y, x>> \in Below)
    BY <1>1, WFMin
  <1>3. ASSUME NEW y \in S PROVE x <= y
    <2>1. y < x => <<y, x>> \in Nat \X Nat /\ <<y, x>>[1] < <<y, x>>[2]
      OBVIOUS
    <2>2. ~(y < x)
      BY <1>2, <2>1 DEF Below
    <2> QED
      BY <2>2
  <1> QED
    BY <1>3 DEF Lowest

\* A thread moves itself only.
LEMMA OthersStay ==
  ASSUME Types, NEW t \in Threads, Invoke(t) \/ Step(t), NEW u \in Threads \ {t}
  PROVE  pc'[u] = pc[u] /\ call'[u] = call[u] /\ inum'[u] = inum[u] /\ at'[u] = at[u]
  <1> USE DEF Types, Goto, Return, locals
  <1>1. CASE Invoke(t)
    BY <1>1 DEF Invoke
  <1>2. CASE Lookup(t) \/ Existing(t) \/ inode_create(t) \/ LockNew(t)
    BY <1>2 DEF Lookup, Existing, inode_create, LockNew
  <1>3. CASE FindSlot(t) \/ FillSlot(t) \/ LockTable(t) \/ TryEntry(t)
    BY <1>3 DEF FindSlot, FillSlot, LockTable, TryEntry
  <1>4. CASE LockEntry(t) \/ Close(t)
    <2>1. CASE LockEntry(t)
      BY <2>1 DEF LockEntry
    <2>2. CASE Close(t)
      BY <2>2 DEF Close
    <2> QED
      BY <1>4, <2>1, <2>2
  <1>5. CASE GetInode(t) \/ LockInode(t)
    BY <1>5 DEF GetInode, LockInode
  <1>6. CASE FindBlock(t) \/ TakeBlock(t) \/ Finish(t)
    BY <1>6 DEF FindBlock, TakeBlock, Finish
  <1> QED
    BY <1>1, <1>2, <1>3, <1>4, <1>5, <1>6 DEF Step

\* What each operation on the lock of an i-node, or of several, leaves as it
\* was: the locks of the other threads, and those of the other i-nodes.
LocksOfOthers(t, S) ==
  \A i \in Inodes :
    /\ \A u \in Threads \ {t} : /\ writer'[i] = u <=> writer[i] = u
                                /\ u \in readers'[i] <=> u \in readers[i]
    /\ i \notin S => writer'[i] = writer[i] /\ readers'[i] = readers[i]

LockTypes ==
  /\ writer \in [Inodes -> Threads \cup {NoThread}]
  /\ readers \in [Inodes -> SUBSET Threads]

LEMMA Rdlock ==
  ASSUME LockTypes, Exclusion, NEW t \in Threads, NEW i \in Inodes, rdlock(t, i)
  PROVE  /\ LocksOfOthers(t, {i}) /\ LockTypes' /\ Exclusion' /\ writer' = writer
         /\ writer[i] \in {NoThread, t} /\ (writer'[i] = t \/ t \in readers'[i])
  BY LocksAssumption DEF rdlock, CanRead, LocksOfOthers, LockTypes, Exclusion

LEMMA Wrlock ==
  ASSUME LockTypes, Exclusion, NEW t \in Threads, NEW i \in Inodes, wrlock(t, i)
  PROVE  /\ LocksOfOthers(t, {i}) /\ LockTypes' /\ Exclusion' /\ readers' = readers
         /\ CanWrite(t, i) /\ writer'[i] = t
         /\ \A j \in Inodes \ {i} : writer'[j] = writer[j]
  BY LocksAssumption DEF wrlock, CanWrite, LocksOfOthers, LockTypes, Exclusion

LEMMA Unlock ==
  ASSUME LockTypes, Exclusion, NEW t \in Threads, NEW S, unlock(t, S)
  PROVE  /\ LocksOfOthers(t, S) /\ LockTypes' /\ Exclusion'
         /\ \A i \in Inodes : writer'[i] \in {writer[i], NoThread}
         /\ \A i \in Inodes \cap S : writer[i] \in {NoThread, t} => writer'[i] = NoThread
  BY LocksAssumption DEF unlock, LocksOfOthers, LockTypes, Exclusion

LEMMA Glance ==
  ASSUME LockTypes, Exclusion, NEW t \in Threads, NEW i \in Inodes, glance(t, i)
  PROVE  /\ LocksOfOthers(t, {i}) /\ LockTypes' /\ Exclusion' /\ readers' = readers
         /\ \A j \in Inodes : writer'[j] \in {writer[j], NoThread}
  BY LocksAssumption DEF glance, CanRead, LocksOfOthers, LockTypes, Exclusion

-----------------------------------------------------------------------------
(***************************************************************************)
(* The types.                                                              *)
(***************************************************************************)

\* A thread with a file has an i-node other than the root, and inode_create
\* comes to no index beyond the table: when the directory is full and a thread
\* that could not enter its file keeps the read lock of its i-node, the search
\* stops there.
LEMMA InodesInRange ==
  ASSUME Types, DirectoryInOrder, NEW t \in Threads
  PROVE  /\ HasFile(t) \/ Creating(t) => inum[t] \in Inodes \ {ROOT_DIR_INUM}
         /\ pc[t] = "inode_create" => at[t] \in Inodes
  <1>1. PICK m \in 0 .. MAX_DIR_ENTRIES : InOrder(m)
    BY DEF DirectoryInOrder
  <1>2. MAX_DIR_ENTRIES \in Nat /\ INODE_TABLE_SIZE \in Nat /\ m + 1 < INODE_TABLE_SIZE
    BY LocksAssumption, DirectoryAssumption
  <1>3. HasFile(t) \/ Creating(t) => inum[t] \in 1 .. m + 1
    BY <1>1, <1>2 DEF InOrder, PlaceOf
  <1>4. pc[t] = "inode_create" => at[t] \in 0 .. m + 1
    BY <1>1, <1>2 DEF InOrder, PlaceOf, Types
  <1> QED
    BY <1>2, <1>3, <1>4 DEF Inodes, ROOT_DIR_INUM

\* A name that is found is that of a file.
LEMMA FoundInDir ==
  ASSUME Types, NEW name
  PROVE  \/ find_in_dir(name) = -1
         \/ \E s \in Slots : /\ dir_entry[s].d_inumber # -1
                             /\ find_in_dir(name) = dir_entry[s].d_inumber
  <1> DEFINE hits == {s \in Slots \ EmptySlots : dir_entry[s].d_name = name}
  <1>1. hits \in SUBSET Nat
    BY LocksAssumption DEF Slots
  <1>2. CASE hits = {}
    BY <1>2 DEF find_in_dir
  <1>3. CASE hits # {}
    <2>1. Lowest(hits) \in hits
      BY <1>1, <1>3, LowestIn
    <2>2. Lowest(hits) \in Slots /\ dir_entry[Lowest(hits)].d_inumber # -1
      BY <2>1 DEF EmptySlots
    <2>3. find_in_dir(name) = dir_entry[Lowest(hits)].d_inumber
      BY <1>3 DEF find_in_dir
    <2> QED
      BY <2>2, <2>3
  <1> QED
    BY <1>2, <1>3

\* A step of control goes to a label.
LEMMA Goes ==
  ASSUME Types, NEW t \in Threads, NEW label \in Labels, Goto(t, label)
  PROVE  pc' \in [Threads -> Labels]
  <1>1. pc \in [Threads -> Labels]
    BY DEF Types
  <1> QED
    BY <1>1 DEF Goto

LEMMA LowestFreeBlock ==
  ASSUME FreeBlocks # {}
  PROVE  Lowest(FreeBlocks) \in Blocks /\ free_blocks[Lowest(FreeBlocks)] = "FREE"
  <1>1. FreeBlocks \in SUBSET Nat
    BY LocksAssumption DEF FreeBlocks, Blocks
  <1> QED
    BY <1>1, LowestIn DEF FreeBlocks

LEMMA LowestEmptySlot ==
  ASSUME EmptySlots # {}
  PROVE  Lowest(EmptySlots) \in EmptySlots /\ \A s \in EmptySlots : Lowest(EmptySlots) <= s
  <1>1. EmptySlots \in SUBSET Nat
    BY LocksAssumption DEF EmptySlots, Slots
  <1> QED
    BY <1>1, LowestIn

CallRecord == [op : {"none", "create", "find", "close", "write", "read"},
               name : Names \cup {NoName}, fh : Handles \cup {-1}]

LEMMA Returns ==
  ASSUME Types, NEW t \in Threads, Return(t)
  PROVE  /\ pc' \in [Threads -> Labels] /\ call' \in [Threads -> CallRecord]
         /\ inum' \in [Threads -> Inodes \cup {-1}] /\ at' \in [Threads -> Nat]
  <1>1. "idle" \in Labels /\ NoCall \in CallRecord
    BY DEF Labels, NoCall, CallRecord
  <1>2. 0 \in Inodes /\ 0 \in Nat
    BY LocksAssumption DEF Inodes
  <1> QED
    BY <1>1, <1>2 DEF Return, Goto, Types, CallRecord

LEMMA StepTypes ==
  ASSUME IInv, NEW t \in Threads, Invoke(t) \/ Step(t)
  PROVE  Types' /\ Exclusion'
  <1> USE DEF IInv
  <1> USE DEF Goto, locals, locks, tables
  <1>1. /\ HasFile(t) \/ Creating(t) => inum[t] \in Inodes
        /\ pc[t] = "inode_create" => at[t] \in Inodes
    BY InodesInRange
  <1>2. ROOT_DIR_INUM \in Inodes /\ Slots \subseteq Nat /\ Blocks \subseteq Nat
        /\ Handles \subseteq Nat /\ 0 \in Handles
    BY LocksAssumption DEF Inodes, Slots, Blocks, Handles, ROOT_DIR_INUM
  <1> USE DEF CallRecord
  <1>3. LockTypes /\ Exclusion
    BY DEF LockTypes, Types
  <1>4. CASE Invoke(t)
    <2>1. PICK op \in Calls :
            \/ /\ \E name \in Names : \E creat \in {"create", "find"} :
                    call' = [call EXCEPT ![t] = [op |-> creat, name |-> name, fh |-> -1]]
               /\ Goto(t, "lookup")
            \/ /\ op # "open"
               /\ \E h \in Handles :
                    call' = [call EXCEPT ![t] = [op |-> op, name |-> NoName, fh |-> h]]
               /\ Goto(t, "entry mutex")
      BY <1>4 DEF Invoke
    <2>2. /\ \A name \in Names : \A creat \in {"create", "find"} :
               [op |-> creat, name |-> name, fh |-> -1] \in CallRecord
          /\ op # "open" => \A h \in Handles :
               [op |-> op, name |-> NoName, fh |-> h] \in CallRecord
      BY LocksAssumption
    <2> HIDE DEF CallRecord
    <2>3. PICK record \in CallRecord : call' = [call EXCEPT ![t] = record]
      BY <2>1, <2>2
    <2>4. pc' \in [Threads -> Labels]
      BY <2>1 DEF Types, Labels
    <2>6. call \in [Threads -> CallRecord]
      BY DEF Types, CallRecord
    <2>7. call' \in [Threads -> CallRecord]
      BY <2>3, <2>6
    <2>5. UNCHANGED <<locks, tables, inum, at>>
      BY <1>4 DEF Invoke
    <2> QED
      BY <2>4, <2>5, <2>7 DEF Types, Exclusion, CallRecord
  <1>5. CASE Lookup(t)
    <2>1. find_in_dir(call[t].name) \in Inodes \cup {-1}
      BY FoundInDir DEF Types
    <2>2. LockTypes' /\ Exclusion'
      BY <1>2, <1>3, <1>5, Glance DEF Lookup
    <2>3. CASE Return(t)
      BY <1>5, <2>2, <2>3, Returns DEF Lookup, Types, LockTypes
    <2>4. CASE ~ Return(t)
      <3>1. inum' = [inum EXCEPT ![t] = find_in_dir(call[t].name)] /\ UNCHANGED <<call, at>>
        BY <1>5, <2>4 DEF Lookup
      <3>2. pc' \in [Threads -> Labels]
        BY <1>5, <2>4 DEF Lookup, Types, Labels
      <3>3. UNCHANGED <<mtx, table_mtx, tables>>
        BY <1>5 DEF Lookup
      <3> HIDE DEF Goto, CallRecord
      <3> QED
        BY <2>1, <2>2, <3>1, <3>2, <3>3 DEF Types, LockTypes
    <2> QED
      BY <2>3, <2>4
  <1>6. CASE Existing(t)
    <2>1. LockTypes' /\ Exclusion'
      BY <1>1, <1>3, <1>6, Glance DEF Existing, HasFile
    <2> QED
      BY <1>6, <2>1 DEF Existing, Types, Labels, LockTypes
  <1>7. CASE inode_create(t)
    <2>1. LockTypes' /\ Exclusion'
      BY <1>1, <1>3, <1>7, Wrlock, Unlock DEF inode_create, Skips
    <2>2. CASE freeinode_ts[at[t]] = "FREE"
      <3>1. /\ freeinode_ts' = [freeinode_ts EXCEPT ![at[t]] = "TAKEN"]
            /\ i_data_block' = [i_data_block EXCEPT ![at[t]] = -1]
            /\ inum' = [inum EXCEPT ![t] = at[t]]
            /\ pc' = [pc EXCEPT ![t] = "lock_new"]
            /\ UNCHANGED <<mtx, table_mtx, free_blocks, free_open_file_entries,
                           dir_entry, of_inumber, call, at>>
        BY <1>7, <2>2 DEF inode_create
      <3> QED
        BY <1>1, <1>7, <2>1, <3>1 DEF inode_create, Types, Labels, LockTypes
    <2>3. CASE freeinode_ts[at[t]] # "FREE"
      <3>1. /\ at' = [at EXCEPT ![t] = at[t] + 1]
            /\ UNCHANGED <<freeinode_ts, i_data_block, inum, pc, mtx, table_mtx,
                           free_blocks, free_open_file_entries, dir_entry,
                           of_inumber, call>>
        BY <1>7, <2>3 DEF inode_create
      <3> QED
        BY <2>1, <3>1 DEF Types, LockTypes
    <2> QED
      BY <2>2, <2>3
  <1>8. CASE LockNew(t)
    <2>1. LockTypes' /\ Exclusion'
      BY <1>1, <1>3, <1>8, Rdlock DEF LockNew, Creating
    <2> QED
      BY <1>8, <2>1 DEF LockNew, Types, Labels, LockTypes
  <1>9. CASE FindSlot(t)
    <2>1. LockTypes' /\ Exclusion'
      BY <1>2, <1>3, <1>9, Glance, Rdlock DEF FindSlot
    <2>2. EmptySlots # {} => Lowest(EmptySlots) \in Nat
      BY <1>2, LowestEmptySlot DEF EmptySlots
    <2>3. pc' \in [Threads -> Labels]
      <3>1. {"inode_delete", "fill_slot"} \subseteq Labels
        BY DEF Labels
      <3> HIDE DEF Goto
      <3>2. Goto(t, "inode_delete") \/ Goto(t, "fill_slot")
        BY <1>9 DEF FindSlot
      <3> QED
        BY <3>1, <3>2, Goes
    <2>4. at' \in [Threads -> Nat]
      BY <1>9, <2>2 DEF FindSlot, Types
    <2>5. UNCHANGED <<mtx, table_mtx, tables, call, inum>>
      BY <1>9 DEF FindSlot
    <2> HIDE DEF Goto
    <2> QED
      BY <2>1, <2>3, <2>4, <2>5 DEF Types, LockTypes
  <1>10. CASE FillSlot(t)
    <2>1. LockTypes' /\ Exclusion'
      BY <1>3, <1>10, Unlock DEF FillSlot
    <2>2. inum[t] \in Inodes
      BY <1>1, <1>10 DEF FillSlot, Creating
    <2> QED
      BY <1>10, <2>1, <2>2 DEF FillSlot, Types, Labels, LockTypes
  <1>11. CASE LockTable(t)
    BY <1>11 DEF LockTable, Types, Labels, Exclusion
  <1>12. CASE TryEntry(t)
    <2>1. inum[t] \in Inodes
      BY <1>1, <1>12 DEF TryEntry, HasFile
    <2>2. /\ pc' \in [Threads -> Labels] /\ call' \in [Threads -> CallRecord]
          /\ inum' \in [Threads -> Inodes \cup {-1}] /\ at' \in [Threads -> Nat]
      <3>1. CASE Return(t)
        BY <3>1, Returns
      <3>2. CASE ~ Return(t)
        BY <1>2, <1>12, <3>2 DEF TryEntry, Types
      <3> QED
        BY <3>1, <3>2
    <2>3. /\ mtx' \in [Handles -> Threads \cup {NoThread}]
          /\ table_mtx' \in Threads \cup {NoThread}
          /\ free_open_file_entries' \in [Handles -> {"FREE", "TAKEN"}]
          /\ of_inumber' \in [Handles -> Inodes]
      BY <1>12, <2>1 DEF TryEntry, SkipsEntry, Types
    <2>4. UNCHANGED <<writer, readers, freeinode_ts, free_blocks, i_data_block, dir_entry>>
      BY <1>12 DEF TryEntry
    <2> QED
      BY <2>2, <2>3, <2>4 DEF Types, Exclusion
  <1>13. CASE LockEntry(t)
    BY <1>13 DEF LockEntry, EntryMutex, Types, Labels, Exclusion, HandlesKept, EntryOf
  <1>14. CASE Close(t)
    BY <1>14, Returns DEF Close, Types, Exclusion
  <1>15. CASE GetInode(t)
    <2>1. LockTypes' /\ Exclusion'
      BY <1>1, <1>3, <1>15, Glance DEF GetInode, HasFile
    <2> QED
      BY <1>15, <2>1 DEF GetInode, Types, Labels, LockTypes
  <1>16. CASE LockInode(t)
    <2>1. LockTypes' /\ Exclusion'
      BY <1>1, <1>3, <1>16, Rdlock, Wrlock DEF LockInode, FileLock, HasFile
    <2> QED
      BY <1>16, <2>1 DEF LockInode, Types, Labels, LockTypes
  <1>17. CASE FindBlock(t)
    <2>1. CASE FreeBlocks = {}
      BY <1>17, <2>1, Returns DEF FindBlock, Types, Exclusion
    <2>2. CASE FreeBlocks # {}
      <3>1. Lowest(FreeBlocks) \in Nat
        BY <2>2, LowestFreeBlock, LocksAssumption DEF Blocks
      <3>2. pc' \in [Threads -> Labels]
        <4>1. "take" \in Labels
          BY DEF Labels
        <4> HIDE DEF Goto
        <4>2. Goto(t, "take")
          BY <1>17, <2>2 DEF FindBlock
        <4> QED
          BY <4>1, <4>2, Goes
      <3>3. at' \in [Threads -> Nat]
        BY <1>17, <2>2, <3>1 DEF FindBlock, Types
      <3>4. UNCHANGED <<locks, tables, call, inum>>
        BY <1>17, <2>2 DEF FindBlock
      <3> HIDE DEF Goto
      <3> QED
        BY <3>2, <3>3, <3>4 DEF Types, Exclusion
    <2> QED
      BY <2>1, <2>2
  <1>18. CASE TakeBlock(t)
    BY <1>18 DEF TakeBlock, Types, Labels, Exclusion, BlocksKept
  <1>19. CASE Finish(t)
    <2>1. LockTypes' /\ Exclusion'
      BY <1>3, <1>19, Unlock DEF Finish
    <2> QED
      BY <1>19, <2>1, Returns DEF Finish, Types, LockTypes
  <1> QED
    BY <1>4, <1>5, <1>6, <1>7, <1>8, <1>9, <1>10, <1>11, <1>12, <1>13, <1>14,
       <1>15, <1>16, <1>17, <1>18, <1>19 DEF Step

-----------------------------------------------------------------------------
(***************************************************************************)
(* The locks.                                                              *)
(***************************************************************************)

\* What a step may do to the locks so that other threads keep theirs.
HarmsNoOther(t) ==
  /\ \A i \in Inodes : \A u \in Threads \ {t} :
       /\ writer'[i] = u <=> writer[i] = u
       /\ u \in readers'[i] <=> u \in readers[i]
  /\ \A u \in Threads \ {t} : Creating(u) => writer'[inum[u]] # t

LEMMA LocksAfter ==
  ASSUME IInv, NEW t \in Threads, Invoke(t) \/ Step(t), HarmsNoOther(t), LocksOf(t)'
  PROVE  LocksKept'
  <1> SUFFICES ASSUME NEW u \in Threads \ {t} PROVE LocksOf(u)'
    BY DEF LocksKept
  <1>1. pc'[u] = pc[u] /\ call'[u] = call[u] /\ inum'[u] = inum[u] /\ at'[u] = at[u]
    BY OthersStay DEF IInv
  <1>2. LocksOf(u) /\ Types
    BY DEF IInv, LocksKept
  <1>3. HasFile(u) \/ Creating(u) => inum[u] \in Inodes
    BY InodesInRange DEF IInv
  <1>4. ROOT_DIR_INUM \in Inodes
    BY LocksAssumption DEF Inodes, ROOT_DIR_INUM
  <1>5. HoldsRoot(u)' => writer'[ROOT_DIR_INUM] = u
    BY <1>1, <1>2, <1>4 DEF HoldsRoot, LocksOf, HarmsNoOther
  <1>6. Creating(u)' => writer'[inum'[u]] = NoThread
    <2> SUFFICES ASSUME Creating(u) PROVE writer'[inum[u]] = NoThread
      BY <1>1 DEF Creating
    <2>1. inum[u] \in Inodes /\ writer[inum[u]] = NoThread
      BY <1>2, <1>3 DEF LocksOf
    <2>2. writer'[inum[u]] \in Threads \cup {NoThread}
      BY <2>1, StepTypes DEF Types
    <2> QED
      BY <2>1, <2>2, LocksAssumption DEF HarmsNoOther
  <1>7. pc'[u] \in {"find_slot", "fill_slot", "inode_delete"} => u \in readers'[inum'[u]]
    BY <1>1, <1>2, <1>3 DEF LocksOf, HarmsNoOther, Creating
  <1>8. Writing(u)' => writer'[inum'[u]] = u
    <2>1. Writing(u)' <=> Writing(u)
      BY <1>1 DEF Writing
    <2>2. Writing(u) => inum[u] \in Inodes /\ writer[inum[u]] = u
      BY <1>2, <1>3 DEF LocksOf, HasFile, Writing
    <2> QED
      BY <1>1, <2>1, <2>2 DEF HarmsNoOther
  <1>9. pc'[u] \in {"alloc", "take"} => Writing(u)'
    BY <1>1, <1>2 DEF LocksOf, Writing
  <1>10. Reading(u)' => writer'[inum'[u]] = u \/ u \in readers'[inum'[u]]
    BY <1>1, <1>2, <1>3 DEF LocksOf, HarmsNoOther, HasFile, Reading
  <1> QED
    BY <1>5, <1>6, <1>7, <1>8, <1>9, <1>10 DEF LocksOf

\* A step that takes no write lock harms no other.
LEMMA NoNewWriter ==
  ASSUME IInv, NEW t \in Threads, NEW S, LocksOfOthers(t, S),
         \A i \in Inodes : writer'[i] \in {writer[i], NoThread}
  PROVE  HarmsNoOther(t)
  <1> SUFFICES ASSUME NEW u \in Threads \ {t}, Creating(u) PROVE writer'[inum[u]] # t
    BY DEF HarmsNoOther, LocksOfOthers
  <1>1. inum[u] \in Inodes
    BY InodesInRange DEF IInv
  <1>2. writer[inum[u]] = NoThread
    BY DEF IInv, LocksKept, LocksOf
  <1> QED
    BY <1>1, <1>2, LocksAssumption

LEMMA SameLocks ==
  ASSUME IInv, NEW t \in Threads, UNCHANGED <<writer, readers>>
  PROVE  HarmsNoOther(t)
  <1>1. LocksOfOthers(t, {}) /\ \A i \in Inodes : writer'[i] \in {writer[i], NoThread}
    BY DEF LocksOfOthers
  <1> QED
    BY <1>1, NoNewWriter

\* Where a thread needs no lock.
LEMMA NeedsNone ==
  ASSUME NEW t \in Threads,
         pc'[t] \in {"idle", "lookup", "inode_get", "offset", "table", "entries",
                     "entry mutex", "close", "file inode", "file lock"}
  PROVE  LocksOf(t)'
  BY DEF LocksOf, HoldsRoot, Creating, Writing, Reading

LEMMA InodeCreateLocks ==
  ASSUME IInv, NEW t \in Threads, inode_create(t)
  PROVE  HarmsNoOther(t) /\ LocksOf(t)'
  <1> DEFINE i == at[t]
  <1> USE DEF IInv
  <1>1. i \in Inodes /\ i \in Nat /\ LockTypes /\ t # NoThread
    BY LocksAssumption DEF inode_create, Types, LockTypes
  <1>2. LocksOf(t) /\ pc[t] = "inode_create"
    BY DEF LocksKept, inode_create
  <1>3. freeinode_ts[ROOT_DIR_INUM] = "TAKEN" /\ ROOT_DIR_INUM \in Inodes
    BY LocksAssumption DEF DirectoryInOrder, InOrder, Inodes, ROOT_DIR_INUM
  <1>4. CASE freeinode_ts[i] = "FREE"
    <2>1. CanWrite(t, i) /\ unlock(t, {i})
      BY <1>4 DEF inode_create
    <2>2. i # ROOT_DIR_INUM /\ i > 0
      BY <1>1, <1>3, <1>4 DEF ROOT_DIR_INUM
    <2>3. pc'[t] = "lock_new" /\ inum'[t] = i
      BY <1>4 DEF inode_create, Goto, Types
    <2>4. writer'[ROOT_DIR_INUM] = t
      BY <1>1, <1>2, <1>3, <2>1, <2>2, Unlock DEF LocksOf, HoldsRoot, LocksOfOthers
    <2>5. writer'[i] = NoThread
      BY <1>1, <2>1, Unlock DEF CanWrite
    <2>6. LocksOf(t)'
      BY <2>3, <2>4, <2>5 DEF LocksOf, Writing, Reading
    <2>7. HarmsNoOther(t)
      BY <1>1, <2>1, Unlock, NoNewWriter
    <2> QED
      BY <2>6, <2>7
  <1>5. CASE freeinode_ts[i] # "FREE"
    <2>1. wrlock(t, i) /\ pc'[t] = "inode_create" /\ at'[t] = i + 1
      BY <1>5 DEF inode_create, Skips, Types
    <2>2. /\ LocksOfOthers(t, {i}) /\ CanWrite(t, i) /\ writer'[i] = t
          /\ \A j \in Inodes \ {i} : writer'[j] = writer[j]
      BY <1>1, <2>1, Wrlock
    <2>3. writer'[ROOT_DIR_INUM] = t
      BY <1>1, <1>2, <1>3, <2>2 DEF LocksOf, HoldsRoot, ROOT_DIR_INUM
    <2>4. LocksOf(t)'
      BY <2>1, <2>3 DEF LocksOf, Creating, Writing, Reading
    <2>5. ASSUME NEW u \in Threads \ {t}, Creating(u), writer'[inum[u]] = t PROVE FALSE
      <3>1. inum[u] \in Inodes \ {ROOT_DIR_INUM} /\ LocksOf(u)
        BY <2>5, InodesInRange DEF LocksKept
      <3>2. writer[inum[u]] = NoThread /\ inum[u] = i
        BY <1>1, <2>2, <2>5, <3>1 DEF LocksOf
      <3>3. writer[ROOT_DIR_INUM] = t
        BY <1>1, <1>2, <3>1, <3>2 DEF LocksOf, HoldsRoot, ROOT_DIR_INUM
      <3>4. pc[u] = "inode_delete"
        BY <2>5, <3>1, <3>3 DEF LocksOf, HoldsRoot, Creating
      <3>5. u \in readers[i]
        BY <3>1, <3>2, <3>4 DEF LocksOf
      <3> QED
        BY <1>1, <2>2, <3>2, <3>5 DEF CanWrite
    <2> QED
      BY <2>2, <2>4, <2>5 DEF HarmsNoOther, LocksOfOthers
  <1> QED
    BY <1>4, <1>5

LEMMA StepLocks ==
  ASSUME IInv, NEW t \in Threads, Invoke(t) \/ Step(t)
  PROVE  LocksKept'
  <1> USE DEF IInv, Goto, Return, locals, locks
  <1>1. LocksOf(t) /\ LockTypes /\ t # NoThread /\ ROOT_DIR_INUM \in Inodes
    BY LocksAssumption DEF LocksKept, LockTypes, Types, Inodes, ROOT_DIR_INUM
  <1>2. HasFile(t) \/ Creating(t) => inum[t] \in Inodes \ {ROOT_DIR_INUM}
    BY InodesInRange
  <1> SUFFICES HarmsNoOther(t) /\ LocksOf(t)'
    BY LocksAfter
  <1>3. CASE Invoke(t)
    BY <1>3, SameLocks, NeedsNone DEF Invoke, Types
  <1>4. CASE Lookup(t)
    <2>1. HarmsNoOther(t)
      BY <1>1, <1>4, Glance, NoNewWriter DEF Lookup
    <2>2. at[t] = 0
      BY <1>4 DEF Lookup, DirectoryInOrder, InOrder, PlaceOf
    <2>3. \/ pc'[t] \in {"idle", "inode_get"}
          \/ pc'[t] = "inode_create" /\ at'[t] = 0
      BY <1>4, <2>2 DEF Lookup, Types
    <2>4. LocksOf(t)'
      <3>1. CASE pc'[t] \in {"idle", "inode_get"}
        BY <3>1, NeedsNone
      <3>2. CASE pc'[t] = "inode_create" /\ at'[t] = 0
        BY <3>2 DEF LocksOf, HoldsRoot, Creating, Writing, Reading
      <3> QED
        BY <2>3, <3>1, <3>2
    <2> QED
      BY <2>1, <2>4
  <1>5. CASE Existing(t)
    <2>1. HarmsNoOther(t)
      BY <1>1, <1>2, <1>5, Glance, NoNewWriter DEF Existing, HasFile
    <2>2. pc'[t] \in {"offset", "table"}
      BY <1>5 DEF Existing, Types
    <2> QED
      BY <2>1, <2>2, NeedsNone
  <1>6. CASE inode_create(t)
    BY <1>6, InodeCreateLocks
  <1>7. CASE LockNew(t)
    <2>1. pc[t] = "lock_new" /\ inum[t] \in Inodes /\ writer[inum[t]] = NoThread
      BY <1>1, <1>2, <1>7 DEF LockNew, Creating, LocksOf
    <2>2. /\ writer' = writer /\ LocksOfOthers(t, {inum[t]})
          /\ t \in readers'[inum[t]]
      BY <1>1, <1>7, <2>1, Rdlock DEF LockNew
    <2>3. pc'[t] = "find_slot" /\ inum'[t] = inum[t]
      BY <1>7 DEF LockNew, Types
    <2>4. LocksOf(t)'
      BY <1>1, <2>1, <2>2, <2>3 DEF LocksOf, HoldsRoot, Creating, Writing, Reading
    <2>5. HarmsNoOther(t)
      BY <2>2, NoNewWriter
    <2> QED
      BY <2>4, <2>5
  <1>8. CASE FindSlot(t)
    <2>1. /\ pc[t] = "find_slot" /\ inum[t] \in Inodes \ {ROOT_DIR_INUM}
          /\ writer[inum[t]] = NoThread /\ t \in readers[inum[t]]
          /\ writer[ROOT_DIR_INUM] = t
      BY <1>1, <1>2, <1>8 DEF FindSlot, Creating, HoldsRoot, LocksOf
    <2>2. inum'[t] = inum[t]
      BY <1>8 DEF FindSlot
    <2>3. CASE EmptySlots = {}
      <3>1. /\ LocksOfOthers(t, {ROOT_DIR_INUM}) /\ readers' = readers
            /\ \A j \in Inodes : writer'[j] \in {writer[j], NoThread}
        BY <1>1, <1>8, <2>3, Glance DEF FindSlot
      <3>2. pc'[t] = "inode_delete"
        BY <1>8, <2>3 DEF FindSlot, Types
      <3>3. LocksOf(t)'
        BY <2>1, <2>2, <3>1, <3>2 DEF LocksOf, HoldsRoot, Writing, Reading
      <3> QED
        BY <3>1, <3>3, NoNewWriter
    <2>4. CASE EmptySlots # {}
      <3>1. writer' = writer /\ LocksOfOthers(t, {ROOT_DIR_INUM})
        BY <1>1, <1>8, <2>4, Rdlock DEF FindSlot
      <3>2. pc'[t] = "fill_slot"
        BY <1>8, <2>4 DEF FindSlot, Types
      <3>3. LocksOf(t)'
        BY <2>1, <2>2, <3>1, <3>2 DEF LocksOf, Writing, Reading, LocksOfOthers
      <3> QED
        BY <3>1, <3>3, NoNewWriter
    <2> QED
      BY <2>3, <2>4
  <1>9. CASE FillSlot(t)
    <2>1. HarmsNoOther(t)
      BY <1>1, <1>9, Unlock, NoNewWriter DEF FillSlot
    <2>2. pc'[t] = "table"
      BY <1>9 DEF FillSlot, Types
    <2> QED
      BY <2>1, <2>2, NeedsNone
  <1>10. CASE LockTable(t) \/ TryEntry(t) \/ LockEntry(t) \/ Close(t)
    <2>1. UNCHANGED <<writer, readers>>
      BY <1>10 DEF LockTable, TryEntry, LockEntry, Close
    <2>2. pc'[t] \in {"idle", "entries", "close", "file inode"}
      <3>1. CASE LockTable(t)
        BY <3>1 DEF LockTable, Types
      <3>2. CASE TryEntry(t)
        BY <3>2 DEF TryEntry, Types
      <3>3. CASE LockEntry(t)
        BY <3>3 DEF LockEntry, Types
      <3>4. CASE Close(t)
        BY <3>4 DEF Close, Types
      <3> QED
        BY <1>10, <3>1, <3>2, <3>3, <3>4
    <2> QED
      BY <2>1, <2>2, SameLocks, NeedsNone
  <1>11. CASE GetInode(t)
    <2>1. HarmsNoOther(t)
      BY <1>1, <1>2, <1>11, Glance, NoNewWriter DEF GetInode, HasFile
    <2>2. pc'[t] = "file lock"
      BY <1>11 DEF GetInode, Types
    <2> QED
      BY <2>1, <2>2, NeedsNone
  <1>12. CASE LockInode(t)
    <2>1. pc[t] = "file lock" /\ inum[t] \in Inodes
      BY <1>2, <1>12 DEF LockInode, HasFile
    <2>2. pc'[t] \in {"alloc", "copy"} /\ inum'[t] = inum[t] /\ call'[t] = call[t]
      BY <1>12 DEF LockInode, Types
    <2>3. CASE call[t].op = "write"
      <3>1. /\ LocksOfOthers(t, {inum[t]}) /\ writer'[inum[t]] = t
            /\ \A j \in Inodes \ {inum[t]} : writer'[j] = writer[j]
        BY <1>1, <1>12, <2>1, <2>3, Wrlock DEF LockInode, FileLock
      <3>2. LocksOf(t)'
        BY <2>2, <2>3, <3>1 DEF LocksOf, HoldsRoot, Creating, Writing, Reading
      <3>3. ASSUME NEW u \in Threads \ {t}, Creating(u) PROVE writer'[inum[u]] # t
        <4>1. inum[u] # inum[t]
          <5>1. PICK m \in 0 .. MAX_DIR_ENTRIES : InOrder(m)
            BY DEF DirectoryInOrder
          <5>2. inum[u] = m + 1 /\ inum[t] \in 1 .. m
            BY <2>1, <3>3, <5>1 DEF InOrder, PlaceOf, HasFile
          <5> QED
            BY <5>2, LocksAssumption
        <4>2. inum[u] \in Inodes /\ writer[inum[u]] = NoThread
          BY <3>3, InodesInRange DEF LocksKept, LocksOf
        <4> QED
          BY <1>1, <3>1, <4>1, <4>2
      <3> QED
        BY <3>1, <3>2, <3>3 DEF HarmsNoOther, LocksOfOthers
    <2>4. CASE call[t].op # "write"
      <3>1. /\ LocksOfOthers(t, {inum[t]}) /\ writer' = writer
            /\ writer'[inum[t]] = t \/ t \in readers'[inum[t]]
        BY <1>1, <1>12, <2>1, <2>4, Rdlock DEF LockInode, FileLock
      <3>2. pc'[t] = "copy"
        BY <1>12, <2>4 DEF LockInode, Types
      <3>3. LocksOf(t)'
        BY <2>2, <2>4, <3>1, <3>2 DEF LocksOf, HoldsRoot, Creating, Writing, Reading
      <3> QED
        BY <3>1, <3>3, NoNewWriter
    <2> QED
      BY <2>3, <2>4
  <1>13. CASE FindBlock(t)
    <2>1. UNCHANGED <<writer, readers>>
      BY <1>13 DEF FindBlock
    <2>2. \/ pc'[t] = "idle"
          \/ pc'[t] = "take" /\ inum'[t] = inum[t] /\ call'[t] = call[t]
      BY <1>13 DEF FindBlock, Types
    <2>3. LocksOf(t)'
      BY <1>1, <1>13, <2>1, <2>2, NeedsNone
      DEF FindBlock, LocksOf, HoldsRoot, Creating, Writing, Reading
    <2> QED
      BY <2>1, <2>3, SameLocks
  <1>14. CASE TakeBlock(t)
    <2>1. UNCHANGED <<writer, readers>> /\ pc[t] = "take"
      BY <1>14 DEF TakeBlock
    <2>2. pc'[t] = "copy" /\ inum'[t] = inum[t] /\ call'[t] = call[t]
      BY <1>14 DEF TakeBlock, Types
    <2>3. LocksOf(t)'
      BY <1>1, <2>1, <2>2 DEF LocksOf, HoldsRoot, Creating, Writing, Reading
    <2> QED
      BY <2>1, <2>3, SameLocks
  <1>15. CASE Finish(t)
    <2>1. HarmsNoOther(t)
      BY <1>1, <1>15, Unlock, NoNewWriter DEF Finish
    <2>2. pc'[t] = "idle"
      BY <1>15 DEF Finish, Types
    <2> QED
      BY <2>1, <2>2, NeedsNone
  <1> QED
    BY <1>3, <1>4, <1>5, <1>6, <1>7, <1>8, <1>9, <1>10, <1>11, <1>12, <1>13, <1>14,
       <1>15 DEF Step

-----------------------------------------------------------------------------
(***************************************************************************)
(* The order of the directory.                                             *)
(***************************************************************************)

\* A step that leaves the entries and the i-nodes as they are.
LEMMA SameOrder ==
  ASSUME IInv, NEW t \in Threads, Invoke(t) \/ Step(t),
         NEW m \in 0 .. MAX_DIR_ENTRIES, InOrder(m),
         UNCHANGED <<freeinode_ts, dir_entry>>,
         \A h \in Handles : of_inumber'[h] \in 0 .. m,
         Creating(t)' <=> Creating(t), PlaceOf(t, m)'
  PROVE  DirectoryInOrder'
  <1>1. \A u \in Threads \ {t} :
          pc'[u] = pc[u] /\ call'[u] = call[u] /\ inum'[u] = inum[u] /\ at'[u] = at[u]
    BY OthersStay DEF IInv
  <1>2. \A u \in Threads : Creating(u)' <=> Creating(u)
    BY <1>1 DEF Creating
  <1>3. \A u \in Threads : PlaceOf(u, m)'
    <2> SUFFICES ASSUME NEW u \in Threads \ {t} PROVE PlaceOf(u, m)'
      OBVIOUS
    <2>1. PlaceOf(u, m)
      BY DEF InOrder
    <2> QED
      BY <1>1, <2>1 DEF PlaceOf, Creating, HasFile
  <1>4. InOrder(m)'
    BY <1>2, <1>3 DEF InOrder
  <1> QED
    BY <1>2, <1>4 DEF IInv, DirectoryInOrder

\* inode_create takes the i-node after those of the entries, and only when no
\* other thread is creating a file.
LEMMA InodeCreateOrder ==
  ASSUME IInv, NEW t \in Threads, inode_create(t)
  PROVE  DirectoryInOrder'
  <1> DEFINE i == at[t]
  <1> USE DEF IInv, Goto
  <1>1. PICK m \in 0 .. MAX_DIR_ENTRIES : InOrder(m)
    BY DEF DirectoryInOrder
  <1>2. i \in Inodes /\ i \in Nat /\ pc[t] = "inode_create" /\ i <= m + 1 /\ m \in Nat
    BY <1>1, LocksAssumption DEF inode_create, Types, InOrder, PlaceOf
  <1>3. Inodes \subseteq Nat /\ m + 1 \in Inodes
    BY LocksAssumption, DirectoryAssumption DEF Inodes
  <1>4. \A u \in Threads \ {t} :
          pc'[u] = pc[u] /\ call'[u] = call[u] /\ inum'[u] = inum[u] /\ at'[u] = at[u]
    BY OthersStay DEF Step
  <1>5. UNCHANGED <<dir_entry, of_inumber>>
    BY DEF inode_create
  <1>6. CASE freeinode_ts[i] = "FREE"
    <2>1. i = m + 1
      BY <1>1, <1>2, <1>6 DEF InOrder
    <2>2. \A u \in Threads : ~ Creating(u)
      BY <1>1, <1>6, <2>1 DEF InOrder, PlaceOf
    <2>3. /\ freeinode_ts' = [freeinode_ts EXCEPT ![i] = "TAKEN"]
          /\ pc'[t] = "lock_new" /\ inum'[t] = i
      BY <1>6 DEF inode_create, Types
    <2>4. \A u \in Threads : Creating(u)' <=> u = t
      BY <1>4, <2>2, <2>3 DEF Creating
    <2>5. /\ freeinode_ts'[m + 1] = "TAKEN"
          /\ \A j \in Inodes : j # m + 1 => freeinode_ts'[j] = freeinode_ts[j]
      BY <1>2, <2>1, <2>3 DEF Types
    <2>6. PlaceOf(t, m)'
      BY <2>1, <2>3, <2>5 DEF PlaceOf, HasFile
    <2>7. ASSUME NEW u \in Threads \ {t} PROVE PlaceOf(u, m)'
      <3>1. PlaceOf(u, m)
        BY <1>1 DEF InOrder
      <3> QED
        BY <1>4, <2>4, <3>1 DEF PlaceOf, HasFile
    <2>8. InOrder(m)'
      <3>1. \A j \in Inodes : /\ j <= m => freeinode_ts'[j] = "TAKEN"
                              /\ j > m + 1 => freeinode_ts'[j] = "FREE"
        <4>1. \A j \in Inodes : /\ j <= m => freeinode_ts[j] = "TAKEN"
                                /\ j > m + 1 => freeinode_ts[j] = "FREE"
          BY <1>1 DEF InOrder
        <4>2. ~(m + 1 <= m) /\ ~(m + 1 > m + 1)
          BY <1>2
        <4> QED
          BY <2>5, <4>1, <4>2
      <3> QED
        BY <1>1, <1>5, <2>4, <2>6, <2>7, <3>1 DEF InOrder
    <2> QED
      BY <2>4, <2>8 DEF DirectoryInOrder
  <1>7. CASE freeinode_ts[i] # "FREE"
    <2>1. /\ UNCHANGED <<freeinode_ts, inum, pc>> /\ at'[t] = i + 1
          /\ wrlock(t, i)
      BY <1>7 DEF inode_create, Skips, Types
    <2>2. i # m + 1
      <3> SUFFICES ASSUME i = m + 1 PROVE FALSE
        OBVIOUS
      <3>1. freeinode_ts[i] = "TAKEN"
        BY <1>2, <1>7 DEF Types
      <3>2. PICK u \in Threads : Creating(u)
        BY <1>1, <3>1 DEF InOrder
      <3>3. inum[u] = i
        BY <1>1, <3>2 DEF InOrder, PlaceOf
      <3>4. LocksOf(t) /\ LocksOf(u) /\ t # u
        BY <1>2, <3>2 DEF LocksKept, Creating
      <3>5. writer[ROOT_DIR_INUM] = t
        BY <1>2, <3>4 DEF LocksOf, HoldsRoot
      <3>6. pc[u] = "inode_delete"
        BY <3>2, <3>4, <3>5 DEF LocksOf, HoldsRoot, Creating
      <3>7. u \in readers[i] /\ writer[i] = NoThread
        BY <3>2, <3>3, <3>4, <3>6 DEF LocksOf
      <3> QED
        BY <2>1, <3>7, LocksAssumption DEF wrlock, CanWrite
    <2>3. PlaceOf(t, m)'
      <3>1. pc'[t] = "inode_create" /\ at'[t] <= m + 1
        BY <1>2, <2>1, <2>2
      <3> QED
        BY <3>1 DEF PlaceOf, HasFile, Creating
    <2> QED
      BY <1>1, <1>5, <2>1, <2>3, SameOrder DEF Step, Creating, InOrder
  <1> QED
    BY <1>6, <1>7

\* FillSlot enters the i-node after those of the entries in the entry after
\* theirs.
LEMMA FillSlotOrder ==
  ASSUME IInv, NEW t \in Threads, FillSlot(t)
  PROVE  DirectoryInOrder'
  <1> USE DEF IInv, Goto, locals
  <1>1. PICK m \in 0 .. MAX_DIR_ENTRIES : InOrder(m)
    BY DEF DirectoryInOrder
  <1>2. m \in Nat /\ MAX_DIR_ENTRIES \in Nat /\ Inodes \subseteq Nat /\ m + 1 \in Inodes
    BY LocksAssumption, DirectoryAssumption DEF Inodes
  <1>3. /\ pc[t] = "fill_slot" /\ at[t] = m /\ m < MAX_DIR_ENTRIES
        /\ inum[t] = m + 1 /\ freeinode_ts[m + 1] = "TAKEN"
    BY <1>1 DEF FillSlot, InOrder, PlaceOf, Creating
  <1>4. \A u \in Threads \ {t} :
          pc'[u] = pc[u] /\ call'[u] = call[u] /\ inum'[u] = inum[u] /\ at'[u] = at[u]
    BY OthersStay DEF Step
  <1>5. pc'[t] = "table" /\ inum'[t] = m + 1 /\ UNCHANGED <<freeinode_ts, of_inumber>>
    BY <1>3 DEF FillSlot, Types
  <1>6. \A u \in Threads : ~ Creating(u)'
    BY <1>3, <1>4, <1>5 DEF DirectoryInOrder, Creating
  <1>7. m + 1 \in 0 .. MAX_DIR_ENTRIES /\ m + 2 \in Inodes
    BY <1>2, <1>3, LocksAssumption, DirectoryAssumption DEF Inodes
  <1>8. freeinode_ts[m + 2] = "FREE"
    BY <1>1, <1>2, <1>7 DEF InOrder
  <1>9. \A s \in Slots : dir_entry'[s].d_inumber = IF s < m + 1 THEN s + 1 ELSE -1
    <2>1. m \in Slots /\ Slots \subseteq Nat
      BY <1>2, <1>3, LocksAssumption DEF Slots
    <2>2. dir_entry' = [dir_entry EXCEPT ![m] = [d_inumber |-> m + 1, d_name |-> call[t].name]]
      BY <1>3 DEF FillSlot
    <2>3. \A s \in Slots : dir_entry'[s].d_inumber = IF s = m THEN m + 1
                                                    ELSE dir_entry[s].d_inumber
      BY <2>1, <2>2 DEF Types
    <2> QED
      BY <1>1, <1>2, <2>1, <2>3 DEF InOrder
  <1>10. \A i \in Inodes : /\ i <= m + 1 => freeinode_ts'[i] = "TAKEN"
                           /\ i > m + 2 => freeinode_ts'[i] = "FREE"
    <2>1. \A i \in Inodes : /\ i <= m => freeinode_ts[i] = "TAKEN"
                            /\ i > m + 1 => freeinode_ts[i] = "FREE"
      BY <1>1 DEF InOrder
    <2>2. \A i \in Inodes : i <= m + 1 => i <= m \/ i = m + 1
      BY <1>2
    <2>3. \A i \in Inodes : i > m + 2 => i > m + 1
      BY <1>2
    <2> QED
      BY <1>3, <1>5, <2>1, <2>2, <2>3
  <1>11. \A h \in Handles : of_inumber'[h] \in 0 .. m + 1
    BY <1>1, <1>2, <1>5 DEF InOrder
  <1>12. PlaceOf(t, m + 1)'
    BY <1>2, <1>5, <1>6 DEF PlaceOf, HasFile
  <1>13. ASSUME NEW u \in Threads \ {t} PROVE PlaceOf(u, m + 1)'
    <2>1. PlaceOf(u, m) /\ pc'[u] \notin {"fill_slot", "inode_delete"}
      BY <1>1, <1>6 DEF InOrder, Creating
    <2>2. pc[u] = "inode_create" => at[u] <= m + 2
      BY <1>2, <2>1 DEF PlaceOf, Types
    <2>3. HasFile(u) => inum[u] \in 1 .. m + 1
      BY <1>2, <2>1 DEF PlaceOf
    <2> QED
      <3>1. HasFile(u)' => inum'[u] \in 1 .. m + 1
        BY <1>4, <2>3 DEF HasFile
      <3>2. pc'[u] = "inode_create" => at'[u] <= m + 2
        BY <1>4, <2>2
      <3>3. pc'[u] \in {"idle", "lookup"} => at'[u] = 0
        BY <1>4, <2>1 DEF PlaceOf
      <3>4. m + 1 + 1 = m + 2
        BY <1>2
      <3> QED
        BY <1>6, <2>1, <3>1, <3>2, <3>3, <3>4 DEF PlaceOf
  <1>14. InOrder(m + 1)'
    BY <1>2, <1>5, <1>8, <1>9, <1>10, <1>11, <1>12, <1>13 DEF InOrder
  <1> QED
    BY <1>6, <1>7, <1>14 DEF DirectoryInOrder

LEMMA StepOrder ==
  ASSUME IInv, NEW t \in Threads, Invoke(t) \/ Step(t)
  PROVE  DirectoryInOrder'
  <1> USE DEF IInv, Goto, Return, locals, locks, tables
  <1>1. PICK m \in 0 .. MAX_DIR_ENTRIES : InOrder(m)
    BY DEF DirectoryInOrder
  <1>2. m \in Nat /\ PlaceOf(t, m) /\ \A h \in Handles : of_inumber[h] \in 0 .. m
    BY <1>1, LocksAssumption DEF InOrder
  <1>3. CASE inode_create(t)
    BY <1>3, InodeCreateOrder
  <1>4. CASE FillSlot(t)
    BY <1>4, FillSlotOrder
  <1> SUFFICES ASSUME ~ inode_create(t), ~ FillSlot(t)
               PROVE  /\ UNCHANGED <<freeinode_ts, dir_entry>>
                      /\ \A h \in Handles : of_inumber'[h] \in 0 .. m
                      /\ (Creating(t)' <=> Creating(t)) /\ PlaceOf(t, m)'
    BY <1>1, <1>3, <1>4, SameOrder
  <1>5. CASE Invoke(t)
    <2>1. UNCHANGED <<freeinode_ts, dir_entry, of_inumber, inum, at>> /\ pc[t] = "idle"
      BY <1>5 DEF Invoke
    <2>2. pc'[t] \in {"lookup", "entry mutex"}
      BY <1>5 DEF Invoke, Types
    <2> QED
      BY <1>2, <2>1, <2>2 DEF PlaceOf, Creating, HasFile
  <1>6. CASE Lookup(t)
    <2> DEFINE found == find_in_dir(call[t].name)
    <2>1. found # -1 => found \in 1 .. m
      <3>1. \A s \in Slots : s \in Nat
        BY LocksAssumption DEF Slots
      <3> QED
        BY <1>1, <1>2, <3>1, FoundInDir DEF InOrder
    <2>2. at[t] = 0
      BY <1>2, <1>6 DEF Lookup, PlaceOf
    <2>3. \/ pc'[t] = "idle" /\ at'[t] = 0
          \/ pc'[t] = "inode_create" /\ at'[t] = 0
          \/ pc'[t] = "inode_get" /\ inum'[t] = found /\ found # -1
      BY <1>6, <2>2 DEF Lookup, Types
    <2> HIDE DEF found
    <2>4. PlaceOf(t, m)'
      <3>1. CASE pc'[t] \in {"idle", "inode_create"} /\ at'[t] = 0
        <4>1. at'[t] <= m + 1
          BY <1>2, <3>1
        <4> QED
          BY <3>1, <4>1 DEF PlaceOf, Creating, HasFile
      <3>2. CASE pc'[t] = "inode_get" /\ inum'[t] \in 1 .. m
        BY <3>2 DEF PlaceOf, Creating
      <3> QED
        BY <2>1, <2>3, <3>1, <3>2
    <2> QED
      BY <1>2, <1>6, <2>3, <2>4 DEF Lookup, Creating
  <1>7. CASE Existing(t)
    BY <1>2, <1>7 DEF Existing, Types, PlaceOf, Creating, HasFile
  <1>8. CASE LockNew(t)
    BY <1>2, <1>8 DEF LockNew, Types, PlaceOf, Creating, HasFile
  <1>9. CASE FindSlot(t)
    <2>1. EmptySlots = {s \in Slots : s >= m} /\ Slots = 0 .. MAX_DIR_ENTRIES - 1
      BY <1>1, <1>2, LocksAssumption DEF InOrder, EmptySlots, Slots
    <2>2. UNCHANGED <<inum, tables>>
      BY <1>9 DEF FindSlot
    <2>3. CASE EmptySlots = {}
      <3>1. m = MAX_DIR_ENTRIES
        BY <1>2, <2>1, <2>3, LocksAssumption
      <3>2. pc'[t] = "inode_delete"
        BY <1>9, <2>3 DEF FindSlot, Types
      <3> QED
        BY <1>2, <1>9, <2>2, <3>1, <3>2 DEF FindSlot, PlaceOf, Creating, HasFile
    <2>4. CASE EmptySlots # {}
      <3>1. m < MAX_DIR_ENTRIES /\ m \in EmptySlots
        BY <1>2, <2>1, <2>4, LocksAssumption
      <3>2. Lowest(EmptySlots) = m
        BY <1>2, <2>1, <2>4, <3>1, LowestEmptySlot
      <3>3. pc'[t] = "fill_slot" /\ at'[t] = m
        BY <1>9, <2>4, <3>2 DEF FindSlot, Types
      <3> QED
        BY <1>2, <1>9, <2>2, <3>1, <3>3 DEF FindSlot, PlaceOf, Creating, HasFile
    <2> QED
      BY <2>3, <2>4
  <1>10. CASE LockTable(t)
    BY <1>2, <1>10 DEF LockTable, Types, PlaceOf, Creating, HasFile
  <1>11. CASE TryEntry(t)
    <2>1. inum[t] \in 1 .. m /\ pc[t] = "entries"
      BY <1>2, <1>11 DEF TryEntry, PlaceOf, HasFile
    <2>2. \A h \in Handles : of_inumber'[h] \in 0 .. m
      <3>1. \/ of_inumber' = of_inumber
            \/ of_inumber' = [of_inumber EXCEPT ![at[t]] = inum[t]]
        BY <1>11 DEF TryEntry
      <3>2. inum[t] \in 0 .. m
        BY <1>2, <2>1
      <3> QED
        BY <1>2, <3>1, <3>2 DEF Types
    <2>3. \/ pc'[t] = "idle" /\ at'[t] = 0
          \/ pc'[t] = "entries" /\ inum'[t] = inum[t]
      BY <1>11 DEF TryEntry, Types
    <2> QED
      BY <1>11, <2>1, <2>2, <2>3 DEF TryEntry, PlaceOf, Creating, HasFile
  <1>12. CASE LockEntry(t)
    <2>1. call[t].fh \in Handles /\ of_inumber[call[t].fh] # 0
      BY <1>12 DEF LockEntry, HandlesKept, EntryOf, ROOT_DIR_INUM
    <2>2. pc'[t] \in {"close", "file inode"} /\ inum'[t] \in 1 .. m
      <3>1. inum'[t] = of_inumber[call[t].fh]
        BY <1>12 DEF LockEntry, Types
      <3>2. of_inumber[call[t].fh] \in 1 .. m
        BY <1>2, <2>1
      <3> QED
        BY <1>12, <3>1, <3>2 DEF LockEntry, Types
    <2> QED
      BY <1>2, <1>12, <2>2 DEF LockEntry, PlaceOf, Creating, HasFile
  <1>13. CASE Close(t)
    BY <1>2, <1>13 DEF Close, Types, PlaceOf, Creating, HasFile
  <1>14. CASE GetInode(t)
    BY <1>2, <1>14 DEF GetInode, Types, PlaceOf, Creating, HasFile
  <1>15. CASE LockInode(t)
    BY <1>2, <1>15 DEF LockInode, Types, PlaceOf, Creating, HasFile
  <1>16. CASE FindBlock(t)
    <2>1. UNCHANGED <<freeinode_ts, dir_entry, of_inumber>> /\ pc[t] = "alloc"
      BY <1>16 DEF FindBlock
    <2>2. \/ pc'[t] = "idle" /\ at'[t] = 0
          \/ pc'[t] = "take" /\ inum'[t] = inum[t]
      BY <1>16 DEF FindBlock, Types
    <2> QED
      BY <1>2, <2>1, <2>2 DEF PlaceOf, Creating, HasFile
  <1>17. CASE TakeBlock(t)
    <2>1. UNCHANGED <<freeinode_ts, dir_entry, of_inumber, inum, at>>
      BY <1>17 DEF TakeBlock
    <2>2. pc[t] = "take" /\ pc'[t] = "copy"
      BY <1>17 DEF TakeBlock, Types
    <2> QED
      BY <1>2, <2>1, <2>2 DEF PlaceOf, Creating, HasFile
  <1>18. CASE Finish(t)
    BY <1>2, <1>18 DEF Finish, Types, PlaceOf, Creating, HasFile
  <1> QED
    BY <1>5, <1>6, <1>7, <1>8, <1>9, <1>10, <1>11, <1>12, <1>13, <1>14, <1>15, <1>16,
       <1>17, <1>18 DEF Step

-----------------------------------------------------------------------------
(***************************************************************************)
(* The open files.                                                         *)
(***************************************************************************)

\* A mutex changes only when it is free or when the thread is in a call on its
\* handle; a thread gets into a call on a handle only when its mutex is free.
MutexStep(t) ==
  /\ \A h \in Handles : \/ mtx'[h] = mtx[h]
                        \/ mtx[h] = NoThread
                        \/ InEntry(t) /\ call[t].fh = h
  /\ pc'[t] \in EntryLabels => /\ mtx'[call'[t].fh] = t
                               /\ \/ InEntry(t) /\ call'[t] = call[t]
                                  \/ mtx[call'[t].fh] = NoThread
  /\ pc'[t] = "entry mutex" \/ pc'[t] \in EntryLabels =>
       call'[t].fh \in Handles /\ of_inumber[call'[t].fh] # ROOT_DIR_INUM

LEMMA MutexAfter ==
  ASSUME IInv, NEW t \in Threads, Invoke(t) \/ Step(t)
  PROVE  MutexStep(t)
  <1> USE DEF MutexStep
  <1> USE DEF IInv, Goto, Return, locals, locks
  <1>1. EntryOf(t) /\ Types
    BY DEF HandlesKept
  <1>2. CASE Invoke(t)
    <2>1. PICK op \in Calls :
            \/ pc'[t] = "lookup"
            \/ /\ pc'[t] = "entry mutex"
               /\ \E h \in Handles : /\ of_inumber[h] # ROOT_DIR_INUM
                                     /\ call'[t] = [op |-> op, name |-> NoName, fh |-> h]
      <3>1. DOMAIN pc = Threads /\ DOMAIN call = Threads
        BY <1>1 DEF Types
      <3>2. PICK op \in Calls :
              \/ Goto(t, "lookup")
              \/ /\ Goto(t, "entry mutex")
                 /\ \E h \in Handles :
                      /\ of_inumber[h] # ROOT_DIR_INUM
                      /\ call' = [call EXCEPT ![t] = [op |-> op, name |-> NoName, fh |-> h]]
        BY <1>2 DEF Invoke
      <3>3. \/ pc'[t] = "lookup"
            \/ /\ pc'[t] = "entry mutex"
               /\ \E h \in Handles : /\ of_inumber[h] # ROOT_DIR_INUM
                                     /\ call'[t] = [op |-> op, name |-> NoName, fh |-> h]
        BY <3>1, <3>2
      <3> QED
        BY <3>3
    <2>2. mtx' = mtx /\ ~ pc'[t] \in EntryLabels
      BY <1>2, <2>1 DEF Invoke, EntryLabels
    <2>3. pc'[t] = "entry mutex" =>
            call'[t].fh \in Handles /\ of_inumber[call'[t].fh] # ROOT_DIR_INUM
      <3>1. CASE pc'[t] = "entry mutex"
        <4>1. PICK h \in Handles : /\ of_inumber[h] # ROOT_DIR_INUM
                                   /\ call'[t] = [op |-> op, name |-> NoName, fh |-> h]
          BY <2>1, <3>1
        <4>2. call'[t].fh = h
          BY <4>1
        <4> QED
          BY <4>1, <4>2
      <3> QED
        BY <3>1
    <2> QED
      BY <2>2, <2>3 DEF EntryLabels
  <1>3. CASE Lookup(t)
    <2>1. pc'[t] \in {"idle", "inode_create", "inode_get"} /\ mtx' = mtx
      BY <1>1, <1>3 DEF Lookup, Types
    <2> QED
      BY <2>1 DEF InEntry, EntryLabels
  <1>4. CASE Existing(t)
    BY <1>1, <1>4 DEF Existing, Types, InEntry, EntryLabels
  <1>5. CASE inode_create(t)
    <2>1. pc'[t] \in {"inode_create", "lock_new"} /\ mtx' = mtx
      BY <1>1, <1>5 DEF inode_create, Types
    <2> QED
      BY <2>1 DEF InEntry, EntryLabels
  <1>6. CASE LockNew(t)
    BY <1>1, <1>6 DEF LockNew, Types, InEntry, EntryLabels
  <1>7. CASE FindSlot(t)
    <2>1. pc'[t] \in {"inode_delete", "fill_slot"} /\ mtx' = mtx
      BY <1>1, <1>7 DEF FindSlot, Types
    <2> QED
      BY <2>1 DEF InEntry, EntryLabels
  <1>8. CASE FillSlot(t)
    BY <1>1, <1>8 DEF FillSlot, Types, InEntry, EntryLabels
  <1>9. CASE LockTable(t)
    BY <1>1, <1>9 DEF LockTable, Types, InEntry, EntryLabels
  <1>10. CASE TryEntry(t)
    <2>1. pc'[t] \in {"idle", "entries"}
      BY <1>1, <1>10 DEF TryEntry, Types
    <2>2. \/ mtx' = mtx
          \/ mtx[at[t]] = NoThread /\ mtx' = [mtx EXCEPT ![at[t]] = t]
      BY <1>10 DEF TryEntry, SkipsEntry
    <2> QED
      BY <1>1, <2>1, <2>2 DEF InEntry, EntryLabels, Types
  <1>11. CASE LockEntry(t)
    <2>1. /\ call[t].fh \in Handles /\ of_inumber[call[t].fh] # ROOT_DIR_INUM
          /\ mtx[call[t].fh] = NoThread /\ mtx' = [mtx EXCEPT ![call[t].fh] = t]
          /\ call' = call
      BY <1>1, <1>11 DEF LockEntry, EntryMutex, EntryOf
    <2> QED
      BY <1>1, <2>1 DEF Types
  <1>12. CASE Close(t)
    <2>1. pc[t] = "close" /\ mtx' = [mtx EXCEPT ![call[t].fh] = NoThread]
      BY <1>12 DEF Close
    <2>2. pc'[t] = "idle"
      BY <1>1, <1>12 DEF Close, Types
    <2> QED
      BY <1>1, <2>1, <2>2 DEF InEntry, EntryLabels, Types
  <1>13. CASE GetInode(t)
    BY <1>1, <1>13 DEF GetInode, Types, InEntry, EntryLabels, EntryOf
  <1>14. CASE LockInode(t)
    BY <1>1, <1>14 DEF LockInode, Types, InEntry, EntryLabels, EntryOf
  <1>15. CASE FindBlock(t)
    <2>1. \/ pc'[t] = "idle"
          \/ pc'[t] = "take" /\ call' = call
      BY <1>1, <1>15 DEF FindBlock, Types
    <2>2. pc[t] = "alloc" /\ mtx' = mtx
      BY <1>15 DEF FindBlock
    <2> QED
      BY <1>1, <2>1, <2>2 DEF InEntry, EntryLabels, EntryOf
  <1>16. CASE TakeBlock(t)
    BY <1>1, <1>16 DEF TakeBlock, Types, InEntry, EntryLabels, EntryOf
  <1>17. CASE Finish(t)
    <2>1. pc[t] = "copy" /\ mtx' = [mtx EXCEPT ![call[t].fh] = NoThread]
      BY <1>17 DEF Finish
    <2>2. pc'[t] = "idle"
      BY <1>1, <1>17 DEF Finish, Types
    <2> QED
      BY <1>1, <2>1, <2>2 DEF InEntry, EntryLabels, Types
  <1> QED
    BY <1>2, <1>3, <1>4, <1>5, <1>6, <1>7, <1>8, <1>9, <1>10, <1>11, <1>12, <1>13, <1>14,
       <1>15, <1>16, <1>17 DEF Step

\* A mutex that is that of no call stays locked.
LEMMA DeadStays ==
  ASSUME IInv, NEW t \in Threads, Invoke(t) \/ Step(t), NEW h \in Handles, Dead(h)
  PROVE  Dead(h)'
  <1>0. MutexStep(t)
    BY MutexAfter
  <1>1. mtx'[h] = mtx[h]
    BY <1>0 DEF Dead, MutexStep
  <1>2. pc'[t] \in EntryLabels => call'[t].fh # h
    BY <1>0 DEF Dead, MutexStep
  <1>3. \A u \in Threads \ {t} : pc'[u] \in EntryLabels => call'[u].fh # h
    <2>1. \A u \in Threads \ {t} : pc'[u] = pc[u] /\ call'[u] = call[u]
      BY OthersStay DEF IInv
    <2> QED
      BY <2>1 DEF Dead, InEntry
  <1> QED
    BY <1>1, <1>2, <1>3 DEF Dead, InEntry

\* A handle that has been used has been.
LEMMA UsedStays ==
  ASSUME IInv, NEW t \in Threads, Invoke(t) \/ Step(t), NEW h \in Handles,
         of_inumber[h] # ROOT_DIR_INUM
  PROVE  of_inumber'[h] # ROOT_DIR_INUM
  <1>1. CASE TryEntry(t)
    <2>1. inum[t] # ROOT_DIR_INUM
      BY <1>1, InodesInRange DEF IInv, TryEntry, HasFile
    <2> QED
      BY <1>1, <2>1 DEF TryEntry, IInv, Types
  <1>2. CASE ~ TryEntry(t)
    BY <1>2 DEF Step, Invoke, Lookup, Existing, inode_create, LockNew, FindSlot,
                FillSlot, LockTable, LockEntry, Close, GetInode, LockInode,
                FindBlock, TakeBlock, Finish, tables
  <1> QED
    BY <1>1, <1>2

\* An entry whose mutex is free becomes dead when TryEntry skips it.
LEMMA TryEntryHandles ==
  ASSUME IInv, NEW t \in Threads, TryEntry(t)
  PROVE  SkippedBy(t)' /\ SkippedDead'
  <1> USE DEF IInv, Goto, Return
  <1>0. PICK e \in Handles : e = at[t]
    BY DEF HandlesKept, SkippedBy, TryEntry
  <1>1. /\ e \in Handles /\ mtx[e] = NoThread /\ pc[t] = "entries"
        /\ \A h \in Handles : h < e => Dead(h)
    BY <1>0 DEF HandlesKept, SkippedBy, TryEntry
  <1>2. Step(t) /\ Handles \subseteq Nat
    BY LocksAssumption DEF Step, Handles
  <1>3. /\ \A h \in Handles : h < e => Dead(h)'
        /\ \A h, k \in Handles : h < k /\ of_inumber[k] # ROOT_DIR_INUM => Dead(h)'
    BY <1>1, <1>2, DeadStays DEF HandlesKept, SkippedDead
  <1> SUFFICES /\ pc'[t] = "entries" =>
                    at'[t] \in Handles /\ \A h \in Handles : h < at'[t] => Dead(h)'
               /\ \A h, k \in Handles : h < k /\ of_inumber'[k] # ROOT_DIR_INUM => Dead(h)'
    BY DEF SkippedBy, SkippedDead
  <1>4. CASE free_open_file_entries[e] = "FREE"
    <2>1. pc'[t] = "idle" /\ of_inumber' = [of_inumber EXCEPT ![e] = inum[t]]
      BY <1>0, <1>4 DEF TryEntry, Types
    <2> QED
      BY <1>1, <1>3, <2>1 DEF Types
  <1>5. CASE free_open_file_entries[e] # "FREE"
    <2>1. /\ mtx' = [mtx EXCEPT ![e] = t] /\ of_inumber' = of_inumber
          /\ \/ pc'[t] = "idle"
             \/ at'[t] = e + 1 /\ e + 1 \in Handles /\ pc'[t] = "entries"
      BY <1>0, <1>1, <1>5 DEF TryEntry, SkipsEntry, Types
    <2>2. \A u \in Threads : InEntry(u) => call[u].fh # e
      BY <1>1, LocksAssumption DEF HandlesKept, EntryOf
    <2>3. \A u \in Threads : pc'[u] \in EntryLabels => call'[u].fh # e
      <3>1. pc'[t] \notin EntryLabels
        BY <2>1 DEF EntryLabels
      <3>2. \A u \in Threads \ {t} : pc'[u] = pc[u] /\ call'[u] = call[u]
        BY <1>2, OthersStay
      <3> QED
        BY <2>2, <3>1, <3>2 DEF InEntry
    <2>4. Dead(e)'
      <3>1. mtx'[e] = t /\ t # NoThread
        BY <1>1, <2>1, LocksAssumption DEF Types
      <3> QED
        BY <2>3, <3>1 DEF Dead, InEntry
    <2>5. \A h \in Handles : h < e + 1 => h < e \/ h = e
      BY <1>1, <1>2
    <2> QED
      BY <1>3, <2>1, <2>4, <2>5
  <1> QED
    BY <1>4, <1>5

LEMMA StepHandles ==
  ASSUME IInv, NEW t \in Threads, Invoke(t) \/ Step(t)
  PROVE  HandlesKept'
  <1> USE DEF IInv
  <1>1. \A h \in Handles : Dead(h) => Dead(h)'
    BY DeadStays
  <1>2. SkippedDead'
    <2>1. CASE TryEntry(t)
      BY <2>1, TryEntryHandles
    <2>2. CASE ~ TryEntry(t)
      <3>1. of_inumber' = of_inumber
        BY <2>2 DEF Step, Invoke, Lookup, Existing, inode_create, LockNew, FindSlot,
                    FillSlot, LockTable, LockEntry, Close, GetInode, LockInode,
                    FindBlock, TakeBlock, Finish, tables
      <3> QED
        BY <1>1, <3>1 DEF HandlesKept, SkippedDead
    <2> QED
      BY <2>1, <2>2
  <1>3. EntryOf(t)'
    <2>1. MutexStep(t)
      BY MutexAfter
    <2>2. \A h \in Handles : of_inumber[h] # ROOT_DIR_INUM => of_inumber'[h] # ROOT_DIR_INUM
      BY UsedStays
    <2> QED
      BY <2>1, <2>2 DEF EntryOf, InEntry, MutexStep
  <1>4. SkippedBy(t)'
    <2>1. CASE TryEntry(t)
      BY <2>1, TryEntryHandles
    <2>2. CASE LockTable(t)
      <3>1. at'[t] = 0
        BY <2>2 DEF LockTable, Types
      <3>2. 0 \in Handles /\ \A h \in Handles : ~(h < 0)
        BY LocksAssumption DEF Handles
      <3> QED
        BY <3>1, <3>2 DEF SkippedBy
    <2>3. CASE ~ TryEntry(t) /\ ~ LockTable(t)
      <3>1. pc'[t] # "entries"
        <4> USE DEF Types, Goto, Return
        <4>1. CASE Invoke(t) \/ Lookup(t) \/ Existing(t) \/ inode_create(t)
          BY <4>1 DEF Invoke, Lookup, Existing, inode_create
        <4>2. CASE LockNew(t) \/ FindSlot(t) \/ FillSlot(t) \/ LockEntry(t)
          BY <4>2 DEF LockNew, FindSlot, FillSlot, LockEntry
        <4>3. CASE Close(t) \/ GetInode(t) \/ LockInode(t)
          BY <4>3 DEF Close, GetInode, LockInode
        <4>4. CASE FindBlock(t) \/ TakeBlock(t) \/ Finish(t)
          BY <4>4 DEF FindBlock, TakeBlock, Finish
        <4> QED
          BY <2>3, <4>1, <4>2, <4>3, <4>4 DEF Step
      <3> QED
        BY <3>1 DEF SkippedBy
    <2> QED
      BY <2>1, <2>2, <2>3
  <1>5. ASSUME NEW u \in Threads \ {t} PROVE EntryOf(u)' /\ SkippedBy(u)'
    <2>1. pc'[u] = pc[u] /\ call'[u] = call[u] /\ at'[u] = at[u]
      BY OthersStay
    <2>2. EntryOf(u) /\ EntryOf(t) /\ SkippedBy(u)
      BY DEF HandlesKept
    <2>3. InEntry(u) => mtx'[call[u].fh] = u
      <3> SUFFICES ASSUME InEntry(u) PROVE mtx'[call[u].fh] = u
        OBVIOUS
      <3>1. call[u].fh \in Handles /\ mtx[call[u].fh] = u
        BY <2>2 DEF EntryOf
      <3>2. u # NoThread /\ ~(InEntry(t) /\ call[t].fh = call[u].fh)
        BY <2>2, <3>1, LocksAssumption DEF EntryOf
      <3> QED
        <4>1. MutexStep(t)
          BY MutexAfter
        <4> QED
          BY <3>1, <3>2, <4>1 DEF MutexStep
    <2>4. EntryOf(u)'
      <3>1. \A h \in Handles : of_inumber[h] # ROOT_DIR_INUM => of_inumber'[h] # ROOT_DIR_INUM
        BY UsedStays
      <3> QED
        BY <2>1, <2>2, <2>3, <3>1 DEF EntryOf, InEntry
    <2>5. SkippedBy(u)'
      BY <1>1, <2>1, <2>2 DEF SkippedBy
    <2> QED
      BY <2>4, <2>5
  <1> QED
    BY <1>2, <1>3, <1>4, <1>5 DEF HandlesKept

-----------------------------------------------------------------------------
(***************************************************************************)
(* The blocks.                                                             *)
(***************************************************************************)

\* At most one thread is in a call on a handle: of two handles that have been
\* used the lower is dead.
LEMMA OneInEntry ==
  ASSUME IInv, NEW t \in Threads, NEW u \in Threads, InEntry(t), InEntry(u)
  PROVE  t = u
  <1> DEFINE h == call[t].fh
             k == call[u].fh
  <1>1. /\ h \in Handles /\ mtx[h] = t /\ of_inumber[h] # ROOT_DIR_INUM
        /\ k \in Handles /\ mtx[k] = u /\ of_inumber[k] # ROOT_DIR_INUM
    BY DEF IInv, HandlesKept, EntryOf
  <1>2. ~(h < k) /\ ~(k < h)
    BY <1>1 DEF IInv, HandlesKept, SkippedDead, Dead
  <1>3. h = k
    BY <1>1, <1>2, LocksAssumption DEF Handles
  <1> QED
    BY <1>1, <1>3

LEMMA StepBlocks ==
  ASSUME IInv, NEW t \in Threads, Invoke(t) \/ Step(t)
  PROVE  BlocksKept'
  <1> USE DEF IInv, Goto, Return, locals, locks, tables
  <1>1. \A u \in Threads \ {t} : pc'[u] = pc[u] /\ at'[u] = at[u]
    BY OthersStay
  <1>2. CASE inode_create(t)
    <2> DEFINE i == at[t]
    <2>1. i \in Inodes /\ -1 \notin Blocks
      BY <1>2, LocksAssumption DEF inode_create, Blocks
    <2>2. \/ UNCHANGED <<freeinode_ts, i_data_block>>
          \/ /\ freeinode_ts' = [freeinode_ts EXCEPT ![i] = "TAKEN"]
             /\ i_data_block' = [i_data_block EXCEPT ![i] = -1]
      BY <1>2 DEF inode_create
    <2>3. free_blocks' = free_blocks /\ pc'[t] \in {"inode_create", "lock_new"}
      BY <1>2 DEF inode_create, Types
    <2>4. \A j \in Inodes : \/ i_data_block'[j] = -1
                            \/ /\ freeinode_ts'[j] = freeinode_ts[j]
                               /\ i_data_block'[j] = i_data_block[j]
      BY <2>1, <2>2 DEF Types
    <2> QED
      BY <1>1, <2>3, <2>4 DEF BlocksKept, NoBlockShared
  <1>3. CASE FindBlock(t)
    <2>1. UNCHANGED <<free_blocks, freeinode_ts, i_data_block>>
      BY <1>3 DEF FindBlock
    <2>2. pc'[t] = "take" => at'[t] \in Blocks /\ free_blocks[at'[t]] = "FREE"
      BY <1>3, LowestFreeBlock DEF FindBlock, Types
    <2> QED
      BY <1>1, <2>1, <2>2 DEF BlocksKept, NoBlockShared
  <1>4. CASE TakeBlock(t)
    <2> DEFINE b == at[t]
               i == inum[t]
    <2>1. /\ b \in Blocks /\ free_blocks[b] = "FREE" /\ i \in Inodes
          /\ pc[t] = "take" /\ pc'[t] = "copy"
      BY <1>4, InodesInRange DEF TakeBlock, BlocksKept, Types, HasFile
    <2>2. /\ free_blocks' = [free_blocks EXCEPT ![b] = "TAKEN"]
          /\ i_data_block' = [i_data_block EXCEPT ![i] = b]
          /\ freeinode_ts' = freeinode_ts
      BY <1>4 DEF TakeBlock
    <2>3. \A u \in Threads : pc'[u] # "take"
      BY <1>1, <2>1, OneInEntry DEF InEntry, EntryLabels
    <2>4. \A j \in Inodes : i_data_block'[j] = IF j = i THEN b ELSE i_data_block[j]
      BY <2>1, <2>2 DEF Types
    <2>5. \A c \in Blocks : free_blocks'[c] = IF c = b THEN "TAKEN" ELSE free_blocks[c]
      BY <2>1, <2>2 DEF Types
    <2>6. \A j \in Inodes : i_data_block[j] \in Blocks \cup {-1}
      BY DEF Types
    <2> HIDE DEF b, i
    <2>7. NoBlockShared'
      BY <2>1, <2>2, <2>4, <2>6 DEF BlocksKept, NoBlockShared
    <2>8. \A j \in Inodes : freeinode_ts'[j] = "TAKEN" /\ i_data_block'[j] # -1 =>
                              free_blocks'[i_data_block'[j]] = "TAKEN"
      BY <2>1, <2>2, <2>4, <2>5, <2>6 DEF BlocksKept
    <2> QED
      BY <2>3, <2>7, <2>8 DEF BlocksKept
  <1>5. CASE ~ inode_create(t) /\ ~ FindBlock(t) /\ ~ TakeBlock(t)
    <2>1. UNCHANGED <<free_blocks, freeinode_ts, i_data_block>>
      BY <1>5 DEF Step, Invoke, Lookup, Existing, LockNew, FindSlot, FillSlot, LockTable,
                  TryEntry, LockEntry, Close, GetInode, LockInode, Finish
    <2>2. pc'[t] # "take"
      <3> USE DEF Types
      <3>1. CASE Invoke(t) \/ Lookup(t) \/ Existing(t) \/ LockNew(t)
        BY <3>1 DEF Invoke, Lookup, Existing, LockNew
      <3>2. CASE FindSlot(t) \/ FillSlot(t) \/ LockTable(t) \/ TryEntry(t)
        BY <3>2 DEF FindSlot, FillSlot, LockTable, TryEntry
      <3>3. CASE LockEntry(t) \/ Close(t) \/ GetInode(t) \/ LockInode(t) \/ Finish(t)
        BY <3>3 DEF LockEntry, Close, GetInode, LockInode, Finish
      <3> QED
        BY <1>5, <3>1, <3>2, <3>3 DEF Step
    <2> QED
      BY <1>1, <2>1, <2>2 DEF BlocksKept, NoBlockShared
  <1> QED
    BY <1>2, <1>3, <1>4, <1>5

-----------------------------------------------------------------------------
(***************************************************************************)
(* The invariant holds, and what follows from it.                          *)
(***************************************************************************)

LEMMA InitIInv == Init => IInv
  <1> SUFFICES ASSUME Init PROVE IInv
    OBVIOUS
  <1> USE LocksAssumption DEF Init
  <1>1. 0 \in Inodes /\ 0 \in Blocks /\ 0 \in 0 .. MAX_DIR_ENTRIES /\ -1 \notin Blocks
    BY DEF Inodes, Blocks
  <1>2. Types
    BY <1>1 DEF Types, Labels, NoCall
  <1>3. Exclusion
    BY DEF Exclusion
  <1>4. LocksKept
    BY DEF LocksKept, LocksOf, HoldsRoot, Creating, Writing, Reading
  <1>5. DirectoryInOrder
    <2>1. \A t \in Threads : ~ Creating(t) /\ PlaceOf(t, 0)
      BY DEF Creating, PlaceOf, HasFile
    <2>2. \A s \in Slots : ~(s < 0)
      BY DEF Slots
    <2>3. 1 \in Inodes /\ \A i \in Inodes : i <= 0 => i = 0
      BY DirectoryAssumption DEF Inodes
    <2>4. InOrder(0)
      BY <1>1, <2>1, <2>2, <2>3 DEF InOrder, ROOT_DIR_INUM
    <2> QED
      BY <1>1, <2>1, <2>4 DEF DirectoryInOrder
  <1>6. HandlesKept
    BY DEF HandlesKept, EntryOf, SkippedBy, SkippedDead, InEntry, EntryLabels, ROOT_DIR_INUM
  <1>7. BlocksKept
    BY <1>1 DEF BlocksKept, NoBlockShared, ROOT_DIR_INUM
  <1> QED
    BY <1>2, <1>3, <1>4, <1>5, <1>6, <1>7 DEF IInv

LEMMA NextIInv == IInv /\ [Next]_vars => IInv'
  <1> SUFFICES ASSUME IInv, [Next]_vars PROVE IInv'
    OBVIOUS
  <1>1. CASE Next
    <2>1. PICK t \in Threads : Invoke(t) \/ Step(t)
      BY <1>1 DEF Next
    <2> QED
      BY <2>1, StepTypes, StepLocks, StepOrder, StepHandles, StepBlocks DEF IInv
  <1>2. CASE UNCHANGED vars
    <2> USE <1>2 DEF vars, locks, tables, locals, IInv
    <2>1. Types' /\ Exclusion'
      BY DEF Types, Exclusion
    <2>2. LocksKept'
      BY DEF LocksKept, LocksOf, HoldsRoot, Creating, Writing, Reading
    <2>3. DirectoryInOrder'
      <3>1. PICK m \in 0 .. MAX_DIR_ENTRIES : InOrder(m)
        BY DEF DirectoryInOrder
      <3>2. \A t \in Threads : (Creating(t)' <=> Creating(t)) /\ (PlaceOf(t, m)' <=> PlaceOf(t, m))
        BY DEF PlaceOf, Creating, HasFile
      <3>3. InOrder(m)'
        BY <3>1, <3>2 DEF InOrder
      <3> QED
        BY <3>2, <3>3 DEF DirectoryInOrder
    <2>4. HandlesKept'
      BY DEF HandlesKept, EntryOf, SkippedBy, SkippedDead, Dead, InEntry
    <2>5. BlocksKept'
      BY DEF BlocksKept, NoBlockShared
    <2> QED
      BY <2>1, <2>2, <2>3, <2>4, <2>5
  <1> QED
    BY <1>1, <1>2

LEMMA Invariance == Spec => []IInv
  BY InitIInv, NextIInv, PTL DEF Spec

\* Every table and local variable of the first exercise holds values of its
\* kind at every step of every thread, and the search of inode_create for a
\* free i-node never comes to the end of the table.
THEOREM TypeCorrect == Spec => []TypeOK
  <1>1. IInv => TypeOK
    BY InodesInRange DEF IInv, Types, TypeOK
  <1> QED
    BY <1>1, Invariance, PTL

\* However the threads' calls of tfs_open interleave, every allocated i-node
\* is that of one entry of the directory or of one thread about to enter it.
THEOREM EntriesMatchInodes == Spec => []DirectoryMatches
  <1>1. ASSUME IInv PROVE DirectoryMatches
    <2> DEFINE files   == {i \in Inodes \ {ROOT_DIR_INUM} : freeinode_ts[i] = "TAKEN"}
               full    == Slots \ EmptySlots
               entered == {dir_entry[s].d_inumber : s \in full}
               pending == {inum[t] : t \in {u \in Threads : Creating(u)}}
    <2>1. PICK m \in 0 .. MAX_DIR_ENTRIES : InOrder(m)
      BY <1>1 DEF IInv, DirectoryInOrder
    <2>2. /\ m \in Nat /\ Inodes = 0 .. INODE_TABLE_SIZE - 1 /\ INODE_TABLE_SIZE \in Nat
          /\ Slots = 0 .. MAX_DIR_ENTRIES - 1 /\ MAX_DIR_ENTRIES \in Nat
          /\ m + 1 < INODE_TABLE_SIZE /\ ROOT_DIR_INUM = 0
      BY LocksAssumption, DirectoryAssumption DEF Inodes, Slots, ROOT_DIR_INUM
    <2>3. \A s \in Slots : s \in full <=> s < m
      BY <2>1, <2>2 DEF InOrder, EmptySlots
    <2>4. entered = 1 .. m
      <3>1. \A s \in full : dir_entry[s].d_inumber = s + 1 /\ s \in 0 .. m - 1
        BY <2>1, <2>2, <2>3 DEF InOrder
      <3>2. \A i \in 1 .. m : i - 1 \in full /\ dir_entry[i - 1].d_inumber = i
        BY <2>1, <2>2, <2>3 DEF InOrder
      <3> QED
        BY <2>2, <3>1, <3>2
    <2>5. /\ pending \subseteq {m + 1}
          /\ m + 1 \in pending <=> freeinode_ts[m + 1] = "TAKEN"
      BY <2>1 DEF InOrder, PlaceOf
    <2>6. files \ {m + 1} = 1 .. m /\ (m + 1 \in files <=> freeinode_ts[m + 1] = "TAKEN")
      <3>1. \A i \in Inodes : /\ i <= m => freeinode_ts[i] = "TAKEN"
                              /\ i > m + 1 => freeinode_ts[i] = "FREE"
        BY <2>1 DEF InOrder
      <3> QED
        BY <2>2, <3>1
    <2>7. entered \cup pending = files /\ entered \cap pending = {}
      <3>1. m + 1 \notin 1 .. m
        BY <2>2
      <3> HIDE DEF entered, pending, files
      <3> QED
        BY <2>4, <2>5, <2>6, <3>1
    <2>8. \A s, r \in full : dir_entry[s].d_inumber = dir_entry[r].d_inumber => s = r
      <3>1. \A s \in full : dir_entry[s].d_inumber = s + 1 /\ s \in Nat
        BY <2>1, <2>2, <2>3 DEF InOrder
      <3> QED
        BY <3>1
    <2> QED
      BY <1>1, <2>7, <2>8 DEF DirectoryMatches, IInv, DirectoryInOrder
  <1> QED
    BY <1>1, Invariance, PTL

\* No thread reads or writes a file while another writes it, and no two move
\* the offset of one handle, whatever locks earlier calls have left held.
THEOREM FilesAreExclusive == Spec => []FilesExclusive
  <1>1. ASSUME IInv PROVE FilesExclusive
    <2> SUFFICES ASSUME NEW t \in Threads, NEW u \in Threads, t # u,
                        Writing(t) \/ Reading(t), Writing(u) \/ Reading(u)
                 PROVE  /\ inum[t] = inum[u] => Reading(t) /\ Reading(u)
                        /\ call[t].fh # call[u].fh
      BY DEF FilesExclusive
    <2>1. LocksOf(t) /\ LocksOf(u) /\ EntryOf(t) /\ EntryOf(u)
      BY <1>1 DEF IInv, LocksKept, HandlesKept
    <2>2. inum[t] \in Inodes
      BY <1>1, InodesInRange DEF IInv, HasFile, Writing, Reading
    <2>3. writer[inum[t]] # NoThread => readers[inum[t]] = {}
      BY <1>1, <2>2 DEF IInv, Exclusion
    <2>4. inum[t] = inum[u] => Reading(t) /\ Reading(u)
      BY <2>1, <2>3, LocksAssumption DEF LocksOf
    <2>5. call[t].fh # call[u].fh
      BY <2>1 DEF EntryOf, InEntry, EntryLabels, Writing, Reading
    <2> QED
      BY <2>4, <2>5
  <1> QED
    BY <1>1, Invariance, PTL

\* data_block_alloc never gives a block to two files, although it tests and
\* marks it without a lock.
THEOREM BlocksAreNotShared == Spec => []NoBlockShared
  BY Invariance, PTL DEF IInv, BlocksKept

-----------------------------------------------------------------------------
(***************************************************************************)
(* The names.                                                              *)
(***************************************************************************)

\* A name that is not found is the name of no entry.
LEMMA NotFound ==
  ASSUME Types, NEW name, find_in_dir(name) = -1
  PROVE  \A s \in Slots \ EmptySlots : dir_entry[s].d_name # name
  <1> DEFINE hits == {s \in Slots \ EmptySlots : dir_entry[s].d_name = name}
  <1> SUFFICES ASSUME hits # {} PROVE FALSE
    OBVIOUS
  <1>1. hits \in SUBSET Nat
    BY LocksAssumption DEF Slots
  <1>2. Lowest(hits) \in hits
    BY <1>1, LowestIn
  <1>3. dir_entry[Lowest(hits)].d_inumber # -1
    BY <1>2 DEF EmptySlots
  <1> QED
    BY <1>3 DEF find_in_dir

\* A thread gets past its lookup by finding no entry of its name, and then
\* keeps the name.
LEMMA PastLookupAfter ==
  ASSUME IInv, NEW t \in Threads, Invoke(t) \/ Step(t), PastLookup(t)'
  PROVE  /\ call'[t].name = call[t].name /\ ~ FillSlot(t)
         /\ PastLookup(t) \/ \A s \in Slots \ EmptySlots : dir_entry[s].d_name # call[t].name
  <1> USE DEF IInv, Types, Goto, Return, locals
  <1>1. CASE Lookup(t)
    <2>1. find_in_dir(call[t].name) = -1 /\ call' = call /\ pc'[t] = "inode_create"
      BY <1>1 DEF Lookup, PastLookup, Creating
    <2>2. ~ FillSlot(t)
      BY <1>1 DEF Lookup, FillSlot
    <2> QED
      BY <2>1, <2>2, NotFound
  <1>2. CASE inode_create(t)
    BY <1>2 DEF inode_create, PastLookup, FillSlot
  <1>3. CASE LockNew(t)
    BY <1>3 DEF LockNew, PastLookup, Creating, FillSlot
  <1>4. CASE FindSlot(t)
    <2>1. pc[t] = "find_slot" /\ call' = call
      BY <1>4 DEF FindSlot
    <2> QED
      BY <2>1 DEF PastLookup, Creating, FillSlot
  <1>5. CASE Invoke(t) \/ Existing(t) \/ FillSlot(t) \/ LockTable(t)
    <2>1. CASE Invoke(t)
      <3>1. pc'[t] \in {"lookup", "entry mutex"}
        BY <2>1 DEF Invoke
      <3> QED
        BY <3>1 DEF PastLookup, Creating
    <2>2. CASE Existing(t) \/ FillSlot(t) \/ LockTable(t)
      <3>1. pc'[t] \in {"offset", "table", "entries"}
        BY <2>2 DEF Existing, FillSlot, LockTable
      <3> QED
        BY <3>1 DEF PastLookup, Creating
    <2> QED
      BY <1>5, <2>1, <2>2
  <1>6. CASE TryEntry(t) \/ LockEntry(t) \/ Close(t) \/ GetInode(t)
    <2>1. pc'[t] \in {"idle", "entries", "close", "file inode", "file lock"}
      BY <1>6 DEF TryEntry, LockEntry, Close, GetInode
    <2> QED
      BY <2>1 DEF PastLookup, Creating
  <1>7. CASE LockInode(t) \/ FindBlock(t) \/ TakeBlock(t) \/ Finish(t)
    <2>1. pc'[t] \in {"idle", "alloc", "copy", "take"}
      BY <1>7 DEF LockInode, FindBlock, TakeBlock, Finish
    <2> QED
      BY <2>1 DEF PastLookup, Creating
  <1> QED
    BY <1>1, <1>2, <1>3, <1>4, <1>5, <1>6, <1>7 DEF Step

\* FillSlot adds one entry, with the name of the call.
LEMMA FilledEntry ==
  ASSUME IInv, NEW t \in Threads, FillSlot(t)
  PROVE  \E e \in EmptySlots :
           /\ Slots \ EmptySlots' = (Slots \ EmptySlots) \cup {e}
           /\ dir_entry'[e].d_name = call[t].name
           /\ \A s \in Slots \ EmptySlots : dir_entry'[s].d_name = dir_entry[s].d_name
           /\ PastLookup(t) /\ pc'[t] = "table"
  <1> USE DEF IInv
  <1>1. PICK m \in 0 .. MAX_DIR_ENTRIES : InOrder(m)
    BY DEF DirectoryInOrder
  <1>2. /\ pc[t] = "fill_slot" /\ at[t] = m /\ m < MAX_DIR_ENTRIES /\ inum[t] = m + 1
        /\ m \in Nat /\ MAX_DIR_ENTRIES \in Nat
    BY <1>1, LocksAssumption DEF FillSlot, InOrder, PlaceOf, Creating
  <1>3. m \in EmptySlots /\ m \in Slots /\ m + 1 # -1
    <2>1. m \in Slots /\ ~(m < m) /\ m + 1 # -1
      BY <1>2 DEF Slots
    <2> QED
      BY <1>1, <2>1 DEF InOrder, EmptySlots
  <1>4. dir_entry' = [dir_entry EXCEPT ![m] = [d_inumber |-> m + 1, d_name |-> call[t].name]]
    BY <1>2 DEF FillSlot
  <1>5. \A s \in Slots : dir_entry'[s] = IF s = m
                                        THEN [d_inumber |-> m + 1, d_name |-> call[t].name]
                                        ELSE dir_entry[s]
    BY <1>3, <1>4 DEF Types
  <1>6. Slots \ EmptySlots' = (Slots \ EmptySlots) \cup {m}
    <2>1. dir_entry'[m].d_inumber # -1
      BY <1>3, <1>5
    <2>2. \A s \in Slots : s # m => dir_entry'[s] = dir_entry[s]
      BY <1>5
    <2>3. \A s \in Slots : s \in EmptySlots' <=> s \in EmptySlots /\ s # m
      BY <2>1, <2>2 DEF EmptySlots
    <2>4. EmptySlots \subseteq Slots /\ EmptySlots' \subseteq Slots
      BY DEF EmptySlots
    <2> QED
      BY <1>3, <2>3, <2>4
  <1>7. PastLookup(t) /\ pc'[t] = "table"
    BY <1>2 DEF PastLookup, Creating, FillSlot, Goto, Types
  <1> QED
    BY <1>3, <1>5, <1>6, <1>7

LEMMA NamesAfter ==
  ASSUME IInv, NEW t \in Threads, Invoke(t) \/ Step(t), NamesFresh, ~ SameNameRace
  PROVE  NamesFresh'
  <1> DEFINE full == Slots \ EmptySlots
  <1>1. \A u \in Threads \ {t} : (PastLookup(u)' <=> PastLookup(u)) /\ call'[u] = call[u]
    <2>1. \A u \in Threads \ {t} : pc'[u] = pc[u] /\ call'[u] = call[u]
      BY OthersStay DEF IInv
    <2> QED
      BY <2>1 DEF PastLookup, Creating
  <1>2. CASE FillSlot(t)
    <2>1. PICK e \in EmptySlots :
            /\ Slots \ EmptySlots' = full \cup {e}
            /\ dir_entry'[e].d_name = call[t].name
            /\ \A s \in full : dir_entry'[s].d_name = dir_entry[s].d_name
            /\ PastLookup(t) /\ pc'[t] = "table"
      BY <1>2, FilledEntry
    <2>2. \A s \in full : dir_entry[s].d_name # call[t].name
      BY <2>1 DEF NamesFresh
    <2>3. NamesUnique'
      BY <2>1, <2>2 DEF NamesFresh, NamesUnique
    <2>4. ASSUME NEW u \in Threads, NEW s \in Slots \ EmptySlots', PastLookup(u)'
          PROVE  dir_entry'[s].d_name # call'[u].name
      <3>1. u # t /\ PastLookup(u) /\ call'[u] = call[u]
        BY <1>1, <2>1, <2>4 DEF PastLookup, Creating
      <3>2. call[u].name # call[t].name
        BY <2>1, <3>1 DEF SameNameRace
      <3> QED
        BY <2>1, <3>1, <3>2 DEF NamesFresh
    <2> QED
      BY <2>3, <2>4 DEF NamesFresh
  <1>3. CASE ~ FillSlot(t)
    <2>1. dir_entry' = dir_entry
      BY <1>3 DEF Step, Invoke, Lookup, Existing, inode_create, LockNew, FindSlot,
                  LockTable, TryEntry, LockEntry, Close, GetInode, LockInode,
                  FindBlock, TakeBlock, Finish, tables
    <2>2. NamesUnique' /\ EmptySlots' = EmptySlots
      BY <2>1 DEF NamesFresh, NamesUnique, EmptySlots
    <2>3. ASSUME NEW u \in Threads, NEW s \in full, PastLookup(u)'
          PROVE  dir_entry[s].d_name # call'[u].name
      <3>1. CASE u # t
        BY <1>1, <2>3, <3>1 DEF NamesFresh
      <3>2. CASE u = t
        BY <2>3, <3>2, PastLookupAfter DEF NamesFresh
      <3> QED
        BY <3>1, <3>2
    <2> QED
      BY <2>1, <2>2, <2>3 DEF NamesFresh
  <1> QED
    BY <1>2, <1>3

\* What a thread has found missing still is when it enters it, as long as no
\* two threads create the same name: only their race gives two files one name.
THEOREM OnlyRacesDuplicate == Spec => OnlyRacesDuplicateNames
  <1>1. ASSUME IInv, [Next]_vars, NamesFresh, ~ SameNameRace PROVE NamesFresh'
    <2>1. CASE Next
      BY <1>1, <2>1, NamesAfter DEF Next
    <2>2. CASE UNCHANGED vars
      BY <1>1, <2>2 DEF vars, locals, tables, NamesFresh, NamesUnique, PastLookup, Creating,
                        EmptySlots
    <2> QED
      BY <1>1, <2>1, <2>2
  <1>2. IInv /\ [Next]_vars => [NamesFresh /\ ~ SameNameRace => NamesFresh']_vars
    BY <1>1
  <1> QED
    BY <1>2, Invariance, PTL DEF Spec, OnlyRacesDuplicateNames
=============================================================================
