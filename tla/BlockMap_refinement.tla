-------------------------- MODULE BlockMap_refinement --------------------------
(***************************************************************************)
(* Files of direct and indirect blocks implement FileStore: every call of  *)
(* p1 fs/operations.c creates one file, overwrites one range of one file,  *)
(* or leaves all files as they are, for callers that do not truncate, and  *)
(* outgrow the direct blocks by one block first.                           *)
(***************************************************************************)
EXTENDS BlockMap_proofs

\* The cell p of the file of that map.
CellIn(map, data, p) == data[BlockIn(map, data, p \div BLOCK_SIZE)][p % BLOCK_SIZE]

-----------------------------------------------------------------------------
(***************************************************************************)
(* What a write leaves in the blocks.                                      *)
(***************************************************************************)

\* What a cell of the l-th block holds when v is written over from .. to - 1.
Over(was, l, c, from, to, v) == IF l * BLOCK_SIZE + c \in from .. to - 1 THEN v ELSE was

\* The copy has written the blocks first .. j - 1 of the file, and no other.
Reached(d, g, first, j, from, to, v) ==
  /\ d.map = g.map /\ d.ind = g.ind
  /\ \A l \in first .. j - 1 :
       /\ BlockIn(g.map, g.data, l) \in Blocks
       /\ \A c \in Cells : d.data[BlockIn(g.map, g.data, l)][c] =
            Over(g.data[BlockIn(g.map, g.data, l)][c], l, c, from, to, v)
  /\ \A b \in Blocks : (\A l \in first .. j - 1 : b # BlockIn(g.map, g.data, l))
                         => d.data[b] = g.data[b]

\* It has come to the k-th block, or stopped before at one the file does not have.
CameTo(d, g, first, k, from, to, v) ==
  \E j \in first .. k :
    /\ Reached(d, g, first, j, from, to, v)
    /\ d.stop = "no" => j = k
    /\ d.stop # "no" => j < k /\ BlockIn(g.map, g.data, j) \notin Blocks

LEMMA CopyComesTo ==
  ASSUME NEW g \in GrowState, NEW m \in Nat, Whole(g, m), NEW d \in CopyState,
         NEW first \in Nat, NEW k \in Nat, first <= k, k < m,
         NEW from, NEW to, NEW v \in Data, CameTo(d, g, first, k, from, to, v)
  PROVE  CameTo(Copy(d, k, from, to, v), g, first, k + 1, from, to, v)
  <1> DEFINE e     == Copy(d, k, from, to, v)
             b     == BlockAt(d.map, d.data, d.ind, k)
             cells == [c \in Cells |-> IF k * BLOCK_SIZE + c \in from .. to - 1
                                       THEN v ELSE d.data[b][c]]
             at(l) == BlockIn(g.map, g.data, l)
  <1>1. /\ NDIRECT \in Nat /\ -1 \notin Blocks
        /\ \A l \in first .. k : l \in Spots(m) /\ l # -1 /\ l \in 0 .. m - 1
    BY SizesAssumption DEF Spots, Blocks
  <1>2. PICK j \in first .. k :
          /\ Reached(d, g, first, j, from, to, v)
          /\ d.stop = "no" => j = k
          /\ d.stop # "no" => j < k /\ BlockIn(g.map, g.data, j) \notin Blocks
    BY DEF CameTo
  <1>3. k \in first .. k + 1 /\ k + 1 \in first .. k + 1 /\ j \in first .. k + 1
    BY <1>2
  <1>4. CASE d.stop # "no"
    <2>1. e = d
      BY <1>4 DEF Copy
    <2> HIDE DEF e, b, cells, at
    <2>2. j < k + 1
      BY <1>2, <1>4
    <2>3. CameTo(e, g, first, k + 1, from, to, v)
      BY <1>2, <1>3, <1>4, <2>1, <2>2 DEF CameTo
    <2> QED
      BY <2>3 DEF e
  <1>5. CASE d.stop = "no"
    <2>1. Reached(d, g, first, k, from, to, v)
      BY <1>2, <1>5
    <2>2. b = at(k)
      <3>1. CASE k < NDIRECT
        <4>1. d.map[k] = g.map[k]
          BY <2>1 DEF Reached
        <4>2. k # -1 /\ ~ k >= NDIRECT
          BY <3>1, SizesAssumption
        <4>3. b = d.map[k]
          BY <3>1, <4>2 DEF BlockAt
        <4>4. at(k) = g.map[k]
          BY <3>1, <4>2 DEF BlockIn, BlockAt
        <4> QED
          BY <4>1, <4>3, <4>4
      <3>2. CASE ~ k < NDIRECT
        <4>1. -1 \in Spots(m) /\ g.ind \in Blocks /\ g.ind # -1
          BY <1>1, <3>2 DEF Spots, Whole
        <4>2. at(-1) = g.ind
          BY DEF BlockIn, Whole
        <4> HIDE DEF at
        <4>3. \A l \in first .. k - 1 : g.ind # at(l)
          <5>1. \A l \in first .. k - 1 : l \in Spots(m) /\ l # -1
            BY <1>1
          <5> QED
            BY <4>1, <4>2, <5>1 DEF Whole, at
        <4>4. d.data[g.ind] = g.data[g.ind]
          BY <2>1, <4>1, <4>3 DEF Reached, at
        <4>5. b = d.data[g.ind][k - NDIRECT]
          BY <1>1, <2>1, <3>2, <4>1 DEF BlockAt, Reached
        <4>6. at(k) = g.data[g.ind][k - NDIRECT]
          BY <1>1, <3>2, <4>1 DEF BlockIn, BlockAt, Whole, at
        <4> QED
          BY <4>4, <4>5, <4>6
      <3> QED
        BY <3>1, <3>2
    <2> HIDE DEF b
    <2>3. b # 0
      <3>1. k \in Spots(m)
        BY <1>1
      <3> QED
        BY <2>2, <3>1 DEF Whole
    <2>4. CASE b = -2 \/ b \notin Blocks
      <3>1. \E stop \in {"crash", "error"} : e = [d EXCEPT !.stop = stop]
        BY <1>5, <2>4 DEF Copy, b
      <3> HIDE DEF e
      <3>2. e.map = d.map /\ e.ind = d.ind /\ e.data = d.data /\ e.stop # "no"
        BY <3>1 DEF CopyState
      <3>3. Reached(e, g, first, k, from, to, v) /\ k < k + 1
        BY <2>1, <3>2 DEF Reached
      <3>4. at(k) \notin Blocks
        BY <2>2, <2>4, SizesAssumption DEF Blocks
      <3>5. CameTo(e, g, first, k + 1, from, to, v)
        BY <1>3, <3>2, <3>3, <3>4 DEF CameTo
      <3> QED
        BY <3>5 DEF e
    <2>5. CASE b # -2 /\ b \in Blocks
      <3>1. e = [d EXCEPT !.data = [d.data EXCEPT ![b] = cells]]
        BY <1>5, <2>3, <2>5 DEF Copy, CopyState, b
      <3> HIDE DEF e, cells
      <3>2. /\ e.map = d.map /\ e.ind = d.ind /\ e.stop = "no" /\ e.data[b] = cells
            /\ \A c \in Blocks : c # b => e.data[c] = d.data[c]
        BY <1>5, <2>5, <3>1 DEF CopyState, BlockCells
      <3>3. \A l \in first .. k : l = k \/ l \in first .. k - 1
        OBVIOUS
      <3>4. \A l \in first .. k - 1 : at(l) # b
        <4>1. \A l \in first .. k - 1 : l \in Spots(m) /\ l # k
          BY <1>1
        <4> QED
          BY <1>1, <2>2, <2>5, <4>1 DEF Whole
      <3> HIDE DEF at
      <3>5. d.data[b] = g.data[b]
        BY <2>1, <2>5, <3>4 DEF Reached, at
      <3>6. ASSUME NEW l \in first .. k
            PROVE  /\ at(l) \in Blocks
                   /\ \A c \in Cells : e.data[at(l)][c] = Over(g.data[at(l)][c], l, c, from, to, v)
        <4>1. CASE l = k
          <5>1. \A c \in Cells : cells[c] = Over(d.data[b][c], k, c, from, to, v)
            BY DEF cells, Over
          <5> QED
            BY <2>2, <2>5, <3>2, <3>5, <4>1, <5>1
        <4>2. CASE l \in first .. k - 1
          <5>1. at(l) \in Blocks /\ at(l) # b
            BY <2>1, <3>4, <4>2 DEF Reached, at
          <5> QED
            BY <2>1, <3>2, <4>2, <5>1 DEF Reached, at
        <4> QED
          BY <3>3, <4>1, <4>2
      <3>7. ASSUME NEW c \in Blocks, \A l \in first .. k : c # at(l) PROVE e.data[c] = g.data[c]
        <4>1. c # b /\ \A l \in first .. k - 1 : c # at(l)
          BY <1>3, <2>2, <3>7
        <4> QED
          BY <2>1, <3>2, <4>1 DEF Reached, at
      <3>8. (k + 1) - 1 = k
        OBVIOUS
      <3>9. Reached(e, g, first, k + 1, from, to, v)
        BY <2>1, <3>2, <3>6, <3>7, <3>8 DEF Reached, at
      <3>10. CameTo(e, g, first, k + 1, from, to, v)
        BY <1>3, <3>2, <3>9 DEF CameTo
      <3> QED
        BY <3>10 DEF e
    <2> QED
      BY <2>4, <2>5
  <1> QED
    BY <1>4, <1>5

\* All the turns of the copy.
LEMMA CopiedComesTo ==
  ASSUME NEW g \in GrowState, ~ g.fault, NEW m \in Nat, Whole(g, m),
         NEW from \in Nat, NEW to \in Nat, NEW v \in Data, BlocksOf(to) <= m
  PROVE  CameTo(Copied(g, from, to, v), g, from \div BLOCK_SIZE,
                from \div BLOCK_SIZE + Turns(from \div BLOCK_SIZE, BlocksOf(to)), from, to, v)
  <1> DEFINE first == from \div BLOCK_SIZE
             turns == Turns(first, BlocksOf(to))
  <1>1. first \in Nat /\ BlocksOf(to) \in Nat /\ first = from \div BLOCK_SIZE
    BY Division, BlocksEnough
  <1>2. turns \in Nat /\ \A n \in Nat : n < turns => first + n < m
    BY <1>1 DEF Turns
  <1>3. Uncopied(g) \in CopyState
    BY DEF Uncopied, GrowState, CopyState
  <1>4. PICK turn \in [Nat -> CopyState] :
          /\ turn[0] = Uncopied(g)
          /\ \A n \in Nat : turn[n + 1] = Copy(turn[n], first + n, from, to, v)
          /\ Copied(g, from, to, v) = turn[turns]
    <2> HIDE DEF first
    <2>1. \E turn : CopyTurns(turn, g, first, from, to, v)
      BY <1>1, <1>3, CopyLoop
    <2> QED
      BY <2>1 DEF CopyTurns
  <1> HIDE DEF first, turns
  <1> DEFINE Good(n) == CameTo(turn[n], g, first, first + n, from, to, v)
             good == {n \in Nat : n <= turns => Good(n)}
  <1>5. Good(0)
    <2>1. first .. first - 1 = {} /\ first \in first .. first + 0 /\ first = first + 0
      BY <1>1
    <2>2. turn[0].map = g.map /\ turn[0].ind = g.ind /\ turn[0].data = g.data /\ turn[0].stop = "no"
      BY <1>4 DEF Uncopied
    <2>3. Reached(turn[0], g, first, first, from, to, v)
      BY <2>1, <2>2 DEF Reached
    <2> QED
      BY <2>1, <2>2, <2>3 DEF CameTo
  <1>6. ASSUME NEW n \in Nat, n < turns, Good(n) PROVE Good(n + 1)
    <2>1. /\ turn[n] \in CopyState /\ first + n \in Nat /\ first <= first + n /\ first + n < m
          /\ first + (n + 1) = (first + n) + 1
          /\ turn[n + 1] = Copy(turn[n], first + n, from, to, v)
      BY <1>1, <1>2, <1>4, <1>6
    <2>2. CameTo(Copy(turn[n], first + n, from, to, v), g, first, (first + n) + 1, from, to, v)
      BY <1>1, <1>6, <2>1, CopyComesTo
    <2> QED
      BY <2>1, <2>2
  <1> HIDE DEF Good
  <1>7. 0 \in good
    BY <1>5
  <1>8. ASSUME NEW n \in Nat, n \in good PROVE n + 1 \in good
    BY <1>2, <1>6, <1>8
  <1> HIDE DEF good
  <1>9. \A n \in Nat : n \in good
    BY <1>7, <1>8, EveryTurn
  <1>10. Good(turns)
    BY <1>2, <1>9 DEF good
  <1> QED
    BY <1>4, <1>10 DEF Good, first, turns

\* What a copy that came to a block has made of a cell of the file.
LEMMA CellReached ==
  ASSUME NEW g, NEW d, NEW m \in Nat, Whole(g, m), NEW first \in Nat, NEW j \in first .. m,
         NEW from, NEW to, NEW v, Reached(d, g, first, j, from, to, v),
         NEW p \in Nat, p \div BLOCK_SIZE < m, BlockIn(g.map, g.data, p \div BLOCK_SIZE) \in Blocks
  PROVE  CellIn(g.map, d.data, p) =
           IF p \div BLOCK_SIZE \in first .. j - 1 /\ p \in from .. to - 1
           THEN v ELSE CellIn(g.map, g.data, p)
  <1>1. PICK k \in 0 .. m - 1 : k = p \div BLOCK_SIZE
    BY CellOfBlock
  <1>2. PICK c \in Cells : c = p % BLOCK_SIZE /\ p = k * BLOCK_SIZE + c
    BY <1>1, CellOfBlock
  <1>3. -1 \notin Blocks /\ \A l \in 0 .. m - 1 : l \in Spots(m)
    BY SizesAssumption DEF Spots, Blocks
  <1>4. \A l \in first .. j - 1 : l \in 0 .. m - 1
    OBVIOUS
  <1>5. BlockIn(g.map, d.data, k) = BlockIn(g.map, g.data, k)
    <2>1. \A b \in Blocks : (\A l \in 0 .. m - 1 : b # BlockIn(g.map, g.data, l))
                              => d.data[b] = g.data[b]
      BY <1>4 DEF Reached
    <2> QED
      BY <1>3, <2>1, MapSurvives
  <1>6. PICK b \in Blocks : b = BlockIn(g.map, g.data, k)
    BY <1>1
  <1>7. CellIn(g.map, d.data, p) = d.data[b][c] /\ CellIn(g.map, g.data, p) = g.data[b][c]
    BY <1>1, <1>2, <1>5, <1>6 DEF CellIn
  <1>8. CASE k \in first .. j - 1
    BY <1>1, <1>2, <1>6, <1>7, <1>8 DEF Reached, Over
  <1>9. CASE k \notin first .. j - 1
    <2>1. \A l \in first .. j - 1 : b # BlockIn(g.map, g.data, l)
      BY <1>3, <1>4, <1>6, <1>9 DEF Whole
    <2> QED
      BY <1>1, <1>7, <1>9, <2>1 DEF Reached
  <1> QED
    BY <1>8, <1>9


\* A write in the file f puts v in its place, up to its end or not at all, keeps
\* the other bytes f had, and all those of the other files.
LEMMA WrittenBytes ==
  ASSUME SInv, NEW f \in Owners, NEW from \in Nat, from = BlocksOf(inode_table[f].i_size),
         NEW to \in 0 .. NDIRECT + BLOCK_SIZE, to <= NDIRECT + 1 \/ from > NDIRECT,
         NEW offset \in 0 .. inode_table[f].i_size, NEW end \in Nat, to = BlocksOf(end),
         NEW v \in Data, NEW g, g = Grown(inode_table[f], to),
         NEW d, d = Copied(g, offset, end, v)
  PROVE  /\ \E stop \in {offset, end} : \A p \in 0 .. inode_table[f].i_size - 1 :
              CellIn(g.map, d.data, p) =
                IF p \in offset .. stop - 1 THEN v
                ELSE CellIn(inode_table[f].i_data_blocks, fs_data, p)
         /\ d.stop = "no" =>
              /\ \A p \in offset .. end - 1 : CellIn(g.map, d.data, p) = v
              /\ \A p \in 0 .. inode_table[f].i_size - 1 : p \notin offset .. end - 1 =>
                   CellIn(g.map, d.data, p) = CellIn(inode_table[f].i_data_blocks, fs_data, p)
         /\ \A i \in Owners : \A l \in SpotsOf(i) :
              i # f => d.data[BlockOf(i, l)] = fs_data[BlockOf(i, l)]
  <1> DEFINE inode == inode_table[f]
             size  == inode.i_size
             map   == inode.i_data_blocks
             first == offset \div BLOCK_SIZE
             m     == from + Turns(from, to)
             k(p)  == p \div BLOCK_SIZE
  <1>1. size \in Nat /\ offset \in Nat /\ to \in Nat /\ NDIRECT \in Nat /\ offset <= size
    BY BytesHaveBlocks, SizesAssumption
  <1>2. GrownTo(f, g, from, m) /\ m \in Nat /\ from <= m /\ to <= m
    BY GrowsOwn
  <1>3. g \in GrowState /\ Kept(g, map, from)
    BY <1>2 DEF GrownTo
  <1>4. SpotsOf(f) = Spots(from) /\ \A l \in 0 .. from - 1 : l \in Spots(from) /\ l # -1
    BY DEF SpotsOf, Spots
  <1>5. \A l \in 0 .. from - 1 : /\ BlockIn(g.map, g.data, l) = BlockOf(f, l)
                                 /\ BlockOf(f, l) \in Blocks
                                 /\ g.data[BlockOf(f, l)] = fs_data[BlockOf(f, l)]
    BY <1>2, <1>3, <1>4 DEF Kept, BlockOf, GrownTo, SInv, Owned
  <1>6. ASSUME NEW p \in 0 .. size - 1
        PROVE  /\ p \in Nat /\ k(p) \in 0 .. from - 1 /\ BlockIn(g.map, g.data, k(p)) \in Blocks
               /\ CellIn(g.map, g.data, p) = CellIn(map, fs_data, p)
    <2>1. k(p) \in 0 .. from - 1
      BY <1>1, BlockOfCell
    <2> HIDE DEF size
    <2> QED
      BY <1>1, <1>5, <2>1 DEF CellIn, BlockOf
  <1>7. first \in Nat /\ first <= from /\ first = offset \div BLOCK_SIZE
    BY <1>1, FirstBlock
  <1> HIDE DEF first, m
  <1>8. CASE g.fault
    <2>1. d = Uncopied(g)
      BY <1>1, <1>3, <1>8, CopiedNothing
    <2>2. d.data = g.data /\ d.stop = "crash"
      BY <1>8, <2>1 DEF Uncopied
    <2> HIDE DEF size, map, k
    <2>3. \A p \in 0 .. size - 1 : CellIn(g.map, d.data, p) =
            IF p \in offset .. offset - 1 THEN v ELSE CellIn(map, fs_data, p)
      BY <1>1, <1>6, <2>2
    <2>4. \A i \in Owners : \A l \in SpotsOf(i) :
            i # f => d.data[BlockOf(i, l)] = fs_data[BlockOf(i, l)]
      BY <1>2, <2>2 DEF GrownTo
    <2> QED
      BY <2>2, <2>3, <2>4 DEF size, map
  <1>9. CASE ~ g.fault
    <2>1. /\ Whole(g, m)
          /\ \A i \in Owners : \A l \in SpotsOf(i) : \A s \in Spots(m) :
               i # f => BlockOf(i, l) # BlockIn(g.map, g.data, s)
      <3>1. Given(g, Added(from, m))
        BY <1>2, <1>9 DEF GrownTo
      <3> QED
        BY <1>2, <1>3, <3>1, GrownWhole
    <2>2. CameTo(d, g, first, first + Turns(first, to), offset, end, v)
      BY <1>1, <1>2, <1>3, <1>7, <1>9, <2>1, CopiedComesTo
    <2>3. PICK j \in first .. first + Turns(first, to) :
            /\ Reached(d, g, first, j, offset, end, v)
            /\ d.stop = "no" => j = first + Turns(first, to)
            /\ d.stop # "no" => j < first + Turns(first, to) /\ BlockIn(g.map, g.data, j) \notin Blocks
      BY <2>2 DEF CameTo
    <2>4. /\ j \in first .. m /\ j \in Nat
          /\ d.stop = "no" => to <= j
          /\ d.stop # "no" => from <= j
      <3>1. d.stop # "no" => j \notin 0 .. from - 1
        BY <1>5, <2>3
      <3> QED
        BY <1>1, <1>2, <1>7, <2>3, <3>1 DEF Turns
    <2>5. ASSUME NEW p \in offset .. end - 1
          PROVE  /\ p \in Nat /\ k(p) \in Nat /\ first <= k(p) /\ k(p) < to
      <3>1. p \in Nat /\ p \in 0 .. end - 1 /\ offset <= p
        BY <1>1
      <3>2. k(p) \in 0 .. to - 1
        BY <3>1, BlockOfCell
      <3>3. first <= k(p)
        BY <1>1, <1>7, <3>1, LaterBlock
      <3> QED
        BY <1>1, <3>1, <3>2, <3>3
    <2>6. ASSUME NEW p \in Nat, k(p) < m, BlockIn(g.map, g.data, k(p)) \in Blocks
          PROVE  CellIn(g.map, d.data, p) =
                   IF k(p) \in first .. j - 1 /\ p \in offset .. end - 1
                   THEN v ELSE CellIn(g.map, g.data, p)
      BY <1>2, <1>7, <2>1, <2>3, <2>4, <2>6, CellReached
    <2> HIDE DEF size, map, k
    <2>7. \A p \in 0 .. size - 1 : CellIn(g.map, d.data, p) =
            IF p \in offset .. end - 1 THEN v ELSE CellIn(map, fs_data, p)
      <3> SUFFICES ASSUME NEW p \in 0 .. size - 1
                   PROVE  CellIn(g.map, d.data, p) =
                            IF p \in offset .. end - 1 THEN v ELSE CellIn(map, fs_data, p)
        OBVIOUS
      <3>1. /\ CellIn(g.map, d.data, p) = IF k(p) \in first .. j - 1 /\ p \in offset .. end - 1
                                          THEN v ELSE CellIn(g.map, g.data, p)
            /\ k(p) \in 0 .. from - 1 /\ CellIn(g.map, g.data, p) = CellIn(map, fs_data, p)
        BY <1>2, <1>6, <2>6
      <3>2. ASSUME p \in offset .. end - 1 PROVE k(p) \in first .. j - 1
        BY <1>1, <1>7, <2>4, <2>5, <3>1, <3>2
      <3> QED
        BY <3>1, <3>2
    <2>8. ASSUME d.stop = "no", NEW p \in offset .. end - 1 PROVE CellIn(g.map, d.data, p) = v
      <3>1. p \in Nat /\ k(p) \in first .. j - 1 /\ k(p) < m
        BY <1>1, <1>2, <1>7, <2>4, <2>5, <2>8
      <3>2. BlockIn(g.map, g.data, k(p)) \in Blocks
        BY <2>3, <3>1 DEF Reached
      <3> QED
        BY <2>6, <3>1, <3>2
    <2>9. ASSUME NEW i \in Owners, NEW l \in SpotsOf(i), i # f
          PROVE  d.data[BlockOf(i, l)] = fs_data[BlockOf(i, l)]
      <3>1. \A s \in first .. j - 1 : s \in Spots(m)
        BY <1>2, <1>7, <2>4 DEF Spots
      <3>2. BlockOf(i, l) \in Blocks /\ \A s \in first .. j - 1 : BlockOf(i, l) # BlockIn(g.map, g.data, s)
        BY <2>1, <2>9, <3>1 DEF SInv, Owned
      <3>3. g.data[BlockOf(i, l)] = fs_data[BlockOf(i, l)]
        BY <1>2, <2>9 DEF GrownTo
      <3> QED
        BY <2>3, <3>2, <3>3 DEF Reached
    <2> QED
      BY <2>7, <2>8, <2>9 DEF size, map
  <1> QED
    BY <1>8, <1>9


-----------------------------------------------------------------------------
(***************************************************************************)
(* What FileStore sees of the tables.                                      *)
(***************************************************************************)

FullSlots == Slots \ EmptySlots

Dir      == [n \in {dir_entry[s].d_name : s \in FullSlots} |-> find_in_dir(n)]
Contents == [i \in Files |-> [k \in 0 .. inode_table[i].i_size - 1 |-> FileBytes(i)[k + 1]]]

\* The bytes of a file, each in the block the map of the file leads to.
CellOf(i, p) == CellIn(inode_table[i].i_data_blocks, fs_data, p)
BytesOf(i)   == [p \in 0 .. inode_table[i].i_size - 1 |-> CellOf(i, p)]

\* No two entries have the same name.
NamesUnique ==
  /\ \A s \in FullSlots : dir_entry[s].d_name \in Names
  /\ \A s, t \in FullSlots : dir_entry[s].d_name = dir_entry[t].d_name => s = t

\* Every byte of a file was written by a caller.
DataOnly ==
  /\ \A i \in Owners : \A p \in 0 .. inode_table[i].i_size - 1 : CellOf(i, p) \in Data
  /\ \A i \in Files \ Owners : inode_table[i].i_size = 0

FInv == SInv /\ NamesUnique /\ DataOnly

\* The bytes of a file are found block by block.
LEMMA BytesFound ==
  ASSUME FInv, NEW i \in Files, NEW p \in 0 .. inode_table[i].i_size - 1
  PROVE  FileBytes(i)[p + 1] = CellOf(i, p)
  <1>1. PICK f \in Owners : f = i
    <2>1. i \in Owners \/ inode_table[i].i_size = 0
      BY DEF FInv, DataOnly
    <2> QED
      BY <2>1
  <1> DEFINE inode == inode_table[f]
             size  == inode.i_size
             map   == inode.i_data_blocks
  <1>2. inode \in InodeRecord /\ size \in Nat /\ TypeOK
        /\ \A q \in 0 .. size - 1 : BlockFor(inode, q) \in Blocks
    BY BytesHaveBlocks DEF FInv, SInv, TInv
  <1> HIDE DEF size, inode
  <1>3. 0 + size - 1 = size - 1 /\ 0 \in Nat
    BY <1>2
  <1>4. Gathered(inode, 0, size).stop = "no"
    BY <1>2, <1>3, GatheredAll
  <1>5. Gathered(inode, 0, size).bytes = [k \in 1 .. size |-> CellAt(inode, 0 + k - 1)]
    BY <1>2, <1>3, <1>4, GatheredBytes
  <1>6. p + 1 \in 1 .. size /\ 0 + (p + 1) - 1 = p /\ p \in Nat
    BY <1>1, <1>2 DEF size, inode
  <1>7. FileBytes(i)[p + 1] = CellAt(inode, p)
    <2>1. FileBytes(i) = Gathered(inode, 0, size).bytes
      BY <1>1 DEF FileBytes, inode, size
    <2> QED
      BY <1>5, <1>6, <2>1
  <1>8. BlockFor(inode, p) = BlockIn(map, fs_data, p \div BLOCK_SIZE)
    <2>1. p \div BLOCK_SIZE # -1
      BY <1>6, Division
    <2> QED
      BY <2>1 DEF BlockFor, BlockIn
  <1> QED
    BY <1>1, <1>7, <1>8 DEF CellAt, CellOf, CellIn, inode

LEMMA ContentsFound == FInv => Contents = [i \in Files |-> BytesOf(i)]
  BY BytesFound DEF Contents, BytesOf

\* So it is after the next step.
LEMMA ContentsFoundNext == (FInv => Contents = [i \in Files |-> BytesOf(i)])'
  BY ContentsFound, PTL

\* The name of an entry leads to its i-node.
LEMMA FindsEntry ==
  ASSUME FInv, NEW s \in FullSlots
  PROVE  find_in_dir(dir_entry[s].d_name) = dir_entry[s].d_inumber
  <1> DEFINE hits == {r \in Slots \ EmptySlots : dir_entry[r].d_name = dir_entry[s].d_name}
  <1>1. hits = {s}
    BY DEF FInv, NamesUnique, FullSlots
  <1>2. hits \in SUBSET Nat
    BY SizesAssumption DEF Slots
  <1>3. Lowest(hits) = s
    BY <1>1, <1>2, LowestIn
  <1> QED
    BY <1>1, <1>3 DEF find_in_dir

\* So it does after the next step.
LEMMA FindsEntryNext ==
  (FInv => \A s \in FullSlots : find_in_dir(dir_entry[s].d_name) = dir_entry[s].d_inumber)'
  <1>1. FInv => \A s \in FullSlots : find_in_dir(dir_entry[s].d_name) = dir_entry[s].d_inumber
    BY FindsEntry
  <1> QED
    BY <1>1, PTL

\* A name that is not found is the name of no entry.
LEMMA NotFound ==
  ASSUME NEW name, find_in_dir(name) = -1
  PROVE  \A s \in FullSlots : dir_entry[s].d_name # name
  <1> DEFINE hits == {r \in Slots \ EmptySlots : dir_entry[r].d_name = name}
  <1>1. hits \in SUBSET Nat
    BY SizesAssumption DEF Slots
  <1>2. ASSUME hits # {} PROVE FALSE
    <2>1. Lowest(hits) \in hits
      BY <1>1, <1>2, LowestIn
    <2>2. dir_entry[Lowest(hits)].d_inumber # -1
      BY <2>1 DEF EmptySlots
    <2> QED
      BY <1>2, <2>2 DEF find_in_dir
  <1> QED
    BY <1>2 DEF FullSlots

\* FileStore has a file for each of the first m i-nodes, and no other.
LEMMA FilesExist ==
  ASSUME FInv, NEW m \in 0 .. MAX_DIR_ENTRIES, InOrder(m)
  PROVE  Store!Existing = 1 .. m
  <1>1. Store!Existing = {dir_entry[s].d_inumber : s \in FullSlots}
    <2>1. Store!Existing = {find_in_dir(dir_entry[s].d_name) : s \in FullSlots}
      BY DEF Store!Existing, FullSlots
    <2> QED
      BY <2>1, FindsEntry
  <1>2. m \in Nat /\ MAX_DIR_ENTRIES \in Nat
    BY SizesAssumption
  <1>3. \A s \in Slots : s \in Nat /\ (s \in FullSlots <=> s < m)
                         /\ (s < m => dir_entry[s].d_inumber = s + 1)
    BY <1>2 DEF InOrder, FullSlots, EmptySlots, Slots
  <1>4. \A i \in 1 .. m : i - 1 \in Slots /\ i - 1 < m /\ i = (i - 1) + 1
    BY <1>2 DEF Slots
  <1>5. \A s \in FullSlots : s \in Slots
    BY DEF FullSlots
  <1>6. ASSUME NEW i \in 1 .. m PROVE \E s \in FullSlots : dir_entry[s].d_inumber = i
    BY <1>3, <1>4
  <1>7. ASSUME NEW s \in FullSlots PROVE dir_entry[s].d_inumber \in 1 .. m
    BY <1>2, <1>3, <1>5
  <1> QED
    BY <1>1, <1>6, <1>7

\* The directory FileStore sees is a function of the entries.
LEMMA SameEntries ==
  ASSUME dir_entry' = dir_entry
  PROVE  Dir' = Dir /\ (NamesUnique => NamesUnique')
  BY DEF Dir, FullSlots, EmptySlots, find_in_dir, Lowest, NamesUnique

\* Files that keep their bytes are a stuttering step of FileStore.
LEMMA Stutters ==
  ASSUME FInv, FInv', dir_entry' = dir_entry, \A i \in Files : BytesOf(i)' = BytesOf(i)
  PROVE  UNCHANGED Store!vars
  <1>1. Contents' = Contents
    BY ContentsFound, ContentsFoundNext DEF Files, Inodes
  <1> QED
    BY <1>1, SameEntries DEF Store!vars, Dir, Contents, FullSlots

\* So is a call that leaves the tables alone.
LEMMA TablesStutter ==
  ASSUME FInv, SInv', UNCHANGED tables
  PROVE  FInv' /\ UNCHANGED Store!vars
  <1>1. Owners' = Owners
    BY DEF tables, Owners, Taken
  <1>2. \A i \in Files : BytesOf(i)' = BytesOf(i)
    BY DEF tables, BytesOf, CellOf
  <1>3. DataOnly'
    BY <1>1 DEF FInv, DataOnly, tables, CellOf
  <1>4. FInv'
    BY <1>3, SameEntries DEF FInv, tables
  <1> QED
    BY <1>2, <1>4, Stutters DEF tables

-----------------------------------------------------------------------------
(***************************************************************************)
(* A write overwrites a range of one file.                                 *)
(***************************************************************************)

\* A write of v in the file f, from offset up to end.
FileWritten(f, offset, end, v) ==
  LET size == inode_table[f].i_size
      g    == Grown(inode_table[f], BlocksOf(end))
      d    == Copied(g, offset, end, v)
  IN  /\ BlocksOf(end) <= NDIRECT + 1 \/ BlocksOf(size) > NDIRECT
      /\ fs_data' = d.data
      /\ inode_table' = [inode_table EXCEPT ![f] =
           [i_data_blocks |-> g.map,
            i_size |-> IF d.stop = "no" /\ end > size THEN end ELSE size]]
      /\ UNCHANGED <<freeinode_ts, dir_entry>>

LEMMA WriteDoes ==
  ASSUME ~ LargeWrites, SInv, NEW fh \in Handles, NEW v \in Data, NEW n \in Lens,
         tfs_write(fh, v, n), NEW f, f = open_file_table[fh].of_inumber
  PROVE  /\ f \in Owners
         /\ \/ UNCHANGED tables
            \/ \E end \in 1 .. MAX_FILE_SIZE : \E offset \in 0 .. inode_table[f].i_size :
                 offset < end /\ FileWritten(f, offset, end, v)
  <1> DEFINE offset   == open_file_table[fh].of_offset
             inode    == inode_table[f]
             to_write == IF n + offset > MAX_FILE_SIZE THEN MAX_FILE_SIZE - offset ELSE n
             end      == offset + to_write
  <1>1. /\ f \in Owners /\ offset \in 0 .. inode.i_size
        /\ inode.i_size \in 0 .. MAX_FILE_SIZE /\ n \in Nat /\ MAX_FILE_SIZE \in Nat
    <2>1. f \in Owners /\ offset \in 0 .. inode.i_size
      BY HandlesOfOwners DEF tfs_write
    <2>2. inode \in InodeRecord
      BY <2>1, BytesHaveBlocks
    <2> QED
      BY <2>1, <2>2, CallersAssumption, MaxFileSize DEF InodeRecord
  <1> SUFFICES ASSUME ~ UNCHANGED tables
               PROVE  /\ end \in 1 .. MAX_FILE_SIZE /\ offset < end
                      /\ FileWritten(f, offset, end, v)
    BY <1>1
  <1>2. to_write # 0
    BY DEF tfs_write, Hangs
  <1>3. end \in 1 .. MAX_FILE_SIZE /\ offset < end
    BY <1>1, <1>2
  <1>4. FileWritten(f, offset, end, v)
    BY DEF tfs_write, FileWritten, Hangs
  <1> QED
    BY <1>3, <1>4

\* The file f has v in the range written, which ends with the file when the file
\* has grown, and its old bytes elsewhere; the other files are as they were.
BytesWritten(f, offset, stop, v) ==
  /\ \A p \in offset .. stop - 1 : p \in DOMAIN BytesOf(f)' /\ BytesOf(f)'[p] = v
  /\ \A p \in DOMAIN BytesOf(f) \ (offset .. stop - 1) : BytesOf(f)'[p] = BytesOf(f)[p]
  /\ DOMAIN BytesOf(f)' = DOMAIN BytesOf(f) \cup 0 .. stop - 1
  /\ \A i \in Files : i # f => BytesOf(i)' = BytesOf(i)

LEMMA WriteBytes ==
  ASSUME FInv, NEW f \in Owners, NEW end \in 1 .. MAX_FILE_SIZE,
         NEW offset \in 0 .. inode_table[f].i_size, offset < end, NEW v \in Data,
         FileWritten(f, offset, end, v)
  PROVE  \E stop \in offset .. MAX_FILE_SIZE : BytesWritten(f, offset, stop, v)
  <1> DEFINE size == inode_table[f].i_size
             map  == inode_table[f].i_data_blocks
             from == BlocksOf(size)
             to   == BlocksOf(end)
             g    == Grown(inode_table[f], to)
             d    == Copied(g, offset, end, v)
             grew == d.stop = "no" /\ end > size
  <1>1. /\ size \in 0 .. MAX_FILE_SIZE /\ MAX_FILE_SIZE \in Nat /\ offset \in Nat /\ end \in Nat
        /\ offset <= size /\ SInv /\ f \in Inodes /\ f \in Files
    <2>1. inode_table[f] \in InodeRecord
      BY BytesHaveBlocks DEF FInv
    <2> QED
      BY <2>1, MaxFileSize DEF InodeRecord, FInv, Owners, Files
  <1> HIDE DEF size
  <1>2. from \in Nat /\ to \in 0 .. NDIRECT + BLOCK_SIZE
    BY <1>1, BlocksFit, BlocksEnough
  <1>3. /\ \E stop \in {offset, end} : \A p \in 0 .. size - 1 :
              CellIn(g.map, d.data, p) = IF p \in offset .. stop - 1 THEN v ELSE CellOf(f, p)
        /\ d.stop = "no" =>
             /\ \A p \in offset .. end - 1 : CellIn(g.map, d.data, p) = v
             /\ \A p \in 0 .. size - 1 : p \notin offset .. end - 1 =>
                  CellIn(g.map, d.data, p) = CellOf(f, p)
        /\ \A i \in Owners : \A l \in SpotsOf(i) :
             i # f => d.data[BlockOf(i, l)] = fs_data[BlockOf(i, l)]
    <2>1. to <= NDIRECT + 1 \/ from > NDIRECT
      BY DEF FileWritten, size
    <2> HIDE DEF from, to
    <2>2. /\ from = BlocksOf(inode_table[f].i_size) /\ to = BlocksOf(end)
          /\ offset \in 0 .. inode_table[f].i_size
          /\ g = Grown(inode_table[f], to) /\ d = Copied(g, offset, end, v)
      BY DEF from, to, size
    <2> HIDE DEF g, d
    <2> QED
      BY <1>1, <1>2, <2>1, <2>2, WrittenBytes DEF CellOf, size
  <1>4. /\ fs_data' = d.data
        /\ inode_table'[f].i_size = (IF grew THEN end ELSE size)
        /\ inode_table'[f].i_data_blocks = g.map
        /\ \A i \in Files : i # f => inode_table'[i] = inode_table[i]
    <2> HIDE DEF g, d
    <2>1. /\ fs_data' = d.data
          /\ inode_table' = [inode_table EXCEPT ![f] =
               [i_data_blocks |-> g.map, i_size |-> IF grew THEN end ELSE size]]
      BY DEF FileWritten, size, g, d
    <2> QED
      BY <1>1, <2>1 DEF SInv, TInv, TypeOK, Files
  <1> HIDE DEF g, d
  <1> DEFINE new == IF grew THEN end ELSE size
  <1>5. /\ DOMAIN BytesOf(f)' = 0 .. new - 1 /\ DOMAIN BytesOf(f) = 0 .. size - 1
        /\ \A p \in 0 .. new - 1 : BytesOf(f)'[p] = CellIn(g.map, d.data, p)
        /\ \A p \in 0 .. size - 1 : BytesOf(f)[p] = CellOf(f, p)
    <2>1. BytesOf(f)' = [p \in 0 .. new - 1 |-> CellIn(g.map, d.data, p)]
      BY <1>4 DEF BytesOf, CellOf
    <2> HIDE DEF new
    <2>2. BytesOf(f) = [p \in 0 .. size - 1 |-> CellOf(f, p)]
      BY DEF BytesOf, size
    <2> QED
      BY <2>1, <2>2
  <1>6. \A i \in Files : i # f => BytesOf(i)' = BytesOf(i)
    <2> SUFFICES ASSUME NEW i \in Files, i # f PROVE BytesOf(i)' = BytesOf(i)
      OBVIOUS
    <2>1. inode_table'[i] = inode_table[i]
      BY <1>4
    <2>2. ASSUME NEW p \in 0 .. inode_table[i].i_size - 1 PROVE CellOf(i, p)' = CellOf(i, p)
      <3>1. PICK j \in Owners : j = i
        <4>1. i \in Owners \/ inode_table[i].i_size = 0
          BY DEF FInv, DataOnly
        <4> QED
          BY <4>1
      <3>2. inode_table[j].i_size \in Nat /\ p \in 0 .. inode_table[j].i_size - 1
        BY <1>1, <3>1, BytesHaveBlocks
      <3>3. PICK k \in 0 .. BlocksOf(inode_table[j].i_size) - 1 : k = p \div BLOCK_SIZE
        BY <3>2, BlockOfCell
      <3>4. k \in SpotsOf(j)
        BY <3>3 DEF SpotsOf, Spots
      <3>5. BlockIn(inode_table[j].i_data_blocks, d.data, k) = BlockOf(j, k)
        BY <1>1, <1>3, <2>2, <3>1, <3>4, FileKept
      <3>6. d.data[BlockOf(j, k)] = fs_data[BlockOf(j, k)]
        BY <1>3, <2>2, <3>1, <3>4
      <3> QED
        BY <1>4, <2>1, <3>1, <3>3, <3>5, <3>6 DEF CellOf, CellIn, BlockOf
    <2> QED
      BY <2>1, <2>2 DEF BytesOf
  <1>7. CASE d.stop = "no"
    <2>1. end \in offset .. MAX_FILE_SIZE /\ end <= new /\ (new = end \/ new = size) /\ size <= new
      BY <1>1, <1>7
    <2> HIDE DEF new
    <2>2. BytesWritten(f, offset, end, v)
      <3>1. 0 .. new - 1 = (0 .. size - 1) \cup 0 .. end - 1
        BY <1>1, <2>1
      <3>2. \A p \in offset .. end - 1 : p \in 0 .. new - 1
        BY <1>1, <2>1
      <3>3. \A p \in 0 .. size - 1 : p \in 0 .. new - 1
        BY <3>1
      <3> QED
        BY <1>3, <1>5, <1>6, <1>7, <3>1, <3>2, <3>3 DEF BytesWritten
    <2> QED
      BY <2>1, <2>2
  <1>8. CASE d.stop # "no"
    <2>1. new = size
      BY <1>8
    <2> HIDE DEF new
    <2>2. PICK stop \in {offset, end} : \A p \in 0 .. size - 1 :
             CellIn(g.map, d.data, p) = IF p \in offset .. stop - 1 THEN v ELSE CellOf(f, p)
      BY <1>3
    <2> DEFINE last == IF stop <= size THEN stop ELSE size
    <2>3. last \in offset .. MAX_FILE_SIZE /\ last <= size /\ stop \in Nat
          /\ \A p \in 0 .. size - 1 : p \in offset .. stop - 1 <=> p \in offset .. last - 1
      BY <1>1
    <2> HIDE DEF last
    <2>4. BytesWritten(f, offset, last, v)
      <3>1. 0 .. size - 1 = (0 .. size - 1) \cup 0 .. last - 1
        BY <1>1, <2>3
      <3>2. \A p \in offset .. last - 1 : p \in 0 .. size - 1
        BY <1>1, <2>3
      <3> QED
        BY <1>5, <1>6, <2>1, <2>2, <2>3, <3>1, <3>2 DEF BytesWritten
    <2> QED
      BY <2>3, <2>4
  <1> QED
    BY <1>7, <1>8


\* So every byte is one that a caller wrote.
LEMMA WriteKeepsData ==
  ASSUME FInv, SInv', NEW f \in Owners, NEW v \in Data,
         NEW offset \in 0 .. inode_table[f].i_size, NEW stop \in Nat, NEW end, FileWritten(f, offset, end, v), BytesWritten(f, offset, stop, v)
  PROVE  FInv'
  <1>1. f \in Inodes /\ \A i \in Files : i # f => inode_table'[i] = inode_table[i]
    BY DEF FileWritten, FInv, SInv, TInv, TypeOK, Owners, Files
  <1>2. Owners' = Owners /\ dir_entry' = dir_entry
    BY DEF FileWritten, Owners, Taken
  <1>3. ASSUME NEW i \in Owners, NEW p \in 0 .. inode_table'[i].i_size - 1
        PROVE  CellOf(i, p)' \in Data
    <2>1. p \in DOMAIN BytesOf(i)' /\ BytesOf(i)'[p] = CellOf(i, p)'
      BY DEF BytesOf
    <2>2. \A j \in Owners : \A q \in DOMAIN BytesOf(j) : BytesOf(j)[q] \in Data
      BY DEF FInv, DataOnly, BytesOf
    <2>3. CASE i = f
      <3>1. CASE p \in offset .. stop - 1
        BY <2>1, <2>3, <3>1 DEF BytesWritten
      <3>2. CASE p \notin offset .. stop - 1
        <4>1. ASSUME p \notin DOMAIN BytesOf(f) PROVE FALSE
          <5>1. p \in 0 .. stop - 1 /\ p \in Int /\ 0 <= p /\ p <= stop - 1 /\ p < offset
            BY <2>1, <2>3, <3>2, <4>1 DEF BytesWritten
          <5>2. DOMAIN BytesOf(f) = 0 .. inode_table[f].i_size - 1 /\ inode_table[f].i_size \in Nat
            BY BytesHaveBlocks DEF BytesOf, FInv
          <5> QED
            BY <4>1, <5>1, <5>2
        <4> QED
          BY <2>1, <2>2, <2>3, <3>2, <4>1 DEF BytesWritten
      <3> QED
        BY <3>1, <3>2
    <2>4. CASE i # f
      BY <2>1, <2>2, <2>4 DEF BytesWritten, Owners
    <2> QED
      BY <2>3, <2>4
  <1>4. DataOnly'
    BY <1>1, <1>2, <1>3 DEF DataOnly, FInv
  <1> QED
    BY <1>2, <1>4, SameEntries DEF FInv


\* The files with names have the i-nodes of the directory.
LEMMA HandlesExist ==
  ASSUME FInv, NEW fh \in Handles, Issued(fh)
  PROVE  open_file_table[fh].of_inumber \in Store!Existing
  <1>1. PICK m \in 0 .. MAX_DIR_ENTRIES : InOrder(m)
    BY DEF FInv, SInv, TInv, DirectoryInOrder
  <1>2. open_file_table[fh].of_inumber \in 1 .. m
    BY <1>1 DEF InOrder, Issued, ROOT_DIR_INUM
  <1> QED
    BY <1>1, <1>2, FilesExist

LEMMA WriteRefines ==
  ASSUME ~ LargeWrites, FInv, SInv', NEW fh \in Handles, NEW v \in Data, NEW n \in Lens,
         tfs_write(fh, v, n)
  PROVE  FInv' /\ [Store!Next]_(Store!vars)
  <1>1. PICK f : f = open_file_table[fh].of_inumber
    OBVIOUS
  <1>2. /\ f \in Owners
        /\ \/ UNCHANGED tables
           \/ \E end \in 1 .. MAX_FILE_SIZE : \E offset \in 0 .. inode_table[f].i_size :
                offset < end /\ FileWritten(f, offset, end, v)
    BY <1>1, WriteDoes DEF FInv
  <1>3. CASE UNCHANGED tables
    BY <1>3, TablesStutter
  <1>4. ASSUME NEW end \in 1 .. MAX_FILE_SIZE, NEW offset \in 0 .. inode_table[f].i_size,
               offset < end, FileWritten(f, offset, end, v)
        PROVE  FInv' /\ [Store!Next]_(Store!vars)
    <2>1. PICK stop \in offset .. MAX_FILE_SIZE : BytesWritten(f, offset, stop, v)
      BY <1>2, <1>4, WriteBytes
    <2>2. /\ MAX_FILE_SIZE \in Nat /\ offset \in Nat /\ stop \in Nat /\ f \in Files
          /\ dir_entry' = dir_entry /\ DOMAIN BytesOf(f) = 0 .. inode_table[f].i_size - 1
      BY <1>2, <1>4, <2>1, MaxFileSize, BytesHaveBlocks
      DEF FInv, Owners, FileWritten, BytesOf
    <2>3. FInv'
      BY <1>2, <1>4, <2>1, <2>2, WriteKeepsData
    <2> DEFINE old == BytesOf(f)
               new == BytesOf(f)'
    <2>4. CASE new = old
      <3>1. \A i \in Files : BytesOf(i)' = BytesOf(i)
        BY <2>1, <2>4 DEF BytesWritten
      <3> QED
        BY <2>2, <2>3, <3>1, Stutters
    <2>5. CASE new # old
      <3>1. /\ Contents[f] = old /\ Contents'[f] = new
            /\ Contents' = [Contents EXCEPT ![f] = new]
        <4>1. Contents = [i \in Files |-> BytesOf(i)] /\ Contents' = [i \in Files |-> BytesOf(i)']
          BY <2>3, ContentsFound, ContentsFoundNext DEF Files, Inodes
        <4> QED
          BY <2>1, <2>2, <4>1 DEF BytesWritten
      <3>2. /\ \A k \in DOMAIN new : new[k] \in Data
            /\ new = [k \in DOMAIN new |-> new[k]]
        <4>1. f \in Owners'
          BY <1>2, <1>4 DEF FileWritten, Owners, Taken
        <4> QED
          BY <2>3, <4>1 DEF FInv, DataOnly, BytesOf
      <3> HIDE DEF old, new
      <3>3. /\ \A p \in offset .. stop - 1 : p \in DOMAIN new /\ new[p] = v
            /\ \A p \in DOMAIN old \ (offset .. stop - 1) : new[p] = old[p]
            /\ DOMAIN new = DOMAIN old \cup 0 .. stop - 1
        BY <2>1 DEF BytesWritten, old, new
      <3>4. offset < stop
        <4> SUFFICES ASSUME ~ offset < stop PROVE FALSE
          OBVIOUS
        <4>1. offset .. stop - 1 = {} /\ 0 .. stop - 1 \subseteq DOMAIN old
          <5>1. inode_table[f].i_size \in Nat
            BY <1>2, BytesHaveBlocks DEF FInv
          <5> QED
            BY <2>2, <5>1 DEF old
        <4>2. DOMAIN new = DOMAIN old /\ \A p \in DOMAIN old : new[p] = old[p]
          BY <3>3, <4>1
        <4>3. old = [k \in DOMAIN old |-> old[k]]
          BY DEF old, BytesOf
        <4> QED
          BY <2>5, <3>2, <4>2, <4>3
      <3>5. /\ stop - 1 \in 0 .. MAX_FILE_SIZE - 1 /\ offset \in 0 .. stop - 1
            /\ (stop - 1) + 1 = stop
        BY <2>2, <3>4
      <3>6. Store!Overwritten(old, new, offset, stop - 1, v)
        BY <3>2, <3>3 DEF Store!Overwritten
      <3>7. Store!Overwrite(f)
        BY <2>2, <2>5, <3>1, <3>5, <3>6, SameEntries
        DEF Store!Overwrite, Contents, Dir, FullSlots
      <3>8. f \in Store!Existing
        BY <1>1, HandlesExist DEF tfs_write
      <3> QED
        BY <2>3, <3>7, <3>8 DEF Store!Next
    <2> QED
      BY <2>3, <2>4, <2>5
  <1> QED
    BY <1>2, <1>3, <1>4

-----------------------------------------------------------------------------
(***************************************************************************)
(* The creation of a file, and the other calls.                            *)
(***************************************************************************)

\* The i-node of a new file had no bytes and has none.
LEMMA NewFileIsEmpty ==
  ASSUME FInv, NEW inum \in Files, freeinode_ts[inum] = "FREE",
         freeinode_ts' = [freeinode_ts EXCEPT ![inum] = "TAKEN"],
         inode_table' = [inode_table EXCEPT ![inum] = NewInode], fs_data' = fs_data
  PROVE  DataOnly' /\ \A i \in Files : BytesOf(i)' = BytesOf(i)
  <1>1. /\ inum \in Inodes /\ inode_table'[inum].i_size = 0
        /\ \A i \in Files : i # inum => inode_table'[i] = inode_table[i]
    BY NewInodeTyped DEF FInv, SInv, TInv, TypeOK, Files
  <1>2. Owners' = Owners \cup {inum} /\ inum \notin Owners
    BY <1>1 DEF FInv, SInv, TInv, TypeOK, Owners, Files, Taken
  <1>3. inode_table[inum].i_size = 0
    BY <1>2 DEF FInv, DataOnly
  <1>4. 0 .. 0 - 1 = {}
    OBVIOUS
  <1>5. \A i \in Files : BytesOf(i)' = BytesOf(i)
    <2> SUFFICES ASSUME NEW i \in Files PROVE BytesOf(i)' = BytesOf(i)
      OBVIOUS
    <2>1. CASE i = inum
      BY <1>1, <1>3, <1>4, <2>1 DEF BytesOf
    <2>2. CASE i # inum
      BY <1>1, <2>2 DEF BytesOf, CellOf
    <2> QED
      BY <2>1, <2>2
  <1>6. \A i \in Owners : /\ inode_table'[i] = inode_table[i]
                          /\ \A p : CellOf(i, p)' = CellOf(i, p)
    <2> SUFFICES ASSUME NEW i \in Owners
                 PROVE  inode_table'[i] = inode_table[i] /\ \A p : CellOf(i, p)' = CellOf(i, p)
      OBVIOUS
    <2>1. inode_table'[i] = inode_table[i]
      BY <1>1, <1>2 DEF Owners
    <2> QED
      BY <2>1 DEF CellOf
  <1>7. DataOnly'
    BY <1>1, <1>2, <1>4, <1>6 DEF FInv, DataOnly
  <1> QED
    BY <1>5, <1>7

LEMMA OpenCreatedRefines ==
  ASSUME FInv, SInv', Running, NEW m \in 0 .. MAX_DIR_ENTRIES, InOrder(m),
         NEW name \in Names, find_in_dir(name) = -1, OpenCreated(name)
  PROVE  FInv' /\ [Store!Next]_(Store!vars)
  <1> DEFINE inum == Lowest(Free(freeinode_ts))
             slot == Lowest(EmptySlots)
  <1>1. /\ inum = m + 1 /\ inum \in Inodes /\ m \in Nat
        /\ EmptySlots # {} => slot = m /\ m \in Slots
    BY NextFree, FilesHaveInodes DEF FInv, SInv, TInv
  <1>2. inum \in Files /\ freeinode_ts[inum] = "FREE"
    BY <1>1 DEF Files, ROOT_DIR_INUM, InOrder
  <1>3. CASE UNCHANGED tables
    BY <1>3, TablesStutter
  <1>4. CASE /\ freeinode_ts' = [freeinode_ts EXCEPT ![inum] = "TAKEN"]
             /\ inode_table' = [inode_table EXCEPT ![inum] = NewInode]
             /\ UNCHANGED fs_data
             /\ \/ UNCHANGED dir_entry
                \/ /\ EmptySlots # {}
                   /\ dir_entry' = [dir_entry EXCEPT ![slot] = [d_inumber |-> inum, d_name |-> name]]
    <2> HIDE DEF inum, slot
    <2>1. DataOnly' /\ \A i \in Files : BytesOf(i)' = BytesOf(i)
      BY <1>2, <1>4, NewFileIsEmpty
    <2>2. CASE UNCHANGED dir_entry
      <3>1. FInv'
        BY <2>1, <2>2, SameEntries DEF FInv
      <3> QED
        BY <2>1, <2>2, <3>1, Stutters
    <2>3. CASE EmptySlots # {} /\ dir_entry' = [dir_entry EXCEPT ![slot] = [d_inumber |-> inum, d_name |-> name]]
      <3>1. /\ slot \in Slots /\ slot \in EmptySlots
            /\ dir_entry'[slot].d_inumber = inum /\ dir_entry'[slot].d_name = name
            /\ \A s \in Slots : s # slot => dir_entry'[s] = dir_entry[s]
        <4>1. ~ m < m
          BY <1>1
        <4> QED
          BY <1>1, <2>3, <4>1 DEF FInv, SInv, TInv, TypeOK, InOrder, EmptySlots
      <3>2. FullSlots' = FullSlots \cup {slot} /\ slot \notin FullSlots
            /\ \A s \in FullSlots : dir_entry'[s] = dir_entry[s]
        <4>1. inum # -1
          BY <1>1
        <4> QED
          BY <3>1, <4>1 DEF FullSlots, EmptySlots
      <3>3. \A s \in FullSlots : dir_entry[s].d_name # name
        BY NotFound
      <3>4. FInv'
        <4>1. NamesUnique'
          BY <3>1, <3>2, <3>3 DEF FInv, NamesUnique
        <4> QED
          BY <2>1, <4>1 DEF FInv
      <3>5. \A s \in FullSlots' : find_in_dir(dir_entry[s].d_name)' = dir_entry'[s].d_inumber
        BY <3>4, FindsEntryNext
      <3>6. Dir' = [n \in DOMAIN Dir \cup {name} |-> IF n = name THEN inum ELSE Dir[n]]
        <4>1. DOMAIN Dir' = DOMAIN Dir \cup {name}
          BY <3>1, <3>2 DEF Dir
        <4>2. ASSUME NEW n \in DOMAIN Dir'
              PROVE  Dir'[n] = IF n = name THEN inum ELSE Dir[n]
          BY <3>1, <3>2, <3>3, <3>5, FindsEntry DEF Dir
        <4>3. Dir' = [n \in DOMAIN Dir' |-> Dir'[n]]
          BY DEF Dir
        <4> QED
          BY <4>1, <4>2, <4>3
      <3>7. name \notin DOMAIN Dir
        BY <3>3 DEF Dir
      <3>8. inum \notin Store!Existing
        <4>1. inum \notin 1 .. m
          BY <1>1
        <4> QED
          BY <4>1, FilesExist
      <3>9. Contents' = Contents
        BY <2>1, <3>4, ContentsFound, ContentsFoundNext DEF Files, Inodes
      <3>10. PICK file \in Files : file = inum
        BY <1>2
      <3>11. Store!Create(name, file)
        BY <3>6, <3>7, <3>8, <3>9, <3>10 DEF Store!Create, Dir, Contents, FullSlots
      <3> QED
        BY <3>4, <3>11 DEF Store!Next
    <2> QED
      BY <1>4, <2>2, <2>3
  <1> QED
    BY <1>3, <1>4 DEF OpenCreated, tables

\* Every call is a step of FileStore or leaves all files alone.
LEMMA NextRefines ==
  ASSUME NoTruncation, ~ LargeWrites, FInv, SInv', Next
  PROVE  FInv' /\ [Store!Next]_(Store!vars)
  <1>1. CASE \E name \in Names, flags \in SUBSET Flags : tfs_open(name, flags)
    <2>1. PICK name \in Names, flags \in SUBSET Flags : tfs_open(name, flags)
      BY <1>1
    <2>2. Running /\ TypeOK /\ TInv
      BY <2>1 DEF tfs_open, FInv, SInv, TInv
    <2>3. PICK m \in 0 .. MAX_DIR_ENTRIES : InOrder(m)
      BY <2>2 DEF TInv, DirectoryInOrder
    <2>4. CASE find_in_dir(name) >= 0 /\ OpenExisting(find_in_dir(name), flags)
      <3>1. find_in_dir(name) \in 1 .. m
        <4>1. find_in_dir(name) = -1 \/ find_in_dir(name) \in 1 .. m
          BY <2>2, <2>3, FoundInDir
        <4> QED
          BY <2>4, <4>1
      <3>2. UNCHANGED tables
        BY <2>2, <2>3, <2>4, <3>1, OpenExistingTInv
      <3> QED
        BY <3>2, TablesStutter
    <2>5. CASE find_in_dir(name) = -1 /\ OpenCreated(name)
      BY <2>2, <2>3, <2>5, OpenCreatedRefines
    <2>6. CASE UNCHANGED tables
      BY <2>6, TablesStutter
    <2> QED
      BY <2>1, <2>4, <2>5, <2>6 DEF tfs_open
  <1>2. CASE \E fh \in Handles, v \in Data, n \in Lens : tfs_write(fh, v, n)
    BY <1>2, WriteRefines
  <1>3. CASE UNCHANGED tables
    BY <1>3, TablesStutter
  <1>4. (\E fh \in Handles : tfs_close(fh)) => UNCHANGED tables
    BY DEF tfs_close
  <1>5. (\E fh \in Handles, len \in Lens : tfs_read(fh, len)) => UNCHANGED tables
    BY DEF tfs_read
  <1>6. (\E name \in Names : tfs_copy_to_external_fs(name)) => UNCHANGED tables
    BY DEF tfs_copy_to_external_fs
  <1>7. (\E call \in {"close", "write", "read"} : BadHandle(call)) => UNCHANGED tables
    BY DEF BadHandle
  <1> QED
    BY <1>1, <1>2, <1>3, <1>4, <1>5, <1>6, <1>7 DEF Next

\* tfs_init leaves a store without files.
LEMMA InitRefines ==
  ASSUME Init
  PROVE  FInv /\ Store!Init
  <1>1. FullSlots = {}
    BY DEF Init, FullSlots, EmptySlots
  <1>2. Owners = {} /\ \A i \in Files : inode_table[i].i_size = 0
    BY DEF Init, Owners, Files, Taken, ROOT_DIR_INUM
  <1>3. FInv
    BY <1>1, <1>2, InitSInv DEF FInv, NamesUnique, DataOnly
  <1>4. Dir = Store!Nothing
    BY <1>1 DEF Dir, Store!Nothing
  <1>5. Contents = [i \in Files |-> Store!Nothing]
    <2>1. 0 .. 0 - 1 = {}
      OBVIOUS
    <2>2. \A i \in Files : BytesOf(i) = Store!Nothing
      BY <1>2, <2>1 DEF BytesOf, Store!Nothing
    <2> QED
      BY <1>3, <2>2, ContentsFound
  <1> QED
    BY <1>3, <1>4, <1>5 DEF Store!Init, Dir, Contents, FullSlots

\* The i-nodes, direct and indirect blocks and directory of p1 fs/state.c
\* implement a store of independent files, for callers that do not truncate, and
\* outgrow the direct blocks by one block first: no call of p1
\* fs/operations.c touches a byte of a file other than the one it has open, nor
\* reads an index or unwritten memory as a byte, even a write that runs out of
\* blocks half way.
THEOREM BlocksImplementStore ==
  ASSUME NoTruncation, ~ LargeWrites
  PROVE  Spec => IsFileStore
  <1>1. Init => FInv /\ Store!Init
    BY InitRefines
  <1>2. FInv /\ [Next]_vars => FInv' /\ [Store!Next]_(Store!vars)
    <2> SUFFICES ASSUME FInv, [Next]_vars PROVE FInv' /\ [Store!Next]_(Store!vars)
      OBVIOUS
    <2>1. SInv'
      BY NextSInv DEF FInv
    <2>2. CASE UNCHANGED vars
      BY <2>1, <2>2, TablesStutter DEF vars
    <2> QED
      BY <2>1, <2>2, NextRefines
  <1> QED
    BY <1>1, <1>2, PTL DEF Spec, IsFileStore, Store!Spec

================================================================================
