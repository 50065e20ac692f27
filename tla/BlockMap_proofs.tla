---------------------------- MODULE BlockMap_proofs ----------------------------
(***************************************************************************)
(* What the calls of one thread of the first exercise keep, for any number *)
(* of files, blocks and handles and any size of a block: the loops of      *)
(* tfs_write and tfs_copy_to_external_fs run over files of every length.   *)
(***************************************************************************)
EXTENDS BlockMap, WellFoundedInduction, TLAPS

-----------------------------------------------------------------------------
(***************************************************************************)
(* Loops.  The loop of a call is a function on the number of its turns; a  *)
(* set of numbers that has 0 and the successor of each of its members      *)
(* takes the place of induction over the turns.                            *)
(***************************************************************************)

\* Scanning a table upwards finds an element of the set looked for.
LEMMA LowestIn ==
  ASSUME NEW S \in SUBSET Nat, S # {}
  PROVE  Lowest(S) \in S /\ \A i \in S : Lowest(S) <= i
  <1> DEFINE Below == {pair \in Nat \X Nat : pair[1] < pair[2]}
  <1>1. IsWellFoundedOn(Below, Nat)
    BY NatLessThanWellFounded DEF OpToRel
  <1> HIDE DEF Below
  <1>2. PICK x \in S : \A y \in S : ~(<<y, x>> \in Below)
    BY <1>1, WFMin
  <1>3. ASSUME NEW y \in S PROVE x <= y
    <2>1. y < x => <<y, x>> \in Nat \X Nat /\ <<y, x>>[1] < <<y, x>>[2]
      OBVIOUS
    <2>2. ~(y < x)
      BY <1>2, <2>1 DEF Below
    <2> QED
      BY <2>2
  <1> QED
    BY <1>3 DEF Lowest

\* Induction over the turns of a loop.
LEMMA EveryTurn ==
  ASSUME NEW good, 0 \in good, \A n \in Nat : n \in good => n + 1 \in good
  PROVE  \A n \in Nat : n \in good
  <1> DEFINE bad == Nat \ good
  <1> SUFFICES ASSUME bad # {} PROVE FALSE
    OBVIOUS
  <1>1. PICK n \in bad : \A m \in bad : n <= m
    BY LowestIn
  <1>2. n # 0 /\ n - 1 \in Nat /\ ~(n <= n - 1)
    BY <1>1
  <1>3. n - 1 \in good
    BY <1>1, <1>2
  <1>4. n - 1 + 1 \in good
    BY <1>2, <1>3
  <1> QED
    BY <1>1, <1>4

\* f holds the state before and after each of the first n turns of a loop.
Runs(S, first, step, n, f) ==
  /\ f \in [0 .. n -> S] /\ f[0] = first
  /\ \A k \in 0 .. n - 1 : f[k + 1] = step[k][f[k]]

LEMMA RunOn ==
  ASSUME NEW S, NEW first \in S, NEW step \in [Nat -> [S -> S]], NEW n \in Nat, NEW f,
         Runs(S, first, step, n, f)
  PROVE  \E more : Runs(S, first, step, n + 1, more)
  <1> DEFINE more == [k \in 0 .. n + 1 |-> IF k = n + 1 THEN step[n][f[n]] ELSE f[k]]
  <1>1. /\ f \in [0 .. n -> S] /\ f[0] = first
        /\ \A k \in 0 .. n - 1 : f[k + 1] = step[k][f[k]]
    BY DEF Runs
  <1>2. step[n][f[n]] \in S
    <2>1. n \in 0 .. n
      OBVIOUS
    <2> QED
      BY <1>1, <2>1
  <1>3. more \in [0 .. n + 1 -> S]
    BY <1>1, <1>2
  <1>4. more[0] = first
    BY <1>1
  <1>5. ASSUME NEW k \in 0 .. n PROVE more[k + 1] = step[k][more[k]]
    <2>1. CASE k = n
      BY <2>1
    <2>2. CASE k # n
      <3>1. k \in 0 .. n - 1 /\ k + 1 \in 0 .. n + 1 /\ k + 1 # n + 1 /\ k # n + 1
        BY <2>2
      <3> QED
        BY <1>1, <3>1
    <2> QED
      BY <2>1, <2>2
  <1> HIDE DEF more
  <1>6. Runs(S, first, step, n + 1, more)
    BY <1>3, <1>4, <1>5 DEF Runs
  <1> QED
    BY <1>6

\* Two runs agree as far as they go.
LEMMA RunsAgree ==
  ASSUME NEW S, NEW first \in S, NEW step \in [Nat -> [S -> S]], NEW n \in Nat, NEW f, NEW g,
         Runs(S, first, step, n, f), Runs(S, first, step, n + 1, g)
  PROVE  f[n] = g[n]
  <1> DEFINE same == {k \in Nat : k <= n => f[k] = g[k]}
  <1>1. 0 \in same
    BY DEF Runs
  <1>2. ASSUME NEW k \in Nat, k \in same PROVE k + 1 \in same
    <2>1. CASE k + 1 <= n
      <3>1. k \in 0 .. n - 1 /\ k \in 0 .. (n + 1) - 1 /\ f[k] = g[k]
        BY <1>2, <2>1
      <3>2. f[k + 1] = step[k][f[k]]
        BY <3>1 DEF Runs
      <3>3. g[k + 1] = step[k][g[k]]
        BY <3>1 DEF Runs
      <3> QED
        BY <3>1, <3>2, <3>3
    <2>2. CASE ~(k + 1 <= n)
      BY <2>2
    <2> QED
      BY <2>1, <2>2
  <1> HIDE DEF same
  <1>3. n \in same
    BY <1>1, <1>2, EveryTurn
  <1> QED
    BY <1>3 DEF same

\* A loop of any number of turns has a state after each.
IsLoop(S, first, step) == first \in S /\ step \in [Nat -> [S -> S]]

RunsOn(S, first, step, f) ==
  /\ f \in [Nat -> S] /\ f[0] = first
  /\ \A n \in Nat : f[n + 1] = step[n][f[n]]

LEMMA LoopExists ==
  ASSUME NEW S, NEW first, NEW step, IsLoop(S, first, step)
  PROVE  \E f : RunsOn(S, first, step, f)
  <1> USE DEF IsLoop
  <1> DEFINE run(n) == CHOOSE f : Runs(S, first, step, n, f)
             long   == {n \in Nat : \E f : Runs(S, first, step, n, f)}
  <1>1. 0 \in long
    <2>1. Runs(S, first, step, 0, [k \in 0 .. 0 |-> first])
      BY DEF Runs
    <2> QED
      BY <2>1
  <1>2. ASSUME NEW n \in Nat, n \in long PROVE n + 1 \in long
    <2>1. PICK f : Runs(S, first, step, n, f)
      BY <1>2
    <2>2. \E more : Runs(S, first, step, n + 1, more)
      BY <2>1, RunOn
    <2> QED
      BY <2>2
  <1> HIDE DEF long
  <1>3. \A n \in Nat : n \in long
    BY <1>1, <1>2, EveryTurn
  <1>4. \A n \in Nat : Runs(S, first, step, n, run(n))
    <2> SUFFICES ASSUME NEW n \in Nat PROVE Runs(S, first, step, n, run(n))
      OBVIOUS
    <2>1. \E f : Runs(S, first, step, n, f)
      BY <1>3 DEF long
    <2> QED
      BY <2>1
  <1> HIDE DEF run
  <1>5. \A n \in Nat : run(n) \in [0 .. n -> S] /\ run(n)[0] = first
    BY <1>4 DEF Runs
  <1> DEFINE whole == [n \in Nat |-> run(n)[n]]
  <1>6. whole \in [Nat -> S]
    <2> SUFFICES ASSUME NEW n \in Nat PROVE run(n)[n] \in S
      OBVIOUS
    <2>1. n \in 0 .. n /\ run(n) \in [0 .. n -> S]
      BY <1>5
    <2> QED
      BY <2>1
  <1>7. whole[0] = first
    BY <1>5
  <1>8. ASSUME NEW n \in Nat PROVE whole[n + 1] = step[n][whole[n]]
    <2>1. n + 1 \in Nat /\ n \in 0 .. (n + 1) - 1
      OBVIOUS
    <2>2. run(n + 1)[n + 1] = step[n][run(n + 1)[n]]
      BY <1>4, <2>1 DEF Runs
    <2>3. run(n)[n] = run(n + 1)[n]
      <3>1. Runs(S, first, step, n, run(n)) /\ Runs(S, first, step, n + 1, run(n + 1))
        BY <1>4, <2>1
      <3> QED
        BY <3>1, RunsAgree
    <2> QED
      BY <2>1, <2>2, <2>3
  <1> HIDE DEF whole
  <1>9. RunsOn(S, first, step, whole)
    BY <1>6, <1>7, <1>8 DEF RunsOn
  <1> QED
    BY <1>9

-----------------------------------------------------------------------------
(***************************************************************************)
(* What the loops work on.                                                 *)
(***************************************************************************)

CellValues == Data \cup {0, -1} \cup Blocks
BlockTable == [Blocks -> {"FREE", "TAKEN"}]
BlockCells == [Blocks -> [Cells -> CellValues]]
MapRecord  == [0 .. NDIRECT -> Blocks \cup {-1}]

GrowState == [map : MapRecord, ind : Blocks \cup {-1}, free : BlockTable,
              data : BlockCells, fault : BOOLEAN]

\* data_block_alloc takes a free block, or none.
LEMMA Alloc ==
  ASSUME NEW free \in BlockTable
  PROVE  /\ data_block_alloc(free) \in Blocks \cup {-1} /\ -1 \notin Blocks
         /\ data_block_alloc(free) \in Blocks => /\ free[data_block_alloc(free)] = "FREE"
                                                 /\ AfterAlloc(free)[data_block_alloc(free)] = "TAKEN"
         /\ AfterAlloc(free) \in BlockTable
         /\ \A b \in Blocks : free[b] = "TAKEN" => AfterAlloc(free)[b] = "TAKEN"
  <1>1. Free(free) \in SUBSET Nat /\ Free(free) \subseteq Blocks
    BY SizesAssumption DEF Free, BlockTable, Blocks
  <1>2. Free(free) # {} => Lowest(Free(free)) \in Free(free)
    BY <1>1, LowestIn
  <1>3. data_block_alloc(free) \in Blocks => free[data_block_alloc(free)] = "FREE"
    BY <1>1, <1>2, SizesAssumption DEF data_block_alloc, Free, Blocks
  <1>4. data_block_alloc(free) \in Blocks \cup {-1} /\ -1 \notin Blocks
    BY <1>1, <1>2, SizesAssumption DEF data_block_alloc, Blocks
  <1> QED
    BY <1>3, <1>4 DEF AfterAlloc, BlockTable

LEMMA GrowTyped ==
  ASSUME NEW g \in GrowState, NEW k \in Nat, NEW from \in Nat, NEW to \in Nat
  PROVE  Grow(g, k, from, to) \in GrowState
  <1>1. CASE g.fault
    BY <1>1 DEF Grow
  <1>2. CASE ~ g.fault /\ k < NDIRECT
    <2>1. g.free \in BlockTable /\ g.map \in MapRecord /\ k \in 0 .. NDIRECT
      BY <1>2, SizesAssumption DEF GrowState
    <2>2. data_block_alloc(g.free) \in Blocks \cup {-1} /\ AfterAlloc(g.free) \in BlockTable
      BY <2>1, Alloc
    <2>3. [g.map EXCEPT ![k] = data_block_alloc(g.free)] \in MapRecord
      BY <2>1, <2>2 DEF MapRecord
    <2>4. Grow(g, k, from, to) = [g EXCEPT !.map = [g.map EXCEPT ![k] = data_block_alloc(g.free)],
                                           !.free = AfterAlloc(g.free)]
      BY <1>2 DEF Grow, GrowState
    <2> QED
      BY <2>2, <2>3, <2>4 DEF GrowState
  <1>3. CASE ~ g.fault /\ ~ k < NDIRECT
    <2> DEFINE ind  == IF Renews(from) THEN data_block_alloc(g.free) ELSE g.ind
               free == IF Renews(from) THEN AfterAlloc(g.free) ELSE g.free
    <2>1. /\ g.free \in BlockTable /\ g.map \in MapRecord /\ g.data \in BlockCells
          /\ g.ind \in Blocks \cup {-1}
      BY DEF GrowState
    <2>2. ind \in Blocks \cup {-1} /\ free \in BlockTable
      BY <2>1, Alloc
    <2>3. data_block_alloc(free) \in Blocks \cup {-1} /\ AfterAlloc(free) \in BlockTable
      BY <2>2, Alloc
    <2> DEFINE map   == [g.map EXCEPT ![NDIRECT] = IF Renews(from) THEN ind ELSE @]
               cells == [c \in Cells |->
                           CASE c = Place(k) -> data_block_alloc(free)
                             [] Renews(from) /\ c >= to - NDIRECT -> -1
                             [] OTHER -> g.data[ind][c]]
               data  == [g.data EXCEPT ![ind] = cells]
    <2>4. CASE ind = -1
      <3>1. Grow(g, k, from, to) = [g EXCEPT !.fault = TRUE]
        BY <1>3, <2>4 DEF Grow
      <3> QED
        BY <3>1 DEF GrowState
    <2>5. CASE ind # -1
      <3>1. map \in MapRecord
        BY <2>1, <2>2, SizesAssumption DEF MapRecord
      <3>2. cells \in [Cells -> CellValues]
        BY <2>1, <2>2, <2>3, <2>5 DEF BlockCells, CellValues
      <3> HIDE DEF cells
      <3>3. data \in BlockCells
        BY <2>1, <2>2, <2>5, <3>2 DEF BlockCells
      <3> USE DEF cells
      <3>4. Grow(g, k, from, to) = [g EXCEPT !.map = map, !.ind = ind, !.data = data,
                                             !.free = AfterAlloc(free)]
        BY <1>3, <2>5 DEF Grow, GrowState
      <3> HIDE DEF cells, map, data, ind, free
      <3> QED
        BY <2>2, <2>3, <3>1, <3>3, <3>4 DEF GrowState
    <2> QED
      BY <2>4, <2>5
  <1> QED
    BY <1>1, <1>2, <1>3

CopyState == [map : MapRecord, ind : Blocks \cup {-1}, data : BlockCells,
              stop : {"no", "crash", "error", "overrun"}]

LEMMA CopyTyped ==
  ASSUME NEW g \in CopyState, NEW k \in Nat, NEW from, NEW to, NEW v \in Data
  PROVE  Copy(g, k, from, to, v) \in CopyState
  <1> DEFINE b     == BlockAt(g.map, g.data, g.ind, k)
             cells == [c \in Cells |-> IF k * BLOCK_SIZE + c \in from .. to - 1
                                       THEN v ELSE g.data[b][c]]
  <1>1. CASE g.stop # "no" \/ b = -2 \/ b \notin Blocks \/ b = 0
    <2>1. \E stop \in {"no", "crash", "error", "overrun"} :
            Copy(g, k, from, to, v) = [g EXCEPT !.stop = stop]
      BY <1>1 DEF Copy, CopyState
    <2> QED
      BY <2>1 DEF CopyState
  <1>2. CASE g.stop = "no" /\ b # -2 /\ b \in Blocks /\ b # 0
    <2> HIDE DEF b
    <2>1. g.data \in BlockCells
      BY DEF CopyState
    <2>2. cells \in [Cells -> CellValues]
      BY <1>2, <2>1 DEF BlockCells, CellValues
    <2>3. [g.data EXCEPT ![b] = cells] \in BlockCells
      <3> HIDE DEF cells
      <3> QED
        BY <1>2, <2>1, <2>2 DEF BlockCells
    <2>4. Copy(g, k, from, to, v) = [g EXCEPT !.data = [g.data EXCEPT ![b] = cells]]
      BY <1>2 DEF Copy, CopyState, b
    <2> HIDE DEF cells
    <2> QED
      BY <2>3, <2>4 DEF CopyState
  <1> QED
    BY <1>1, <1>2

\* The loop of tfs_write that gives the file its blocks.
LEMMA GrowLoop ==
  ASSUME NEW inode, NEW to \in Nat, Ungrown(inode) \in GrowState, BlocksOf(inode.i_size) \in Nat
  PROVE  \E turn \in [Nat -> GrowState] :
           /\ turn[0] = Ungrown(inode)
           /\ \A n \in Nat :
                turn[n + 1] = Grow(turn[n], BlocksOf(inode.i_size) + n, BlocksOf(inode.i_size), to)
           /\ Grown(inode, to) = turn[Turns(BlocksOf(inode.i_size), to)]
  <1> DEFINE from == BlocksOf(inode.i_size)
             step == [n \in Nat |-> [g \in GrowState |-> Grow(g, from + n, from, to)]]
             turn == CHOOSE f : f = [n \in Nat |-> IF n = 0 THEN Ungrown(inode)
                                     ELSE Grow(f[n - 1], from + n - 1, from, to)]
  <1>1. \A n \in Nat : \A g \in GrowState : Grow(g, from + n, from, to) \in GrowState
    BY GrowTyped
  <1>2. step \in [Nat -> [GrowState -> GrowState]]
    BY <1>1
  <1>3. PICK f \in [Nat -> GrowState] :
          f[0] = Ungrown(inode) /\ \A n \in Nat : f[n + 1] = step[n][f[n]]
    <2> HIDE DEF step
    <2>1. IsLoop(GrowState, Ungrown(inode), step)
      BY <1>2 DEF IsLoop
    <2>2. \E f : RunsOn(GrowState, Ungrown(inode), step, f)
      BY <2>1, LoopExists
    <2> QED
      BY <2>2 DEF RunsOn
  <1>4. f = [n \in Nat |-> IF n = 0 THEN Ungrown(inode)
                           ELSE Grow(f[n - 1], from + n - 1, from, to)]
    <2>1. ASSUME NEW n \in Nat, n # 0 PROVE f[n] = Grow(f[n - 1], from + n - 1, from, to)
      <3>1. n - 1 \in Nat /\ (n - 1) + 1 = n /\ from + (n - 1) = from + n - 1
        BY <2>1
      <3>2. f[(n - 1) + 1] = step[n - 1][f[n - 1]] /\ f[n - 1] \in GrowState
        BY <1>3, <3>1
      <3> QED
        BY <3>1, <3>2
    <2> QED
      BY <1>3, <2>1
  <1>5. turn = [n \in Nat |-> IF n = 0 THEN Ungrown(inode)
                              ELSE Grow(turn[n - 1], from + n - 1, from, to)]
    BY <1>4
  <1>6. Grown(inode, to) = turn[Turns(from, to)]
    BY DEF Grown
  <1> HIDE DEF turn
  <1>7. turn[0] = Ungrown(inode)
    BY <1>5
  <1>8. \A n \in Nat : turn[n + 1] = Grow(turn[n], from + n, from, to)
    <2> SUFFICES ASSUME NEW n \in Nat PROVE turn[n + 1] = Grow(turn[n], from + n, from, to)
      OBVIOUS
    <2>1. n + 1 \in Nat /\ n + 1 # 0 /\ (n + 1) - 1 = n /\ from + (n + 1) - 1 = from + n
      OBVIOUS
    <2> QED
      BY <1>5, <2>1
  <1>9. turn \in [Nat -> GrowState]
    <2> DEFINE typed == {n \in Nat : turn[n] \in GrowState}
    <2>1. 0 \in typed
      BY <1>7
    <2>2. ASSUME NEW n \in Nat, n \in typed PROVE n + 1 \in typed
      BY <1>1, <1>8, <2>2
    <2> HIDE DEF typed
    <2>3. \A n \in Nat : n \in typed
      BY <2>1, <2>2, EveryTurn
    <2>4. \A n \in Nat : turn[n] \in GrowState
      BY <2>3 DEF typed
    <2> QED
      BY <1>5, <2>4
  <1> QED
    BY <1>6, <1>7, <1>8, <1>9


\* turn holds what the loop of tfs_write that copies has done after each turn.
CopyTurns(turn, g, first, from, to, v) ==
  /\ turn \in [Nat -> CopyState] /\ turn[0] = Uncopied(g)
  /\ \A n \in Nat : turn[n + 1] = Copy(turn[n], first + n, from, to, v)
  /\ Copied(g, from, to, v) = turn[Turns(first, BlocksOf(to))]

LEMMA CopyLoop ==
  ASSUME NEW g, NEW from \in Nat, NEW to \in Nat, NEW v \in Data,
         Uncopied(g) \in CopyState, NEW first \in Nat, first = from \div BLOCK_SIZE
  PROVE  \E turn : CopyTurns(turn, g, first, from, to, v)
  <1> DEFINE step  == [n \in Nat |-> [d \in CopyState |-> Copy(d, first + n, from, to, v)]]
             turn  == CHOOSE f : f = [n \in Nat |-> IF n = 0 THEN Uncopied(g)
                                      ELSE Copy(f[n - 1], first + n - 1, from, to, v)]
  <1>6. Copied(g, from, to, v) = turn[Turns(first, BlocksOf(to))]
    BY DEF Copied
  <1>1. \A n \in Nat : \A d \in CopyState : Copy(d, first + n, from, to, v) \in CopyState
    BY CopyTyped
  <1>2. step \in [Nat -> [CopyState -> CopyState]]
    BY <1>1
  <1>3. PICK f \in [Nat -> CopyState] :
          f[0] = Uncopied(g) /\ \A n \in Nat : f[n + 1] = step[n][f[n]]
    <2> HIDE DEF step
    <2>1. IsLoop(CopyState, Uncopied(g), step)
      BY <1>2 DEF IsLoop
    <2>2. \E f : RunsOn(CopyState, Uncopied(g), step, f)
      BY <2>1, LoopExists
    <2> QED
      BY <2>2 DEF RunsOn
  <1>4. f = [n \in Nat |-> IF n = 0 THEN Uncopied(g)
                           ELSE Copy(f[n - 1], first + n - 1, from, to, v)]
    <2>1. ASSUME NEW n \in Nat, n # 0 PROVE f[n] = Copy(f[n - 1], first + n - 1, from, to, v)
      <3>1. n - 1 \in Nat /\ (n - 1) + 1 = n /\ first + (n - 1) = first + n - 1
        BY <2>1
      <3>2. f[(n - 1) + 1] = step[n - 1][f[n - 1]] /\ f[n - 1] \in CopyState
        BY <1>3, <3>1
      <3> QED
        BY <3>1, <3>2
    <2> QED
      BY <1>3, <2>1
  <1>5. turn = [n \in Nat |-> IF n = 0 THEN Uncopied(g)
                              ELSE Copy(turn[n - 1], first + n - 1, from, to, v)]
    BY <1>4
  <1> HIDE DEF turn
  <1>7. turn[0] = Uncopied(g)
    BY <1>5
  <1>8. \A n \in Nat : turn[n + 1] = Copy(turn[n], first + n, from, to, v)
    <2> SUFFICES ASSUME NEW n \in Nat PROVE turn[n + 1] = Copy(turn[n], first + n, from, to, v)
      OBVIOUS
    <2>1. n + 1 \in Nat /\ n + 1 # 0 /\ (n + 1) - 1 = n /\ first + (n + 1) - 1 = first + n
      OBVIOUS
    <2> QED
      BY <1>5, <2>1
  <1>9. turn \in [Nat -> CopyState]
    <2> DEFINE typed == {n \in Nat : turn[n] \in CopyState}
    <2>1. 0 \in typed
      BY <1>7
    <2>2. ASSUME NEW n \in Nat, n \in typed PROVE n + 1 \in typed
      BY <1>1, <1>8, <2>2
    <2> HIDE DEF typed
    <2>3. \A n \in Nat : n \in typed
      BY <2>1, <2>2, EveryTurn
    <2>4. \A n \in Nat : turn[n] \in CopyState
      BY <2>3 DEF typed
    <2> QED
      BY <1>5, <2>4
  <1> QED
    BY <1>6, <1>7, <1>8, <1>9 DEF CopyTurns


-----------------------------------------------------------------------------
(***************************************************************************)
(* Lengths in cells and in blocks.                                         *)
(***************************************************************************)

LEMMA Division ==
  ASSUME NEW a \in Nat
  PROVE  /\ a \div BLOCK_SIZE \in Nat /\ a % BLOCK_SIZE \in Cells
         /\ (a \div BLOCK_SIZE) * BLOCK_SIZE <= a
         /\ a < (a \div BLOCK_SIZE) * BLOCK_SIZE + BLOCK_SIZE
  <1>1. BLOCK_SIZE \in Nat \ {0}
    BY SizesAssumption
  <1> QED
    BY <1>1 DEF Cells

LEMMA Multiples ==
  ASSUME NEW a \in Int, NEW b \in Int, a < b
  PROVE  a * BLOCK_SIZE + BLOCK_SIZE <= b * BLOCK_SIZE
  BY SizesAssumption

\* The blocks of a file are enough for its bytes, and no more.
LEMMA BlocksEnough ==
  ASSUME NEW size \in Nat
  PROVE  /\ BlocksOf(size) \in Nat /\ size <= BlocksOf(size) * BLOCK_SIZE
         /\ BlocksOf(size) * BLOCK_SIZE < size + BLOCK_SIZE
  <1>1. BLOCK_SIZE \in Nat \ {0}
    BY SizesAssumption
  <1>2. size + BLOCK_SIZE - 1 \in Nat
    BY <1>1
  <1> QED
    BY <1>1, <1>2, Division DEF BlocksOf

LEMMA BlocksMonotone ==
  ASSUME NEW a \in Nat, NEW b \in Nat, a <= b
  PROVE  BlocksOf(a) <= BlocksOf(b)
  <1>1. /\ BlocksOf(a) \in Nat /\ BlocksOf(a) * BLOCK_SIZE < a + BLOCK_SIZE
        /\ BlocksOf(b) \in Nat /\ b <= BlocksOf(b) * BLOCK_SIZE
    BY BlocksEnough
  <1>2. BlocksOf(b) < BlocksOf(a) => BlocksOf(b) * BLOCK_SIZE + BLOCK_SIZE <= BlocksOf(a) * BLOCK_SIZE
    BY <1>1, Multiples
  <1>3. BlocksOf(a) * BLOCK_SIZE \in Int /\ BlocksOf(b) * BLOCK_SIZE \in Int /\ BLOCK_SIZE \in Int
    BY <1>1, SizesAssumption
  <1> QED
    BY <1>1, <1>2, <1>3

\* The cell of a file and the cell of its block.
LEMMA CellOfBlock ==
  ASSUME NEW p \in Nat
  PROVE  /\ p \div BLOCK_SIZE \in Nat /\ p % BLOCK_SIZE \in Cells
         /\ p = (p \div BLOCK_SIZE) * BLOCK_SIZE + (p % BLOCK_SIZE)
  <1>1. BLOCK_SIZE \in Nat \ {0}
    BY SizesAssumption
  <1> QED
    BY <1>1 DEF Cells

\* The bytes of a file are in the blocks it has.
LEMMA BlockOfCell ==
  ASSUME NEW size \in Nat, NEW p \in 0 .. size - 1
  PROVE  p \div BLOCK_SIZE \in 0 .. BlocksOf(size) - 1
  <1>1. PICK k \in Nat : k = p \div BLOCK_SIZE /\ k * BLOCK_SIZE <= p
    BY Division
  <1>2. BlocksOf(size) \in Nat /\ size <= BlocksOf(size) * BLOCK_SIZE
    BY BlocksEnough
  <1>3. BlocksOf(size) < k => BlocksOf(size) * BLOCK_SIZE + BLOCK_SIZE <= k * BLOCK_SIZE
    BY <1>2, Multiples
  <1>4. BlocksOf(size) * BLOCK_SIZE \in Int /\ k * BLOCK_SIZE \in Int /\ BLOCK_SIZE \in Nat
    BY <1>2, SizesAssumption
  <1>5. BlocksOf(size) = k => BlocksOf(size) * BLOCK_SIZE = k * BLOCK_SIZE
    OBVIOUS
  <1> QED
    BY <1>1, <1>2, <1>3, <1>4, <1>5

\* A later cell is in the same block or a later one.
LEMMA LaterBlock ==
  ASSUME NEW p \in Nat, NEW q \in Nat, p <= q
  PROVE  p \div BLOCK_SIZE <= q \div BLOCK_SIZE
  <1>1. PICK k \in Nat : k = p \div BLOCK_SIZE /\ k * BLOCK_SIZE <= p
    BY Division
  <1>2. PICK l \in Nat : l = q \div BLOCK_SIZE /\ q < l * BLOCK_SIZE + BLOCK_SIZE
    BY Division
  <1>3. l < k => l * BLOCK_SIZE + BLOCK_SIZE <= k * BLOCK_SIZE
    BY Multiples
  <1>4. k * BLOCK_SIZE \in Int /\ l * BLOCK_SIZE \in Int /\ BLOCK_SIZE \in Nat
    BY SizesAssumption
  <1> QED
    BY <1>1, <1>2, <1>3, <1>4

LEMMA MaxFileSize == MAX_FILE_SIZE \in Nat
  BY SizesAssumption DEF MAX_FILE_SIZE

-----------------------------------------------------------------------------
(***************************************************************************)
(* What the tables hold, and where: the first invariant.                   *)
(***************************************************************************)

\* Callers that do not truncate; blocks_trunc shows what becomes of those who do.
NoTruncation == "TFS_O_TRUNC" \notin Flags

\* The first m entries of the directory are filled, in the order of the i-nodes,
\* and the handles are of these files.
InOrder(m) ==
  /\ \A s \in Slots : dir_entry[s].d_inumber = IF s < m THEN s + 1 ELSE -1
  /\ \A i \in Inodes : /\ i <= m => freeinode_ts[i] = "TAKEN"
                       /\ Running /\ i > m => freeinode_ts[i] = "FREE"
  /\ \A h \in Handles : open_file_table[h].of_inumber \in 0 .. m

DirectoryInOrder == \E m \in 0 .. MAX_DIR_ENTRIES : InOrder(m)

\* No offset is beyond its file, be the handle open or closed.
OffsetsInside ==
  \A h \in Handles :
    open_file_table[h].of_offset <= inode_table[open_file_table[h].of_inumber].i_size

TInv == TypeOK /\ DirectoryInOrder /\ OffsetsInside

InodeRecord == [i_size : 0 .. MAX_FILE_SIZE, i_data_blocks : MapRecord]
FileEntry   == [of_inumber : Inodes, of_offset : 0 .. MAX_FILE_SIZE]

\* A name that is found is that of a file.
LEMMA FoundInDir ==
  ASSUME TypeOK, NEW m \in 0 .. MAX_DIR_ENTRIES, InOrder(m), NEW name
  PROVE  find_in_dir(name) = -1 \/ find_in_dir(name) \in 1 .. m
  <1> DEFINE hits == {s \in Slots \ EmptySlots : dir_entry[s].d_name = name}
  <1>1. hits \in SUBSET Nat
    BY SizesAssumption DEF Slots
  <1>2. CASE hits = {}
    BY <1>2 DEF find_in_dir
  <1>3. CASE hits # {}
    <2>1. Lowest(hits) \in hits
      BY <1>1, <1>3, LowestIn
    <2>2. PICK s \in Slots : s = Lowest(hits) /\ dir_entry[s].d_inumber # -1
      BY <2>1 DEF EmptySlots
    <2>3. s \in Nat /\ dir_entry[s].d_inumber \in 1 .. m
      BY <2>2, SizesAssumption DEF InOrder, Slots
    <2>4. find_in_dir(name) = dir_entry[s].d_inumber
      BY <1>3, <2>2 DEF find_in_dir
    <2> QED
      BY <2>3, <2>4
  <1> QED
    BY <1>2, <1>3

\* A file that is found has an i-node.
LEMMA FilesHaveInodes ==
  ASSUME NEW m \in 0 .. MAX_DIR_ENTRIES
  PROVE  0 .. m + 1 \subseteq Inodes /\ m \in Nat
  BY SizesAssumption, DirectoryAssumption DEF Inodes

\* What a successful open does to the table of open files.
LEMMA OpenHandle ==
  ASSUME TypeOK, NEW inum \in Inodes, NEW offset \in 0 .. MAX_FILE_SIZE,
         add_to_open_file_table(inum, offset)
  PROVE  /\ open_file_table' \in [Handles -> FileEntry]
         /\ free_open_file_entries' \in [Handles -> {"FREE", "TAKEN"}]
         /\ mtx' \subseteq Handles
         /\ \A h \in Handles :
              \/ open_file_table'[h] = open_file_table[h]
              \/ open_file_table'[h] = [of_inumber |-> inum, of_offset |-> offset]
  <1> DEFINE new == [of_inumber |-> inum, of_offset |-> offset]
  <1>1. new \in FileEntry
    BY DEF FileEntry
  <1>2. open_file_table \in [Handles -> FileEntry]
    BY DEF TypeOK, FileEntry
  <1>3. CASE UNCHANGED handles
    BY <1>2, <1>3 DEF handles, TypeOK
  <1>4. CASE ~ UNCHANGED handles
    <2>1. /\ mtx' = mtx \cup Skipped
          /\ free_open_file_entries' = [h \in Handles |->
               IF h \in Chosen THEN "TAKEN" ELSE free_open_file_entries[h]]
          /\ open_file_table' = [h \in Handles |->
               IF h \in Chosen THEN new ELSE open_file_table[h]]
      BY <1>4 DEF add_to_open_file_table
    <2> HIDE DEF new
    <2>2. open_file_table' \in [Handles -> FileEntry]
      BY <1>1, <1>2, <2>1
    <2>3. free_open_file_entries' \in [Handles -> {"FREE", "TAKEN"}]
      BY <2>1 DEF TypeOK
    <2>4. mtx' \subseteq Handles
      BY <2>1 DEF TypeOK, Skipped
    <2>5. \A h \in Handles : open_file_table'[h] = open_file_table[h] \/ open_file_table'[h] = new
      BY <2>1
    <2> QED
      BY <2>2, <2>3, <2>4, <2>5 DEF new
  <1> QED
    BY <1>3, <1>4


-----------------------------------------------------------------------------
(***************************************************************************)
(* Every call keeps the first invariant.                                   *)
(***************************************************************************)

\* A call that leaves the directory and the sizes alone, but for a larger one.
LEMMA SameDirectory ==
  ASSUME Running, NEW m \in 0 .. MAX_DIR_ENTRIES, InOrder(m),
         UNCHANGED <<freeinode_ts, dir_entry>>,
         \A h \in Handles : open_file_table'[h].of_inumber \in 0 .. m
  PROVE  DirectoryInOrder'
  <1>1. InOrder(m)'
    BY DEF InOrder
  <1> QED
    BY <1>1 DEF DirectoryInOrder

LEMMA InitTInv == Init => TInv
  <1> SUFFICES ASSUME Init PROVE TInv
    OBVIOUS
  <1> USE SizesAssumption
  <1>1. 0 \in Inodes /\ 0 \in 0 .. MAX_FILE_SIZE /\ BLOCK_SIZE \in 0 .. MAX_FILE_SIZE /\ 0 \in Blocks
    <2>1. BLOCK_SIZE \in Nat \ {0} /\ NDIRECT + BLOCK_SIZE \in Nat /\ 1 <= NDIRECT + BLOCK_SIZE
      OBVIOUS
    <2>2. BLOCK_SIZE <= (NDIRECT + BLOCK_SIZE) * BLOCK_SIZE
      BY <2>1, Multiples, 0 \in Int
    <2> QED
      BY <2>1, <2>2, MaxFileSize DEF Inodes, Blocks, MAX_FILE_SIZE
  <1>2. TypeOK
    BY <1>1 DEF Init, TypeOK
  <1>3. InOrder(0)
    BY DEF Init, InOrder, Slots, Inodes, ROOT_DIR_INUM
  <1>4. OffsetsInside
    BY <1>1 DEF Init, OffsetsInside, ROOT_DIR_INUM
  <1> QED
    BY <1>2, <1>3, <1>4 DEF TInv, DirectoryInOrder

LEMMA OpenExistingTInv ==
  ASSUME NoTruncation, TInv, Running, NEW m \in 0 .. MAX_DIR_ENTRIES, InOrder(m),
         NEW inum \in 1 .. m, NEW flags \in SUBSET Flags, OpenExisting(inum, flags)
  PROVE  TInv' /\ UNCHANGED tables
  <1> USE DEF TInv
  <1> DEFINE size   == inode_table[inum].i_size
             offset == IF "TFS_O_APPEND" \in flags THEN size ELSE 0
  <1>1. "TFS_O_TRUNC" \notin flags
    BY DEF NoTruncation
  <1>2. /\ UNCHANGED <<free_blocks, freeinode_ts, fs_data, dir_entry, lock>>
        /\ inode_table' = [inode_table EXCEPT ![inum].i_size = size]
        /\ add_to_open_file_table(inum, offset)
    BY <1>1 DEF OpenExisting
  <1>3. inum \in Inodes /\ inum \in 0 .. m /\ inode_table \in [Inodes -> InodeRecord]
    BY FilesHaveInodes DEF TypeOK, InodeRecord, MapRecord
  <1>4. inode_table' = inode_table
    BY <1>2, <1>3 DEF InodeRecord
  <1>5. offset \in 0 .. MAX_FILE_SIZE /\ offset <= size
    BY <1>3, MaxFileSize DEF InodeRecord
  <1> HIDE DEF offset, size
  <1>6. /\ open_file_table' \in [Handles -> FileEntry]
        /\ free_open_file_entries' \in [Handles -> {"FREE", "TAKEN"}]
        /\ mtx' \subseteq Handles
        /\ \A h \in Handles :
             \/ open_file_table'[h] = open_file_table[h]
             \/ open_file_table'[h] = [of_inumber |-> inum, of_offset |-> offset]
    BY <1>2, <1>3, <1>5, OpenHandle
  <1>7. TypeOK'
    BY <1>2, <1>4, <1>6 DEF TypeOK, FileEntry
  <1>8. DirectoryInOrder'
    <2>1. \A h \in Handles : open_file_table'[h].of_inumber \in 0 .. m
      BY <1>3, <1>6 DEF InOrder
    <2> QED
      BY <1>2, <2>1, SameDirectory
  <1>9. OffsetsInside'
    BY <1>4, <1>5, <1>6 DEF OffsetsInside, size
  <1> QED
    BY <1>2, <1>4, <1>7, <1>8, <1>9 DEF tables

\* The lowest free i-node is the one after those of the directory, the first
\* empty entry the one after the filled ones.
LEMMA NextFree ==
  ASSUME TypeOK, Running, NEW m \in 0 .. MAX_DIR_ENTRIES, InOrder(m)
  PROVE  /\ Lowest(Free(freeinode_ts)) = m + 1 /\ m + 1 \in Inodes
         /\ EmptySlots # {} => Lowest(EmptySlots) = m /\ m \in Slots
         /\ EmptySlots = {} => m = MAX_DIR_ENTRIES
  <1>1. m + 1 \in Inodes /\ Inodes \in SUBSET Nat /\ Slots \in SUBSET Nat /\ m \in Nat
    BY FilesHaveInodes, SizesAssumption DEF Inodes, Slots
  <1>2. Free(freeinode_ts) = {i \in Inodes : i > m}
    <2>1. DOMAIN freeinode_ts = Inodes
      BY DEF TypeOK
    <2>2. \A i \in Inodes : i \in Nat /\ (i <= m \/ i > m)
      BY <1>1
    <2>3. \A i \in Inodes : freeinode_ts[i] = "FREE" <=> i > m
      BY <2>2 DEF InOrder
    <2> QED
      BY <2>1, <2>3 DEF Free
  <1>3. Lowest(Free(freeinode_ts)) = m + 1
    <2>1. m + 1 > m
      BY <1>1
    <2>2. Free(freeinode_ts) \in SUBSET Nat /\ m + 1 \in Free(freeinode_ts)
      <3>1. \A i \in Inodes : i \in Nat
        BY <1>1
      <3> QED
        BY <1>1, <1>2, <2>1, <3>1
    <2>3. PICK i \in Free(freeinode_ts) :
            i = Lowest(Free(freeinode_ts)) /\ i <= m + 1
      BY <2>2, LowestIn
    <2>4. i \in Nat /\ i > m
      BY <1>1, <1>2
    <2> QED
      BY <1>1, <2>3, <2>4
  <1>4. EmptySlots = {s \in Slots : ~ s < m}
    <2>1. \A s \in Slots : s \in Nat /\ s + 1 # -1
      BY <1>1
    <2>2. \A s \in Slots : dir_entry[s].d_inumber = -1 <=> ~ s < m
      BY <2>1 DEF InOrder
    <2> QED
      BY <2>2 DEF EmptySlots
  <1>5. CASE m = MAX_DIR_ENTRIES
    <2>1. EmptySlots = {}
      BY <1>4, <1>5 DEF Slots
    <2> QED
      BY <1>1, <1>3, <1>5, <2>1
  <1>6. CASE m # MAX_DIR_ENTRIES
    <2>1. m \in EmptySlots /\ EmptySlots \in SUBSET Nat
      BY <1>1, <1>4, <1>6, SizesAssumption DEF Slots
    <2>2. PICK s \in EmptySlots : s = Lowest(EmptySlots) /\ s <= m
      BY <2>1, LowestIn
    <2>3. s = m
      BY <1>1, <1>4, <2>2
    <2> QED
      BY <1>1, <1>3, <1>4, <2>1, <2>2, <2>3
  <1> QED
    BY <1>5, <1>6


\* A call that fails before it has changed a table, or never returns.
LEMMA NothingDone ==
  ASSUME TInv, Running, UNCHANGED <<tables, handles, lock>>
  PROVE  TInv'
  <1>1. PICK m \in 0 .. MAX_DIR_ENTRIES : InOrder(m)
    BY DEF TInv, DirectoryInOrder
  <1>2. \A h \in Handles : open_file_table'[h].of_inumber \in 0 .. m
    BY <1>1 DEF handles, InOrder
  <1>3. DirectoryInOrder'
    BY <1>1, <1>2, SameDirectory DEF tables
  <1> QED
    BY <1>3 DEF tables, handles, TypeOK, OffsetsInside, TInv

LEMMA NewInodeTyped == NewInode \in InodeRecord /\ NewInode.i_size = 0
  BY MaxFileSize DEF NewInode, InodeRecord, MapRecord

LEMMA OpenCreatedTInv ==
  ASSUME TInv, Running, NEW m \in 0 .. MAX_DIR_ENTRIES, InOrder(m),
         NEW name \in Names, OpenCreated(name)
  PROVE  TInv'
  <1> USE DEF TInv
  <1> DEFINE inum == Lowest(Free(freeinode_ts))
             slot == Lowest(EmptySlots)
  <1>1. inum = m + 1 /\ inum \in Inodes /\ m \in Nat /\ 0 .. m \subseteq Inodes
    BY NextFree, FilesHaveInodes
  <1>2. EmptySlots # {} => slot = m /\ m \in Slots
    BY NextFree
  <1>3. EmptySlots = {} => m = MAX_DIR_ENTRIES
    BY NextFree
  <1>4. CASE UNCHANGED <<tables, handles, lock>>
    BY <1>4, NothingDone
  <1>5. CASE /\ freeinode_ts' = [freeinode_ts EXCEPT ![inum] = "TAKEN"]
             /\ inode_table' = [inode_table EXCEPT ![inum] = NewInode]
             /\ UNCHANGED <<free_blocks, fs_data, lock>>
             /\ \/ /\ EmptySlots = {} /\ End("hung") /\ UNCHANGED <<dir_entry, handles>>
                \/ /\ EmptySlots # {}
                   /\ dir_entry' = [dir_entry EXCEPT ![slot] = [d_inumber |-> inum, d_name |-> name]]
                   /\ add_to_open_file_table(inum, 0)
    <2> HIDE DEF inum, slot
    <2>1. /\ freeinode_ts' \in [Inodes -> {"FREE", "TAKEN"}]
          /\ inode_table' \in [Inodes -> InodeRecord]
          /\ inode_table'[inum] = NewInode
          /\ \A i \in Inodes : i # inum => inode_table'[i] = inode_table[i]
      BY <1>1, <1>5, NewInodeTyped DEF TypeOK, InodeRecord, MapRecord
    <2>2. \A h \in Handles : /\ open_file_table[h].of_inumber \in 0 .. m
                             /\ open_file_table[h].of_inumber # inum
                             /\ open_file_table[h].of_inumber \in Inodes
      BY <1>1 DEF InOrder
    <2>3. \A i \in Inodes : i <= m + 1 => freeinode_ts'[i] = "TAKEN"
      <3> SUFFICES ASSUME NEW i \in Inodes, i <= m + 1 PROVE freeinode_ts'[i] = "TAKEN"
        OBVIOUS
      <3>1. CASE i = inum
        BY <1>5, <3>1 DEF TypeOK
      <3>2. CASE i # inum
        <4>1. i <= m /\ freeinode_ts'[i] = freeinode_ts[i]
          BY <1>1, <1>5, <3>2, SizesAssumption DEF TypeOK, Inodes
        <4> QED
          BY <4>1 DEF InOrder
      <3> QED
        BY <3>1, <3>2
    <2>4. \A i \in Inodes : i > m + 1 => freeinode_ts'[i] = "FREE"
      <3> SUFFICES ASSUME NEW i \in Inodes, i > m + 1 PROVE freeinode_ts'[i] = "FREE"
        OBVIOUS
      <3>1. i > m /\ i # inum
        BY <1>1, SizesAssumption DEF Inodes
      <3> QED
        BY <1>5, <3>1 DEF TypeOK, InOrder
    <2>5. CASE EmptySlots = {}
      <3>1. /\ End("hung") /\ UNCHANGED <<dir_entry, handles>>
        BY <1>5, <2>5
      <3>2. ~ Running'
        BY <3>1 DEF End, Reply, Running
      <3>3. InOrder(m)'
        <4>1. \A i \in Inodes : i <= m => i <= m + 1
          BY <1>1, SizesAssumption DEF Inodes
        <4>2. \A i \in Inodes : i <= m => freeinode_ts'[i] = "TAKEN"
          BY <2>3, <4>1
        <4> QED
          BY <3>1, <3>2, <4>2 DEF InOrder, handles
      <3>4. DirectoryInOrder'
        BY <3>3 DEF DirectoryInOrder
      <3>5. OffsetsInside'
        BY <2>1, <2>2, <3>1 DEF OffsetsInside, handles
      <3>6. TypeOK'
        BY <1>5, <2>1, <3>1 DEF TypeOK, handles, InodeRecord, MapRecord
      <3> QED
        BY <3>4, <3>5, <3>6
    <2>6. CASE EmptySlots # {}
      <3>1. /\ dir_entry' = [dir_entry EXCEPT ![m] = [d_inumber |-> inum, d_name |-> name]]
            /\ add_to_open_file_table(inum, 0) /\ m \in Slots
        BY <1>2, <1>5, <2>6
      <3>2. /\ open_file_table' \in [Handles -> FileEntry]
            /\ free_open_file_entries' \in [Handles -> {"FREE", "TAKEN"}]
            /\ mtx' \subseteq Handles
            /\ \A h \in Handles :
                 \/ open_file_table'[h] = open_file_table[h]
                 \/ open_file_table'[h] = [of_inumber |-> inum, of_offset |-> 0]
        <4>1. 0 \in 0 .. MAX_FILE_SIZE
          BY MaxFileSize
        <4> QED
          BY <1>1, <3>1, <4>1, OpenHandle
      <3>3. \A h \in Handles : open_file_table'[h].of_inumber \in 0 .. m + 1
        BY <1>1, <2>2, <3>2
      <3>4. \A s \in Slots : dir_entry'[s].d_inumber = IF s < m + 1 THEN s + 1 ELSE -1
        <4> SUFFICES ASSUME NEW s \in Slots
                     PROVE  dir_entry'[s].d_inumber = IF s < m + 1 THEN s + 1 ELSE -1
          OBVIOUS
        <4>1. CASE s = m
          BY <1>1, <3>1, <4>1 DEF TypeOK
        <4>2. CASE s # m
          <5>1. (s < m <=> s < m + 1) /\ dir_entry'[s] = dir_entry[s]
            BY <1>1, <3>1, <4>2, SizesAssumption DEF TypeOK, Slots
          <5> QED
            BY <5>1 DEF InOrder
        <4> QED
          BY <4>1, <4>2
      <3>5. DirectoryInOrder'
        <4>1. m + 1 \in 0 .. MAX_DIR_ENTRIES
          BY <1>1, <3>1, SizesAssumption DEF Slots
        <4>2. InOrder(m + 1)'
          BY <2>3, <2>4, <3>3, <3>4 DEF InOrder
        <4> QED
          BY <4>1, <4>2 DEF DirectoryInOrder
      <3>6. OffsetsInside'
        <4> SUFFICES ASSUME NEW h \in Handles
                     PROVE  open_file_table'[h].of_offset
                              <= inode_table'[open_file_table'[h].of_inumber].i_size
          BY DEF OffsetsInside
        <4>1. CASE open_file_table'[h] = open_file_table[h]
          BY <2>1, <2>2, <4>1 DEF OffsetsInside
        <4>2. CASE open_file_table'[h] = [of_inumber |-> inum, of_offset |-> 0]
          BY <2>1, <4>2, NewInodeTyped
        <4> QED
          BY <3>2, <4>1, <4>2
      <3>7. dir_entry' \in [Slots -> [d_inumber : Inodes \cup {-1}, d_name : Names \cup {NoName}]]
        BY <1>1, <3>1 DEF TypeOK
      <3>8. TypeOK'
        BY <1>5, <2>1, <3>2, <3>7 DEF TypeOK, InodeRecord, MapRecord, FileEntry
      <3> QED
        BY <3>5, <3>6, <3>8
    <2> QED
      BY <2>5, <2>6
  <1> QED
    BY <1>4, <1>5 DEF OpenCreated

LEMMA OpenTInv ==
  ASSUME NoTruncation, TInv, NEW name \in Names, NEW flags \in SUBSET Flags,
         tfs_open(name, flags)
  PROVE  TInv'
  <1> DEFINE inum == find_in_dir(name)
  <1>1. Running /\ TypeOK
    BY DEF tfs_open, TInv
  <1>2. PICK m \in 0 .. MAX_DIR_ENTRIES : InOrder(m)
    BY DEF TInv, DirectoryInOrder
  <1>3. inum = -1 \/ inum \in 1 .. m
    BY <1>1, <1>2, FoundInDir
  <1>4. CASE inum >= 0 /\ OpenExisting(inum, flags)
    <2>1. inum \in 1 .. m
      BY <1>3, <1>4
    <2> QED
      BY <1>1, <1>2, <1>4, <2>1, OpenExistingTInv
  <1>5. CASE OpenCreated(name)
    BY <1>1, <1>2, <1>5, OpenCreatedTInv
  <1>6. CASE UNCHANGED <<tables, handles, lock>>
    BY <1>1, <1>6, NothingDone
  <1> QED
    BY <1>4, <1>5, <1>6 DEF tfs_open

LEMMA CloseTInv ==
  ASSUME TInv, NEW fh \in Handles, tfs_close(fh)
  PROVE  TInv'
  <1>1. Running /\ UNCHANGED <<tables, open_file_table, mtx, lock>>
    BY DEF tfs_close
  <1>2. PICK m \in 0 .. MAX_DIR_ENTRIES : InOrder(m)
    BY DEF TInv, DirectoryInOrder
  <1>3. \A h \in Handles : open_file_table'[h].of_inumber \in 0 .. m
    BY <1>1, <1>2 DEF InOrder
  <1>4. DirectoryInOrder'
    BY <1>1, <1>2, <1>3, SameDirectory DEF tables
  <1>5. free_open_file_entries' \in [Handles -> {"FREE", "TAKEN"}]
    BY DEF tfs_close, TInv, TypeOK
  <1>6. TypeOK' /\ OffsetsInside'
    BY <1>1, <1>5 DEF TInv, TypeOK, OffsetsInside, tables
  <1> QED
    BY <1>4, <1>6 DEF TInv

\* What a write leaves in the blocks and in the i-node.
LEMMA WriteTyped ==
  ASSUME TypeOK, NEW inode \in InodeRecord, NEW to \in Nat
  PROVE  /\ Grown(inode, to) \in GrowState
         /\ \A from, end \in Nat, v \in Data :
              Copied(Grown(inode, to), from, end, v) \in CopyState
  <1>1. Ungrown(inode) \in GrowState
    <2>1. NDIRECT \in 0 .. NDIRECT
      BY SizesAssumption
    <2> QED
      BY <2>1 DEF Ungrown, GrowState, InodeRecord, MapRecord, BlockTable, BlockCells, CellValues,
                  TypeOK
  <1>2. BlocksOf(inode.i_size) \in Nat
    <2>1. inode.i_size \in Nat
      BY MaxFileSize DEF InodeRecord
    <2> QED
      BY <2>1, BlocksEnough
  <1>3. Grown(inode, to) \in GrowState
    <2>1. PICK turn \in [Nat -> GrowState] :
            Grown(inode, to) = turn[Turns(BlocksOf(inode.i_size), to)]
      BY <1>1, <1>2, GrowLoop
    <2>2. Turns(BlocksOf(inode.i_size), to) \in Nat
      BY <1>2 DEF Turns
    <2> QED
      BY <2>1, <2>2
  <1> DEFINE g == Grown(inode, to)
  <1> HIDE DEF g
  <1>4. Uncopied(g) \in CopyState
    BY <1>3 DEF g, Uncopied, GrowState, CopyState
  <1>5. ASSUME NEW from \in Nat, NEW end \in Nat, NEW v \in Data
        PROVE  Copied(g, from, end, v) \in CopyState
    <2> DEFINE first == from \div BLOCK_SIZE
    <2>1. first \in Nat /\ BlocksOf(end) \in Nat /\ first = from \div BLOCK_SIZE
      BY Division, BlocksEnough
    <2> HIDE DEF first
    <2>4. \E turn : CopyTurns(turn, g, first, from, end, v)
      BY <1>4, <2>1, CopyLoop
    <2>2. PICK turn \in [Nat -> CopyState] :
            Copied(g, from, end, v) = turn[Turns(first, BlocksOf(end))]
      BY <2>4 DEF CopyTurns
    <2>3. Turns(first, BlocksOf(end)) \in Nat
      BY <2>1 DEF Turns
    <2> QED
      BY <2>2, <2>3
  <1> QED
    BY <1>3, <1>5 DEF g

LEMMA WriteTInv ==
  ASSUME TInv, NEW fh \in Handles, NEW v \in Data, NEW n \in Lens, tfs_write(fh, v, n)
  PROVE  TInv'
  <1> USE DEF TInv
  <1> DEFINE inum     == open_file_table[fh].of_inumber
             offset   == open_file_table[fh].of_offset
             inode    == inode_table[inum]
             to_write == IF n + offset > MAX_FILE_SIZE THEN MAX_FILE_SIZE - offset ELSE n
             end      == offset + to_write
             grown    == Grown(inode, BlocksOf(end))
             copied   == Copied(grown, offset, end, v)
             size     == IF copied.stop = "no" /\ end > inode.i_size THEN end ELSE inode.i_size
  <1>1. /\ inum \in Inodes /\ offset \in 0 .. MAX_FILE_SIZE /\ inode \in InodeRecord
        /\ offset <= inode.i_size /\ n \in Nat /\ MAX_FILE_SIZE \in Nat
        /\ inode.i_size \in 0 .. MAX_FILE_SIZE
    BY CallersAssumption, MaxFileSize DEF TypeOK, InodeRecord, MapRecord, OffsetsInside
  <1>2. end \in 0 .. MAX_FILE_SIZE /\ end \in Nat /\ offset \in Nat
    BY <1>1
  <1>3. grown \in GrowState /\ copied \in CopyState
    <2> HIDE DEF inum, offset, inode, end
    <2>1. BlocksOf(end) \in Nat
      BY <1>2, BlocksEnough
    <2> QED
      BY <1>1, <1>2, <2>1, WriteTyped
  <1>4. CASE UNCHANGED <<tables, handles, lock>>
    BY <1>4, NothingDone DEF tfs_write
  <1>5. CASE /\ free_blocks' = grown.free
             /\ fs_data' = copied.data
             /\ inode_table' = [inode_table EXCEPT ![inum] =
                  [i_data_blocks |-> grown.map, i_size |-> size]]
             /\ UNCHANGED <<freeinode_ts, dir_entry, lock>>
             /\ \/ /\ copied.stop = "no"
                   /\ open_file_table' = [open_file_table EXCEPT ![fh].of_offset = end]
                   /\ UNCHANGED <<free_open_file_entries, mtx>>
                \/ LeavesLocked("write", fh)
                \/ UNCHANGED handles
    <2>1. size \in 0 .. MAX_FILE_SIZE /\ inode.i_size <= size
          /\ (copied.stop = "no" => end <= size)
      BY <1>1, <1>2
    <2> HIDE DEF inum, offset, to_write, end, grown, copied, size
    <2>2. /\ inode_table' \in [Inodes -> InodeRecord]
          /\ inode_table'[inum].i_size = size
          /\ \A i \in Inodes : i # inum => inode_table'[i] = inode_table[i]
      <3>1. [i_data_blocks |-> grown.map, i_size |-> size] \in InodeRecord
        BY <1>3, <2>1 DEF GrowState, InodeRecord
      <3>2. inode_table \in [Inodes -> InodeRecord]
        BY DEF TypeOK, InodeRecord, MapRecord
      <3> QED
        BY <1>1, <1>5, <3>1, <3>2
    <2>3. open_file_table \in [Handles -> FileEntry]
      BY DEF TypeOK, FileEntry
    <2>4. /\ open_file_table' \in [Handles -> FileEntry]
          /\ free_open_file_entries' \in [Handles -> {"FREE", "TAKEN"}]
          /\ mtx' \subseteq Handles
          /\ \A h \in Handles : open_file_table'[h].of_inumber = open_file_table[h].of_inumber
          /\ \A h \in Handles : \/ open_file_table'[h].of_offset = open_file_table[h].of_offset
                                \/ h = fh /\ open_file_table'[h].of_offset <= size
      <3>1. CASE /\ copied.stop = "no"
                 /\ open_file_table' = [open_file_table EXCEPT ![fh].of_offset = end]
                 /\ UNCHANGED <<free_open_file_entries, mtx>>
        <4>1. open_file_table' \in [Handles -> FileEntry]
          BY <1>2, <2>3, <3>1 DEF FileEntry
        <4>2. free_open_file_entries' \in [Handles -> {"FREE", "TAKEN"}] /\ mtx' \subseteq Handles
          BY <3>1 DEF TypeOK
        <4>3. \A h \in Handles : h # fh => open_file_table'[h] = open_file_table[h]
          BY <2>3, <3>1
        <4>4. /\ open_file_table'[fh].of_inumber = open_file_table[fh].of_inumber
              /\ open_file_table'[fh].of_offset = end
          BY <2>3, <3>1 DEF FileEntry
        <4> QED
          BY <2>1, <3>1, <4>1, <4>2, <4>3, <4>4
      <3>2. CASE LeavesLocked("write", fh)
        BY <2>3, <3>2 DEF LeavesLocked, TypeOK
      <3>3. CASE UNCHANGED handles
        BY <2>3, <3>3 DEF handles, TypeOK
      <3> QED
        BY <1>5, <3>1, <3>2, <3>3
    <2>5. TypeOK'
      BY <1>3, <1>5, <2>2, <2>4 DEF TypeOK, InodeRecord, MapRecord, FileEntry, GrowState, CopyState,
                                    BlockTable, BlockCells, CellValues
    <2>6. DirectoryInOrder'
      <3>1. PICK m \in 0 .. MAX_DIR_ENTRIES : InOrder(m)
        BY DEF DirectoryInOrder
      <3>2. \A h \in Handles : open_file_table'[h].of_inumber \in 0 .. m
        BY <2>4, <3>1 DEF InOrder
      <3>3. Running
        BY DEF tfs_write
      <3> QED
        BY <1>5, <3>1, <3>2, <3>3, SameDirectory
    <2>7. OffsetsInside'
      <3> SUFFICES ASSUME NEW h \in Handles
                   PROVE  open_file_table'[h].of_offset
                            <= inode_table'[open_file_table'[h].of_inumber].i_size
        BY DEF OffsetsInside
      <3> DEFINE i == open_file_table[h].of_inumber
      <3>1. /\ i \in Inodes /\ open_file_table[h].of_offset \in Nat
            /\ open_file_table[h].of_offset <= inode_table[i].i_size
        BY <2>3, <1>1 DEF OffsetsInside, FileEntry
      <3>2. inode_table[i].i_size <= inode_table'[i].i_size
        <4>1. inode_table[i].i_size \in Nat /\ size \in Nat
          BY <1>1, <2>1, <3>1 DEF TypeOK
        <4> QED
          BY <2>1, <2>2, <3>1, <4>1
      <3>3. inode_table[i].i_size \in Nat /\ inode_table'[i].i_size \in Nat
        BY <1>1, <2>2, <3>1 DEF TypeOK, InodeRecord
      <3>4. CASE open_file_table'[h].of_offset = open_file_table[h].of_offset
        BY <2>4, <3>1, <3>2, <3>3, <3>4
      <3>5. CASE h = fh /\ open_file_table'[h].of_offset <= size
        <4>1. i = inum
          BY <3>5 DEF inum
        <4> QED
          BY <2>2, <2>4, <3>5, <4>1
      <3> QED
        BY <2>4, <3>4, <3>5
    <2> QED
      BY <2>5, <2>6, <2>7
  <1> HIDE DEF inum, offset, inode, to_write, end, grown, copied, size
  <1> QED
    BY <1>4, <1>5 DEF tfs_write, Hangs, inum, offset, inode, to_write, end, grown, copied, size

\* A call that moves the offset of one handle inside its file, or leaves locks.
LEMMA OffsetMoved ==
  ASSUME TInv, Running, UNCHANGED tables,
         open_file_table' \in [Handles -> FileEntry],
         free_open_file_entries' \in [Handles -> {"FREE", "TAKEN"}],
         mtx' \subseteq Handles, lock' \subseteq Inodes,
         NEW m \in 0 .. MAX_DIR_ENTRIES, InOrder(m),
         \A h \in Handles :
           \/ open_file_table'[h] = open_file_table[h]
           \/ /\ open_file_table'[h].of_inumber \in 0 .. m
              /\ open_file_table'[h].of_offset
                   <= inode_table[open_file_table'[h].of_inumber].i_size
  PROVE  TInv'
  <1> USE DEF TInv
  <1>1. TypeOK'
    BY DEF TypeOK, tables, FileEntry
  <1>2. \A h \in Handles : open_file_table'[h].of_inumber \in 0 .. m
    BY DEF InOrder
  <1>3. DirectoryInOrder'
    BY <1>2, SameDirectory DEF tables
  <1>4. OffsetsInside'
    BY DEF OffsetsInside, tables
  <1> QED
    BY <1>1, <1>3, <1>4

LEMMA ReadStaysInside ==
  ASSUME NEW size \in Nat, NEW offset \in 0 .. size, NEW len \in Nat
  PROVE  ToRead(size, offset, len) \in 0 .. size - offset
  BY DEF ToRead

\* The block a file has for an offset, and the cell in it.
BlockFor(inode, p) ==
  BlockAt(inode.i_data_blocks, fs_data, inode.i_data_blocks[NDIRECT], p \div BLOCK_SIZE)

CellAt(inode, p) == fs_data[BlockFor(inode, p)][p % BLOCK_SIZE]

\* What a read that succeeds copies.
LEMMA GatheredBytes ==
  ASSUME TypeOK, NEW inode \in InodeRecord, NEW offset \in Nat, NEW n \in Nat,
         Gathered(inode, offset, n).stop = "no"
  PROVE  /\ Gathered(inode, offset, n).bytes \in Seq(CellValues)
         /\ Len(Gathered(inode, offset, n).bytes) = n
         /\ \A p \in offset .. offset + n - 1 : BlockFor(inode, p) \in Blocks
         /\ Gathered(inode, offset, n).bytes = [k \in 1 .. n |-> CellAt(inode, offset + k - 1)]
  <1> DEFINE fails == {p \in offset .. offset + n - 1 : BlockFor(inode, p) \notin Blocks}
             last  == IF fails = {} THEN offset + n ELSE Lowest(fails)
  <1>1. fails = {}
    BY DEF Gathered, BlockFor
  <1>2. Gathered(inode, offset, n).bytes
          = [k \in 1 .. last - offset |-> CellAt(inode, offset + k - 1)]
    BY DEF Gathered, BlockFor, CellAt
  <1>3. last - offset = n
    BY <1>1
  <1>4. ASSUME NEW k \in 1 .. n PROVE CellAt(inode, offset + k - 1) \in CellValues
    <2>1. offset + k - 1 \in offset .. offset + n - 1 /\ offset + k - 1 \in Nat
      OBVIOUS
    <2>2. BlockFor(inode, offset + k - 1) \in Blocks /\ (offset + k - 1) % BLOCK_SIZE \in Cells
      BY <1>1, <2>1, Division
    <2> QED
      BY <2>2 DEF TypeOK, CellValues, CellAt
  <1> HIDE DEF last
  <1>5. Gathered(inode, offset, n).bytes = [k \in 1 .. n |-> CellAt(inode, offset + k - 1)]
    BY <1>2, <1>3
  <1> QED
    BY <1>1, <1>4, <1>5

LEMMA GatheredTyped ==
  ASSUME TypeOK, NEW inode \in InodeRecord, NEW offset \in Nat, NEW n \in Nat,
         Gathered(inode, offset, n).stop = "no"
  PROVE  /\ Gathered(inode, offset, n).bytes \in Seq(CellValues)
         /\ Len(Gathered(inode, offset, n).bytes) = n
  BY GatheredBytes

\* A read of bytes that all have a block succeeds.
LEMMA GatheredAll ==
  ASSUME NEW inode, NEW offset \in Nat, NEW n \in Nat,
         \A p \in offset .. offset + n - 1 : BlockFor(inode, p) \in Blocks
  PROVE  Gathered(inode, offset, n).stop = "no"
  BY DEF Gathered, BlockFor

LEMMA ReadTInv ==
  ASSUME TInv, NEW fh \in Handles, NEW len \in Lens, tfs_read(fh, len)
  PROVE  TInv'
  <1> USE DEF TInv
  <1> DEFINE inum    == open_file_table[fh].of_inumber
             offset  == open_file_table[fh].of_offset
             size    == inode_table[inum].i_size
             to_read == ToRead(size, offset, len)
  <1>1. /\ inum \in Inodes /\ size \in 0 .. MAX_FILE_SIZE /\ size \in Nat /\ offset \in 0 .. size
        /\ len \in Nat /\ offset \in Nat
    BY CallersAssumption, MaxFileSize DEF TypeOK, OffsetsInside
  <1>2. to_read \in 0 .. size - offset
    BY <1>1, ReadStaysInside
  <1>3. PICK m \in 0 .. MAX_DIR_ENTRIES : InOrder(m)
    BY DEF DirectoryInOrder
  <1>4. Running /\ UNCHANGED tables
    BY DEF tfs_read
  <1>5. open_file_table \in [Handles -> FileEntry]
    BY DEF TypeOK, FileEntry
  <1>6. CASE UNCHANGED <<handles, lock>>
    BY <1>4, <1>6, NothingDone DEF tables
  <1>7. CASE LeavesLocked("read", fh) /\ lock' = lock \cup {inum}
    <2>1. /\ open_file_table' \in [Handles -> FileEntry] /\ mtx' \subseteq Handles
          /\ free_open_file_entries' \in [Handles -> {"FREE", "TAKEN"}]
          /\ lock' \subseteq Inodes
      BY <1>1, <1>5, <1>7 DEF LeavesLocked, TypeOK
    <2>2. \A h \in Handles : open_file_table'[h] = open_file_table[h]
      BY <1>7 DEF LeavesLocked
    <2> QED
      BY <1>3, <1>4, <2>1, <2>2, OffsetMoved
  <1>8. CASE /\ open_file_table' = [open_file_table EXCEPT ![fh].of_offset = offset + to_read]
             /\ UNCHANGED <<free_open_file_entries, mtx, lock>>
    <2>1. offset + to_read \in 0 .. MAX_FILE_SIZE /\ offset + to_read <= size
      <3> HIDE DEF offset, to_read, size, inum
      <3> QED
        BY <1>1, <1>2, MaxFileSize
    <2> HIDE DEF to_read
    <2>2. /\ open_file_table' \in [Handles -> FileEntry] /\ mtx' \subseteq Handles
          /\ free_open_file_entries' \in [Handles -> {"FREE", "TAKEN"}]
          /\ lock' \subseteq Inodes
      BY <1>5, <1>8, <2>1 DEF FileEntry, TypeOK
    <2>3. \A h \in Handles : h # fh => open_file_table'[h] = open_file_table[h]
      BY <1>5, <1>8
    <2>4. open_file_table'[fh].of_inumber = inum /\ open_file_table'[fh].of_offset = offset + to_read
      BY <1>5, <1>8 DEF FileEntry
    <2>5. inum \in 0 .. m
      BY <1>3 DEF InOrder
    <2> QED
      BY <1>3, <1>4, <2>1, <2>2, <2>3, <2>4, <2>5, OffsetMoved
  <1> HIDE DEF to_read
  <1> QED
    BY <1>6, <1>7, <1>8 DEF tfs_read, to_read

LEMMA BadHandleTInv ==
  ASSUME TInv, NEW call, BadHandle(call)
  PROVE  TInv'
  BY NothingDone DEF BadHandle

-----------------------------------------------------------------------------
(***************************************************************************)
(* tfs_copy_to_external_fs.                                                *)
(***************************************************************************)

\* What the loop has copied: never more than the file has.
OutState(size) ==
  {out \in [stop : {"no", "crash", "error"}, bytes : Seq(CellValues)] : Len(out.bytes) <= size}

LEMMA CopyBlockTyped ==
  ASSUME TypeOK, NEW inode \in InodeRecord, NEW out \in OutState(inode.i_size)
  PROVE  CopyBlock(inode, out) \in OutState(inode.i_size)
  <1> DEFINE size == inode.i_size
             done == Len(out.bytes)
             n    == ToRead(size, done, BLOCK_SIZE)
             read == Gathered(inode, done, n)
  <1>1. /\ out.bytes \in Seq(CellValues) /\ done \in Nat /\ done <= size /\ size \in Nat
        /\ out.stop \in {"no", "crash", "error"}
        /\ out \in [stop : {"no", "crash", "error"}, bytes : Seq(CellValues)]
    BY MaxFileSize DEF OutState, InodeRecord
  <1>2. n \in 0 .. size - done
    <2>1. BLOCK_SIZE \in Nat /\ done \in 0 .. size
      BY <1>1, SizesAssumption
    <2> HIDE DEF done, size
    <2> QED
      BY <1>1, <2>1, ReadStaysInside
  <1>3. read.stop \in {"no", "crash", "error"}
    BY DEF Gathered
  <1>4. CASE out.stop # "no"
    BY <1>4 DEF CopyBlock
  <1>5. CASE out.stop = "no" /\ read.stop # "no"
    <2>1. CopyBlock(inode, out) = [out EXCEPT !.stop = read.stop]
      BY <1>5 DEF CopyBlock
    <2> HIDE DEF read
    <2> QED
      BY <1>1, <1>3, <2>1 DEF OutState
  <1>6. CASE out.stop = "no" /\ read.stop = "no"
    <2>1. CopyBlock(inode, out) = [out EXCEPT !.bytes = out.bytes \o read.bytes]
      BY <1>1, <1>6 DEF CopyBlock
    <2>2. read.bytes \in Seq(CellValues) /\ Len(read.bytes) = n
      <3> HIDE DEF n, done
      <3> QED
        BY <1>1, <1>2, <1>6, GatheredTyped
    <2> HIDE DEF read, n
    <2>3. out.bytes \o read.bytes \in Seq(CellValues)
          /\ Len(out.bytes \o read.bytes) = done + n
      BY <1>1, <2>2
    <2>4. done + n <= size
      BY <1>1, <1>2
    <2> QED
      BY <1>1, <2>1, <2>3, <2>4 DEF OutState
  <1> QED
    BY <1>4, <1>5, <1>6

\* turn holds what the loop of the copy has read after each turn.
CopyOutTurns(turn, inode) ==
  /\ turn \in [Nat -> OutState(inode.i_size)]
  /\ turn[0] = [stop |-> "no", bytes |-> <<>>]
  /\ \A n \in Nat : turn[n + 1] = CopyBlock(inode, turn[n])
  /\ CopiedOut(inode) = turn[Reads(inode.i_size)]

LEMMA CopyOutLoop ==
  ASSUME TypeOK, NEW inode \in InodeRecord
  PROVE  Reads(inode.i_size) \in Nat /\ \E turn : CopyOutTurns(turn, inode)
  <1> DEFINE size  == inode.i_size
             first == [stop |-> "no", bytes |-> <<>>]
             step  == [n \in Nat |-> [out \in OutState(size) |-> CopyBlock(inode, out)]]
             turn  == CHOOSE f : f = [n \in Nat |-> IF n = 0 THEN first
                                      ELSE CopyBlock(inode, f[n - 1])]
  <1>1. size \in Nat
    BY MaxFileSize DEF InodeRecord
  <1>2. first \in OutState(size)
    BY <1>1 DEF OutState
  <1>3. \A out \in OutState(size) : CopyBlock(inode, out) \in OutState(size)
    BY CopyBlockTyped
  <1>4. CopiedOut(inode) = turn[Reads(size)]
    BY DEF CopiedOut
  <1>5. Reads(size) \in Nat
    BY <1>1, BlocksEnough DEF Reads
  <1> HIDE DEF size, first
  <1>6. PICK f \in [Nat -> OutState(size)] :
          f[0] = first /\ \A n \in Nat : f[n + 1] = step[n][f[n]]
    <2>1. IsLoop(OutState(size), first, step)
      BY <1>2, <1>3 DEF IsLoop
    <2> HIDE DEF step
    <2>2. \E f : RunsOn(OutState(size), first, step, f)
      BY <2>1, LoopExists
    <2> QED
      BY <2>2 DEF RunsOn
  <1>7. f = [n \in Nat |-> IF n = 0 THEN first ELSE CopyBlock(inode, f[n - 1])]
    <2>1. ASSUME NEW n \in Nat, n # 0 PROVE f[n] = CopyBlock(inode, f[n - 1])
      <3>1. n - 1 \in Nat /\ (n - 1) + 1 = n
        BY <2>1
      <3>2. f[(n - 1) + 1] = step[n - 1][f[n - 1]] /\ f[n - 1] \in OutState(size)
        BY <1>6, <3>1
      <3> QED
        BY <3>1, <3>2
    <2> QED
      BY <1>6, <2>1
  <1>8. turn = [n \in Nat |-> IF n = 0 THEN first ELSE CopyBlock(inode, turn[n - 1])]
    BY <1>7
  <1> HIDE DEF turn
  <1>9. turn[0] = first /\ \A n \in Nat : turn[n + 1] = CopyBlock(inode, turn[n])
    <2> SUFFICES ASSUME NEW n \in Nat PROVE turn[n + 1] = CopyBlock(inode, turn[n])
      BY <1>8
    <2>1. n + 1 \in Nat /\ n + 1 # 0 /\ (n + 1) - 1 = n
      OBVIOUS
    <2> QED
      BY <1>8, <2>1
  <1> DEFINE typed == {n \in Nat : turn[n] \in OutState(size)}
  <1>10. 0 \in typed
    BY <1>2, <1>9
  <1>11. ASSUME NEW n \in Nat, n \in typed PROVE n + 1 \in typed
    BY <1>3, <1>9, <1>11
  <1> HIDE DEF typed
  <1>12. \A n \in Nat : n \in typed
    BY <1>10, <1>11, EveryTurn
  <1>13. turn \in [Nat -> OutState(size)]
    <2>1. \A n \in Nat : turn[n] \in OutState(size)
      BY <1>12 DEF typed
    <2> QED
      BY <1>8, <2>1
  <1>14. CopyOutTurns(turn, inode)
    BY <1>4, <1>9, <1>13 DEF CopyOutTurns, size, first
  <1> QED
    BY <1>5, <1>14 DEF size

LEMMA CopiedOutTyped ==
  ASSUME TypeOK, NEW inode \in InodeRecord
  PROVE  CopiedOut(inode) \in OutState(inode.i_size)
  BY CopyOutLoop DEF CopyOutTurns

LEMMA JoinedSeq ==
  ASSUME NEW S, NEW s \in Seq(S), NEW t \in Seq(S)
  PROVE  /\ Len(s \o t) = Len(s) + Len(t)
         /\ \A k \in 1 .. Len(s) : (s \o t)[k] = s[k]
         /\ \A k \in 1 .. Len(t) : (s \o t)[Len(s) + k] = t[k]
  OBVIOUS

\* After n turns the copy has the first n blocks of the file, or all it has.
CopiedSoFar(inode, out, n) ==
  out.stop = "no" =>
    /\ Len(out.bytes) = IF n * BLOCK_SIZE <= inode.i_size THEN n * BLOCK_SIZE ELSE inode.i_size
    /\ \A p \in 0 .. Len(out.bytes) - 1 :
         BlockFor(inode, p) \in Blocks /\ out.bytes[p + 1] = CellAt(inode, p)

LEMMA CopyBlockReads ==
  ASSUME TypeOK, NEW inode \in InodeRecord, NEW out \in OutState(inode.i_size), NEW n \in Nat,
         CopiedSoFar(inode, out, n)
  PROVE  CopiedSoFar(inode, CopyBlock(inode, out), n + 1)
  <1> DEFINE size == inode.i_size
             done == Len(out.bytes)
             more == ToRead(size, done, BLOCK_SIZE)
             read == Gathered(inode, done, more)
             next == CopyBlock(inode, out)
  <1>1. /\ out.bytes \in Seq(CellValues) /\ done \in Nat /\ done <= size /\ size \in Nat
        /\ BLOCK_SIZE \in Nat /\ n * BLOCK_SIZE \in Nat
        /\ (n + 1) * BLOCK_SIZE = n * BLOCK_SIZE + BLOCK_SIZE
    <2>1. out.bytes \in Seq(CellValues) /\ done \in Nat /\ done <= size
      BY DEF OutState
    <2>2. size \in Nat
      BY MaxFileSize DEF InodeRecord
    <2>3. BLOCK_SIZE \in Nat
      BY SizesAssumption
    <2>4. n * BLOCK_SIZE \in Nat /\ (n + 1) * BLOCK_SIZE = n * BLOCK_SIZE + BLOCK_SIZE
      BY <2>3
    <2> QED
      BY <2>1, <2>2, <2>3, <2>4
  <1>2. more \in 0 .. size - done /\ more = IF size - done > BLOCK_SIZE THEN BLOCK_SIZE ELSE size - done
    <2> HIDE DEF size, done
    <2> QED
      BY <1>1 DEF ToRead
  <1>3. CASE out.stop # "no" \/ read.stop # "no"
    <2>1. next.stop # "no"
      BY <1>3 DEF CopyBlock, OutState
    <2> HIDE DEF next
    <2> QED
      BY <2>1 DEF CopiedSoFar, next
  <1>4. CASE out.stop = "no" /\ read.stop = "no"
    <2>1. next.bytes = out.bytes \o read.bytes
      BY <1>4 DEF CopyBlock, OutState
    <2> HIDE DEF next, size
    <2>2. /\ read.bytes \in Seq(CellValues) /\ Len(read.bytes) = more
          /\ \A p \in done .. done + more - 1 : BlockFor(inode, p) \in Blocks
          /\ read.bytes = [k \in 1 .. more |-> CellAt(inode, done + k - 1)]
      <3> HIDE DEF done, more
      <3>1. done \in Nat /\ more \in Nat
        BY <1>1, <1>2
      <3> QED
        BY <1>4, <3>1, GatheredBytes
    <2> HIDE DEF read, more
    <2>3. /\ done = IF n * BLOCK_SIZE <= size THEN n * BLOCK_SIZE ELSE size
          /\ \A p \in 0 .. done - 1 :
               BlockFor(inode, p) \in Blocks /\ out.bytes[p + 1] = CellAt(inode, p)
      BY <1>4 DEF CopiedSoFar, size
    <2>4. done + more = IF (n + 1) * BLOCK_SIZE <= size THEN (n + 1) * BLOCK_SIZE ELSE size
      <3> HIDE DEF done
      <3> QED
        BY <1>1, <1>2, <2>3
    <2>5. /\ Len(next.bytes) = done + more
          /\ \A k \in 1 .. done : next.bytes[k] = out.bytes[k]
          /\ \A k \in 1 .. more : next.bytes[done + k] = read.bytes[k]
      <3>1. PICK s : s = out.bytes
        OBVIOUS
      <3>2. PICK t : t = read.bytes
        OBVIOUS
      <3>3. /\ Len(s \o t) = Len(s) + Len(t)
            /\ \A k \in 1 .. Len(s) : (s \o t)[k] = s[k]
            /\ \A k \in 1 .. Len(t) : (s \o t)[Len(s) + k] = t[k]
        <4>1. s \in Seq(CellValues) /\ t \in Seq(CellValues)
          BY <1>1, <2>2, <3>1, <3>2
        <4> QED
          BY <4>1, JoinedSeq
      <3>4. PICK w : w = s \o t
        OBVIOUS
      <3>5. next.bytes = w /\ done = Len(s) /\ more = Len(t)
        BY <2>1, <2>2, <3>1, <3>2, <3>4
      <3> HIDE DEF done
      <3>6. Len(w) = done + more
        BY <3>3, <3>4, <3>5
      <3>7. \A k \in 1 .. done : w[k] = s[k]
        BY <3>3, <3>4, <3>5
      <3>8. \A k \in 1 .. more : w[done + k] = t[k]
        BY <3>3, <3>4, <3>5
      <3> QED
        BY <3>1, <3>2, <3>5, <3>6, <3>7, <3>8
    <2>6. ASSUME NEW p \in 0 .. done + more - 1
          PROVE  BlockFor(inode, p) \in Blocks /\ next.bytes[p + 1] = CellAt(inode, p)
      <3> HIDE DEF done
      <3>1. CASE p < done
        <4>1. p \in 0 .. done - 1 /\ p + 1 \in 1 .. done
          BY <1>1, <1>2, <3>1
        <4> QED
          BY <2>3, <2>5, <4>1
      <3>2. CASE ~ p < done
        <4>1. /\ p + 1 - done \in 1 .. more /\ p \in done .. done + more - 1
              /\ done + (p + 1 - done) = p + 1 /\ done + (p + 1 - done) - 1 = p
          BY <1>1, <1>2, <3>2
        <4>2. next.bytes[done + (p + 1 - done)] = CellAt(inode, done + (p + 1 - done) - 1)
          BY <2>2, <2>5, <4>1
        <4> QED
          BY <2>2, <4>1, <4>2
      <3> QED
        BY <3>1, <3>2
    <2>7. CopiedSoFar(inode, next, n + 1)
      <3>1. PICK top : top = done + more
        OBVIOUS
      <3>2. PICK after : after = (n + 1) * BLOCK_SIZE
        OBVIOUS
      <3> HIDE DEF done
      <3>3. /\ Len(next.bytes) = top
            /\ top = IF after <= inode.i_size THEN after ELSE inode.i_size
            /\ \A p \in 0 .. top - 1 :
                 BlockFor(inode, p) \in Blocks /\ next.bytes[p + 1] = CellAt(inode, p)
        <4>1. Len(next.bytes) = top
          BY <2>5, <3>1
        <4>2. top = IF after <= inode.i_size THEN after ELSE inode.i_size
          BY <2>4, <3>1, <3>2 DEF size
        <4>3. \A p \in 0 .. top - 1 :
                BlockFor(inode, p) \in Blocks /\ next.bytes[p + 1] = CellAt(inode, p)
          <5>1. done + more - 1 = top - 1
            BY <1>1, <1>2, <3>1
          <5> QED
            BY <2>6, <5>1
        <4> QED
          BY <4>1, <4>2, <4>3
      <3> QED
        BY <3>2, <3>3 DEF CopiedSoFar
    <2> QED
      BY <2>7 DEF next
  <1> QED
    BY <1>3, <1>4

\* A copy that reads all its blocks has the bytes of the file.
LEMMA CopiedWhole ==
  ASSUME TypeOK, NEW inode \in InodeRecord, CopiedOut(inode).stop = "no"
  PROVE  CopiedOut(inode).bytes = Gathered(inode, 0, inode.i_size).bytes
  <1> DEFINE size == inode.i_size
             n    == Reads(size)
             out  == CopiedOut(inode)
  <1>1. size \in Nat /\ n \in Nat /\ size <= n * BLOCK_SIZE /\ n * BLOCK_SIZE \in Nat
    <2>1. size \in Nat
      BY MaxFileSize DEF InodeRecord
    <2> HIDE DEF size
    <2>2. n \in Nat /\ size <= n * BLOCK_SIZE
      BY <2>1, BlocksEnough DEF Reads
    <2> HIDE DEF n
    <2> QED
      BY <2>1, <2>2, SizesAssumption
  <1>2. PICK turn : CopyOutTurns(turn, inode)
    BY CopyOutLoop
  <1> DEFINE good == {k \in Nat : CopiedSoFar(inode, turn[k], k)}
  <1>3. 0 \in good
    <2>1. turn[0] = [stop |-> "no", bytes |-> <<>>]
      BY <1>2 DEF CopyOutTurns
    <2>2. Len(turn[0].bytes) = 0 /\ 0 * BLOCK_SIZE = 0 /\ 0 .. 0 - 1 = {}
      BY <2>1, SizesAssumption
    <2> QED
      BY <1>1, <2>2 DEF CopiedSoFar
  <1>4. ASSUME NEW k \in Nat, k \in good PROVE k + 1 \in good
    <2>1. turn[k] \in OutState(inode.i_size) /\ turn[k + 1] = CopyBlock(inode, turn[k])
      BY <1>2 DEF CopyOutTurns
    <2> QED
      BY <1>4, <2>1, CopyBlockReads
  <1> HIDE DEF good
  <1>5. \A k \in Nat : k \in good
    BY <1>3, <1>4, EveryTurn
  <1>6. CopiedSoFar(inode, out, n)
    BY <1>1, <1>2, <1>5 DEF good, CopyOutTurns
  <1>7. out.bytes \in Seq(CellValues)
    BY CopiedOutTyped DEF OutState
  <1> HIDE DEF out, n
  <1>8. /\ Len(out.bytes) = size
        /\ \A p \in 0 .. size - 1 : BlockFor(inode, p) \in Blocks /\ out.bytes[p + 1] = CellAt(inode, p)
    <2> HIDE DEF size
    <2>1. n * BLOCK_SIZE <= size => n * BLOCK_SIZE = size
      BY <1>1
    <2> QED
      BY <1>6, <2>1 DEF CopiedSoFar, size, out
  <1>9. Gathered(inode, 0, size).bytes = [k \in 1 .. size |-> CellAt(inode, 0 + k - 1)]
    <2> HIDE DEF size
    <2>1. \A p \in 0 .. 0 + size - 1 : BlockFor(inode, p) \in Blocks
      BY <1>1, <1>8
    <2>2. Gathered(inode, 0, size).stop = "no"
      BY <1>1, <2>1, GatheredAll
    <2> QED
      BY <1>1, <2>2, GatheredBytes
  <1>10. out.bytes = [k \in 1 .. size |-> CellAt(inode, 0 + k - 1)]
    <2> HIDE DEF size
    <2>1. out.bytes = [k \in 1 .. size |-> out.bytes[k]]
      BY <1>1, <1>7, <1>8
    <2>2. \A k \in 1 .. size : out.bytes[k] = CellAt(inode, 0 + k - 1)
      <3> SUFFICES ASSUME NEW k \in 1 .. size PROVE out.bytes[k] = CellAt(inode, 0 + k - 1)
        OBVIOUS
      <3>1. k - 1 \in 0 .. size - 1 /\ (k - 1) + 1 = k /\ 0 + k - 1 = k - 1
        BY <1>1
      <3>2. out.bytes[(k - 1) + 1] = CellAt(inode, k - 1)
        BY <1>8, <3>1
      <3> QED
        BY <3>1, <3>2
    <2> QED
      BY <2>1, <2>2
  <1> QED
    BY <1>9, <1>10 DEF out

LEMMA CopyTInv ==
  ASSUME TInv, NEW name \in Names, tfs_copy_to_external_fs(name)
  PROVE  TInv'
  <1> USE DEF TInv
  <1> DEFINE inum == find_in_dir(name)
             out  == CopiedOut(inode_table[inum])
             Leaves(h_state, offset) ==
               /\ free_open_file_entries' = [h \in Handles |->
                    IF h \in Chosen THEN h_state ELSE free_open_file_entries[h]]
               /\ open_file_table' = [h \in Handles |->
                    IF h \in Chosen THEN [of_inumber |-> inum, of_offset |-> offset]
                                    ELSE open_file_table[h]]
  <1>1. Running /\ UNCHANGED tables
    BY DEF tfs_copy_to_external_fs
  <1>2. PICK m \in 0 .. MAX_DIR_ENTRIES : InOrder(m)
    BY DEF DirectoryInOrder
  <1>3. inum = -1 \/ inum \in 1 .. m
    BY <1>2, FoundInDir
  <1>4. CASE UNCHANGED <<handles, lock>>
    BY <1>1, <1>4, NothingDone DEF tables
  <1>5. CASE /\ inum >= 0
             /\ \E state \in {"FREE", "TAKEN"}, offset \in {0, Len(out.bytes)} :
                  Leaves(state, offset)
             /\ mtx' \in {mtx \cup Skipped, mtx \cup Skipped \cup Chosen}
             /\ lock' \in {lock, lock \cup {inum}}
    <2>1. /\ inum \in 0 .. m /\ inum \in Inodes /\ inode_table[inum] \in InodeRecord
          /\ inode_table[inum].i_size \in 0 .. MAX_FILE_SIZE
      BY <1>2, <1>3, <1>5, FilesHaveInodes DEF TypeOK, InodeRecord, MapRecord
    <2>2. out \in OutState(inode_table[inum].i_size)
      <3> HIDE DEF inum
      <3> QED
        BY <2>1, CopiedOutTyped
    <2> HIDE DEF inum, out
    <2>3. PICK state \in {"FREE", "TAKEN"}, offset \in {0, Len(out.bytes)} : Leaves(state, offset)
      BY <1>5
    <2>4. offset \in 0 .. inode_table[inum].i_size /\ offset \in 0 .. MAX_FILE_SIZE
      <3>1. Len(out.bytes) \in Nat /\ Len(out.bytes) <= inode_table[inum].i_size
        BY <2>2 DEF OutState
      <3> QED
        BY <2>1, <2>3, <3>1, MaxFileSize
    <2> DEFINE new == [of_inumber |-> inum, of_offset |-> offset]
    <2>5. new \in FileEntry /\ open_file_table \in [Handles -> FileEntry]
      BY <2>1, <2>4 DEF FileEntry, TypeOK
    <2>6. /\ open_file_table' \in [Handles -> FileEntry]
          /\ \A h \in Handles : open_file_table'[h] = open_file_table[h] \/ open_file_table'[h] = new
      <3> HIDE DEF new
      <3> QED
        BY <2>3, <2>5 DEF new
    <2>7. /\ free_open_file_entries' \in [Handles -> {"FREE", "TAKEN"}]
          /\ mtx' \subseteq Handles /\ lock' \subseteq Inodes
      BY <1>5, <2>1, <2>3 DEF TypeOK, Skipped, Chosen
    <2> QED
      BY <1>1, <1>2, <2>1, <2>4, <2>6, <2>7, OffsetMoved
  <1> HIDE DEF out
  <1> QED
    BY <1>4, <1>5 DEF tfs_copy_to_external_fs, out

-----------------------------------------------------------------------------
LEMMA NextTInv == NoTruncation /\ TInv /\ [Next]_vars => TInv'
  <1> SUFFICES ASSUME NoTruncation, TInv, [Next]_vars PROVE TInv'
    OBVIOUS
  <1>1. CASE UNCHANGED vars
    BY <1>1 DEF vars, tables, handles, TInv, TypeOK, DirectoryInOrder, InOrder, OffsetsInside, Running
  <1>2. ASSUME NEW name \in Names, NEW flags \in SUBSET Flags, tfs_open(name, flags) PROVE TInv'
    BY <1>2, OpenTInv
  <1>3. ASSUME NEW fh \in Handles, tfs_close(fh) PROVE TInv'
    BY <1>3, CloseTInv
  <1>4. ASSUME NEW fh \in Handles, NEW v \in Data, NEW n \in Lens, tfs_write(fh, v, n) PROVE TInv'
    BY <1>4, WriteTInv
  <1>5. ASSUME NEW fh \in Handles, NEW len \in Lens, tfs_read(fh, len) PROVE TInv'
    BY <1>5, ReadTInv
  <1>6. ASSUME NEW name \in Names, tfs_copy_to_external_fs(name) PROVE TInv'
    BY <1>6, CopyTInv
  <1>7. ASSUME NEW call, BadHandle(call) PROVE TInv'
    BY <1>7, BadHandleTInv
  <1> QED
    BY <1>1, <1>2, <1>3, <1>4, <1>5, <1>6, <1>7 DEF Next

\* Every table of the first exercise holds values of its declared type, and no
\* offset or size passes MAX_FILE_SIZE, for callers that do not truncate (fs/
\* state.c, fs/operations.c): a truncation of an open file leaves its offset
\* beyond the size, and the next read moves it on by whatever length it asks.
THEOREM TypeCorrect ==
  ASSUME NoTruncation
  PROVE  Spec => []TypeOK
  <1>1. Init => TInv
    BY InitTInv
  <1>2. TInv /\ [Next]_vars => TInv'
    BY NextTInv
  <1>3. TInv => TypeOK
    BY DEF TInv
  <1> QED
    BY <1>1, <1>2, <1>3, PTL DEF Spec

-----------------------------------------------------------------------------
(***************************************************************************)
(* Who holds which block.  The places of a file of n blocks are those of   *)
(* its bytes, and -1 for the indirect block.                               *)
(***************************************************************************)

Spots(n) == (0 .. n - 1) \cup (IF n > NDIRECT THEN {-1} ELSE {})

\* The block in a place of the file of that map.
BlockIn(map, data, k) ==
  IF k = -1 THEN map[NDIRECT] ELSE BlockAt(map, data, map[NDIRECT], k)

\* The places a file gets that grows from "from" blocks to m.
Added(from, m) ==
  (from .. m - 1) \cup (IF from <= NDIRECT /\ m > NDIRECT THEN {-1} ELSE {})

\* A block that was free when the write began and is the file's now.
Fresh(g, b) == b \in Blocks /\ free_blocks[b] = "FREE" /\ g.free[b] = "TAKEN"

\* What the growth of the file of that map and "from" blocks leaves alone: the
\* blocks in use, those of the file, and what the blocks of others hold.
Kept(g, map, from) ==
  /\ g.ind = g.map[NDIRECT]
  /\ \A b \in Blocks : free_blocks[b] = "TAKEN" => g.free[b] = "TAKEN"
  /\ \A k \in Spots(from) : BlockIn(g.map, g.data, k) = BlockIn(map, fs_data, k)
  /\ \A b \in Blocks :
       free_blocks[b] = "TAKEN" /\ (from > NDIRECT => b # map[NDIRECT]) => g.data[b] = fs_data[b]

\* No block is left.
NoneFree(free) == \A b \in Blocks : free[b] = "TAKEN"

\* What the file has been given in those places: blocks nobody had, or none
\* where there was no free one, each in one place.
Given(g, places) ==
  /\ \A k \in places : \/ Fresh(g, BlockIn(g.map, g.data, k))
                       \/ k # -1 /\ BlockIn(g.map, g.data, k) = -1 /\ NoneFree(g.free)
  /\ \A k, l \in places :
       BlockIn(g.map, g.data, k) # -1 /\ BlockIn(g.map, g.data, k) = BlockIn(g.map, g.data, l)
       => k = l

\* The indirect block, where there is one, is in use.
HasIndirect(map, from) ==
  from > NDIRECT => map[NDIRECT] \in Blocks /\ free_blocks[map[NDIRECT]] = "TAKEN"

\* A search for a block fails when no block is left.
LEMMA AllocFails ==
  ASSUME NEW free \in BlockTable, data_block_alloc(free) = -1
  PROVE  NoneFree(free)
  <1>1. Free(free) \in SUBSET Nat /\ DOMAIN free = Blocks
    BY SizesAssumption DEF Free, BlockTable, Blocks
  <1>2. Free(free) # {} => Lowest(Free(free)) \in Nat
    BY <1>1, LowestIn
  <1>3. Free(free) = {}
    BY <1>2 DEF data_block_alloc
  <1> QED
    BY <1>1, <1>3 DEF NoneFree, Free, BlockTable

\* The block a search finds while a file grows is fresh.
LEMMA FreshBlock ==
  ASSUME TypeOK, NEW free \in BlockTable,
         \A b \in Blocks : free_blocks[b] = "TAKEN" => free[b] = "TAKEN"
  PROVE  /\ data_block_alloc(free) \in Blocks \cup {-1} /\ -1 \notin Blocks
         /\ data_block_alloc(free) \in Blocks =>
              /\ free_blocks[data_block_alloc(free)] = "FREE"
              /\ free[data_block_alloc(free)] = "FREE"
              /\ AfterAlloc(free)[data_block_alloc(free)] = "TAKEN"
         /\ AfterAlloc(free) \in BlockTable
         /\ \A b \in Blocks : free[b] = "TAKEN" => AfterAlloc(free)[b] = "TAKEN"
  <1>1. free_blocks \in BlockTable
    BY DEF TypeOK, BlockTable
  <1>2. \A b \in Blocks : free_blocks[b] = "FREE" \/ free_blocks[b] = "TAKEN"
    BY <1>1 DEF BlockTable
  <1>3. \A b \in Blocks : free[b] = "FREE" => free_blocks[b] = "FREE"
    BY <1>2
  <1> QED
    BY <1>3, Alloc

\* A turn that gives the file one block more and moves none it was given.
LEMMA GivenOneMore ==
  ASSUME NEW g, NEW h, NEW places, NEW m, Given(g, places), -1 \notin Blocks,
         \A k \in places : BlockIn(h.map, h.data, k) = BlockIn(g.map, g.data, k),
         \A b \in Blocks : g.free[b] = "TAKEN" => h.free[b] = "TAKEN",
         \/ m # -1 /\ BlockIn(h.map, h.data, m) = -1 /\ NoneFree(g.free)
         \/ Fresh(h, BlockIn(h.map, h.data, m)) /\ g.free[BlockIn(h.map, h.data, m)] = "FREE"
  PROVE  Given(h, places \cup {m})
  <1> DEFINE new == BlockIn(h.map, h.data, m)
  <1>0. NoneFree(g.free) => NoneFree(h.free)
    BY DEF NoneFree
  <1>1. ASSUME NEW k \in places, k # m
        PROVE  /\ \/ Fresh(h, BlockIn(h.map, h.data, k))
                  \/ k # -1 /\ BlockIn(h.map, h.data, k) = -1 /\ NoneFree(h.free)
               /\ BlockIn(h.map, h.data, k) # -1 => BlockIn(h.map, h.data, k) # new
    BY <1>0 DEF Given, Fresh
  <1>2. Fresh(h, new) \/ (m # -1 /\ new = -1 /\ NoneFree(h.free))
    BY <1>0
  <1> HIDE DEF new
  <1>4. ASSUME NEW k \in places \cup {m}
        PROVE  \/ Fresh(h, BlockIn(h.map, h.data, k))
               \/ k # -1 /\ BlockIn(h.map, h.data, k) = -1 /\ NoneFree(h.free)
    BY <1>1, <1>2 DEF new
  <1>5. ASSUME NEW k \in places \cup {m}, NEW l \in places \cup {m},
               BlockIn(h.map, h.data, k) # -1,
               BlockIn(h.map, h.data, k) = BlockIn(h.map, h.data, l)
        PROVE  k = l
    <2>1. CASE k = m \/ l = m
      BY <1>1, <1>5, <2>1 DEF new
    <2>2. CASE k # m /\ l # m
      <3>1. k \in places /\ l \in places
        BY <2>2
      <3>2. /\ BlockIn(h.map, h.data, k) = BlockIn(g.map, g.data, k)
            /\ BlockIn(h.map, h.data, l) = BlockIn(g.map, g.data, l)
        BY <3>1
      <3> QED
        BY <1>5, <3>1, <3>2 DEF Given
    <2> QED
      BY <2>1, <2>2
  <1> QED
    BY <1>4, <1>5 DEF Given

\* A turn that gives a direct block.
LEMMA GrowDirect ==
  ASSUME TypeOK, NEW map \in MapRecord, NEW from \in Nat, NEW to \in Nat,
         NEW g \in GrowState, ~ g.fault, NEW m \in Nat, from <= m, m < NDIRECT,
         Kept(g, map, from), Given(g, Added(from, m))
  PROVE  /\ Kept(Grow(g, m, from, to), map, from)
         /\ Given(Grow(g, m, from, to), Added(from, m + 1))
  <1> DEFINE h == Grow(g, m, from, to)
             b == data_block_alloc(g.free)
  <1>1. /\ g.map \in MapRecord /\ g.free \in BlockTable /\ NDIRECT \in Nat
        /\ m \in 0 .. NDIRECT /\ m # NDIRECT /\ NDIRECT \in 0 .. NDIRECT
    BY SizesAssumption DEF GrowState
  <1>2. /\ h.map = [g.map EXCEPT ![m] = b] /\ h.free = AfterAlloc(g.free)
        /\ h.ind = g.ind /\ h.data = g.data
    BY DEF Grow, GrowState
  <1>3. \A c \in Blocks : free_blocks[c] = "TAKEN" => g.free[c] = "TAKEN"
    BY DEF Kept
  <1>4. /\ b \in Blocks \cup {-1} /\ -1 \notin Blocks
        /\ b \in Blocks => free_blocks[b] = "FREE" /\ g.free[b] = "FREE" /\ h.free[b] = "TAKEN"
        /\ \A c \in Blocks : g.free[c] = "TAKEN" => h.free[c] = "TAKEN"
    BY <1>1, <1>2, <1>3, FreshBlock
  <1> HIDE DEF h, b
  <1>5. /\ h.map[NDIRECT] = g.map[NDIRECT] /\ h.map[m] = b
        /\ \A k \in 0 .. NDIRECT : k # m => h.map[k] = g.map[k]
    BY <1>1, <1>2 DEF MapRecord
  <1>6. \A k \in Nat \cup {-1} : k # m => BlockIn(h.map, h.data, k) = BlockIn(g.map, g.data, k)
    BY <1>1, <1>2, <1>5 DEF BlockIn, BlockAt
  <1>7. BlockIn(h.map, h.data, m) = b
    BY <1>1, <1>5 DEF BlockIn, BlockAt
  <1>8. Kept(h, map, from)
    <2>1. \A k \in Spots(from) : k \in Nat \cup {-1} /\ k # m
      BY <1>1 DEF Spots
    <2>2. \A k \in Spots(from) : BlockIn(h.map, h.data, k) = BlockIn(map, fs_data, k)
      BY <1>6, <2>1 DEF Kept
    <2> QED
      BY <1>2, <1>3, <1>4, <1>5, <2>2 DEF Kept
  <1>9. Given(h, Added(from, m + 1))
    <2>1. Added(from, m + 1) = from .. m /\ Added(from, m) = from .. m - 1
      BY <1>1 DEF Added
    <2>2. from .. m = (from .. m - 1) \cup {m} /\ \A k \in from .. m - 1 : k \in Nat /\ k # m
      OBVIOUS
    <2>3. \A k \in Added(from, m) : BlockIn(h.map, h.data, k) = BlockIn(g.map, g.data, k)
      BY <1>6, <2>1, <2>2
    <2>4. \/ m # -1 /\ BlockIn(h.map, h.data, m) = -1 /\ NoneFree(g.free)
          \/ Fresh(h, BlockIn(h.map, h.data, m)) /\ g.free[BlockIn(h.map, h.data, m)] = "FREE"
      <3>1. b = -1 => NoneFree(g.free)
        BY <1>1, AllocFails DEF b
      <3> QED
        BY <1>4, <1>7, <3>1 DEF Fresh
    <2>5. Given(h, Added(from, m) \cup {m})
      BY <1>4, <2>3, <2>4, GivenOneMore
    <2> QED
      BY <2>1, <2>2, <2>5
  <1> QED
    BY <1>8, <1>9 DEF h

\* A turn that writes a block in the indirect one the file has.
LEMMA GrowIndirect ==
  ASSUME TypeOK, NEW map \in MapRecord, NEW from \in Nat, NEW to \in Nat,
         NEW g \in GrowState, ~ g.fault, NEW m \in Nat, from <= m,
         from > NDIRECT, m < NDIRECT + BLOCK_SIZE, HasIndirect(map, from),
         Kept(g, map, from), Given(g, Added(from, m))
  PROVE  /\ Kept(Grow(g, m, from, to), map, from)
         /\ Given(Grow(g, m, from, to), Added(from, m + 1))
         /\ ~ Grow(g, m, from, to).fault
  <1> DEFINE h   == Grow(g, m, from, to)
             b   == data_block_alloc(g.free)
             ind == map[NDIRECT]
  <1>1. /\ g.map \in MapRecord /\ g.free \in BlockTable /\ NDIRECT \in Nat /\ BLOCK_SIZE \in Nat
        /\ g.data \in BlockCells /\ m - NDIRECT \in Cells /\ from \in Nat /\ ~ m < NDIRECT
    BY SizesAssumption DEF GrowState, Cells
  <1>2. ind \in Blocks /\ free_blocks[ind] = "TAKEN" /\ -1 \notin Blocks /\ ind # -1
    BY SizesAssumption DEF HasIndirect, Blocks
  <1>3. g.map[NDIRECT] = ind /\ g.ind = ind
    <2>1. -1 \in Spots(from)
      BY DEF Spots
    <2>2. BlockIn(g.map, g.data, -1) = BlockIn(map, fs_data, -1)
      BY <2>1 DEF Kept
    <2> QED
      BY <2>2 DEF BlockIn, Kept
  <1>4. /\ h.map = g.map /\ h.ind = ind /\ h.free = AfterAlloc(g.free) /\ ~ h.fault
        /\ h.data = [g.data EXCEPT ![ind] =
                       [c \in Cells |-> IF c = Place(m) THEN b ELSE g.data[ind][c]]]
    <2>1. ~ Renews(from)
      BY <1>1 DEF Renews
    <2>2. h.map = [g.map EXCEPT ![NDIRECT] = g.map[NDIRECT]]
      BY <1>1, <1>2, <1>3, <2>1 DEF Grow, GrowState
    <2>3. /\ h.ind = ind /\ h.free = AfterAlloc(g.free) /\ ~ h.fault
          /\ h.data = [g.data EXCEPT ![ind] =
                         [c \in Cells |-> CASE c = Place(m) -> b
                                            [] FALSE /\ c >= to - NDIRECT -> -1
                                            [] OTHER -> g.data[ind][c]]]
      BY <1>1, <1>2, <1>3, <2>1 DEF Grow, GrowState
    <2>4. h.map = g.map
      BY <1>1, <2>2 DEF MapRecord
    <2>5. [c \in Cells |-> CASE c = Place(m) -> b
                             [] FALSE /\ c >= to - NDIRECT -> -1
                             [] OTHER -> g.data[ind][c]]
            = [c \in Cells |-> IF c = Place(m) THEN b ELSE g.data[ind][c]]
      OBVIOUS
    <2> HIDE DEF h, b, ind
    <2> QED
      BY <2>3, <2>4, <2>5
  <1>5. \A c \in Blocks : free_blocks[c] = "TAKEN" => g.free[c] = "TAKEN"
    BY DEF Kept
  <1>6. /\ b \in Blocks \cup {-1}
        /\ b \in Blocks => free_blocks[b] = "FREE" /\ g.free[b] = "FREE" /\ h.free[b] = "TAKEN"
        /\ \A c \in Blocks : g.free[c] = "TAKEN" => h.free[c] = "TAKEN"
    BY <1>1, <1>4, <1>5, FreshBlock
  <1> HIDE DEF h, b, ind
  <1>7. /\ \A c \in Blocks : c # ind => h.data[c] = g.data[c]
        /\ h.data[ind][m - NDIRECT] = b
        /\ \A c \in Cells : c # m - NDIRECT => h.data[ind][c] = g.data[ind][c]
    BY <1>1, <1>2, <1>4 DEF BlockCells, Place
  <1>8. \A k \in -1 .. m - 1 : BlockIn(h.map, h.data, k) = BlockIn(g.map, g.data, k)
    <2> SUFFICES ASSUME NEW k \in -1 .. m - 1
                 PROVE  BlockIn(h.map, h.data, k) = BlockIn(g.map, g.data, k)
      OBVIOUS
    <2>1. CASE k < NDIRECT
      BY <1>4, <2>1 DEF BlockIn, BlockAt
    <2>2. CASE ~ k < NDIRECT
      <3>1. k - NDIRECT \in Cells /\ k - NDIRECT # m - NDIRECT /\ k # -1
        BY <1>1, <2>2 DEF Cells
      <3>2. /\ BlockIn(h.map, h.data, k) = h.data[ind][k - NDIRECT]
            /\ BlockIn(g.map, g.data, k) = g.data[ind][k - NDIRECT]
        BY <1>2, <1>3, <1>4, <2>2, <3>1 DEF BlockIn, BlockAt
      <3> QED
        BY <1>7, <3>1, <3>2
    <2> QED
      BY <2>1, <2>2
  <1>9. BlockIn(h.map, h.data, m) = b
    BY <1>1, <1>2, <1>3, <1>4, <1>7 DEF BlockIn, BlockAt
  <1>10. Kept(h, map, from)
    <2>1. \A k \in Spots(from) : k \in -1 .. m - 1
      BY DEF Spots
    <2>2. \A k \in Spots(from) : BlockIn(h.map, h.data, k) = BlockIn(map, fs_data, k)
      BY <1>8, <2>1 DEF Kept
    <2>3. \A c \in Blocks : free_blocks[c] = "TAKEN" => h.free[c] = "TAKEN"
      BY <1>5, <1>6
    <2>4. \A c \in Blocks :
            free_blocks[c] = "TAKEN" /\ (from > NDIRECT => c # map[NDIRECT]) => h.data[c] = fs_data[c]
      BY <1>7 DEF Kept, ind
    <2>5. h.ind = h.map[NDIRECT]
      BY <1>3, <1>4
    <2> QED
      BY <2>2, <2>3, <2>4, <2>5 DEF Kept
  <1>11. Given(h, Added(from, m + 1))
    <2>1. Added(from, m + 1) = from .. m /\ Added(from, m) = from .. m - 1
      BY <1>1 DEF Added
    <2>2. from .. m = (from .. m - 1) \cup {m} /\ \A k \in from .. m - 1 : k \in -1 .. m - 1
      OBVIOUS
    <2>3. \A k \in Added(from, m) : BlockIn(h.map, h.data, k) = BlockIn(g.map, g.data, k)
      BY <1>8, <2>1, <2>2
    <2>4. \/ m # -1 /\ BlockIn(h.map, h.data, m) = -1 /\ NoneFree(g.free)
          \/ Fresh(h, BlockIn(h.map, h.data, m)) /\ g.free[BlockIn(h.map, h.data, m)] = "FREE"
      <3>1. b = -1 => NoneFree(g.free)
        BY <1>1, AllocFails DEF b
      <3> QED
        BY <1>6, <1>9, <3>1 DEF Fresh
    <2>5. Given(h, Added(from, m) \cup {m})
      BY <1>2, <1>6, <2>3, <2>4, GivenOneMore
    <2> QED
      BY <2>1, <2>2, <2>5
  <1> QED
    BY <1>4, <1>10, <1>11 DEF h

\* The turn that takes an indirect block, where there was none to keep.
LEMMA GrowRenewing ==
  ASSUME TypeOK, NEW map \in MapRecord, NEW from \in Nat, NEW to \in Nat,
         NEW g \in GrowState, ~ g.fault, NEW m \in Nat, from <= m,
         from <= NDIRECT, m = NDIRECT, m < to,
         Kept(g, map, from), Given(g, Added(from, m))
  PROVE  /\ Kept(Grow(g, m, from, to), map, from)
         /\ ~ Grow(g, m, from, to).fault => Given(Grow(g, m, from, to), Added(from, m + 1))
  <1> DEFINE h    == Grow(g, m, from, to)
             ind  == data_block_alloc(g.free)
             free == AfterAlloc(g.free)
             b    == data_block_alloc(free)
             was  == g.data[ind]
             cell(c) == CASE c = Place(m) -> b
                          [] TRUE /\ c >= to - NDIRECT -> -1
                          [] OTHER -> was[c]
  <1>1. /\ g.map \in MapRecord /\ g.free \in BlockTable /\ NDIRECT \in Nat /\ BLOCK_SIZE \in Nat
        /\ g.data \in BlockCells /\ 0 \in Cells /\ ~ m < NDIRECT /\ Renews(from)
        /\ NDIRECT \in 0 .. NDIRECT
    BY SizesAssumption DEF GrowState, Cells, Renews
  <1>2. \A c \in Blocks : free_blocks[c] = "TAKEN" => g.free[c] = "TAKEN"
    BY DEF Kept
  <1>3. /\ ind \in Blocks \cup {-1} /\ -1 \notin Blocks /\ free \in BlockTable
        /\ ind \in Blocks => free_blocks[ind] = "FREE" /\ g.free[ind] = "FREE" /\ free[ind] = "TAKEN"
        /\ \A c \in Blocks : g.free[c] = "TAKEN" => free[c] = "TAKEN"
    BY <1>1, <1>2, FreshBlock
  <1>4. CASE ind = -1
    <2>1. h = [g EXCEPT !.fault = TRUE]
      BY <1>1, <1>4 DEF Grow
    <2>2. h.map = g.map /\ h.ind = g.ind /\ h.free = g.free /\ h.data = g.data /\ h.fault
      BY <2>1 DEF GrowState
    <2> HIDE DEF h
    <2> QED
      BY <2>2 DEF Kept, h
  <1>5. CASE ind # -1
    <2>1. /\ h.map = [g.map EXCEPT ![NDIRECT] = ind] /\ h.ind = ind
          /\ h.free = AfterAlloc(free) /\ ~ h.fault
          /\ h.data = [g.data EXCEPT ![ind] = [c \in Cells |-> cell(c)]]
      BY <1>1, <1>5 DEF Grow, GrowState
    <2>2. Place(m) = 0
      BY <1>1 DEF Place
    <2> HIDE DEF h, ind, was
    <2>3. /\ ind \in Blocks
          /\ h.map[NDIRECT] = ind
          /\ \A k \in 0 .. NDIRECT : k # NDIRECT => h.map[k] = g.map[k]
          /\ h.data[ind][0] = b
          /\ \A c \in Blocks : c # ind => h.data[c] = g.data[c]
      <3>1. cell(0) = b
        <4>1. 0 = Place(m) /\ ~ 0 >= to - NDIRECT
          BY <1>1, <2>2
        <4> HIDE DEF b
        <4> QED
          BY <4>1
      <3>2. ind \in Blocks
        BY <1>3, <1>5
      <3> HIDE DEF cell
      <3> QED
        BY <1>1, <2>1, <3>1, <3>2 DEF MapRecord, BlockCells
    <2> HIDE DEF cell
    <2>4. \A c \in Blocks : free_blocks[c] = "TAKEN" => free[c] = "TAKEN"
      BY <1>2, <1>3
    <2>5. /\ b \in Blocks \cup {-1}
          /\ b \in Blocks => free_blocks[b] = "FREE" /\ free[b] = "FREE" /\ h.free[b] = "TAKEN"
          /\ \A c \in Blocks : free[c] = "TAKEN" => h.free[c] = "TAKEN"
      BY <1>3, <2>1, <2>4, FreshBlock
    <2> HIDE DEF free, b
    <2>6. \A k \in 0 .. NDIRECT - 1 : BlockIn(h.map, h.data, k) = BlockIn(g.map, g.data, k)
      BY <1>1, <2>3 DEF BlockIn, BlockAt
    <2>7. BlockIn(h.map, h.data, -1) = ind
      BY <2>3 DEF BlockIn
    <2>8. BlockIn(h.map, h.data, NDIRECT) = b
      BY <1>1, <1>5, <2>3 DEF BlockIn, BlockAt
    <2>9. Kept(h, map, from)
      <3>1. \A k \in Spots(from) : k \in 0 .. NDIRECT - 1
        BY <1>1 DEF Spots
      <3>2. \A k \in Spots(from) : BlockIn(h.map, h.data, k) = BlockIn(map, fs_data, k)
        BY <2>6, <3>1 DEF Kept
      <3>3. \A c \in Blocks : free_blocks[c] = "TAKEN" => h.free[c] = "TAKEN"
        BY <2>4, <2>5
      <3>4. \A c \in Blocks :
              free_blocks[c] = "TAKEN" /\ (from > NDIRECT => c # map[NDIRECT])
              => h.data[c] = fs_data[c]
        <4>1. \A c \in Blocks : free_blocks[c] = "TAKEN" => c # ind
          BY <1>3, <2>3
        <4> QED
          BY <2>3, <4>1 DEF Kept
      <3> QED
        BY <2>1, <2>3, <3>2, <3>3, <3>4 DEF Kept
    <2>10. Given(h, Added(from, m + 1))
      <3> DEFINE between == [h EXCEPT !.free = free]
      <3>1. h \in GrowState
        BY GrowTyped DEF h
      <3>2. between.map = h.map /\ between.data = h.data /\ between.free = free
        BY <3>1 DEF GrowState
      <3> HIDE DEF between
      <3>3. Added(from, m) = from .. NDIRECT - 1 /\ \A k \in from .. NDIRECT - 1 : k \in 0 .. NDIRECT - 1
        BY <1>1 DEF Added
      <3>4. Given(between, Added(from, m) \cup {-1})
        <4>1. \A k \in Added(from, m) :
                BlockIn(between.map, between.data, k) = BlockIn(g.map, g.data, k)
          BY <2>6, <3>2, <3>3
        <4>2. /\ Fresh(between, BlockIn(between.map, between.data, -1))
              /\ g.free[BlockIn(between.map, between.data, -1)] = "FREE"
          BY <1>3, <2>3, <2>7, <3>2 DEF Fresh
        <4> QED
          BY <1>3, <3>2, <4>1, <4>2, GivenOneMore
      <3>5. Given(h, Added(from, m) \cup {-1} \cup {NDIRECT})
        <4>1. \A k \in Added(from, m) \cup {-1} :
                BlockIn(h.map, h.data, k) = BlockIn(between.map, between.data, k)
          BY <3>2
        <4>2. \/ NDIRECT # -1 /\ BlockIn(h.map, h.data, NDIRECT) = -1 /\ NoneFree(between.free)
              \/ /\ Fresh(h, BlockIn(h.map, h.data, NDIRECT))
                 /\ between.free[BlockIn(h.map, h.data, NDIRECT)] = "FREE"
          <5>1. b = -1 => NoneFree(free)
            BY <1>3, AllocFails DEF b
          <5> QED
            BY <1>1, <2>5, <2>8, <3>2, <5>1 DEF Fresh
        <4> QED
          BY <1>3, <2>5, <3>2, <3>4, <4>1, <4>2, GivenOneMore
      <3>6. Added(from, m + 1) = Added(from, m) \cup {-1} \cup {NDIRECT}
        <4>1. Added(from, m + 1) = (from .. NDIRECT) \cup {-1}
          BY <1>1 DEF Added
        <4>2. from .. NDIRECT = (from .. NDIRECT - 1) \cup {NDIRECT}
          BY <1>1
        <4> QED
          BY <3>3, <4>1, <4>2
      <3> QED
        BY <3>5, <3>6
    <2> QED
      BY <2>9, <2>10 DEF h
  <1> QED
    BY <1>4, <1>5

\* The places of a file that has grown from "from" blocks to m.
LEMMA SpotsGrow ==
  ASSUME NEW from \in Nat, NEW m \in Nat, from <= m
  PROVE  Spots(m) = Spots(from) \cup Added(from, m)
  <1>1. NDIRECT \in Nat
    BY SizesAssumption
  <1>2. 0 .. m - 1 = (0 .. from - 1) \cup (from .. m - 1)
    OBVIOUS
  <1>3. CASE from > NDIRECT
    BY <1>1, <1>2, <1>3 DEF Spots, Added
  <1>4. CASE from <= NDIRECT
    BY <1>1, <1>2, <1>4 DEF Spots, Added
  <1> QED
    BY <1>1, <1>3, <1>4

\* All the turns of the growth, where a write adds at most one block beyond the
\* direct ones or the file has its indirect block already.
LEMMA GrownKeeps ==
  ASSUME TypeOK, NEW inode \in InodeRecord, NEW from \in Nat, from = BlocksOf(inode.i_size),
         NEW to \in 0 .. NDIRECT + BLOCK_SIZE, to <= NDIRECT + 1 \/ from > NDIRECT,
         HasIndirect(inode.i_data_blocks, from)
  PROVE  /\ Kept(Grown(inode, to), inode.i_data_blocks, from)
         /\ ~ Grown(inode, to).fault =>
              Given(Grown(inode, to), Added(from, from + Turns(from, to)))
  <1> DEFINE map == inode.i_data_blocks
  <1>1. map \in MapRecord /\ NDIRECT \in Nat /\ BLOCK_SIZE \in Nat /\ to \in Nat
    BY SizesAssumption DEF InodeRecord
  <1>2. Ungrown(inode) \in GrowState
    <2>1. NDIRECT \in 0 .. NDIRECT
      BY SizesAssumption
    <2> QED
      BY <2>1 DEF Ungrown, GrowState, InodeRecord, MapRecord, BlockTable, BlockCells, CellValues,
                  TypeOK
  <1>3. PICK turn \in [Nat -> GrowState] :
          /\ turn[0] = Ungrown(inode)
          /\ \A n \in Nat : turn[n + 1] = Grow(turn[n], from + n, from, to)
          /\ Grown(inode, to) = turn[Turns(from, to)]
    BY <1>1, <1>2, GrowLoop
  <1> DEFINE Good(n) == /\ Kept(turn[n], map, from)
                        /\ ~ turn[n].fault => Given(turn[n], Added(from, from + n))
             good == {n \in Nat : n <= Turns(from, to) => Good(n)}
  <1>4. Good(0)
    <2>1. Added(from, from + 0) = {}
      BY <1>1 DEF Added
    <2>2. turn[0] = Ungrown(inode)
      BY <1>3
    <2>3. Kept(turn[0], map, from)
      BY <2>2 DEF Kept, Ungrown
    <2>4. Given(turn[0], {})
      BY DEF Given
    <2> HIDE DEF map
    <2> QED
      BY <2>1, <2>3, <2>4
  <1>5. ASSUME NEW n \in Nat, n < Turns(from, to), Good(n) PROVE Good(n + 1)
    <2> DEFINE g == turn[n]
               m == from + n
    <2>1. m \in Nat /\ from <= m /\ m < to /\ from + (n + 1) = m + 1
      BY <1>5 DEF Turns
    <2>2. g \in GrowState /\ turn[n + 1] = Grow(g, m, from, to)
      BY <1>3
    <2>3. Kept(g, map, from) /\ (~ g.fault => Given(g, Added(from, m)))
      BY <1>5
    <2> HIDE DEF map, g, m
    <2>4. CASE g.fault
      <3>1. turn[n + 1] = g
        BY <2>2, <2>4 DEF Grow
      <3> QED
        BY <2>3, <2>4, <3>1
    <2>5. CASE ~ g.fault /\ m < NDIRECT
      BY <1>1, <2>1, <2>2, <2>3, <2>5, GrowDirect
    <2>6. CASE ~ g.fault /\ ~ m < NDIRECT /\ from > NDIRECT
      <3>1. m < NDIRECT + BLOCK_SIZE
        BY <1>1, <2>1
      <3>2. HasIndirect(map, from)
        BY DEF map
      <3> QED
        BY <1>1, <2>1, <2>2, <2>3, <2>6, <3>1, <3>2, GrowIndirect
    <2>7. CASE ~ g.fault /\ ~ m < NDIRECT /\ ~ from > NDIRECT
      <3>1. m = NDIRECT /\ from <= NDIRECT
        BY <1>1, <2>1, <2>7
      <3> QED
        BY <1>1, <2>1, <2>2, <2>3, <2>7, <3>1, GrowRenewing
    <2> QED
      BY <2>4, <2>5, <2>6, <2>7
  <1> HIDE DEF Good
  <1>6. 0 \in good
    BY <1>4
  <1>7. ASSUME NEW n \in Nat, n \in good PROVE n + 1 \in good
    <2>1. Turns(from, to) \in Nat
      BY <1>1 DEF Turns
    <2> QED
      BY <1>5, <1>7, <2>1
  <1> HIDE DEF good
  <1>8. \A n \in Nat : n \in good
    BY <1>6, <1>7, EveryTurn
  <1>9. Turns(from, to) \in Nat /\ Turns(from, to) <= Turns(from, to)
    BY <1>1 DEF Turns
  <1>10. Good(Turns(from, to))
    BY <1>8, <1>9 DEF good
  <1> QED
    BY <1>3, <1>10 DEF Good

\* A file of m blocks that no two places share, and none of them the directory's.
Whole(g, m) ==
  /\ g.ind = g.map[NDIRECT]
  /\ -1 \in Spots(m) => g.ind \in Blocks
  /\ \A k \in Spots(m) : BlockIn(g.map, g.data, k) # 0
  /\ \A k, l \in Spots(m) :
       BlockIn(g.map, g.data, k) # -1 /\ BlockIn(g.map, g.data, k) = BlockIn(g.map, g.data, l)
       => k = l

\* What the copy has done when it comes to the k-th block: it has written in
\* blocks of the file's bytes only, and found each one it came to, or stopped
\* at one the file does not have.
Written(d, g, m, first, k) ==
  /\ d.map = g.map /\ d.ind = g.ind /\ d.stop # "overrun"
  /\ \A b \in Blocks : (\A l \in 0 .. m - 1 : b # BlockIn(g.map, g.data, l))
                         => d.data[b] = g.data[b]
  /\ d.stop = "no" => \A l \in first .. k - 1 : BlockIn(g.map, g.data, l) \in Blocks
  /\ d.stop = "error" => \E l \in 0 .. m - 1 : BlockIn(g.map, g.data, l) \notin Blocks

LEMMA CopyTurn ==
  ASSUME NEW g \in GrowState, NEW m \in Nat, Whole(g, m), NEW d \in CopyState,
         NEW first \in Nat, NEW k \in Nat, first <= k, k < m, Written(d, g, m, first, k),
         NEW from, NEW to, NEW v \in Data
  PROVE  Written(Copy(d, k, from, to, v), g, m, first, k + 1)
  <1> DEFINE e     == Copy(d, k, from, to, v)
             b     == BlockAt(d.map, d.data, d.ind, k)
             cells == [c \in Cells |-> IF k * BLOCK_SIZE + c \in from .. to - 1
                                       THEN v ELSE d.data[b][c]]
  <1>1. NDIRECT \in Nat /\ k \in Spots(m) /\ k # -1 /\ k \in 0 .. m - 1 /\ -1 \notin Blocks
    BY SizesAssumption DEF Spots, Blocks
  <1>2. b = BlockIn(g.map, g.data, k)
    <2>1. CASE k < NDIRECT
      BY <1>1, <2>1 DEF BlockIn, BlockAt, Written
    <2>2. CASE ~ k < NDIRECT
      <3>1. -1 \in Spots(m) /\ g.ind \in Blocks
        BY <1>1, <2>2 DEF Spots, Whole
      <3>2. BlockIn(g.map, g.data, -1) = g.ind
        BY DEF BlockIn, Whole
      <3>3. \A l \in 0 .. m - 1 : l \in Spots(m) /\ l # -1
        BY DEF Spots
      <3>4. \A l \in 0 .. m - 1 : g.ind # BlockIn(g.map, g.data, l)
        BY <1>1, <3>1, <3>2, <3>3 DEF Whole
      <3>5. d.data[g.ind] = g.data[g.ind]
        BY <3>1, <3>4 DEF Written
      <3> QED
        BY <1>1, <2>2, <3>1, <3>5 DEF BlockIn, BlockAt, Written, Whole
    <2> QED
      BY <2>1, <2>2
  <1>3. b # 0
    BY <1>1, <1>2 DEF Whole
  <1> HIDE DEF b
  <1>4. CASE d.stop # "no"
    <2>1. e = d
      BY <1>4 DEF Copy
    <2> HIDE DEF e
    <2> QED
      BY <1>4, <2>1 DEF Written, e
  <1>5. CASE d.stop = "no" /\ (b = -2 \/ b \notin Blocks)
    <2>1. \E stop \in {"crash", "error"} : e = [d EXCEPT !.stop = stop]
      BY <1>5 DEF Copy, b
    <2> HIDE DEF e
    <2>2. e.map = d.map /\ e.ind = d.ind /\ e.data = d.data /\ e.stop \in {"crash", "error"}
      BY <2>1 DEF CopyState
    <2>3. \E l \in 0 .. m - 1 : BlockIn(g.map, g.data, l) \notin Blocks
      BY <1>1, <1>2, <1>5, SizesAssumption DEF Blocks
    <2> QED
      BY <2>2, <2>3 DEF Written, e
  <1>6. CASE d.stop = "no" /\ b # -2 /\ b \in Blocks
    <2>1. e = [d EXCEPT !.data = [d.data EXCEPT ![b] = cells]]
      BY <1>3, <1>6 DEF Copy, CopyState, b
    <2> HIDE DEF e, cells
    <2>2. /\ e.map = d.map /\ e.ind = d.ind /\ e.stop = "no"
          /\ \A c \in Blocks : c # b => e.data[c] = d.data[c]
      BY <1>6, <2>1 DEF CopyState, BlockCells
    <2>3. \A c \in Blocks : (\A l \in 0 .. m - 1 : c # BlockIn(g.map, g.data, l))
                              => e.data[c] = g.data[c]
      BY <1>1, <1>2, <2>2 DEF Written
    <2>4. \A l \in first .. k : BlockIn(g.map, g.data, l) \in Blocks
      <3>1. \A l \in first .. k : l = k \/ l \in first .. k - 1
        OBVIOUS
      <3> QED
        BY <1>2, <1>6, <3>1 DEF Written
    <2>5. (k + 1) - 1 = k
      OBVIOUS
    <2>6. Written(e, g, m, first, k + 1)
      BY <2>2, <2>3, <2>4, <2>5 DEF Written
    <2> QED
      BY <2>6 DEF e
  <1> QED
    BY <1>4, <1>5, <1>6

LEMMA CopiedKeeps ==
  ASSUME NEW g \in GrowState, ~ g.fault, NEW m \in Nat, Whole(g, m),
         NEW from \in Nat, NEW to \in Nat, NEW v \in Data, BlocksOf(to) <= m
  PROVE  Written(Copied(g, from, to, v), g, m, from \div BLOCK_SIZE,
                 from \div BLOCK_SIZE + Turns(from \div BLOCK_SIZE, BlocksOf(to)))
  <1> DEFINE first == from \div BLOCK_SIZE
             turns == Turns(first, BlocksOf(to))
  <1>1. first \in Nat /\ BlocksOf(to) \in Nat /\ first = from \div BLOCK_SIZE
    BY Division, BlocksEnough
  <1>2. turns \in Nat /\ \A n \in Nat : n < turns => first + n < m
    BY <1>1 DEF Turns
  <1>3. Uncopied(g) \in CopyState
    BY DEF Uncopied, GrowState, CopyState
  <1>4. PICK turn \in [Nat -> CopyState] :
          /\ turn[0] = Uncopied(g)
          /\ \A n \in Nat : turn[n + 1] = Copy(turn[n], first + n, from, to, v)
          /\ Copied(g, from, to, v) = turn[turns]
    <2> HIDE DEF first
    <2>1. \E turn : CopyTurns(turn, g, first, from, to, v)
      BY <1>1, <1>3, CopyLoop
    <2> QED
      BY <2>1 DEF CopyTurns
  <1> HIDE DEF first, turns
  <1> DEFINE Good(n) == Written(turn[n], g, m, first, first + n)
             good == {n \in Nat : n <= turns => Good(n)}
  <1>5. Good(0)
    <2>1. first .. (first + 0) - 1 = {}
      BY <1>1
    <2>2. turn[0].map = g.map /\ turn[0].ind = g.ind /\ turn[0].data = g.data /\ turn[0].stop = "no"
      BY <1>4 DEF Uncopied
    <2> QED
      BY <2>1, <2>2 DEF Written
  <1>6. ASSUME NEW n \in Nat, n < turns, Good(n) PROVE Good(n + 1)
    <2>1. /\ turn[n] \in CopyState /\ first + n \in Nat /\ first <= first + n /\ first + n < m
          /\ first + (n + 1) = (first + n) + 1
          /\ turn[n + 1] = Copy(turn[n], first + n, from, to, v)
      BY <1>1, <1>2, <1>4, <1>6
    <2>2. Written(Copy(turn[n], first + n, from, to, v), g, m, first, (first + n) + 1)
      BY <1>1, <1>6, <2>1, CopyTurn
    <2> QED
      BY <2>1, <2>2
  <1> HIDE DEF Good
  <1>7. 0 \in good
    BY <1>5
  <1>8. ASSUME NEW n \in Nat, n \in good PROVE n + 1 \in good
    BY <1>2, <1>6, <1>8
  <1> HIDE DEF good
  <1>9. \A n \in Nat : n \in good
    BY <1>7, <1>8, EveryTurn
  <1>10. Good(turns)
    BY <1>2, <1>9 DEF good
  <1> QED
    BY <1>4, <1>10 DEF Good, first, turns

\* A growth that failed half way: nothing is copied.
LEMMA CopiedNothing ==
  ASSUME NEW g \in GrowState, g.fault, NEW from \in Nat, NEW to \in Nat, NEW v \in Data
  PROVE  Copied(g, from, to, v) = Uncopied(g)
  <1> DEFINE first == from \div BLOCK_SIZE
             turns == Turns(first, BlocksOf(to))
  <1>1. first \in Nat /\ BlocksOf(to) \in Nat /\ first = from \div BLOCK_SIZE
    BY Division, BlocksEnough
  <1>2. turns \in Nat
    BY <1>1 DEF Turns
  <1>3. Uncopied(g) \in CopyState /\ Uncopied(g).stop # "no"
    BY DEF Uncopied, GrowState, CopyState
  <1>4. PICK turn \in [Nat -> CopyState] :
          /\ turn[0] = Uncopied(g)
          /\ \A n \in Nat : turn[n + 1] = Copy(turn[n], first + n, from, to, v)
          /\ Copied(g, from, to, v) = turn[turns]
    <2> HIDE DEF first
    <2>1. \E turn : CopyTurns(turn, g, first, from, to, v)
      BY <1>1, <1>3, CopyLoop
    <2> QED
      BY <2>1 DEF CopyTurns
  <1> HIDE DEF first, turns
  <1> DEFINE good == {n \in Nat : turn[n] = Uncopied(g)}
  <1>5. 0 \in good
    BY <1>4
  <1>6. ASSUME NEW n \in Nat, n \in good PROVE n + 1 \in good
    <2>1. turn[n + 1] = Copy(turn[n], first + n, from, to, v) /\ turn[n] = Uncopied(g)
      BY <1>4, <1>6
    <2>2. turn[n + 1] = Uncopied(g)
      BY <1>3, <2>1 DEF Copy
    <2> QED
      BY <2>2
  <1> HIDE DEF good
  <1>7. turns \in good
    BY <1>2, <1>5, <1>6, EveryTurn
  <1> QED
    BY <1>4, <1>7 DEF good

-----------------------------------------------------------------------------
(***************************************************************************)
(* The second invariant: the blocks of the files are theirs.               *)
(***************************************************************************)

Owners == Files \cap Taken(freeinode_ts)

SpotsOf(i)    == Spots(BlocksOf(inode_table[i].i_size))
BlockOf(i, k) == BlockIn(inode_table[i].i_data_blocks, fs_data, k)

\* The blocks of the files are in use, and not the directory's ...
Owned ==
  /\ free_blocks[0] = "TAKEN"
  /\ \A i \in Owners : \A k \in SpotsOf(i) :
       BlockOf(i, k) \in Blocks \ {0} /\ free_blocks[BlockOf(i, k)] = "TAKEN"

\* ... and each is in one place of one file.
Apart ==
  \A i, j \in Owners : \A k \in SpotsOf(i) : \A l \in SpotsOf(j) :
    BlockOf(i, k) = BlockOf(j, l) => i = j /\ k = l

SInv == TInv /\ reply.call # "overrun" /\ Owned /\ Apart

LEMMA OwnedApart ==
  ASSUME SInv
  PROVE  NoBlockShared
  <1> DEFINE held == UNION {Holds(i) : i \in Owners}
  <1>1. \A i : Holds(i) = {<<i, k, BlockOf(i, k)>> : k \in SpotsOf(i)}
    <2> SUFFICES ASSUME NEW i
                 PROVE  Holds(i) = {<<i, k, BlockOf(i, k)>> : k \in SpotsOf(i)}
      OBVIOUS
    <2> DEFINE map == inode_table[i].i_data_blocks
               n   == BlocksOf(inode_table[i].i_size)
               direct == {<<i, k, BlockAt(map, fs_data, map[NDIRECT], k)>> : k \in 0 .. n - 1}
    <2>1. \A k \in 0 .. n - 1 : BlockOf(i, k) = BlockAt(map, fs_data, map[NDIRECT], k)
      BY DEF BlockOf, BlockIn
    <2>2. BlockOf(i, -1) = map[NDIRECT]
      BY DEF BlockOf, BlockIn
    <2>3. Holds(i) = direct \cup (IF n > NDIRECT THEN {<<i, -1, map[NDIRECT]>>} ELSE {})
      BY DEF Holds
    <2>4. direct = {<<i, k, BlockOf(i, k)>> : k \in 0 .. n - 1}
      BY <2>1
    <2>5. SpotsOf(i) = (0 .. n - 1) \cup (IF n > NDIRECT THEN {-1} ELSE {})
      BY DEF SpotsOf, Spots
    <2> HIDE DEF direct, map, n
    <2>6. CASE n > NDIRECT
      BY <2>2, <2>3, <2>4, <2>5, <2>6
    <2>7. CASE ~ n > NDIRECT
      BY <2>2, <2>3, <2>4, <2>5, <2>7
    <2> QED
      BY <2>6, <2>7
  <1>2. \A x \in held : \E i \in Owners : \E k \in SpotsOf(i) : x = <<i, k, BlockOf(i, k)>>
    BY <1>1
  <1> HIDE DEF held
  <1>3. \A x \in held : x[3] \in Taken(free_blocks) \ {0}
    <2> SUFFICES ASSUME NEW x \in held PROVE x[3] \in Taken(free_blocks) \ {0}
      OBVIOUS
    <2>0. PICK i \in Owners : \E k \in SpotsOf(i) : x = <<i, k, BlockOf(i, k)>>
      BY <1>2
    <2>1. PICK k \in SpotsOf(i) : x = <<i, k, BlockOf(i, k)>>
      BY <2>0
    <2>2. x[3] \in Blocks \ {0} /\ free_blocks[x[3]] = "TAKEN"
      BY <2>1 DEF SInv, Owned
    <2>3. DOMAIN free_blocks = Blocks
      BY DEF SInv, TInv, TypeOK
    <2> QED
      BY <2>2, <2>3 DEF Taken
  <1>4. \A x, y \in held : x[3] = y[3] => x = y
    <2> SUFFICES ASSUME NEW x \in held, NEW y \in held, x[3] = y[3] PROVE x = y
      OBVIOUS
    <2>0. PICK i \in Owners : \E k \in SpotsOf(i) : x = <<i, k, BlockOf(i, k)>>
      BY <1>2
    <2>1. PICK k \in SpotsOf(i) : x = <<i, k, BlockOf(i, k)>>
      BY <2>0
    <2>5. PICK j \in Owners : \E l \in SpotsOf(j) : y = <<j, l, BlockOf(j, l)>>
      BY <1>2
    <2>2. PICK l \in SpotsOf(j) : y = <<j, l, BlockOf(j, l)>>
      BY <2>5
    <2>3. BlockOf(i, k) = BlockOf(j, l)
      BY <2>1, <2>2
    <2>4. i = j /\ k = l
      BY <2>3 DEF SInv, Apart
    <2> QED
      BY <2>1, <2>2, <2>4
  <1> QED
    BY <1>3, <1>4 DEF NoBlockShared, SInv, held, Owners

\* A call that leaves the tables alone.
LEMMA SameBlocks ==
  ASSUME SInv, UNCHANGED tables
  PROVE  Owned' /\ Apart'
  BY DEF SInv, tables, Owned, Apart, Owners, SpotsOf, BlockOf, Taken

LEMMA EmptyFile == BlocksOf(0) = 0 /\ Spots(0) = {}
  <1>1. BLOCK_SIZE \in Nat \ {0} /\ NDIRECT \in Nat
    BY SizesAssumption
  <1>2. BlocksOf(0) \in Nat /\ BlocksOf(0) * BLOCK_SIZE < BLOCK_SIZE
    BY <1>1, BlocksEnough
  <1>3. 0 < BlocksOf(0) => 0 * BLOCK_SIZE + BLOCK_SIZE <= BlocksOf(0) * BLOCK_SIZE
    BY <1>2, Multiples
  <1>4. BlocksOf(0) = 0
    BY <1>1, <1>2, <1>3
  <1> QED
    BY <1>1, <1>4 DEF Spots

\* The creation of a file: it has no block.
LEMMA OpenCreatedBlocks ==
  ASSUME SInv, Running, NEW m \in 0 .. MAX_DIR_ENTRIES, InOrder(m),
         NEW name \in Names, OpenCreated(name)
  PROVE  Owned' /\ Apart' /\ reply'.call # "overrun"
  <1>1. PICK inum \in Inodes : TypeOK /\ inum = Lowest(Free(freeinode_ts))
    <2>1. TypeOK
      BY DEF SInv, TInv
    <2> QED
      BY <2>1, NextFree
  <1>2. reply'.call # "overrun"
    BY DEF OpenCreated, End, Reply, add_to_open_file_table
  <1>3. CASE UNCHANGED tables
    BY <1>2, <1>3, SameBlocks
  <1>4. CASE /\ freeinode_ts' = [freeinode_ts EXCEPT ![inum] = "TAKEN"]
             /\ inode_table' = [inode_table EXCEPT ![inum] = NewInode]
             /\ UNCHANGED <<free_blocks, fs_data>>
    <2>1. inode_table'[inum].i_size = 0
      BY <1>1, <1>4, NewInodeTyped DEF TypeOK
    <2>2. SpotsOf(inum)' = {}
      BY <2>1, EmptyFile DEF SpotsOf
    <2>3. ASSUME NEW i \in Owners', i # inum
          PROVE  i \in Owners /\ SpotsOf(i)' = SpotsOf(i) /\ \A k : BlockOf(i, k)' = BlockOf(i, k)
      <3>1. i \in Inodes /\ freeinode_ts'[i] = "TAKEN" /\ i \in Files
        BY <2>3 DEF Owners, Taken, Files
      <3>2. inode_table'[i] = inode_table[i] /\ freeinode_ts[i] = "TAKEN"
        BY <1>1, <1>4, <2>3, <3>1 DEF TypeOK
      <3>3. i \in Owners
        BY <3>1, <3>2 DEF Owners, Taken, TypeOK, SInv, TInv
      <3> QED
        BY <1>4, <3>2, <3>3 DEF SpotsOf, BlockOf
    <2>4. Owned'
      <3> SUFFICES ASSUME NEW i \in Owners', NEW k \in SpotsOf(i)'
                   PROVE  BlockOf(i, k)' \in Blocks \ {0} /\ free_blocks'[BlockOf(i, k)'] = "TAKEN"
        BY <1>4 DEF Owned, SInv
      <3>1. i # inum
        BY <2>2
      <3> QED
        BY <1>4, <2>3, <3>1 DEF Owned, SInv
    <2>5. Apart'
      <3> SUFFICES ASSUME NEW i \in Owners', NEW j \in Owners',
                          NEW k \in SpotsOf(i)', NEW l \in SpotsOf(j)',
                          BlockOf(i, k)' = BlockOf(j, l)'
                   PROVE  i = j /\ k = l
        BY DEF Apart
      <3>1. i # inum /\ j # inum
        BY <2>2
      <3> QED
        BY <2>3, <3>1 DEF Apart, SInv
    <2> QED
      BY <1>2, <2>4, <2>5
  <1> QED
    BY <1>1, <1>3, <1>4 DEF OpenCreated, tables

-----------------------------------------------------------------------------
\* A file of f that has grown: its blocks are apart from each other, and none is
\* another file's.
LEMMA GrownWhole ==
  ASSUME SInv, NEW f \in Owners, NEW from \in Nat, from = BlocksOf(inode_table[f].i_size),
         NEW m \in Nat, from <= m, NEW g \in GrowState,
         Kept(g, inode_table[f].i_data_blocks, from), Given(g, Added(from, m))
  PROVE  /\ Whole(g, m)
         /\ \A j \in Owners : \A l \in SpotsOf(j) : \A k \in Spots(m) :
              j # f => BlockOf(j, l) # BlockIn(g.map, g.data, k)
  <1> DEFINE at(k) == BlockIn(g.map, g.data, k)
  <1>1. /\ Spots(m) = Spots(from) \cup Added(from, m) /\ SpotsOf(f) = Spots(from)
        /\ -1 \notin Blocks /\ 0 # -1
    BY SpotsGrow, SizesAssumption DEF SpotsOf, Blocks
  <1>2. \A k \in Spots(from) :
          at(k) = BlockOf(f, k) /\ at(k) \in Blocks \ {0} /\ free_blocks[at(k)] = "TAKEN"
    BY <1>1 DEF Kept, BlockOf, SInv, Owned
  <1>3. \A k \in Added(from, m) :
          \/ at(k) \in Blocks \ {0} /\ free_blocks[at(k)] = "FREE"
          \/ k # -1 /\ at(k) = -1
    BY DEF Given, Fresh, SInv, Owned
  <1>4. g.ind = g.map[NDIRECT] /\ at(-1) = g.ind
    BY DEF Kept, BlockIn
  <1>5. \A k, l \in Added(from, m) : at(k) # -1 /\ at(k) = at(l) => k = l
    BY DEF Given
  <1> HIDE DEF at
  <1>6. -1 \in Spots(m) => g.ind \in Blocks
    BY <1>1, <1>2, <1>3, <1>4
  <1>7. \A k \in Spots(m) : at(k) # 0
    BY <1>1, <1>2, <1>3
  <1>8. ASSUME NEW k \in Spots(m), NEW l \in Spots(m), at(k) # -1, at(k) = at(l)
        PROVE  k = l
    <2>1. CASE k \in Spots(from) /\ l \in Spots(from)
      BY <1>1, <1>2, <1>8, <2>1 DEF SInv, Apart
    <2>2. CASE k \in Added(from, m) /\ l \in Added(from, m)
      BY <1>5, <1>8, <2>2
    <2>3. CASE (k \in Spots(from) /\ l \in Added(from, m)) \/ (l \in Spots(from) /\ k \in Added(from, m))
      BY <1>2, <1>3, <1>8, <2>3
    <2> QED
      BY <1>1, <2>1, <2>2, <2>3
  <1>9. ASSUME NEW j \in Owners, NEW l \in SpotsOf(j), NEW k \in Spots(m), j # f
        PROVE  BlockOf(j, l) # at(k)
    <2>1. BlockOf(j, l) \in Blocks \ {0} /\ free_blocks[BlockOf(j, l)] = "TAKEN"
      BY DEF SInv, Owned
    <2>2. CASE k \in Spots(from)
      BY <1>1, <1>2, <1>9, <2>2 DEF SInv, Apart
    <2>3. CASE k \in Added(from, m)
      BY <1>1, <1>3, <2>1, <2>3
    <2> QED
      BY <1>1, <2>2, <2>3
  <1>10. Whole(g, m)
    BY <1>4, <1>6, <1>7, <1>8 DEF Whole, at
  <1> QED
    BY <1>9, <1>10 DEF at

\* A file has no more blocks than its i-node can hold.
LEMMA BlocksFit ==
  ASSUME NEW size \in 0 .. MAX_FILE_SIZE
  PROVE  BlocksOf(size) \in 0 .. NDIRECT + BLOCK_SIZE
  <1> DEFINE most == NDIRECT + BLOCK_SIZE
  <1>1. BLOCK_SIZE \in Nat \ {0} /\ most \in Nat /\ size \in Nat /\ size <= most * BLOCK_SIZE
    BY SizesAssumption, MaxFileSize DEF MAX_FILE_SIZE
  <1> HIDE DEF most
  <1>2. BlocksOf(size) \in Nat /\ BlocksOf(size) * BLOCK_SIZE < size + BLOCK_SIZE
    BY <1>1, BlocksEnough
  <1>3. most < BlocksOf(size) => most * BLOCK_SIZE + BLOCK_SIZE <= BlocksOf(size) * BLOCK_SIZE
    BY <1>1, <1>2, Multiples
  <1>4. most * BLOCK_SIZE \in Int /\ BlocksOf(size) * BLOCK_SIZE \in Int
    BY <1>1, <1>2
  <1>5. BlocksOf(size) <= most
    BY <1>1, <1>2, <1>3, <1>4
  <1> QED
    BY <1>1, <1>2, <1>5 DEF most

\* A write in a file starts in a block it has, or in the first it is given.
LEMMA FirstBlock ==
  ASSUME NEW size \in Nat, NEW offset \in 0 .. size
  PROVE  offset \div BLOCK_SIZE \in 0 .. BlocksOf(size)
  <1>1. /\ offset \div BLOCK_SIZE \in Nat /\ (offset \div BLOCK_SIZE) * BLOCK_SIZE <= offset
        /\ BlocksOf(size) \in Nat /\ size <= BlocksOf(size) * BLOCK_SIZE
    BY Division, BlocksEnough
  <1>2. BlocksOf(size) < offset \div BLOCK_SIZE =>
          BlocksOf(size) * BLOCK_SIZE + BLOCK_SIZE <= (offset \div BLOCK_SIZE) * BLOCK_SIZE
    BY <1>1, Multiples
  <1>3. /\ BlocksOf(size) * BLOCK_SIZE \in Int /\ (offset \div BLOCK_SIZE) * BLOCK_SIZE \in Int
        /\ BLOCK_SIZE \in Nat \ {0}
    BY <1>1, SizesAssumption
  <1> QED
    BY <1>1, <1>2, <1>3

\* Where a place of a file leads depends on its map and its indirect block.
LEMMA SameIndirect ==
  ASSUME NEW map, NEW data, NEW other, NEW k \in Nat \cup {-1},
         k >= NDIRECT => data[map[NDIRECT]] = other[map[NDIRECT]]
  PROVE  BlockIn(map, data, k) = BlockIn(map, other, k)
  <1>1. NDIRECT \in Nat
    BY SizesAssumption
  <1>2. CASE k >= NDIRECT
    BY <1>1, <1>2 DEF BlockIn, BlockAt
  <1>3. CASE ~ k >= NDIRECT
    BY <1>1, <1>3 DEF BlockIn, BlockAt
  <1> QED
    BY <1>2, <1>3

\* The blocks of a file are where they were when its indirect block is as it was.
LEMMA FileKept ==
  ASSUME SInv, NEW j \in Owners, NEW data,
         \A b \in Blocks : (\E l \in SpotsOf(j) : b = BlockOf(j, l)) => data[b] = fs_data[b]
  PROVE  \A k \in SpotsOf(j) : BlockIn(inode_table[j].i_data_blocks, data, k) = BlockOf(j, k)
  <1> SUFFICES ASSUME NEW k \in SpotsOf(j)
               PROVE  BlockIn(inode_table[j].i_data_blocks, data, k) = BlockOf(j, k)
    OBVIOUS
  <1> DEFINE map == inode_table[j].i_data_blocks
             n   == BlocksOf(inode_table[j].i_size)
  <1>1. n \in Nat /\ NDIRECT \in Nat
    <2>1. inode_table[j].i_size \in Nat
      BY MaxFileSize DEF SInv, TInv, TypeOK, Owners, Files
    <2> QED
      BY <2>1, BlocksEnough, SizesAssumption
  <1>2. k \in Nat \cup {-1} /\ (k >= NDIRECT => -1 \in SpotsOf(j))
    <2> HIDE DEF n
    <2>1. SpotsOf(j) = (0 .. n - 1) \cup (IF n > NDIRECT THEN {-1} ELSE {})
      BY DEF SpotsOf, Spots, n
    <2> QED
      BY <1>1, <2>1
  <1>3. BlockOf(j, -1) = map[NDIRECT]
    BY DEF BlockOf, BlockIn
  <1>4. k >= NDIRECT => data[map[NDIRECT]] = fs_data[map[NDIRECT]]
    BY <1>2, <1>3 DEF SInv, Owned
  <1> HIDE DEF map
  <1>5. BlockIn(map, data, k) = BlockIn(map, fs_data, k)
    BY <1>2, <1>4, SameIndirect
  <1> QED
    BY <1>5 DEF map, BlockOf

\* The file f has grown from "from" blocks towards m: its own bytes, and all that
\* other files hold, are where they were.
GrownTo(f, g, from, m) ==
  /\ g \in GrowState
  /\ Kept(g, inode_table[f].i_data_blocks, from)
  /\ ~ g.fault => Given(g, Added(from, m))
  /\ \A j \in Owners : \A l \in SpotsOf(j) :
       j # f \/ l # -1 => g.data[BlockOf(j, l)] = fs_data[BlockOf(j, l)]

LEMMA GrowsOwn ==
  ASSUME SInv, NEW f \in Owners, NEW from \in Nat, from = BlocksOf(inode_table[f].i_size),
         NEW to \in 0 .. NDIRECT + BLOCK_SIZE, to <= NDIRECT + 1 \/ from > NDIRECT,
         NEW m, m = from + Turns(from, to), NEW g, g = Grown(inode_table[f], to)
  PROVE  /\ GrownTo(f, g, from, m)
         /\ m \in Nat /\ from <= m /\ to <= m
         /\ ~ from < to => m = from
         /\ from < to => m = to
  <1> DEFINE inode == inode_table[f]
             map   == inode.i_data_blocks
  <1>1. TypeOK /\ inode \in InodeRecord /\ to \in Nat /\ NDIRECT \in Nat /\ BLOCK_SIZE \in Nat
    <2>1. TypeOK /\ f \in Inodes
      BY DEF SInv, TInv, Owners, Files
    <2>2. inode \in InodeRecord
      BY <2>1 DEF TypeOK, InodeRecord, MapRecord
    <2>3. NDIRECT \in Nat /\ BLOCK_SIZE \in Nat
      BY SizesAssumption
    <2> HIDE DEF inode
    <2> QED
      BY <2>1, <2>2, <2>3
  <1>2. g \in GrowState
    BY <1>1, WriteTyped
  <1>3. SpotsOf(f) = Spots(from) /\ \A k \in Spots(from) : BlockOf(f, k) \in Blocks
                                      /\ free_blocks[BlockOf(f, k)] = "TAKEN"
    BY DEF SpotsOf, SInv, Owned
  <1>4. BlockOf(f, -1) = map[NDIRECT] /\ (from > NDIRECT => -1 \in Spots(from))
    BY DEF BlockOf, BlockIn, Spots
  <1>5. HasIndirect(map, from)
    BY <1>3, <1>4 DEF HasIndirect
  <1>6. m \in Nat /\ from <= m /\ to <= m /\ (~ from < to => m = from) /\ (from < to => m = to)
    BY <1>1 DEF Turns
  <1>7. Kept(g, map, from) /\ (~ g.fault => Given(g, Added(from, m)))
    <2> HIDE DEF inode
    <2>1. from = BlocksOf(inode.i_size) /\ g = Grown(inode, to)
      BY DEF inode
    <2> QED
      BY <1>1, <1>5, <2>1, GrownKeeps
  <1> HIDE DEF inode
  <1>8. ASSUME NEW j \in Owners, NEW l \in SpotsOf(j), j # f \/ l # -1
        PROVE  g.data[BlockOf(j, l)] = fs_data[BlockOf(j, l)]
    <2>1. BlockOf(j, l) \in Blocks /\ free_blocks[BlockOf(j, l)] = "TAKEN"
      BY DEF SInv, Owned
    <2>2. from > NDIRECT => BlockOf(j, l) # map[NDIRECT]
      BY <1>3, <1>4, <1>8 DEF SInv, Apart
    <2> QED
      BY <1>7, <2>1, <2>2 DEF Kept
  <1> QED
    BY <1>2, <1>6, <1>7, <1>8 DEF GrownTo, inode

\* Where the places of a file lead is not changed by a copy into its bytes.
LEMMA MapSurvives ==
  ASSUME NEW g, NEW m \in Nat, Whole(g, m), NEW data,
         \A b \in Blocks : (\A l \in 0 .. m - 1 : b # BlockIn(g.map, g.data, l))
                               => data[b] = g.data[b]
  PROVE  \A k \in Spots(m) : BlockIn(g.map, data, k) = BlockIn(g.map, g.data, k)
  <1> SUFFICES ASSUME NEW k \in Spots(m)
               PROVE  BlockIn(g.map, data, k) = BlockIn(g.map, g.data, k)
    OBVIOUS
  <1>1. NDIRECT \in Nat /\ -1 \notin Blocks
    BY SizesAssumption DEF Blocks
  <1>2. \A l \in 0 .. m - 1 : l \in Spots(m) /\ l # -1
    BY DEF Spots
  <1>3. k \in Nat \cup {-1} /\ (k >= NDIRECT => -1 \in Spots(m))
    BY <1>1 DEF Spots
  <1>4. BlockIn(g.map, g.data, -1) = g.map[NDIRECT] /\ g.ind = g.map[NDIRECT]
    BY DEF BlockIn, Whole
  <1>5. ASSUME k >= NDIRECT PROVE data[g.map[NDIRECT]] = g.data[g.map[NDIRECT]]
    <2>1. -1 \in Spots(m) /\ g.map[NDIRECT] \in Blocks /\ g.map[NDIRECT] # -1
      BY <1>1, <1>3, <1>4, <1>5 DEF Whole
    <2>2. \A l \in 0 .. m - 1 : g.map[NDIRECT] # BlockIn(g.map, g.data, l)
      BY <1>2, <1>4, <2>1 DEF Whole
    <2> QED
      BY <2>1, <2>2
  <1> QED
    BY <1>3, <1>5, SameIndirect

\* What a write in the file f does to the blocks of f and of the other files.
LEMMA WrittenBlocks ==
  ASSUME SInv, NEW f \in Owners, NEW from \in Nat, from = BlocksOf(inode_table[f].i_size),
         NEW to \in 0 .. NDIRECT + BLOCK_SIZE, to <= NDIRECT + 1 \/ from > NDIRECT,
         NEW offset \in 0 .. inode_table[f].i_size, NEW end \in Nat, to = BlocksOf(end),
         NEW v \in Data, NEW m, m = from + Turns(from, to),
         NEW g, g = Grown(inode_table[f], to), NEW d, d = Copied(g, offset, end, v)
  PROVE  /\ d.stop # "overrun"
         /\ \A b \in Blocks : free_blocks[b] = "TAKEN" => g.free[b] = "TAKEN"
         /\ \A k \in Spots(from) : BlockIn(g.map, d.data, k) = BlockOf(f, k)
         /\ \A j \in Owners : \A k \in SpotsOf(j) :
              j # f => BlockIn(inode_table[j].i_data_blocks, d.data, k) = BlockOf(j, k)
         /\ d.stop = "no" =>
              /\ \A k \in Added(from, m) : Fresh(g, BlockIn(g.map, d.data, k))
              /\ \A k, l \in Added(from, m) :
                   BlockIn(g.map, d.data, k) = BlockIn(g.map, d.data, l) => k = l
         /\ d.stop = "error" => NoneFree(g.free)
  <1> DEFINE inode == inode_table[f]
             map   == inode.i_data_blocks
             first == offset \div BLOCK_SIZE
  <1>1. TypeOK /\ inode \in InodeRecord /\ inode.i_size \in Nat /\ offset \in Nat /\ f \in Inodes
        /\ NDIRECT \in Nat /\ BLOCK_SIZE \in Nat /\ to \in Nat /\ -1 \notin Blocks
    <2>1. TypeOK /\ f \in Inodes
      BY DEF SInv, TInv, Owners, Files
    <2>2. inode \in InodeRecord
      BY <2>1 DEF TypeOK, InodeRecord, MapRecord
    <2>3. inode.i_size \in Nat
      BY <2>2, MaxFileSize DEF InodeRecord
    <2>4. NDIRECT \in Nat /\ BLOCK_SIZE \in Nat /\ -1 \notin Blocks
      BY SizesAssumption DEF Blocks
    <2> QED
      BY <2>1, <2>2, <2>3, <2>4
  <1>2. SpotsOf(f) = Spots(from) /\ \A k \in Spots(from) : BlockOf(f, k) \in Blocks
    BY DEF SpotsOf, SInv, Owned
  <1>3. /\ GrownTo(f, g, from, m)
        /\ m \in Nat /\ from <= m /\ to <= m /\ (~ from < to => m = from) /\ (from < to => m = to)
    BY GrowsOwn
  <1>4. g \in GrowState
    BY <1>3 DEF GrownTo
  <1>5. m \in Nat /\ from <= m /\ to <= m /\ (~ from < to => m = from) /\ (from < to => m = to)
    BY <1>3
  <1>6. Kept(g, map, from) /\ (~ g.fault => Given(g, Added(from, m)))
    BY <1>3 DEF GrownTo
  <1> HIDE DEF inode
  <1>7. first \in Nat /\ first <= from /\ first = offset \div BLOCK_SIZE
    BY <1>1, FirstBlock DEF inode
  <1> HIDE DEF first
  <1>8. ASSUME NEW j \in Owners, j # f, NEW b \in Blocks, \E l \in SpotsOf(j) : b = BlockOf(j, l)
        PROVE  g.data[b] = fs_data[b]
    BY <1>3, <1>8 DEF GrownTo
  <1>9. CASE g.fault
    <2>1. d = Uncopied(g)
      BY <1>1, <1>4, <1>9, CopiedNothing
    <2>2. d.data = g.data /\ d.stop = "crash"
      BY <1>9, <2>1 DEF Uncopied
    <2>3. \A k \in Spots(from) : BlockIn(g.map, d.data, k) = BlockOf(f, k)
      BY <1>6, <2>2 DEF Kept, BlockOf, inode
    <2>4. ASSUME NEW j \in Owners, j # f
          PROVE  \A k \in SpotsOf(j) :
                   BlockIn(inode_table[j].i_data_blocks, d.data, k) = BlockOf(j, k)
      BY <1>8, <2>2, <2>4, FileKept
    <2> QED
      BY <1>6, <2>2, <2>3, <2>4 DEF Kept
  <1>10. CASE ~ g.fault
    <2>1. /\ Whole(g, m)
          /\ \A j \in Owners : \A l \in SpotsOf(j) : \A k \in Spots(m) :
               j # f => BlockOf(j, l) # BlockIn(g.map, g.data, k)
      BY <1>4, <1>5, <1>6, <1>10, GrownWhole DEF inode
    <2>2. Written(d, g, m, first, first + Turns(first, to))
      <3>1. BlocksOf(end) <= m
        BY <1>5
      <3> QED
        BY <1>1, <1>4, <1>5, <1>7, <1>10, <2>1, <3>1, CopiedKeeps
    <2>3. Spots(m) = Spots(from) \cup Added(from, m) /\ \A k \in 0 .. m - 1 : k \in Spots(m) /\ k # -1
      BY <1>5, SpotsGrow DEF Spots
    <2>4. \A k \in Spots(m) : BlockIn(g.map, d.data, k) = BlockIn(g.map, g.data, k)
      BY <1>5, <2>1, <2>2, MapSurvives DEF Written
    <2>5. \A k \in Spots(from) : BlockIn(g.map, d.data, k) = BlockOf(f, k)
      BY <1>6, <2>3, <2>4 DEF Kept, BlockOf, inode
    <2>6. ASSUME NEW j \in Owners, j # f
          PROVE  \A k \in SpotsOf(j) :
                   BlockIn(inode_table[j].i_data_blocks, d.data, k) = BlockOf(j, k)
      <3>1. ASSUME NEW b \in Blocks, \E l \in SpotsOf(j) : b = BlockOf(j, l)
            PROVE  d.data[b] = fs_data[b]
        <4>1. \A k \in 0 .. m - 1 : b # BlockIn(g.map, g.data, k)
          BY <2>1, <2>3, <2>6, <3>1
        <4>2. d.data[b] = g.data[b]
          BY <2>2, <4>1 DEF Written
        <4> QED
          BY <1>8, <2>6, <3>1, <4>2
      <3> QED
        BY <3>1, FileKept
    <2>7. ASSUME d.stop = "no"
          PROVE  /\ \A k \in Added(from, m) : Fresh(g, BlockIn(g.map, d.data, k))
                 /\ \A k, l \in Added(from, m) :
                      BlockIn(g.map, d.data, k) = BlockIn(g.map, d.data, l) => k = l
      <3>1. Given(g, Added(from, m))
        BY <1>6, <1>10
      <3>2. \A k \in Added(from, m) : k # -1 => k \in first .. (first + Turns(first, to)) - 1
        BY <1>1, <1>5, <1>7 DEF Added, Turns
      <3>3. \A k \in Added(from, m) : k # -1 => BlockIn(g.map, g.data, k) \in Blocks
        BY <2>2, <2>7, <3>2 DEF Written
      <3>4. \A k \in Added(from, m) :
              /\ Fresh(g, BlockIn(g.map, g.data, k)) /\ BlockIn(g.map, g.data, k) # -1
              /\ BlockIn(g.map, d.data, k) = BlockIn(g.map, g.data, k)
        BY <1>1, <2>3, <2>4, <3>1, <3>3 DEF Given, Fresh
      <3> QED
        BY <3>1, <3>4 DEF Given
    <2>8. d.stop # "overrun" /\ \A b \in Blocks : free_blocks[b] = "TAKEN" => g.free[b] = "TAKEN"
      BY <1>6, <2>2 DEF Written, Kept
    <2>9. ASSUME d.stop = "error" PROVE NoneFree(g.free)
      <3>1. PICK l \in 0 .. m - 1 : BlockIn(g.map, g.data, l) \notin Blocks
        BY <2>2, <2>9 DEF Written
      <3>2. l \notin Spots(from)
        BY <1>2, <1>6, <3>1 DEF Kept, BlockOf, inode
      <3>3. l \in Added(from, m)
        BY <2>3, <3>2
      <3> QED
        BY <1>6, <1>10, <3>1, <3>3 DEF Given, Fresh
    <2> QED
      BY <2>5, <2>6, <2>7, <2>8, <2>9
  <1> QED
    BY <1>9, <1>10

\* A write in f that leaves it with BlocksOf(size) blocks, "from" of them its
\* own already, and touches no block of another file.
WritesOwn(f, g, d, from, m, size) ==
  /\ \A b \in Blocks : free_blocks[b] = "TAKEN" => g.free[b] = "TAKEN"
  /\ \A k \in Spots(from) : BlockIn(g.map, d.data, k) = BlockOf(f, k)
  /\ \A j \in Owners : \A k \in SpotsOf(j) :
       j # f => BlockIn(inode_table[j].i_data_blocks, d.data, k) = BlockOf(j, k)
  /\ BlocksOf(size) = from \/ BlocksOf(size) = m
  /\ BlocksOf(size) # from =>
       /\ \A k \in Added(from, m) : Fresh(g, BlockIn(g.map, d.data, k))
       /\ \A k, l \in Added(from, m) :
            BlockIn(g.map, d.data, k) = BlockIn(g.map, d.data, l) => k = l

\* The tables after a write in f keep the files apart.
LEMMA WriteApart ==
  ASSUME SInv, NEW f \in Owners, NEW from \in Nat, from = BlocksOf(inode_table[f].i_size),
         NEW m \in Nat, from <= m, NEW g, NEW d, NEW size, WritesOwn(f, g, d, from, m, size),
         free_blocks' = g.free, fs_data' = d.data, UNCHANGED freeinode_ts,
         inode_table' = [inode_table EXCEPT ![f] = [i_data_blocks |-> g.map, i_size |-> size]]
  PROVE  Owned' /\ Apart'
  <1> DEFINE at(k) == BlockIn(g.map, d.data, k)
             more  == IF BlocksOf(size) = from THEN {} ELSE Added(from, m)
  <1>1. TypeOK /\ f \in Inodes /\ 0 \in Blocks
    BY SizesAssumption DEF SInv, TInv, Owners, Files, Blocks
  <1>2. Owners' = Owners
    BY DEF Owners, Taken
  <1>3. ASSUME NEW j \in Owners, j # f
        PROVE  SpotsOf(j)' = SpotsOf(j) /\ \A k \in SpotsOf(j) : BlockOf(j, k)' = BlockOf(j, k)
    <2>1. inode_table'[j] = inode_table[j]
      BY <1>1, <1>3 DEF TypeOK, Owners, Files
    <2> QED
      BY <1>3, <2>1 DEF SpotsOf, BlockOf, WritesOwn
  <1>4. SpotsOf(f)' = Spots(from) \cup more /\ \A k : BlockOf(f, k)' = at(k)
    <2>1. inode_table'[f] = [i_data_blocks |-> g.map, i_size |-> size]
      BY <1>1 DEF TypeOK
    <2>2. SpotsOf(f)' = Spots(BlocksOf(size)) /\ \A k : BlockOf(f, k)' = at(k)
      BY <2>1 DEF SpotsOf, BlockOf
    <2>3. Spots(m) = Spots(from) \cup Added(from, m)
      BY SpotsGrow
    <2> QED
      BY <2>2, <2>3 DEF WritesOwn
  <1>5. \A k \in more : at(k) \in Blocks /\ free_blocks[at(k)] = "FREE" /\ g.free[at(k)] = "TAKEN"
    BY DEF Fresh, WritesOwn
  <1>6. \A k, l \in more : at(k) = at(l) => k = l
    BY DEF WritesOwn
  <1>7. \A k \in Spots(from) : at(k) = BlockOf(f, k) /\ k \in SpotsOf(f)
    BY DEF SpotsOf, WritesOwn
  <1>8. \A j \in Owners : \A k \in SpotsOf(j) :
          BlockOf(j, k) \in Blocks \ {0} /\ free_blocks[BlockOf(j, k)] = "TAKEN"
    BY DEF SInv, Owned
  <1>9. free_blocks[0] = "TAKEN"
    BY DEF SInv, Owned
  <1>10. \A i, j \in Owners : \A k \in SpotsOf(i) : \A l \in SpotsOf(j) :
           BlockOf(i, k) = BlockOf(j, l) => i = j /\ k = l
    BY DEF SInv, Apart
  <1> HIDE DEF at, more
  <1>11. \A k \in SpotsOf(f)' : at(k) \in Blocks \ {0} /\ g.free[at(k)] = "TAKEN"
    BY <1>4, <1>5, <1>7, <1>8, <1>9 DEF WritesOwn
  <1>12. Owned'
    <2> SUFFICES ASSUME NEW i \in Owners, NEW k \in SpotsOf(i)'
                 PROVE  BlockOf(i, k)' \in Blocks \ {0} /\ g.free[BlockOf(i, k)'] = "TAKEN"
      BY <1>1, <1>2, <1>9 DEF Owned, WritesOwn
    <2>1. CASE i = f
      BY <1>4, <1>11, <2>1
    <2>2. CASE i # f
      <3>1. k \in SpotsOf(i) /\ BlockOf(i, k)' = BlockOf(i, k)
        BY <1>3, <2>2
      <3>2. BlockOf(i, k) \in Blocks \ {0} /\ free_blocks[BlockOf(i, k)] = "TAKEN"
        BY <1>8, <3>1
      <3> QED
        BY <3>1, <3>2 DEF WritesOwn
    <2> QED
      BY <2>1, <2>2
  <1>13. ASSUME NEW k \in SpotsOf(f)', NEW l \in SpotsOf(f)', at(k) = at(l) PROVE k = l
    <2>1. CASE k \in Spots(from) /\ l \in Spots(from)
      BY <1>7, <1>10, <1>13, <2>1
    <2>2. CASE k \in more /\ l \in more
      BY <1>6, <1>13, <2>2
    <2>3. CASE (k \in Spots(from) /\ l \in more) \/ (l \in Spots(from) /\ k \in more)
      BY <1>5, <1>7, <1>8, <1>13, <2>3
    <2> QED
      BY <1>4, <2>1, <2>2, <2>3
  <1>14. ASSUME NEW j \in Owners, j # f, NEW l \in SpotsOf(j), NEW k \in SpotsOf(f)'
         PROVE  BlockOf(j, l) # at(k)
    <2>1. CASE k \in Spots(from)
      BY <1>7, <1>10, <1>14, <2>1
    <2>2. CASE k \in more
      BY <1>5, <1>8, <1>14, <2>2
    <2> QED
      BY <1>4, <2>1, <2>2
  <1>15. Apart'
    <2> SUFFICES ASSUME NEW i \in Owners, NEW j \in Owners,
                        NEW k \in SpotsOf(i)', NEW l \in SpotsOf(j)',
                        BlockOf(i, k)' = BlockOf(j, l)'
                 PROVE  i = j /\ k = l
      BY <1>2 DEF Apart
    <2>1. CASE i = f /\ j = f
      BY <1>4, <1>13, <2>1
    <2>2. CASE i = f /\ j # f
      <3>1. l \in SpotsOf(j) /\ BlockOf(j, l)' = BlockOf(j, l) /\ BlockOf(f, k)' = at(k)
        BY <1>3, <1>4, <2>2
      <3>2. k \in SpotsOf(f)' /\ BlockOf(j, l) = at(k)
        BY <2>2, <3>1
      <3> QED
        BY <1>14, <2>2, <3>1, <3>2
    <2>3. CASE i # f /\ j = f
      <3>1. k \in SpotsOf(i) /\ BlockOf(i, k)' = BlockOf(i, k) /\ BlockOf(f, l)' = at(l)
        BY <1>3, <1>4, <2>3
      <3>2. l \in SpotsOf(f)' /\ BlockOf(i, k) = at(l)
        BY <2>3, <3>1
      <3> QED
        BY <1>14, <2>3, <3>1, <3>2
    <2>4. CASE i # f /\ j # f
      BY <1>3, <1>10, <2>4
    <2> QED
      BY <2>1, <2>2, <2>3, <2>4
  <1> QED
    BY <1>12, <1>15

LEMMA WriteBlocks ==
  ASSUME ~ LargeWrites, SInv, NEW fh \in Handles, NEW v \in Data, NEW n \in Lens,
         tfs_write(fh, v, n)
  PROVE  /\ Owned' /\ Apart' /\ reply'.call # "overrun"
         /\ mtx' = mtx \/ (reply'.call = "write" /\ NoneFree(free_blocks'))
  <1>1. PICK f : f = open_file_table[fh].of_inumber
    OBVIOUS
  <1> DEFINE offset   == open_file_table[fh].of_offset
             inode    == inode_table[f]
             from     == BlocksOf(inode.i_size)
             to_write == IF n + offset > MAX_FILE_SIZE THEN MAX_FILE_SIZE - offset ELSE n
             end      == offset + to_write
             to       == BlocksOf(end)
             g        == Grown(inode, to)
             d        == Copied(g, offset, end, v)
             size     == IF d.stop = "no" /\ end > inode.i_size THEN end ELSE inode.i_size
             m        == from + Turns(from, to)
  <1>2. CASE UNCHANGED tables /\ reply'.call # "overrun" /\ mtx' = mtx
    BY <1>2, SameBlocks
  <1>3. CASE /\ free_blocks' = g.free /\ fs_data' = d.data /\ UNCHANGED freeinode_ts
             /\ inode_table' = [inode_table EXCEPT ![f] = [i_data_blocks |-> g.map, i_size |-> size]]
             /\ reply'.call \in {"write", d.stop}
             /\ mtx' = mtx \/ (reply'.call = "write" /\ d.stop = "error")
             /\ to <= NDIRECT + 1 \/ from > NDIRECT
             /\ f # ROOT_DIR_INUM
    <2>1. /\ f \in Owners /\ offset \in 0 .. inode.i_size /\ inode.i_size \in 0 .. MAX_FILE_SIZE
          /\ n \in Nat /\ MAX_FILE_SIZE \in Nat /\ inode.i_size \in Nat
      <3>1. TypeOK /\ f \in Inodes
        BY <1>1 DEF SInv, TInv, TypeOK
      <3>2. freeinode_ts[f] = "TAKEN"
        <4>1. PICK filled \in 0 .. MAX_DIR_ENTRIES : InOrder(filled)
          BY DEF SInv, TInv, DirectoryInOrder
        <4>2. f \in 0 .. filled
          BY <1>1, <4>1 DEF InOrder
        <4> QED
          BY <3>1, <4>1, <4>2, SizesAssumption DEF InOrder, Inodes
      <3>3. f \in Owners
        BY <1>3, <3>1, <3>2 DEF Owners, Files, Taken, TypeOK
      <3>4. offset \in Nat /\ offset <= inode.i_size /\ inode.i_size \in 0 .. MAX_FILE_SIZE
        BY <1>1, <3>1, MaxFileSize DEF SInv, TInv, OffsetsInside, TypeOK
      <3> QED
        BY <3>3, <3>4, CallersAssumption, MaxFileSize
    <2>2. end \in 0 .. MAX_FILE_SIZE /\ end \in Nat
      BY <2>1
    <2> HIDE DEF end, inode, offset
    <2>3. from \in Nat /\ to \in 0 .. NDIRECT + BLOCK_SIZE /\ to \in Nat
      BY <2>1, <2>2, BlocksFit, BlocksEnough
    <2> HIDE DEF to, from
    <2>4. m \in Nat /\ from <= m
      BY <2>3 DEF Turns
    <2> HIDE DEF m
    <2>5. /\ d.stop # "overrun"
          /\ \A b \in Blocks : free_blocks[b] = "TAKEN" => g.free[b] = "TAKEN"
          /\ \A k \in Spots(from) : BlockIn(g.map, d.data, k) = BlockOf(f, k)
          /\ \A j \in Owners : \A k \in SpotsOf(j) :
               j # f => BlockIn(inode_table[j].i_data_blocks, d.data, k) = BlockOf(j, k)
          /\ d.stop = "no" =>
               /\ \A k \in Added(from, m) : Fresh(g, BlockIn(g.map, d.data, k))
               /\ \A k, l \in Added(from, m) :
                    BlockIn(g.map, d.data, k) = BlockIn(g.map, d.data, l) => k = l
          /\ d.stop = "error" => NoneFree(g.free)
      <3>1. /\ from = BlocksOf(inode_table[f].i_size) /\ to = BlocksOf(end)
            /\ offset \in 0 .. inode_table[f].i_size /\ m = from + Turns(from, to)
            /\ g = Grown(inode_table[f], to) /\ d = Copied(g, offset, end, v)
        BY <2>1 DEF from, to, inode, m
      <3> HIDE DEF g, d
      <3> QED
        BY <1>3, <2>1, <2>2, <2>3, <3>1, WrittenBlocks
    <2> HIDE DEF g, d
    <2>6. BlocksOf(size) = from \/ (d.stop = "no" /\ BlocksOf(size) = m)
      <3>1. CASE d.stop = "no" /\ end > inode.i_size
        <4>1. size = end /\ from <= to
          BY <2>1, <2>2, <3>1, BlocksMonotone DEF from, to
        <4>2. m = to
          BY <2>3, <4>1 DEF m, Turns
        <4> QED
          BY <3>1, <4>1, <4>2 DEF to
      <3>2. CASE ~(d.stop = "no" /\ end > inode.i_size)
        BY <3>2 DEF from
      <3> QED
        BY <3>1, <3>2
    <2> HIDE DEF size
    <2>7. from = BlocksOf(inode_table[f].i_size)
      BY DEF from, inode
    <2>8. Owned' /\ Apart'
      <3>1. WritesOwn(f, g, d, from, m, size)
        BY <2>5, <2>6 DEF WritesOwn
      <3> QED
        BY <1>3, <2>1, <2>3, <2>4, <2>7, <3>1, WriteApart
    <2>9. /\ reply'.call # "overrun"
          /\ mtx' = mtx \/ (reply'.call = "write" /\ NoneFree(free_blocks'))
      BY <1>3, <2>5
    <2> QED
      BY <2>8, <2>9
  <1> HIDE DEF offset, to_write, end, to, g, d, size, m
  <1>4. \/ UNCHANGED tables /\ reply'.call # "overrun" /\ mtx' = mtx
        \/ /\ free_blocks' = g.free /\ fs_data' = d.data /\ UNCHANGED freeinode_ts
           /\ inode_table' = [inode_table EXCEPT ![f] = [i_data_blocks |-> g.map, i_size |-> size]]
           /\ reply'.call \in {"write", d.stop}
           /\ mtx' = mtx \/ (reply'.call = "write" /\ d.stop = "error")
           /\ to <= NDIRECT + 1 \/ from > NDIRECT
           /\ f # ROOT_DIR_INUM
    BY <1>1 DEF tfs_write, Hangs, End, Reply, LeavesLocked, Issued,
                offset, to_write, end, to, g, d, size, handles
  <1> QED
    BY <1>2, <1>3, <1>4

-----------------------------------------------------------------------------
LEMMA InitSInv == Init => SInv
  <1> SUFFICES ASSUME Init PROVE SInv
    OBVIOUS
  <1>1. Owners = {}
    BY DEF Init, Owners, Files, Taken, ROOT_DIR_INUM
  <1>2. free_blocks[0] = "TAKEN" /\ reply.call = "init"
    BY SizesAssumption DEF Init, Blocks
  <1> QED
    BY <1>1, <1>2, InitTInv DEF SInv, Owned, Apart

LEMMA NextSInv == NoTruncation /\ ~ LargeWrites /\ SInv /\ [Next]_vars => SInv'
  <1> SUFFICES ASSUME NoTruncation, ~ LargeWrites, SInv, [Next]_vars PROVE SInv'
    OBVIOUS
  <1>1. TInv /\ TInv'
    BY NextTInv DEF SInv
  <1> SUFFICES Owned' /\ Apart' /\ reply'.call # "overrun"
    BY <1>1 DEF SInv
  <1>2. CASE UNCHANGED vars
    BY <1>2, SameBlocks DEF vars, SInv
  <1>3. ASSUME NEW name \in Names, NEW flags \in SUBSET Flags, tfs_open(name, flags)
        PROVE  Owned' /\ Apart' /\ reply'.call # "overrun"
    <2>1. Running /\ TypeOK
      BY <1>1, <1>3 DEF tfs_open, TInv
    <2>2. PICK m \in 0 .. MAX_DIR_ENTRIES : InOrder(m)
      BY <1>1 DEF TInv, DirectoryInOrder
    <2>3. CASE find_in_dir(name) >= 0 /\ OpenExisting(find_in_dir(name), flags)
      <3>1. find_in_dir(name) \in 1 .. m
        <4>1. find_in_dir(name) = -1 \/ find_in_dir(name) \in 1 .. m
          BY <2>1, <2>2, FoundInDir
        <4> QED
          BY <2>3, <4>1
      <3>2. UNCHANGED tables
        BY <1>1, <2>1, <2>2, <2>3, <3>1, OpenExistingTInv
      <3>3. reply'.call # "overrun"
        BY <2>3 DEF OpenExisting, add_to_open_file_table, End, Reply
      <3> QED
        BY <3>2, <3>3, SameBlocks
    <2>4. CASE OpenCreated(name)
      BY <2>1, <2>2, <2>4, OpenCreatedBlocks
    <2>5. CASE Reply("open", -1, -1, <<>>) /\ UNCHANGED tables
      BY <2>5, SameBlocks DEF Reply
    <2> QED
      BY <1>3, <2>3, <2>4, <2>5 DEF tfs_open
  <1>4. ASSUME NEW fh \in Handles, tfs_close(fh) PROVE Owned' /\ Apart' /\ reply'.call # "overrun"
    <2>1. UNCHANGED tables /\ reply'.call # "overrun"
      BY <1>4 DEF tfs_close, End, Reply
    <2> QED
      BY <2>1, SameBlocks
  <1>5. ASSUME NEW fh \in Handles, NEW v \in Data, NEW n \in Lens, tfs_write(fh, v, n)
        PROVE  Owned' /\ Apart' /\ reply'.call # "overrun"
    BY <1>5, WriteBlocks
  <1>6. ASSUME NEW fh \in Handles, NEW len \in Lens, tfs_read(fh, len)
        PROVE  Owned' /\ Apart' /\ reply'.call # "overrun"
    <2>1. UNCHANGED tables /\ reply'.call # "overrun"
      BY <1>6 DEF tfs_read, End, Reply, LeavesLocked
    <2> QED
      BY <2>1, SameBlocks
  <1>7. ASSUME NEW name \in Names, tfs_copy_to_external_fs(name)
        PROVE  Owned' /\ Apart' /\ reply'.call # "overrun"
    <2>1. UNCHANGED tables /\ reply'.call # "overrun"
      BY <1>7 DEF tfs_copy_to_external_fs, End, Reply
    <2> QED
      BY <2>1, SameBlocks
  <1>8. ASSUME NEW call, BadHandle(call) PROVE Owned' /\ Apart' /\ reply'.call # "overrun"
    <2>1. UNCHANGED tables /\ reply'.call # "overrun"
      BY <1>8 DEF BadHandle, End, Reply
    <2> QED
      BY <2>1, SameBlocks
  <1> QED
    BY <1>2, <1>3, <1>4, <1>5, <1>6, <1>7, <1>8 DEF Next

\* No block holds the bytes or the indices of two files, nor of two places of
\* one, and no write reaches the directory (p1 fs/operations.c, tfs_write), for
\* callers that do not truncate, and outgrow the direct blocks by one block
\* first: a larger write takes a new indirect block in every turn.
THEOREM BlocksAreTheirs ==
  ASSUME NoTruncation, ~ LargeWrites
  PROVE  Spec => []NoBlockShared
  <1>1. Init => SInv
    BY InitSInv
  <1>2. SInv /\ [Next]_vars => SInv'
    BY NextSInv
  <1>3. SInv => NoBlockShared
    BY OwnedApart
  <1> QED
    BY <1>1, <1>2, <1>3, PTL DEF Spec

\* A copy that returns 0 has written the bytes of the file, to the last one (p1
\* fs/operations.c, tfs_copy_to_external_fs), for callers that do not truncate:
\* the reads go on where the one before ended and end with the file.
THEOREM CopiesAreWhole ==
  ASSUME NoTruncation
  PROVE  Spec => CopyIsWhole
  <1> DEFINE Step == \A name \in Names :
               tfs_copy_to_external_fs(name) /\ reply'.ret = 0 =>
                 reply'.bytes = FileBytes(find_in_dir(name))
  <1>1. TInv => Step
    <2> SUFFICES ASSUME TInv, NEW name \in Names, tfs_copy_to_external_fs(name), reply'.ret = 0
                 PROVE  reply'.bytes = FileBytes(find_in_dir(name))
      OBVIOUS
    <2>1. PICK f : f = find_in_dir(name)
      OBVIOUS
    <2>2. /\ f >= 0 /\ CopiedOut(inode_table[f]).stop = "no"
          /\ reply'.bytes = CopiedOut(inode_table[f]).bytes
      BY <2>1 DEF tfs_copy_to_external_fs, End, Reply
    <2>3. inode_table[f] \in InodeRecord
      <3>1. PICK m \in 0 .. MAX_DIR_ENTRIES : InOrder(m)
        BY DEF TInv, DirectoryInOrder
      <3>2. f \in 1 .. m
        <4>1. f = -1 \/ f \in 1 .. m
          BY <2>1, <3>1, FoundInDir DEF TInv
        <4> QED
          BY <2>2, <4>1
      <3> QED
        BY <3>2, FilesHaveInodes DEF TInv, TypeOK, InodeRecord, MapRecord
    <2> QED
      BY <2>1, <2>2, <2>3, CopiedWhole DEF FileBytes, TInv
  <1>2. Init => TInv
    BY InitTInv
  <1>3. TInv /\ [Next]_vars => TInv'
    BY NextTInv
  <1> QED
    BY <1>1, <1>2, <1>3, PTL DEF Spec, CopyIsWhole


-----------------------------------------------------------------------------
(***************************************************************************)
(* The locks a call leaves behind: the third invariant.                    *)
(***************************************************************************)

\* Who lost the lock of an i-node has left a mutex locked.
HInv == SInv /\ (mtx = {} => lock = {})

\* The files callers hold handles of have blocks of their own.
LEMMA HandlesOfOwners ==
  ASSUME SInv, NEW fh \in Handles, Issued(fh)
  PROVE  /\ open_file_table[fh].of_inumber \in Owners
         /\ open_file_table[fh].of_offset \in 0 .. inode_table[open_file_table[fh].of_inumber].i_size
  <1>1. PICK f : f = open_file_table[fh].of_inumber
    OBVIOUS
  <1>2. TypeOK /\ f \in Inodes
    BY <1>1 DEF SInv, TInv, TypeOK
  <1>3. PICK filled \in 0 .. MAX_DIR_ENTRIES : InOrder(filled)
    BY DEF SInv, TInv, DirectoryInOrder
  <1>4. f \in 0 .. filled
    BY <1>1, <1>3 DEF InOrder
  <1>5. freeinode_ts[f] = "TAKEN"
    BY <1>2, <1>3, <1>4, SizesAssumption DEF InOrder, Inodes
  <1>6. open_file_table[fh].of_offset \in Nat /\ open_file_table[fh].of_offset <= inode_table[f].i_size
    BY <1>1, <1>2, MaxFileSize DEF SInv, TInv, OffsetsInside, TypeOK
  <1>7. inode_table[f].i_size \in Nat
    BY <1>2, MaxFileSize DEF TypeOK
  <1> QED
    BY <1>1, <1>2, <1>5, <1>6, <1>7 DEF Owners, Files, Taken, TypeOK, Issued

\* So do those a name leads to.
LEMMA FoundOwners ==
  ASSUME SInv, NEW name, find_in_dir(name) >= 0
  PROVE  find_in_dir(name) \in Owners
  <1>1. PICK f : f = find_in_dir(name)
    OBVIOUS
  <1>2. PICK filled \in 0 .. MAX_DIR_ENTRIES : InOrder(filled)
    BY DEF SInv, TInv, DirectoryInOrder
  <1>3. TypeOK /\ filled \in Nat /\ 0 .. filled + 1 \subseteq Inodes
    BY FilesHaveInodes DEF SInv, TInv
  <1>4. f = -1 \/ f \in 1 .. filled
    BY <1>1, <1>2, <1>3, FoundInDir
  <1>5. f \in 1 .. filled /\ f \in Inodes
    BY <1>1, <1>3, <1>4
  <1>6. freeinode_ts[f] = "TAKEN" /\ f # 0
    BY <1>2, <1>3, <1>5 DEF InOrder
  <1> QED
    BY <1>1, <1>3, <1>5, <1>6 DEF Owners, Files, Taken, TypeOK, ROOT_DIR_INUM

\* Every byte of a file has a block.
LEMMA BytesHaveBlocks ==
  ASSUME SInv, NEW f \in Owners
  PROVE  /\ inode_table[f] \in InodeRecord /\ inode_table[f].i_size \in Nat
         /\ \A p \in 0 .. inode_table[f].i_size - 1 : BlockFor(inode_table[f], p) \in Blocks
  <1> DEFINE size == inode_table[f].i_size
  <1>1. inode_table[f] \in InodeRecord /\ size \in Nat
    BY MaxFileSize DEF SInv, TInv, TypeOK, Owners, Files, InodeRecord, MapRecord
  <1>2. ASSUME NEW p \in 0 .. size - 1 PROVE BlockFor(inode_table[f], p) \in Blocks
    <2>1. PICK k \in 0 .. BlocksOf(size) - 1 : k = p \div BLOCK_SIZE
      BY <1>1, BlockOfCell
    <2>2. BlocksOf(size) \in Nat
      BY <1>1, BlocksEnough
    <2>3. k \in SpotsOf(f) /\ k # -1
      BY <2>2 DEF SpotsOf, Spots
    <2>4. BlockFor(inode_table[f], p) = BlockOf(f, k)
      BY <2>1, <2>3 DEF BlockFor, BlockOf, BlockIn
    <2> QED
      BY <2>3, <2>4 DEF SInv, Owned
  <1> QED
    BY <1>1, <1>2

\* So no read of a file fails ...
LEMMA ReadsSucceed ==
  ASSUME SInv, NEW f \in Owners, NEW offset \in 0 .. inode_table[f].i_size, NEW len \in Nat
  PROVE  Gathered(inode_table[f], offset, ToRead(inode_table[f].i_size, offset, len)).stop = "no"
  <1> DEFINE size == inode_table[f].i_size
             n    == ToRead(size, offset, len)
  <1>1. /\ size \in Nat /\ offset \in Nat
        /\ \A p \in 0 .. size - 1 : BlockFor(inode_table[f], p) \in Blocks
    BY BytesHaveBlocks
  <1>2. n \in 0 .. size - offset
    BY <1>1, ReadStaysInside
  <1> HIDE DEF n, size
  <1>3. \A p \in offset .. offset + n - 1 : BlockFor(inode_table[f], p) \in Blocks
    BY <1>1, <1>2
  <1>4. n \in Nat
    BY <1>2
  <1> QED
    BY <1>1, <1>3, <1>4, GatheredAll DEF n, size

\* ... and no copy.
LEMMA CopiesSucceed ==
  ASSUME SInv, NEW f \in Owners
  PROVE  CopiedOut(inode_table[f]).stop = "no"
  <1> DEFINE inode == inode_table[f]
  <1>1. inode \in InodeRecord /\ inode.i_size \in Nat /\ TypeOK
    BY BytesHaveBlocks DEF SInv, TInv
  <1>2. PICK turn : CopyOutTurns(turn, inode)
    BY <1>1, CopyOutLoop
  <1> DEFINE good == {n \in Nat : turn[n].stop = "no"}
  <1>3. 0 \in good
    BY <1>2 DEF CopyOutTurns
  <1>4. ASSUME NEW n \in Nat, n \in good PROVE n + 1 \in good
    <2>1. /\ turn[n] \in OutState(inode.i_size) /\ turn[n].stop = "no"
          /\ turn[n + 1] = CopyBlock(inode, turn[n])
      BY <1>2, <1>4 DEF CopyOutTurns
    <2>2. Len(turn[n].bytes) \in 0 .. inode.i_size
      BY <1>1, <2>1 DEF OutState
    <2>3. Gathered(inode, Len(turn[n].bytes),
                   ToRead(inode.i_size, Len(turn[n].bytes), BLOCK_SIZE)).stop = "no"
      BY <2>2, ReadsSucceed, SizesAssumption
    <2>4. CopyBlock(inode, turn[n]).stop = "no"
      BY <2>1, <2>3 DEF CopyBlock, OutState
    <2> QED
      BY <2>1, <2>4
  <1> HIDE DEF good
  <1>5. \A n \in Nat : n \in good
    BY <1>3, <1>4, EveryTurn
  <1>6. Reads(inode.i_size) \in Nat /\ CopiedOut(inode) = turn[Reads(inode.i_size)]
    BY <1>1, <1>2, CopyOutLoop DEF CopyOutTurns
  <1> QED
    BY <1>5, <1>6 DEF good


\* The search skips an entry only where a file is open.
LEMMA SkippedAreOpen ==
  ASSUME TypeOK, Skipped # {}
  PROVE  OpenHandles # {}
  <1>1. PICK k \in Handles : \A h \in Free(free_open_file_entries) : k < h
    BY DEF Skipped
  <1>2. k \notin Free(free_open_file_entries)
    BY <1>1, SizesAssumption DEF Handles
  <1> QED
    BY <1>2 DEF TypeOK, Free, Taken, OpenHandles

\* What a step of a thread that holds no mutex does to the locks.
Careful ==
  /\ mtx = {} /\ reply'.call = "hung" => EmptySlots = {}
  /\ mtx = {} /\ mtx' # {} =>
       \/ reply'.call \in {"open", "copy"} /\ OpenHandles # {}
       \/ reply'.call = "write" /\ Free(free_blocks') = {}

\* No lock of an i-node is lost but with a mutex.
LocksFollow == (mtx = {} => lock = {}) => (mtx' = {} => lock' = {})

\* The table of open files is the last thing an open looks at.
LEMMA AddCareful ==
  ASSUME SInv, NEW inum, NEW offset, add_to_open_file_table(inum, offset), UNCHANGED lock
  PROVE  Careful /\ LocksFollow
  <1>1. TypeOK
    BY DEF SInv, TInv
  <1>2. CASE mtx = {}
    <2>1. mtx' = Skipped /\ reply'.call = "open"
      BY <1>2 DEF add_to_open_file_table, Reply
    <2> QED
      BY <1>1, <1>2, <2>1, SkippedAreOpen DEF Careful, LocksFollow
  <1>3. CASE mtx # {}
    <2>1. mtx' # {}
      BY <1>3 DEF add_to_open_file_table, handles
    <2> QED
      BY <1>3, <2>1 DEF Careful, LocksFollow
  <1> QED
    BY <1>2, <1>3

LEMMA OpenCareful ==
  ASSUME NoTruncation, HInv, NEW name \in Names, NEW flags \in SUBSET Flags, tfs_open(name, flags)
  PROVE  Careful /\ LocksFollow
  <1>1. SInv /\ (mtx = {} => lock = {})
    BY DEF HInv
  <1>2. CASE OpenExisting(find_in_dir(name), flags)
    <2>1. "TFS_O_TRUNC" \notin flags
      BY DEF NoTruncation
    <2>2. PICK size : /\ add_to_open_file_table(find_in_dir(name),
                                                IF "TFS_O_APPEND" \in flags THEN size ELSE 0)
                      /\ UNCHANGED lock
      BY <1>2, <2>1 DEF OpenExisting
    <2> QED
      BY <1>1, <2>2, AddCareful
  <1>3. CASE OpenCreated(name)
    <2>1. CASE lock \cap 0 .. Lowest(Free(freeinode_ts)) # {}
      BY <1>1, <1>3, <2>1 DEF OpenCreated, Careful, LocksFollow, handles
    <2>2. CASE UNCHANGED <<handles, lock>> /\ EmptySlots = {}
      BY <1>1, <2>2 DEF Careful, LocksFollow, handles
    <2>3. CASE add_to_open_file_table(Lowest(Free(freeinode_ts)), 0) /\ UNCHANGED lock
      BY <1>1, <2>3, AddCareful
    <2> QED
      BY <1>3, <2>1, <2>2, <2>3 DEF OpenCreated
  <1>4. CASE Reply("open", -1, -1, <<>>) /\ UNCHANGED <<tables, handles, lock>>
    BY <1>4 DEF Reply, Careful, LocksFollow, handles
  <1> QED
    BY <1>2, <1>3, <1>4 DEF tfs_open

LEMMA CloseCareful ==
  ASSUME HInv, NEW fh \in Handles, tfs_close(fh)
  PROVE  Careful /\ LocksFollow
  <1>1. UNCHANGED <<mtx, lock>> /\ (reply'.call = "hung" => fh \in mtx)
    BY DEF tfs_close, Reply, End
  <1> QED
    BY <1>1 DEF Careful, LocksFollow

LEMMA WriteCareful ==
  ASSUME NoTruncation, ~ LargeWrites, HInv, NEW fh \in Handles, NEW v \in Data, NEW n \in Lens,
         tfs_write(fh, v, n)
  PROVE  Careful /\ LocksFollow
  <1>1. SInv /\ (mtx = {} => lock = {})
    BY DEF HInv
  <1>2. mtx' = mtx \/ (reply'.call = "write" /\ NoneFree(free_blocks'))
    BY <1>1, WriteBlocks
  <1>3. NoneFree(free_blocks') => Free(free_blocks') = {}
    <2>1. TypeOK'
      BY <1>1, WriteTInv DEF SInv, TInv
    <2> QED
      BY <2>1 DEF TypeOK, NoneFree, Free
  <1>4. mtx \subseteq mtx' /\ UNCHANGED lock
    BY DEF tfs_write, Hangs, LeavesLocked, handles
  <1>5. reply'.call = "hung" => mtx # {} \/ lock # {}
    <2>1. PICK f : f = open_file_table[fh].of_inumber
      OBVIOUS
    <2> DEFINE offset   == open_file_table[fh].of_offset
               to_write == IF n + offset > MAX_FILE_SIZE THEN MAX_FILE_SIZE - offset ELSE n
               end      == offset + to_write
               copied   == Copied(Grown(inode_table[f], BlocksOf(end)), offset, end, v)
    <2>2. copied.stop # "hung"
      <3>1. /\ f \in Inodes /\ offset \in 0 .. MAX_FILE_SIZE /\ inode_table[f] \in InodeRecord
            /\ n \in Nat /\ MAX_FILE_SIZE \in Nat /\ TypeOK
        BY <1>1, <2>1, CallersAssumption, MaxFileSize
           DEF SInv, TInv, TypeOK, InodeRecord, MapRecord
      <3>2. end \in Nat /\ offset \in Nat
        BY <3>1
      <3> HIDE DEF offset, end
      <3>3. BlocksOf(end) \in Nat
        BY <3>2, BlocksEnough
      <3>4. copied \in CopyState
        BY <3>1, <3>2, <3>3, WriteTyped
      <3> QED
        BY <3>4 DEF CopyState
    <2> HIDE DEF copied
    <2>3. CASE ~(fh \in mtx \/ f \in lock)
      BY <2>1, <2>2, <2>3 DEF tfs_write, Reply, End, LeavesLocked, copied
    <2> QED
      BY <2>3
  <1> QED
    BY <1>1, <1>2, <1>3, <1>4, <1>5 DEF Careful, LocksFollow

LEMMA ReadCareful ==
  ASSUME HInv, NEW fh \in Handles, NEW len \in Lens, tfs_read(fh, len)
  PROVE  Careful /\ LocksFollow
  <1>1. SInv /\ len \in Nat
    BY CallersAssumption DEF HInv
  <1>2. PICK f : f = open_file_table[fh].of_inumber
    OBVIOUS
  <1> DEFINE offset == open_file_table[fh].of_offset
             read   == Gathered(inode_table[f], offset, ToRead(inode_table[f].i_size, offset, len))
  <1>3. f \in Owners /\ offset \in 0 .. inode_table[f].i_size
    BY <1>1, <1>2, HandlesOfOwners DEF tfs_read
  <1>4. read.stop = "no"
    BY <1>1, <1>3, ReadsSucceed
  <1>5. UNCHANGED <<mtx, lock>> /\ (reply'.call = "hung" => fh \in mtx)
    <2> HIDE DEF read
    <2>1. CASE fh \in mtx
      BY <2>1 DEF tfs_read, handles
    <2>2. CASE fh \notin mtx
      BY <1>2, <1>4, <2>2 DEF tfs_read, Reply, read
    <2> QED
      BY <2>1, <2>2
  <1> QED
    BY <1>5 DEF Careful, LocksFollow

LEMMA CopyCareful ==
  ASSUME HInv, NEW name \in Names, tfs_copy_to_external_fs(name)
  PROVE  Careful /\ LocksFollow
  <1>1. SInv /\ TypeOK
    BY DEF HInv, SInv, TInv
  <1>2. PICK f : f = find_in_dir(name)
    OBVIOUS
  <1>3. f >= 0 => CopiedOut(inode_table[f]).stop = "no"
    BY <1>1, <1>2, FoundOwners, CopiesSucceed
  <1>4. PICK out : out = CopiedOut(inode_table[f])
    OBVIOUS
  <1>5. \/ UNCHANGED <<mtx, lock>> /\ (reply'.call = "hung" => mtx # {})
        \/ mtx' = mtx \cup Skipped /\ UNCHANGED lock /\ reply'.call = "copy"
    BY <1>2, <1>3, <1>4 DEF tfs_copy_to_external_fs, Reply, End, handles
  <1> QED
    BY <1>1, <1>5, SkippedAreOpen DEF Careful, LocksFollow

LEMMA NextCareful == NoTruncation /\ ~ LargeWrites /\ HInv /\ Next => Careful /\ LocksFollow
  <1> SUFFICES ASSUME NoTruncation, ~ LargeWrites, HInv, Next PROVE Careful /\ LocksFollow
    OBVIOUS
  <1>1. ASSUME NEW call \in {"close", "write", "read"}, BadHandle(call) PROVE Careful /\ LocksFollow
    BY <1>1 DEF BadHandle, Reply, End, Careful, LocksFollow, handles
  <1> QED
    BY <1>1, OpenCareful, CloseCareful, WriteCareful, ReadCareful, CopyCareful DEF Next

\* A thread that has one file open at a time, and blocks left, never waits for a
\* lock (p1 fs/state.c, add_to_open_file_table, fs/operations.c), for callers
\* that do not truncate, and outgrow the direct blocks by one block first: the
\* mutexes left locked are those of entries in use that a search skipped, or of
\* a write that found no block, and no read of a file fails.
THEOREM OneFileIsSafe ==
  ASSUME NoTruncation, ~ LargeWrites
  PROVE  Spec => OneFileNeverHangs
  <1>1. Init => HInv
    BY InitSInv DEF HInv, Init
  <1>2. HInv /\ [Next]_vars => HInv'
    <2> SUFFICES ASSUME HInv, [Next]_vars PROVE HInv'
      OBVIOUS
    <2>1. SInv'
      BY NextSInv DEF HInv
    <2>2. CASE Next
      BY <2>1, <2>2, NextCareful DEF HInv, LocksFollow
    <2>3. CASE UNCHANGED vars
      BY <2>1, <2>3 DEF HInv, vars, handles
    <2> QED
      BY <2>2, <2>3
  <1>3. HInv /\ Next => Careful
    BY NextCareful
  <1> QED
    BY <1>1, <1>2, <1>3, PTL DEF Spec, OneFileNeverHangs, Careful

=============================================================================
