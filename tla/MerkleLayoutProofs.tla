------------------------- MODULE MerkleLayoutProofs -------------------------
(***************************************************************************)
(* compute_root_hash() announces the tree's size and reports every tree    *)
(* block once and at its place in a tree stored root level first.  The     *)
(* levels are placed from the top down, so that when level is reached      *)
(* "offset" counts the blocks above it; no sum leaves a u64, since a level *)
(* has at most half the blocks of the one below and the file's blocks are  *)
(* fewer than 2^WordBits / block_size.                                     *)
(***************************************************************************)
EXTENDS MerkleShapeProofs, FiniteSetTheorems

\* The number of data blocks that would fill the word is a power of two.
BlockBits == CHOOSE k \in 0 .. WordBits : args.block_size * 2^k = Word

\* What a level may have at most.
Room(l) == 2^(BlockBits - 1 - l)

HasRoom ==
  pc \notin {"start", "out", "done"} =>
    \A l \in -1 .. num_levels - 1 :
      l < BlockBits /\ nblocks[l] <= Room(l) /\ Room(l) <= Room(-1)

\* Where a level starts, once it is placed.
Placed(l) == RefStart(args, l) < Room(l)

LayoutRef ==
  /\ pc = "levels" => \A m \in 0 .. num_levels - 1 : level_offset[m] = nblocks[m]
  /\ pc = "layout" =>
       /\ offset = RefStart(args, level) /\ Placed(level)
       /\ \A m \in 0 .. level : level_offset[m] = nblocks[m]
       /\ \A m \in level + 1 .. num_levels - 1 : level_offset[m] = RefStart(args, m)
  /\ pc = "alloc" \/ Hashing =>
       /\ Placed(-1)
       /\ "merkle_tree_block" \in args.cbs => \A m \in 0 .. num_levels - 1 :
            level_offset[m] = RefStart(args, m) + Hashed(m)

SizeRef == LaidOut /\ "merkle_tree_size" \in args.cbs => tree_size = RefTreeSize(args)

CallsRef ==
  "merkle_tree_block" \in args.cbs =>
    /\ \E S : block_calls \in Seq(S)
    /\ IsFiniteSet(TreeBlocksDone)
    /\ ReportedLayout

LayoutInv == HasRoom /\ LayoutRef /\ SizeRef /\ CallsRef

----------------------------------------------------------------------------
\* Where the reference places the levels.

LEMMA CeilMost ==
  ASSUME NEW n \in Nat, NEW d \in Nat \ {0}
  PROVE  CeilDiv(n, d) \in Nat /\ CeilDiv(n, d) <= n
<1> DEFINE q == (n + d - 1) \div d
<1>1. q \in Int /\ d * q <= n + d - 1 /\ n + d - 1 < d * q + d
  OBVIOUS
<1> HIDE DEF q
<1>2. q >= 0
  <2>1. d * (q + 1) = d * q + d
    BY Zenon, <1>1, MulOrder
  <2>2. d * 0 < d * (q + 1)
    BY <1>1, <2>1
  <2>3. 0 < q + 1
    BY <1>1, <2>2, MulOrder
  <2> QED
    BY <1>1, <2>3
<1>3. q <= n
  <2>1. CASE n = 0
    <3>1. d * q < d * 1
      BY <1>1, <2>1
    <3>2. q < 1
      BY <1>1, <3>1, MulOrder
    <3> QED
      BY <1>1, <2>1, <3>2
  <2>2. CASE n # 0
    <3>1. d * (q - 1) = d * q - d
      BY Zenon, <1>1, MulOrder
    <3>2. n <= d * n
      <4>1. 1 * n <= d * n
        OBVIOUS
      <4> QED
        BY <4>1
    <3>3. d * (q - 1) < d * n
      BY <1>1, <3>1, <3>2
    <3>4. q - 1 < n
      BY <1>1, <3>3, MulOrder
    <3> QED
      BY <1>1, <3>4
  <2> QED
    BY <2>1, <2>2
<1> QED
  BY <1>1, <1>2, <1>3 DEF q, CeilDiv

LEMMA RefCounts ==
  ASSUME args \in Calls, NEW l \in -1 .. MaxLevels - 1
  PROVE  RefBlocks(args, l) \in Nat /\ RefBlocks(args, l) <= args.file_size
<1> DEFINE h == HashesPerBlock
           d == args.block_size * h^(l + 1)
<1>1. l + 1 \in 0 .. MaxLevels
  BY WidthAssumption
<1>2. h^(l + 1) \in Nat \ {0} /\ h = RefHashesPerBlock(args)
  BY Zenon, <1>1, Spans
<1>3. args.file_size \in Nat /\ args.block_size \in Nat \ {0}
  BY CallFacts
<1>4. \A x, y \in Nat \ {0} : x * y \in Nat \ {0}
  OBVIOUS
<1>5. d \in Nat \ {0}
  BY Zenon, <1>2, <1>3, <1>4
<1>6. RefBlocks(args, l) = CeilDiv(args.file_size, d)
  BY Zenon, <1>2 DEF RefBlocks
<1> HIDE DEF d
<1> QED
  BY <1>3, <1>5, <1>6, CeilMost

LEMMA RefTreeFinite ==
  ASSUME args \in Calls, RefLevels(args) \in 0 .. MaxLevels
  PROVE  IsFiniteSet(RefTree(args))
<1> DEFINE L == -1 .. RefLevels(args) - 1
           K == 0 .. args.file_size
<1>1. args.file_size \in Int /\ -1 \in Int /\ RefLevels(args) - 1 \in Int /\ 0 \in Int
  BY CallFacts, WidthAssumption
<1>2. IsFiniteSet(L) /\ IsFiniteSet(K)
  BY Zenon, <1>1, FS_Interval
<1>3. \A l \in L : \A k \in 0 .. RefBlocks(args, l) - 1 : k \in K
  <2> SUFFICES ASSUME NEW l \in L, NEW k \in 0 .. RefBlocks(args, l) - 1
               PROVE  k \in K
    OBVIOUS
  <2>1. l \in -1 .. MaxLevels - 1
    BY WidthAssumption
  <2>2. RefBlocks(args, l) \in Nat /\ RefBlocks(args, l) <= args.file_size
    BY <2>1, RefCounts
  <2> QED
    BY <1>1, <2>2
<1>4. RefTree(args) \in SUBSET (L \X K)
  <2> HIDE DEF K, L
  <2>1. RefTree(args) = UNION {{<<l, k>> : k \in 0 .. RefBlocks(args, l) - 1} : l \in L}
    BY DEF RefTree, L
  <2> QED
    BY <1>3, <2>1
<1> HIDE DEF L, K
<1>5. IsFiniteSet(L \X K)
  BY Zenon, <1>2, FS_Product
<1> QED
  BY Zenon, <1>4, <1>5, FS_Subset

\* A level starts after the one above it.
LEMMA RefStartNext ==
  ASSUME args \in Calls, RefLevels(args) \in 0 .. MaxLevels, NEW l \in 0 .. RefLevels(args) - 1
  PROVE  RefStart(args, l) \in Nat /\ RefStart(args, l - 1) = RefStart(args, l) + RefBlocks(args, l)
<1> DEFINE T == RefTree(args)
           n == RefBlocks(args, l)
           above == {b \in T : b[1] > l}
           own == {l} \X (0 .. n - 1)
<1>1. IsFiniteSet(T)
  BY RefTreeFinite
<1>2. n \in Nat /\ 0 \in Int /\ n - 1 \in Int
  <2>1. l \in -1 .. MaxLevels - 1
    BY WidthAssumption
  <2> QED
    BY <2>1, RefCounts
<1>3. IsFiniteSet(above) /\ Cardinality(above) \in Nat
  <2>1. above \in SUBSET T
    OBVIOUS
  <2> QED
    BY Zenon, <1>1, <2>1, FS_Subset, FS_CardinalityType
<1>4. IsFiniteSet(own) /\ Cardinality(own) = n
  <2>1. IsFiniteSet(0 .. n - 1) /\ Cardinality(0 .. n - 1) = n
    <3>1. /\ IsFiniteSet(0 .. n - 1)
          /\ Cardinality(0 .. n - 1) = IF 0 > n - 1 THEN 0 ELSE n - 1 - 0 + 1
      BY Zenon, <1>2, FS_Interval
    <3> QED
      BY <1>2, <3>1
  <2>2. IsFiniteSet({l}) /\ Cardinality({l}) = 1
    BY Zenon, FS_Singleton
  <2>3. IsFiniteSet(own) /\ Cardinality(own) = Cardinality({l}) * Cardinality(0 .. n - 1)
    BY Zenon, <2>1, <2>2, FS_Product
  <2> QED
    BY <1>2, <2>1, <2>2, <2>3
<1>5. {b \in T : b[1] > l - 1} = above \cup own
  <2>1. \A b \in T : /\ b = <<b[1], b[2]>> /\ b[1] \in Int
                     /\ b[1] = l => b[2] \in 0 .. n - 1
    BY RefTreeArePairs, WidthAssumption
  <2>0. l \in -1 .. RefLevels(args) - 1 /\ l \in Int /\ l > l - 1
    BY WidthAssumption
  <2>2. \A k \in 0 .. n - 1 : <<l, k>> \in T
    BY Zenon, <2>0, InRefTree
  <2>3. \A b \in T : b[1] > l - 1 <=> b[1] > l \/ b[1] = l
    BY <2>1, WidthAssumption
  <2>4. \A b \in own : b \in T /\ b[1] > l - 1
    BY <2>0, <2>2
  <2>5. ASSUME NEW b \in T, b[1] = l
        PROVE  b \in own
    BY <2>1, <2>5
  <2> QED
    BY <2>3, <2>4, <2>5
<1>6. above \cap own = {}
  BY WidthAssumption
<1>7. Cardinality(above \cup own) = Cardinality(above) + Cardinality(own) - Cardinality(above \cap own)
  <2> HIDE DEF above, own
  <2> QED
    BY Zenon, <1>3, <1>4, FS_Union
<1>8. Cardinality(above \cap own) = 0
  BY Zenon, <1>6, FS_EmptySet
<1>9. RefStart(args, l) = Cardinality(above) /\ RefStart(args, l - 1) = Cardinality(above \cup own)
  BY Zenon, <1>5 DEF RefStart
<1> HIDE DEF above, own, n
<1> QED
  BY <1>2, <1>3, <1>4, <1>7, <1>8, <1>9 DEF n

\* The root level comes first.
LEMMA RefStartTop ==
  ASSUME args \in Calls, RefLevels(args) \in 0 .. MaxLevels
  PROVE  RefStart(args, RefLevels(args) - 1) = 0
<1>1. \A b \in RefTree(args) : b[1] \in -1 .. RefLevels(args) - 1
  BY DEF RefTree
<1>2. {b \in RefTree(args) : b[1] > RefLevels(args) - 1} = {}
  BY <1>1, WidthAssumption
<1> QED
  BY Zenon, <1>2, FS_EmptySet DEF RefStart

\* No level starts after the end of the last one.
LEMMA RefStartMost ==
  ASSUME args \in Calls, RefLevels(args) \in 0 .. MaxLevels, NEW l \in -1 .. RefLevels(args) - 1
  PROVE  RefStart(args, l) \in Nat /\ RefStart(args, -1) \in Nat /\ RefStart(args, l) <= RefStart(args, -1)
<1> DEFINE T == RefTree(args)
<1>1. IsFiniteSet(T)
  BY RefTreeFinite
<1>2. \A b \in T : b[1] \in Int
  BY WidthAssumption DEF RefTree
<1>3. /\ {b \in T : b[1] > -1} \in SUBSET T
      /\ {b \in T : b[1] > l} \in SUBSET {b \in T : b[1] > -1}
  BY <1>2, WidthAssumption
<1>4. IsFiniteSet({b \in T : b[1] > -1})
  BY Zenon, <1>1, <1>3, FS_Subset
<1> QED
  BY Zenon, <1>3, <1>4, FS_Subset, FS_CardinalityType DEF RefStart

----------------------------------------------------------------------------
\* How many blocks a level may have.

LEMMA RoomFacts ==
  ASSUME args \in Calls
  PROVE  /\ BlockBits \in 0 .. WordBits
         /\ args.block_size * Room(-1) = Word
         /\ Room(-1) \in Nat /\ Room(-1) <= Word
         /\ \A l \in -1 .. BlockBits - 1 : Room(l) \in Nat
         /\ \A l \in 0 .. BlockBits - 1 : Room(l - 1) = 2 * Room(l)
         /\ Room(BlockBits - 1) = 1
<1>1. BlockBits \in 0 .. WordBits /\ args.block_size * 2^BlockBits = Word
  <2>1. \E k \in 0 .. WordBits : args.block_size * 2^k = Word
    BY CallsAssumption DEF ValidCall, CheckedCall
  <2> QED
    BY Zenon, <2>1 DEF BlockBits
<1> HIDE DEF BlockBits
<1>2. Room(-1) = 2^BlockBits
  <2>1. BlockBits - 1 - (-1) = BlockBits
    BY <1>1, WidthAssumption
  <2> QED
    BY Zenon, <2>1 DEF Room
<1>3. \A l \in -1 .. BlockBits - 1 : Room(l) \in Nat
  <2> SUFFICES ASSUME NEW l \in -1 .. BlockBits - 1 PROVE 2^(BlockBits - 1 - l) \in Nat
    BY DEF Room
  <2>1. BlockBits - 1 - l \in 0 .. MaxLevels
    BY <1>1, WidthAssumption
  <2> QED
    BY Zenon, <2>1, PowerAssumption
<1>4. \A l \in 0 .. BlockBits - 1 : Room(l - 1) = 2 * Room(l)
  <2> SUFFICES ASSUME NEW l \in 0 .. BlockBits - 1 PROVE Room(l - 1) = 2 * Room(l)
    OBVIOUS
  <2> DEFINE k == BlockBits - 1 - l
  <2>1. k \in 0 .. MaxLevels /\ BlockBits - 1 - (l - 1) = k + 1
    BY <1>1, WidthAssumption
  <2>2. 2^(k + 1) = 2 * 2^k
    BY Zenon, <2>1, PowerAssumption
  <2>3. Room(l - 1) = 2^(k + 1)
    BY Zenon, <2>1 DEF Room
  <2>4. Room(l) = 2^k
    BY Zenon DEF Room
  <2> QED
    BY Zenon, <2>2, <2>3, <2>4
<1>5. Room(BlockBits - 1) = 1
  <2>1. BlockBits - 1 - (BlockBits - 1) = 0
    BY <1>1, WidthAssumption
  <2> QED
    BY Zenon, <2>1, PowerAssumption DEF Room
<1>6. Room(-1) \in Nat /\ args.block_size * Room(-1) = Word
  <2>1. -1 \in -1 .. BlockBits - 1
    BY <1>1, WidthAssumption
  <2> QED
    BY Zenon, <1>1, <1>2, <1>3, <2>1
<1>7. Room(-1) <= Word
  <2>1. \A b \in Nat \ {0}, r \in Nat : r <= b * r
    OBVIOUS
  <2>2. args.block_size \in Nat \ {0}
    BY CallFacts
  <2>3. Room(-1) <= args.block_size * Room(-1)
    BY Zenon, <1>6, <2>1, <2>2
  <2> QED
    BY Zenon, <1>6, <2>3
<1> QED
  BY Zenon, <1>1, <1>3, <1>4, <1>5, <1>6, <1>7

LEMMA SameRoom ==
  ASSUME args' = args
  PROVE  /\ BlockBits' = BlockBits
         /\ \A l : Room(l)' = Room(l)
         /\ \A l : RefStart(args, l)' = RefStart(args, l)
         /\ RefTreeSize(args)' = RefTreeSize(args)
  BY Zenon DEF BlockBits, Room

\* The file's blocks fit in the word's.
LEMMA StartRoom ==
  ASSUME IInv, IInv', Start
  PROVE  HasRoom'
<1>1. /\ pc = "start" /\ pc' = "levels" /\ args' = args /\ num_levels' = 0
      /\ args \in Calls
  BY DEF Start, Goto, IInv, TypeOK, LocalsOK, NothingYet
<1>2. args.block_size * (nblocks'[-1] - 1) < args.file_size /\ nblocks'[-1] \in Nat
  BY <1>1, WidthAssumption DEF IInv, TypeOK, LocalsOK, LevelCounts
<1>3. args.block_size \in Nat \ {0} /\ args.file_size \in Nat /\ args.file_size + args.block_size <= Word
  BY <1>1, CallFacts
<1>4. /\ args.block_size * Room(-1) = Word /\ Room(-1) \in Nat /\ BlockBits \in Nat
  BY <1>1, RoomFacts, WidthAssumption
<1>5. args.block_size * (nblocks'[-1] - 1) < args.block_size * Room(-1)
  BY <1>2, <1>3, <1>4
<1>6. nblocks'[-1] <= Room(-1)
  <2>1. nblocks'[-1] - 1 < Room(-1)
    BY <1>2, <1>3, <1>4, <1>5, MulOrder
  <2> QED
    BY <1>2, <1>4, <2>1
<1>7. -1 < BlockBits /\ Room(-1) <= Room(-1)
  BY <1>4
<1>8. /\ BlockBits' = BlockBits /\ Room(-1)' = Room(-1)
  BY Zenon, <1>1, SameRoom
<1>9. \A l \in -1 .. num_levels' - 1 : l = -1
  BY <1>1
<1> QED
  BY Zenon, <1>6, <1>7, <1>8, <1>9 DEF HasRoom

\* A level has at most half the blocks of the level below it.
LEMMA CountRoom ==
  ASSUME IInv, IInv', HasRoom, CountLevel
  PROVE  HasRoom'
<1> DEFINE k == num_levels
<1>1. /\ pc = "levels" /\ pc' \in {"levels", "out"} /\ blocks > 1 /\ args' = args /\ args \in Calls
      /\ k \in 0 .. MaxLevels
      /\ nblocks' \in [-1 .. MaxLevels - 1 -> Nat]
  <2>1. /\ pc = "levels" /\ blocks > 1 /\ args' = args /\ (pc' = "levels" \/ pc' = "out")
    BY Zenon DEF CountLevel, Goto, Leave
  <2> QED
    BY <2>1 DEF IInv, TypeOK, LocalsOK
<1>2. CASE pc' = "out"
  BY Zenon, <1>2 DEF HasRoom
<1>3. CASE pc' = "levels"
  <2>1. /\ k < MaxLevels /\ num_levels' = k + 1
        /\ \A l \in -1 .. k - 1 : nblocks'[l] = nblocks[l]
    <3>1. k < MaxLevels /\ num_levels' = k + 1 /\ nblocks' = [nblocks EXCEPT ![k] = blocks']
      <4>1. "out" # "levels"
        OBVIOUS
      <4>2. ~(num_levels >= MaxLevels)
        BY Zenon, <1>3, <4>1 DEF CountLevel, Leave
      <4>3. num_levels' = k + 1 /\ nblocks' = [nblocks EXCEPT ![k] = blocks']
        BY Zenon, <4>2 DEF CountLevel
      <4> QED
        BY <1>1, <4>2, <4>3, WidthAssumption
    <3>2. nblocks \in [-1 .. MaxLevels - 1 -> Nat]
      BY DEF IInv, TypeOK, LocalsOK
    <3> QED
      BY <1>1, <3>1, <3>2
  <2>2. /\ blocks = nblocks[k - 1] /\ blocks \in Nat
        /\ \A l \in -1 .. k - 1 : l < BlockBits /\ nblocks[l] <= Room(l) /\ Room(l) <= Room(-1)
    BY <1>1 DEF IInv, TypeOK, LocalsOK, LevelCounts, HasRoom
  <2>3. /\ nblocks'[k] \in Nat \ {0} /\ HashesPerBlock * (nblocks'[k] - 1) < blocks
    <3>1. k \in 0 .. num_levels' - 1 /\ k \in -1 .. num_levels' - 1 /\ k - 1 \in -1 .. k - 1
          /\ k \in -1 .. MaxLevels - 1
      BY <1>1, <2>1, WidthAssumption
    <3>2. HashesPerBlock' = HashesPerBlock
      BY Zenon, <1>1 DEF HashesPerBlock
    <3>3. nblocks'[k] > 0 /\ HashesPerBlock * (nblocks'[k] - 1) < nblocks'[k - 1]
      <4>1. pc' \notin {"start", "out", "done"}
        BY <1>3
      <4> QED
        BY Zenon, <3>1, <3>2, <4>1 DEF IInv, LevelCounts
    <3> QED
      BY <1>1, <2>1, <2>2, <3>1, <3>3
  <2>4. /\ k - 1 < BlockBits /\ blocks <= Room(k - 1) /\ Room(k - 1) <= Room(-1)
    <3>1. k - 1 \in -1 .. k - 1
      BY <1>1
    <3> QED
      BY Zenon, <2>2, <3>1
  <2>5. /\ BlockBits \in Nat /\ Room(-1) \in Nat
        /\ \A l \in -1 .. BlockBits - 1 : Room(l) \in Nat
        /\ \A l \in 0 .. BlockBits - 1 : Room(l - 1) = 2 * Room(l)
        /\ Room(BlockBits - 1) = 1
    BY <1>1, RoomFacts, WidthAssumption
  <2>6. k < BlockBits
    <3>1. k # BlockBits
      BY <1>1, <2>2, <2>4, <2>5
    <3> QED
      BY <1>1, <2>4, <2>5, <3>1
  <2>7. Room(k) \in Nat /\ Room(k - 1) = 2 * Room(k)
    <3>1. k \in -1 .. BlockBits - 1 /\ k \in 0 .. BlockBits - 1
      BY <1>1, <2>5, <2>6
    <3> QED
      BY Zenon, <2>5, <3>1
  <2>8. nblocks'[k] <= Room(k) /\ Room(k) <= Room(-1)
    <3>1. HashesPerBlock \in Nat /\ HashesPerBlock >= 2
      BY <1>1, CallFacts
    <3>2. 2 * (nblocks'[k] - 1) <= blocks - 1
      BY <1>1, <2>2, <2>3, <3>1, HalveLemma
    <3> QED
      BY <2>2, <2>3, <2>4, <2>5, <2>7, <3>2
  <2>9. \A l \in -1 .. num_levels' - 1 : l \in -1 .. k - 1 \/ l = k
    BY <1>1, <2>1
  <2>10. \A l \in -1 .. num_levels' - 1 : l < BlockBits /\ nblocks'[l] <= Room(l) /\ Room(l) <= Room(-1)
    BY Zenon, <2>1, <2>2, <2>6, <2>8, <2>9
  <2>11. BlockBits' = BlockBits /\ \A l : Room(l)' = Room(l)
    BY Zenon, <1>1, SameRoom
  <2> QED
    BY Zenon, <2>10, <2>11 DEF HasRoom
<1> QED
  BY Zenon, <1>1, <1>2, <1>3

LEMMA RoomStep ==
  ASSUME IInv, IInv', HasRoom, [Next]_vars
  PROVE  HasRoom'
<1>1. args' = args
  BY ArgsKept
<1>2. CASE UNCHANGED <<num_levels, nblocks>> /\ (pc' \in {"out", "done"} \/ pc \notin {"start", "out", "done"})
  <2>1. BlockBits' = BlockBits /\ \A l : Room(l)' = Room(l)
    BY Zenon, <1>1, SameRoom
  <2> QED
    BY Zenon, <1>2, <2>1 DEF HasRoom
<1>3. CASE LevelsCounted
  <2>1. pc = "levels" /\ UNCHANGED <<num_levels, nblocks>>
    BY Zenon, <1>3 DEF LevelsCounted, history
  <2> QED
    BY <1>2, <2>1
<1>4. CASE pc' = pc /\ UNCHANGED <<num_levels, nblocks>>
  <2>1. BlockBits' = BlockBits /\ \A l : Room(l)' = Room(l)
    BY Zenon, <1>1, SameRoom
  <2> QED
    BY Zenon, <1>4, <2>1 DEF HasRoom
<1> QED
  <2>1. \/ Start \/ CountLevel \/ LevelsCounted
        \/ /\ UNCHANGED <<args, num_levels, nblocks>>
           /\ \/ pc' \in {"out", "done"}
              \/ pc' = pc /\ blocks' = blocks
              \/ pc \in {"layout", "alloc", "read", "cascade", "flush"} /\ pc' \notin {"start", "levels"}
    BY Laid
  <2>2. pc \in {"layout", "alloc", "read", "cascade", "flush"} => pc \notin {"start", "out", "done"}
    OBVIOUS
  <2> QED
    BY Zenon, <1>2, <1>3, <1>4, <2>1, <2>2, StartRoom, CountRoom

----------------------------------------------------------------------------
\* The levels are placed from the top down.

\* What is known of a level once the levels are counted.
LEMMA LevelFacts ==
  ASSUME IInv, LevelsRef, HasRoom, pc \in {"layout", "alloc", "read", "cascade", "flush"}
  PROVE  /\ args \in Calls /\ num_levels \in 0 .. MaxLevels
         /\ RefLevels(args) = num_levels
         /\ \A l \in -1 .. num_levels - 1 :
              /\ nblocks[l] \in Nat \ {0} /\ nblocks[l] = RefBlocks(args, l)
              /\ l < BlockBits /\ nblocks[l] <= Room(l) /\ Room(l) <= Room(-1)
<1>1. pc \notin {"start", "out", "done"} /\ pc # "levels"
  OBVIOUS
<1>2. args \in Calls /\ num_levels \in 0 .. MaxLevels /\ nblocks \in [-1 .. MaxLevels - 1 -> Nat]
  BY Zenon DEF IInv, TypeOK, LocalsOK
<1>3. RefLevels(args) = num_levels
  BY Zenon, <1>1 DEF LevelsRef
<1>4. \A l \in -1 .. num_levels - 1 : nblocks[l] > 0 /\ nblocks[l] = RefBlocks(args, l)
  BY Zenon, <1>1 DEF LevelsRef, IInv, LevelCounts
<1>5. \A l \in -1 .. num_levels - 1 : nblocks[l] \in Nat \ {0}
  BY <1>2, <1>4, WidthAssumption
<1>6. \A l \in -1 .. num_levels - 1 : l < BlockBits /\ nblocks[l] <= Room(l) /\ Room(l) <= Room(-1)
  BY Zenon, <1>1 DEF HasRoom
<1> QED
  BY Zenon, <1>2, <1>3, <1>4, <1>5, <1>6

LEMMA CountLayout ==
  ASSUME IInv, LayoutRef, CountLevel
  PROVE  LayoutRef'
<1> DEFINE k == num_levels
<1>1. /\ pc = "levels" /\ (pc' = "levels" \/ pc' = "out")
      /\ pc' = "levels" => /\ level_offset' = Extend(level_offset, k, blocks')
                           /\ nblocks' = [nblocks EXCEPT ![k] = blocks']
                           /\ num_levels' = k + 1 /\ k < MaxLevels
  <2>1. "out" # "levels"
    OBVIOUS
  <2>2. k \in Int /\ MaxLevels \in Int
    BY WidthAssumption DEF IInv, TypeOK, LocalsOK
  <2>3. ~(k >= MaxLevels) => k < MaxLevels
    BY <2>2
  <2> QED
    BY Zenon, <2>1, <2>3 DEF CountLevel, Goto, Leave
<1>2. CASE pc' = "out"
  BY <1>2 DEF LayoutRef, Hashing
<1>3. CASE pc' = "levels"
  <2>1. /\ k \in 0 .. MaxLevels /\ level_offset \in [0 .. k - 1 -> Nat]
        /\ nblocks \in [-1 .. MaxLevels - 1 -> Nat]
    BY Zenon DEF IInv, TypeOK, LocalsOK
  <2>2. \A m \in 0 .. k - 1 : level_offset[m] = nblocks[m]
    BY Zenon, <1>1 DEF LayoutRef
  <2>3. \A m \in 0 .. k : level_offset'[m] = nblocks'[m]
    <3>1. /\ level_offset' = [x \in (0 .. k - 1) \cup {k} |-> IF x = k THEN blocks' ELSE level_offset[x]]
          /\ nblocks' = [x \in -1 .. MaxLevels - 1 |-> IF x = k THEN blocks' ELSE nblocks[x]]
      <4>1. DOMAIN level_offset = 0 .. k - 1 /\ DOMAIN nblocks = -1 .. MaxLevels - 1
        BY Zenon, <2>1
      <4> QED
        BY Zenon, <1>1, <1>3, <4>1 DEF Extend
    <3>2. \A m \in 0 .. k : m \in -1 .. MaxLevels - 1 /\ (m \in 0 .. k - 1 \/ m = k)
      BY <1>1, <1>3, <2>1, WidthAssumption
    <3> QED
      BY Zenon, <2>2, <3>1, <3>2
  <2>4. num_levels' - 1 = k
    BY <1>1, <1>3, <2>1
  <2> QED
    BY <1>3, <2>3, <2>4 DEF LayoutRef, Hashing
<1> QED
  BY Zenon, <1>1, <1>2, <1>3

LEMMA CountedLayout ==
  ASSUME IInv, LevelsRef', HasRoom, LayoutRef, LevelsCounted
  PROVE  LayoutRef'
<1> DEFINE n == num_levels
<1>1. /\ pc = "levels" /\ pc' = "layout" /\ args' = args /\ num_levels' = n
      /\ offset' = 0 /\ level' = n - 1 /\ level_offset' = level_offset /\ nblocks' = nblocks
  BY Zenon DEF LevelsCounted, Goto, history
<1>2. /\ n \in 0 .. MaxLevels /\ n - 1 \in -1 .. n - 1 /\ args \in Calls
      /\ nblocks \in [-1 .. MaxLevels - 1 -> Nat]
  BY WidthAssumption DEF IInv, TypeOK, LocalsOK
<1>3. pc \notin {"start", "out", "done"} /\ pc' \notin {"start", "out", "done"} /\ pc' # "levels"
  BY <1>1
<1>4. RefLevels(args) = n
  <2>1. RefLevels(args') = num_levels'
    BY Zenon, <1>3 DEF LevelsRef
  <2> QED
    BY Zenon, <1>1, <2>1
<1>5. nblocks[n - 1] > 0 /\ n - 1 < BlockBits /\ nblocks[n - 1] <= Room(n - 1)
  BY Zenon, <1>2, <1>3 DEF HasRoom, IInv, LevelCounts
<1>6. RefStart(args, n - 1) = 0
  BY Zenon, <1>2, <1>4, RefStartTop
<1>7. 0 < Room(n - 1)
  <2>1. n - 1 \in -1 .. BlockBits - 1
    BY <1>2, <1>5, RoomFacts, WidthAssumption
  <2>2. Room(n - 1) \in Nat
    BY Zenon, <1>2, <2>1, RoomFacts
  <2>3. nblocks[n - 1] \in Nat
    BY <1>2, WidthAssumption
  <2> QED
    BY <1>5, <2>2, <2>3
<1>8. RefStart(args, level)' = 0 /\ Placed(level)'
  <2>1. Room(level)' = Room(n - 1)
    BY Zenon, <1>1, SameRoom DEF Room
  <2>2. RefStart(args, level)' = 0
    BY Zenon, <1>1, <1>6
  <2> QED
    BY Zenon, <1>7, <2>1, <2>2 DEF Placed
<1>9. \A m \in 0 .. n - 1 : level_offset[m] = nblocks[m]
  BY Zenon, <1>1 DEF LayoutRef
<1>10. \A m \in (n - 1) + 1 .. n - 1 : FALSE
  BY <1>2, WidthAssumption
<1> QED
  <2>1. /\ \A m \in 0 .. level' : level_offset'[m] = nblocks'[m]
        /\ \A m \in level' + 1 .. num_levels' - 1 : level_offset'[m] = RefStart(args', m)
    BY Zenon, <1>1, <1>9, <1>10
  <2>2. pc' # "levels" /\ pc' # "alloc" /\ ~Hashing'
    BY <1>1 DEF Hashing
  <2> QED
    BY Zenon, <1>1, <1>8, <2>1, <2>2 DEF LayoutRef

\* Placing a level after those above it does not wrap.
LEMMA PlaceLayout ==
  ASSUME IInv, LevelsRef, HasRoom, LayoutRef, PlaceLevel
  PROVE  LayoutRef'
<1> DEFINE l == level
           s == RefStart(args, l)
<1>1. /\ pc = "layout" /\ pc' = "layout" /\ args' = args /\ num_levels' = num_levels /\ nblocks' = nblocks
      /\ l >= 0 /\ blocks' = level_offset[l] /\ offset' = (offset + blocks') % Word
      /\ level' = l - 1 /\ level_offset' = [level_offset EXCEPT ![l] = offset]
  BY Zenon DEF PlaceLevel, Goto, history
<1>2. pc \in {"layout", "alloc", "read", "cascade", "flush"}
  BY <1>1
<1>3. /\ args \in Calls /\ num_levels \in 0 .. MaxLevels
      /\ RefLevels(args) = num_levels
      /\ \A m \in -1 .. num_levels - 1 :
           /\ nblocks[m] \in Nat \ {0} /\ nblocks[m] = RefBlocks(args, m)
           /\ m < BlockBits /\ nblocks[m] <= Room(m) /\ Room(m) <= Room(-1)
  BY <1>2, LevelFacts
<1>4. /\ offset = s /\ s < Room(l)
      /\ \A m \in 0 .. l : level_offset[m] = nblocks[m]
      /\ \A m \in l + 1 .. num_levels - 1 : level_offset[m] = RefStart(args, m)
  BY Zenon, <1>1 DEF LayoutRef, Placed
<1>5. l \in -1 .. num_levels - 1
  BY Zenon, <1>1 DEF IInv, Allocated
<1>6. /\ l \in 0 .. num_levels - 1 /\ l - 1 \in -1 .. num_levels - 1 /\ l \in 0 .. l
      /\ (l - 1) + 1 = l
  BY <1>1, <1>3, <1>5, WidthAssumption
<1>7. /\ nblocks[l] \in Nat \ {0} /\ nblocks[l] = RefBlocks(args, l) /\ nblocks[l] <= Room(l)
      /\ l < BlockBits /\ Room(l - 1) <= Room(-1) /\ level_offset[l] = nblocks[l]
  BY Zenon, <1>3, <1>4, <1>5, <1>6
<1>8. s \in Nat /\ RefStart(args, l - 1) = s + nblocks[l]
  BY Zenon, <1>3, <1>6, <1>7, RefStartNext
<1>9. /\ Room(l) \in Nat /\ Room(l - 1) = 2 * Room(l) /\ Room(-1) \in Nat /\ Room(-1) <= Word
      /\ Word \in Nat
  <2>1. BlockBits \in Int
    BY <1>3, RoomFacts, WidthAssumption
  <2>2. l \in -1 .. BlockBits - 1 /\ l \in 0 .. BlockBits - 1
    BY <1>3, <1>6, <1>7, <2>1
  <2> QED
    BY Zenon, <1>3, <2>2, RoomFacts, CallFacts
<1>10. s + nblocks[l] < Room(l - 1) /\ s + nblocks[l] < Word /\ s + nblocks[l] \in Nat
  BY <1>4, <1>7, <1>8, <1>9
<1>11. offset' = RefStart(args, l - 1)
  <2>1. (s + nblocks[l]) % Word = s + nblocks[l]
    BY Zenon, <1>9, <1>10, NoWrap
  <2> QED
    BY Zenon, <1>1, <1>4, <1>7, <1>8, <2>1
<1>12. offset' = RefStart(args, level)' /\ Placed(level)'
  <2>1. Room(level)' = Room(l - 1) /\ RefStart(args, level)' = RefStart(args, l - 1)
    BY Zenon, <1>1, SameRoom DEF Room
  <2> QED
    BY Zenon, <1>8, <1>10, <1>11, <2>1 DEF Placed
<1>13. level_offset \in [0 .. num_levels - 1 -> Nat]
  BY Zenon DEF IInv, TypeOK, LocalsOK
<1>14. \A m \in 0 .. num_levels - 1 : level_offset'[m] = IF m = l THEN s ELSE level_offset[m]
  BY Zenon, <1>1, <1>4, <1>13
<1>15. \A m \in 0 .. level' : level_offset'[m] = nblocks'[m]
  <2>1. \A m \in 0 .. l - 1 : m \in 0 .. num_levels - 1 /\ m # l /\ m \in 0 .. l
    BY <1>3, <1>6
  <2> QED
    BY Zenon, <1>1, <1>4, <1>14, <2>1
<1>16. \A m \in level' + 1 .. num_levels' - 1 : level_offset'[m] = RefStart(args', m)
  <2>1. \A m \in l .. num_levels - 1 : m \in 0 .. num_levels - 1 /\ (m = l \/ m \in l + 1 .. num_levels - 1)
    BY <1>3, <1>6
  <2>2. ASSUME NEW m \in l .. num_levels - 1 PROVE level_offset'[m] = RefStart(args, m)
    <3>1. CASE m = l
      BY Zenon, <1>14, <2>1, <3>1
    <3>2. CASE m # l
      BY Zenon, <1>4, <1>14, <2>1, <3>2
    <3> QED
      BY Zenon, <3>1, <3>2
  <2> QED
    BY Zenon, <1>1, <1>6, <2>2
<1>17. pc' # "levels" /\ pc' # "alloc" /\ ~Hashing'
  BY <1>1 DEF Hashing
<1> QED
  BY Zenon, <1>12, <1>15, <1>16, <1>17 DEF LayoutRef

\* The size that is announced does not wrap either.
LEMMA LayoutSize ==
  ASSUME IInv, LevelsRef, HasRoom, LayoutRef, LayoutDone
  PROVE  LayoutRef' /\ SizeRef'
<1> DEFINE s == RefStart(args, -1)
<1>1. /\ pc = "layout" /\ level < 0 /\ args' = args
      /\ num_levels' = num_levels /\ level_offset' = level_offset /\ tree' = tree
      /\ pc' = "alloc" \/ pc' = "out"
      /\ "merkle_tree_size" \in args.cbs => tree_size' = (offset * args.block_size) % Word
  BY Zenon DEF LayoutDone, ReportSize, Goto, Leave, history
<1>2. /\ args \in Calls /\ num_levels \in 0 .. MaxLevels /\ RefLevels(args) = num_levels
  <2>1. pc \in {"layout", "alloc", "read", "cascade", "flush"}
    BY <1>1
  <2> QED
    BY <2>1, LevelFacts
<1>3. level = -1 /\ -1 \in -1 .. num_levels - 1 /\ -1 + 1 = 0
  <2>1. level \in -1 .. num_levels - 1
    BY Zenon, <1>1 DEF IInv, Allocated
  <2>2. level < 0
    BY Zenon, <1>1
  <2>3. num_levels \in Nat
    BY <1>2, WidthAssumption
  <2> QED
    BY <2>1, <2>2, <2>3
<1>4. /\ offset = s /\ s < Room(-1)
      /\ \A m \in 0 .. num_levels - 1 : level_offset[m] = RefStart(args, m)
  BY Zenon, <1>1, <1>3 DEF LayoutRef, Placed
<1>5. s \in Nat /\ \A m \in 0 .. num_levels - 1 : RefStart(args, m) \in Nat
  <2>1. \A m \in 0 .. num_levels - 1 : m \in -1 .. num_levels - 1
    BY <1>2
  <2> QED
    BY Zenon, <1>2, <1>3, <2>1, RefStartMost
<1>6. Placed(-1)'
  BY Zenon, <1>1, <1>4, SameRoom DEF Placed
<1>7. \A m \in 0 .. num_levels - 1 : Hashed(m)' = 0 /\ level_offset[m] + 0 = level_offset[m]
  <2>1. tree = [l \in -1 .. MaxLevels - 1 |-> <<>>]
    BY <1>1 DEF IInv, NothingYet
  <2>2. \A m \in 0 .. num_levels - 1 : m \in -1 .. MaxLevels - 1
    BY <1>2, WidthAssumption
  <2>3. Len(<<>>) = 0
    OBVIOUS
  <2>4. \A m \in 0 .. num_levels - 1 : Hashed(m)' = 0
    BY Zenon, <1>1, <2>1, <2>2, <2>3 DEF Hashed
  <2>5. \A m \in 0 .. num_levels - 1 : level_offset[m] + 0 = level_offset[m]
    BY <1>4, <1>5
  <2> QED
    BY Zenon, <2>4, <2>5
<1>8. LayoutRef'
  <2>1. \A m \in 0 .. num_levels' - 1 : level_offset'[m] = RefStart(args', m) + Hashed(m)'
    BY Zenon, <1>1, <1>4, <1>7
  <2>2. pc' # "levels" /\ pc' # "layout"
    BY <1>1
  <2> QED
    BY Zenon, <1>6, <2>1, <2>2 DEF LayoutRef
<1>9. SizeRef'
  <2>2. CASE "merkle_tree_size" \in args.cbs
    <3>1. args.block_size \in Nat \ {0} /\ args.block_size * Room(-1) = Word /\ Room(-1) \in Nat /\ Word \in Nat
      BY <1>2, CallFacts, RoomFacts
    <3>2. args.block_size * s < args.block_size * Room(-1)
      <4>1. s \in Int /\ Room(-1) \in Int
        BY <1>5, <3>1
      <4> QED
        BY Zenon, <1>4, <3>1, <4>1, MulOrder
    <3>3. offset * args.block_size = args.block_size * s /\ args.block_size * s \in Nat
      BY <1>4, <1>5, <3>1
    <3>4. (args.block_size * s) % Word = args.block_size * s
      BY Zenon, <3>1, <3>2, <3>3, NoWrap
    <3>5. tree_size' = RefTreeSize(args)
      BY Zenon, <1>1, <2>2, <3>3, <3>4 DEF RefTreeSize
    <3> QED
      BY Zenon, <1>1, <3>5, SameRoom DEF SizeRef
  <2>3. CASE "merkle_tree_size" \notin args.cbs
    BY Zenon, <1>1, <2>3 DEF SizeRef
  <2> QED
    BY Zenon, <2>2, <2>3
<1> QED
  BY <1>8, <1>9

----------------------------------------------------------------------------
\* While blocks are hashed, each level has a place for its next block.

LEMMA SameLayout ==
  ASSUME LayoutRef, pc = "alloc" \/ Hashing, args' = args, num_levels' = num_levels,
         pc' # "levels", pc' # "layout",
         "merkle_tree_block" \in args.cbs => \A m \in 0 .. num_levels - 1 :
           level_offset'[m] = RefStart(args, m) + Hashed(m)'
  PROVE  LayoutRef'
<1>1. Placed(-1)
  BY Zenon DEF LayoutRef
<1>2. Placed(-1)'
  BY Zenon, <1>1, SameRoom DEF Placed
<1> QED
  BY Zenon, <1>2 DEF LayoutRef

\* Where the block that is finished goes: in its level's room, so that neither
\* its offset nor the next block's wraps.
LEMMA BlockOffset ==
  ASSUME IInv, ShapeInv, HasRoom, LayoutRef, Cascade \/ Flush, "merkle_tree_block" \in args.cbs
  PROVE  /\ level_offset[level] = RefStart(args, level) + Hashed(level)
         /\ (level_offset[level] + 1) % Word = RefStart(args, level) + (Hashed(level) + 1)
         /\ (level_offset[level] * args.block_size) % Word = RefOffset(args, level, Hashed(level))
<1> DEFINE s == RefStart(args, level)
           n == Hashed(level)
           b == args.block_size
<1>1. /\ pc \in {"cascade", "flush"} /\ Hashing /\ level \in 0 .. num_levels - 1
      /\ n < nblocks[level]
  BY FinishWhat
<1>2. LevelsRef
  BY DEF ShapeInv
<1>3. pc \in {"layout", "alloc", "read", "cascade", "flush"}
  BY <1>1
<1>4. /\ args \in Calls /\ num_levels \in 0 .. MaxLevels /\ RefLevels(args) = num_levels
  BY <1>2, <1>3, LevelFacts
<1>5. level \in -1 .. num_levels - 1 /\ level - 1 \in -1 .. num_levels - 1
  BY <1>1, <1>4, WidthAssumption
<1>6. nblocks[level] \in Nat /\ nblocks[level] = RefBlocks(args, level) /\ n \in Nat
  BY <1>1, <1>2, <1>5, HashingFacts
<1>7. level_offset[level] = s + n /\ RefStart(args, -1) < Room(-1)
  BY Zenon, <1>1 DEF LayoutRef, Placed
<1>8. s \in Nat /\ RefStart(args, level - 1) = s + nblocks[level]
  BY Zenon, <1>1, <1>4, <1>6, RefStartNext
<1>9. RefStart(args, -1) \in Nat /\ RefStart(args, level - 1) <= RefStart(args, -1)
  BY Zenon, <1>4, <1>5, RefStartMost
<1>10. /\ b \in Nat \ {0} /\ b * Room(-1) = Word /\ Room(-1) \in Nat /\ Room(-1) <= Word
       /\ Word \in Nat
  BY <1>4, CallFacts, RoomFacts
<1> HIDE DEF s, n, b
<1>11. s + n \in Nat /\ (s + n) + 1 \in Nat /\ (s + n) + 1 < Word /\ s + n < Room(-1)
       /\ (s + n) + 1 = s + (n + 1)
  BY <1>1, <1>6, <1>7, <1>8, <1>9, <1>10
<1>12. ((s + n) + 1) % Word = s + (n + 1)
  BY Zenon, <1>10, <1>11, NoWrap
<1>13. b * (s + n) \in Nat /\ b * (s + n) < Word /\ (s + n) * b = b * (s + n)
  <2>1. s + n \in Int /\ Room(-1) \in Int
    BY <1>10, <1>11
  <2>2. b * (s + n) < b * Room(-1)
    BY Zenon, <1>10, <1>11, <2>1, MulOrder
  <2>3. \A x \in Nat, y \in Nat : x * y \in Nat /\ y * x = x * y
    OBVIOUS
  <2>4. b \in Nat
    BY <1>10
  <2> QED
    BY Zenon, <1>10, <1>11, <2>2, <2>3, <2>4
<1>14. ((s + n) * b) % Word = b * (s + n)
  <2>1. (b * (s + n)) % Word = b * (s + n)
    BY Zenon, <1>10, <1>13, NoWrap
  <2> QED
    BY Zenon, <1>13, <2>1
<1> QED
  BY Zenon, <1>7, <1>12, <1>14 DEF RefOffset, s, n, b

LEMMA FinishLayout ==
  ASSUME IInv, ShapeInv, HasRoom, LayoutRef, Cascade \/ Flush
  PROVE  LayoutRef'
<1>1. /\ pc \in {"cascade", "flush"} /\ Hashing /\ level \in 0 .. num_levels - 1
      /\ Hashed(level) < nblocks[level] /\ level < num_levels /\ FinishBlock(pc)
  BY FinishWhat
<1>2. args' = args /\ num_levels' = num_levels
  BY FinishReport
<1>3. pc' = pc \/ pc' = "out"
  BY Zenon, FinishReport
<1>4. CASE pc' = "out"
  BY <1>4 DEF LayoutRef, Hashing
<1>5. CASE pc' = pc
  <2>1. \A m \in 0 .. num_levels - 1 : Hashed(m)' = IF m = level THEN Hashed(m) + 1 ELSE Hashed(m)
    <3>1. \A m \in 0 .. num_levels - 1 : m \in -1 .. num_levels - 1
      BY WidthAssumption DEF IInv, TypeOK, LocalsOK
    <3> QED
      BY Zenon, <1>1, <3>1, FinishBlockCounts
  <2>2. ASSUME "merkle_tree_block" \in args.cbs, NEW m \in 0 .. num_levels - 1
        PROVE  level_offset'[m] = RefStart(args, m) + Hashed(m)'
    <3>1. pc' # "out"
      BY <1>1, <1>5
    <3>2. level_offset' = [level_offset EXCEPT ![level] = (@ + 1) % Word]
      BY Zenon, <2>2, <3>1, FinishReport
    <3>3. level_offset \in [0 .. num_levels - 1 -> Nat]
      BY Zenon DEF IInv, TypeOK, LocalsOK
    <3>4. level_offset[m] = RefStart(args, m) + Hashed(m)
      BY Zenon, <1>1, <2>2 DEF LayoutRef
    <3>5. (level_offset[level] + 1) % Word = RefStart(args, level) + (Hashed(level) + 1)
      BY <2>2, BlockOffset
    <3>6. CASE m = level
      BY Zenon, <1>1, <2>1, <3>2, <3>3, <3>5, <3>6
    <3>7. CASE m # level
      BY Zenon, <2>1, <3>2, <3>3, <3>4, <3>7
    <3> QED
      BY Zenon, <3>6, <3>7
  <2>3. pc' # "levels" /\ pc' # "layout"
    BY <1>1, <1>5
  <2> QED
    BY Zenon, <1>1, <1>2, <2>2, <2>3, SameLayout
<1> QED
  BY Zenon, <1>3, <1>4, <1>5

\* The steps that hash nothing leave the layout alone once it is known.
LEMMA QuietLayout ==
  ASSUME IInv, [Next]_vars, ~Start, ~CountLevel, ~LevelsCounted, ~PlaceLevel, ~LayoutDone,
         ~ReadBlock, ~Cascade, ~Flush
  PROVE  \/ pc' \in {"out", "done"}
         \/ UNCHANGED vars
         \/ /\ pc = "alloc" \/ Hashing
            /\ pc' \in {"alloc", "read", "cascade", "flush"}
            /\ UNCHANGED <<args, num_levels, level_offset, tree>>
<1>1. CASE StartEmpty \/ AllocSaltFails \/ ReadFails \/ CheckRoot \/ Out \/ Returned
  <2>1. pc' = "out" \/ pc' = "done"
    BY Zenon, <1>1 DEF StartEmpty, AllocSaltFails, ReadFails, CheckRoot, Out, Returned, ReportSize, Goto, Leave, vars
  <2> QED
    BY <2>1
<1>2. CASE AllocBuffer \/ AllocDone \/ CascadeDone \/ EndOfData \/ FlushNothing
  <2>1. /\ pc = "alloc" \/ pc = "read" \/ pc = "cascade" \/ pc = "flush"
        /\ pc' = "out" \/ pc' = "alloc" \/ pc' = "read" \/ pc' = "flush"
        /\ UNCHANGED <<args, num_levels, level_offset, tree>>
    BY Zenon, <1>2 DEF AllocBuffer, AllocDone, CascadeDone, EndOfData, FlushNothing, Goto, Leave, history
  <2> QED
    BY <2>1 DEF Hashing
<1> QED
  BY Zenon, <1>1, <1>2 DEF Next, Step

LEMMA StillLayout ==
  ASSUME LayoutRef, UNCHANGED vars
  PROVE  LayoutRef'
<1>1. /\ pc' = pc /\ args' = args /\ num_levels' = num_levels /\ level' = level /\ offset' = offset
      /\ level_offset' = level_offset /\ nblocks' = nblocks /\ tree' = tree
  BY Zenon DEF vars, locals, history
<1>2. /\ \A m : RefStart(args, m)' = RefStart(args, m) /\ Room(m)' = Room(m) /\ Hashed(m)' = Hashed(m)
      /\ Hashing' = Hashing
  BY Zenon, <1>1, SameRoom DEF Hashed, Hashing
<1>3. /\ Placed(level)' = Placed(level) /\ Placed(-1)' = Placed(-1)
      /\ RefStart(args, level)' = RefStart(args, level)
  BY Zenon, <1>1, <1>2 DEF Placed, Room
<1> QED
  BY Zenon, <1>1, <1>2, <1>3 DEF LayoutRef

LEMMA LayoutStep ==
  ASSUME IInv, IInv', ShapeInv, ShapeInv', HasRoom, LayoutRef, [Next]_vars
  PROVE  LayoutRef'
<1>1. LevelsRef /\ LevelsRef' /\ args' = args
  BY ArgsKept DEF ShapeInv
<1>2. CASE pc' \in {"out", "done"}
  BY <1>2 DEF LayoutRef, Hashing
<1>3. CASE Start
  <2>1. pc = "start" /\ pc' = "levels" /\ num_levels' = num_levels
    BY Zenon, <1>3 DEF Start, Goto
  <2>2. num_levels = 0
    BY Zenon, <2>1 DEF IInv, NothingYet
  <2>3. \A m \in 0 .. 0 - 1 : FALSE
    OBVIOUS
  <2>4. pc' # "layout" /\ pc' # "alloc" /\ ~Hashing'
    BY <2>1 DEF Hashing
  <2> QED
    BY Zenon, <2>1, <2>2, <2>3, <2>4 DEF LayoutRef
<1>4. CASE ReadBlock
  <2>1. /\ Hashing /\ num_levels' = num_levels /\ num_levels \in 0 .. MaxLevels
        /\ -1 \in -1 .. num_levels - 1 /\ ReadData \in Blocks(-1) /\ ReadCount \in Nat
        /\ HashOneBlock(-1, ReadData, ReadCount) /\ pc' = "cascade"
    BY <1>4, ReadWhat
  <2>2. level_offset' = level_offset
    BY Zenon, <1>4 DEF ReadBlock
  <2>3. \A l \in -1 .. num_levels - 1 : Hashed(l)' = IF l = -1 THEN Hashed(l) + 1 ELSE Hashed(l)
    BY Zenon, <1>1, <2>1, HashFacts
  <2>4. \A m \in 0 .. num_levels - 1 : m \in -1 .. num_levels - 1 /\ m # -1
    BY <2>1
  <2>5. "merkle_tree_block" \in args.cbs => \A m \in 0 .. num_levels - 1 :
          level_offset'[m] = RefStart(args, m) + Hashed(m)'
    BY Zenon, <2>1, <2>2, <2>3, <2>4 DEF LayoutRef
  <2>6. pc' # "levels" /\ pc' # "layout"
    BY <2>1
  <2> QED
    BY Zenon, <1>1, <2>1, <2>5, <2>6, SameLayout
<1>5. CASE /\ pc = "alloc" \/ Hashing
           /\ pc' \in {"alloc", "read", "cascade", "flush"}
           /\ UNCHANGED <<args, num_levels, level_offset, tree>>
  <2>1. pc' # "levels" /\ pc' # "layout"
    BY <1>5
  <2>2. \A m : Hashed(m)' = Hashed(m)
    BY Zenon, <1>5 DEF Hashed
  <2>3. "merkle_tree_block" \in args.cbs => \A m \in 0 .. num_levels - 1 :
          level_offset'[m] = RefStart(args, m) + Hashed(m)'
    BY Zenon, <1>5, <2>2 DEF LayoutRef
  <2> QED
    BY Zenon, <1>5, <2>1, <2>3, SameLayout
<1>6. CASE CountLevel \/ LevelsCounted \/ PlaceLevel \/ LayoutDone
  BY Zenon, <1>1, <1>6, CountLayout, CountedLayout, PlaceLayout, LayoutSize
<1>7. CASE Cascade \/ Flush
  BY Zenon, <1>7, FinishLayout
<1>8. CASE UNCHANGED vars
  BY Zenon, <1>8, StillLayout
<1> QED
  BY Zenon, <1>2, <1>3, <1>4, <1>5, <1>6, <1>7, <1>8, QuietLayout

\* The size announced.
LEMMA SizeStep ==
  ASSUME IInv, LevelsRef, HasRoom, LayoutRef, SizeRef, [Next]_vars
  PROVE  SizeRef'
<1>1. args' = args /\ RefTreeSize(args)' = RefTreeSize(args)
  BY ArgsKept, SameRoom
<1>2. CASE LayoutDone
  BY <1>2, LayoutSize
<1>3. CASE StartEmpty
  <2>1. pc = "start" /\ args.file_size = 0 /\ ("merkle_tree_size" \in args.cbs => tree_size' = 0)
    BY Zenon, <1>3 DEF StartEmpty, ReportSize
  <2>2. args \in Calls
    BY Zenon DEF IInv, TypeOK, LocalsOK
  <2>3. RefTree(args) = {}
    BY <2>1, <2>2, EmptyRefTree
  <2>4. RefStart(args, -1) = 0
    BY Zenon, <2>3, FS_EmptySet DEF RefStart
  <2>5. args.block_size * 0 = 0
    BY <2>2, CallFacts
  <2>6. RefTreeSize(args) = 0
    BY Zenon, <2>4, <2>5 DEF RefTreeSize
  <2> QED
    BY Zenon, <1>1, <2>1, <2>6 DEF SizeRef
<1>4. CASE tree_size' = tree_size /\ (LaidOut' => LaidOut)
  BY Zenon, <1>1, <1>4 DEF SizeRef
<1>5. CASE ~LaidOut'
  BY Zenon, <1>5 DEF SizeRef
<1>6. CASE AllocSaltFails \/ Start \/ CountLevel \/ LevelsCounted \/ PlaceLevel \/ AllocBuffer \/ ReadFails
  <2>1. \/ (pc' = "out" \/ pc' = "done") /\ (err' = "ENOMEM" \/ err' = "WARN_ON" \/ err' = "read_fn error")
        \/ pc' = "levels" \/ pc' = "layout"
        \/ pc = "alloc" /\ pc' = "alloc" /\ tree_size' = tree_size
    BY Zenon, <1>6 DEF AllocSaltFails, Start, CountLevel, LevelsCounted, PlaceLevel, AllocBuffer, ReadFails,
       Goto, Leave, outside
  <2>2. ~LaidOut' \/ (tree_size' = tree_size /\ LaidOut)
    BY <2>1 DEF LaidOut, Hashing, Ok
  <2> QED
    BY Zenon, <1>4, <1>5, <2>2
<1>7. CASE AllocDone \/ ReadBlock \/ CascadeDone \/ EndOfData \/ FlushNothing \/ CheckRoot
  <2>1. (pc = "alloc" \/ pc = "read" \/ pc = "cascade" \/ pc = "flush") /\ tree_size' = tree_size
    BY Zenon, <1>7 DEF AllocDone, ReadBlock, CascadeDone, EndOfData, FlushNothing, CheckRoot, outside
  <2>2. LaidOut
    BY <2>1 DEF LaidOut, Hashing
  <2> QED
    BY Zenon, <1>4, <2>1, <2>2
<1>8. CASE Cascade \/ Flush
  <2>1. Hashing /\ tree_size' = tree_size
    BY Zenon, <1>8, FinishWhat, FinishReport
  <2> QED
    BY Zenon, <1>4, <2>1 DEF LaidOut
<1>9. CASE Out \/ Returned \/ UNCHANGED vars
  <2>1. /\ tree_size' = tree_size /\ err' = err
        /\ (pc = "out" /\ pc' = "done") \/ pc' = pc
    BY Zenon, <1>9 DEF Out, Returned, Goto, vars, outside
  <2>2. LaidOut' => LaidOut
    BY <2>1 DEF LaidOut, Hashing
  <2> QED
    BY Zenon, <1>4, <2>1, <2>2
<1> QED
  BY Zenon, <1>2, <1>3, <1>6, <1>7, <1>8, <1>9 DEF Next, Step

----------------------------------------------------------------------------
\* Each finished tree block is reported once.

LEMMA SameCalls ==
  ASSUME CallsRef, args' = args, block_calls' = block_calls, TreeBlocksDone' = TreeBlocksDone
  PROVE  CallsRef'
<1>1. ReportedLayout' = ReportedLayout
  BY Zenon DEF ReportedLayout
<1> QED
  BY Zenon, <1>1 DEF CallsRef

LEMMA FinishCalls ==
  ASSUME IInv, IInv', ShapeInv, LayoutInv, Cascade \/ Flush
  PROVE  CallsRef'
<1> DEFINE n == Hashed(level)
           x == <<level, n>>
           c == [offset |-> RefOffset(args, level, n), block |-> RefContent(args, level, n, Zero)]
<1>1. /\ Hashing /\ level \in 0 .. num_levels - 1 /\ FinishBlock(pc)
  BY FinishWhat
<1>2. args' = args
  BY FinishReport
<1>3. LevelsRef /\ PendingRef /\ HasRoom /\ LayoutRef /\ CallsRef
  BY DEF ShapeInv, LayoutInv
<1>4. /\ TreeBlocksDone' = TreeBlocksDone \cup {x}
      /\ x \notin TreeBlocksDone
  BY FinishTreeBlocks
<1>5. SUFFICES ASSUME "merkle_tree_block" \in args.cbs
               PROVE  /\ \E S : block_calls' \in Seq(S)
                      /\ IsFiniteSet(TreeBlocksDone')
                      /\ ReportedLayout'
  BY Zenon, <1>2 DEF CallsRef
<1>6. block_calls' = Append(block_calls, c)
  <2>1. /\ (level_offset[level] * args.block_size) % Word = RefOffset(args, level, n)
        /\ Padded(data[level], UsedSlots(level)) = RefContent(args, level, n, Zero)
    BY Zenon, <1>3, <1>5, BlockOffset, FinishContent
  <2>2. block_calls' = Append(block_calls,
                   [offset |-> (level_offset[level] * args.block_size) % Word,
                    block |-> Padded(data[level], UsedSlots(level))])
    BY Zenon, <1>5, FinishReport
  <2> QED
    BY Zenon, <2>1, <2>2
<1>7. /\ \E S : block_calls \in Seq(S)
      /\ IsFiniteSet(TreeBlocksDone)
      /\ Len(block_calls) = Cardinality(TreeBlocksDone)
      /\ \A b \in TreeBlocksDone : \E i \in DOMAIN block_calls :
           block_calls[i] = [offset |-> RefOffset(args, b[1], b[2]),
                             block |-> RefContent(args, b[1], b[2], Zero)]
  BY Zenon, <1>3, <1>5 DEF CallsRef, ReportedLayout
<1>8. IsFiniteSet(TreeBlocksDone') /\ Cardinality(TreeBlocksDone') = Cardinality(TreeBlocksDone) + 1
  <2> HIDE DEF x
  <2> QED
    BY Zenon, <1>4, <1>7, FS_AddElement
<1> HIDE DEF c
<1>9. /\ \E S : block_calls' \in Seq(S)
      /\ Len(block_calls') = Len(block_calls) + 1 /\ Len(block_calls) \in Nat
      /\ \A i \in DOMAIN block_calls : i \in DOMAIN block_calls' /\ block_calls'[i] = block_calls[i]
      /\ Len(block_calls) + 1 \in DOMAIN block_calls' /\ block_calls'[Len(block_calls) + 1] = c
  <2>1. PICK S : block_calls \in Seq(S)
    BY Zenon, <1>7
  <2>2. block_calls \in Seq(S \cup {c}) /\ c \in S \cup {c}
    BY <2>1
  <2>3. block_calls' \in Seq(S \cup {c})
    BY <1>6, <2>2, SeqAppend
  <2>4. /\ Len(block_calls') = Len(block_calls) + 1 /\ Len(block_calls) \in Nat
        /\ DOMAIN block_calls = 1 .. Len(block_calls) /\ DOMAIN block_calls' = 1 .. Len(block_calls')
        /\ \A i \in 1 .. Len(block_calls) : block_calls'[i] = block_calls[i]
        /\ block_calls'[Len(block_calls) + 1] = c
    BY <1>6, <2>2, <2>3, SeqAppend, SeqLength
  <2>5. \A m \in Nat : m + 1 \in 1 .. m + 1 /\ \A i \in 1 .. m : i \in 1 .. m + 1
    OBVIOUS
  <2> QED
    BY Zenon, <2>3, <2>4, <2>5
<1>10. ASSUME NEW b \in TreeBlocksDone'
       PROVE  \E i \in DOMAIN block_calls' :
                block_calls'[i] = [offset |-> RefOffset(args, b[1], b[2]),
                                   block |-> RefContent(args, b[1], b[2], Zero)]
  <2>1. CASE b \in TreeBlocksDone
    BY Zenon, <1>7, <1>9, <2>1
  <2>2. CASE b = x
    <3>1. b[1] = level /\ b[2] = n
      BY <2>2
    <3>2. c = [offset |-> RefOffset(args, b[1], b[2]), block |-> RefContent(args, b[1], b[2], Zero)]
      BY Zenon, <3>1 DEF c
    <3> QED
      BY Zenon, <1>9, <3>2
  <2> HIDE DEF x
  <2> QED
    BY Zenon, <1>4, <2>1, <2>2
<1>11. Len(block_calls') = Cardinality(TreeBlocksDone')
  BY Zenon, <1>7, <1>8, <1>9
<1>12. ReportedLayout'
  BY Zenon, <1>2, <1>10, <1>11 DEF ReportedLayout
<1> QED
  BY Zenon, <1>8, <1>9, <1>12

LEMMA CallsStep ==
  ASSUME IInv, IInv', ShapeInv, LayoutInv, [Next]_vars
  PROVE  CallsRef'
<1>1. args' = args /\ CallsRef
  BY ArgsKept DEF LayoutInv
<1>2. CASE Cascade \/ Flush
  BY <1>2, FinishCalls
<1>3. CASE ReadBlock
  <2>1. TreeBlocksDone' = TreeBlocksDone
    BY <1>3, ReadTreeBlocks
  <2>2. block_calls' = block_calls
    BY Zenon, <1>3 DEF ReadBlock
  <2> QED
    BY Zenon, <1>1, <2>1, <2>2, SameCalls
<1>4. CASE ~Cascade /\ ~Flush /\ ~ReadBlock
  <2>1. tree' = tree /\ block_calls' = block_calls
    BY <1>4, TreeKept, CallsKept
  <2>2. TreeBlocksDone' = TreeBlocksDone
    BY Zenon, <2>1 DEF TreeBlocksDone
  <2> QED
    BY Zenon, <1>1, <2>1, <2>2, SameCalls
<1> QED
  BY Zenon, <1>2, <1>3, <1>4

LEMMA LayoutInit ==
  ASSUME Init
  PROVE  LayoutInv
<1>1. /\ pc = "start" /\ block_calls = <<>> /\ tree = [l \in -1 .. MaxLevels - 1 |-> <<>>]
  BY Zenon DEF Init, StartState
<1>2. HasRoom /\ LayoutRef /\ SizeRef
  BY <1>1 DEF HasRoom, LayoutRef, SizeRef, LaidOut, Hashing
<1>3. TreeBlocksDone = {}
  <2>1. Len(<<>>) = 0 /\ 0 .. 0 - 1 = {}
    OBVIOUS
  <2>2. \A l \in 0 .. MaxLevels - 1 : l \in -1 .. MaxLevels - 1
    BY WidthAssumption
  <2>3. \A l \in 0 .. MaxLevels - 1 : 0 .. Len(tree[l]) - 1 = {}
    BY Zenon, <1>1, <2>1, <2>2
  <2> QED
    BY <2>3 DEF TreeBlocksDone
<1>4. IsFiniteSet({}) /\ Cardinality({}) = 0 /\ <<>> \in Seq({}) /\ Len(<<>>) = 0
  BY FS_EmptySet
<1>5. CallsRef
  BY Zenon, <1>1, <1>3, <1>4 DEF CallsRef, ReportedLayout
<1> QED
  BY <1>2, <1>5 DEF LayoutInv

\* The layout invariant holds of every state.
LEMMA LayoutNext ==
  IInv /\ ShapeInv /\ IInv' /\ ShapeInv' /\ LayoutInv /\ [Next]_vars => LayoutInv'
<1> SUFFICES ASSUME IInv, ShapeInv, IInv', ShapeInv', LayoutInv, [Next]_vars
             PROVE  LayoutInv'
  OBVIOUS
<1>1. HasRoom /\ LayoutRef /\ SizeRef /\ LevelsRef
  BY DEF LayoutInv, ShapeInv
<1>2. HasRoom'
  BY <1>1, RoomStep
<1>3. LayoutRef'
  BY <1>1, LayoutStep
<1>4. SizeRef'
  BY <1>1, SizeStep
<1>5. CallsRef'
  BY CallsStep
<1> QED
  BY <1>2, <1>3, <1>4, <1>5 DEF LayoutInv

LEMMA LayoutInvariance == Spec => [](IInv /\ ShapeInv /\ LayoutInv)
<1>1. Init => LayoutInv
  BY LayoutInit
<1>2. Spec => [](IInv /\ ShapeInv)
  BY ShapeInvariance
<1> QED
  BY <1>1, <1>2, LayoutNext, PTL DEF Spec

\* merkle_tree_block() is called exactly once for each tree block that was hashed,
\* with what the file's tree has there and its offset in a tree stored root level
\* first, for files and blocks of every size.
THEOREM ReportsTheLayout == Spec => []ReportedLayout
<1>1. LayoutInv => ReportedLayout
  BY Zenon DEF LayoutInv, CallsRef, ReportedLayout
<1> QED
  BY <1>1, LayoutInvariance, PTL

LEMMA WholeOnSuccess == IInv /\ ShapeInv /\ LayoutInv => SuccessMeansWholeTree
<1>1. LayoutInv /\ pc = "done" /\ err = Ok /\ "merkle_tree_size" \in args.cbs => tree_size = RefTreeSize(args)
  BY DEF LayoutInv, SizeRef, LaidOut
<1> QED
  BY Zenon, <1>1, WholeOnDone DEF WholeDone, SuccessMeansWholeTree

\* A call of compute_root_hash() that returns 0 has read the whole file, hashed
\* every block of its tree, announced the size of that tree and left the digest
\* of the top block in root_hash.
THEOREM SuccessIsWhole == Spec => []SuccessMeansWholeTree
  BY WholeOnSuccess, LayoutInvariance, PTL
=============================================================================
