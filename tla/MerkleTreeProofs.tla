-------------------------- MODULE MerkleTreeProofs --------------------------
(***************************************************************************)
(* For every file size, block size, digest size and set of callbacks: no   *)
(* buffer of compute_root_hash() overflows and neither WARN_ON fires.      *)
(***************************************************************************)
EXTENDS MerkleTree, TLAPS

\* Division rounding up, as the exact number of blocks of size d for n items.
LEMMA CeilLemma ==
  ASSUME NEW n \in Nat \ {0}, NEW d \in Nat \ {0}, NEW q, q = (n + d - 1) \div d
  PROVE  /\ q \in Nat \ {0}
         /\ n <= d * q
         /\ d * (q - 1) < n
         /\ q <= n
  <1>1. q \in Int /\ d * q <= n + d - 1 /\ n + d - 1 < d * q + d
    OBVIOUS
  <1>2. d * (q - 1) = d * q - d
    BY <1>1
  <1>3. q > 0
    BY <1>1
  <1>4. q - 1 <= d * (q - 1)
    BY <1>1, <1>3
  <1> QED
    BY <1>1, <1>2, <1>3, <1>4

\* DIV_ROUND_UP is exact as long as its sum does not wrap.
LEMMA DivRoundUpExact ==
  ASSUME NEW n \in Nat \ {0}, NEW d \in Nat \ {0}, Word \in Nat, n + d <= Word
  PROVE  DivRoundUp(n, d) = (n + d - 1) \div d
  <1>1. n + d - 1 \in Nat /\ n + d - 1 < Word
    OBVIOUS
  <1>2. (n + d - 1) % Word = n + d - 1
    BY <1>1
  <1> QED
    BY <1>2 DEF DivRoundUp

\* Halving: a level has at most half the blocks, less one, of the one below.
LEMMA HalveLemma ==
  ASSUME NEW n \in Nat \ {0}, NEW h \in Nat, h >= 2, NEW q \in Nat \ {0},
         h * (q - 1) < n
  PROVE  2 * (q - 1) <= n - 1
  OBVIOUS

\* A level has at most half the blocks of the level below it.
LEMMA HalveBound ==
  ASSUME NEW n \in Nat, NEW q \in Nat, NEW p \in Nat,
         2 * (q - 1) <= n - 1, n - 1 < 2 * p
  PROVE  q - 1 < p
  OBVIOUS

\* A product by a positive number orders its other factor.
LEMMA MulOrder ==
  ASSUME NEW h \in Nat \ {0}, NEW a \in Int, NEW b \in Int
  PROVE  /\ h * a < h * b <=> a < b
         /\ h * a <= h * b <=> a <= b
         /\ h * (a + 1) = h * a + h
         /\ h * (a - 1) = h * a - h
  OBVIOUS

\* The sum inside DIV_ROUND_UP does not wrap for the sizes that occur.
LEMMA NoWrap ==
  ASSUME NEW n \in Nat, Word \in Nat, n < Word
  PROVE  n % Word = n
  OBVIOUS

\* u64 arithmetic stays in Nat.
LEMMA WrapNat ==
  ASSUME NEW a \in Nat, NEW b \in Nat, Word \in Nat \ {0}
  PROVE  /\ (a + b) % Word \in Nat
         /\ (a * b) % Word \in Nat
  OBVIOUS

\* What libfsverity_compute_digest() has established about the arguments.
LEMMA CallFacts ==
  ASSUME args \in Calls
  PROVE  /\ Word \in Nat \ {0}
         /\ args.file_size \in Nat
         /\ args.digest_size \in Nat \ {0}
         /\ args.block_size \in Nat \ {0}
         /\ HashesPerBlock \in Nat
         /\ HashesPerBlock >= 2
         /\ HashesPerBlock <= args.block_size
         /\ args.block_size = args.digest_size * HashesPerBlock
         /\ args.file_size + args.block_size <= Word
  <1>1. Word \in Nat
    BY WidthAssumption, PowerAssumption DEF Word
  <1>2. ValidCall(args)
    BY CallsAssumption
  <1>3. HashesPerBlock \in Int /\ args.block_size = args.digest_size * HashesPerBlock
    BY <1>2 DEF ValidCall, CheckedCall, HashesPerBlock
  <1>4. args.block_size \in Nat /\ args.digest_size \in Nat \ {0}
        /\ args.block_size >= args.digest_size * 2
    BY <1>2 DEF ValidCall, CheckedCall
  <1>5. HashesPerBlock >= 2
    BY <1>3, <1>4, MulOrder
  <1>6. HashesPerBlock <= args.block_size
    BY <1>3, <1>4, <1>5
  <1> QED
    BY <1>1, <1>2, <1>3, <1>4, <1>5, <1>6 DEF ValidCall, CheckedCall, SizeFits

\* The invariant holds when compute_root_hash() is entered.
LEMMA InitIInv == Init => IInv
  <1> SUFFICES ASSUME Init PROVE IInv
    OBVIOUS
  <1> USE DEF Init, StartState, Levels
  <1>1. LocalsOK
    BY WidthAssumption DEF LocalsOK, Ok, None
  <1>2. DataOK /\ TreeOK
    BY DEF DataOK, TreeOK
  <1>3. NoInternalError /\ NothingYet
    BY DEF NoInternalError, NothingYet, Ok
  <1>4. Allocated /\ LevelCounts /\ PendingCounts
    BY DEF Allocated, LevelCounts, PendingCounts, Hashing
  <1>5. BuffersInBounds
    BY CallFacts, WidthAssumption DEF BuffersInBounds, Capacity
  <1> QED
    BY <1>1, <1>2, <1>3, <1>4, <1>5 DEF IInv, TypeOK

----------------------------------------------------------------------------
\* What a step leaves alone when it leaves alone the variables it is made of.

\* With the same arguments, blocks have the same shape.
LEMMA SameArgs ==
  ASSUME args' = args
  PROVE  /\ HashesPerBlock' = HashesPerBlock
         /\ \A l : Blocks(l)' = Blocks(l)
  BY DEF HashesPerBlock, Blocks, Slots, Cells

\* The history's type depends on the arguments and the history only.
LEMMA SameTree ==
  ASSUME args' = args, tree' = tree, TreeOK
  PROVE  /\ TreeOK'
         /\ \A l : Hashed(l)' = Hashed(l)
         /\ \A l : Pending(l)' = Pending(l)
  BY SameArgs DEF TreeOK, Hashed, Pending

\* The buffers' type depends on the arguments, the height and the contents only.
LEMMA SameData ==
  ASSUME args' = args, data' = data, num_levels' = num_levels, DataOK
  PROVE  DataOK'
  BY SameArgs DEF DataOK

\* The bounds depend on the arguments, the height and the fill counts only.
LEMMA SameFilled ==
  ASSUME args' = args, filled' = filled, num_levels' = num_levels, BuffersInBounds
  PROVE  BuffersInBounds'
  BY DEF BuffersInBounds, Capacity

\* The levels' counts do not change once the levels are counted.
LEMMA SameCounts ==
  ASSUME LevelCounts, UNCHANGED <<args, num_levels, nblocks>>,
         pc \notin {"start", "levels", "out", "done"},
         pc' \notin {"start", "levels", "out", "done"}
  PROVE  LevelCounts'
  <1>1. HashesPerBlock' = HashesPerBlock
    BY SameArgs
  <1> QED
    BY <1>1 DEF LevelCounts

\* Once the loops are left, only the buffers' bounds matter.
LEMMA LeftLoops ==
  ASSUME pc' \in {"out", "done"}
  PROVE  NothingYet' /\ Allocated' /\ LevelCounts' /\ PendingCounts'
  BY DEF NothingYet, Allocated, LevelCounts, PendingCounts, Hashing

\* A zeroed cell is a cell of every level.
LEMMA ZeroIsCell ==
  ASSUME NEW l
  PROVE  Zero \in Cells(l)
  BY DEF Cells

----------------------------------------------------------------------------
LEMMA StartEmptyStep ==
  ASSUME IInv, StartEmpty
  PROVE  IInv'
  <1> USE DEF IInv, TypeOK
  <1>0. /\ pc = "start" /\ pc' = "done" /\ err' \in {err, "callback error"}
        /\ tree_size' = tree_size \/ tree_size' = 0
        /\ data' = [data EXCEPT ![0] = [i \in {0} |-> Zero]]
        /\ UNCHANGED <<locals, filled, mem, padded_salt, pos, history>>
    BY Zenon DEF StartEmpty, ReportSize, Goto, Leave
  <1>1. LocalsOK' /\ NoInternalError'
    <2>1. err' \in Errors \cup {Ok} /\ NoInternalError'
      BY Zenon, <1>0 DEF LocalsOK, NoInternalError, Errors
    <2>2. tree_size' \in Nat \cup {None}
      <3>1. tree_size \in Nat \cup {None}
        BY DEF LocalsOK
      <3>2. tree_size' = tree_size \/ tree_size' = 0
        BY Zenon, <1>0
      <3> QED
        BY <3>1, <3>2
    <2> QED
      BY Zenon, <1>0, <2>1, <2>2 DEF LocalsOK, locals, history
  <1>2. DataOK'
    <2>a. 0 \in Levels
      BY WidthAssumption DEF Levels
    <2>b. num_levels' = 0
      BY Zenon, <1>0 DEF NothingYet, locals
    <2>1. num_levels' = 0 /\ DOMAIN data' = Levels /\ 0 \in Levels
      BY Zenon, <1>0, <2>a, <2>b DEF DataOK
    <2>2. data'[0] \in [{0} -> Cells(0)]
      BY Zenon, <1>0, <2>1, ZeroIsCell DEF DataOK
    <2>3. \A l \in Levels : l # 0 => data'[l] = <<>>
      BY Zenon, <1>0 DEF NothingYet, DataOK
    <2> QED
      BY <2>1, <2>2, <2>3 DEF DataOK
  <1>3. TreeOK' /\ BuffersInBounds'
    BY Zenon, <1>0, SameTree, SameFilled DEF locals, history
  <1> QED
    BY Zenon, <1>0, <1>1, <1>2, <1>3, LeftLoops

\* A failed allocation of the padded salt preserves the invariant.
LEMMA AllocSaltFailsStep ==
  ASSUME IInv, AllocSaltFails
  PROVE  IInv'
  <1> USE DEF IInv, TypeOK
  <1>0. /\ pc' = "done" /\ err' = "ENOMEM"
        /\ UNCHANGED <<locals, buffers, outside, history>>
    BY DEF AllocSaltFails, Leave
  <1>1. LocalsOK' /\ NoInternalError'
    BY Zenon, <1>0 DEF LocalsOK, NoInternalError, locals, buffers, outside, history, Errors
  <1>2. DataOK' /\ TreeOK' /\ BuffersInBounds'
    BY <1>0, SameData, SameTree, SameFilled DEF locals, buffers, history
  <1> QED
    BY <1>0, <1>1, <1>2, LeftLoops

\* Counting the data blocks establishes the bounds of level -1.
LEMMA StartStep ==
  ASSUME IInv, Start
  PROVE  IInv'
  <1> USE DEF IInv, TypeOK
  <1>0. /\ pc = "start" /\ pc' = "levels" /\ err' = err
        /\ args \in Calls /\ args.file_size # 0 /\ num_levels = 0
        /\ padded_salt' \in {"heap", "NULL"}
        /\ blocks' = DivRoundUp(args.file_size, args.block_size)
        /\ nblocks' = [nblocks EXCEPT ![-1] = blocks']
        /\ UNCHANGED <<args, num_levels, level, level_offset, offset, filled,
                       data, mem, outside, tree>>
    BY DEF Start, Goto, LocalsOK, NothingYet
  <1>1. /\ blocks' \in Nat \ {0}
        /\ args.file_size <= args.block_size * blocks'
        /\ args.block_size * (blocks' - 1) < args.file_size
        /\ blocks' <= args.file_size
    <2>1. blocks' = (args.file_size + args.block_size - 1) \div args.block_size
      BY <1>0, CallFacts, DivRoundUpExact
    <2> QED
      BY Zenon, <1>0, <2>1, CallFacts, CeilLemma
  <1>2. nblocks'[-1] = blocks' /\ nblocks' \in [-1 .. MaxLevels - 1 -> Nat]
    BY <1>0, <1>1, WidthAssumption DEF LocalsOK
  <1>3. LocalsOK' /\ NoInternalError'
    BY <1>0, <1>1, <1>2 DEF LocalsOK, NoInternalError, outside
  <1>4. DataOK' /\ TreeOK' /\ BuffersInBounds'
    BY <1>0, SameData, SameTree, SameFilled
  <1>5. NothingYet' /\ Allocated' /\ PendingCounts'
    BY <1>0 DEF NothingYet, Allocated, PendingCounts, Hashing
  <1>6. LevelCounts'
    <2>1. blocks' + args.block_size <= Word /\ blocks' - 1 < 2^WordBits
      BY <1>0, <1>1, CallFacts DEF Word
    <2>2. num_levels' <= WordBits /\ WordBits - num_levels' = WordBits
      BY <1>0, WidthAssumption
    <2>3. args'.file_size > 0
      BY <1>0, CallFacts
    <2>4. -1 .. num_levels' - 1 = {-1} /\ 0 .. num_levels' - 1 = {}
      BY <1>0
    <2> QED
      BY <1>0, <1>1, <1>2, <2>1, <2>2, <2>3, <2>4 DEF LevelCounts
  <1> QED
    BY <1>3, <1>4, <1>5, <1>6

\* One turn of the loop over the levels: at most MaxLevels of them.
LEMMA CountLevelStep ==
  ASSUME IInv, CountLevel
  PROVE  IInv'
  <1> USE DEF IInv, TypeOK
  <1>0. /\ pc = "levels" /\ blocks > 1 /\ args \in Calls
        /\ num_levels \in 0 .. MaxLevels /\ blocks \in Nat
        /\ UNCHANGED <<args, level, offset, buffers, outside, tree>>
    BY DEF CountLevel, LocalsOK
  <1>1. /\ args.file_size > 0
        /\ \A l \in -1 .. num_levels - 1 : nblocks[l] > 0
        /\ args.file_size <= args.block_size * nblocks[-1]
        /\ args.block_size * (nblocks[-1] - 1) < args.file_size
        /\ \A l \in 0 .. num_levels - 1 :
             /\ nblocks[l - 1] <= HashesPerBlock * nblocks[l]
             /\ HashesPerBlock * (nblocks[l] - 1) < nblocks[l - 1]
        /\ blocks = nblocks[num_levels - 1]
        /\ blocks + args.block_size <= Word
        /\ num_levels <= WordBits
        /\ blocks - 1 < 2^(WordBits - num_levels)
    BY <1>0 DEF LevelCounts
  \* There is room for one more level: the WARN_ON does not fire.
  <1>2. num_levels < WordBits
    <2>1. num_levels = WordBits => WordBits - num_levels = 0
      BY WidthAssumption
    <2>2. num_levels = WordBits => blocks - 1 < 1
      BY Zenon, <1>1, <2>1, PowerAssumption
    <2> QED
      BY <1>0, <1>1, <2>2, WidthAssumption
  <1>3. /\ blocks' = DivRoundUp(blocks, HashesPerBlock)
        /\ level_offset' = Extend(level_offset, num_levels, blocks')
        /\ nblocks' = [nblocks EXCEPT ![num_levels] = blocks']
        /\ num_levels' = num_levels + 1
        /\ pc' = "levels" /\ err' = err
    <2>1. ~(num_levels >= MaxLevels)
      BY <1>0, <1>2, WidthAssumption
    <2> QED
      BY <2>1 DEF CountLevel, Goto
  <1>4. /\ blocks' \in Nat \ {0}
        /\ blocks <= HashesPerBlock * blocks'
        /\ HashesPerBlock * (blocks' - 1) < blocks
        /\ blocks' <= blocks
    <2>1. blocks + HashesPerBlock <= Word
      BY <1>0, <1>1, CallFacts
    <2>2. blocks' = (blocks + HashesPerBlock - 1) \div HashesPerBlock
      BY <1>0, <1>3, <2>1, CallFacts, DivRoundUpExact
    <2>3. blocks \in Nat \ {0} /\ HashesPerBlock \in Nat \ {0}
      BY <1>0, CallFacts
    <2> QED
      BY <2>2, <2>3, CeilLemma
  <1>5. num_levels' \in 0 .. MaxLevels /\ num_levels' <= WordBits
    BY <1>0, <1>2, <1>3, WidthAssumption
  <1>6. /\ nblocks' \in [-1 .. MaxLevels - 1 -> Nat]
        /\ nblocks'[num_levels] = blocks'
        /\ \A l \in -1 .. num_levels - 1 : nblocks'[l] = nblocks[l]
    BY SMTT(30), <1>0, <1>2, <1>3, <1>4, WidthAssumption DEF LocalsOK
  <1>7. LocalsOK'
    <2>1. level_offset' \in [0 .. num_levels' - 1 -> Nat]
      BY SMTT(30), <1>0, <1>3, <1>4 DEF LocalsOK, Extend
    <2> QED
      BY <1>0, <1>3, <1>4, <1>5, <1>6, <2>1 DEF LocalsOK, buffers, outside
  <1>8. DataOK' /\ TreeOK' /\ BuffersInBounds'
    <2>1. DataOK'
      BY <1>0 DEF DataOK, NothingYet, buffers
    <2>2. \A l \in Levels : filled'[l] = 0
      BY <1>0 DEF NothingYet, buffers
    <2>3. \A l \in -1 .. num_levels' : l \in Levels /\ Capacity(l)' \in Nat
      BY <1>0, <1>5, CallFacts, WidthAssumption DEF Capacity, Levels
    <2>4. \A l \in num_levels' + 1 .. MaxLevels : l \in Levels
      BY <1>0, <1>3, WidthAssumption DEF Levels
    <2> QED
      BY <1>0, <2>1, <2>2, <2>3, <2>4, SameTree DEF BuffersInBounds
  <1>9. NoInternalError' /\ NothingYet' /\ Allocated' /\ PendingCounts'
    BY SMTT(30), <1>0, <1>3
    DEF NoInternalError, NothingYet, Allocated, PendingCounts, Hashing, buffers
  <1>10. LevelCounts'
    <2>1. \A l \in -1 .. num_levels' - 1 : nblocks'[l] > 0
      BY <1>0, <1>1, <1>3, <1>4, <1>6
    <2>2. nblocks'[-1] = nblocks[-1]
      BY <1>0, <1>6
    <2>3. ASSUME NEW l \in 0 .. num_levels' - 1
          PROVE  /\ nblocks'[l - 1] <= HashesPerBlock * nblocks'[l]
                 /\ HashesPerBlock * (nblocks'[l] - 1) < nblocks'[l - 1]
      <3>1. CASE l = num_levels
        <4>1. nblocks'[l - 1] = blocks
          BY <1>0, <1>1, <1>6, <3>1
        <4> QED
          BY <1>4, <1>6, <3>1, <4>1
      <3>2. CASE l # num_levels
        <4>1. l \in 0 .. num_levels - 1 /\ l - 1 \in -1 .. num_levels - 1
          BY <1>0, <1>3, <3>2
        <4> QED
          BY <1>1, <1>6, <4>1
      <3> QED
        BY <3>1, <3>2
    <2>4. blocks' + args.block_size <= Word
      BY <1>0, <1>1, <1>4, CallFacts
    <2>5. blocks' - 1 < 2^(WordBits - num_levels')
      <3> DEFINE k == WordBits - num_levels'
      <3>1. k \in 0 .. MaxLevels /\ WordBits - num_levels = k + 1
        BY <1>0, <1>2, <1>3, WidthAssumption
      <3>2. 2^k \in Nat /\ 2^(k + 1) = 2 * 2^k
        BY <3>1, PowerAssumption
      <3>3. 2 * (blocks' - 1) <= blocks - 1
        <4>1. blocks \in Nat \ {0} /\ HashesPerBlock \in Nat /\ HashesPerBlock >= 2
          BY <1>0, CallFacts
        <4> QED
          BY Zenon, <1>4, <4>1, HalveLemma
      <3>4. PICK p \in Nat : p = 2^k
        BY <3>2
      <3>5. blocks - 1 < 2 * p
        BY <1>1, <3>1, <3>2, <3>4
      <3>6. blocks' \in Nat /\ blocks \in Nat
        BY <1>0, <1>4
      <3>7. blocks' - 1 < p
        BY Zenon, <3>3, <3>5, <3>6, HalveBound
      <3> QED
        BY <3>4, <3>7
    <2>6. blocks' = nblocks'[num_levels' - 1]
      BY <1>0, <1>3, <1>6
    <2> QED
      BY <1>0, <1>1, <1>3, <1>5, <2>1, <2>2, <2>3, <2>4, <2>5, <2>6, SameArgs
      DEF LevelCounts
  <1> QED
    BY <1>7, <1>8, <1>9, <1>10

\* The loop over the levels ends at a level of one block.
LEMMA LevelsCountedStep ==
  ASSUME IInv, LevelsCounted
  PROVE  IInv'
  <1> USE DEF IInv, TypeOK
  <1>0. /\ pc = "levels" /\ pc' = "layout" /\ err' = err /\ blocks <= 1
        /\ num_levels \in 0 .. MaxLevels /\ blocks \in Nat
        /\ offset' = 0 /\ level' = num_levels - 1
        /\ UNCHANGED <<args, blocks, num_levels, level_offset, buffers, outside,
                       history>>
    BY DEF LevelsCounted, Goto, LocalsOK
  <1>1. LocalsOK' /\ NoInternalError'
    <2>1. level' \in Levels /\ offset' \in Nat
      BY <1>0, WidthAssumption DEF Levels
    <2> QED
      BY <1>0, <2>1 DEF LocalsOK, NoInternalError, buffers, outside, history
  <1>2. DataOK' /\ TreeOK' /\ BuffersInBounds'
    BY <1>0, SameData, SameTree, SameFilled DEF buffers, history
  <1>3. NothingYet' /\ Allocated' /\ PendingCounts'
    BY <1>0 DEF NothingYet, Allocated, PendingCounts, Hashing, buffers, history
  <1>4. LevelCounts'
    <2>1. nblocks[num_levels - 1] = 1
      BY <1>0 DEF LevelCounts
    <2> QED
      BY <1>0, <2>1, SameArgs DEF LevelCounts, history
  <1> QED
    BY <1>1, <1>2, <1>3, <1>4

\* One turn of the loop that reuses level_offset[] for the offsets.
LEMMA PlaceLevelStep ==
  ASSUME IInv, PlaceLevel
  PROVE  IInv'
  <1> USE DEF IInv, TypeOK
  <1>0. /\ pc = "layout" /\ pc' = "layout" /\ err' = err /\ args \in Calls
        /\ level \in 0 .. num_levels - 1 /\ num_levels \in 0 .. MaxLevels
        /\ blocks' = level_offset[level]
        /\ level_offset' = [level_offset EXCEPT ![level] = offset]
        /\ offset' = (offset + blocks') % Word
        /\ level' = level - 1
        /\ UNCHANGED <<args, num_levels, buffers, outside, history>>
    BY DEF PlaceLevel, Goto, LocalsOK, Allocated
  <1>1. LocalsOK' /\ NoInternalError'
    <2>1. blocks' \in Nat /\ level_offset' \in [0 .. num_levels - 1 -> Nat]
      BY <1>0 DEF LocalsOK
    <2>2. level' \in Levels
      BY <1>0, WidthAssumption DEF Levels
    <2>3. Word \in Nat \ {0}
      BY <1>0, CallFacts
    <2>4. offset' \in Nat
      <3>1. offset \in Nat
        BY DEF LocalsOK
      <3> QED
        BY Zenon, <1>0, <2>1, <2>3, <3>1, WrapNat
    <2> QED
      BY SMTT(30), <1>0, <2>1, <2>2, <2>4
      DEF LocalsOK, NoInternalError, buffers, outside, history
  <1>2. DataOK' /\ TreeOK' /\ BuffersInBounds'
    BY <1>0, SameData, SameTree, SameFilled DEF buffers, history
  <1>3. NothingYet' /\ Allocated' /\ PendingCounts'
    BY <1>0 DEF NothingYet, Allocated, PendingCounts, Hashing, buffers, history
  <1>4. LevelCounts'
    BY <1>0, SameCounts DEF history
  <1> QED
    BY <1>1, <1>2, <1>3, <1>4

\* Reporting the size of the tree, which may fail.
LEMMA LayoutDoneStep ==
  ASSUME IInv, LayoutDone
  PROVE  IInv'
  <1> USE DEF IInv, TypeOK
  <1>0. /\ pc = "layout" /\ args \in Calls /\ num_levels \in 0 .. MaxLevels
        /\ \/ pc' = "alloc" /\ err' = err
           \/ pc' = "out" /\ err' = "callback error"
        /\ \/ tree_size' = tree_size
           \/ tree_size' = (offset * args.block_size) % Word
        /\ level' = -1
        /\ UNCHANGED <<args, blocks, num_levels, level_offset, offset, buffers,
                       pos, block_calls, history>>
    BY Zenon DEF LayoutDone, ReportSize, Goto, Leave, LocalsOK
  <1>1. LocalsOK' /\ NoInternalError'
    <2>1. -1 \in Levels
      BY WidthAssumption DEF Levels
    <2>2. tree_size' \in Nat \cup {None}
      <3>1. (offset * args.block_size) % Word \in Nat
        <4>1. args.block_size \in Nat /\ Word \in Nat \ {0}
          BY Zenon, <1>0, CallFacts
        <4> QED
          BY Zenon, <4>1, WrapNat DEF LocalsOK
      <3>2. tree_size \in Nat \cup {None}
        BY DEF LocalsOK
      <3> QED
        BY Zenon, <1>0, <3>1, <3>2
    <2>3. err' \in Errors \cup {Ok} /\ err' # "WARN_ON"
      BY Zenon, <1>0 DEF LocalsOK, NoInternalError, Errors
    <2> QED
      BY Zenon, <1>0, <2>1, <2>2, <2>3 DEF LocalsOK, NoInternalError, buffers, history
  <1>2. DataOK' /\ TreeOK' /\ BuffersInBounds'
    BY Zenon, <1>0, SameData, SameTree, SameFilled DEF buffers, history
  <1>3. CASE pc' = "alloc"
    <2>1. NothingYet' /\ Allocated' /\ PendingCounts'
      BY <1>0, <1>3 DEF NothingYet, Allocated, PendingCounts, Hashing, buffers, history
    <2>2. LevelCounts'
      BY <1>0, <1>3, SameCounts DEF history
    <2> QED
      BY <1>1, <1>2, <2>1, <2>2
  <1> QED
    BY Zenon, <1>0, <1>1, <1>2, <1>3, LeftLoops

\* Allocating one level's buffer, which may fail.
LEMMA AllocBufferStep ==
  ASSUME IInv, AllocBuffer
  PROVE  IInv'
  <1> USE DEF IInv, TypeOK
  <1>0. /\ pc = "alloc" /\ level \in -1 .. num_levels - 1
        /\ num_levels \in 0 .. MaxLevels
        /\ UNCHANGED <<args, blocks, num_levels, level_offset, offset, filled,
                       padded_salt, outside, history>>
    BY DEF AllocBuffer, LocalsOK, Allocated
  <1>1. TreeOK' /\ BuffersInBounds'
    BY <1>0, SameTree, SameFilled DEF history
  <1>2. CASE pc' = "out" /\ err' = "ENOMEM" /\ UNCHANGED <<mem, data, level>>
    <2>1. LocalsOK' /\ NoInternalError' /\ DataOK'
      BY Zenon, <1>0, <1>2, SameData DEF LocalsOK, NoInternalError, outside, history, Errors
    <2> QED
      BY <1>1, <1>2, <2>1, LeftLoops
  <1>3. CASE /\ mem' = [mem EXCEPT ![level] = "heap"]
             /\ data' = [data EXCEPT ![level] = [i \in Slots(level) |-> Zero]]
             /\ level' = level + 1
             /\ pc' = "alloc" /\ err' = err
    <2>1. LocalsOK' /\ NoInternalError'
      <3>1. level' \in Levels
        BY <1>0, <1>3, WidthAssumption DEF Levels
      <3> QED
        BY <1>0, <1>3, <3>1 DEF LocalsOK, NoInternalError, outside, history
    <2>2. level \in Levels
      BY <1>0, WidthAssumption DEF Levels
    <2>3. data'[level] \in Blocks(level)
      BY <1>3, <2>2, ZeroIsCell DEF DataOK, Blocks
    <2>4. DOMAIN data' = Levels /\ \A l \in Levels \ {level} : data'[l] = data[l]
      BY <1>3, <2>2 DEF DataOK
    <2>5. DataOK'
      BY <1>0, <2>2, <2>3, <2>4, SameArgs DEF DataOK
    <2>6. \A l \in -1 .. level' - 1 : data'[l] \in Blocks(l)'
      <3>1. \A l \in -1 .. level - 1 : data[l] \in Blocks(l) /\ l \in Levels /\ l # level
        BY <1>0, WidthAssumption DEF Allocated, Levels
      <3>2. \A l \in -1 .. level' - 1 : l = level \/ l \in -1 .. level - 1
        BY <1>0, <1>3
      <3> QED
        BY <1>0, <2>3, <2>4, <3>1, <3>2, SameArgs
    <2>7. Allocated'
      BY SMTT(30), <1>0, <1>3, <2>6 DEF Allocated, Hashing
    <2>8. NothingYet' /\ PendingCounts'
      BY <1>0, <1>3 DEF NothingYet, PendingCounts, Hashing, history
    <2>9. LevelCounts'
      BY <1>0, <1>3, SameCounts DEF history
    <2> QED
      BY <1>1, <2>1, <2>5, <2>7, <2>8, <2>9
  <1> QED
    BY <1>2, <1>3 DEF AllocBuffer, Goto, Leave

\* The root hash takes the place of the buffer above the last level.
LEMMA AllocDoneStep ==
  ASSUME IInv, AllocDone
  PROVE  IInv'
  <1> USE DEF IInv, TypeOK
  <1>0. /\ pc = "alloc" /\ level = num_levels /\ args \in Calls
        /\ num_levels \in 0 .. MaxLevels
        /\ mem' = [mem EXCEPT ![num_levels] = "root_hash"]
        /\ data' = [data EXCEPT ![num_levels] = [i \in {0} |-> Zero]]
        /\ offset' = 0
        /\ pc' = "read" /\ err' = err
        /\ UNCHANGED <<args, blocks, num_levels, level, level_offset, filled,
                       padded_salt, outside, history>>
    BY DEF AllocDone, Goto, LocalsOK, Allocated
  <1>1. LocalsOK' /\ NoInternalError'
    BY <1>0 DEF LocalsOK, NoInternalError, outside, history
  <1>2. TreeOK' /\ BuffersInBounds'
    BY <1>0, SameTree, SameFilled DEF history
  <1>3. num_levels \in Levels /\ \A l \in -1 .. num_levels - 1 : l \in Levels /\ l # num_levels
    BY <1>0, WidthAssumption DEF Levels
  <1>4. data'[num_levels] \in [{0} -> Cells(num_levels)]
    BY <1>0, <1>3, ZeroIsCell DEF DataOK
  <1>5. DOMAIN data' = Levels /\ \A l \in Levels \ {num_levels} : data'[l] = data[l]
    BY <1>0, <1>3 DEF DataOK
  <1>6. DataOK'
    BY SMTT(30), <1>0, <1>4, <1>5, SameArgs DEF DataOK
  <1>7. Allocated'
    BY <1>0, <1>3, <1>4, <1>5, SameArgs DEF Allocated, Hashing
  <1>8. NothingYet'
    BY <1>0 DEF NothingYet
  <1>9. LevelCounts'
    BY <1>0, SameCounts DEF history
  <1>10. PendingCounts'
    <2>1. \A l \in -1 .. num_levels - 1 : Hashed(l)' = 0
      <3>1. \A l \in -1 .. num_levels - 1 : l \in -1 .. MaxLevels - 1
        BY <1>0, WidthAssumption
      <3>2. tree' = [l \in -1 .. MaxLevels - 1 |-> <<>>]
        BY <1>0 DEF NothingYet, history
      <3> QED
        BY <3>1, <3>2 DEF Hashed
    <2>2. \A l \in Levels : filled'[l] = 0
      BY <1>0 DEF NothingYet
    <2>3. HashesPerBlock' \in Nat \ {0} /\ args' = args
          /\ args.digest_size \in Nat /\ args.block_size \in Nat
      BY <1>0, CallFacts, SameArgs
    <2>4. \A l \in 0 .. num_levels - 1 : Pending(l)' = 0
      BY <1>0, <2>1, <2>3 DEF Pending
    <2>5. -1 \in -1 .. num_levels - 1 /\ num_levels - 1 \in -1 .. num_levels - 1
          /\ -1 \in Levels /\ \A l \in 0 .. num_levels : l \in Levels
      BY <1>0, WidthAssumption DEF Levels
    <2>6. \A l \in -1 .. num_levels - 1 : 0 <= nblocks'[l]
      BY <1>0, WidthAssumption DEF LocalsOK, history
    <2>7. FirstOpen' = 0
      BY <1>0 DEF FirstOpen
    <2>8. \A l \in 0 .. num_levels - 1 :
            /\ 0 <= Pending(l)' /\ Pending(l)' < HashesPerBlock'
            /\ filled'[l] = args.digest_size * Pending(l)'
      BY <1>0, <2>2, <2>3, <2>4, <2>5
    <2>9. filled'[num_levels] = args.digest_size * Hashed(num_levels - 1)'
      BY <1>0, <1>3, <2>1, <2>2, <2>3, <2>5
    <2>10. offset' = args.block_size * Hashed(-1)'
      BY SMTT(30), <1>0, <2>1, <2>3, <2>5
    <2> QED
      BY SMTT(30), <1>0, <2>1, <2>2, <2>3, <2>5, <2>6, <2>7, <2>8, <2>9, <2>10
      DEF PendingCounts, Hashing
  <1> QED
    BY <1>1, <1>2, <1>6, <1>7, <1>8, <1>9, <1>10

----------------------------------------------------------------------------
\* What hash_one_block() does to the buffers and to the counts.

\* hash_one_block() of a block of level cur: types, and who gains a digest.
LEMMA HashFacts ==
  ASSUME IInv, Hashing, args' = args, num_levels' = num_levels,
         NEW cur \in -1 .. num_levels - 1,
         NEW block \in Blocks(cur), NEW used \in Nat,
         HashOneBlock(cur, block, used)
  PROVE  /\ TreeOK' /\ DataOK'
         /\ \A l \in -1 .. num_levels - 1 : data'[l] \in Blocks(l)'
         /\ data'[num_levels] \in [{0} -> Cells(num_levels)]
         /\ \A l \in -1 .. num_levels - 1 : Hashed(l) \in Nat
         /\ \A l \in -1 .. num_levels - 1 :
              Hashed(l)' = IF l = cur THEN Hashed(l) + 1 ELSE Hashed(l)
         /\ filled' \in [Levels -> Nat]
         /\ filled'[cur] = 0
         /\ filled'[cur + 1] = filled[cur + 1] + args.digest_size
         /\ \A l \in Levels \ {cur, cur + 1} : filled'[l] = filled[l]
  <1> USE DEF IInv, TypeOK
  <1>0. num_levels \in 0 .. MaxLevels /\ args \in Calls /\ filled \in [Levels -> Nat]
    BY DEF LocalsOK
  <1>1. /\ cur \in Levels /\ cur + 1 \in Levels /\ cur + 1 # cur
        /\ cur \in -1 .. MaxLevels - 1 /\ cur + 1 \in 0 .. num_levels
        /\ \A l \in -1 .. num_levels - 1 : l \in Levels /\ l # num_levels
                                           /\ l \in -1 .. MaxLevels - 1
        /\ num_levels \in Levels
    BY <1>0, WidthAssumption DEF Levels
  <1>2. Padded(block, used) \in Blocks(cur)
    BY ZeroIsCell DEF Padded, Blocks
  <1>3. \A l \in -1 .. MaxLevels - 1 : tree[l] \in Seq(Blocks(l)) /\ Hashed(l) \in Nat
    BY DEF TreeOK, Hashed
  <1>4. <<cur, Len(tree[cur])>> \in Cells(cur + 1)
    <2>1. Len(tree[cur]) \in Nat /\ cur + 1 # -1 /\ cur + 1 - 1 = cur
      BY <1>1, <1>3 DEF Hashed
    <2>2. <<cur, Len(tree[cur])>> \in {cur} \X Nat
      BY <2>1
    <2> QED
      BY <2>1, <2>2 DEF Cells
  <1>5. /\ tree' = [tree EXCEPT ![cur] = Append(tree[cur], Padded(block, used))]
        /\ \E slot : data' =
             [data EXCEPT ![cur] = Padded(block, used),
                          ![cur + 1] = [@ EXCEPT ![slot] = <<cur, Len(tree[cur])>>]]
        /\ filled' = [filled EXCEPT ![cur] = 0,
                                    ![cur + 1] = @ + args.digest_size]
    BY Zenon DEF HashOneBlock
  <1>6. /\ DOMAIN tree' = -1 .. MaxLevels - 1
        /\ tree'[cur] = Append(tree[cur], Padded(block, used))
        /\ \A l \in -1 .. MaxLevels - 1 : l # cur => tree'[l] = tree[l]
    BY <1>1, <1>5 DEF TreeOK
  <1>7. /\ tree'[cur] \in Seq(Blocks(cur))
        /\ Len(tree'[cur]) = Len(tree[cur]) + 1
    BY <1>1, <1>2, <1>3, <1>6
  <1>8. TreeOK'
    BY Zenon, <1>3, <1>6, <1>7, SameArgs DEF TreeOK
  <1>9. \A l \in -1 .. num_levels - 1 :
          Hashed(l)' = IF l = cur THEN Hashed(l) + 1 ELSE Hashed(l)
    BY <1>1, <1>6, <1>7 DEF Hashed
  <1>10. PICK slot : data' =
           [data EXCEPT ![cur] = Padded(block, used),
                        ![cur + 1] = [@ EXCEPT ![slot] = <<cur, Len(tree[cur])>>]]
    BY Zenon, <1>5
  <1>11. /\ DOMAIN data' = Levels
         /\ data'[cur] = Padded(block, used)
         /\ data'[cur + 1] = [data[cur + 1] EXCEPT ![slot] = <<cur, Len(tree[cur])>>]
         /\ \A l \in Levels \ {cur, cur + 1} : data'[l] = data[l]
    BY <1>1, <1>10 DEF DataOK
  <1>12. /\ \A l \in -1 .. num_levels - 1 : data[l] \in Blocks(l)
         /\ data[num_levels] \in [{0} -> Cells(num_levels)]
    BY DEF Allocated
  <1>13. /\ cur + 1 < num_levels => data'[cur + 1] \in Blocks(cur + 1)
         /\ cur + 1 = num_levels => data'[cur + 1] \in [{0} -> Cells(num_levels)]
    <2>1. ASSUME NEW S, data[cur + 1] \in [S -> Cells(cur + 1)]
          PROVE  data'[cur + 1] \in [S -> Cells(cur + 1)]
      BY Zenon, <1>4, <1>11, <2>1
    <2>2. ASSUME cur + 1 < num_levels
          PROVE  data'[cur + 1] \in Blocks(cur + 1)
      <3>1. data[cur + 1] \in Blocks(cur + 1)
        BY <1>0, <1>1, <1>12, <2>2
      <3> QED
        BY <2>1, <3>1 DEF Blocks
    <2>3. ASSUME cur + 1 = num_levels
          PROVE  data'[cur + 1] \in [{0} -> Cells(num_levels)]
      BY <1>12, <2>1, <2>3
    <2> QED
      BY <2>2, <2>3
  <1>14. \A l \in -1 .. num_levels - 1 : data'[l] \in Blocks(l)
    <2> TAKE l \in -1 .. num_levels - 1
    <2>1. CASE l = cur
      BY <1>2, <1>11, <2>1
    <2>2. CASE l = cur + 1
      BY <1>0, <1>13, <2>2
    <2>3. CASE l # cur /\ l # cur + 1
      BY <1>1, <1>11, <1>12, <2>3
    <2> QED
      BY <2>1, <2>2, <2>3
  <1>15. data'[num_levels] \in [{0} -> Cells(num_levels)]
    <2>1. num_levels # cur
      BY SMTT(30), <1>0
    <2> QED
      BY <1>1, <1>11, <1>12, <1>13, <2>1
  <1>16. DataOK'
    <2>1. ASSUME NEW l \in Levels
          PROVE  \/ data'[l] = <<>>
                 \/ l = num_levels /\ data'[l] \in [{0} -> Cells(l)]
                 \/ l # num_levels /\ data'[l] \in Blocks(l)
      <3>1. CASE l \in -1 .. num_levels - 1
        BY <1>1, <1>14, <3>1
      <3>2. CASE l = num_levels
        BY <1>15, <3>2
      <3>3. CASE l \notin -1 .. num_levels - 1 /\ l # num_levels
        <4>1. l \notin {cur, cur + 1}
          BY <1>0, <3>3
        <4>2. data'[l] = data[l]
          BY <1>11, <4>1
        <4> QED
          BY <4>2 DEF DataOK
      <3> QED
        BY <3>1, <3>2, <3>3
    <2> QED
      BY SMTT(30), <1>11, <2>1, SameArgs DEF DataOK
  <1>17. /\ filled' \in [Levels -> Nat]
         /\ filled'[cur] = 0
         /\ filled'[cur + 1] = filled[cur + 1] + args.digest_size
         /\ \A l \in Levels \ {cur, cur + 1} : filled'[l] = filled[l]
    <2>1. filled[cur + 1] + args.digest_size \in Nat
      BY <1>0, <1>1, CallFacts
    <2> QED
      BY SMTT(30), <1>0, <1>1, <1>5, <2>1
  <1> QED
    BY Zenon, <1>1, <1>3, <1>8, <1>9, <1>14, <1>15, <1>16, <1>17, SameArgs

\* The digest fits the next buffer, if its level still lacks a block.
LEMMA HashBounds ==
  ASSUME IInv, Hashing, args' = args, num_levels' = num_levels,
         NEW cur \in -1 .. num_levels - 1,
         NEW block \in Blocks(cur), NEW used \in Nat,
         HashOneBlock(cur, block, used),
         Hashed(cur) < nblocks[cur],
         cur + 1 < num_levels =>
           /\ Pending(cur + 1) \in 0 .. HashesPerBlock - 1
           /\ filled[cur + 1] = args.digest_size * Pending(cur + 1)
  PROVE  BuffersInBounds'
  <1> USE DEF IInv, TypeOK
  <1>0. num_levels \in 0 .. MaxLevels /\ args \in Calls /\ filled \in [Levels -> Nat]
    BY SMTT(30) DEF LocalsOK
  <1>1. /\ filled'[cur] = 0
        /\ filled'[cur + 1] = filled[cur + 1] + args.digest_size
        /\ \A l \in Levels \ {cur, cur + 1} : filled'[l] = filled[l]
    BY HashFacts
  <1>2. /\ \A l \in -1 .. num_levels : l \in Levels
        /\ \A l \in num_levels + 1 .. MaxLevels : l \in Levels \ {cur, cur + 1}
        /\ cur + 1 \in 0 .. num_levels
    BY <1>0, WidthAssumption DEF Levels
  <1>3. \A l : Capacity(l)' = Capacity(l)
    BY DEF Capacity
  <1>4. filled'[cur] <= Capacity(cur)
    BY <1>0, <1>1, CallFacts DEF Capacity
  <1>5. filled'[cur + 1] <= Capacity(cur + 1)
    <2>1. CASE cur + 1 < num_levels
      <3>1. PICK p \in 0 .. HashesPerBlock - 1 : p = Pending(cur + 1)
        BY <2>1
      <3>2. args.digest_size * (p + 1) <= args.digest_size * HashesPerBlock
        BY <1>0, <3>1, CallFacts, MulOrder
      <3>3. args.digest_size * (p + 1) = args.digest_size * p + args.digest_size
        BY <1>0, <3>1, CallFacts, MulOrder
      <3> QED
        BY <1>0, <1>1, <2>1, <3>1, <3>2, <3>3, CallFacts DEF Capacity
    <2>2. CASE cur + 1 = num_levels
      <3>1. nblocks[cur] = 1 /\ filled[num_levels] = args.digest_size * Hashed(cur)
        <4>1. cur = num_levels - 1
          BY <1>0, <2>2
        <4> QED
          BY <4>1 DEF LevelCounts, PendingCounts, Hashing
      <3>2. Hashed(cur) = 0
        BY <3>1, HashFacts
      <3> QED
        BY SMTT(30), <1>0, <1>1, <2>2, <3>1, <3>2, CallFacts DEF Capacity
    <2> QED
      BY <1>0, <2>1, <2>2
  <1>6. \A l \in -1 .. num_levels : filled'[l] <= Capacity(l)
    BY <1>1, <1>2, <1>4, <1>5 DEF BuffersInBounds
  <1>7. \A l \in num_levels + 1 .. MaxLevels : filled'[l] = 0
    BY <1>1, <1>2 DEF BuffersInBounds
  <1> QED
    BY <1>3, <1>6, <1>7 DEF BuffersInBounds

\* How the numbers of pending digests move.
LEMMA HashPending ==
  ASSUME IInv, Hashing, args' = args, num_levels' = num_levels,
         NEW cur \in -1 .. num_levels - 1,
         NEW block \in Blocks(cur), NEW used \in Nat,
         HashOneBlock(cur, block, used)
  PROVE  /\ \A l \in 0 .. num_levels - 1 : Pending(l) \in Int
         /\ \A l \in (0 .. num_levels - 1) \ {cur, cur + 1} : Pending(l)' = Pending(l)
         /\ cur + 1 < num_levels => Pending(cur + 1)' = Pending(cur + 1) + 1
         /\ cur >= 0 => Pending(cur)' = Pending(cur) - HashesPerBlock
  <1>0. num_levels \in 0 .. MaxLevels /\ args \in Calls
    BY DEF IInv, TypeOK, LocalsOK
  <1>1. /\ \A l \in -1 .. num_levels - 1 : Hashed(l) \in Nat
        /\ \A l \in -1 .. num_levels - 1 :
             Hashed(l)' = IF l = cur THEN Hashed(l) + 1 ELSE Hashed(l)
    BY HashFacts
  <1>2. HashesPerBlock \in Nat /\ HashesPerBlock' = HashesPerBlock
    BY <1>0, CallFacts, SameArgs
  <1>3. \A l \in 0 .. num_levels - 1 : Pending(l) \in Int
    BY <1>0, <1>1, <1>2 DEF Pending
  <1>4. ASSUME NEW l \in (0 .. num_levels - 1) \ {cur, cur + 1}
        PROVE  Pending(l)' = Pending(l)
    <2>1. l \in -1 .. num_levels - 1 /\ l - 1 \in -1 .. num_levels - 1
          /\ l # cur /\ l - 1 # cur
      BY <1>0
    <2> QED
      BY <1>1, <1>2, <2>1 DEF Pending
  <1>5. ASSUME cur + 1 < num_levels
        PROVE  Pending(cur + 1)' = Pending(cur + 1) + 1
    <2>1. cur + 1 \in -1 .. num_levels - 1 /\ cur + 1 # cur /\ cur + 1 - 1 = cur
      BY <1>0, <1>5
    <2>2. Hashed(cur + 1)' = Hashed(cur + 1) /\ Hashed(cur)' = Hashed(cur) + 1
      BY <1>1, <2>1
    <2> QED
      BY <1>1, <1>2, <2>1, <2>2 DEF Pending
  <1>6. ASSUME cur >= 0
        PROVE  Pending(cur)' = Pending(cur) - HashesPerBlock
    <2>1. cur - 1 \in -1 .. num_levels - 1 /\ cur - 1 # cur
      BY <1>0, <1>6
    <2>2. Hashed(cur - 1)' = Hashed(cur - 1) /\ Hashed(cur)' = Hashed(cur) + 1
      BY <1>1, <2>1
    <2>3. HashesPerBlock * (Hashed(cur) + 1)
            = HashesPerBlock * Hashed(cur) + HashesPerBlock
      BY <1>1, <1>2
    <2> QED
      BY <1>1, <1>2, <2>1, <2>2, <2>3 DEF Pending
  <1> QED
    BY <1>3, <1>4, <1>5, <1>6

\* The root hash receives a digest only from the last level's block.
LEMMA HashRoot ==
  ASSUME IInv, Hashing, args' = args, num_levels' = num_levels,
         NEW cur \in -1 .. num_levels - 1,
         NEW block \in Blocks(cur), NEW used \in Nat,
         HashOneBlock(cur, block, used)
  PROVE  filled'[num_levels] = args.digest_size * Hashed(num_levels - 1)'
  <1>0. /\ num_levels \in 0 .. MaxLevels /\ args \in Calls
        /\ num_levels \in Levels /\ num_levels - 1 \in -1 .. num_levels - 1
        /\ num_levels # cur
    BY WidthAssumption DEF IInv, TypeOK, LocalsOK, Levels
  <1>1. filled[num_levels] = args.digest_size * Hashed(num_levels - 1)
    BY DEF IInv, PendingCounts
  <1>2. /\ \A l \in -1 .. num_levels - 1 : Hashed(l) \in Nat
        /\ \A l \in -1 .. num_levels - 1 :
             Hashed(l)' = IF l = cur THEN Hashed(l) + 1 ELSE Hashed(l)
        /\ filled'[cur + 1] = filled[cur + 1] + args.digest_size
        /\ \A l \in Levels \ {cur, cur + 1} : filled'[l] = filled[l]
    BY HashFacts
  <1>3. CASE cur + 1 = num_levels
    <2>1. cur = num_levels - 1
      BY <1>0, <1>3
    <2>2. Hashed(num_levels - 1)' = Hashed(num_levels - 1) + 1
      BY <1>0, <1>2, <2>1
    <2>3. args.digest_size * (Hashed(num_levels - 1) + 1)
            = args.digest_size * Hashed(num_levels - 1) + args.digest_size
      BY <1>0, <1>2, CallFacts, MulOrder
    <2> QED
      BY <1>1, <1>2, <1>3, <2>2, <2>3
  <1>4. CASE cur + 1 # num_levels
    <2>1. cur # num_levels - 1
      BY <1>0, <1>4
    <2> QED
      BY <1>0, <1>1, <1>2, <1>4, <2>1
  <1> QED
    BY <1>3, <1>4

----------------------------------------------------------------------------
\* The loop over the data blocks.

\* A read asks for at most a block.
LEMMA ReadCountFacts ==
  ASSUME IInv, pc = "read", offset < args.file_size
  PROVE  ReadCount \in Nat /\ ReadCount <= args.block_size
  <1>1. offset \in Nat /\ args \in Calls
    BY DEF IInv, TypeOK, LocalsOK
  <1>2. args.block_size \in Nat /\ args.file_size \in Nat
    BY SMTT(30), <1>1, CallFacts
  <1> QED
    BY <1>1, <1>2 DEF ReadCount

\* Reading and hashing one data block preserves the invariant.
LEMMA ReadBlockStep ==
  ASSUME IInv, ReadBlock
  PROVE  IInv'
  <1> USE DEF IInv, TypeOK
  <1> DEFINE block == [i \in Slots(-1) |->
                         IF i < ReadCount THEN pos + i ELSE data[-1][i]]
  <1>0. /\ pc = "read" /\ pc' = "cascade" /\ err' = err /\ Hashing
        /\ args \in Calls /\ num_levels \in 0 .. MaxLevels /\ offset \in Nat
        /\ pos \in Nat /\ filled \in [Levels -> Nat]
        /\ offset < args.file_size
        /\ HashOneBlock(-1, block, ReadCount)
        /\ pos' = pos + ReadCount
        /\ level' = 0
        /\ UNCHANGED <<args, blocks, num_levels, level_offset, offset, mem,
                       padded_salt, tree_size, block_calls, nblocks>>
    BY SMTT(30) DEF ReadBlock, Goto, LocalsOK, Hashing
  <1>1. ReadCount \in Nat
    BY SMTT(30), <1>0, ReadCountFacts
  <1>2. -1 \in -1 .. num_levels - 1 /\ 0 \in Levels /\ FirstOpen = 0
    BY <1>0, WidthAssumption DEF Levels, FirstOpen
  <1>3. block \in Blocks(-1)
    <2>1. data[-1] \in Blocks(-1)
      BY <1>0, <1>2 DEF Allocated
    <2>2. Slots(-1) = 0 .. args.block_size - 1
      BY SMTT(30) DEF Slots
    <2>3. \A i \in Slots(-1) : pos + i \in Nat
      <3>1. pos \in Nat
        BY Zenon, <1>0
      <3>2. args.block_size \in Nat \ {0}
        BY Zenon, <1>0, CallFacts
      <3> QED
        BY <2>2, <3>1, <3>2
    <2>4. Cells(-1) = {Zero} \cup Nat
      BY DEF Cells
    <2> QED
      BY SMTT(30), <2>1, <2>3, <2>4 DEF Blocks
  <1> HIDE DEF block
  <1>4. /\ offset = args.block_size * Hashed(-1)
        /\ filled[-1] = 0
        /\ \A l \in 0 .. num_levels - 1 :
             /\ 0 <= Pending(l) /\ Pending(l) < HashesPerBlock
             /\ filled[l] = args.digest_size * Pending(l)
        /\ \A l \in -1 .. num_levels - 1 : Hashed(l) <= nblocks[l]
    BY <1>0, <1>2 DEF PendingCounts
  <1>5. /\ TreeOK' /\ DataOK'
        /\ \A l \in -1 .. num_levels - 1 : data'[l] \in Blocks(l)'
        /\ data'[num_levels] \in [{0} -> Cells(num_levels)]
        /\ \A l \in -1 .. num_levels - 1 : Hashed(l) \in Nat
        /\ \A l \in -1 .. num_levels - 1 :
             Hashed(l)' = IF l = -1 THEN Hashed(l) + 1 ELSE Hashed(l)
        /\ filled' \in [Levels -> Nat]
        /\ filled'[-1] = 0
        /\ filled'[0] = filled[0] + args.digest_size
        /\ \A l \in Levels \ {-1, 0} : filled'[l] = filled[l]
    <2>1. -1 + 1 = 0
      OBVIOUS
    <2> QED
      BY <1>0, <1>1, <1>2, <1>3, <2>1, HashFacts
  <1>6. /\ \A l \in 0 .. num_levels - 1 : Pending(l) \in Int
        /\ \A l \in (0 .. num_levels - 1) \ {0} : Pending(l)' = Pending(l)
        /\ 0 < num_levels => Pending(0)' = Pending(0) + 1
    <2>1. -1 + 1 = 0
      OBVIOUS
    <2>2. \A l \in (0 .. num_levels - 1) \ {0} : l \in (0 .. num_levels - 1) \ {-1, 0}
      BY <1>0
    <2> QED
      BY <1>0, <1>1, <1>2, <1>3, <2>1, <2>2, HashPending
  \* The file is not read past its last block.
  <1>7. Hashed(-1) < nblocks[-1]
    <2>1. args.file_size <= args.block_size * nblocks[-1]
      BY SMTT(30), <1>0 DEF LevelCounts
    <2>2. nblocks[-1] \in Nat /\ Hashed(-1) \in Nat
      BY SMTT(30), <1>0, <1>2, <1>5, WidthAssumption DEF LocalsOK
    <2>3. args.block_size * Hashed(-1) < args.block_size * nblocks[-1]
      BY SMTT(30), <1>0, <1>4, <2>1, <2>2, CallFacts
    <2> QED
      BY <1>0, <2>2, <2>3, CallFacts, MulOrder
  <1>8. BuffersInBounds'
    <2>1. -1 + 1 = 0
      OBVIOUS
    <2>2. 0 < num_levels => /\ Pending(0) \in 0 .. HashesPerBlock - 1
                            /\ filled[0] = args.digest_size * Pending(0)
      BY SMTT(30), <1>0, <1>4, <1>6, CallFacts
    <2> QED
      BY SMTT(30), <1>0, <1>1, <1>2, <1>3, <1>7, <2>1, <2>2, HashBounds
  <1>9. LocalsOK' /\ NoInternalError'
    <2>1. pos' \in Nat
      BY SMTT(30), <1>0, <1>1
    <2> QED
      BY ZenonT(30), <1>0, <1>2, <1>5, <2>1 DEF LocalsOK, NoInternalError
  <1>10. NothingYet' /\ Allocated'
    BY <1>0, <1>5 DEF NothingYet, Allocated, Hashing
  <1>11. LevelCounts'
    BY SMTT(30), <1>0, SameCounts
  <1>12. PendingCounts'
    <2>1. FirstOpen' = 0 /\ HashesPerBlock' = HashesPerBlock
      BY <1>0, SameArgs DEF FirstOpen
    <2>2. ASSUME NEW l \in 0 .. num_levels - 1
          PROVE  /\ 0 <= Pending(l)'
                 /\ filled'[l] = args.digest_size * Pending(l)'
                 /\ Pending(l)' < HashesPerBlock \/ (l = 0 /\ Pending(l)' = HashesPerBlock)
      <3>1. CASE l = 0
        <4>1. PICK p \in Int : p = Pending(0)
          BY <1>6, <3>1
        <4>2. args.digest_size * (p + 1) = args.digest_size * p + args.digest_size
          BY SMTT(30), <1>0, CallFacts, MulOrder
        <4>3. Pending(0)' = p + 1 /\ filled'[0] = args.digest_size * (p + 1)
          BY SMTT(30), <1>0, <1>4, <1>5, <1>6, <3>1, <4>1, <4>2
        <4>4. 0 <= p /\ p < HashesPerBlock /\ HashesPerBlock \in Nat
          BY SMTT(30), <1>0, <1>4, <3>1, <4>1, CallFacts
        <4> QED
          BY <3>1, <4>3, <4>4
      <3>2. CASE l # 0
        <4>1. l \in Levels \ {-1, 0}
          BY SMTT(30), <1>0, <3>2, WidthAssumption DEF Levels
        <4> QED
          BY <1>4, <1>5, <1>6, <3>2, <4>1
      <3> QED
        BY <3>1, <3>2
    <2>3. filled'[num_levels] = args.digest_size * Hashed(num_levels - 1)'
      BY SMTT(30), <1>0, <1>1, <1>2, <1>3, HashRoot
    <2>4. \A l \in -1 .. num_levels - 1 : Hashed(l)' <= nblocks[l]
      <3>1. \A l \in -1 .. num_levels - 1 : nblocks[l] \in Nat
        BY SMTT(30), <1>0, WidthAssumption DEF LocalsOK
      <3> QED
        BY SMTT(30), <1>2, <1>4, <1>5, <1>7, <3>1
    <2>5. offset + args.block_size = args.block_size * Hashed(-1)'
      <3>1. args.block_size * (Hashed(-1) + 1)
              = args.block_size * Hashed(-1) + args.block_size
        BY <1>0, <1>2, <1>5, CallFacts, MulOrder
      <3> QED
        BY SMTT(30), <1>2, <1>4, <1>5, <3>1
    <2> QED
      BY SMTT(30), <1>0, <1>5, <2>1, <2>2, <2>3, <2>4, <2>5 DEF PendingCounts
  <1> QED
    BY SMTT(30), <1>5, <1>8, <1>9, <1>10, <1>11, <1>12

\* A failing read_fn leaves through "out".
LEMMA ReadFailsStep ==
  ASSUME IInv, ReadFails
  PROVE  IInv'
  <1> USE DEF IInv, TypeOK
  <1>0. /\ pc = "read" /\ pc' = "out" /\ err' = "read_fn error"
        /\ offset < args.file_size /\ args \in Calls /\ num_levels \in 0 .. MaxLevels
        /\ filled' = [filled EXCEPT ![-1] = ReadCount]
        /\ filled \in [Levels -> Nat]
        /\ UNCHANGED <<locals, data, mem, padded_salt, outside, history>>
    BY Zenon DEF ReadFails, Leave, LocalsOK
  <1>1. ReadCount \in Nat /\ ReadCount <= args.block_size
    BY Zenon, <1>0, ReadCountFacts
  <1>2. LocalsOK' /\ NoInternalError'
    BY Zenon, <1>0, <1>1 DEF LocalsOK, NoInternalError, locals, outside, history, Errors
  <1>3. DataOK' /\ TreeOK'
    BY Zenon, <1>0, SameData, SameTree DEF locals, history
  <1>4. BuffersInBounds'
    <2>1. \A l \in Levels : filled'[l] = IF l = -1 THEN ReadCount ELSE filled[l]
      BY Zenon, <1>0
    <2>2. /\ num_levels \in 0 .. MaxLevels
          /\ args' = args /\ num_levels' = num_levels
      BY Zenon DEF ReadFails, LocalsOK, locals
    <2>3. /\ \A l \in -1 .. num_levels : l \in Levels
          /\ \A l \in num_levels + 1 .. MaxLevels : l \in Levels \ {-1}
      BY <2>2, WidthAssumption DEF Levels
    <2>4. Capacity(-1) = args.block_size
      BY <2>2 DEF Capacity
    <2>5. \A l : Capacity(l)' = Capacity(l)
      BY <2>2 DEF Capacity
    <2> QED
      BY <1>1, <2>1, <2>2, <2>3, <2>4, <2>5 DEF BuffersInBounds
  <1> QED
    BY Zenon, <1>0, <1>2, <1>3, <1>4, LeftLoops

\* The loop over the full blocks ends with every level below a block.
LEMMA CascadeDoneStep ==
  ASSUME IInv, CascadeDone
  PROVE  IInv'
  <1> USE DEF IInv, TypeOK
  <1>0. /\ pc = "cascade" /\ pc' = "read" /\ err' = err
        /\ args \in Calls /\ num_levels \in 0 .. MaxLevels /\ offset \in Nat
        /\ level < num_levels => ~BlockIsFull(level)
        /\ offset' = (offset + args.block_size) % Word
        /\ UNCHANGED <<args, blocks, num_levels, level, level_offset, buffers,
                       outside, history>>
    BY SMTT(30) DEF CascadeDone, Goto, LocalsOK
  <1>1. /\ level \in 0 .. num_levels
        /\ filled[-1] = 0
        /\ \A l \in 0 .. num_levels - 1 :
             /\ 0 <= Pending(l)
             /\ filled[l] = args.digest_size * Pending(l)
             /\ \/ Pending(l) < HashesPerBlock
                \/ l = level /\ Pending(l) = HashesPerBlock
        /\ filled[num_levels] = args.digest_size * Hashed(num_levels - 1)
        /\ \A l \in -1 .. num_levels - 1 : Hashed(l) <= nblocks[l]
        /\ offset < args.file_size
        /\ offset + args.block_size = args.block_size * Hashed(-1)
    BY <1>0 DEF PendingCounts, Hashing, FirstOpen
  <1>2. offset' = offset + args.block_size /\ offset + args.block_size \in Nat
    <2>1. /\ offset + args.block_size \in Nat
          /\ offset + args.block_size < Word
          /\ Word \in Nat
      BY SMTT(30), <1>0, <1>1, CallFacts
    <2> QED
      BY SMTT(30), <1>0, <2>1, NoWrap
  <1>3. LocalsOK' /\ NoInternalError'
    BY SMTT(30), <1>0, <1>2 DEF LocalsOK, NoInternalError, buffers, outside, history
  <1>4. DataOK' /\ TreeOK' /\ BuffersInBounds'
    BY SMTT(30), <1>0, SameData, SameTree, SameFilled DEF buffers, history
  <1>5. NothingYet' /\ Allocated'
    BY SMTT(30), <1>0, SameArgs DEF NothingYet, Allocated, Hashing, buffers
  <1>6. LevelCounts'
    BY SMTT(30), <1>0, SameCounts DEF history
  <1>7. PendingCounts'
    <2>1. ASSUME NEW l \in 0 .. num_levels - 1
          PROVE  Pending(l) < HashesPerBlock
      <3>1. CASE l = level /\ Pending(l) = HashesPerBlock
        <4>1. filled[level] = args.block_size
          BY <1>0, <1>1, <3>1, CallFacts
        <4>2. level < num_levels
          BY <1>0, <3>1
        <4> QED
          BY SMTT(30), <1>0, <4>1, <4>2, CallFacts DEF BlockIsFull
      <3> QED
        BY <1>1, <3>1
    <2>2. FirstOpen' = 0
      BY <1>0 DEF FirstOpen
    <2>3. filled' = filled /\ nblocks' = nblocks /\ tree' = tree
      BY <1>0 DEF buffers, history
    <2> QED
      BY SMTT(30), <1>0, <1>1, <1>2, <2>1, <2>2, <2>3, SameArgs, SameTree
      DEF PendingCounts, Hashing
  <1> QED
    BY <1>3, <1>4, <1>5, <1>6, <1>7

\* All data blocks are hashed when the read loop ends.
LEMMA EndOfDataStep ==
  ASSUME IInv, EndOfData
  PROVE  IInv'
  <1> USE DEF IInv, TypeOK
  <1>0. /\ pc = "read" /\ pc' = "flush" /\ err' = err
        /\ args \in Calls /\ num_levels \in 0 .. MaxLevels /\ offset \in Nat
        /\ offset >= args.file_size
        /\ level' = 0
        /\ UNCHANGED <<args, blocks, num_levels, level_offset, offset, buffers,
                       outside, history>>
    BY SMTT(30) DEF EndOfData, Goto, LocalsOK
  <1>1. /\ offset = args.block_size * Hashed(-1)
        /\ filled[-1] = 0
        /\ \A l \in 0 .. num_levels - 1 :
             /\ 0 <= Pending(l) /\ Pending(l) < HashesPerBlock
             /\ filled[l] = args.digest_size * Pending(l)
        /\ filled[num_levels] = args.digest_size * Hashed(num_levels - 1)
        /\ \A l \in -1 .. num_levels - 1 : Hashed(l) <= nblocks[l]
    BY SMTT(30), <1>0 DEF PendingCounts, Hashing, FirstOpen
  <1>2. LocalsOK' /\ NoInternalError'
    <2>1. 0 \in Levels
      BY WidthAssumption DEF Levels
    <2> QED
      BY <1>0, <2>1 DEF LocalsOK, NoInternalError, buffers, outside, history
  <1>3. DataOK' /\ TreeOK' /\ BuffersInBounds'
    BY SMTT(30), <1>0, SameData, SameTree, SameFilled DEF buffers, history
  <1>4. NothingYet' /\ Allocated'
    BY SMTT(30), <1>0, SameArgs DEF NothingYet, Allocated, Hashing, buffers
  <1>5. LevelCounts'
    BY <1>0, SameCounts DEF history
  \* Every data block was hashed.
  <1>6. Hashed(-1) = nblocks[-1]
    <2>1. args.block_size * (nblocks[-1] - 1) < args.file_size
      BY <1>0 DEF LevelCounts
    <2>2. nblocks[-1] \in Nat /\ Hashed(-1) \in Nat
      BY WidthAssumption DEF LocalsOK, TreeOK, Hashed
    <2>3. args.block_size * (nblocks[-1] - 1) < args.block_size * Hashed(-1)
      BY <1>0, <1>1, <2>1, <2>2, CallFacts
    <2>4. nblocks[-1] - 1 < Hashed(-1)
      BY <1>0, <2>2, <2>3, CallFacts, MulOrder
    <2>5. Hashed(-1) <= nblocks[-1]
      BY SMTT(30), <1>0, <1>1
    <2> QED
      BY <2>2, <2>4, <2>5
  <1>7. PendingCounts'
    <2>1. FirstOpen' = 0 /\ level' = 0
      BY <1>0 DEF FirstOpen
    <2>2. filled' = filled /\ nblocks' = nblocks /\ tree' = tree
      BY <1>0 DEF buffers, history
    <2>3. 0 \in 0 .. num_levels /\ 0 .. 0 - 1 = {} /\ -1 .. 0 - 1 = {-1}
      BY SMTT(30), <1>0
    <2> QED
      BY SMTT(30), <1>0, <1>1, <1>6, <2>1, <2>2, <2>3, SameArgs, SameTree
      DEF PendingCounts, Hashing
  <1> QED
    BY <1>2, <1>3, <1>4, <1>5, <1>7

----------------------------------------------------------------------------
\* Hashing and reporting the pending block of a level, in either loop.  Common
\* part: "next" is the loop, and the level still lacks the block.

\* Finishing a block keeps the types and bounds, and counts one block more.
LEMMA FinishBlockFacts ==
  ASSUME IInv, pc \in {"cascade", "flush"}, level < num_levels,
         FinishBlock(pc), Hashed(level) < nblocks[level]
  PROVE  /\ level \in 0 .. num_levels - 1
         /\ LocalsOK' /\ DataOK' /\ TreeOK' /\ BuffersInBounds' /\ NoInternalError'
         /\ UNCHANGED <<args, num_levels, offset, nblocks>>
         /\ \/ pc' = "out"
            \/ pc' = pc /\ level' = level + 1
         /\ pc' = pc => Allocated' /\ NothingYet' /\ LevelCounts'
         /\ data[level] \in Blocks(level) /\ UsedSlots(level) \in Nat
         /\ HashOneBlock(level, data[level], UsedSlots(level))
  <1> USE DEF IInv, TypeOK
  <1>0. /\ args \in Calls /\ num_levels \in 0 .. MaxLevels /\ Hashing
        /\ level \in 0 .. num_levels - 1 /\ filled \in [Levels -> Nat]
        /\ HashOneBlock(level, data[level], UsedSlots(level))
        /\ UNCHANGED <<args, blocks, num_levels, offset, mem, padded_salt, pos,
                       tree_size, nblocks>>
    BY SMTT(30) DEF FinishBlock, LocalsOK, PendingCounts, Hashing
  <1>1. /\ \/ /\ pc' = pc /\ err' = err /\ level' = level + 1
           \/ /\ pc' = "out" /\ err' = "callback error" /\ level' = level
        /\ \/ level_offset' = level_offset
           \/ level_offset' = [level_offset EXCEPT ![level] = (@ + 1) % Word]
    BY Zenon DEF FinishBlock, ReportBlock, Goto, Leave
  <1>2. level \in Levels /\ level + 1 \in Levels /\ level \in -1 .. num_levels - 1
    BY SMTT(30), <1>0, WidthAssumption DEF Levels
  <1>3. data[level] \in Blocks(level)
    BY Zenon, <1>0, <1>2 DEF Allocated
  <1>4. UsedSlots(level) \in Nat
    <2>1. filled[level] \in Nat /\ args.digest_size \in Nat \ {0}
      BY SMTT(30), <1>0, <1>2, CallFacts
    <2> QED
      BY <2>1 DEF UsedSlots
  <1>5. /\ TreeOK' /\ DataOK'
        /\ \A l \in -1 .. num_levels - 1 : data'[l] \in Blocks(l)'
        /\ data'[num_levels] \in [{0} -> Cells(num_levels)]
        /\ filled' \in [Levels -> Nat]
    BY SMTT(30), <1>0, <1>2, <1>3, <1>4, HashFacts
  <1>6. BuffersInBounds'
    <2>1. level + 1 < num_levels =>
            /\ Pending(level + 1) \in 0 .. HashesPerBlock - 1
            /\ filled[level + 1] = args.digest_size * Pending(level + 1)
      <3>1. SUFFICES ASSUME level + 1 < num_levels
                     PROVE  /\ Pending(level + 1) \in 0 .. HashesPerBlock - 1
                            /\ filled[level + 1] = args.digest_size * Pending(level + 1)
        OBVIOUS
      <3>2. /\ level + 1 \in 0 .. num_levels - 1 /\ level + 1 # level
            /\ level + 1 \in FirstOpen .. num_levels - 1
        BY <1>0, <3>1 DEF FirstOpen
      <3>3. Pending(level + 1) \in Int
        BY SMTT(30), <1>0, <1>2, <1>3, <1>4, <3>2, HashPending
      <3>4. /\ 0 <= Pending(level + 1) /\ Pending(level + 1) < HashesPerBlock
            /\ filled[level + 1] = args.digest_size * Pending(level + 1)
        BY <1>0, <3>2 DEF PendingCounts
      <3> QED
        BY <1>0, <3>3, <3>4, CallFacts
    <2> QED
      BY SMTT(30), <1>0, <1>2, <1>3, <1>4, <2>1, HashBounds
  <1>7. level_offset' \in [0 .. num_levels - 1 -> Nat]
    <2>1. level_offset \in [0 .. num_levels - 1 -> Nat]
      BY DEF LocalsOK
    <2>2. (level_offset[level] + 1) % Word \in Nat
      <3>1. level_offset[level] \in Nat /\ 1 \in Nat /\ Word \in Nat \ {0}
        BY SMTT(30), <1>0, <2>1, CallFacts
      <3> QED
        BY <3>1, WrapNat
    <2> QED
      BY Zenon, <1>1, <2>1, <2>2
  <1>8. LocalsOK' /\ NoInternalError'
    <2>1. level' \in Levels
      BY Zenon, <1>1, <1>2
    <2>2. err' \in Errors \cup {Ok} /\ err' # "WARN_ON"
      BY Zenon, <1>1 DEF LocalsOK, NoInternalError, Errors
    <2>3. pc' \in {"cascade", "flush", "out"}
      BY Zenon, <1>1
    <2> QED
      BY <1>0, <1>5, <1>7, <2>1, <2>2, <2>3 DEF LocalsOK, NoInternalError
  <1>9. pc' = pc => Allocated' /\ NothingYet' /\ LevelCounts'
    <2>1. SUFFICES ASSUME pc' = pc PROVE Allocated' /\ NothingYet' /\ LevelCounts'
      BY SMTT(30)
    <2>2. Allocated' /\ NothingYet'
      BY SMTT(30), <1>0, <1>5, <2>1 DEF Allocated, NothingYet, Hashing
    <2>3. LevelCounts'
      BY <1>0, <2>1, SameCounts
    <2> QED
      BY <2>2, <2>3
  <1>10. pc' = "out" \/ (pc' = pc /\ level' = level + 1)
    BY Zenon, <1>1
  <1>11. UNCHANGED <<args, num_levels, offset, nblocks>>
    BY SMTT(30), <1>0
  <1> QED
    BY ZenonT(30), <1>0, <1>3, <1>4, <1>5, <1>6, <1>8, <1>9, <1>10, <1>11

\* The facts both loops need about the counts before and after the block.
LEMMA FinishBlockCounts ==
  ASSUME IInv, pc \in {"cascade", "flush"}, level < num_levels,
         FinishBlock(pc), Hashed(level) < nblocks[level]
  PROVE  /\ \A l \in -1 .. num_levels - 1 : Hashed(l) \in Nat /\ nblocks[l] \in Nat
         /\ \A l \in -1 .. num_levels - 1 :
              Hashed(l)' = IF l = level THEN Hashed(l) + 1 ELSE Hashed(l)
         /\ \A l \in -1 .. num_levels - 1 : Hashed(l)' <= nblocks[l]
         /\ \A l \in 0 .. num_levels - 1 : Pending(l) \in Int
         /\ \A l \in 0 .. num_levels - 1 :
              l = level => Pending(l)' = Pending(l) - HashesPerBlock
         /\ filled'[-1] = 0 /\ filled'[level] = 0
         /\ \A l \in 0 .. level - 1 : filled'[l] = filled[l]
         /\ \A l \in 0 .. level - 1 : Pending(l)' = Pending(l)
         /\ \A l \in level + 1 .. num_levels - 1 :
              /\ 0 <= Pending(l)'
              /\ filled'[l] = args.digest_size * Pending(l)'
              /\ \/ Pending(l)' < HashesPerBlock
                 \/ l = level + 1 /\ Pending(l)' = HashesPerBlock
         /\ filled'[num_levels] = args.digest_size * Hashed(num_levels - 1)'
  <1> USE DEF IInv, TypeOK
  <1>0. /\ level \in 0 .. num_levels - 1 /\ args' = args /\ num_levels' = num_levels
        /\ data[level] \in Blocks(level) /\ UsedSlots(level) \in Nat
        /\ HashOneBlock(level, data[level], UsedSlots(level))
    BY FinishBlockFacts
  <1>1. /\ args \in Calls /\ num_levels \in 0 .. MaxLevels /\ Hashing
        /\ nblocks \in [-1 .. MaxLevels - 1 -> Nat]
        /\ \A l \in -1 .. num_levels - 1 : nblocks[l] \in Nat
    BY WidthAssumption DEF LocalsOK, Hashing
  <1>2. /\ level \in -1 .. num_levels - 1
        /\ -1 \in Levels \ {level, level + 1}
        /\ \A l \in 0 .. level - 1 : l \in Levels \ {level, level + 1}
        /\ \A l \in 0 .. level - 1 : l \in (0 .. num_levels - 1) \ {level, level + 1}
    BY SMTT(30), <1>0, <1>1, WidthAssumption DEF Levels
  <1>3. /\ \A l \in -1 .. num_levels - 1 : Hashed(l) \in Nat
        /\ \A l \in -1 .. num_levels - 1 :
             Hashed(l)' = IF l = level THEN Hashed(l) + 1 ELSE Hashed(l)
        /\ filled'[level] = 0
        /\ filled'[level + 1] = filled[level + 1] + args.digest_size
        /\ \A l \in Levels \ {level, level + 1} : filled'[l] = filled[l]
    BY SMTT(30), <1>0, <1>1, <1>2, HashFacts
  <1>4. /\ \A l \in 0 .. num_levels - 1 : Pending(l) \in Int
        /\ \A l \in (0 .. num_levels - 1) \ {level, level + 1} : Pending(l)' = Pending(l)
        /\ \A l \in 0 .. num_levels - 1 : l = level + 1 => Pending(l)' = Pending(l) + 1
        /\ \A l \in 0 .. num_levels - 1 : l = level => Pending(l)' = Pending(l) - HashesPerBlock
    <2>1. PICK cur \in -1 .. num_levels - 1 : cur = level
      BY SMTT(30), <1>2
    <2>2. /\ \A l \in 0 .. num_levels - 1 : Pending(l) \in Int
          /\ \A l \in (0 .. num_levels - 1) \ {cur, cur + 1} : Pending(l)' = Pending(l)
          /\ cur + 1 < num_levels => Pending(cur + 1)' = Pending(cur + 1) + 1
          /\ cur >= 0 => Pending(cur)' = Pending(cur) - HashesPerBlock
      BY <1>0, <1>1, <2>1, HashPending
    <2>3. cur >= 0 /\ \A l \in 0 .. num_levels - 1 : l = cur + 1 => cur + 1 < num_levels
      BY SMTT(30), <1>0, <1>1, <2>1
    <2> QED
      BY <2>1, <2>2, <2>3
  <1>5. \A l \in -1 .. num_levels - 1 : Hashed(l)' <= nblocks[l]
    <2>1. \A l \in -1 .. num_levels - 1 : Hashed(l) <= nblocks[l]
      BY <1>1 DEF PendingCounts
    <2> QED
      BY SMTT(30), <1>1, <1>2, <1>3, <2>1
  <1>6. filled[-1] = 0
    BY <1>1 DEF PendingCounts
  <1>7. filled'[num_levels] = args.digest_size * Hashed(num_levels - 1)'
    BY <1>0, <1>1, <1>2, HashRoot
  <1>8. ASSUME NEW l \in level + 1 .. num_levels - 1
        PROVE  /\ 0 <= Pending(l)'
               /\ filled'[l] = args.digest_size * Pending(l)'
               /\ \/ Pending(l)' < HashesPerBlock
                  \/ l = level + 1 /\ Pending(l)' = HashesPerBlock
    <2>1. l \in 0 .. num_levels - 1 /\ l \in FirstOpen .. num_levels - 1
          /\ l # level /\ l \in Levels
      BY SMTT(30), <1>0, <1>1, WidthAssumption DEF FirstOpen, Levels
    <2>2. /\ 0 <= Pending(l) /\ Pending(l) < HashesPerBlock
          /\ filled[l] = args.digest_size * Pending(l)
      BY <1>1, <2>1 DEF PendingCounts
    <2>3. CASE l = level + 1
      <3>1. PICK p \in Int : p = Pending(l)
        BY SMTT(30), <1>4, <2>1
      <3>2. args.digest_size * (p + 1) = args.digest_size * p + args.digest_size
        BY ZenonT(30), <1>1, CallFacts, MulOrder
      <3>3. Pending(l)' = p + 1 /\ filled'[l] = args.digest_size * (p + 1)
        BY <1>3, <1>4, <2>1, <2>2, <2>3, <3>1, <3>2
      <3>4. 0 <= p /\ p < HashesPerBlock /\ HashesPerBlock \in Nat
        BY SMTT(30), <1>1, <2>2, <3>1, CallFacts
      <3> QED
        BY <2>3, <3>3, <3>4
    <2>4. CASE l # level + 1
      BY SMTT(30), <1>3, <1>4, <2>1, <2>2, <2>4
    <2> QED
      BY <2>3, <2>4
  <1> QED
    BY ZenonT(30), <1>1, <1>2, <1>3, <1>4, <1>5, <1>6, <1>7, <1>8

\* What the invariant says of the level whose block is full.
LEMMA CascadeFacts ==
  ASSUME IInv, Cascade
  PROVE  /\ pc = "cascade" /\ level < num_levels /\ BlockIsFull(level)
         /\ FinishBlock(pc) /\ args \in Calls /\ num_levels \in 0 .. MaxLevels
         /\ level \in 0 .. num_levels - 1 /\ FirstOpen = 0
         /\ filled[level] = args.digest_size * Pending(level)
         /\ offset < args.file_size
         /\ offset + args.block_size = args.block_size * Hashed(-1)
         /\ \A l \in 0 .. level - 1 :
              /\ 0 <= Pending(l) /\ Pending(l) < HashesPerBlock
              /\ filled[l] = args.digest_size * Pending(l)
         /\ Pending(level) = HashesPerBlock
         /\ Hashed(level - 1) <= nblocks[level - 1]
         /\ Hashed(level) < nblocks[level]
  <1> USE DEF IInv, TypeOK
  <1>0. /\ pc = "cascade" /\ level < num_levels /\ BlockIsFull(level)
        /\ FinishBlock(pc) /\ args \in Calls /\ num_levels \in 0 .. MaxLevels
        /\ level \in 0 .. num_levels - 1 /\ FirstOpen = 0
    BY SMTT(30) DEF Cascade, LocalsOK, PendingCounts, Hashing, FirstOpen
  <1>1. /\ 0 <= Pending(level)
        /\ filled[level] = args.digest_size * Pending(level)
        /\ Pending(level) <= HashesPerBlock
        /\ Hashed(level - 1) <= nblocks[level - 1]
        /\ offset < args.file_size
        /\ offset + args.block_size = args.block_size * Hashed(-1)
        /\ \A l \in 0 .. level - 1 :
             /\ 0 <= Pending(l) /\ Pending(l) < HashesPerBlock
             /\ filled[l] = args.digest_size * Pending(l)
    <2>1. /\ level \in FirstOpen .. num_levels - 1
          /\ level - 1 \in -1 .. num_levels - 1
          /\ \A l \in 0 .. level - 1 : l \in FirstOpen .. num_levels - 1 /\ l # level
      BY <1>0
    <2>2. HashesPerBlock \in Nat
      BY SMTT(30), <1>0, CallFacts
    <2>3. Pending(level) \in Int
      BY SMTT(30), <1>0, <2>1, <2>2 DEF Pending, Hashed, LocalsOK, TreeOK
    <2> QED
      BY <1>0, <2>1, <2>2, <2>3 DEF PendingCounts, Hashing
  <1>2. \A l \in -1 .. num_levels - 1 : Hashed(l) \in Nat /\ nblocks[l] \in Nat
    BY SMTT(30), <1>0, WidthAssumption DEF TreeOK, Hashed, LocalsOK
  <1>3. level - 1 \in -1 .. num_levels - 1 /\ level \in -1 .. num_levels - 1
    BY <1>0
  \* A full buffer holds exactly hashes_per_block digests.
  <1>4. Pending(level) = HashesPerBlock
    <2>1. PICK p \in Int : p = Pending(level)
      BY <1>0, <1>2, <1>3, CallFacts DEF Pending
    <2>2. args.digest_size * (p + 1) = args.digest_size * p + args.digest_size
      BY Zenon, <1>0, CallFacts, MulOrder
    <2>3. args.digest_size * (p + 1) > args.digest_size * HashesPerBlock
      BY <1>0, <1>1, <2>1, <2>2, CallFacts DEF BlockIsFull
    <2>4. HashesPerBlock < p + 1
      BY <1>0, <2>3, CallFacts, MulOrder
    <2> QED
      BY SMTT(30), <1>0, <1>1, <2>1, <2>4, CallFacts
  <1>5. Hashed(level) < nblocks[level]
    <2>1. nblocks[level - 1] <= HashesPerBlock * nblocks[level]
      BY <1>0 DEF LevelCounts
    <2>2. HashesPerBlock * (Hashed(level) + 1) = Hashed(level - 1)
      BY SMTT(30), <1>0, <1>2, <1>3, <1>4, CallFacts, MulOrder DEF Pending
    <2>3. HashesPerBlock * (Hashed(level) + 1) <= HashesPerBlock * nblocks[level]
      BY SMTT(30), <1>0, <1>1, <1>2, <1>3, <2>1, <2>2, CallFacts
    <2>4. Hashed(level) + 1 <= nblocks[level]
      BY SMTT(30), <1>0, <1>2, <1>3, <2>3, CallFacts, MulOrder
    <2> QED
      BY SMTT(30), <1>2, <1>3, <2>4
  <1> QED
    BY <1>0, <1>1, <1>4, <1>5

\* Hashing and reporting a full tree block preserves the invariant.
LEMMA CascadeStep ==
  ASSUME IInv, Cascade
  PROVE  IInv'
  <1> USE DEF IInv, TypeOK
  <1>0. /\ pc = "cascade" /\ level < num_levels /\ BlockIsFull(level)
        /\ FinishBlock(pc) /\ args \in Calls /\ num_levels \in 0 .. MaxLevels
        /\ level \in 0 .. num_levels - 1 /\ FirstOpen = 0
    BY CascadeFacts
  <1>1. /\ offset < args.file_size
        /\ offset + args.block_size = args.block_size * Hashed(-1)
        /\ \A l \in 0 .. level - 1 :
             /\ 0 <= Pending(l) /\ Pending(l) < HashesPerBlock
             /\ filled[l] = args.digest_size * Pending(l)
    BY CascadeFacts
  <1>4. Pending(level) = HashesPerBlock
    BY CascadeFacts
  <1>5. Hashed(level) < nblocks[level]
    BY CascadeFacts
  <1>6. /\ LocalsOK' /\ DataOK' /\ TreeOK' /\ BuffersInBounds' /\ NoInternalError'
        /\ UNCHANGED <<args, num_levels, offset, nblocks>>
        /\ pc' = "out" \/ (pc' = "cascade" /\ level' = level + 1)
        /\ pc' = "cascade" => Allocated' /\ NothingYet' /\ LevelCounts'
    BY <1>0, <1>5, FinishBlockFacts
  <1>7. CASE pc' = "out"
    BY <1>6, <1>7, LeftLoops
  <1>8. CASE pc' = "cascade"
    <2>1. /\ \A l \in -1 .. num_levels - 1 :
               Hashed(l)' = IF l = level THEN Hashed(l) + 1 ELSE Hashed(l)
          /\ \A l \in -1 .. num_levels - 1 : Hashed(l)' <= nblocks[l]
          /\ \A l \in 0 .. num_levels - 1 :
               l = level => Pending(l)' = Pending(l) - HashesPerBlock
          /\ filled'[-1] = 0 /\ filled'[level] = 0
          /\ \A l \in 0 .. level - 1 : filled'[l] = filled[l]
          /\ \A l \in 0 .. level - 1 : Pending(l)' = Pending(l)
          /\ \A l \in level + 1 .. num_levels - 1 :
               /\ 0 <= Pending(l)'
               /\ filled'[l] = args.digest_size * Pending(l)'
               /\ \/ Pending(l)' < HashesPerBlock
                  \/ l = level + 1 /\ Pending(l)' = HashesPerBlock
          /\ filled'[num_levels] = args.digest_size * Hashed(num_levels - 1)'
      BY <1>0, <1>5, FinishBlockCounts
    <2>2. /\ HashesPerBlock > 0 /\ args.digest_size * 0 = 0
          /\ HashesPerBlock - HashesPerBlock = 0
      BY <1>0, CallFacts
    <2>3. FirstOpen' = 0 /\ HashesPerBlock' = HashesPerBlock /\ level' = level + 1
      BY SMTT(30), <1>6, <1>8, SameArgs DEF FirstOpen
    <2>4. ASSUME NEW l \in 0 .. num_levels - 1
          PROVE  /\ 0 <= Pending(l)'
                 /\ filled'[l] = args.digest_size * Pending(l)'
                 /\ \/ Pending(l)' < HashesPerBlock
                    \/ l = level + 1 /\ Pending(l)' = HashesPerBlock
      <3>1. CASE l = level
        <4>1. Pending(l)' = 0
          BY SMTT(30), <1>4, <2>1, <2>2, <3>1
        <4> QED
          BY SMTT(30), <2>1, <2>2, <3>1, <4>1
      <3>2. CASE l \in 0 .. level - 1
        BY SMTT(30), <1>1, <2>1, <3>2
      <3>3. CASE l \in level + 1 .. num_levels - 1
        BY SMTT(30), <2>1, <3>3
      <3> QED
        BY SMTT(30), <1>0, <3>1, <3>2, <3>3
    <2>5. Hashed(-1)' = Hashed(-1)
      BY <1>0, <2>1
    <2>6. level + 1 \in 0 .. num_levels
      BY SMTT(30), <1>0
    <2>7. PendingCounts'
      <3> USE <1>6, <1>8, <2>3
      <3> HIDE DEF IInv
      <3>1. 0 .. FirstOpen' - 1 = {}
        BY <2>3
      <3>2. (\A l \in FirstOpen .. num_levels - 1 :
               /\ 0 <= Pending(l)
               /\ filled[l] = args.digest_size * Pending(l)
               /\ \/ Pending(l) < HashesPerBlock
                  \/ pc # "read" /\ l = level /\ Pending(l) = HashesPerBlock)'
        BY SMTT(30), <2>4
      <3>3. (filled[num_levels] = args.digest_size * Hashed(num_levels - 1))'
        BY SMTT(30), <2>1
      <3>4. (\A l \in -1 .. num_levels - 1 : Hashed(l) <= nblocks[l])'
        BY <2>1
      <3>5. (/\ offset < args.file_size
             /\ offset + args.block_size = args.block_size * Hashed(-1))'
        BY SMTT(30), <1>1, <2>5
      <3>6. (level \in 0 .. num_levels /\ filled[-1] = 0)'
        BY SMTT(30), <2>1, <2>6
      <3> QED
        BY SMTT(30), <3>1, <3>2, <3>3, <3>4, <3>5, <3>6 DEF PendingCounts
    <2> QED
      BY SMTT(30), <1>6, <1>8, <2>7
  <1> QED
    BY SMTT(30), <1>6, <1>7, <1>8

----------------------------------------------------------------------------
\* The loop that finishes the pending blocks, bottom-up.

\* What the invariant says of the level the final loop is at.
LEMMA FlushFacts ==
  ASSUME IInv, pc = "flush", level < num_levels
  PROVE  /\ args \in Calls /\ num_levels \in 0 .. MaxLevels
         /\ level \in 0 .. num_levels - 1 /\ FirstOpen = level
         /\ \A l \in -1 .. num_levels - 1 : Hashed(l) \in Nat /\ nblocks[l] \in Nat
         /\ Pending(level) \in 0 .. HashesPerBlock
         /\ filled[level] = args.digest_size * Pending(level)
         /\ Hashed(level - 1) = nblocks[level - 1]
         /\ nblocks[level - 1] <= HashesPerBlock * nblocks[level]
         /\ HashesPerBlock * (nblocks[level] - 1) < nblocks[level - 1]
         /\ \A l \in -1 .. level - 1 : Hashed(l) = nblocks[l]
         /\ \A l \in 0 .. level - 1 : filled[l] = 0
         /\ Hashed(level) <= nblocks[level]
  <1> USE DEF IInv, TypeOK
  <1>0. /\ args \in Calls /\ num_levels \in 0 .. MaxLevels
        /\ level \in 0 .. num_levels - 1 /\ FirstOpen = level
    BY DEF LocalsOK, PendingCounts, Hashing, FirstOpen
  <1>1. \A l \in -1 .. num_levels - 1 : Hashed(l) \in Nat /\ nblocks[l] \in Nat
    BY <1>0, WidthAssumption DEF TreeOK, Hashed, LocalsOK
  <1>2. /\ level - 1 \in -1 .. level - 1 /\ level \in FirstOpen .. num_levels - 1
        /\ level \in -1 .. num_levels - 1 /\ level - 1 \in -1 .. num_levels - 1
    BY SMTT(30), <1>0
  <1>3. Pending(level) \in 0 .. HashesPerBlock
    <2>1. Pending(level) \in Int /\ HashesPerBlock \in Nat
      BY SMTT(30), <1>0, <1>1, <1>2, CallFacts DEF Pending
    <2> QED
      BY SMTT(30), <1>0, <1>2, <2>1 DEF PendingCounts, Hashing
  <1>4. /\ filled[level] = args.digest_size * Pending(level)
        /\ \A l \in -1 .. level - 1 : Hashed(l) = nblocks[l]
        /\ \A l \in 0 .. level - 1 : filled[l] = 0
        /\ Hashed(level) <= nblocks[level]
    BY SMTT(30), <1>0, <1>2 DEF PendingCounts, Hashing
  <1>5. /\ nblocks[level - 1] <= HashesPerBlock * nblocks[level]
        /\ HashesPerBlock * (nblocks[level] - 1) < nblocks[level - 1]
    BY <1>0 DEF LevelCounts
  <1> QED
    BY SMTT(30), <1>0, <1>1, <1>2, <1>3, <1>4, <1>5

\* The counts the final loop closes a level with.
LEMMA CloseLevel ==
  ASSUME NEW h \in Nat \ {0}, NEW below \in Nat, NEW n \in Nat, NEW b \in Nat,
         below <= h * b, h * (b - 1) < below
  PROVE  /\ h * n < below => n < b
         /\ below <= h * (n + 1) => b <= n + 1
         /\ below = h * n => b <= n
  <1>1. h * n < below => h * n < h * b
    OBVIOUS
  <1>2. below <= h * (n + 1) => h * (b - 1) < h * (n + 1)
    OBVIOUS
  <1>3. below = h * n => h * (b - 1) < h * n
    OBVIOUS
  <1>4. /\ h * n < h * b => n < b
        /\ h * (b - 1) < h * (n + 1) => b - 1 < n + 1
        /\ h * (b - 1) < h * n => b - 1 < n
    BY SMTT(30), MulOrder
  <1> QED
    BY <1>1, <1>2, <1>3, <1>4

\* Finishing a nonempty pending block completes its level.
LEMMA FlushStep ==
  ASSUME IInv, Flush
  PROVE  IInv'
  <1> USE DEF IInv, TypeOK
  <1>0. pc = "flush" /\ level < num_levels /\ filled[level] # 0 /\ FinishBlock(pc)
    BY SMTT(30) DEF Flush
  <1>1. /\ args \in Calls /\ num_levels \in 0 .. MaxLevels
        /\ level \in 0 .. num_levels - 1 /\ FirstOpen = level
        /\ \A l \in -1 .. num_levels - 1 : Hashed(l) \in Nat /\ nblocks[l] \in Nat
        /\ Pending(level) \in 0 .. HashesPerBlock
        /\ filled[level] = args.digest_size * Pending(level)
        /\ Hashed(level - 1) = nblocks[level - 1]
        /\ nblocks[level - 1] <= HashesPerBlock * nblocks[level]
        /\ HashesPerBlock * (nblocks[level] - 1) < nblocks[level - 1]
        /\ \A l \in -1 .. level - 1 : Hashed(l) = nblocks[l]
        /\ \A l \in 0 .. level - 1 : filled[l] = 0
    BY SMTT(30), <1>0, FlushFacts
  <1>2. /\ level \in -1 .. num_levels - 1 /\ level - 1 \in -1 .. num_levels - 1
        /\ HashesPerBlock \in Nat \ {0} /\ args.digest_size \in Nat
    BY <1>1, CallFacts
  <1>3. Pending(level) # 0
    BY SMTT(30), <1>0, <1>1, <1>2
  <1>4. /\ HashesPerBlock * Hashed(level) < nblocks[level - 1]
        /\ nblocks[level - 1] <= HashesPerBlock * (Hashed(level) + 1)
    <2>1. HashesPerBlock * (Hashed(level) + 1)
            = HashesPerBlock * Hashed(level) + HashesPerBlock
      BY SMTT(30), <1>1, <1>2, MulOrder
    <2> QED
      BY SMTT(30), <1>1, <1>2, <1>3, <2>1 DEF Pending
  <1>5. Hashed(level) < nblocks[level] /\ nblocks[level] <= Hashed(level) + 1
    BY SMTT(30), <1>1, <1>2, <1>4, CloseLevel
  <1>6. /\ LocalsOK' /\ DataOK' /\ TreeOK' /\ BuffersInBounds' /\ NoInternalError'
        /\ UNCHANGED <<args, num_levels, offset, nblocks>>
        /\ pc' = "out" \/ (pc' = "flush" /\ level' = level + 1)
        /\ pc' = "flush" => Allocated' /\ NothingYet' /\ LevelCounts'
    BY <1>0, <1>5, FinishBlockFacts
  <1>7. CASE pc' = "out"
    BY <1>6, <1>7, LeftLoops
  <1>8. CASE pc' = "flush"
    <2>1. /\ \A l \in -1 .. num_levels - 1 :
               Hashed(l)' = IF l = level THEN Hashed(l) + 1 ELSE Hashed(l)
          /\ \A l \in -1 .. num_levels - 1 : Hashed(l)' <= nblocks[l]
          /\ filled'[-1] = 0 /\ filled'[level] = 0
          /\ \A l \in 0 .. level - 1 : filled'[l] = filled[l]
          /\ \A l \in level + 1 .. num_levels - 1 :
               /\ 0 <= Pending(l)'
               /\ filled'[l] = args.digest_size * Pending(l)'
               /\ \/ Pending(l)' < HashesPerBlock
                  \/ l = level + 1 /\ Pending(l)' = HashesPerBlock
          /\ filled'[num_levels] = args.digest_size * Hashed(num_levels - 1)'
      BY <1>0, <1>5, FinishBlockCounts
    <2>2. /\ level' = level + 1 /\ FirstOpen' = level + 1
          /\ HashesPerBlock' = HashesPerBlock
      BY <1>6, <1>8, SameArgs DEF FirstOpen
    <2>3. \A l \in -1 .. level + 1 - 1 : Hashed(l)' = nblocks[l]
      <3> TAKE l \in -1 .. level + 1 - 1
      <3>1. l \in -1 .. num_levels - 1 /\ (l = level \/ l \in -1 .. level - 1)
        BY SMTT(30), <1>1
      <3>2. CASE l = level
        BY SMTT(30), <1>1, <1>5, <2>1, <3>1, <3>2
      <3>3. CASE l # level
        BY SMTT(30), <1>1, <2>1, <3>1, <3>3
      <3> QED
        BY <3>2, <3>3
    <2>4. \A l \in 0 .. level + 1 - 1 : filled'[l] = 0
      <3>1. \A l \in 0 .. level + 1 - 1 : l = level \/ l \in 0 .. level - 1
        BY <1>1
      <3> QED
        BY <1>1, <2>1, <3>1
    <2>5. level + 1 \in 0 .. num_levels
      BY SMTT(30), <1>1
    <2>6. PendingCounts'
      <3> USE <1>6, <1>8, <2>2
      <3> HIDE DEF IInv
      <3>0. FirstOpen' - 1 = level + 1 - 1 /\ level' - 1 = level + 1 - 1
        BY <1>1, <2>2
      <3>1. (\A l \in 0 .. FirstOpen - 1 : filled[l] = 0)'
        BY SMTT(30), <2>4, <3>0
      <3>2. (\A l \in FirstOpen .. num_levels - 1 :
               /\ 0 <= Pending(l)
               /\ filled[l] = args.digest_size * Pending(l)
               /\ \/ Pending(l) < HashesPerBlock
                  \/ pc # "read" /\ l = level /\ Pending(l) = HashesPerBlock)'
        BY <2>1
      <3>3. (\A l \in -1 .. level - 1 : Hashed(l) = nblocks[l])'
        <4>1. nblocks' = nblocks
          OBVIOUS
        <4> QED
          BY <2>3, <3>0, <4>1
      <3>4. (filled[num_levels] = args.digest_size * Hashed(num_levels - 1))'
        BY SMTT(30), <2>1
      <3>5. (\A l \in -1 .. num_levels - 1 : Hashed(l) <= nblocks[l])'
        BY <2>1
      <3> QED
        BY SMTT(30), <2>1, <2>5, <3>1, <3>2, <3>3, <3>4, <3>5 DEF PendingCounts
    <2> QED
      BY SMTT(30), <1>6, <1>8, <2>6
  <1> QED
    BY <1>6, <1>7, <1>8

\* A level with nothing pending is already complete.
LEMMA FlushNothingStep ==
  ASSUME IInv, FlushNothing
  PROVE  IInv'
  <1> USE DEF IInv, TypeOK
  <1>0. /\ pc = "flush" /\ level < num_levels /\ filled[level] = 0
        /\ pc' = "flush" /\ err' = err /\ level' = level + 1
        /\ UNCHANGED <<args, blocks, num_levels, level_offset, offset, buffers,
                       outside, history>>
    BY SMTT(30) DEF FlushNothing, Goto
  <1>1. /\ args \in Calls /\ num_levels \in 0 .. MaxLevels
        /\ level \in 0 .. num_levels - 1 /\ FirstOpen = level
        /\ \A l \in -1 .. num_levels - 1 : Hashed(l) \in Nat /\ nblocks[l] \in Nat
        /\ Pending(level) \in 0 .. HashesPerBlock
        /\ filled[level] = args.digest_size * Pending(level)
        /\ Hashed(level - 1) = nblocks[level - 1]
        /\ nblocks[level - 1] <= HashesPerBlock * nblocks[level]
        /\ HashesPerBlock * (nblocks[level] - 1) < nblocks[level - 1]
        /\ \A l \in -1 .. level - 1 : Hashed(l) = nblocks[l]
        /\ \A l \in 0 .. level - 1 : filled[l] = 0
        /\ Hashed(level) <= nblocks[level]
    BY SMTT(30), <1>0, FlushFacts
  <1>2. /\ level \in -1 .. num_levels - 1 /\ level - 1 \in -1 .. num_levels - 1
        /\ HashesPerBlock \in Nat \ {0} /\ args.digest_size \in Nat \ {0}
    BY SMTT(30), <1>1, CallFacts
  <1>3. Pending(level) = 0
    BY SMTT(30), <1>0, <1>1, <1>2
  <1>4. nblocks[level - 1] = HashesPerBlock * Hashed(level)
    BY SMTT(30), <1>1, <1>2, <1>3 DEF Pending
  <1>5. Hashed(level) = nblocks[level]
    BY SMTT(30), <1>1, <1>2, <1>4, CloseLevel
  <1>6. LocalsOK' /\ NoInternalError'
    <2>1. level' \in Levels
      BY <1>0, <1>1, WidthAssumption DEF Levels
    <2> QED
      BY SMTT(30), <1>0, <2>1 DEF LocalsOK, NoInternalError, buffers, outside, history
  <1>7. DataOK' /\ TreeOK' /\ BuffersInBounds'
    BY SMTT(30), <1>0, SameData, SameTree, SameFilled DEF buffers, history
  <1>8. NothingYet' /\ Allocated'
    BY SMTT(30), <1>0, SameArgs DEF NothingYet, Allocated, Hashing, buffers
  <1>9. LevelCounts'
    BY SMTT(30), <1>0, SameCounts DEF history
  <1>10. PendingCounts'
    <2>1. /\ level' = level + 1 /\ FirstOpen' = level + 1
      BY <1>0 DEF FirstOpen
    <2>2. filled' = filled /\ nblocks' = nblocks /\ tree' = tree
      BY <1>0 DEF buffers, history
    <2>3. \A l \in -1 .. level + 1 - 1 : Hashed(l) = nblocks[l]
      <3>1. \A l \in -1 .. level + 1 - 1 : l = level \/ l \in -1 .. level - 1
        BY SMTT(30), <1>1
      <3> QED
        BY <1>1, <1>5, <3>1
    <2>4. \A l \in 0 .. level + 1 - 1 : filled[l] = 0
      <3>1. \A l \in 0 .. level + 1 - 1 : l = level \/ l \in 0 .. level - 1
        BY SMTT(30), <1>1
      <3> QED
        BY SMTT(30), <1>0, <1>1, <3>1
    <2>5. /\ filled[-1] = 0
          /\ \A l \in level + 1 .. num_levels - 1 :
               /\ 0 <= Pending(l)
               /\ filled[l] = args.digest_size * Pending(l)
               /\ Pending(l) < HashesPerBlock
          /\ filled[num_levels] = args.digest_size * Hashed(num_levels - 1)
          /\ \A l \in -1 .. num_levels - 1 : Hashed(l) <= nblocks[l]
      <3>1. \A l \in level + 1 .. num_levels - 1 :
              l \in FirstOpen .. num_levels - 1 /\ l # level
        BY SMTT(30), <1>1
      <3> QED
        BY SMTT(30), <1>0, <3>1 DEF PendingCounts, Hashing
    <2>6. level + 1 \in 0 .. num_levels
      BY <1>1
    <2> HIDE DEF IInv
    <2>7. /\ HashesPerBlock' = HashesPerBlock
          /\ \A l : Hashed(l)' = Hashed(l) /\ Pending(l)' = Pending(l)
      BY SMTT(30), <1>0, <2>2, SameArgs DEF Hashed, Pending
    <2>8. FirstOpen' - 1 = level + 1 - 1 /\ level' - 1 = level + 1 - 1
      BY <1>1, <2>1
    <2>9. (\A l \in 0 .. FirstOpen - 1 : filled[l] = 0)'
      BY SMTT(30), <2>2, <2>4, <2>8
    <2>10. (\A l \in FirstOpen .. num_levels - 1 :
              /\ 0 <= Pending(l)
              /\ filled[l] = args.digest_size * Pending(l)
              /\ \/ Pending(l) < HashesPerBlock
                 \/ pc # "read" /\ l = level /\ Pending(l) = HashesPerBlock)'
      BY <1>0, <2>1, <2>2, <2>5, <2>7
    <2>11. (\A l \in -1 .. level - 1 : Hashed(l) = nblocks[l])'
      BY SMTT(30), <2>2, <2>3, <2>7, <2>8
    <2>12. (/\ level \in 0 .. num_levels /\ filled[-1] = 0
            /\ filled[num_levels] = args.digest_size * Hashed(num_levels - 1)
            /\ \A l \in -1 .. num_levels - 1 : Hashed(l) <= nblocks[l])'
      BY SMTT(30), <1>0, <2>1, <2>2, <2>5, <2>6, <2>7
    <2> QED
      BY SMTT(30), <1>0, <2>9, <2>10, <2>11, <2>12 DEF PendingCounts
  <1> QED
    BY <1>6, <1>7, <1>8, <1>9, <1>10

\* The root hash is filled exactly: the second WARN_ON does not fire.
LEMMA CheckRootStep ==
  ASSUME IInv, CheckRoot
  PROVE  IInv'
  <1> USE DEF IInv, TypeOK
  <1>0. /\ pc = "flush" /\ level >= num_levels /\ pc' = "out"
        /\ IF filled[num_levels] # args.digest_size THEN err' = "WARN_ON" ELSE err' = Ok
        /\ UNCHANGED <<locals, buffers, outside, history>>
    BY SMTT(30) DEF CheckRoot, Leave
  <1>1. /\ level \in 0 .. num_levels /\ num_levels \in 0 .. MaxLevels /\ args \in Calls
        /\ filled[num_levels] = args.digest_size * Hashed(num_levels - 1)
        /\ \A l \in -1 .. level - 1 : Hashed(l) = nblocks[l]
        /\ nblocks[num_levels - 1] = 1
    BY <1>0 DEF LocalsOK, PendingCounts, LevelCounts, Hashing
  <1>2. Hashed(num_levels - 1) = 1
    <2>1. num_levels - 1 \in -1 .. level - 1
      BY <1>0, <1>1
    <2> QED
      BY <1>1, <2>1
  <1>3. filled[num_levels] = args.digest_size
    BY SMTT(30), <1>1, <1>2, CallFacts
  <1>4. LocalsOK' /\ NoInternalError'
    BY SMTT(30), <1>0, <1>3 DEF LocalsOK, NoInternalError, locals, buffers, outside, history, Ok
  <1>5. DataOK' /\ TreeOK' /\ BuffersInBounds'
    BY Zenon, <1>0, SameData, SameTree, SameFilled DEF locals, buffers, history
  <1> QED
    BY <1>0, <1>4, <1>5, LeftLoops

\* Freeing the buffers preserves the invariant.
LEMMA OutStep ==
  ASSUME IInv, Out
  PROVE  IInv'
  <1> USE DEF IInv, TypeOK
  <1>0. /\ pc' = "done" /\ err' = err /\ level' = num_levels
        /\ num_levels \in 0 .. MaxLevels
        /\ UNCHANGED <<args, blocks, num_levels, level_offset, offset, filled,
                       data, outside, history>>
    BY SMTT(30) DEF Out, Goto, LocalsOK
  <1>1. /\ padded_salt' \in {"NULL", "heap", "freed"}
        /\ mem' \in [Levels -> {"NULL", "heap", "root_hash", "freed"}]
    BY DEF Out, LocalsOK
  <1>2. num_levels \in Levels
    BY SMTT(30), <1>0, WidthAssumption DEF Levels
  <1>3. LocalsOK' /\ NoInternalError'
    BY <1>0, <1>1, <1>2 DEF LocalsOK, NoInternalError, outside, history
  <1>4. DataOK' /\ TreeOK' /\ BuffersInBounds'
    BY SMTT(30), <1>0, SameData, SameTree, SameFilled DEF history
  <1> QED
    BY SMTT(30), <1>0, <1>3, <1>4, LeftLoops

\* A step that changes nothing preserves the invariant.
LEMMA StutterStep ==
  ASSUME IInv, UNCHANGED vars
  PROVE  IInv'
  <1> USE DEF IInv, TypeOK, vars, locals, buffers, outside, history
  <1>1. LocalsOK' /\ NoInternalError' /\ NothingYet'
    BY DEF LocalsOK, NoInternalError, NothingYet
  <1>2. DataOK' /\ TreeOK' /\ BuffersInBounds'
    BY SMTT(30), SameData, SameTree, SameFilled
  <1>3. Allocated'
    BY SameArgs DEF Allocated, Hashing
  <1>4. LevelCounts'
    <2>1. CASE pc \in {"start", "out", "done"}
      BY SMTT(30), <2>1 DEF LevelCounts
    <2>2. CASE pc = "levels"
      <3> HIDE DEF IInv
      <3>1. HashesPerBlock' = HashesPerBlock /\ LevelCounts
        BY SameArgs DEF IInv
      <3> QED
        BY <2>2, <3>1 DEF LevelCounts
    <2>3. CASE pc \notin {"start", "levels", "out", "done"}
      BY SMTT(30), <2>3, SameCounts
    <2> QED
      BY SMTT(30), <2>1, <2>2, <2>3
  <1>5. PendingCounts'
    BY SameArgs, SameTree DEF PendingCounts, Hashing, FirstOpen
  <1> QED
    BY SMTT(30), <1>1, <1>2, <1>3, <1>4, <1>5

----------------------------------------------------------------------------
(***************************************************************************)
(* Every step of compute_root_hash() preserves the inductive invariant.    *)
(***************************************************************************)
LEMMA NextIInv == IInv /\ [Next]_vars => IInv'
  <1> SUFFICES ASSUME IInv, [Next]_vars PROVE IInv'
    OBVIOUS
  <1>1. CASE Step
    BY SMTT(30), <1>1, StartEmptyStep, AllocSaltFailsStep, StartStep, CountLevelStep,
       LevelsCountedStep, PlaceLevelStep, LayoutDoneStep, AllocBufferStep,
       AllocDoneStep, ReadBlockStep, ReadFailsStep, CascadeStep,
       CascadeDoneStep, EndOfDataStep, FlushStep, FlushNothingStep,
       CheckRootStep, OutStep
    DEF Step
  <1>2. CASE UNCHANGED vars
    BY <1>2, StutterStep
  <1> QED
    BY <1>1, <1>2 DEF Next, Returned

(***************************************************************************)
(* The inductive invariant holds throughout every call, whatever read_fn,  *)
(* the callbacks and the allocator do.                                     *)
(***************************************************************************)
THEOREM Invariance == Spec => []IInv
  BY InitIInv, NextIInv, PTL DEF Spec

(***************************************************************************)
(* The locals and buffers of compute_root_hash() keep their types: no      *)
(* count of levels exceeds FS_VERITY_MAX_LEVELS, a tree buffer holds only  *)
(* digests of the level below it.                                          *)
(***************************************************************************)
THEOREM TypeCorrect == Spec => []TypeOK
  <1>1. IInv => TypeOK
    BY DEF IInv
  <1> QED
    BY <1>1, Invariance, PTL

(***************************************************************************)
(* hash_one_block() never writes past the end of a buffer: for every file  *)
(* and for every block and digest size the caller admits, a pending block  *)
(* holds at most block_size bytes and the root hash one digest.            *)
(***************************************************************************)
THEOREM BoundsSafety == Spec => []BuffersInBounds
  <1>1. IInv => BuffersInBounds
    BY DEF IInv
  <1> QED
    BY <1>1, Invariance, PTL

(***************************************************************************)
(* Neither WARN_ON of compute_root_hash() can fire: FS_VERITY_MAX_LEVELS   *)
(* levels are enough for every 64-bit file size, and the loops leave       *)
(* exactly one digest in root_hash.                                        *)
(***************************************************************************)
THEOREM WarnOnsNeverFire == Spec => []NoInternalError
  <1>1. IInv => NoInternalError
    BY DEF IInv
  <1> QED
    BY <1>1, Invariance, PTL
=============================================================================
