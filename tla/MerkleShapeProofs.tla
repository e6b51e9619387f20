------------------------- MODULE MerkleShapeProofs -------------------------
(***************************************************************************)
(* Proofs that compute_root_hash() of lib/compute_digest.c computes the    *)
(* file's Merkle tree: what it hashes is what MerkleReference defines, in  *)
(* the order MerkleSpec promises, and its memory is freed on every path.   *)
(***************************************************************************)
EXTENDS MerkleTreeProofs

----------------------------------------------------------------------------
\* Memory: which of the pointers are live, by how far the call has come.

MemInv ==
  /\ num_levels \in 0 .. MaxLevels /\ level \in Int
  /\ DOMAIN mem = Levels
  /\ pc = "start" => padded_salt = "NULL"
  /\ pc \in {"start", "levels", "layout"} => \A l \in Levels : mem[l] = "NULL"
  /\ pc = "alloc" => /\ level <= num_levels
                     /\ \A l \in Levels : mem[l] = IF l < level THEN "heap" ELSE "NULL"
  /\ Hashing => \A l \in Levels :
       mem[l] = IF l < num_levels THEN "heap" ELSE IF l = num_levels THEN "root_hash" ELSE "NULL"
  /\ pc = "out" => \A l \in Levels : mem[l] # "freed" /\ (mem[l] = "heap" => l < num_levels)
  /\ pc = "done" => /\ padded_salt # "heap"
                    /\ \A l \in Levels : mem[l] # "heap" /\ (mem[l] = "freed" => l < num_levels)

LEMMA MemInit == StartState => MemInv
  BY WidthAssumption DEF StartState, MemInv, Levels, Hashing

LEMMA MemStep == MemInv /\ [Next]_vars => MemInv'
<1> SUFFICES ASSUME MemInv, [Next]_vars PROVE MemInv'
  OBVIOUS
<1> USE DEF MemInv, Hashing, Goto, Leave
<1>1. CASE StartEmpty \/ AllocSaltFails \/ Start
  BY <1>1 DEF StartEmpty, AllocSaltFails, Start, ReportSize, locals, buffers
<1>2. CASE CountLevel
  <2>1. /\ pc = "levels" /\ UNCHANGED <<level, mem, padded_salt>>
        /\ \/ pc' = "out" /\ num_levels' = num_levels
           \/ pc' = "levels" /\ ~(num_levels >= MaxLevels) /\ num_levels' = num_levels + 1
    BY <1>2 DEF CountLevel, buffers
  <2>2. num_levels' \in 0 .. MaxLevels
    BY <2>1, WidthAssumption
  <2> QED
    BY <2>1, <2>2
<1>3. CASE LevelsCounted \/ PlaceLevel
  <2>1. /\ pc \in {"levels", "layout"} /\ pc' = "layout"
        /\ UNCHANGED <<num_levels, mem, padded_salt>>
        /\ level' = num_levels - 1 \/ level' = level - 1
    BY <1>3 DEF LevelsCounted, PlaceLevel, buffers
  <2>2. level' \in Int
    BY <2>1
  <2> QED
    BY <2>1, <2>2
<1>4. CASE LayoutDone
  <2>1. /\ pc = "layout" /\ pc' \in {"alloc", "out"} /\ level' = -1
        /\ UNCHANGED <<num_levels, mem, padded_salt>>
    BY <1>4 DEF LayoutDone, ReportSize, buffers
  <2>2. /\ -1 \in Int /\ -1 <= num_levels /\ \A l \in Levels : ~(l < -1)
    BY DEF Levels
  <2> QED
    BY <2>1, <2>2
<1>5. CASE AllocBuffer
  <2>1. /\ pc = "alloc" /\ level < num_levels /\ UNCHANGED <<num_levels, padded_salt>>
        /\ \/ pc' = "alloc" /\ level' = level + 1 /\ mem' = [mem EXCEPT ![level] = "heap"]
           \/ pc' = "out" /\ mem' = mem /\ level' = level
    BY <1>5 DEF AllocBuffer
  <2>2. \A l \in Levels : l \in Int /\ (l < level + 1 <=> l < level \/ l = level)
    BY DEF Levels
  <2>3. \A l \in Levels : l < level => l < num_levels
    BY <2>1 DEF Levels
  <2>4. level' \in Int /\ (pc' = "alloc" => level' <= num_levels)
    BY <2>1
  <2> QED
    BY <2>1, <2>2, <2>3, <2>4
<1>6. CASE AllocDone
  BY <1>6 DEF AllocDone
<1>7. CASE ReadBlock \/ ReadFails \/ CascadeDone \/ EndOfData
  <2>1. /\ pc \in {"read", "cascade"} /\ pc' \in {"read", "cascade", "flush", "out"}
        /\ UNCHANGED <<num_levels, mem, padded_salt>> /\ level' \in {0, level}
    BY <1>7 DEF ReadBlock, ReadFails, CascadeDone, EndOfData, locals, buffers
  <2> QED
    BY <2>1
<1>8. CASE Cascade \/ Flush
  <2>1. /\ pc' \in {pc, "out"} /\ level' \in {level, level + 1}
        /\ UNCHANGED <<num_levels, mem, padded_salt>> /\ pc \in {"cascade", "flush"}
    BY <1>8 DEF Cascade, Flush, FinishBlock, ReportBlock
  <2> QED
    BY <2>1
<1>9. CASE FlushNothing \/ CheckRoot
  BY <1>9 DEF FlushNothing, CheckRoot, locals, buffers
<1>10. CASE Out
  BY <1>10 DEF Out
<1>11. CASE UNCHANGED vars
  BY <1>11 DEF vars, locals, buffers
<1> QED
  BY <1>1, <1>2, <1>3, <1>4, <1>5, <1>6, <1>7, <1>8, <1>9, <1>10, <1>11
     DEF Next, Step, Returned

(***************************************************************************)
(* compute_root_hash() hashes into allocated buffers only, and frees every *)
(* buffer and the padded salt, but never the caller's root hash, on every  *)
(* path to its return, whichever allocation or callback fails.             *)
(***************************************************************************)
THEOREM MemoryIsOwned == Spec => []MemoryOwnership
<1>1. Init => MemInv
  BY MemInit DEF Init
<1>2. MemInv => MemoryOwnership
  <2> SUFFICES ASSUME MemInv PROVE MemoryOwnership
    OBVIOUS
  <2>0. num_levels \in 0 .. MaxLevels
    BY DEF MemInv
  <2>1. \A l \in -1 .. num_levels : l \in Levels
    BY <2>0, WidthAssumption DEF Levels
  <2>2. num_levels \in -1 .. num_levels /\ \A l \in -1 .. num_levels - 1 : l \in -1 .. num_levels
    BY DEF MemInv
  <2>3. /\ ~(num_levels < num_levels) /\ \A l \in -1 .. num_levels - 1 : l < num_levels
    BY DEF MemInv
  <2>4. Hashing => /\ \A l \in -1 .. num_levels - 1 : mem[l] = "heap"
                   /\ mem[num_levels] = "root_hash"
    BY <2>1, <2>2, <2>3 DEF MemInv
  <2>5. pc = "done" => /\ padded_salt # "heap" /\ \A l \in Levels : mem[l] # "heap"
                       /\ mem[num_levels] # "freed"
    BY <2>1, <2>2, <2>3 DEF MemInv
  <2> QED
    BY <2>4, <2>5 DEF MemoryOwnership, Hashing
<1> QED
  BY <1>1, <1>2, MemStep, PTL DEF Spec

----------------------------------------------------------------------------
\* The tree: the levels counted are those of the reference, and a buffer holds
\* the digests of the blocks below that follow those already hashed into its level.

LevelsRef ==
  pc \notin {"start", "out", "done"} =>
    /\ \A l \in -1 .. num_levels - 1 : nblocks[l] = RefBlocks(args, l)
    /\ \A l \in -1 .. num_levels - 2 : nblocks[l] > 1
    /\ pc = "levels" => num_levels + blocks <= args.file_size
    /\ pc # "levels" => RefLevels(args) = num_levels

PendingRef ==
  Hashing =>
    /\ \A l \in FirstOpen .. num_levels - 1 : \A i \in 0 .. Pending(l) - 1 :
         data[l][i] = <<l - 1, HashesPerBlock * Hashed(l) + i>>
    /\ Hashed(num_levels - 1) > 0 => data[num_levels][0] = <<num_levels - 1, 0>>

ReadRef ==
  /\ pc \in {"start", "levels", "layout", "alloc"} => pos = 0
  /\ pc = "read" => pos = IF offset < args.file_size THEN offset ELSE args.file_size
  /\ pc = "cascade" => pos = IF offset + args.block_size < args.file_size
                             THEN offset + args.block_size ELSE args.file_size
  /\ pc = "flush" => pos = args.file_size

\* How a call ends that returns 0.
WholeTree ==
  /\ pos = args.file_size
  /\ args.file_size > 0 =>
       /\ RefLevels(args) = num_levels
       /\ \A l \in -1 .. num_levels - 1 : Hashed(l) = RefBlocks(args, l)
       /\ RootHash = <<num_levels - 1, 0>>
  /\ args.file_size = 0 => num_levels = 0 /\ RootHash = Zero

DoneRef == pc \in {"out", "done"} /\ err = Ok => WholeTree

ShapeInv == LevelsRef /\ PendingRef /\ ReadRef /\ DoneRef /\ TreeShape

----------------------------------------------------------------------------
\* Sequences.

LEMMA SeqLength ==
  ASSUME NEW S, NEW s \in Seq(S)
  PROVE  Len(s) \in Nat /\ DOMAIN s = 1 .. Len(s)
  OBVIOUS

LEMMA SeqAppend ==
  ASSUME NEW S, NEW s \in Seq(S), NEW e \in S
  PROVE  /\ Append(s, e) \in Seq(S) /\ Append(s, e) # <<>>
         /\ Len(Append(s, e)) = Len(s) + 1
         /\ \A i \in 1 .. Len(s) : Append(s, e)[i] = s[i]
         /\ Append(s, e)[Len(s) + 1] = e
  OBVIOUS

----------------------------------------------------------------------------
\* Rounding up.

LEMMA CeilUnique ==
  ASSUME NEW n \in Nat, NEW d \in Nat \ {0}, NEW q \in Int, n <= d * q, d * (q - 1) < n
  PROVE  CeilDiv(n, d) = q
<1> DEFINE r == (n + d - 1) \div d
<1>1. r \in Int /\ d * r <= n + d - 1 /\ n + d - 1 < d * r + d
  OBVIOUS
<1> HIDE DEF r
<1>2. d * (q - 1) = d * q - d /\ d * (q + 1) = d * q + d /\ d * (r + 1) = d * r + d
  BY Zenon, <1>1, MulOrder
<1>3. d * q < d * (r + 1) /\ d * r < d * (q + 1)
  <2>1. d * q \in Int /\ d * r \in Int
    BY <1>1
  <2> QED
    BY <1>1, <1>2, <2>1
<1>4. q < r + 1 /\ r < q + 1
  BY <1>1, <1>3, MulOrder
<1>5. q = r
  BY <1>1, <1>4
<1> QED
  BY <1>5 DEF CeilDiv, r

\* Rounding up twice is rounding up once.
LEMMA NestedCeil ==
  ASSUME NEW n \in Nat, NEW d \in Nat \ {0}, NEW h \in Nat \ {0}, NEW q \in Nat, NEW r \in Nat,
         n <= d * q, d * (q - 1) < n, q <= h * r, h * (r - 1) < q
  PROVE  n <= (d * h) * r /\ (d * h) * (r - 1) < n
<1> DEFINE u == h * r
           v == h * (r - 1)
<1>1. u \in Int /\ v \in Int /\ v <= q - 1 /\ q <= u
  OBVIOUS
<1>2. (d * h) * r = d * u /\ (d * h) * (r - 1) = d * v
  OBVIOUS
<1> HIDE DEF u, v
<1>3. d * q <= d * u /\ d * v <= d * (q - 1)
  BY <1>1, MulOrder
<1>4. d * q \in Int /\ d * u \in Int /\ d * v \in Int /\ d * (q - 1) \in Int
  BY <1>1
<1> QED
  BY <1>2, <1>3, <1>4

----------------------------------------------------------------------------
\* The counts of the reference.

LEMMA Spans ==
  ASSUME args \in Calls
  PROVE  /\ RefHashesPerBlock(args) = HashesPerBlock
         /\ HashesPerBlock^0 = 1
         /\ \A k \in 0 .. MaxLevels : /\ HashesPerBlock^k \in Nat \ {0}
                                      /\ HashesPerBlock^(k + 1) = HashesPerBlock * HashesPerBlock^k
<1>1. RefHashesPerBlock(args) = HashesPerBlock
  BY DEF RefHashesPerBlock, HashesPerBlock
<1> QED
  BY <1>1, HeightAssumption

LEMMA RefBlocksData ==
  ASSUME args \in Calls, NEW q \in Nat,
         args.file_size <= args.block_size * q, args.block_size * (q - 1) < args.file_size
  PROVE  RefBlocks(args, -1) = q
<1>1. RefBlocks(args, -1) = CeilDiv(args.file_size, args.block_size * HashesPerBlock^(-1 + 1))
  BY Spans DEF RefBlocks
<1>2. -1 + 1 = 0 /\ args.file_size \in Nat /\ args.block_size \in Nat \ {0}
  BY CallFacts
<1>3. args.block_size * HashesPerBlock^0 = args.block_size
  BY <1>2, Spans
<1>4. q \in Int
  OBVIOUS
<1>5. CeilDiv(args.file_size, args.block_size) = q
  BY Zenon, <1>2, <1>4, CeilUnique
<1> QED
  BY <1>1, <1>2, <1>3, <1>5

LEMMA RefBlocksNext ==
  ASSUME args \in Calls, args.file_size > 0, NEW k \in 0 .. MaxLevels - 1, NEW q \in Nat,
         NEW r \in Nat, RefBlocks(args, k - 1) = q,
         q <= HashesPerBlock * r, HashesPerBlock * (r - 1) < q
  PROVE  RefBlocks(args, k) = r
<1> DEFINE h == HashesPerBlock
           d == args.block_size * h^k
           n == args.file_size
<1>1. /\ n \in Nat \ {0} /\ args.block_size \in Nat \ {0} /\ h \in Nat \ {0}
      /\ h^k \in Nat \ {0} /\ h^(k + 1) = h * h^k
  <2>1. k \in 0 .. MaxLevels
    BY WidthAssumption
  <2> QED
    BY <2>1, CallFacts, Spans
<1>2. /\ RefBlocks(args, k - 1) = CeilDiv(n, args.block_size * h^((k - 1) + 1))
      /\ RefBlocks(args, k) = CeilDiv(n, args.block_size * h^(k + 1))
  BY Spans DEF RefBlocks
<1>3. (k - 1) + 1 = k
  BY WidthAssumption
<1>4. RefBlocks(args, k - 1) = CeilDiv(n, d)
  BY <1>2, <1>3
<1>5. args.block_size * h^(k + 1) = d * h
  <2>1. \A x, y, z \in Nat : x * (y * z) = (x * z) * y
    OBVIOUS
  <2> QED
    BY <1>1, <2>1
<1>6. d \in Nat \ {0}
  BY <1>1
<1> HIDE DEF d, h, n
<1>7. n <= d * q /\ d * (q - 1) < n
  BY <1>1, <1>4, <1>6, CeilLemma DEF CeilDiv
<1>8. q <= h * r /\ h * (r - 1) < q
  BY DEF h
<1>9. n <= (d * h) * r /\ (d * h) * (r - 1) < n
  BY <1>1, <1>6, <1>7, <1>8, NestedCeil
<1>10. d * h \in Nat \ {0} /\ r \in Int /\ n \in Nat
  BY <1>1, <1>6
<1>11. CeilDiv(n, d * h) = r
  BY Zenon, <1>9, <1>10, CeilUnique
<1> QED
  BY <1>2, <1>5, <1>11

LEMMA RefLevelsIs ==
  ASSUME NEW n \in Nat, args.file_size \in Nat, n <= args.file_size,
         \A m \in 0 .. n : RefBlocks(args, m - 1) \in Int,
         RefBlocks(args, n - 1) <= 1, \A m \in 0 .. n - 1 : RefBlocks(args, m - 1) > 1
  PROVE  RefLevels(args) = n
<1> DEFINE Is(k) == /\ RefBlocks(args, k - 1) <= 1
                    /\ \A m \in 0 .. k - 1 : RefBlocks(args, m - 1) > 1
<1>1. n \in 0 .. args.file_size /\ Is(n)
  OBVIOUS
<1>2. ASSUME NEW k \in 0 .. args.file_size, Is(k) PROVE k = n
  <2>1. CASE k < n
    <3>1. k \in 0 .. n - 1 /\ k \in 0 .. n
      BY <2>1
    <3> QED
      BY <1>2, <3>1
  <2>2. CASE n < k
    <3>1. n \in 0 .. k - 1 /\ n \in 0 .. n
      BY <2>2
    <3> QED
      BY <1>2, <3>1
  <2> QED
    BY <2>1, <2>2
<1> HIDE DEF Is
<1>3. (CHOOSE k \in 0 .. args.file_size : Is(k)) = n
  BY <1>1, <1>2
<1> QED
  BY <1>3 DEF RefLevels, Is

----------------------------------------------------------------------------
\* The levels counted are those of the reference.

\* After the levels are counted, nothing changes their counts.
LEMMA Laid ==
  ASSUME [Next]_vars
  PROVE  \/ Start \/ CountLevel \/ LevelsCounted
         \/ /\ UNCHANGED <<args, num_levels, nblocks>>
            /\ \/ pc' \in {"out", "done"}
               \/ pc' = pc /\ blocks' = blocks
               \/ pc \in {"layout", "alloc", "read", "cascade", "flush"} /\ pc' \notin {"start", "levels"}
<1> DEFINE Kept ==
      /\ UNCHANGED <<args, num_levels, nblocks>>
      /\ \/ pc' \in {"out", "done"}
         \/ pc' = pc /\ blocks' = blocks
         \/ pc \in {"layout", "alloc", "read", "cascade", "flush"} /\ pc' \notin {"start", "levels"}
<1>1. StartEmpty \/ AllocSaltFails => Kept
  BY DEF StartEmpty, AllocSaltFails, ReportSize, Goto, Leave, locals, history
<1>2. PlaceLevel \/ LayoutDone => Kept
  BY DEF PlaceLevel, LayoutDone, ReportSize, Goto, Leave, history
<1>3. AllocBuffer \/ AllocDone => Kept
  BY DEF AllocBuffer, AllocDone, Goto, Leave, history
<1>4. ReadBlock \/ ReadFails \/ CascadeDone \/ EndOfData => Kept
  BY DEF ReadBlock, ReadFails, CascadeDone, EndOfData, Goto, Leave, locals, history
<1>5. Cascade \/ Flush => Kept
  BY DEF Cascade, Flush, FinishBlock, ReportBlock, Goto, Leave
<1>6. FlushNothing \/ CheckRoot \/ Out => Kept
  BY DEF FlushNothing, CheckRoot, Out, Goto, Leave, locals, history
<1>7. UNCHANGED vars => Kept
  BY DEF vars, locals, history
<1> QED
  BY <1>1, <1>2, <1>3, <1>4, <1>5, <1>6, <1>7 DEF Next, Step, Returned

LEMMA SameRef ==
  ASSUME args' = args
  PROVE  /\ \A l : RefBlocks(args, l)' = RefBlocks(args, l)
         /\ RefLevels(args)' = RefLevels(args)
         /\ RefTree(args)' = RefTree(args)
  OBVIOUS

LEMMA StartLevels ==
  ASSUME IInv, IInv', Start
  PROVE  LevelsRef'
<1>1. /\ pc = "start" /\ pc' = "levels" /\ args' = args /\ num_levels' = 0
      /\ args \in Calls
  BY DEF Start, Goto, IInv, TypeOK, LocalsOK, NothingYet
<1>2. /\ args.file_size > 0
      /\ args.file_size <= args.block_size * nblocks'[-1]
      /\ args.block_size * (nblocks'[-1] - 1) < args.file_size
      /\ blocks' = nblocks'[num_levels' - 1]
  BY <1>1 DEF IInv, LevelCounts
<1>3. blocks' \in Nat /\ blocks' = nblocks'[-1]
  <2>1. 0 - 1 = -1
    OBVIOUS
  <2> QED
    BY <1>1, <1>2, <2>1 DEF IInv, TypeOK, LocalsOK
<1>4. RefBlocks(args, -1) = nblocks'[-1]
  BY <1>1, <1>2, <1>3, RefBlocksData
<1>5. blocks' <= args.file_size
  <2>1. args.block_size \in Nat \ {0} /\ args.file_size \in Nat
    BY <1>1, CallFacts
  <2>2. ASSUME NEW b \in Nat \ {0}, NEW q \in Nat, NEW n \in Nat, b * (q - 1) < n, n > 0
        PROVE  q <= n
    <3>1. CASE q = 0
      BY <2>2, <3>1
    <3>2. CASE q # 0
      <4>1. q - 1 \in Nat
        BY <3>2
      <4>2. q - 1 <= b * (q - 1)
        BY <4>1
      <4> QED
        BY <2>2, <4>1, <4>2
    <3> QED
      BY <3>1, <3>2
  <2> QED
    BY <1>2, <1>3, <2>1, <2>2
<1>6. \A l \in -1 .. 0 - 1 : l = -1
  OBVIOUS
<1>7. \A l \in -1 .. 0 - 2 : FALSE
  OBVIOUS
<1>8. 0 + blocks' <= args.file_size
  BY <1>3, <1>5
<1> QED
  BY <1>1, <1>4, <1>6, <1>7, <1>8 DEF LevelsRef

LEMMA CountLevels ==
  ASSUME IInv, IInv', LevelsRef, CountLevel
  PROVE  LevelsRef'
<1>1. CASE pc' = "out"
  BY <1>1 DEF LevelsRef
<1>2. CASE pc' # "out"
  <2>1. /\ pc = "levels" /\ pc' = "levels" /\ blocks > 1 /\ args' = args
        /\ num_levels' = num_levels + 1
        /\ nblocks' = [nblocks EXCEPT ![num_levels] = blocks']
    BY <1>2 DEF CountLevel, Goto, Leave
  <2>2. /\ args \in Calls /\ num_levels \in 0 .. MaxLevels /\ num_levels' \in 0 .. MaxLevels
        /\ nblocks \in [-1 .. MaxLevels - 1 -> Nat] /\ blocks \in Nat /\ blocks' \in Nat
    BY <2>1 DEF IInv, TypeOK, LocalsOK
  <2>3. /\ num_levels \in 0 .. MaxLevels - 1 /\ num_levels \in -1 .. MaxLevels - 1
        /\ num_levels \in 0 .. num_levels' - 1
        /\ \A l \in -1 .. num_levels - 1 : l # num_levels /\ l \in -1 .. MaxLevels - 1
        /\ num_levels - 1 \in -1 .. num_levels - 1
    BY <2>1, <2>2, WidthAssumption
  <2>4. /\ nblocks'[num_levels] = blocks'
        /\ \A l \in -1 .. num_levels - 1 : nblocks'[l] = nblocks[l] /\ nblocks[l] \in Nat
    BY <2>1, <2>2, <2>3
  <2>5. /\ args.file_size > 0 /\ blocks = nblocks[num_levels - 1]
    BY <2>1 DEF IInv, LevelCounts
  <2>6. /\ blocks <= HashesPerBlock * blocks' /\ HashesPerBlock * (blocks' - 1) < blocks
        /\ blocks' > 0
    <3>1. /\ nblocks'[num_levels - 1] <= HashesPerBlock' * nblocks'[num_levels]
          /\ HashesPerBlock' * (nblocks'[num_levels] - 1) < nblocks'[num_levels - 1]
          /\ nblocks'[num_levels] > 0
      <4>1. num_levels \in -1 .. num_levels' - 1
        BY <2>3
      <4> QED
        BY <2>1, <2>3, <4>1 DEF IInv, LevelCounts
    <3>2. HashesPerBlock' = HashesPerBlock
      BY <2>1, SameArgs
    <3> QED
      BY <2>3, <2>4, <2>5, <3>1, <3>2
  <2>7. \A l \in -1 .. num_levels - 1 : nblocks[l] = RefBlocks(args, l)
    BY <2>1 DEF LevelsRef
  <2>8. RefBlocks(args, num_levels) = blocks'
    BY <2>2, <2>3, <2>5, <2>6, <2>7, RefBlocksNext
  <2>9. num_levels + 1 + blocks' <= args.file_size
    <3>1. num_levels + blocks <= args.file_size
      BY <2>1 DEF LevelsRef
    <3>2. /\ blocks \in Nat \ {0} /\ blocks > 1 /\ blocks' \in Nat \ {0}
          /\ HashesPerBlock \in Nat /\ HashesPerBlock >= 2
      <4>1. blocks \in Nat \ {0} /\ blocks > 1
        BY <2>1, <2>2
      <4>2. blocks' \in Nat \ {0}
        BY <2>2, <2>6
      <4> QED
        BY <2>2, <4>1, <4>2, CallFacts
    <3>3. 2 * (blocks' - 1) <= blocks - 1
      BY Zenon, <2>6, <3>2, HalveLemma
    <3>4. \A m, b, c, n \in Nat : m + b <= n /\ b > 1 /\ 2 * (c - 1) <= b - 1 => m + 1 + c <= n
      OBVIOUS
    <3>5. num_levels \in Nat /\ args.file_size \in Nat /\ blocks \in Nat /\ blocks' \in Nat
      BY <2>2, CallFacts
    <3> QED
      BY Zenon, <3>1, <3>2, <3>3, <3>4, <3>5
  <2>10. \A l \in -1 .. num_levels + 1 - 1 : nblocks'[l] = RefBlocks(args, l)
    <3>1. \A l \in -1 .. num_levels + 1 - 1 : l = num_levels \/ l \in -1 .. num_levels - 1
      BY <2>2
    <3> QED
      BY <2>4, <2>7, <2>8, <3>1
  <2>11. \A l \in -1 .. num_levels + 1 - 2 : nblocks'[l] > 1
    <3>1. \A l \in -1 .. num_levels + 1 - 2 : /\ l = num_levels - 1 \/ l \in -1 .. num_levels - 2
                                              /\ l \in -1 .. num_levels - 1
      BY <2>2
    <3>2. \A l \in -1 .. num_levels - 2 : nblocks[l] > 1
      BY <2>1 DEF LevelsRef
    <3> QED
      BY <2>1, <2>4, <2>5, <3>1, <3>2
  <2>12. pc' = "levels" /\ num_levels' + blocks' <= args'.file_size
    BY Zenon, <2>1, <2>9
  <2>13. num_levels' - 1 = num_levels + 1 - 1 /\ num_levels' - 2 = num_levels + 1 - 2
    <3>1. num_levels' = num_levels + 1 /\ num_levels \in Int
      BY <2>1, <2>2
    <3> QED
      BY <3>1
  <2>14. \A l \in -1 .. num_levels' - 1 : nblocks'[l] = RefBlocks(args, l)'
    <3>1. \A l : RefBlocks(args, l)' = RefBlocks(args, l)
      BY <2>1, SameRef
    <3> QED
      BY Zenon, <2>10, <2>13, <3>1
  <2> QED
    BY <2>11, <2>12, <2>13, <2>14 DEF LevelsRef
<1> QED
  BY <1>1, <1>2

LEMMA LevelsDone ==
  ASSUME IInv, LevelsRef, LevelsCounted
  PROVE  LevelsRef'
<1>1. /\ pc = "levels" /\ pc' = "layout" /\ blocks <= 1
      /\ UNCHANGED <<args, num_levels, nblocks>>
  BY DEF LevelsCounted, Goto, history
<1>2. /\ args \in Calls /\ num_levels \in 0 .. MaxLevels /\ blocks \in Nat
      /\ \A l \in -1 .. num_levels - 1 : nblocks[l] \in Nat
  BY WidthAssumption DEF IInv, TypeOK, LocalsOK
<1>3. blocks = nblocks[num_levels - 1]
  BY <1>1 DEF IInv, LevelCounts
<1>4. /\ \A l \in -1 .. num_levels - 1 : nblocks[l] = RefBlocks(args, l)
      /\ \A l \in -1 .. num_levels - 2 : nblocks[l] > 1
      /\ num_levels + blocks <= args.file_size
  BY <1>1 DEF LevelsRef
<1>5. num_levels \in Nat /\ args.file_size \in Nat /\ num_levels <= args.file_size
  BY <1>2, <1>4, CallFacts
<1>6. /\ num_levels - 1 \in -1 .. num_levels - 1
      /\ \A m \in 0 .. num_levels : m - 1 \in -1 .. num_levels - 1
      /\ \A m \in 0 .. num_levels - 1 : m - 1 \in -1 .. num_levels - 2
  BY <1>5
<1>7. RefLevels(args) = num_levels
  <2>1. \A m \in 0 .. num_levels : RefBlocks(args, m - 1) \in Int
    BY <1>2, <1>4, <1>6
  <2>2. RefBlocks(args, num_levels - 1) <= 1
    BY <1>1, <1>3, <1>4, <1>6
  <2>3. \A m \in 0 .. num_levels - 1 : RefBlocks(args, m - 1) > 1
    <3>1. \A m \in 0 .. num_levels - 1 : m \in 0 .. num_levels
      BY <1>5
    <3> QED
      BY <1>4, <1>6, <3>1
  <2> QED
    BY <1>5, <2>1, <2>2, <2>3, RefLevelsIs
<1> QED
  BY <1>1, <1>4, <1>7 DEF LevelsRef

LEMMA LevelsStep ==
  ASSUME IInv, IInv', LevelsRef, [Next]_vars
  PROVE  LevelsRef'
<1>1. CASE /\ UNCHANGED <<args, num_levels, nblocks>>
           /\ \/ pc' \in {"out", "done"}
              \/ pc' = pc /\ blocks' = blocks
              \/ pc \in {"layout", "alloc", "read", "cascade", "flush"} /\ pc' \notin {"start", "levels"}
  BY <1>1 DEF LevelsRef
<1> QED
  BY <1>1, Laid, StartLevels, CountLevels, LevelsDone

----------------------------------------------------------------------------
\* What hash_one_block() hashes, and where the digest goes.

LEMMA InRefTree ==
  ASSUME NEW l \in -1 .. RefLevels(args) - 1, NEW k \in 0 .. RefBlocks(args, l) - 1
  PROVE  <<l, k>> \in RefTree(args)
  BY DEF RefTree

LEMMA SlotIs ==
  ASSUME NEW s \in Nat \ {0}, NEW p \in Nat
  PROVE  (s * p) \div s = p
  OBVIOUS

\* While blocks are hashed: types of the counts, and the reference's counts.
LEMMA HashingFacts ==
  ASSUME IInv, LevelsRef, Hashing
  PROVE  /\ args \in Calls /\ num_levels \in 0 .. MaxLevels
         /\ HashesPerBlock \in Nat \ {0} /\ args.digest_size \in Nat \ {0}
         /\ DOMAIN tree = -1 .. MaxLevels - 1
         /\ \A l \in -1 .. num_levels - 1 :
              /\ l \in DOMAIN tree /\ tree[l] \in Seq(Blocks(l)) /\ Hashed(l) \in Nat
              /\ nblocks[l] \in Nat /\ nblocks[l] = RefBlocks(args, l)
         /\ \A l \in 0 .. num_levels - 1 : Pending(l) \in Int
         /\ RefLevels(args) = num_levels
         /\ nblocks[num_levels - 1] = 1
<1>1. args \in Calls /\ num_levels \in 0 .. MaxLevels
  BY DEF IInv, TypeOK, LocalsOK
<1>2. HashesPerBlock \in Nat \ {0} /\ args.digest_size \in Nat \ {0}
  BY <1>1, CallFacts
<1>3. /\ DOMAIN tree = -1 .. MaxLevels - 1
      /\ \A l \in DOMAIN tree : tree[l] \in Seq(Blocks(l)) /\ nblocks[l] \in Nat
  BY DEF IInv, TypeOK, TreeOK, LocalsOK
<1>4. \A l \in -1 .. num_levels - 1 : l \in -1 .. MaxLevels - 1
  BY <1>1, WidthAssumption
<1>5. \A l \in -1 .. num_levels - 1 : Hashed(l) \in Nat
  BY <1>3, <1>4, SeqLength DEF Hashed
<1>6. \A l \in 0 .. num_levels - 1 : Pending(l) \in Int
  <2>1. \A l \in 0 .. num_levels - 1 : l \in -1 .. num_levels - 1 /\ l - 1 \in -1 .. num_levels - 1
    BY <1>1
  <2>2. \A a, b, c \in Nat : a - b * c \in Int
    OBVIOUS
  <2> QED
    BY <1>2, <1>5, <2>1, <2>2 DEF Pending
<1>7. pc \notin {"start", "levels", "out", "done"}
  BY DEF Hashing
<1>8. /\ \A l \in -1 .. num_levels - 1 : nblocks[l] = RefBlocks(args, l)
      /\ RefLevels(args) = num_levels
  BY <1>7 DEF LevelsRef
<1>9. nblocks[num_levels - 1] = 1
  BY <1>7 DEF IInv, LevelCounts
<1> QED
  BY <1>1, <1>2, <1>3, <1>4, <1>5, <1>6, <1>8, <1>9

LEMMA HashShape ==
  ASSUME IInv, LevelsRef, TreeShape, Hashing, args' = args,
         NEW cur \in -1 .. num_levels - 1, NEW e \in Blocks(cur),
         tree' = [tree EXCEPT ![cur] = Append(@, e)],
         Hashed(cur) < nblocks[cur],
         e = RefContent(args, cur, Hashed(cur), Zero)
  PROVE  TreeShape'
<1> DEFINE t == Append(tree[cur], e)
<1>1. /\ DOMAIN tree = -1 .. MaxLevels - 1 /\ cur \in DOMAIN tree /\ tree[cur] \in Seq(Blocks(cur))
      /\ Hashed(cur) \in Nat /\ nblocks[cur] \in Nat /\ nblocks[cur] = RefBlocks(args, cur)
      /\ RefLevels(args) = num_levels
  BY HashingFacts
<1>2. /\ Len(t) = Hashed(cur) + 1
      /\ \A k \in 1 .. Hashed(cur) : t[k] = tree[cur][k]
      /\ t[Hashed(cur) + 1] = e
  BY <1>1, SeqAppend DEF Hashed
<1>3. /\ DOMAIN tree' = DOMAIN tree /\ tree'[cur] = t
      /\ \A l \in DOMAIN tree \ {cur} : tree'[l] = tree[l]
  BY <1>1
<1> HIDE DEF t
<1>4. <<cur, Hashed(cur)>> \in RefTree(args)
  <2>1. cur \in -1 .. RefLevels(args) - 1 /\ Hashed(cur) \in 0 .. RefBlocks(args, cur) - 1
    BY <1>1
  <2> QED
    BY <2>1, InRefTree
<1>5. ASSUME NEW l \in DOMAIN tree, NEW k \in 1 .. Len(tree'[l])
      PROVE  <<l, k - 1>> \in RefTree(args) /\ tree'[l][k] = RefContent(args, l, k - 1, Zero)
  <2>1. CASE l # cur
    BY <1>3, <2>1 DEF TreeShape
  <2>2. CASE l = cur
    <3>1. k \in 1 .. Hashed(cur) + 1
      BY <1>2, <1>3, <2>2
    <3>2. CASE k = Hashed(cur) + 1
      <4>1. k - 1 = Hashed(cur)
        BY <1>1, <3>2
      <4> QED
        BY Zenon, <1>2, <1>3, <1>4, <2>2, <3>2, <4>1
    <3>3. CASE k # Hashed(cur) + 1
      <4>1. k \in 1 .. Hashed(cur) /\ k \in 1 .. Len(tree[cur])
        BY <1>1, <3>1, <3>3 DEF Hashed
      <4>2. <<cur, k - 1>> \in RefTree(args) /\ tree[cur][k] = RefContent(args, cur, k - 1, Zero)
        BY <1>1, <4>1 DEF TreeShape
      <4> QED
        BY <1>2, <1>3, <2>2, <4>1, <4>2
    <3> QED
      BY <3>2, <3>3
  <2> QED
    BY <2>1, <2>2
<1>6. /\ RefTree(args') = RefTree(args)
      /\ \A l, k : RefContent(args', l, k, Zero) = RefContent(args, l, k, Zero)
  OBVIOUS
<1> QED
  BY Zenon, <1>3, <1>5, <1>6 DEF TreeShape

LEMMA HashData ==
  ASSUME IInv, LevelsRef, PendingRef, Hashing, args' = args, num_levels' = num_levels,
         NEW cur \in -1 .. num_levels - 1, NEW block \in Blocks(cur), NEW used \in Nat,
         HashOneBlock(cur, block, used), FirstOpen <= cur + 1,
         Hashed(cur) < nblocks[cur],
         cur + 1 < num_levels =>
           /\ Pending(cur + 1) \in 0 .. HashesPerBlock - 1
           /\ filled[cur + 1] = args.digest_size * Pending(cur + 1)
  PROVE  /\ cur + 1 < num_levels => \A i \in 0 .. Pending(cur + 1) :
              data'[cur + 1][i] = <<cur, HashesPerBlock * Hashed(cur + 1) + i>>
         /\ cur + 1 = num_levels => data'[num_levels][0] = <<num_levels - 1, 0>>
         /\ \A l \in Levels \ {cur, cur + 1} : data'[l] = data[l]
<1> DEFINE next == cur + 1
           slot == UsedSlots(next)
           digest == <<cur, Hashed(cur)>>
<1>1. /\ data' = [data EXCEPT ![cur] = Padded(block, used), ![next] = [@ EXCEPT ![slot] = digest]]
  BY DEF HashOneBlock, Hashed
<1>2. /\ num_levels \in 0 .. MaxLevels /\ args.digest_size \in Nat \ {0} /\ Hashed(cur) \in Nat
      /\ HashesPerBlock \in Nat \ {0} /\ nblocks[cur] \in Nat
  BY HashingFacts
<1>3. cur \in Levels /\ next \in Levels /\ next # cur /\ cur = next - 1 /\ next \in 0 .. num_levels
  BY <1>2, WidthAssumption DEF Levels
<1>4. DOMAIN data = Levels
  BY DEF IInv, TypeOK, DataOK
<1>5. /\ data'[next] = [data[next] EXCEPT ![slot] = digest]
      /\ \A l \in Levels \ {cur, next} : data'[l] = data[l]
  BY <1>1, <1>3, <1>4
<1> HIDE DEF next
<1>6. ASSUME next < num_levels, NEW i \in 0 .. Pending(next)
      PROVE  data'[next][i] = <<cur, HashesPerBlock * Hashed(next) + i>>
  <2>1. /\ Pending(next) \in 0 .. HashesPerBlock - 1 /\ filled[next] = args.digest_size * Pending(next)
        /\ FirstOpen <= next
    BY <1>6 DEF next
  <2>2. slot = Pending(next)
    <3>1. Pending(next) \in Nat
      BY <2>1
    <3> QED
      BY <1>2, <2>1, <3>1, SlotIs DEF UsedSlots
  <2>3. next \in -1 .. num_levels - 1 /\ next # -1 /\ next \in FirstOpen .. num_levels - 1
    <3>1. FirstOpen \in Int
      BY DEF FirstOpen, IInv, TypeOK, LocalsOK, Levels
    <3> QED
      BY <1>2, <1>3, <1>6, <2>1, <3>1
  <2>4. DOMAIN data[next] = 0 .. HashesPerBlock - 1
    <3>1. data[next] \in Blocks(next)
      BY <2>3 DEF IInv, Allocated
    <3> QED
      BY <2>3, <3>1 DEF Blocks, Slots
  <2>5. i \in 0 .. HashesPerBlock - 1 /\ slot \in DOMAIN data[next] /\ i \in Nat
    BY <1>2, <2>1, <2>2, <2>4
  <2>6. CASE i = slot
    <3>1. data'[next][i] = digest
      BY <1>5, <2>5, <2>6
    <3>2. Hashed(next) \in Nat
      BY <2>3, HashingFacts
    <3>3. Hashed(cur) = HashesPerBlock * Hashed(next) + Pending(next)
      <4>1. Pending(next) = Hashed(cur) - HashesPerBlock * Hashed(next)
        BY <1>3 DEF Pending
      <4>2. HashesPerBlock \in Nat
        BY <1>2
      <4> QED
        BY <1>2, <3>2, <4>1, <4>2
    <3> QED
      BY Zenon, <2>2, <2>6, <3>1, <3>3
  <2>7. CASE i # slot
    <3>1. i \in 0 .. Pending(next) - 1
      BY <2>1, <2>2, <2>5, <2>7
    <3>2. data[next][i] = <<next - 1, HashesPerBlock * Hashed(next) + i>>
      BY <2>3, <3>1 DEF PendingRef
    <3>3. data'[next][i] = data[next][i]
      BY <1>5, <2>4, <2>5, <2>7
    <3> QED
      BY Zenon, <1>3, <3>2, <3>3
  <2> QED
    BY <2>6, <2>7
<1>7. ASSUME next = num_levels PROVE data'[num_levels][0] = <<num_levels - 1, 0>>
  <2>1. cur = num_levels - 1 /\ nblocks[cur] = 1
    BY <1>3, <1>7, HashingFacts
  <2>2. Hashed(cur) = 0
    BY <1>2, <2>1
  <2>3. filled[num_levels] = args.digest_size * Hashed(cur)
    BY <2>1 DEF IInv, PendingCounts
  <2>4. slot = 0
    <3>1. (args.digest_size * 0) \div args.digest_size = 0
      BY <1>2, SlotIs
    <3> QED
      BY <1>7, <2>2, <2>3, <3>1 DEF UsedSlots
  <2>5. DOMAIN data[num_levels] = {0}
    BY DEF IInv, Allocated
  <2> QED
    BY <1>5, <1>7, <2>1, <2>2, <2>4, <2>5
<1> QED
  BY <1>5, <1>6, <1>7 DEF next

----------------------------------------------------------------------------
\* A tree block that is finished is the next one of its level, and holds the
\* digests of all its children.

LEMMA FinishWhat ==
  ASSUME IInv, Cascade \/ Flush
  PROVE  /\ pc \in {"cascade", "flush"} /\ Hashing /\ FinishBlock(pc)
         /\ level < num_levels /\ level \in 0 .. num_levels - 1 /\ FirstOpen <= level
         /\ Hashed(level) < nblocks[level]
         /\ Hashed(level - 1) <= nblocks[level - 1]
         /\ Pending(level) \in 1 .. HashesPerBlock
         /\ UsedSlots(level) = Pending(level)
         /\ Pending(level) = HashesPerBlock \/ Hashed(level - 1) = nblocks[level - 1]
<1>1. args \in Calls /\ num_levels \in 0 .. MaxLevels
  BY DEF IInv, TypeOK, LocalsOK
<1>2. HashesPerBlock \in Nat \ {0} /\ args.digest_size \in Nat \ {0}
  BY <1>1, CallFacts
<1>3. CASE Cascade
  <2>1. /\ pc = "cascade" /\ FinishBlock(pc) /\ level < num_levels /\ level \in 0 .. num_levels - 1
        /\ FirstOpen = 0 /\ filled[level] = args.digest_size * Pending(level)
        /\ Pending(level) = HashesPerBlock /\ Hashed(level) < nblocks[level]
        /\ Hashed(level - 1) <= nblocks[level - 1]
    BY <1>3, CascadeFacts
  <2>2. Pending(level) \in 1 .. HashesPerBlock /\ Pending(level) \in Nat
    BY <1>2, <2>1
  <2>3. UsedSlots(level) = Pending(level)
    BY <1>2, <2>1, <2>2, SlotIs DEF UsedSlots
  <2>4. FirstOpen <= level /\ Hashing
    BY <1>1, <2>1 DEF Hashing
  <2> QED
    BY <2>1, <2>2, <2>3, <2>4
<1>4. CASE Flush
  <2>1. pc = "flush" /\ level < num_levels /\ filled[level] # 0 /\ FinishBlock(pc)
    BY <1>4 DEF Flush
  <2>2. /\ level \in 0 .. num_levels - 1 /\ FirstOpen = level
        /\ \A l \in -1 .. num_levels - 1 : Hashed(l) \in Nat /\ nblocks[l] \in Nat
        /\ Pending(level) \in 0 .. HashesPerBlock
        /\ filled[level] = args.digest_size * Pending(level)
        /\ Hashed(level - 1) = nblocks[level - 1]
        /\ nblocks[level - 1] <= HashesPerBlock * nblocks[level]
        /\ HashesPerBlock * (nblocks[level] - 1) < nblocks[level - 1]
    BY <2>1, FlushFacts
  <2>3. level \in -1 .. num_levels - 1 /\ level - 1 \in -1 .. num_levels - 1
    BY <1>1, <2>2
  <2>4. Pending(level) # 0
    BY <1>2, <2>1, <2>2
  <2>5. Pending(level) \in 1 .. HashesPerBlock /\ Pending(level) \in Nat
    BY <1>2, <2>2, <2>4
  <2>6. UsedSlots(level) = Pending(level)
    BY <1>2, <2>2, <2>5, SlotIs DEF UsedSlots
  <2>7. HashesPerBlock * Hashed(level) < nblocks[level - 1]
    BY <1>2, <2>2, <2>3, <2>5 DEF Pending
  <2>8. Hashed(level) < nblocks[level]
    BY <1>2, <2>2, <2>3, <2>7, CloseLevel
  <2>9. FirstOpen <= level /\ Hashing /\ Hashed(level - 1) <= nblocks[level - 1]
    BY <1>1, <2>1, <2>2, <2>3 DEF Hashing
  <2> QED
    BY <2>1, <2>2, <2>5, <2>6, <2>8, <2>9
<1> QED
  BY <1>3, <1>4

LEMMA FinishContent ==
  ASSUME IInv, LevelsRef, PendingRef, Cascade \/ Flush
  PROVE  Padded(data[level], UsedSlots(level)) = RefContent(args, level, Hashed(level), Zero)
<1> DEFINE p == Pending(level)
           h == HashesPerBlock
           n == Hashed(level)
<1>1. /\ Hashing /\ level \in 0 .. num_levels - 1 /\ FirstOpen <= level
      /\ Hashed(level - 1) <= nblocks[level - 1] /\ p \in 1 .. h /\ UsedSlots(level) = p
      /\ p = h \/ Hashed(level - 1) = nblocks[level - 1]
  BY FinishWhat
<1>2. num_levels \in 0 .. MaxLevels /\ h \in Nat \ {0}
  BY <1>1, HashingFacts
<1>3. level \in -1 .. num_levels - 1 /\ level - 1 \in -1 .. num_levels - 1 /\ level # -1
  BY <1>1, <1>2
<1>4. /\ n \in Nat /\ Hashed(level - 1) \in Nat /\ nblocks[level - 1] \in Nat
      /\ nblocks[level - 1] = RefBlocks(args, level - 1)
  BY <1>1, <1>3, HashingFacts
<1>5. DOMAIN data[level] = 0 .. h - 1
  <2>1. data[level] \in Blocks(level)
    BY <1>1, <1>3 DEF IInv, Allocated
  <2> QED
    BY <1>3, <2>1 DEF Blocks, Slots
<1>6. h = RefHashesPerBlock(args)
  BY DEF HashesPerBlock, RefHashesPerBlock
<1>7. \A i \in 0 .. p - 1 : data[level][i] = <<level - 1, h * n + i>>
  <2>1. level \in FirstOpen .. num_levels - 1
    <3>1. FirstOpen \in Int
      BY DEF FirstOpen, IInv, TypeOK, LocalsOK, Levels
    <3> QED
      BY <1>1, <1>2, <3>1
  <2> QED
    BY <1>1, <2>1 DEF PendingRef
<1>8. Hashed(level - 1) = h * n + p
  <2>1. p = Hashed(level - 1) - h * n
    BY DEF Pending
  <2>2. h * n \in Nat
    BY <1>2, <1>4
  <2> QED
    BY <1>1, <1>2, <1>4, <2>1, <2>2
<1> HIDE DEF p, h, n
<1>9. ASSUME NEW i \in 0 .. h - 1
      PROVE  (IF i < p THEN data[level][i] ELSE Zero)
               = (IF n * h + i < RefBlocks(args, level - 1) THEN <<level - 1, n * h + i>> ELSE Zero)
  <2>1. n * h = h * n /\ h * n \in Nat
    BY <1>2, <1>4
  <2>2. i < p <=> n * h + i < RefBlocks(args, level - 1)
    BY <1>1, <1>2, <1>4, <1>8, <2>1
  <2>3. i < p => i \in 0 .. p - 1
    BY <1>1, <1>2
  <2> QED
    BY Zenon, <1>7, <2>1, <2>2, <2>3
<1> DEFINE got == Padded(data[level], UsedSlots(level))
<1>10. got = [i \in 0 .. h - 1 |-> IF i < p THEN data[level][i] ELSE Zero]
  BY <1>1, <1>5 DEF Padded
<1>11. RefContent(args, level, n, Zero)
        = [i \in 0 .. h - 1 |-> IF n * h + i < RefBlocks(args, level - 1)
                                THEN <<level - 1, n * h + i>> ELSE Zero]
  BY <1>3, <1>6 DEF RefContent
<1>12. got = RefContent(args, level, n, Zero)
  BY Zenon, <1>9, <1>10, <1>11
<1> QED
  BY <1>12 DEF n

\* A data block that was read is the next one of the file.
LEMMA ReadContent ==
  ASSUME IInv, IInv', ReadRef, ReadBlock
  PROVE  Padded([i \in Slots(-1) |-> IF i < ReadCount THEN pos + i ELSE data[-1][i]], ReadCount)
           = RefContent(args, -1, Hashed(-1), Zero)
<1> DEFINE size == args.file_size
           bs == args.block_size
           n == Hashed(-1)
<1>1. pc = "read" /\ offset < size /\ args \in Calls /\ offset \in Nat
  BY DEF ReadBlock, IInv, TypeOK, LocalsOK
<1>2. size \in Nat /\ bs \in Nat
  BY <1>1, CallFacts
<1>3. pos = offset
  BY <1>1 DEF ReadRef
<1>4. offset = bs * n /\ n \in Nat
  <2>1. -1 \in DOMAIN tree /\ tree[-1] \in Seq(Blocks(-1))
    BY WidthAssumption DEF IInv, TypeOK, TreeOK
  <2> QED
    BY <1>1, <2>1, SeqLength DEF IInv, PendingCounts, Hashing, Hashed
<1>5. ReadCount = IF bs < size - offset THEN bs ELSE size - offset
  BY DEF ReadCount
<1>6. Slots(-1) = 0 .. bs - 1
  BY DEF Slots
<1> DEFINE block == [i \in Slots(-1) |-> IF i < ReadCount THEN pos + i ELSE data[-1][i]]
<1>7. DOMAIN block = 0 .. bs - 1 /\ \A i \in 0 .. bs - 1 : i < ReadCount => block[i] = pos + i
  BY Zenon, <1>6
<1>8. RefContent(args, -1, n, Zero)
        = [i \in 0 .. bs - 1 |-> IF n * bs + i < size THEN n * bs + i ELSE Zero]
  BY DEF RefContent
<1> HIDE DEF size, bs, n, block
<1>9. ASSUME NEW i \in 0 .. bs - 1
      PROVE  (IF i < ReadCount THEN block[i] ELSE Zero) = (IF n * bs + i < size THEN n * bs + i ELSE Zero)
  <2>1. n * bs = offset
    BY <1>2, <1>4
  <2>2. i < ReadCount <=> offset + i < size
    BY <1>1, <1>2, <1>5
  <2> QED
    BY Zenon, <1>3, <1>7, <2>1, <2>2
<1>10. Padded(block, ReadCount) = [i \in 0 .. bs - 1 |-> IF i < ReadCount THEN block[i] ELSE Zero]
  BY Zenon, <1>7 DEF Padded
<1>11. Padded(block, ReadCount) = RefContent(args, -1, n, Zero)
  BY Zenon, <1>8, <1>9, <1>10
<1> QED
  BY <1>11 DEF block, n

----------------------------------------------------------------------------
\* Each step keeps the buffers, the reading position and the tree as they are
\* in the reference.

LEMMA HashPendingRef ==
  ASSUME IInv, LevelsRef, PendingRef, Hashing, args' = args, num_levels' = num_levels,
         NEW cur \in -1 .. num_levels - 1, NEW block \in Blocks(cur), NEW used \in Nat,
         HashOneBlock(cur, block, used), FirstOpen <= cur + 1,
         Hashed(cur) < nblocks[cur],
         cur + 1 < num_levels =>
           /\ Pending(cur + 1) \in 0 .. HashesPerBlock - 1
           /\ filled[cur + 1] = args.digest_size * Pending(cur + 1),
         FirstOpen' \in Nat, FirstOpen <= FirstOpen',
         cur >= FirstOpen' => Pending(cur) = HashesPerBlock
  PROVE  PendingRef'
<1>1. num_levels \in 0 .. MaxLevels /\ HashesPerBlock \in Nat \ {0} /\ HashesPerBlock' = HashesPerBlock
  BY HashingFacts, SameArgs
<1>2. /\ cur + 1 < num_levels => \A i \in 0 .. Pending(cur + 1) :
           data'[cur + 1][i] = <<cur, HashesPerBlock * Hashed(cur + 1) + i>>
      /\ cur + 1 = num_levels => data'[num_levels][0] = <<num_levels - 1, 0>>
      /\ \A l \in Levels \ {cur, cur + 1} : data'[l] = data[l]
  BY HashData
<1>3. /\ \A l \in 0 .. num_levels - 1 : Pending(l) \in Int
      /\ \A l \in (0 .. num_levels - 1) \ {cur, cur + 1} : Pending(l)' = Pending(l)
      /\ cur + 1 < num_levels => Pending(cur + 1)' = Pending(cur + 1) + 1
      /\ cur >= 0 => Pending(cur)' = Pending(cur) - HashesPerBlock
  BY HashPending
<1>4. \A l \in -1 .. num_levels - 1 :
        /\ Hashed(l) \in Nat
        /\ Hashed(l)' = IF l = cur THEN Hashed(l) + 1 ELSE Hashed(l)
  BY HashFacts
<1>5. FirstOpen \in Int
  BY DEF FirstOpen, IInv, TypeOK, LocalsOK, Levels
<1>6. ASSUME NEW l \in FirstOpen' .. num_levels - 1, NEW i \in 0 .. Pending(l)' - 1
      PROVE  data'[l][i] = <<l - 1, HashesPerBlock * Hashed(l)' + i>>
  <2>1. /\ l \in 0 .. num_levels - 1 /\ l \in -1 .. num_levels - 1 /\ l \in Levels
        /\ l \in FirstOpen .. num_levels - 1
    BY <1>1, <1>5, WidthAssumption DEF Levels
  <2>2. CASE l = cur
    <3>1. cur >= 0 /\ cur >= FirstOpen'
      BY <2>1, <2>2
    <3>2. Pending(cur)' = HashesPerBlock - HashesPerBlock
      BY <1>3, <3>1
    <3>3. Pending(cur)' = 0
      BY <1>1, <3>2
    <3> QED
      BY <2>2, <3>3
  <2>3. CASE l = cur + 1
    <3>1. cur + 1 < num_levels /\ l - 1 = cur /\ l # cur
      BY <1>1, <2>1, <2>3
    <3>2. Pending(l)' = Pending(l) + 1 /\ Pending(l) \in Int
      BY <1>3, <2>1, <2>3, <3>1
    <3>3. i \in 0 .. Pending(l)
      BY <3>2
    <3>4. Hashed(l)' = Hashed(l)
      BY Zenon, <1>4, <2>1, <3>1
    <3>5. data'[l][i] = <<cur, HashesPerBlock * Hashed(l) + i>>
      BY Zenon, <1>2, <2>3, <3>1, <3>3
    <3> QED
      BY Zenon, <3>1, <3>4, <3>5
  <2>4. CASE l \notin {cur, cur + 1}
    <3>1. Pending(l)' = Pending(l) /\ Hashed(l)' = Hashed(l) /\ data'[l] = data[l]
      BY Zenon, <1>2, <1>3, <1>4, <2>1, <2>4
    <3>2. i \in 0 .. Pending(l) - 1
      BY Zenon, <3>1
    <3>3. data[l][i] = <<l - 1, HashesPerBlock * Hashed(l) + i>>
      BY Zenon, <2>1, <3>2 DEF PendingRef
    <3> QED
      BY Zenon, <3>1, <3>3
  <2> QED
    BY Zenon, <2>2, <2>3, <2>4
<1>7. ASSUME Hashed(num_levels - 1)' > 0
      PROVE  data'[num_levels][0] = <<num_levels - 1, 0>>
  <2>1. CASE cur = num_levels - 1
    BY <1>1, <1>2, <2>1
  <2>2. CASE cur # num_levels - 1
    <3>1. /\ num_levels - 1 \in -1 .. num_levels - 1 /\ num_levels - 1 # cur
          /\ num_levels \in Levels \ {cur, cur + 1}
      BY <1>1, <2>2, WidthAssumption DEF Levels
    <3>2. Hashed(num_levels - 1)' = Hashed(num_levels - 1) /\ data'[num_levels] = data[num_levels]
      BY Zenon, <1>2, <1>4, <3>1
    <3>3. data[num_levels][0] = <<num_levels - 1, 0>>
      BY <1>7, <3>2 DEF PendingRef
    <3> QED
      BY Zenon, <3>2, <3>3
  <2> QED
    BY <2>1, <2>2
<1>8. (\A l \in FirstOpen .. num_levels - 1 : \A i \in 0 .. Pending(l) - 1 :
         data[l][i] = <<l - 1, HashesPerBlock * Hashed(l) + i>>)'
  BY Zenon, <1>1, <1>6
<1>9. (Hashed(num_levels - 1) > 0 => data[num_levels][0] = <<num_levels - 1, 0>>)'
  BY Zenon, <1>7
<1> QED
  BY Zenon, <1>8, <1>9 DEF PendingRef

LEMMA PaddedBlock ==
  ASSUME NEW l, NEW block \in Blocks(l), NEW used
  PROVE  Padded(block, used) \in Blocks(l)
<1>1. Zero \in Cells(l)
  BY DEF Cells
<1>2. DOMAIN block = Slots(l) /\ \A i \in Slots(l) : block[i] \in Cells(l)
  BY Zenon DEF Blocks
<1>3. \A i \in Slots(l) : (IF i < used THEN block[i] ELSE Zero) \in Cells(l)
  BY Zenon, <1>1, <1>2
<1> QED
  BY Zenon, <1>2, <1>3 DEF Padded, Blocks

\* The data buffer after read_fn has filled it.
ReadData == [i \in Slots(-1) |-> IF i < ReadCount THEN pos + i ELSE data[-1][i]]

LEMMA ReadWhat ==
  ASSUME IInv, IInv', ReadBlock
  PROVE  /\ pc = "read" /\ pc' = "cascade" /\ Hashing /\ Hashing' /\ FirstOpen = 0 /\ FirstOpen' = 0
         /\ args' = args /\ num_levels' = num_levels /\ args \in Calls /\ num_levels \in 0 .. MaxLevels
         /\ -1 \in -1 .. num_levels - 1 /\ ReadData \in Blocks(-1) /\ ReadCount \in Nat
         /\ HashOneBlock(-1, ReadData, ReadCount)
         /\ Hashed(-1) < nblocks[-1]
         /\ 0 < num_levels =>
              /\ Pending(0) \in 0 .. HashesPerBlock - 1
              /\ filled[0] = args.digest_size * Pending(0)
<1>1. /\ pc = "read" /\ pc' = "cascade" /\ Hashing /\ Hashing'
      /\ args \in Calls /\ num_levels \in 0 .. MaxLevels /\ pos \in Nat /\ offset < args.file_size
      /\ HashOneBlock(-1, ReadData, ReadCount)
      /\ args' = args /\ num_levels' = num_levels /\ nblocks' = nblocks
  BY DEF ReadBlock, Goto, IInv, TypeOK, LocalsOK, Hashing, ReadData
<1>2. -1 \in -1 .. num_levels - 1 /\ FirstOpen = 0 /\ FirstOpen' = 0
  BY <1>1 DEF FirstOpen
<1>3. ReadCount \in Nat
  BY <1>1, ReadCountFacts
<1>4. ReadData \in Blocks(-1)
  <2>1. data[-1] \in Blocks(-1)
    BY <1>1, <1>2 DEF IInv, Allocated
  <2>2. Slots(-1) = 0 .. args.block_size - 1
    BY DEF Slots
  <2>3. \A i \in Slots(-1) : pos + i \in Nat
    <3>1. pos \in Nat
      BY Zenon, <1>1
    <3>2. \A i \in Slots(-1) : i \in Nat
      <4>1. \A b \in Nat : \A i \in 0 .. b - 1 : i \in Nat
        OBVIOUS
      <4>2. args.block_size \in Nat \ {0}
        BY Zenon, <1>1, CallFacts
      <4>3. args.block_size \in Nat
        BY <4>2
      <4> QED
        BY Zenon, <2>2, <4>1, <4>3
    <3>3. \A m, n \in Nat : m + n \in Nat
      OBVIOUS
    <3> QED
      BY Zenon, <3>1, <3>2, <3>3
  <2>4. Cells(-1) = {Zero} \cup Nat
    BY DEF Cells
  <2> QED
    BY <2>1, <2>3, <2>4 DEF Blocks, ReadData
<1>5. Hashed(-1) < nblocks[-1]
  <2>1. Hashed(-1) \in Nat /\ Hashed(-1)' = Hashed(-1) + 1
    BY <1>1, <1>2, <1>3, <1>4, HashFacts
  <2>2. Hashed(-1)' <= nblocks'[-1]
    BY <1>1, <1>2 DEF IInv, PendingCounts
  <2>3. nblocks[-1] \in Nat
    BY WidthAssumption DEF IInv, TypeOK, LocalsOK
  <2> QED
    BY <1>1, <2>1, <2>2, <2>3
<1>6. ASSUME 0 < num_levels
      PROVE  /\ Pending(0) \in 0 .. HashesPerBlock - 1
             /\ filled[0] = args.digest_size * Pending(0)
  <2>1. 0 \in FirstOpen .. num_levels - 1 /\ 0 \in 0 .. num_levels - 1
    BY <1>1, <1>2, <1>6
  <2>2. /\ 0 <= Pending(0) /\ Pending(0) < HashesPerBlock
        /\ filled[0] = args.digest_size * Pending(0)
    BY <1>1, <2>1 DEF IInv, PendingCounts
  <2>3. Pending(0) \in Int
    BY <1>1, <1>2, <1>3, <1>4, <2>1, HashPending
  <2>4. HashesPerBlock \in Nat
    BY <1>1, CallFacts
  <2> QED
    BY <2>2, <2>3, <2>4
<1> QED
  BY <1>1, <1>2, <1>3, <1>4, <1>5, <1>6

LEMMA ReadShape ==
  ASSUME IInv, IInv', ShapeInv, ReadBlock
  PROVE  PendingRef' /\ TreeShape'
<1>1. /\ Hashing /\ FirstOpen = 0 /\ FirstOpen' = 0 /\ args' = args /\ num_levels' = num_levels
      /\ -1 \in -1 .. num_levels - 1 /\ ReadData \in Blocks(-1) /\ ReadCount \in Nat
      /\ HashOneBlock(-1, ReadData, ReadCount) /\ Hashed(-1) < nblocks[-1]
      /\ 0 < num_levels =>
           /\ Pending(0) \in 0 .. HashesPerBlock - 1
           /\ filled[0] = args.digest_size * Pending(0)
  BY ReadWhat
<1>2. LevelsRef /\ PendingRef /\ ReadRef /\ TreeShape
  BY DEF ShapeInv
<1>3. PendingRef'
  <2>1. -1 + 1 = 0 /\ ~(-1 >= 0) /\ 0 \in Nat /\ 0 <= 0
    OBVIOUS
  <2>2. FirstOpen <= -1 + 1 /\ FirstOpen' \in Nat /\ FirstOpen <= FirstOpen'
    BY <1>1, <2>1
  <2>3. -1 >= FirstOpen' => Pending(-1) = HashesPerBlock
    BY <1>1, <2>1
  <2> QED
    BY <1>1, <1>2, <2>1, <2>2, <2>3, HashPendingRef
<1>4. TreeShape'
  <2> DEFINE e == Padded(ReadData, ReadCount)
  <2>1. e = RefContent(args, -1, Hashed(-1), Zero)
    BY <1>2, ReadContent DEF ReadData
  <2>2. tree' = [tree EXCEPT ![-1] = Append(@, e)]
    BY <1>1 DEF HashOneBlock
  <2>3. e \in Blocks(-1)
    BY <1>1, PaddedBlock
  <2> HIDE DEF e
  <2> QED
    BY Zenon, <1>1, <1>2, <2>1, <2>2, <2>3, HashShape
<1> QED
  BY <1>3, <1>4

LEMMA FinishShape ==
  ASSUME IInv, IInv', ShapeInv, Cascade \/ Flush
  PROVE  PendingRef' /\ TreeShape'
<1>1. /\ pc \in {"cascade", "flush"} /\ Hashing /\ FinishBlock(pc)
      /\ level < num_levels /\ level \in 0 .. num_levels - 1 /\ FirstOpen <= level
      /\ Hashed(level) < nblocks[level]
      /\ Pending(level) \in 1 .. HashesPerBlock
  BY FinishWhat
<1>2. /\ args' = args /\ num_levels' = num_levels
      /\ pc' = "out" \/ (pc' = pc /\ level' = level + 1)
      /\ data[level] \in Blocks(level) /\ UsedSlots(level) \in Nat
      /\ HashOneBlock(level, data[level], UsedSlots(level))
  BY <1>1, FinishBlockFacts
<1>3. LevelsRef /\ PendingRef /\ ReadRef /\ TreeShape
  BY DEF ShapeInv
<1>4. num_levels \in 0 .. MaxLevels /\ HashesPerBlock \in Nat \ {0}
  BY <1>1, <1>3, HashingFacts
<1>5. level \in -1 .. num_levels - 1
  BY <1>1, <1>4
<1>6. ASSUME pc' = "out" PROVE PendingRef'
  BY <1>6 DEF PendingRef, Hashing
<1>7. ASSUME pc' = pc, level' = level + 1 PROVE PendingRef'
  <2>1. level + 1 < num_levels => level + 1 \in FirstOpen .. num_levels - 1 /\ level + 1 # level
                                  /\ level + 1 \in 0 .. num_levels - 1
    <3>1. FirstOpen \in Int
      BY DEF FirstOpen, IInv, TypeOK, LocalsOK, Levels
    <3> QED
      BY <1>1, <1>4, <3>1
  <2>2. level + 1 < num_levels =>
          /\ Pending(level + 1) \in 0 .. HashesPerBlock - 1
          /\ filled[level + 1] = args.digest_size * Pending(level + 1)
    <3>1. SUFFICES ASSUME level + 1 < num_levels
                   PROVE  /\ Pending(level + 1) \in 0 .. HashesPerBlock - 1
                          /\ filled[level + 1] = args.digest_size * Pending(level + 1)
      OBVIOUS
    <3>2. /\ 0 <= Pending(level + 1) /\ Pending(level + 1) < HashesPerBlock
          /\ filled[level + 1] = args.digest_size * Pending(level + 1)
      BY Zenon, <1>1, <2>1, <3>1 DEF IInv, PendingCounts
    <3>3. Pending(level + 1) \in Int
      BY <1>1, <1>3, <2>1, <3>1, HashingFacts
    <3> QED
      BY <1>4, <3>2, <3>3
  <2>3. CASE pc = "cascade"
    <3>1. FirstOpen = 0 /\ FirstOpen' = 0
      BY <1>7, <2>3 DEF FirstOpen
    <3>2. Pending(level) = HashesPerBlock
      <4>1. Cascade
        BY <2>3 DEF Flush
      <4> QED
        BY <4>1, CascadeFacts
    <3>3. FirstOpen <= level + 1 /\ FirstOpen' \in Nat /\ FirstOpen <= FirstOpen'
      BY <1>1, <1>4, <3>1
    <3> QED
      BY <1>1, <1>2, <1>3, <1>5, <2>2, <3>2, <3>3, HashPendingRef
  <2>4. CASE pc = "flush"
    <3>1. FirstOpen = level /\ FirstOpen' = level + 1
      BY <1>7, <2>4 DEF FirstOpen
    <3>2. /\ FirstOpen <= level + 1 /\ FirstOpen' \in Nat /\ FirstOpen <= FirstOpen'
          /\ ~(level >= FirstOpen')
      BY <1>1, <1>4, <3>1
    <3> QED
      BY <1>1, <1>2, <1>3, <1>5, <2>2, <3>2, HashPendingRef
  <2> QED
    BY <1>1, <2>3, <2>4
<1>8. PendingRef'
  BY <1>2, <1>6, <1>7
<1>9. TreeShape'
  <2> DEFINE e == Padded(data[level], UsedSlots(level))
  <2>1. e = RefContent(args, level, Hashed(level), Zero)
    BY <1>3, FinishContent
  <2>2. tree' = [tree EXCEPT ![level] = Append(@, e)]
    BY <1>2 DEF HashOneBlock
  <2>3. e \in Blocks(level)
    BY <1>2, PaddedBlock
  <2> HIDE DEF e
  <2> QED
    BY Zenon, <1>1, <1>2, <1>3, <1>5, <2>1, <2>2, <2>3, HashShape
<1> QED
  BY <1>8, <1>9

LEMMA ArgsKept ==
  ASSUME [Next]_vars
  PROVE  args' = args
<1>1. CASE StartEmpty \/ AllocSaltFails \/ Start \/ CountLevel \/ LevelsCounted \/ PlaceLevel \/ LayoutDone
  BY <1>1 DEF StartEmpty, AllocSaltFails, Start, CountLevel, LevelsCounted, PlaceLevel, LayoutDone,
     locals, buffers, outside, history
<1>2. CASE AllocBuffer \/ AllocDone \/ ReadBlock \/ ReadFails \/ Cascade \/ CascadeDone \/ EndOfData
  BY Zenon, <1>2 DEF AllocBuffer, AllocDone, ReadBlock, ReadFails, Cascade, CascadeDone, EndOfData, FinishBlock,
     locals, buffers, outside, history
<1>3. CASE Flush \/ FlushNothing \/ CheckRoot \/ Out \/ Returned \/ UNCHANGED vars
  BY <1>3 DEF Flush, FlushNothing, CheckRoot, Out, Returned, FinishBlock, vars,
     locals, buffers, outside, history
<1> QED
  BY Zenon, <1>1, <1>2, <1>3 DEF Next, Step

\* The position in the file.
LEMMA ReadStep ==
  ASSUME IInv, IInv', ReadRef, [Next]_vars
  PROVE  ReadRef'
<1>1. args \in Calls /\ offset \in Nat /\ pos \in Nat /\ args' = args
  BY ArgsKept DEF IInv, TypeOK, LocalsOK
<1>0. pc' \in {"out", "done"} => ReadRef'
  BY DEF ReadRef
<1>2. args.file_size \in Nat /\ args.block_size \in Nat \ {0}
  BY <1>1, CallFacts
<1>3. CASE StartEmpty \/ AllocSaltFails
  <2>1. pc' = "done"
    BY Zenon, <1>3 DEF StartEmpty, AllocSaltFails, ReportSize, Goto, Leave
  <2> QED
    BY <1>0, <2>1
<1>4. CASE Start \/ LevelsCounted \/ PlaceLevel
  BY <1>4 DEF Start, LevelsCounted, PlaceLevel, Goto, ReadRef, outside
<1>5. CASE CountLevel
  BY <1>5 DEF CountLevel, Goto, Leave, ReadRef, outside
<1>6. CASE LayoutDone
  <2>1. pc = "layout" /\ pos' = pos /\ (pc' = "alloc" \/ pc' = "out")
    BY Zenon, <1>6 DEF LayoutDone, ReportSize, Goto, Leave
  <2> QED
    BY <2>1 DEF ReadRef
<1>7. CASE AllocBuffer
  BY <1>7 DEF AllocBuffer, Goto, Leave, ReadRef, outside
<1>8. CASE AllocDone
  <2>1. pc = "alloc" /\ pc' = "read" /\ offset' = 0 /\ pos' = pos
    BY <1>8 DEF AllocDone, Goto, outside
  <2>2. pos' = 0
    BY <2>1 DEF ReadRef
  <2>3. (pos = IF offset < args.file_size THEN offset ELSE args.file_size)'
    BY <1>1, <1>2, <2>1, <2>2
  <2> QED
    BY <2>1, <2>3 DEF ReadRef
<1>9. CASE ReadBlock
  <2>1. /\ pc = "read" /\ pc' = "cascade" /\ offset' = offset /\ pos' = pos + ReadCount
        /\ offset < args.file_size
    BY <1>9 DEF ReadBlock, Goto
  <2>2. pos = offset
    BY <2>1 DEF ReadRef
  <2>3. (pos = IF offset + args.block_size < args.file_size
               THEN offset + args.block_size ELSE args.file_size)'
    BY <1>1, <1>2, <2>1, <2>2 DEF ReadCount
  <2> QED
    BY <2>1, <2>3 DEF ReadRef
<1>10. CASE ReadFails \/ CheckRoot \/ Out
  <2>1. pc' = "out" \/ pc' = "done"
    BY Zenon, <1>10 DEF ReadFails, CheckRoot, Out, Goto, Leave
  <2> QED
    BY <1>0, <2>1
<1>11. CASE Cascade \/ Flush
  <2>1. /\ pc \in {"cascade", "flush"} /\ pos' = pos /\ offset' = offset
        /\ pc' = pc \/ pc' = "out"
    <3>1. pc \in {"cascade", "flush"} /\ FinishBlock(pc)
      BY <1>11 DEF Cascade, Flush
    <3> QED
      BY Zenon, <3>1 DEF FinishBlock, ReportBlock, Goto, Leave
  <2>2. CASE pc' = "out"
    BY <2>2 DEF ReadRef
  <2>3. CASE pc' = pc
    BY Zenon, <1>1, <2>1, <2>3 DEF ReadRef
  <2> QED
    BY <2>1, <2>2, <2>3
<1>12. CASE CascadeDone
  <2>1. pc = "cascade" /\ pc' = "read" /\ pos' = pos /\ offset' = (offset + args.block_size) % Word
    BY <1>12 DEF CascadeDone, Goto, outside
  <2>2. offset < args.file_size
    BY <2>1 DEF IInv, PendingCounts, Hashing
  <2>3. Word \in Nat \ {0} /\ args.file_size + args.block_size <= Word
    BY <1>1, CallFacts
  <2>4. offset' = offset + args.block_size
    <3>1. offset + args.block_size < Word /\ offset + args.block_size \in Nat
      BY <1>1, <1>2, <2>2, <2>3
    <3>2. \A x \in Nat : \A w \in Nat \ {0} : x < w => x % w = x
      OBVIOUS
    <3> QED
      BY <2>1, <2>3, <3>1, <3>2
  <2>5. pos = IF offset + args.block_size < args.file_size
              THEN offset + args.block_size ELSE args.file_size
    BY <2>1 DEF ReadRef
  <2>6. pos' = IF offset' < args'.file_size THEN offset' ELSE args'.file_size
    BY Zenon, <1>1, <2>1, <2>4, <2>5
  <2> QED
    BY <2>1, <2>6 DEF ReadRef
<1>13. CASE EndOfData
  <2>1. pc = "read" /\ pc' = "flush" /\ pos' = pos /\ offset >= args.file_size
    BY <1>13 DEF EndOfData, Goto, outside
  <2>2. pos = args.file_size
    <3>1. ~(offset < args.file_size)
      BY <1>1, <1>2, <2>1
    <3> QED
      BY <2>1, <3>1 DEF ReadRef
  <2> QED
    BY <1>1, <2>1, <2>2 DEF ReadRef
<1>14. CASE FlushNothing
  BY <1>1, <1>14 DEF FlushNothing, Goto, ReadRef, outside
<1>15. CASE Returned \/ UNCHANGED vars
  BY Zenon, <1>15 DEF Returned, vars, locals, outside, ReadRef
<1> QED
  BY <1>3, <1>4, <1>5, <1>6, <1>7, <1>8, <1>9, <1>10, <1>11, <1>12, <1>13, <1>14, <1>15 DEF Next, Step

\* The steps that hash nothing.
LEMMA TreeKept ==
  ASSUME [Next]_vars, ~ReadBlock, ~Cascade, ~Flush
  PROVE  tree' = tree
<1>1. CASE StartEmpty \/ AllocSaltFails \/ Start \/ CountLevel \/ LevelsCounted \/ PlaceLevel \/ LayoutDone
  BY Zenon, <1>1 DEF StartEmpty, AllocSaltFails, Start, CountLevel, LevelsCounted, PlaceLevel, LayoutDone, history
<1>2. CASE AllocBuffer \/ AllocDone \/ ReadFails \/ CascadeDone \/ EndOfData
  BY Zenon, <1>2 DEF AllocBuffer, AllocDone, ReadFails, CascadeDone, EndOfData, history
<1>3. CASE FlushNothing \/ CheckRoot \/ Out \/ Returned \/ UNCHANGED vars
  BY Zenon, <1>3 DEF FlushNothing, CheckRoot, Out, Returned, vars, history
<1> QED
  BY Zenon, <1>1, <1>2, <1>3 DEF Next, Step

LEMMA SamePending ==
  ASSUME IInv, PendingRef, Hashing, args' = args,
         num_levels' = num_levels, data' = data, tree' = tree,
         FirstOpen' \in Int, FirstOpen <= FirstOpen'
  PROVE  PendingRef'
<1>1. /\ \A l : Hashed(l)' = Hashed(l) /\ Pending(l)' = Pending(l)
      /\ HashesPerBlock' = HashesPerBlock
  BY SameArgs DEF Hashed, Pending
<1>2. \A l \in FirstOpen' .. num_levels - 1 : l \in FirstOpen .. num_levels - 1
  <2>1. FirstOpen \in Int /\ num_levels \in Int
    BY DEF FirstOpen, IInv, TypeOK, LocalsOK, Levels
  <2> QED
    BY <2>1
<1>3. (\A l \in FirstOpen .. num_levels - 1 : \A i \in 0 .. Pending(l) - 1 :
         data[l][i] = <<l - 1, HashesPerBlock * Hashed(l) + i>>)'
  BY Zenon, <1>1, <1>2 DEF PendingRef
<1>4. (Hashed(num_levels - 1) > 0 => data[num_levels][0] = <<num_levels - 1, 0>>)'
  <2>1. Hashed(num_levels - 1)' = Hashed(num_levels - 1)
    BY Zenon, <1>1
  <2> QED
    BY Zenon, <2>1 DEF PendingRef
<1> QED
  BY Zenon, <1>3, <1>4 DEF PendingRef

LEMMA AllocPending ==
  ASSUME IInv, AllocDone
  PROVE  PendingRef'
<1>1. pc = "alloc" /\ args' = args /\ num_levels' = num_levels /\ tree' = tree
  BY Zenon DEF AllocDone, history
<1>2. num_levels \in 0 .. MaxLevels /\ args \in Calls /\ tree = [l \in -1 .. MaxLevels - 1 |-> <<>>]
  BY <1>1 DEF IInv, TypeOK, LocalsOK, NothingYet
<1>3. \A l \in -1 .. num_levels - 1 : Hashed(l)' = 0
  <2>1. \A l \in -1 .. num_levels - 1 : l \in -1 .. MaxLevels - 1
    BY <1>2, WidthAssumption
  <2>2. Len(<<>>) = 0
    OBVIOUS
  <2> QED
    BY <1>1, <1>2, <2>1, <2>2 DEF Hashed
<1>4. HashesPerBlock' \in Nat
  BY <1>1, <1>2, CallFacts, SameArgs
<1>5. FirstOpen' = 0
  BY DEF AllocDone, Goto, FirstOpen
<1>6. \A l \in 0 .. num_levels - 1 : Pending(l)' = 0
  <2>1. \A l \in 0 .. num_levels - 1 : l \in -1 .. num_levels - 1 /\ l - 1 \in -1 .. num_levels - 1
    BY <1>2
  <2>2. \A h \in Nat : 0 - h * 0 = 0
    OBVIOUS
  <2>3. \A l : Pending(l)' = Hashed(l - 1)' - HashesPerBlock' * Hashed(l)'
    BY DEF Pending
  <2>4. 0 - HashesPerBlock' * 0 = 0
    BY Zenon, <1>4, <2>2
  <2> QED
    BY Zenon, <1>3, <2>1, <2>3, <2>4
<1>7. (\A l \in FirstOpen .. num_levels - 1 : \A i \in 0 .. Pending(l) - 1 :
         data[l][i] = <<l - 1, HashesPerBlock * Hashed(l) + i>>)'
  <2>1. ASSUME NEW l \in FirstOpen' .. num_levels' - 1 PROVE 0 .. Pending(l)' - 1 = {}
    <3>1. Pending(l)' = 0
      BY <1>1, <1>5, <1>6
    <3>2. 0 .. 0 - 1 = {}
      OBVIOUS
    <3> QED
      BY Zenon, <3>1, <3>2
  <2> QED
    BY Zenon, <2>1
<1>8. (~(Hashed(num_levels - 1) > 0))'
  <2>1. num_levels - 1 \in -1 .. num_levels - 1
    BY <1>2
  <2> QED
    BY <1>1, <1>3, <2>1
<1> QED
  BY Zenon, <1>7, <1>8 DEF PendingRef

LEMMA PendingStep ==
  ASSUME IInv, IInv', ShapeInv, [Next]_vars
  PROVE  PendingRef'
<1>1. args' = args /\ PendingRef
  BY ArgsKept DEF ShapeInv
<1>0. FirstOpen \in Int /\ level \in Int /\ num_levels \in Int
  BY DEF FirstOpen, IInv, TypeOK, LocalsOK, Levels
<1>2. ~Hashing' => PendingRef'
  BY DEF PendingRef
<1>3. CASE StartEmpty \/ AllocSaltFails \/ Start \/ CountLevel \/ LevelsCounted \/ PlaceLevel \/ LayoutDone
  <2>1. pc' = "done" \/ pc' = "levels" \/ pc' = "out" \/ pc' = "layout" \/ pc' = "alloc"
    BY Zenon, <1>3 DEF StartEmpty, AllocSaltFails, Start, CountLevel, LevelsCounted, PlaceLevel,
       LayoutDone, ReportSize, Goto, Leave
  <2> QED
    BY <1>2, <2>1 DEF Hashing
<1>4. CASE AllocBuffer \/ ReadFails \/ CheckRoot \/ Out \/ Returned
  <2>1. pc' = "alloc" \/ pc' = "out" \/ pc' = "done"
    BY Zenon, <1>4 DEF AllocBuffer, ReadFails, CheckRoot, Out, Returned, vars, Goto, Leave
  <2> QED
    BY <1>2, <2>1 DEF Hashing
<1>5. CASE CascadeDone \/ EndOfData
  <2>1. /\ pc \in {"cascade", "read"} /\ pc' \in {"read", "flush"}
        /\ pc' = "flush" => level' = 0
        /\ num_levels' = num_levels /\ data' = data /\ tree' = tree
    BY <1>5 DEF CascadeDone, EndOfData, Goto, buffers, outside, history
  <2>2. FirstOpen = 0 /\ FirstOpen' = 0 /\ Hashing
    BY <2>1 DEF FirstOpen, Hashing
  <2> QED
    BY <1>1, <2>1, <2>2, SamePending
<1>6. CASE FlushNothing
  <2>1. /\ pc = "flush" /\ pc' = "flush" /\ level' = level + 1
        /\ num_levels' = num_levels /\ data' = data /\ tree' = tree
    BY <1>6 DEF FlushNothing, Goto, buffers, outside, history
  <2>2. FirstOpen = level /\ FirstOpen' = level + 1 /\ Hashing
    BY <2>1 DEF FirstOpen, Hashing
  <2>3. FirstOpen' \in Int /\ FirstOpen <= FirstOpen'
    BY <1>0, <2>2
  <2> QED
    BY <1>1, <2>1, <2>2, <2>3, SamePending
<1>7. CASE UNCHANGED vars
  <2>1. pc' = pc /\ level' = level /\ num_levels' = num_levels /\ data' = data /\ tree' = tree
    BY <1>7 DEF vars, locals, buffers, outside, history
  <2>2. FirstOpen' = FirstOpen /\ Hashing' = Hashing
    BY <2>1 DEF FirstOpen, Hashing
  <2>3. FirstOpen' \in Int /\ FirstOpen <= FirstOpen'
    BY <1>0, <2>2
  <2> QED
    BY <1>1, <1>2, <2>1, <2>2, <2>3, SamePending
<1>8. CASE ReadBlock \/ Cascade \/ Flush \/ AllocDone
  BY Zenon, <1>8, ReadShape, FinishShape, AllocPending
<1> QED
  BY Zenon, <1>3, <1>4, <1>5, <1>6, <1>7, <1>8 DEF Next, Step

\* How the call ends.
LEMMA CheckRootWhole ==
  ASSUME IInv, ShapeInv, CheckRoot
  PROVE  WholeTree'
<1>1. /\ pc = "flush" /\ level >= num_levels
      /\ UNCHANGED <<args, num_levels, data, tree, pos>>
  BY Zenon DEF CheckRoot, locals, buffers, outside, history
<1>2. Hashing /\ level \in 0 .. num_levels /\ num_levels \in 0 .. MaxLevels
  BY <1>1 DEF Hashing, IInv, TypeOK, LocalsOK, PendingCounts
<1>3. level = num_levels
  BY <1>1, <1>2
<1>4. /\ \A l \in -1 .. num_levels - 1 : nblocks[l] = RefBlocks(args, l)
      /\ RefLevels(args) = num_levels /\ nblocks[num_levels - 1] = 1
  BY <1>2, HashingFacts DEF ShapeInv
<1>5. \A l \in -1 .. num_levels - 1 : Hashed(l) = nblocks[l]
  BY <1>1, <1>2, <1>3 DEF IInv, PendingCounts
<1>6. args.file_size > 0
  BY <1>1 DEF IInv, LevelCounts
<1>7. pos = args.file_size
  BY <1>1 DEF ShapeInv, ReadRef
<1>8. data[num_levels][0] = <<num_levels - 1, 0>>
  <2>1. num_levels - 1 \in -1 .. num_levels - 1
    BY <1>2
  <2>2. Hashed(num_levels - 1) > 0
    BY <1>4, <1>5, <2>1
  <2> QED
    BY <1>2, <2>2 DEF ShapeInv, PendingRef
<1>9. ~(args.file_size = 0)
  BY <1>6
<1>10. WholeTree
  BY Zenon, <1>4, <1>5, <1>7, <1>8, <1>9 DEF WholeTree, RootHash
<1> QED
  BY Zenon, <1>1, <1>10 DEF WholeTree, RootHash, Hashed

LEMMA DoneStep ==
  ASSUME IInv, ShapeInv, [Next]_vars
  PROVE  DoneRef'
<1>1. CASE StartEmpty
  <2>1. /\ pc = "start" /\ args.file_size = 0 /\ data' = [data EXCEPT ![0] = [i \in {0} |-> Zero]]
        /\ args' = args /\ num_levels' = num_levels /\ pos' = pos
    BY Zenon, <1>1 DEF StartEmpty, locals
  <2>2. num_levels = 0 /\ pos = 0
    BY <2>1 DEF IInv, NothingYet, ShapeInv, ReadRef
  <2>3. DOMAIN data = Levels /\ 0 \in Levels
    BY WidthAssumption DEF IInv, TypeOK, DataOK, Levels
  <2>4. data'[0][0] = Zero
    BY <2>1, <2>3
  <2>5. ~(args'.file_size > 0)
    BY <2>1
  <2> QED
    BY Zenon, <2>1, <2>2, <2>4, <2>5 DEF DoneRef, WholeTree, RootHash
<1>2. CASE CheckRoot
  BY <1>2, CheckRootWhole DEF DoneRef
<1>3. CASE Out \/ Returned \/ UNCHANGED vars
  <2>1. /\ UNCHANGED <<args, num_levels, data, tree, pos, err>>
        /\ pc \in {"out", "done"} \/ pc' = pc
    BY <1>3 DEF Out, Returned, Goto, vars, locals, buffers, outside, history
  <2>2. WholeTree' = WholeTree
    BY Zenon, <2>1 DEF WholeTree, RootHash, Hashed
  <2> QED
    BY <2>1, <2>2 DEF ShapeInv, DoneRef
<1>4. CASE AllocSaltFails \/ Start \/ LevelsCounted \/ PlaceLevel \/ LayoutDone \/ CountLevel
  <2>1. err' # "0" \/ pc' = "levels" \/ pc' = "layout" \/ pc' = "alloc"
    <3>1. \/ err' = "ENOMEM" \/ err' = "WARN_ON" \/ err' = "callback error"
          \/ pc' = "levels" \/ pc' = "layout" \/ pc' = "alloc"
      BY Zenon, <1>4 DEF AllocSaltFails, Start, CountLevel, LevelsCounted, PlaceLevel, LayoutDone,
         ReportSize, Goto, Leave
    <3> QED
      BY Zenon, <3>1
  <2> QED
    BY <2>1 DEF DoneRef, Ok
<1>5. CASE AllocBuffer \/ AllocDone \/ ReadBlock \/ ReadFails \/ CascadeDone \/ EndOfData \/ FlushNothing
  <2>1. err' # "0" \/ pc' = "alloc" \/ pc' = "read" \/ pc' = "cascade" \/ pc' = "flush"
    <3>1. \/ err' = "ENOMEM" \/ err' = "read_fn error"
          \/ pc' = "alloc" \/ pc' = "read" \/ pc' = "cascade" \/ pc' = "flush"
      BY Zenon, <1>5 DEF AllocBuffer, AllocDone, ReadBlock, ReadFails, CascadeDone, EndOfData,
         FlushNothing, Goto, Leave
    <3> QED
      BY Zenon, <3>1
  <2> QED
    BY <2>1 DEF DoneRef, Ok
<1>6. CASE Cascade \/ Flush
  <2>1. err' # "0" \/ pc' = "cascade" \/ pc' = "flush"
    <3>1. err' = "callback error" \/ pc' = "cascade" \/ pc' = "flush"
      BY Zenon, <1>6 DEF Cascade, Flush, FinishBlock, ReportBlock, Goto, Leave
    <3> QED
      BY Zenon, <3>1
  <2> QED
    BY <2>1 DEF DoneRef, Ok
<1> QED
  BY Zenon, <1>1, <1>2, <1>3, <1>4, <1>5, <1>6 DEF Next, Step

LEMMA ShapeStep ==
  ASSUME IInv, IInv', ShapeInv, [Next]_vars
  PROVE  ShapeInv'
<1>1. LevelsRef' /\ ReadRef'
  BY LevelsStep, ReadStep DEF ShapeInv
<1>2. PendingRef' /\ DoneRef'
  BY PendingStep, DoneStep
<1>3. TreeShape'
  <2>1. CASE ReadBlock \/ Cascade \/ Flush
    BY Zenon, <2>1, ReadShape, FinishShape
  <2>2. CASE ~(ReadBlock \/ Cascade \/ Flush)
    <3>1. tree' = tree /\ args' = args
      BY Zenon, <2>2, TreeKept, ArgsKept
    <3> QED
      BY Zenon, <3>1 DEF TreeShape, ShapeInv
  <2> QED
    BY <2>1, <2>2
<1> QED
  BY <1>1, <1>2, <1>3 DEF ShapeInv

LEMMA ShapeInit == Init => ShapeInv
<1> SUFFICES ASSUME Init PROVE ShapeInv
  OBVIOUS
<1>1. /\ pc = "start" /\ pos = 0 /\ tree = [l \in -1 .. MaxLevels - 1 |-> <<>>]
  BY DEF Init, StartState
<1>2. LevelsRef /\ PendingRef /\ ReadRef /\ DoneRef
  BY <1>1 DEF LevelsRef, PendingRef, Hashing, ReadRef, DoneRef
<1>3. TreeShape
  <2>1. \A l \in DOMAIN tree : 1 .. Len(tree[l]) = {}
    <3>1. Len(<<>>) = 0 /\ 1 .. 0 = {}
      OBVIOUS
    <3> QED
      BY Zenon, <1>1, <3>1
  <2> QED
    BY Zenon, <2>1 DEF TreeShape
<1> QED
  BY <1>2, <1>3 DEF ShapeInv

\* The invariant of MerkleTreeProofs and the shape, together.
LEMMA ShapeInvariance == Spec => [](IInv /\ ShapeInv)
<1>1. Init => ShapeInv
  BY ShapeInit
<1>2. IInv /\ IInv' /\ ShapeInv /\ [Next]_vars => ShapeInv'
  BY ShapeStep
<1> QED
  BY <1>1, <1>2, Invariance, PTL DEF Spec

(***************************************************************************)
(* Every block that compute_root_hash() hashes is a block of the file's    *)
(* Merkle tree and holds what the tree has there: the file's bytes or the  *)
(* digests of its children in order, then zeros, and nothing of an earlier *)
(* block that was in the same memory.                                      *)
(***************************************************************************)
THEOREM HashesTheTree == Spec => []TreeShape
<1>1. ShapeInv => TreeShape
  BY DEF ShapeInv
<1> QED
  BY <1>1, ShapeInvariance, PTL

----------------------------------------------------------------------------
\* compute_root_hash() implements MerkleSpec.

LEMMA InBlocksDone ==
  ASSUME IInv, NEW l, NEW k
  PROVE  <<l, k>> \in BlocksDone <=> l \in DOMAIN tree /\ k \in 0 .. Hashed(l) - 1
  BY DEF BlocksDone, Hashed

LEMMA BlocksDoneArePairs ==
  ASSUME NEW b \in BlocksDone
  PROVE  b = <<b[1], b[2]>> /\ b[1] \in DOMAIN tree /\ b[2] \in 0 .. Hashed(b[1]) - 1
  BY DEF BlocksDone, Hashed

LEMMA RefTreeArePairs ==
  ASSUME NEW b \in RefTree(args)
  PROVE  b = <<b[1], b[2]>> /\ b[1] \in -1 .. RefLevels(args) - 1 /\ b[2] \in 0 .. RefBlocks(args, b[1]) - 1
  BY DEF RefTree

LEMMA OneMoreBlock ==
  ASSUME IInv, IInv', NEW cur \in DOMAIN tree, NEW e,
         tree' = [tree EXCEPT ![cur] = Append(@, e)]
  PROVE  /\ BlocksDone' = BlocksDone \cup {<<cur, Hashed(cur)>>}
         /\ <<cur, Hashed(cur)>> \notin BlocksDone
<1> DEFINE t == Append(tree[cur], e)
<1>1. \A l \in DOMAIN tree : \E S : tree[l] \in Seq(S)
  BY DEF IInv, TypeOK, TreeOK
<1>2. Hashed(cur) \in Nat
  BY <1>1, SeqLength DEF Hashed
<1>3. Len(t) = Hashed(cur) + 1
  <2>1. PICK S : tree[cur] \in Seq(S)
    BY <1>1
  <2>2. tree[cur] \in Seq(S \cup {e}) /\ e \in S \cup {e}
    BY <2>1
  <2> QED
    BY <2>2, SeqAppend DEF Hashed
<1>4. /\ DOMAIN tree' = DOMAIN tree /\ tree'[cur] = t
      /\ \A l \in DOMAIN tree \ {cur} : tree'[l] = tree[l]
  OBVIOUS
<1> HIDE DEF t
<1>5. Hashed(cur)' = Hashed(cur) + 1 /\ \A l \in DOMAIN tree \ {cur} : Hashed(l)' = Hashed(l)
  BY <1>3, <1>4 DEF Hashed
<1>6. ASSUME NEW l, NEW k
      PROVE  <<l, k>> \in BlocksDone' <=> <<l, k>> \in BlocksDone \/ <<l, k>> = <<cur, Hashed(cur)>>
  <2>1. <<l, k>> \in BlocksDone' <=> l \in DOMAIN tree' /\ k \in 0 .. Hashed(l)' - 1
    BY DEF BlocksDone, Hashed
  <2>2. <<l, k>> \in BlocksDone <=> l \in DOMAIN tree /\ k \in 0 .. Hashed(l) - 1
    BY InBlocksDone
  <2>3. CASE l = cur
    <3>1. k \in 0 .. Hashed(l)' - 1 <=> k \in 0 .. Hashed(l) - 1 \/ k = Hashed(cur)
      <4>1. Hashed(l)' = Hashed(cur) + 1 /\ Hashed(l) = Hashed(cur)
        BY Zenon, <1>5, <2>3
      <4>2. 0 .. Hashed(l)' - 1 = (0 .. Hashed(l) - 1) \cup {Hashed(cur)}
        <5>1. \A n \in Nat : 0 .. (n + 1) - 1 = (0 .. n - 1) \cup {n}
          OBVIOUS
        <5>2. 0 .. (Hashed(cur) + 1) - 1 = (0 .. Hashed(cur) - 1) \cup {Hashed(cur)}
          BY Zenon, <1>2, <5>1
        <5> QED
          BY <4>1, <5>2
      <4> QED
        BY Zenon, <4>2
    <3> QED
      BY <1>4, <2>1, <2>2, <2>3, <3>1
  <2>4. CASE l # cur
    <3>1. l \in DOMAIN tree => Hashed(l)' = Hashed(l)
      BY <1>5, <2>4
    <3> QED
      BY <1>4, <2>1, <2>2, <2>4, <3>1
  <2> QED
    BY <2>3, <2>4
<1>7. <<cur, Hashed(cur)>> \notin BlocksDone
  <2>1. Hashed(cur) \notin 0 .. Hashed(cur) - 1
    BY <1>2
  <2> QED
    BY <2>1, InBlocksDone
<1>8. /\ \A b \in BlocksDone : b = <<b[1], b[2]>>
      /\ \A b \in BlocksDone' : b = <<b[1], b[2]>>
  BY DEF BlocksDone
<1>9. BlocksDone' = BlocksDone \cup {<<cur, Hashed(cur)>>}
  <2>1. ASSUME NEW b \in BlocksDone' PROVE b \in BlocksDone \cup {<<cur, Hashed(cur)>>}
    <3>1. b = <<b[1], b[2]>>
      BY <1>8
    <3>2. <<b[1], b[2]>> \in BlocksDone'
      BY Zenon, <3>1
    <3> QED
      BY Zenon, <1>6, <3>1, <3>2
  <2>2. ASSUME NEW b \in BlocksDone PROVE b \in BlocksDone'
    <3>1. b = <<b[1], b[2]>>
      BY <1>8
    <3>2. <<b[1], b[2]>> \in BlocksDone
      BY Zenon, <3>1
    <3> QED
      BY Zenon, <1>6, <3>1, <3>2
  <2>3. <<cur, Hashed(cur)>> \in BlocksDone'
    BY Zenon, <1>6
  <2> QED
    BY Zenon, <2>1, <2>2, <2>3
<1> QED
  BY <1>7, <1>9

\* The children of a block that is finished have all been hashed.
LEMMA ChildrenDone ==
  ASSUME IInv, ShapeInv, Cascade \/ Flush
  PROVE  RefChildren(args, level, Hashed(level)) \subseteq BlocksDone
<1> DEFINE h == HashesPerBlock
           n == Hashed(level)
<1>1. /\ Hashing /\ level \in 0 .. num_levels - 1 /\ Pending(level) \in 1 .. h
      /\ Pending(level) = h \/ Hashed(level - 1) = nblocks[level - 1]
  BY FinishWhat
<1>2. LevelsRef /\ num_levels \in 0 .. MaxLevels /\ h \in Nat \ {0}
  BY <1>1, HashingFacts DEF ShapeInv
<1>3. level \in -1 .. num_levels - 1 /\ level - 1 \in -1 .. num_levels - 1 /\ level # -1
  BY <1>1, <1>2
<1>4. /\ n \in Nat /\ Hashed(level - 1) \in Nat /\ level - 1 \in DOMAIN tree
      /\ nblocks[level - 1] = RefBlocks(args, level - 1) /\ nblocks[level - 1] \in Nat
  <2>1. \A l \in -1 .. num_levels - 1 :
          /\ l \in DOMAIN tree /\ Hashed(l) \in Nat
          /\ nblocks[l] \in Nat /\ nblocks[l] = RefBlocks(args, l)
    BY Zenon, <1>1, <1>2, HashingFacts
  <2> QED
    BY Zenon, <1>3, <2>1
<1>5. h = RefHashesPerBlock(args)
  BY DEF HashesPerBlock, RefHashesPerBlock
<1>6. Pending(level) = Hashed(level - 1) - h * n
  BY DEF Pending
<1> HIDE DEF h, n
<1>7. ASSUME NEW c \in 0 .. RefBlocks(args, level - 1) - 1, c \div h = n
      PROVE  <<level - 1, c>> \in BlocksDone
  <2>1. c \in Nat /\ c < nblocks[level - 1]
    BY <1>4
  <2>2. c < Hashed(level - 1)
    <3>1. CASE Hashed(level - 1) = nblocks[level - 1]
      BY <2>1, <3>1
    <3>2. CASE Pending(level) = h
      <4>1. c < h * (c \div h) + h
        BY <1>2, <2>1
      <4>2. h * n \in Nat
        BY <1>2, <1>4
      <4>3. Hashed(level - 1) = h * n + h
        BY <1>2, <1>4, <1>6, <3>2, <4>2
      <4> QED
        BY <1>7, <4>1, <4>3
    <3> QED
      BY <1>1, <3>1, <3>2
  <2>3. c \in 0 .. Hashed(level - 1) - 1
    BY <1>4, <2>1, <2>2
  <2> QED
    BY <1>4, <2>3, InBlocksDone
<1>8. RefChildren(args, level, n)
        = {<<level - 1, c>> : c \in {c \in 0 .. RefBlocks(args, level - 1) - 1 : c \div h = n}}
  BY <1>3, <1>5 DEF RefChildren
<1>9. RefChildren(args, level, n) \subseteq BlocksDone
  BY Zenon, <1>7, <1>8
<1> QED
  BY <1>9 DEF n

\* The abstract specification speaks of the same tree.
LEMMA SameReference ==
  ASSUME NEW a
  PROVE  /\ Abstract!RefTree(a) = RefTree(a)
         /\ \A l, k : Abstract!RefChildren(a, l, k) = RefChildren(a, l, k)
<1>1. Abstract!RefTree(a) = RefTree(a)
  BY Zenon DEF Abstract!RefTree, RefTree, Abstract!RefLevels, RefLevels, Abstract!RefBlocks, RefBlocks,
     Abstract!CeilDiv, CeilDiv, Abstract!RefHashesPerBlock, RefHashesPerBlock
<1>2. \A l, k : Abstract!RefChildren(a, l, k) = RefChildren(a, l, k)
  BY Zenon DEF Abstract!RefChildren, RefChildren, Abstract!RefBlocks, RefBlocks,
     Abstract!CeilDiv, CeilDiv, Abstract!RefHashesPerBlock, RefHashesPerBlock
<1> QED
  BY <1>1, <1>2

LEMMA HashRefines ==
  ASSUME IInv, IInv', ShapeInv, ShapeInv', args' = args, Hashing,
         NEW cur \in -1 .. num_levels - 1, NEW e,
         tree' = [tree EXCEPT ![cur] = Append(@, e)],
         RefChildren(args, cur, Hashed(cur)) \subseteq BlocksDone,
         Status' \in {"running", "failed"}
  PROVE  Abstract!HashBlock
<1> DEFINE b == <<cur, Hashed(cur)>>
<1>1. LevelsRef /\ num_levels \in 0 .. MaxLevels
  BY HashingFacts DEF ShapeInv
<1>2. cur \in DOMAIN tree /\ Hashed(cur) \in Nat
  BY Zenon, <1>1, HashingFacts
<1>3. BlocksDone' = BlocksDone \cup {b} /\ b \notin BlocksDone
  BY Zenon, <1>2, OneMoreBlock
<1>4. b \in RefTree(args)
  <2>1. b \in BlocksDone'
    BY Zenon, <1>3
  <2>2. \A l \in DOMAIN tree' : \A k \in 1 .. Len(tree'[l]) : <<l, k - 1>> \in RefTree(args)
    BY Zenon DEF ShapeInv, TreeShape
  <2>3. cur \in DOMAIN tree' /\ Hashed(cur) \in 0 .. Len(tree'[cur]) - 1
    BY <2>1 DEF BlocksDone
  <2>4. Len(tree'[cur]) \in Nat
    BY <2>3, SeqLength DEF IInv, TypeOK, TreeOK
  <2>5. Hashed(cur) + 1 \in 1 .. Len(tree'[cur]) /\ (Hashed(cur) + 1) - 1 = Hashed(cur)
    BY <1>2, <2>3, <2>4
  <2> QED
    BY Zenon, <2>2, <2>3, <2>5
<1>5. b[1] = cur /\ b[2] = Hashed(cur)
  OBVIOUS
<1>6. \A k \in 0 .. Hashed(cur) - 1 : <<cur, k>> \in BlocksDone
  BY <1>2, InBlocksDone
<1> HIDE DEF b
<1>7. b[1] = -1 => \A k \in 0 .. b[2] - 1 : <<-1, k>> \in BlocksDone
  BY Zenon, <1>5, <1>6
<1>8. b \in RefTree(args) \ BlocksDone /\ RefChildren(args, b[1], b[2]) \subseteq BlocksDone
  BY Zenon, <1>3, <1>4, <1>5
<1>9. Status = "running"
  BY DEF Status, Hashing
<1> QED
  BY Zenon, <1>3, <1>7, <1>8, <1>9, SameReference DEF Abstract!HashBlock

LEMMA FinishRefines ==
  ASSUME IInv, IInv', ShapeInv, ShapeInv', Cascade \/ Flush
  PROVE  Abstract!HashBlock
<1>1. /\ pc \in {"cascade", "flush"} /\ Hashing /\ FinishBlock(pc)
      /\ level < num_levels /\ level \in 0 .. num_levels - 1 /\ Hashed(level) < nblocks[level]
  BY FinishWhat
<1>2. /\ args' = args
      /\ tree' = [tree EXCEPT ![level] = Append(@, Padded(data[level], UsedSlots(level)))]
  BY Zenon, <1>1 DEF FinishBlock, HashOneBlock
<1>3. level \in -1 .. num_levels - 1
  <2>1. num_levels \in Int
    BY DEF IInv, TypeOK, LocalsOK
  <2> QED
    BY <1>1, <2>1
<1>4. Status' \in {"running", "failed"}
  <2>1. pc' = pc \/ (pc' = "out" /\ err' = "callback error")
    BY Zenon, <1>1 DEF FinishBlock, ReportBlock, Goto, Leave
  <2>2. "callback error" # "0" /\ "running" \in {"running", "failed"} /\ "failed" \in {"running", "failed"}
    BY Zenon
  <2>3. CASE pc' = pc
    <3>1. pc' \notin {"out", "done"}
      BY <1>1, <2>3
    <3> QED
      BY Zenon, <2>2, <3>1 DEF Status
  <2>4. CASE pc' = "out" /\ err' = "callback error"
    BY Zenon, <2>2, <2>4 DEF Status, Ok
  <2> QED
    BY Zenon, <2>1, <2>3, <2>4
<1>5. RefChildren(args, level, Hashed(level)) \subseteq BlocksDone
  BY ChildrenDone
<1> DEFINE e == Padded(data[level], UsedSlots(level))
<1> HIDE DEF e
<1>6. tree' = [tree EXCEPT ![level] = Append(@, e)]
  BY <1>2 DEF e
<1> QED
  BY Zenon, <1>1, <1>2, <1>3, <1>4, <1>5, <1>6, HashRefines

LEMMA ReadRefines ==
  ASSUME IInv, IInv', ShapeInv, ShapeInv', ReadBlock
  PROVE  Abstract!HashBlock
<1>1. /\ pc' = "cascade" /\ Hashing /\ args' = args /\ -1 \in -1 .. num_levels - 1
      /\ HashOneBlock(-1, ReadData, ReadCount)
  BY ReadWhat
<1> DEFINE e == Padded(ReadData, ReadCount)
<1>2. tree' = [tree EXCEPT ![-1] = Append(@, e)]
  BY Zenon, <1>1 DEF HashOneBlock
<1> HIDE DEF e
<1>3. Status' \in {"running", "failed"}
  BY <1>1 DEF Status
<1>4. RefChildren(args, -1, Hashed(-1)) \subseteq BlocksDone
  BY DEF RefChildren
<1> QED
  BY Zenon, <1>1, <1>2, <1>3, <1>4, HashRefines

\* Only blocks of the file's tree are hashed.
DoneInTree == BlocksDone \subseteq RefTree(args)

LEMMA BlocksInTree == IInv /\ ShapeInv => DoneInTree
<1> SUFFICES ASSUME IInv, ShapeInv, NEW b \in BlocksDone PROVE b \in RefTree(args)
  BY Zenon DEF DoneInTree
<1>1. b = <<b[1], b[2]>> /\ b[1] \in DOMAIN tree /\ b[2] \in 0 .. Hashed(b[1]) - 1
  BY BlocksDoneArePairs
<1>2. Hashed(b[1]) \in Nat
  BY <1>1, SeqLength DEF IInv, TypeOK, TreeOK, Hashed
<1>3. b[2] + 1 \in 1 .. Len(tree[b[1]]) /\ (b[2] + 1) - 1 = b[2]
  BY <1>1, <1>2 DEF Hashed
<1>4. <<b[1], (b[2] + 1) - 1>> \in RefTree(args)
  BY Zenon, <1>1, <1>3 DEF ShapeInv, TreeShape
<1> QED
  BY Zenon, <1>1, <1>3, <1>4

\* All of the tree is hashed when the final loop has reached the top.
LEMMA CheckRootRefines ==
  ASSUME IInv, IInv', ShapeInv, CheckRoot
  PROVE  Abstract!Succeed
<1>1. /\ pc = "flush" /\ pc' = "out"
      /\ err' = Ok \/ err' = "WARN_ON"
      /\ UNCHANGED <<args, tree, num_levels>>
  BY Zenon DEF CheckRoot, Leave, locals, history
<1>2. Hashing /\ LevelsRef /\ args' = args /\ num_levels' = num_levels /\ tree' = tree
  BY <1>1 DEF Hashing, ShapeInv
<1>3. Status = "running" /\ Status' = "ok"
  <2>1. err' = Ok /\ pc' = "out"
    BY <1>1 DEF IInv, NoInternalError
  <2> QED
    BY <1>1, <2>1 DEF Status
<1>4. BlocksDone' = BlocksDone
  BY Zenon, <1>2 DEF BlocksDone
<1>5. /\ RefLevels(args) = num_levels
      /\ \A l \in -1 .. num_levels - 1 : l \in DOMAIN tree
  BY Zenon, <1>2, HashingFacts
<1>6. \A l \in -1 .. num_levels - 1 : Hashed(l) = RefBlocks(args, l)
  <2>1. WholeTree'
    BY CheckRootWhole
  <2>2. args.file_size > 0
    BY <1>1 DEF IInv, LevelCounts
  <2>3. \A l : Hashed(l)' = Hashed(l)
    BY Zenon, <1>2 DEF Hashed
  <2> QED
    BY Zenon, <1>2, <2>1, <2>2, <2>3 DEF WholeTree
<1>7. \A b \in BlocksDone : b \in RefTree(args)
  BY Zenon, BlocksInTree DEF DoneInTree
<1>8. ASSUME NEW b \in RefTree(args) PROVE b \in BlocksDone
  <2>1. b = <<b[1], b[2]>> /\ b[1] \in -1 .. num_levels - 1 /\ b[2] \in 0 .. RefBlocks(args, b[1]) - 1
    BY <1>5, RefTreeArePairs
  <2>2. b[1] \in DOMAIN tree /\ b[2] \in 0 .. Hashed(b[1]) - 1
    BY Zenon, <1>5, <1>6, <2>1
  <2>3. <<b[1], b[2]>> \in BlocksDone
    BY <2>2, InBlocksDone
  <2> QED
    BY Zenon, <2>1, <2>3
<1>9. BlocksDone = RefTree(args)
  BY Zenon, <1>7, <1>8
<1> QED
  BY Zenon, <1>2, <1>3, <1>4, <1>9, SameReference DEF Abstract!Succeed

\* The empty file has no tree.
LEMMA EmptyRefTree ==
  ASSUME args \in Calls, args.file_size = 0
  PROVE  RefTree(args) = {}
<1>1. RefBlocks(args, -1) = 0
  <2>1. args.block_size \in Nat \ {0} /\ args.file_size \in Nat
    BY CallFacts
  <2>2. 0 \in Nat /\ args.file_size <= args.block_size * 0 /\ args.block_size * (0 - 1) < args.file_size
    BY <2>1
  <2> QED
    BY <2>2, RefBlocksData
<1>2. RefLevels(args) = 0
  <2>1. \A m \in 0 .. 0 : m - 1 = -1
    OBVIOUS
  <2>2. \A m \in 0 .. 0 : RefBlocks(args, m - 1) \in Int
    <3>1. 0 \in Int
      OBVIOUS
    <3> QED
      BY Zenon, <1>1, <2>1, <3>1
  <2>3. RefBlocks(args, 0 - 1) <= 1
    <3>1. 0 - 1 = -1 /\ 0 <= 1
      OBVIOUS
    <3> QED
      BY Zenon, <1>1, <3>1
  <2>4. 0 \in Nat /\ 0 <= args.file_size /\ args.file_size \in Nat
    BY CallFacts
  <2>5. \A m \in 0 .. 0 - 1 : RefBlocks(args, m - 1) > 1
    BY <2>1
  <2> QED
    BY Zenon, <2>2, <2>3, <2>4, <2>5, RefLevelsIs
<1>3. ASSUME NEW b \in RefTree(args) PROVE FALSE
  <2>1. b[1] \in -1 .. 0 - 1 /\ b[2] \in 0 .. RefBlocks(args, b[1]) - 1
    BY Zenon, <1>2, RefTreeArePairs
  <2>2. b[1] = -1
    BY <2>1
  <2>3. b[2] \in 0 .. 0 - 1
    BY Zenon, <1>1, <2>1, <2>2
  <2> QED
    BY <2>3
<1> QED
  BY Zenon, <1>3

LEMMA NoBlocksDone ==
  ASSUME tree = [l \in -1 .. MaxLevels - 1 |-> <<>>]
  PROVE  BlocksDone = {}
<1>1. Len(<<>>) = 0 /\ 0 .. 0 - 1 = {}
  OBVIOUS
<1>2. \A l \in DOMAIN tree : 0 .. Len(tree[l]) - 1 = {}
  BY Zenon, <1>1
<1>3. ASSUME NEW b \in BlocksDone PROVE FALSE
  BY Zenon, <1>2, BlocksDoneArePairs DEF Hashed
<1> QED
  BY Zenon, <1>3

LEMMA SameBlocksDone ==
  ASSUME tree' = tree
  PROVE  BlocksDone' = BlocksDone
  BY Zenon DEF BlocksDone

\* What a step that hashes nothing does to the outcome of the call.
LEMMA QuietRefines ==
  ASSUME IInv, [Next]_vars, ~ReadBlock, ~Cascade, ~Flush, ~CheckRoot, ~StartEmpty
  PROVE  Abstract!Fail \/ UNCHANGED Abstract!svars
<1>1. args' = args /\ BlocksDone' = BlocksDone
  BY ArgsKept, TreeKept, SameBlocksDone
<1>2. Status' = Status \/ (Status = "running" /\ Status' = "failed")
  <2>1. CASE Out \/ Returned \/ UNCHANGED vars
    <3>1. err' = err /\ (pc' = pc \/ (pc = "out" /\ pc' = "done"))
      BY Zenon, <2>1 DEF Out, Returned, Goto, vars
    <3> QED
      BY Zenon, <3>1 DEF Status
  <2>2. CASE AllocSaltFails \/ Start \/ CountLevel \/ LevelsCounted \/ PlaceLevel \/ LayoutDone
    <3>1. /\ pc = "start" \/ pc = "levels" \/ pc = "layout"
          /\ \/ pc' = "levels" \/ pc' = "layout" \/ pc' = "alloc"
             \/ err' = "ENOMEM" /\ pc' = "done"
             \/ (err' = "WARN_ON" \/ err' = "callback error") /\ pc' = "out"
      BY Zenon, <2>2 DEF AllocSaltFails, Start, CountLevel, LevelsCounted, PlaceLevel, LayoutDone,
         ReportSize, Goto, Leave
    <3> QED
      BY Zenon, <3>1 DEF Status, Ok
  <2>3. CASE AllocBuffer \/ AllocDone \/ ReadFails \/ CascadeDone \/ EndOfData \/ FlushNothing
    <3>1. /\ pc = "alloc" \/ pc = "read" \/ pc = "cascade" \/ pc = "flush"
          /\ \/ pc' = "alloc" \/ pc' = "read" \/ pc' = "flush"
             \/ (err' = "ENOMEM" \/ err' = "read_fn error") /\ pc' = "out"
      BY Zenon, <2>3 DEF AllocBuffer, AllocDone, ReadFails, CascadeDone, EndOfData, FlushNothing,
         Goto, Leave
    <3> QED
      BY Zenon, <3>1 DEF Status, Ok
  <2> QED
    BY Zenon, <2>1, <2>2, <2>3 DEF Next, Step
<1> QED
  BY Zenon, <1>1, <1>2 DEF Abstract!Fail, Abstract!svars

LEMMA StartEmptyRefines ==
  ASSUME IInv, StartEmpty
  PROVE  Abstract!Succeed \/ Abstract!Fail
<1>1. /\ pc = "start" /\ args.file_size = 0 /\ args' = args /\ tree' = tree
      /\ pc' = "done"
  BY Zenon DEF StartEmpty, ReportSize, Goto, Leave, locals, history
<1>2. BlocksDone = {} /\ RefTree(args) = {} /\ BlocksDone' = BlocksDone
  <2>1. tree = [l \in -1 .. MaxLevels - 1 |-> <<>>] /\ args \in Calls
    BY <1>1 DEF IInv, NothingYet, TypeOK, LocalsOK
  <2> QED
    BY Zenon, <1>1, <2>1, NoBlocksDone, EmptyRefTree, SameBlocksDone
<1>3. Status = "running" /\ (Status' = "ok" \/ Status' = "failed")
  BY <1>1 DEF Status
<1> QED
  BY Zenon, <1>1, <1>2, <1>3, SameReference DEF Abstract!Succeed, Abstract!Fail

LEMMA RefinesMerkleInit ==
  ASSUME Init
  PROVE  Abstract!Init
<1>1. args \in Calls /\ pc = "start" /\ tree = [l \in -1 .. MaxLevels - 1 |-> <<>>]
  BY Zenon DEF Init, StartState
<1>2. BlocksDone = {}
  BY <1>1, NoBlocksDone
<1>3. Status = "running"
  BY <1>1 DEF Status
<1> QED
  BY Zenon, <1>1, <1>2, <1>3 DEF Abstract!Init

LEMMA RefinesMerkleNext ==
  ASSUME IInv, IInv', ShapeInv, ShapeInv', [Next]_vars
  PROVE  [Abstract!Next]_(Abstract!svars)
<1>1. CASE ReadBlock
  BY Zenon, <1>1, ReadRefines DEF Abstract!Next
<1>2. CASE Cascade \/ Flush
  BY Zenon, <1>2, FinishRefines DEF Abstract!Next
<1>3. CASE CheckRoot
  BY Zenon, <1>3, CheckRootRefines DEF Abstract!Next
<1>4. CASE StartEmpty
  BY Zenon, <1>4, StartEmptyRefines DEF Abstract!Next
<1>5. CASE ~ReadBlock /\ ~(Cascade \/ Flush) /\ ~CheckRoot /\ ~StartEmpty
  BY Zenon, <1>5, QuietRefines DEF Abstract!Next
<1> QED
  BY Zenon, <1>1, <1>2, <1>3, <1>4, <1>5

(***************************************************************************)
(* compute_root_hash() implements the safety part of MerkleSpec: it hashes *)
(* the data blocks in file order, every other block of the tree once and   *)
(* after all its children, and it returns 0 only when every block of the   *)
(* file's tree is hashed.                                                  *)
(***************************************************************************)
THEOREM RefinesMerkleSpec == Spec => Abstract!Safety
<1>1. Init => Abstract!Init
  BY RefinesMerkleInit
<1>2. /\ IInv /\ ShapeInv /\ (IInv /\ ShapeInv)'
      /\ [Next]_vars
      => [Abstract!Next]_(Abstract!svars)
  BY RefinesMerkleNext
<1> QED
  BY <1>1, <1>2, ShapeInvariance, PTL DEF Spec, Abstract!Safety

----------------------------------------------------------------------------
\* The tree blocks that are done, and the calls made of them.

LaidOut == pc = "alloc" \/ Hashing \/ (pc \in {"out", "done"} /\ err = Ok)

\* What finishing a block does to the layout and to the calls.
LEMMA FinishReport ==
  ASSUME IInv, Cascade \/ Flush
  PROVE  /\ "merkle_tree_block" \notin args.cbs =>
              /\ pc' = pc /\ UNCHANGED <<block_calls, level_offset>>
         /\ "merkle_tree_block" \in args.cbs =>
              /\ block_calls' = Append(block_calls,
                   [offset |-> (level_offset[level] * args.block_size) % Word,
                    block |-> Padded(data[level], UsedSlots(level))])
              /\ \/ pc' = "out" /\ err' # Ok
                 \/ pc' = pc /\ level_offset' = [level_offset EXCEPT ![level] = (@ + 1) % Word]
         /\ UNCHANGED <<args, num_levels, tree_size>>
<1>1. FinishBlock(pc)
  BY FinishWhat
<1>2. "callback error" # Ok
  BY DEF Ok
<1> QED
  BY Zenon, <1>1, <1>2 DEF FinishBlock, ReportBlock, Goto, Leave

\* Only finishing a block reports one.
LEMMA CallsKept ==
  ASSUME [Next]_vars, ~Cascade, ~Flush
  PROVE  block_calls' = block_calls
<1>1. CASE StartEmpty \/ AllocSaltFails \/ Start \/ CountLevel \/ LevelsCounted \/ PlaceLevel \/ LayoutDone
  BY Zenon, <1>1 DEF StartEmpty, AllocSaltFails, Start, CountLevel, LevelsCounted, PlaceLevel, LayoutDone, outside
<1>2. CASE AllocBuffer \/ AllocDone \/ ReadBlock \/ ReadFails \/ CascadeDone \/ EndOfData
  BY Zenon, <1>2 DEF AllocBuffer, AllocDone, ReadBlock, ReadFails, CascadeDone, EndOfData, outside
<1>3. CASE FlushNothing \/ CheckRoot \/ Out \/ Returned \/ UNCHANGED vars
  BY Zenon, <1>3 DEF FlushNothing, CheckRoot, Out, Returned, vars, outside
<1> QED
  BY Zenon, <1>1, <1>2, <1>3 DEF Next, Step

AreTreeBlocks == TreeBlocksDone = {b \in BlocksDone : b[1] # -1}

LEMMA TreeBlocks == IInv => AreTreeBlocks
<1> SUFFICES ASSUME IInv PROVE TreeBlocksDone = {b \in BlocksDone : b[1] # -1}
  BY DEF AreTreeBlocks
<1>1. DOMAIN tree = -1 .. MaxLevels - 1
  BY Zenon DEF IInv, TypeOK, TreeOK
<1>2. \A l : l \in 0 .. MaxLevels - 1 <=> l \in DOMAIN tree /\ l # -1
  BY <1>1, WidthAssumption
<1>3. ASSUME NEW b \in TreeBlocksDone PROVE b \in BlocksDone /\ b[1] # -1
  <2>1. PICK l \in 0 .. MaxLevels - 1 : b \in {l} \X (0 .. Len(tree[l]) - 1)
    BY DEF TreeBlocksDone
  <2>2. l \in DOMAIN tree /\ l # -1 /\ b[1] = l
    BY <1>2, <2>1
  <2> QED
    BY Zenon, <2>1, <2>2 DEF BlocksDone
<1>4. ASSUME NEW b \in BlocksDone, b[1] # -1 PROVE b \in TreeBlocksDone
  <2>1. PICK l \in DOMAIN tree : b \in {l} \X (0 .. Len(tree[l]) - 1)
    BY DEF BlocksDone
  <2>2. l \in 0 .. MaxLevels - 1
    BY <1>2, <1>4, <2>1
  <2> QED
    BY Zenon, <2>1, <2>2 DEF TreeBlocksDone
<1> QED
  BY Zenon, <1>3, <1>4

LEMMA TreeBlocksNext == IInv' => AreTreeBlocks'
  BY TreeBlocks, PTL

LEMMA FinishTreeBlocks ==
  ASSUME IInv, IInv', ShapeInv, Cascade \/ Flush
  PROVE  /\ TreeBlocksDone' = TreeBlocksDone \cup {<<level, Hashed(level)>>}
         /\ <<level, Hashed(level)>> \notin TreeBlocksDone
<1> DEFINE x == <<level, Hashed(level)>>
<1>1. /\ Hashing /\ level \in 0 .. num_levels - 1 /\ FinishBlock(pc)
  BY FinishWhat
<1>2. LevelsRef
  BY DEF ShapeInv
<1>3. level \in DOMAIN tree /\ level # -1
  <2>1. num_levels \in 0 .. MaxLevels /\ DOMAIN tree = -1 .. MaxLevels - 1
    BY <1>1, <1>2, HashingFacts
  <2> QED
    BY <1>1, <2>1, WidthAssumption
<1>4. /\ TreeBlocksDone' = TreeBlocksDone \cup {x}
      /\ x \notin TreeBlocksDone
  <2> DEFINE e == Padded(data[level], UsedSlots(level))
  <2>1. tree' = [tree EXCEPT ![level] = Append(@, e)]
    BY Zenon, <1>1 DEF FinishBlock, HashOneBlock
  <2> HIDE DEF e
  <2>2. BlocksDone' = BlocksDone \cup {x} /\ x \notin BlocksDone
    BY Zenon, <1>3, <2>1, OneMoreBlock
  <2>3. x[1] = level
    OBVIOUS
  <2>4. /\ TreeBlocksDone = {b \in BlocksDone : b[1] # -1}
        /\ TreeBlocksDone' = {b \in BlocksDone' : b[1] # -1}
    BY Zenon, TreeBlocks, TreeBlocksNext DEF AreTreeBlocks
  <2> HIDE DEF x
  <2>5. x \notin TreeBlocksDone
    BY Zenon, <2>2, <2>4
  <2>6. ASSUME NEW b
        PROVE  b \in TreeBlocksDone' <=> b \in TreeBlocksDone \cup {x}
    <3>1. x[1] # -1
      BY Zenon, <1>3, <2>3
    <3>2. b \in TreeBlocksDone' <=> (b \in BlocksDone \/ b = x) /\ b[1] # -1
      BY Zenon, <2>2, <2>4
    <3>3. b \in TreeBlocksDone <=> b \in BlocksDone /\ b[1] # -1
      BY Zenon, <2>4
    <3> QED
      BY Zenon, <3>1, <3>2, <3>3
  <2> QED
    BY Zenon, <2>5, <2>6
<1> QED
  BY Zenon, <1>4 DEF x

LEMMA ReadTreeBlocks ==
  ASSUME IInv, IInv', ShapeInv, ReadBlock
  PROVE  TreeBlocksDone' = TreeBlocksDone
<1> DEFINE e == Padded(ReadData, ReadCount)
           x == <<-1, Hashed(-1)>>
<1>1. tree' = [tree EXCEPT ![-1] = Append(@, e)] /\ Hashing
  BY Zenon, ReadWhat DEF HashOneBlock
<1> HIDE DEF e
<1>2. -1 \in DOMAIN tree
  BY WidthAssumption DEF IInv, TypeOK, TreeOK
<1>3. BlocksDone' = BlocksDone \cup {x}
  BY Zenon, <1>1, <1>2, OneMoreBlock
<1>4. x[1] = -1
  OBVIOUS
<1>5. /\ TreeBlocksDone = {b \in BlocksDone : b[1] # -1}
      /\ TreeBlocksDone' = {b \in BlocksDone' : b[1] # -1}
  BY Zenon, TreeBlocks, TreeBlocksNext DEF AreTreeBlocks
<1> HIDE DEF x
<1>6. ASSUME NEW b
      PROVE  b \in TreeBlocksDone' <=> b \in TreeBlocksDone
  <2>1. b \in TreeBlocksDone' <=> (b \in BlocksDone \/ b = x) /\ b[1] # -1
    BY Zenon, <1>3, <1>5
  <2>2. b \in TreeBlocksDone <=> b \in BlocksDone /\ b[1] # -1
    BY Zenon, <1>5
  <2> QED
    BY Zenon, <1>4, <2>1, <2>2
<1>7. TreeBlocksDone' = TreeBlocksDone
  BY Zenon, <1>6
<1> QED
  BY Zenon, <1>7

\* A call that returns 0 leaves the whole tree behind.
WholeDone ==
  pc = "done" /\ err = Ok =>
    /\ pos = args.file_size
    /\ \A b \in RefTree(args) : b[2] < Len(tree[b[1]])
    /\ RootHash = IF args.file_size = 0 THEN Zero ELSE <<RefLevels(args) - 1, 0>>

LEMMA WholeOnDone == IInv /\ ShapeInv => WholeDone
<1> SUFFICES ASSUME IInv, ShapeInv, pc = "done", err = Ok
             PROVE  /\ pos = args.file_size
                    /\ \A b \in RefTree(args) : b[2] < Len(tree[b[1]])
                    /\ RootHash = IF args.file_size = 0 THEN Zero ELSE <<RefLevels(args) - 1, 0>>
  BY Zenon DEF WholeDone
<1>1. WholeTree
  BY DEF ShapeInv, DoneRef
<1>2. args \in Calls /\ args.file_size \in Nat
  BY CallFacts DEF IInv, TypeOK, LocalsOK
<1>3. CASE args.file_size = 0
  <2>1. RefTree(args) = {}
    BY <1>2, <1>3, EmptyRefTree
  <2> QED
    BY Zenon, <1>1, <1>3, <2>1 DEF WholeTree
<1>4. CASE args.file_size # 0
  <2>1. /\ pos = args.file_size /\ RefLevels(args) = num_levels /\ RootHash = <<num_levels - 1, 0>>
        /\ \A l \in -1 .. num_levels - 1 : Hashed(l) = RefBlocks(args, l)
    <3>1. args.file_size > 0
      BY <1>2, <1>4
    <3> QED
      BY Zenon, <1>1, <3>1 DEF WholeTree
  <2>2. ASSUME NEW b \in RefTree(args) PROVE b[2] < Len(tree[b[1]])
    <3>1. b[1] \in -1 .. num_levels - 1 /\ b[2] \in 0 .. RefBlocks(args, b[1]) - 1
      BY Zenon, <2>1, RefTreeArePairs
    <3>2. Len(tree[b[1]]) = RefBlocks(args, b[1])
      BY Zenon, <2>1, <3>1 DEF Hashed
    <3>3. Len(tree[b[1]]) \in Nat
      <4>1. b[1] \in -1 .. MaxLevels - 1
        BY <3>1, WidthAssumption DEF IInv, TypeOK, LocalsOK
      <4> QED
        BY <4>1, SeqLength DEF IInv, TypeOK, TreeOK
    <3> QED
      BY <3>1, <3>2, <3>3
  <2> QED
    BY Zenon, <1>4, <2>1, <2>2
<1> QED
  BY Zenon, <1>3, <1>4
=============================================================================
