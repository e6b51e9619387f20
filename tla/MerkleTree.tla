----------------------------- MODULE MerkleTree -----------------------------
(***************************************************************************)
(* compute_root_hash() of lib/compute_digest.c: one pass over a file that  *)
(* builds its Merkle tree bottom-up in one pending block per level, hands  *)
(* every finished tree block to the caller's metadata callbacks and leaves *)
(* the root hash in the caller's buffer.                                   *)
(*                                                                         *)
(* Hashes are symbolic.  "tree" records what was hashed: tree[l][k+1] is   *)
(* the content of the k-th block hashed at level l (level -1: the data     *)
(* blocks), and its digest is the name <<l, k>>.  Two digests are equal    *)
(* only if they name the same block, i.e. the hash has no collisions.      *)
(* The byte at position p of the file is the number p.                     *)
(***************************************************************************)
EXTENDS Integers, Sequences, MerkleReference

CONSTANTS
  WordBits,    \* the width of u64
  MaxLevels,   \* FS_VERITY_MAX_LEVELS
  Calls,       \* the argument records compute_root_hash() is called with
  Zero         \* what memset(.., 0, ..) and zalloc leave in a buffer

Word == 2^WordBits

Callbacks == {"merkle_tree_size", "merkle_tree_block", "descriptor"}
\* An error is named by where it arises: -ENOMEM, the -EINVAL of a WARN_ON, or
\* whatever read_fn or a callback returned, which may be any error code.
Errors == {"ENOMEM", "WARN_ON", "read_fn error", "callback error"}
Ok == "0"
None == -1    \* a size that was not reported

\* What libfsverity_compute_digest() has checked before the call
CheckedCall(a) ==
  /\ a.file_size \in Nat
  /\ a.block_size \in Nat
  /\ a.digest_size \in Nat \ {0}
  /\ a.salt_size \in Nat
  /\ a.cbs \in SUBSET Callbacks
  /\ a.block_size = a.digest_size * (a.block_size \div a.digest_size)
  /\ a.block_size >= 2 * a.digest_size
  /\ \E k \in 0 .. WordBits : a.block_size * 2^k = Word   \* a power of two

\* What nothing checks: a whole block fits above the file in a u64, as it does
\* above every st_size.
SizeFits(a) == a.file_size + a.block_size <= Word

ValidCall(a) == CheckedCall(a) /\ SizeFits(a)

ASSUME WidthAssumption ==
  /\ WordBits \in Nat
  /\ MaxLevels \in Nat
  /\ WordBits <= MaxLevels
\* What exponentiation is, of which the provers know nothing
ASSUME PowerAssumption ==
  /\ 2^0 = 1
  /\ \A k \in 0 .. MaxLevels : 2^k \in Nat /\ 2^(k + 1) = 2 * 2^k
ASSUME HeightAssumption ==
  \A a \in Calls :
    LET h == RefHashesPerBlock(a)
    IN  h^0 = 1 /\ \A k \in 0 .. MaxLevels : h^k \in Nat \ {0} /\ h^(k + 1) = h * h^k
ASSUME CallsAssumption == \A a \in Calls : ValidCall(a)

VARIABLES
  \* locals of compute_root_hash()
  pc, args, blocks, num_levels, level, level_offset, offset, err,
  filled,       \* buffers[level].filled, for levels -1 .. MaxLevels
  data,         \* buffers[level].data: its contents, by byte or by digest slot
  mem,          \* buffers[level].data: what the pointer points to
  padded_salt,
  \* the world outside
  pos,          \* bytes read_fn has delivered
  tree_size,    \* what merkle_tree_size() was called with
  block_calls,  \* what merkle_tree_block() was called with, in order
  \* history
  tree,         \* what was hashed
  nblocks       \* the number of blocks computed for each level

locals == <<args, blocks, num_levels, level, level_offset, offset>>
buffers == <<filled, data, mem, padded_salt>>
outside == <<pos, tree_size, block_calls>>
history == <<tree, nblocks>>
vars == <<pc, err, locals, buffers, outside, history>>

Levels == -1 .. MaxLevels

----------------------------------------------------------------------------
\* Arithmetic of the code: u64 wraps.

DivRoundUp(n, d) == ((n + d - 1) % Word) \div d

HashesPerBlock == args.block_size \div args.digest_size

\* The positions of a buffer: bytes of a data block, digests of a tree block.
Slots(l) == 0 .. (IF l = -1 THEN args.block_size ELSE HashesPerBlock) - 1

UsedSlots(l) == filled[l] \div args.digest_size

Extend(f, k, v) == [x \in DOMAIN f \cup {k} |-> IF x = k THEN v ELSE f[x]]

----------------------------------------------------------------------------
StartState ==
  /\ pc = "start"
  /\ err = Ok
  /\ blocks = 0 /\ num_levels = 0 /\ level = -1 /\ offset = 0
  /\ level_offset = <<>>
  /\ filled = [l \in Levels |-> 0]
  /\ data = [l \in Levels |-> <<>>]
  /\ mem = [l \in Levels |-> "NULL"]
  /\ padded_salt = "NULL"
  /\ pos = 0 /\ tree_size = None /\ block_calls = <<>>
  /\ tree = [l \in -1 .. MaxLevels - 1 |-> <<>>]
  /\ nblocks = [l \in -1 .. MaxLevels - 1 |-> 0]

Init == args \in Calls /\ StartState

Goto(label) == pc' = label /\ err' = err
Leave(label, e) == pc' = label /\ err' = e

----------------------------------------------------------------------------
\* The metadata callbacks; each one may be absent, and may fail.

ReportSize(size, next, exit) ==
  \/ /\ "merkle_tree_size" \notin args.cbs
     /\ Goto(next) /\ UNCHANGED tree_size
  \/ /\ "merkle_tree_size" \in args.cbs
     /\ tree_size' = size
     /\ Goto(next) \/ Leave(exit, "callback error")

\* Mutant: the level's next block is not advanced.
ReportBlockInPlace(l, block, next) ==
  \/ /\ "merkle_tree_block" \notin args.cbs
     /\ level' = l + 1
     /\ Goto(next) /\ UNCHANGED <<block_calls, level_offset>>
  \/ /\ "merkle_tree_block" \in args.cbs
     /\ block_calls' = Append(block_calls,
          [offset |-> (level_offset[l] * args.block_size) % Word,
           block |-> block])
     /\ level' = l + 1
     /\ Goto(next) /\ UNCHANGED level_offset

\* The block just hashed is still in its buffer.  Then the next level's turn.
ReportBlock(l, block, next) ==
  \/ /\ "merkle_tree_block" \notin args.cbs
     /\ level' = l + 1
     /\ Goto(next) /\ UNCHANGED <<block_calls, level_offset>>
  \/ /\ "merkle_tree_block" \in args.cbs
     /\ block_calls' = Append(block_calls,
          [offset |-> (level_offset[l] * args.block_size) % Word,
           block |-> block])
     /\ \/ /\ level_offset' = [level_offset EXCEPT ![l] = (@ + 1) % Word]
           /\ level' = l + 1
           /\ Goto(next)
        \/ /\ Leave("out", "callback error")
           /\ UNCHANGED <<level_offset, level>>

\* Mutant: the rest of a short block is not zeroed.
PaddedNot(block, used) == block

\* hash_one_block(): "block" is the buffer's contents, "used" of it filled.
Padded(block, used) == [i \in DOMAIN block |-> IF i < used THEN block[i] ELSE Zero]

\* Mutant: cur->filled is not reset.
HashOneBlockKeepsFilled(cur, block, used) ==
  LET digest == <<cur, Len(tree[cur])>>
      slot   == UsedSlots(cur + 1)
  IN  /\ tree' = [tree EXCEPT ![cur] = Append(@, Padded(block, used))]
      /\ data' = [data EXCEPT ![cur] = Padded(block, used),
                              ![cur + 1] = [@ EXCEPT ![slot] = digest]]
      /\ filled' = [filled EXCEPT ![cur + 1] = @ + args.digest_size]

HashOneBlock(cur, block, used) ==
  LET digest == <<cur, Len(tree[cur])>>
      slot   == UsedSlots(cur + 1)
  IN  /\ tree' = [tree EXCEPT ![cur] = Append(@, Padded(block, used))]
      /\ data' = [data EXCEPT ![cur] = Padded(block, used),
                              ![cur + 1] = [@ EXCEPT ![slot] = digest]]
      /\ filled' = [filled EXCEPT ![cur] = 0,
                                  ![cur + 1] = @ + args.digest_size]

\* Mutants: full one digest too late, or one too early.
BlockIsFullLate(l) == filled[l] > args.block_size
BlockIsFullEarly(l) == filled[l] + 2 * args.digest_size > args.block_size

BlockIsFull(l) == filled[l] + args.digest_size > args.block_size

----------------------------------------------------------------------------
\* The empty file: no tree, and a root hash of zeros.
StartEmpty ==
  /\ pc = "start" /\ args.file_size = 0
  /\ data' = [data EXCEPT ![0] = [i \in {0} |-> Zero]]
  /\ ReportSize(0, "done", "done")
  /\ UNCHANGED <<locals, filled, mem, padded_salt, pos, block_calls, history>>

AllocSaltFails ==
  /\ pc = "start" /\ args.file_size # 0 /\ args.salt_size # 0
  /\ Leave("done", "ENOMEM")
  /\ UNCHANGED <<locals, buffers, outside, history>>

Start ==
  /\ pc = "start" /\ args.file_size # 0
  /\ padded_salt' = IF args.salt_size # 0 THEN "heap" ELSE "NULL"
  /\ blocks' = DivRoundUp(args.file_size, args.block_size)
  /\ nblocks' = [nblocks EXCEPT ![-1] = blocks']
  /\ Goto("levels")
  /\ UNCHANGED <<args, num_levels, level, level_offset, offset, filled, data,
                 mem, outside, tree>>

CountLevel ==
  /\ pc = "levels" /\ blocks > 1
  /\ IF num_levels >= MaxLevels     \* WARN_ON
       THEN /\ Leave("out", "WARN_ON")
            /\ UNCHANGED <<blocks, level_offset, nblocks, num_levels>>
       ELSE /\ blocks' = DivRoundUp(blocks, HashesPerBlock)
            /\ level_offset' = Extend(level_offset, num_levels, blocks')
            /\ nblocks' = [nblocks EXCEPT ![num_levels] = blocks']
            /\ num_levels' = num_levels + 1
            /\ Goto("levels")
  /\ UNCHANGED <<args, level, offset, buffers, outside, tree>>

LevelsCounted ==
  /\ pc = "levels" /\ blocks <= 1
  /\ offset' = 0 /\ level' = num_levels - 1
  /\ Goto("layout")
  /\ UNCHANGED <<args, blocks, num_levels, level_offset, buffers, outside,
                 history>>

PlaceLevel ==
  /\ pc = "layout" /\ level >= 0
  /\ blocks' = level_offset[level]
  /\ level_offset' = [level_offset EXCEPT ![level] = offset]
  /\ offset' = (offset + blocks') % Word
  /\ level' = level - 1
  /\ Goto("layout")
  /\ UNCHANGED <<args, num_levels, buffers, outside, history>>

LayoutDone ==
  /\ pc = "layout" /\ level < 0
  /\ ReportSize((offset * args.block_size) % Word, "alloc", "out")
  /\ level' = -1
  /\ UNCHANGED <<args, blocks, num_levels, level_offset, offset, buffers, pos,
                 block_calls, history>>

AllocBuffer ==
  /\ pc = "alloc" /\ level < num_levels
  /\ \/ /\ mem' = [mem EXCEPT ![level] = "heap"]
        /\ data' = [data EXCEPT ![level] = [i \in Slots(level) |-> Zero]]
        /\ level' = level + 1
        /\ Goto("alloc")
     \/ /\ Leave("out", "ENOMEM")
        /\ UNCHANGED <<mem, data, level>>
  /\ UNCHANGED <<args, blocks, num_levels, level_offset, offset, filled,
                 padded_salt, outside, history>>

\* buffers[num_levels].data = root_hash, a field of the caller's descriptor
AllocDone ==
  /\ pc = "alloc" /\ level >= num_levels
  /\ mem' = [mem EXCEPT ![num_levels] = "root_hash"]
  /\ data' = [data EXCEPT ![num_levels] = [i \in {0} |-> Zero]]
  /\ offset' = 0
  /\ Goto("read")
  /\ UNCHANGED <<args, blocks, num_levels, level, level_offset, filled,
                 padded_salt, outside, history>>

\* The number of bytes the next read asks for.
ReadCount == IF args.block_size < args.file_size - offset
               THEN args.block_size ELSE args.file_size - offset

ReadBlock ==
  /\ pc = "read" /\ offset < args.file_size
  /\ LET block == [i \in Slots(-1) |->
                     IF i < ReadCount THEN pos + i ELSE data[-1][i]]
     IN  HashOneBlock(-1, block, ReadCount)
  /\ pos' = pos + ReadCount
  /\ level' = 0
  /\ Goto("cascade")
  /\ UNCHANGED <<args, blocks, num_levels, level_offset, offset, mem,
                 padded_salt, tree_size, block_calls, nblocks>>

\* Mutant: the error of read_fn is lost.
ReadFailsSilently ==
  /\ pc = "read" /\ offset < args.file_size
  /\ filled' = [filled EXCEPT ![-1] = ReadCount]
  /\ Leave("out", Ok)
  /\ UNCHANGED <<locals, data, mem, padded_salt, outside, history>>

ReadFails ==
  /\ pc = "read" /\ offset < args.file_size
  /\ filled' = [filled EXCEPT ![-1] = ReadCount]
  /\ Leave("out", "read_fn error")
  /\ UNCHANGED <<locals, data, mem, padded_salt, outside, history>>

\* Hash the pending block of a level and report it.
FinishBlock(next) ==
  /\ HashOneBlock(level, data[level], UsedSlots(level))
  /\ ReportBlock(level, Padded(data[level], UsedSlots(level)), next)
  /\ UNCHANGED <<args, blocks, num_levels, offset, mem, padded_salt, pos,
                 tree_size, nblocks>>

Cascade ==
  /\ pc = "cascade" /\ level < num_levels
  /\ BlockIsFull(level)
  /\ FinishBlock("cascade")

CascadeDone ==
  /\ pc = "cascade"
  /\ level < num_levels => ~BlockIsFull(level)
  /\ offset' = (offset + args.block_size) % Word
  /\ Goto("read")
  /\ UNCHANGED <<args, blocks, num_levels, level, level_offset, buffers,
                 outside, history>>

\* Mutant: the pending blocks are finished from level 1 on.
EndOfDataSkipsLevel ==
  /\ pc = "read" /\ offset >= args.file_size
  /\ level' = 1
  /\ Goto("flush")
  /\ UNCHANGED <<args, blocks, num_levels, level_offset, offset, buffers,
                 outside, history>>

EndOfData ==
  /\ pc = "read" /\ offset >= args.file_size
  /\ level' = 0
  /\ Goto("flush")
  /\ UNCHANGED <<args, blocks, num_levels, level_offset, offset, buffers,
                 outside, history>>

Flush ==
  /\ pc = "flush" /\ level < num_levels
  /\ filled[level] # 0
  /\ FinishBlock("flush")

\* Mutant: a level with nothing pending is looked at again and again.
FlushNothingStays ==
  /\ pc = "flush" /\ level < num_levels
  /\ filled[level] = 0
  /\ UNCHANGED vars

FlushNothing ==
  /\ pc = "flush" /\ level < num_levels
  /\ filled[level] = 0
  /\ level' = level + 1
  /\ Goto("flush")
  /\ UNCHANGED <<args, blocks, num_levels, level_offset, offset, buffers,
                 outside, history>>

\* WARN_ON(buffers[num_levels].filled != digest_size)
CheckRoot ==
  /\ pc = "flush" /\ level >= num_levels
  /\ IF filled[num_levels] # args.digest_size
       THEN Leave("out", "WARN_ON")
       ELSE Leave("out", Ok)
  /\ UNCHANGED <<locals, buffers, outside, history>>

\* Mutant: the data buffer, at level -1, is not freed.
OutLeaksData ==
  /\ pc = "out"
  /\ mem' = [l \in Levels |->
               IF l \in 0 .. num_levels - 1 /\ mem[l] # "NULL" THEN "freed" ELSE mem[l]]
  /\ padded_salt' = IF padded_salt = "NULL" THEN "NULL" ELSE "freed"
  /\ level' = num_levels
  /\ Goto("done")
  /\ UNCHANGED <<args, blocks, num_levels, level_offset, offset, filled, data,
                 outside, history>>

\* free() of every buffer below num_levels and of the padded salt
Out ==
  /\ pc = "out"
  /\ mem' = [l \in Levels |->
               IF l < num_levels /\ mem[l] # "NULL" THEN "freed" ELSE mem[l]]
  /\ padded_salt' = IF padded_salt = "NULL" THEN "NULL" ELSE "freed"
  /\ level' = num_levels
  /\ Goto("done")
  /\ UNCHANGED <<args, blocks, num_levels, level_offset, offset, filled, data,
                 outside, history>>

Step ==
  \/ StartEmpty \/ AllocSaltFails \/ Start
  \/ CountLevel \/ LevelsCounted
  \/ PlaceLevel \/ LayoutDone
  \/ AllocBuffer \/ AllocDone
  \/ ReadBlock \/ ReadFails \/ Cascade \/ CascadeDone \/ EndOfData
  \/ Flush \/ FlushNothing \/ CheckRoot
  \/ Out

\* The call has returned.
Returned == pc = "done" /\ UNCHANGED vars

Next == Step \/ Returned

\* The caller's thread keeps running the function, and read_fn and the
\* callbacks return.
Spec == Init /\ [][Next]_vars /\ WF_vars(Step)

----------------------------------------------------------------------------
\* A data block holds file bytes, a tree block digests of the level below.
Cells(l) == {Zero} \cup (IF l = -1 THEN Nat ELSE {l - 1} \X Nat)

Blocks(l) == [Slots(l) -> Cells(l)]

LocalsOK ==
  /\ pc \in {"start", "levels", "layout", "alloc", "read", "cascade", "flush",
             "out", "done"}
  /\ err \in Errors \cup {Ok}
  /\ args \in Calls
  /\ blocks \in Nat /\ num_levels \in 0 .. MaxLevels
  /\ level \in Levels /\ offset \in Nat
  /\ level_offset \in [0 .. num_levels - 1 -> Nat]
  /\ filled \in [Levels -> Nat]
  /\ mem \in [Levels -> {"NULL", "heap", "root_hash", "freed"}]
  /\ padded_salt \in {"NULL", "heap", "freed"}
  /\ pos \in Nat /\ tree_size \in Nat \cup {None}
  /\ nblocks \in [-1 .. MaxLevels - 1 -> Nat]

DataOK ==
  /\ DOMAIN data = Levels
  /\ \A l \in Levels : \/ data[l] = <<>>
                       \/ l = num_levels /\ data[l] \in [{0} -> Cells(l)]
                       \/ l # num_levels /\ data[l] \in Blocks(l)

TreeOK ==
  /\ DOMAIN tree = -1 .. MaxLevels - 1
  /\ \A l \in DOMAIN tree : tree[l] \in Seq(Blocks(l))

TypeOK == LocalsOK /\ DataOK /\ TreeOK

(***************************************************************************)
(* No pending block ever holds more than fits its buffer: block_size bytes *)
(* for the data and tree buffers, one digest for the root hash.  This is   *)
(* what keeps the write at &next->data[next->filled] and the memset of     *)
(* block_size - filled bytes in hash_one_block() inside their memory.      *)
(***************************************************************************)
Capacity(l) == IF l < num_levels THEN args.block_size ELSE args.digest_size

BuffersInBounds ==
  /\ \A l \in -1 .. num_levels : filled[l] <= Capacity(l)
  /\ \A l \in num_levels + 1 .. MaxLevels : filled[l] = 0

(***************************************************************************)
(* Neither WARN_ON of compute_root_hash() fires: a tree never has more     *)
(* levels than level_offset[] has entries, and the last hash_one_block()   *)
(* fills the root hash exactly.                                            *)
(***************************************************************************)
NoInternalError == err # "WARN_ON"

(***************************************************************************)
(* Every block that is hashed holds what the file's Merkle tree has at its *)
(* place: the digests of its children, in order, and zeros after the last  *)
(* one.  Nothing of an earlier block of the level, whose memory it reuses, *)
(* is left in it.                                                          *)
(***************************************************************************)
TreeShape ==
  \A l \in DOMAIN tree : \A k \in 1 .. Len(tree[l]) :
    /\ <<l, k - 1>> \in RefTree(args)
    /\ tree[l][k] = RefContent(args, l, k - 1, Zero)

(***************************************************************************)
(* merkle_tree_block() is called exactly once for each tree block that was *)
(* hashed, with its content and its offset in a tree stored root level     *)
(* first, although blocks of different levels finish interleaved.          *)
(***************************************************************************)
TreeBlocksDone ==
  UNION {{l} \X (0 .. Len(tree[l]) - 1) : l \in 0 .. MaxLevels - 1}

ReportedLayout ==
  "merkle_tree_block" \in args.cbs =>
    /\ Len(block_calls) = Cardinality(TreeBlocksDone)
    /\ \A b \in TreeBlocksDone : \E i \in DOMAIN block_calls :
         block_calls[i] = [offset |-> RefOffset(args, b[1], b[2]),
                           block |-> RefContent(args, b[1], b[2], Zero)]

(***************************************************************************)
(* A call that returns 0 has read the whole file, hashed every block of    *)
(* its tree, announced the tree's size, and left the digest of the top     *)
(* block in root_hash (zeros for an empty file).                           *)
(***************************************************************************)
RootHash == data[num_levels][0]

SuccessMeansWholeTree ==
  pc = "done" /\ err = Ok =>
    /\ pos = args.file_size
    /\ "merkle_tree_size" \in args.cbs => tree_size = RefTreeSize(args)
    /\ \A b \in RefTree(args) : b[2] < Len(tree[b[1]])
    /\ RootHash = IF args.file_size = 0 THEN Zero ELSE <<RefLevels(args) - 1, 0>>

(***************************************************************************)
(* While blocks are hashed every buffer is allocated; when the call        *)
(* returns, on every path, all that was allocated is freed and the         *)
(* caller's root_hash is not.                                              *)
(***************************************************************************)
MemoryOwnership ==
  /\ pc \in {"read", "cascade", "flush"} =>
       /\ \A l \in -1 .. num_levels - 1 : mem[l] = "heap"
       /\ mem[num_levels] = "root_hash"
  /\ pc = "done" => /\ padded_salt # "heap"
                    /\ \A l \in Levels : mem[l] # "heap"
                    /\ mem[num_levels] # "freed"

(***************************************************************************)
(* Every call returns.                                                     *)
(***************************************************************************)
Termination == <>(pc = "done")

(***************************************************************************)
(* compute_root_hash() keeps the promise of MerkleSpec.                    *)
(***************************************************************************)
Status ==
  IF pc \in {"out", "done"} THEN (IF err = Ok THEN "ok" ELSE "failed")
                            ELSE "running"

BlocksDone == UNION {{l} \X (0 .. Len(tree[l]) - 1) : l \in DOMAIN tree}

Abstract == INSTANCE MerkleSpec WITH hashed <- BlocksDone, status <- Status

ImplementsMerkleSpec == Abstract!Spec

----------------------------------------------------------------------------
\* The inductive invariant behind BuffersInBounds and NoInternalError.

Hashing == pc \in {"read", "cascade", "flush"}

\* Blocks hashed at a level, and digests pending in its buffer.
Hashed(l) == Len(tree[l])
Pending(l) == Hashed(l - 1) - HashesPerBlock * Hashed(l)

\* The final loop has closed the levels below this one.
FirstOpen == IF pc = "flush" THEN level ELSE 0

\* Nothing is hashed, and no buffer allocated, before the tree is laid out.
NothingYet ==
  /\ pc = "start" => num_levels = 0
  /\ pc \in {"start", "levels", "layout"} => \A l \in Levels : data[l] = <<>>
  /\ pc \in {"start", "levels", "layout", "alloc"} =>
       /\ filled = [l \in Levels |-> 0]
       /\ tree = [l \in -1 .. MaxLevels - 1 |-> <<>>]

Allocated ==
  /\ pc = "layout" => level \in -1 .. num_levels - 1
  /\ pc = "alloc" => /\ level \in -1 .. num_levels
                     /\ \A l \in -1 .. level - 1 : data[l] \in Blocks(l)
  /\ Hashing => /\ \A l \in -1 .. num_levels - 1 : data[l] \in Blocks(l)
                /\ data[num_levels] \in [{0} -> Cells(num_levels)]

\* Each level has just enough blocks for the digests of the one below it, the
\* last one has one, and a level has at most half the blocks of the one below.
LevelCounts ==
  pc \notin {"start", "out", "done"} =>
    /\ args.file_size > 0
    /\ \A l \in -1 .. num_levels - 1 : nblocks[l] > 0
    /\ args.file_size <= args.block_size * nblocks[-1]
    /\ args.block_size * (nblocks[-1] - 1) < args.file_size
    /\ \A l \in 0 .. num_levels - 1 :
         /\ nblocks[l - 1] <= HashesPerBlock * nblocks[l]
         /\ HashesPerBlock * (nblocks[l] - 1) < nblocks[l - 1]
    /\ pc = "levels" => /\ blocks = nblocks[num_levels - 1]
                        /\ blocks + args.block_size <= Word
                        /\ num_levels <= WordBits
                        /\ blocks - 1 < 2^(WordBits - num_levels)
    /\ pc # "levels" => nblocks[num_levels - 1] = 1

\* A buffer holds the digests of the level below that no block hashed so far
\* has used, and fewer than a block of them once the level had its turn.
PendingCounts ==
  Hashing =>
    /\ pc # "read" => level \in 0 .. num_levels
    /\ filled[-1] = 0
    /\ \A l \in 0 .. FirstOpen - 1 : filled[l] = 0
    /\ \A l \in FirstOpen .. num_levels - 1 :
         /\ 0 <= Pending(l)
         /\ filled[l] = args.digest_size * Pending(l)
         /\ \/ Pending(l) < HashesPerBlock
            \/ pc # "read" /\ l = level /\ Pending(l) = HashesPerBlock
    /\ filled[num_levels] = args.digest_size * Hashed(num_levels - 1)
    /\ \A l \in -1 .. num_levels - 1 : Hashed(l) <= nblocks[l]
    /\ pc = "flush" => \A l \in -1 .. level - 1 : Hashed(l) = nblocks[l]
    /\ pc = "read" => offset = args.block_size * Hashed(-1)
    /\ pc = "cascade" => /\ offset < args.file_size
                         /\ offset + args.block_size = args.block_size * Hashed(-1)

(***************************************************************************)
(* The streaming loops of compute_root_hash() keep each level's buffer in  *)
(* step with the numbers of blocks hashed: the digests in it are those     *)
(* produced below and not yet consumed.  Preserved by every step.          *)
(***************************************************************************)
IInv ==
  TypeOK /\ NoInternalError /\ BuffersInBounds /\ NothingYet /\ Allocated
         /\ LevelCounts /\ PendingCounts
=============================================================================
