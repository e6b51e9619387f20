--------------------------- MODULE MerkleReference ---------------------------
(***************************************************************************)
(* The Merkle tree of a file, defined in closed form and independently of  *)
(* the way lib/compute_digest.c computes it.  "a" is the argument record   *)
(* of compute_root_hash().  Level -1 holds the data blocks; the levels     *)
(* 0 .. RefLevels(a)-1 hold the tree blocks, the last one a single block.  *)
(***************************************************************************)
EXTENDS Integers, FiniteSets

CeilDiv(n, d) == (n + d - 1) \div d

RefHashesPerBlock(a) == a.block_size \div a.digest_size

\* A block of level l covers block_size * hashes_per_block^(l+1) file bytes.
RefBlocks(a, l) ==
  CeilDiv(a.file_size, a.block_size * RefHashesPerBlock(a)^(l + 1))

RefLevels(a) ==
  CHOOSE n \in 0 .. a.file_size :
    /\ RefBlocks(a, n - 1) <= 1
    /\ \A m \in 0 .. n - 1 : RefBlocks(a, m - 1) > 1

\* The blocks of the tree that is hashed, data blocks included.
RefTree(a) ==
  UNION {{<<l, k>> : k \in 0 .. RefBlocks(a, l) - 1} :
         l \in -1 .. RefLevels(a) - 1}

\* The root level comes first in the stored tree, level l after those above it.
RefStart(a, l) == Cardinality({b \in RefTree(a) : b[1] > l})

RefTreeSize(a) == a.block_size * RefStart(a, -1)

RefOffset(a, l, k) == a.block_size * (RefStart(a, l) + k)

\* What block k of level l holds, zero being what pads it.
RefContent(a, l, k, zero) ==
  IF l = -1
    THEN [i \in 0 .. a.block_size - 1 |->
            LET p == k * a.block_size + i
            IN  IF p < a.file_size THEN p ELSE zero]
    ELSE [i \in 0 .. RefHashesPerBlock(a) - 1 |->
            LET c == k * RefHashesPerBlock(a) + i
            IN  IF c < RefBlocks(a, l - 1) THEN <<l - 1, c>> ELSE zero]

\* The blocks whose digests block k of level l holds.
RefChildren(a, l, k) ==
  IF l = -1 THEN {}
            ELSE {<<l - 1, c>> : c \in {c \in 0 .. RefBlocks(a, l - 1) - 1 :
                                          c \div RefHashesPerBlock(a) = k}}
=============================================================================
