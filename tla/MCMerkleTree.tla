---------------------------- MODULE MCMerkleTree ----------------------------
(***************************************************************************)
(* Small instances of MerkleTree: every file size up to the largest one a  *)
(* WordBits-wide integer admits, every pair of sizes in BlockDigest, a     *)
(* salt or none, and some or all of the callbacks.                         *)
(***************************************************************************)
EXTENDS MerkleTree

CONSTANTS BlockDigest, CallbackSets

MCCalls ==
  UNION {[file_size : 0 .. 2^WordBits - p[1], block_size : {p[1]},
          digest_size : {p[2]}, salt_size : {0, 1}, cbs : CallbackSets] :
         p \in BlockDigest}

MCBlockDigest == {<<2, 1>>, <<4, 1>>, <<4, 2>>}
MCCallbackSets == {{}, {"merkle_tree_block"}, Callbacks}
=============================================================================
