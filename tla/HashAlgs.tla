------------------------------ MODULE HashAlgs ------------------------------
(***************************************************************************)
(* The table of hash algorithms of lib/hash_algs.c and the lookups in it,  *)
(* and the sizes that libfsverity_compute_digest() accepts or defaults to. *)
(* The table is a parameter, so that a small instance can have digests of  *)
(* one or two bytes; the code's is                                         *)
(*   1 :> [name |-> "sha256", digest_size |-> 32, block_size |-> 64] @@    *)
(*   2 :> [name |-> "sha512", digest_size |-> 64, block_size |-> 128].     *)
(***************************************************************************)
EXTENDS Integers

CONSTANTS
  HashAlgTable,       \* fsverity_hash_algs[], by number; 0 has no entry
  DefaultHashAlg,     \* FS_VERITY_HASH_ALG_DEFAULT
  DefaultBlockSize,   \* FS_VERITY_BLOCK_SIZE_DEFAULT
  MaxSaltSize         \* sizeof(desc.salt)

ASSUME TableAssumption ==
  /\ \A n \in DOMAIN HashAlgTable :
       n \in Nat \ {0} /\ HashAlgTable[n].digest_size \in Nat \ {0}
  /\ \A m, n \in DOMAIN HashAlgTable :
       HashAlgTable[m].name = HashAlgTable[n].name => m = n

KnownHashAlg(n) == n \in DOMAIN HashAlgTable

\* libfsverity_find_hash_alg_by_name(): 0 for an unknown name
FindHashAlgByName(name) ==
  IF \E n \in DOMAIN HashAlgTable : HashAlgTable[n].name = name
    THEN CHOOSE n \in DOMAIN HashAlgTable : HashAlgTable[n].name = name
    ELSE 0

GetDigestSize(n) == IF KnownHashAlg(n) THEN HashAlgTable[n].digest_size ELSE -1

\* "NULL" for an unknown number
GetHashName(n) == IF KnownHashAlg(n) THEN HashAlgTable[n].name ELSE "NULL"

IsPowerOf2(n) == \E k \in 0 .. n : n = 2^k

Ilog2(n) == CHOOSE k \in 0 .. n : 2^k <= n /\ n < 2^(k + 1)

\* A field that is 0 stands for its default.
HashAlgOf(p) == IF p.hash_algorithm # 0 THEN p.hash_algorithm ELSE DefaultHashAlg
BlockSizeOf(p) == IF p.block_size # 0 THEN p.block_size ELSE DefaultBlockSize

\* The arguments compute_root_hash() gets for parameters p.
RootArgs(p) ==
  [file_size |-> p.file_size, block_size |-> BlockSizeOf(p),
   digest_size |-> GetDigestSize(HashAlgOf(p)), salt_size |-> p.salt_size,
   cbs |-> p.cbs]

\* struct fsverity_descriptor for parameters p and a root hash
DescriptorOf(p, root_hash) ==
  [version |-> 1, hash_algorithm |-> HashAlgOf(p),
   log_blocksize |-> Ilog2(BlockSizeOf(p)), data_size |-> p.file_size,
   salt_size |-> p.salt_size, root_hash |-> root_hash]
=============================================================================
