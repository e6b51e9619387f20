---------------------------- MODULE ComputeDigest ----------------------------
(***************************************************************************)
(* libfsverity_compute_digest() of lib/compute_digest.c, composed with     *)
(* compute_root_hash() (MerkleTree) and the hash context it owns           *)
(* (lib/hash_algs.c).  While dpc is "root" the steps are MerkleTree's.     *)
(***************************************************************************)
EXTENDS MerkleTree, HashAlgs

CONSTANTS Params, Null

\* struct libfsverity_digest for parameters p and a root hash
DigestOf(p, root_hash) ==
  [digest_algorithm |-> HashAlgOf(p), digest_size |-> GetDigestSize(HashAlgOf(p)),
   digest |-> DescriptorOf(p, root_hash)]

\* Calls of the types the fields have (a u32 block size fits in a u64), of a
\* file above which a block still fits: this last is the caller's duty.
ASSUME ParamsAssumption ==
  /\ DefaultBlockSize \in Nat /\ MaxSaltSize \in Nat
  /\ \A p \in Params :
       /\ p.file_size \in Nat /\ p.block_size \in Nat /\ p.salt_size \in Nat
       /\ p.cbs \in SUBSET Callbacks
       /\ BlockSizeOf(p) <= Word
       /\ SizeFits(RootArgs(p))
       /\ ValidCall(RootArgs(p)) /\ p.salt_size <= MaxSaltSize => RootArgs(p) \in Calls
\* The digests of the table's algorithms have 32 and 64 bytes.
ASSUME DigestSizeAssumption ==
  \A n \in DOMAIN HashAlgTable : \E k \in 0 .. WordBits : HashAlgTable[n].digest_size = 2^k
\* What exponentiation is, of which the provers know nothing
ASSUME ExponentAssumption ==
  \A n \in {WordBits} \cup {BlockSizeOf(p) : p \in Params} : \A k \in 0 .. n :
    2^k \in Nat \ {0} /\ \A j \in 0 .. k : 2^k = 2^j * 2^(k - j)
ASSUME NullAssumption ==
  \A p \in Params, r \in {Zero} \cup ((-1 .. MaxLevels) \X {0}) : DigestOf(p, r) # Null

VARIABLES
  dpc, params, derr,
  heap,         \* what this function has allocated and not freed
  desc_calls,   \* what descriptor() was called with, in order
  digest_ret    \* *digest_ret

dvars == <<dpc, params, derr, heap, desc_calls, digest_ret>>
allvars == <<vars, dvars>>

DigestInit ==
  /\ StartState /\ args = Null
  /\ dpc = "entry" /\ params = Null /\ derr = Ok
  /\ heap = {} /\ desc_calls = <<>> /\ digest_ret = Null

DGoto(label, e) == dpc' = label /\ derr' = e

Enter ==
  /\ dpc = "entry"
  /\ params' \in Params
  /\ DGoto("check", derr)
  /\ UNCHANGED <<vars, heap, desc_calls, digest_ret>>

\* Mutants: a check is missing.
BadParamsNoMinimum(p) ==
  \/ ~p.pointers \/ p.version # 1 \/ ~IsPowerOf2(BlockSizeOf(p))
  \/ p.salt_size > MaxSaltSize \/ (p.salt_size # 0 /\ ~p.salt)
  \/ ~p.reserved_zero \/ ~KnownHashAlg(HashAlgOf(p))
BadParamsAnyBlockSize(p) ==
  \/ ~p.pointers \/ p.version # 1
  \/ p.salt_size > MaxSaltSize \/ (p.salt_size # 0 /\ ~p.salt)
  \/ ~p.reserved_zero \/ ~KnownHashAlg(HashAlgOf(p))
  \/ BlockSizeOf(p) < 2 * GetDigestSize(HashAlgOf(p))

\* The conditions that return -EINVAL, in the code's order.
BadParams(p) ==
  \/ ~p.pointers
  \/ p.version # 1
  \/ ~IsPowerOf2(BlockSizeOf(p))
  \/ p.salt_size > MaxSaltSize
  \/ p.salt_size # 0 /\ ~p.salt
  \/ ~p.reserved_zero
  \/ ~KnownHashAlg(HashAlgOf(p))
  \/ BlockSizeOf(p) < 2 * GetDigestSize(HashAlgOf(p))

CheckParams ==
  /\ dpc = "check"
  /\ \/ BadParams(params) /\ DGoto("done", "bad params")
     \/ ~BadParams(params) /\ DGoto("ctx", derr)
  /\ UNCHANGED <<vars, params, heap, desc_calls, digest_ret>>

\* hash_alg->create_ctx(): the context, then OpenSSL's context inside it
AllocCtx ==
  /\ dpc = "ctx" /\ heap = {}
  /\ \/ heap' = {"ctx"} /\ DGoto("ctx", derr)
     \/ DGoto("done", "ENOMEM") /\ UNCHANGED heap
  /\ UNCHANGED <<vars, params, desc_calls, digest_ret>>

\* Mutant: the outer context is not freed when the inner one fails.
AllocMdCtxLeaks ==
  /\ dpc = "ctx" /\ "ctx" \in heap
  /\ \/ /\ heap' = heap \cup {"md_ctx"}
        /\ args' = RootArgs(params)
        /\ DGoto("root", derr)
     \/ DGoto("done", "ENOMEM") /\ UNCHANGED <<heap, args>>
  /\ UNCHANGED <<pc, err, blocks, num_levels, level, level_offset, offset,
                 buffers, outside, history, params, desc_calls, digest_ret>>

\* EVP_MD_size() is the table's digest_size: the WARN_ON after it is left out.
AllocMdCtx ==
  /\ dpc = "ctx" /\ "ctx" \in heap
  /\ \/ /\ heap' = heap \cup {"md_ctx"}
        /\ args' = RootArgs(params)
        /\ DGoto("root", derr)
     \/ /\ heap' = heap \ {"ctx"}
        /\ DGoto("done", "ENOMEM")
        /\ UNCHANGED args
  /\ UNCHANGED <<pc, err, blocks, num_levels, level, level_offset, offset,
                 buffers, outside, history, params, desc_calls, digest_ret>>

RootStep == dpc = "root" /\ Step /\ UNCHANGED dvars

\* Mutant: the error of compute_root_hash() is ignored.
RootReturnsIgnored ==
  /\ dpc = "root" /\ pc = "done"
  /\ DGoto("descriptor", Ok)
  /\ UNCHANGED <<vars, params, heap, desc_calls, digest_ret>>

RootReturns ==
  /\ dpc = "root" /\ pc = "done"
  /\ DGoto(IF err = Ok THEN "descriptor" ELSE "out", err)
  /\ UNCHANGED <<vars, params, heap, desc_calls, digest_ret>>

\* compute_root_hash() left the root hash in the descriptor.
Descriptor == DescriptorOf(params, RootHash)

\* Mutant: the descriptor is reported as it was before the root hash.
ReportDescriptorEarly ==
  /\ dpc = "descriptor"
  /\ desc_calls' = IF "descriptor" \in params.cbs
                     THEN Append(desc_calls, DescriptorOf(params, Zero))
                     ELSE desc_calls
  /\ DGoto("digest", derr)
  /\ UNCHANGED <<vars, params, heap, digest_ret>>

ReportDescriptor ==
  /\ dpc = "descriptor"
  /\ \/ /\ "descriptor" \notin params.cbs
        /\ DGoto("digest", derr) /\ UNCHANGED desc_calls
     \/ /\ "descriptor" \in params.cbs
        /\ desc_calls' = Append(desc_calls, Descriptor)
        /\ DGoto("digest", derr) \/ DGoto("out", "callback error")
  /\ UNCHANGED <<vars, params, heap, digest_ret>>

AllocDigest ==
  /\ dpc = "digest"
  /\ \/ /\ heap' = heap \cup {"digest"}
        /\ digest_ret' = DigestOf(params, RootHash)
        /\ DGoto("out", Ok)
     \/ DGoto("out", "ENOMEM") /\ UNCHANGED <<heap, digest_ret>>
  /\ UNCHANGED <<vars, params, desc_calls>>

\* libfsverity_free_hash_ctx()
FreeCtx ==
  /\ dpc = "out"
  /\ heap' = heap \ {"md_ctx", "ctx"}
  /\ DGoto("done", derr)
  /\ UNCHANGED <<vars, params, desc_calls, digest_ret>>

DigestStep ==
  \/ Enter \/ CheckParams \/ AllocCtx \/ AllocMdCtx
  \/ RootStep \/ RootReturns
  \/ ReportDescriptor \/ AllocDigest \/ FreeCtx

DigestReturned == dpc = "done" /\ UNCHANGED allvars

DigestNext == DigestStep \/ DigestReturned

\* As for compute_root_hash(): the calling thread runs, callbacks return.
DigestComputation == DigestInit /\ [][DigestNext]_allvars /\ WF_allvars(DigestStep)

----------------------------------------------------------------------------
(***************************************************************************)
(* The checks of libfsverity_compute_digest() establish what               *)
(* compute_root_hash() relies on and never checks itself: blocks of a      *)
(* power of two bytes that hold whole digests, at least two of them, so    *)
(* that its levels shrink.  That a block fits above the file (SizeFits)    *)
(* is checked by neither and no part of this.                              *)
(***************************************************************************)
RootHashPrecondition == dpc = "root" => CheckedCall(args)

(***************************************************************************)
(* When the call returns, on every path, the only allocation left is the   *)
(* digest, and only if the call succeeded: the caller frees exactly what   *)
(* *digest_ret points to.                                                  *)
(***************************************************************************)
CallerOwnsDigest ==
  dpc = "done" =>
    /\ heap = (IF derr = Ok THEN {"digest"} ELSE {})
    /\ digest_ret # Null <=> derr = Ok
    /\ padded_salt # "heap" /\ \A l \in Levels : mem[l] # "heap"

(***************************************************************************)
(* The digest that is returned is that of the descriptor that the          *)
(* descriptor callback was given, and its root hash is the top of the      *)
(* tree of the whole file (zeros for an empty one).                        *)
(***************************************************************************)
DigestOfWholeFile ==
  digest_ret # Null =>
    LET a    == RootArgs(params)
        root == IF params.file_size = 0 THEN Zero ELSE <<RefLevels(a) - 1, 0>>
    IN  /\ digest_ret.digest = DescriptorOf(params, root)
        /\ pos = params.file_size
        /\ \A b \in RefTree(a) : b[2] < Len(tree[b[1]])
        /\ "descriptor" \in params.cbs => desc_calls = <<digest_ret.digest>>

(***************************************************************************)
(* libfsverity_compute_digest() keeps the promise of DigestSpec.           *)
(***************************************************************************)
Result ==
  CASE dpc = "entry" -> "idle"
    [] dpc \in {"out", "done"} -> IF derr = Ok THEN "ok" ELSE "failed"
    [] dpc = "root" /\ pc \in {"out", "done"} /\ err # Ok -> "failed"
    [] OTHER -> "running"

Promise == INSTANCE DigestSpec
  WITH NoCall <- Null, call <- params, told_size <- tree_size # None,
       told_blocks <- IF block_calls = <<>> THEN {} ELSE TreeBlocksDone,
       told_desc <- desc_calls # <<>>, result <- Result

ImplementsDigestSpec == Promise!Spec

\* The failure that ends the call, once there is one
Failure == IF derr # Ok THEN derr ELSE err

(***************************************************************************)
(* The first failure, the function's own or one of read_fn or a callback   *)
(* at any level of the tree, ends the call: nothing more is read, no       *)
(* callback is made and no digest returned after it, and it is what        *)
(* libfsverity_compute_digest() returns (libfsverity.h: "or an error       *)
(* returned by @read_fn or by one of the @params->metadata_callbacks").    *)
(***************************************************************************)
FailureIsFinal ==
  [][Failure # Ok =>
       /\ UNCHANGED <<outside, desc_calls, digest_ret, Failure>>
       /\ dpc' = "done" => derr' = Failure]_allvars
=============================================================================
