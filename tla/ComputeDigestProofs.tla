------------------------- MODULE ComputeDigestProofs -------------------------
(***************************************************************************)
(* Proofs about libfsverity_compute_digest() of lib/compute_digest.c: its  *)
(* checks make every call of compute_root_hash() a valid one, so that what *)
(* MerkleTreeProofs and MerkleShapeProofs establish of those calls holds   *)
(* of the digest that it returns; it owns what it allocates; and it keeps  *)
(* the promise of DigestSpec.                                              *)
(***************************************************************************)
EXTENDS ComputeDigest, MerkleShapeProofs

RootInv == IInv /\ ShapeInv

\* compute_root_hash() was called with what the parameters say.
Called == params \in Params /\ ~BadParams(params) /\ args = RootArgs(params)

\* The digest exists.
Made == digest_ret # Null

\* Which allocations are live, and whether there is a digest.
HeapInv ==
  /\ dpc \in {"entry", "check"} => heap = {}
  /\ dpc = "ctx" => heap = {} \/ heap = {"ctx"}
  /\ dpc \in {"root", "descriptor", "digest"} => heap = {"ctx", "md_ctx"}
  /\ dpc = "out" => heap = {"ctx", "md_ctx"} \cup (IF derr = Ok THEN {"digest"} ELSE {})
  /\ dpc = "done" => heap = (IF derr = Ok THEN {"digest"} ELSE {})
  /\ Made <=> dpc \in {"out", "done"} /\ derr = Ok

\* How far the call has come.
PhaseInv ==
  /\ dpc \in {"entry", "check", "ctx", "root", "descriptor", "digest", "out", "done"}
  /\ dpc \in {"entry", "check", "ctx"} => StartState /\ desc_calls = <<>>
  /\ dpc \in {"entry", "check", "ctx", "root", "descriptor", "digest"} => derr = Ok
  /\ dpc \in {"check", "done"} => params \in Params
  /\ dpc = "ctx" => params \in Params /\ ~BadParams(params)
  /\ dpc \in {"root", "descriptor", "digest", "out"} => Called /\ RootInv
  /\ dpc \in {"descriptor", "digest", "out"} => pc = "done"
  /\ dpc = "done" => pc = "start" \/ pc = "done"
  /\ dpc \in {"descriptor", "digest"} => err = Ok
  /\ dpc \in {"root", "descriptor"} => desc_calls = <<>>
  /\ dpc = "digest" /\ "descriptor" \in params.cbs => desc_calls = <<Descriptor>>
  /\ Made => /\ Called /\ RootInv /\ pc = "done" /\ err = Ok
             /\ digest_ret = DigestOf(params, RootHash)
             /\ "descriptor" \in params.cbs => desc_calls = <<Descriptor>>

DigestInv == MemInv /\ HeapInv /\ PhaseInv

----------------------------------------------------------------------------
\* The checks establish what compute_root_hash() relies on.

\* With the sizes a power of two each, a block holds whole digests.
LEMMA WholeDigests ==
  ASSUME NEW p \in Params, NEW m \in 0 .. WordBits, NEW k \in 0 .. BlockSizeOf(p),
         BlockSizeOf(p) = 2^k, 2^k >= 2 * 2^m
  PROVE  \E h \in Nat : 2^k = 2^m * h
<1>1. /\ WordBits \in Nat /\ BlockSizeOf(p) \in Nat /\ k \in Nat /\ m \in Nat
  BY WidthAssumption, ParamsAssumption DEF BlockSizeOf
<1>2. 2^m \in Nat \ {0} /\ \A j \in 0 .. m : 2^m = 2^j * 2^(m - j)
  BY Zenon, ExponentAssumption
<1>3. 2^k \in Nat \ {0} /\ \A j \in 0 .. k : 2^j \in Nat \ {0} /\ 2^k = 2^j * 2^(k - j)
  <2>1. \A j \in 0 .. k : j \in 0 .. BlockSizeOf(p)
    BY <1>1
  <2> QED
    BY Zenon, <2>1, ExponentAssumption
<1>4. m <= k
  <2> SUFFICES ASSUME ~(m <= k) PROVE FALSE
    OBVIOUS
  <2>1. k \in 0 .. m /\ m - k \in 0 .. WordBits
    BY <1>1
  <2>2. 2^m = 2^k * 2^(m - k) /\ 2^(m - k) \in Nat \ {0}
    BY Zenon, <1>2, <2>1, ExponentAssumption
  <2>3. \A x, y \in Nat \ {0} : x * y >= x
    OBVIOUS
  <2>4. 2^m >= 2^k
    BY Zenon, <1>3, <2>2, <2>3
  <2> QED
    BY <1>2, <1>3, <2>4
<1>5. m \in 0 .. k /\ k - m \in 0 .. k
  BY <1>1, <1>4
<1>6. 2^k = 2^m * 2^(k - m) /\ 2^(k - m) \in Nat \ {0}
  BY Zenon, <1>3, <1>5
<1>7. 2^(k - m) \in Nat
  BY <1>6
<1> QED
  BY Zenon, <1>6, <1>7

\* A power of two that is not above the word divides it.
LEMMA DividesWord ==
  ASSUME NEW p \in Params, NEW k \in 0 .. BlockSizeOf(p), BlockSizeOf(p) = 2^k, 2^k <= Word
  PROVE  \E j \in 0 .. WordBits : 2^k * 2^j = Word
<1>1. /\ WordBits \in Nat /\ BlockSizeOf(p) \in Nat /\ k \in Nat /\ WordBits \in 0 .. WordBits
      /\ 0 \in 0 .. MaxLevels
  BY WidthAssumption, ParamsAssumption DEF BlockSizeOf
<1>2. Word \in Nat \ {0} /\ Word = 2^WordBits /\ \A j \in 0 .. WordBits : 2^WordBits = 2^j * 2^(WordBits - j)
  BY Zenon, <1>1, ExponentAssumption DEF Word
<1>3. k <= WordBits
  <2> SUFFICES ASSUME ~(k <= WordBits) PROVE FALSE
    OBVIOUS
  <2> DEFINE d == k - WordBits
  <2>1. /\ WordBits \in 0 .. k /\ d \in 0 .. BlockSizeOf(p) /\ 1 \in 0 .. d /\ d - 1 \in 0 .. BlockSizeOf(p)
    BY <1>1
  <2> HIDE DEF d
  <2>2. 2^k = 2^WordBits * 2^d
    BY Zenon, <2>1, ExponentAssumption DEF d
  <2>3. 2^d \in Nat \ {0} /\ 2^d = 2^1 * 2^(d - 1) /\ 2^(d - 1) \in Nat \ {0}
    BY Zenon, <2>1, ExponentAssumption
  <2>4. 2^1 = 2
    <3>1. 2^(0 + 1) = 2 * 2^0 /\ 2^0 = 1
      BY Zenon, <1>1, PowerAssumption
    <3>2. 0 + 1 = 1 /\ 2 * 1 = 2
      OBVIOUS
    <3> QED
      BY Zenon, <3>1, <3>2
  <2>5. \A x, y \in Nat \ {0} : x * (2 * y) > x
    OBVIOUS
  <2>6. 2^k > Word
    BY Zenon, <1>2, <2>2, <2>3, <2>4, <2>5
  <2>7. 2^k \in Nat
    BY <1>1
  <2> QED
    BY <1>2, <2>6, <2>7
<1>4. k \in 0 .. WordBits /\ WordBits - k \in 0 .. WordBits
  BY <1>1, <1>3
<1> QED
  BY Zenon, <1>2, <1>4

LEMMA ChecksSuffice ==
  ASSUME NEW p \in Params, ~BadParams(p)
  PROVE  CheckedCall(RootArgs(p)) /\ RootArgs(p) \in Calls
<1> DEFINE b == BlockSizeOf(p)
           d == GetDigestSize(HashAlgOf(p))
           a == RootArgs(p)
<1>1. /\ p.file_size \in Nat /\ p.salt_size \in Nat /\ p.cbs \in SUBSET Callbacks
      /\ b <= Word /\ SizeFits(RootArgs(p))
      /\ ValidCall(RootArgs(p)) /\ p.salt_size <= MaxSaltSize => RootArgs(p) \in Calls
      /\ b \in Nat
  BY ParamsAssumption DEF BlockSizeOf
<1>2. /\ KnownHashAlg(HashAlgOf(p)) /\ IsPowerOf2(b) /\ ~(b < 2 * d) /\ ~(p.salt_size > MaxSaltSize)
  BY Zenon DEF BadParams
<1>3. /\ a.file_size = p.file_size /\ a.block_size = b /\ a.digest_size = d /\ a.salt_size = p.salt_size
      /\ a.cbs = p.cbs
  BY DEF RootArgs
<1>4. PICK m \in 0 .. WordBits : d = 2^m
  BY Zenon, <1>2, DigestSizeAssumption DEF GetDigestSize, KnownHashAlg
<1>5. PICK k \in 0 .. b : b = 2^k
  BY Zenon, <1>2 DEF IsPowerOf2
<1>6. d \in Nat \ {0}
  BY Zenon, <1>4, ExponentAssumption
<1>7. b >= 2 * d
  BY <1>1, <1>2, <1>6
<1>8. PICK h \in Nat : b = d * h
  <2>1. 2^k >= 2 * 2^m
    BY Zenon, <1>4, <1>5, <1>7
  <2> QED
    BY Zenon, <1>4, <1>5, <2>1, WholeDigests
<1>9. b = d * (b \div d)
  BY Zenon, <1>6, <1>8, SlotIs
<1>10. \E j \in 0 .. WordBits : b * 2^j = Word
  <2> HIDE DEF b
  <2>1. 2^k <= Word
    BY Zenon, <1>1, <1>5
  <2> QED
    BY Zenon, <1>5, <2>1, DividesWord DEF b
<1> HIDE DEF a, b, d
<1>11. CheckedCall(a)
  BY Zenon, <1>1, <1>3, <1>6, <1>7, <1>9, <1>10 DEF CheckedCall
<1>12. p.salt_size <= MaxSaltSize
  BY <1>1, <1>2, ParamsAssumption
<1> QED
  BY Zenon, <1>1, <1>11, <1>12 DEF a, ValidCall

----------------------------------------------------------------------------
\* While compute_root_hash() runs, and while it does not.

LEMMA RootInit == Init => RootInv
  BY Zenon, InitIInv, ShapeInit DEF RootInv

LEMMA RootNext == RootInv /\ [Next]_vars => RootInv'
<1> SUFFICES ASSUME RootInv, [Next]_vars PROVE RootInv'
  OBVIOUS
<1>1. IInv /\ ShapeInv
  BY DEF RootInv
<1>2. IInv'
  BY <1>1, NextIInv
<1>3. ShapeInv'
  BY <1>1, <1>2, ShapeStep
<1> QED
  BY Zenon, <1>2, <1>3 DEF RootInv

\* A step that leaves the variables of compute_root_hash() alone.
Quiet ==
  /\ pc' = pc /\ err' = err /\ args' = args
  /\ tree_size' = tree_size /\ block_calls' = block_calls
  /\ RootHash' = RootHash
  /\ StartState => StartState'
  /\ RootInv => RootInv'
  /\ MemInv => MemInv'

LEMMA QuietStep == UNCHANGED vars => Quiet
<1> SUFFICES ASSUME UNCHANGED vars PROVE Quiet
  OBVIOUS
<1>1. /\ pc' = pc /\ err' = err /\ args' = args /\ blocks' = blocks /\ num_levels' = num_levels
      /\ level' = level /\ level_offset' = level_offset /\ offset' = offset
      /\ filled' = filled /\ data' = data /\ mem' = mem /\ padded_salt' = padded_salt
      /\ pos' = pos /\ tree_size' = tree_size /\ block_calls' = block_calls
      /\ tree' = tree /\ nblocks' = nblocks
  BY Zenon DEF vars, locals, buffers, outside, history
<1>2. StartState => StartState'
  BY Zenon, <1>1 DEF StartState
<1>3. RootHash' = RootHash
  BY Zenon, <1>1 DEF RootHash
<1>4. [Next]_vars
  BY Zenon
<1>5. RootInv => RootInv'
  BY Zenon, <1>4, RootNext
<1>6. MemInv => MemInv'
  BY Zenon, <1>4, MemStep
<1> QED
  BY Zenon, <1>1, <1>2, <1>3, <1>5, <1>6 DEF Quiet

LEMMA DigestInitInv == DigestInit => DigestInv
<1> SUFFICES ASSUME DigestInit PROVE DigestInv
  OBVIOUS
<1>1. /\ StartState /\ dpc = "entry" /\ derr = Ok /\ heap = {} /\ desc_calls = <<>> /\ digest_ret = Null
  BY Zenon DEF DigestInit
<1>2. MemInv
  BY <1>1, MemInit
<1>3. HeapInv /\ PhaseInv
  BY <1>1 DEF HeapInv, PhaseInv, Made
<1> QED
  BY <1>2, <1>3 DEF DigestInv

LEMMA EnterStep == DigestInv /\ Enter => DigestInv'
<1> SUFFICES ASSUME DigestInv, Enter PROVE DigestInv'
  OBVIOUS
<1>1. /\ dpc = "entry" /\ params' \in Params /\ dpc' = "check" /\ derr' = derr
      /\ heap' = heap /\ desc_calls' = desc_calls /\ digest_ret' = digest_ret /\ UNCHANGED vars
  BY Zenon DEF Enter, DGoto
<1>2. Quiet
  BY Zenon, <1>1, QuietStep
<1>3. MemInv'
  BY <1>2 DEF Quiet, DigestInv
<1>4. HeapInv'
  BY <1>1 DEF DigestInv, HeapInv, Made
<1>5. PhaseInv'
  BY <1>1, <1>2, <1>4 DEF DigestInv, PhaseInv, Quiet, HeapInv
<1> QED
  BY <1>3, <1>4, <1>5 DEF DigestInv

LEMMA CheckStep == DigestInv /\ CheckParams => DigestInv'
<1> SUFFICES ASSUME DigestInv, CheckParams PROVE DigestInv'
  OBVIOUS
<1>1. /\ dpc = "check" /\ params' = params
      /\ heap' = heap /\ desc_calls' = desc_calls /\ digest_ret' = digest_ret /\ UNCHANGED vars
      /\ \/ BadParams(params) /\ dpc' = "done" /\ derr' = "bad params"
         \/ ~BadParams(params) /\ dpc' = "ctx" /\ derr' = derr
  BY Zenon DEF CheckParams, DGoto
<1>2. Quiet
  BY Zenon, <1>1, QuietStep
<1>3. /\ MemInv' /\ StartState' /\ pc' = "start"
  BY Zenon, <1>1, <1>2 DEF Quiet, DigestInv, PhaseInv, StartState
<1>4. HeapInv'
  BY <1>1 DEF DigestInv, HeapInv, Made, Ok
<1>5. PhaseInv'
  BY <1>1, <1>3, <1>4 DEF DigestInv, PhaseInv, HeapInv, Ok
<1> QED
  BY <1>3, <1>4, <1>5 DEF DigestInv

LEMMA AllocCtxStep == DigestInv /\ AllocCtx => DigestInv'
<1> SUFFICES ASSUME DigestInv, AllocCtx PROVE DigestInv'
  OBVIOUS
<1>1. /\ dpc = "ctx" /\ params' = params
      /\ desc_calls' = desc_calls /\ digest_ret' = digest_ret /\ UNCHANGED vars
      /\ heap = {}
      /\ \/ heap' = {"ctx"} /\ dpc' = "ctx" /\ derr' = derr
         \/ heap' = heap /\ dpc' = "done" /\ derr' = "ENOMEM"
  BY Zenon DEF AllocCtx, DGoto
<1>2. Quiet
  BY Zenon, <1>1, QuietStep
<1>3. /\ MemInv' /\ StartState' /\ pc' = "start"
  BY Zenon, <1>1, <1>2 DEF Quiet, DigestInv, PhaseInv, StartState
<1>4. HeapInv'
  BY <1>1 DEF DigestInv, HeapInv, Made, Ok
<1>5. PhaseInv'
  BY <1>1, <1>3, <1>4 DEF DigestInv, PhaseInv, HeapInv, Ok
<1> QED
  BY <1>3, <1>4, <1>5 DEF DigestInv

\* compute_root_hash() is entered in its initial state.
LEMMA AllocMdCtxStep == DigestInv /\ AllocMdCtx => DigestInv'
<1> SUFFICES ASSUME DigestInv, AllocMdCtx PROVE DigestInv'
  OBVIOUS
<1>1. /\ dpc = "ctx" /\ params' = params /\ desc_calls' = desc_calls /\ digest_ret' = digest_ret
      /\ "ctx" \in heap
      /\ \/ heap' = heap \cup {"md_ctx"} /\ args' = RootArgs(params) /\ dpc' = "root" /\ derr' = derr
         \/ heap' = heap \ {"ctx"} /\ dpc' = "done" /\ derr' = "ENOMEM"
  BY Zenon DEF AllocMdCtx, DGoto
<1>2. StartState /\ params \in Params /\ ~BadParams(params) /\ derr = Ok /\ desc_calls = <<>>
  BY Zenon, <1>1 DEF DigestInv, PhaseInv
<1>3. StartState'
  <2>1. /\ pc' = pc /\ err' = err /\ blocks' = blocks /\ num_levels' = num_levels
        /\ level' = level /\ level_offset' = level_offset /\ offset' = offset
        /\ filled' = filled /\ data' = data /\ mem' = mem /\ padded_salt' = padded_salt
        /\ pos' = pos /\ tree_size' = tree_size /\ block_calls' = block_calls
        /\ tree' = tree /\ nblocks' = nblocks
    BY Zenon DEF AllocMdCtx, buffers, outside, history
  <2> QED
    BY Zenon, <1>2, <2>1 DEF StartState
<1>4. MemInv' /\ pc' = "start"
  <2>1. StartState' => MemInv'
    BY MemInit, PTL
  <2> QED
    BY Zenon, <1>3, <2>1 DEF StartState
<1>5. dpc' = "root" => Called' /\ RootInv'
  <2> SUFFICES ASSUME dpc' = "root" PROVE Called' /\ RootInv'
    OBVIOUS
  <2>1. args' = RootArgs(params)
    BY <1>1
  <2>2. args' \in Calls
    BY Zenon, <1>2, <2>1, ChecksSuffice
  <2>3. Init'
    BY Zenon, <1>3, <2>2 DEF Init
  <2>4. Init' => RootInv'
    BY RootInit, PTL
  <2> QED
    BY Zenon, <1>1, <1>2, <2>1, <2>3, <2>4 DEF Called
<1>6. HeapInv'
  BY <1>1 DEF DigestInv, HeapInv, Made, Ok
<1>7. PhaseInv'
  BY <1>1, <1>2, <1>3, <1>4, <1>5, <1>6 DEF PhaseInv, HeapInv, Ok
<1> QED
  BY <1>4, <1>6, <1>7 DEF DigestInv

LEMMA RootStepStep == DigestInv /\ RootStep => DigestInv'
<1> SUFFICES ASSUME DigestInv, RootStep PROVE DigestInv'
  OBVIOUS
<1>1. /\ dpc = "root" /\ dpc' = dpc /\ params' = params /\ derr' = derr /\ heap' = heap
      /\ desc_calls' = desc_calls /\ digest_ret' = digest_ret
  BY Zenon DEF RootStep, dvars
<1>2. [Next]_vars
  BY Zenon DEF RootStep, Next
<1>3. MemInv' /\ RootInv' /\ Called'
  <2>1. MemInv /\ RootInv /\ Called
    BY <1>1 DEF DigestInv, PhaseInv
  <2>2. args' = args
    BY <1>2, <2>1, ArgsKept
  <2>3. Called'
    BY Zenon, <1>1, <2>1, <2>2 DEF Called
  <2> QED
    BY Zenon, <1>2, <2>1, <2>3, MemStep, RootNext
<1>4. HeapInv'
  BY <1>1 DEF DigestInv, HeapInv, Made
<1>5. PhaseInv'
  BY <1>1, <1>3, <1>4 DEF DigestInv, PhaseInv, HeapInv
<1> QED
  BY <1>3, <1>4, <1>5 DEF DigestInv

LEMMA RootReturnsStep == DigestInv /\ RootReturns => DigestInv'
<1> SUFFICES ASSUME DigestInv, RootReturns PROVE DigestInv'
  OBVIOUS
<1>1. /\ dpc = "root" /\ pc = "done" /\ params' = params /\ derr' = err /\ heap' = heap
      /\ desc_calls' = desc_calls /\ digest_ret' = digest_ret /\ UNCHANGED vars
      /\ dpc' = IF err = Ok THEN "descriptor" ELSE "out"
  BY Zenon DEF RootReturns, DGoto
<1>2. Quiet
  BY Zenon, <1>1, QuietStep
<1>3. MemInv /\ RootInv /\ Called
  BY <1>1 DEF DigestInv, PhaseInv
<1>4. MemInv' /\ RootInv' /\ Called' /\ pc' = "done" /\ err' = err
  BY Zenon, <1>1, <1>2, <1>3 DEF Quiet, Called
<1>5. HeapInv'
  BY <1>1 DEF DigestInv, HeapInv, Made
<1>6. PhaseInv'
  BY <1>1, <1>4, <1>5 DEF DigestInv, PhaseInv, HeapInv
<1> QED
  BY <1>4, <1>5, <1>6 DEF DigestInv

LEMMA ReportDescriptorStep == DigestInv /\ ReportDescriptor => DigestInv'
<1> SUFFICES ASSUME DigestInv, ReportDescriptor PROVE DigestInv'
  OBVIOUS
<1>1. /\ dpc = "descriptor" /\ params' = params /\ heap' = heap
      /\ digest_ret' = digest_ret /\ UNCHANGED vars
      /\ \/ dpc' = "digest" /\ derr' = derr
         \/ dpc' = "out" /\ derr' = "callback error"
      /\ "descriptor" \in params.cbs => desc_calls' = Append(desc_calls, Descriptor)
  BY Zenon DEF ReportDescriptor, DGoto
<1>2. Quiet
  BY Zenon, <1>1, QuietStep
<1>3. MemInv /\ RootInv /\ Called /\ pc = "done" /\ err = Ok /\ desc_calls = <<>>
  BY <1>1 DEF DigestInv, PhaseInv
<1>4. MemInv' /\ RootInv' /\ Called' /\ pc' = "done" /\ err' = Ok /\ Descriptor' = Descriptor
  BY Zenon, <1>1, <1>2, <1>3 DEF Quiet, Called, Descriptor
<1>5. "descriptor" \in params.cbs => desc_calls' = <<Descriptor>>
  <2>1. \A x : Append(<<>>, x) = <<x>>
    OBVIOUS
  <2> QED
    BY Zenon, <1>1, <1>3, <2>1
<1>6. HeapInv'
  BY <1>1 DEF DigestInv, HeapInv, Made, Ok
<1>7. ~Made'
  BY <1>1, <1>6 DEF HeapInv, Ok
<1>8. PhaseInv'
  BY <1>1, <1>4, <1>5, <1>7 DEF DigestInv, PhaseInv
<1> QED
  BY <1>4, <1>6, <1>8 DEF DigestInv

LEMMA AllocDigestStep == DigestInv /\ AllocDigest => DigestInv'
<1> SUFFICES ASSUME DigestInv, AllocDigest PROVE DigestInv'
  OBVIOUS
<1>1. /\ dpc = "digest" /\ params' = params /\ desc_calls' = desc_calls /\ UNCHANGED vars
      /\ dpc' = "out"
      /\ \/ heap' = heap \cup {"digest"} /\ digest_ret' = DigestOf(params, RootHash) /\ derr' = Ok
         \/ heap' = heap /\ digest_ret' = digest_ret /\ derr' = "ENOMEM"
  BY Zenon DEF AllocDigest, DGoto
<1>2. Quiet
  BY Zenon, <1>1, QuietStep
<1>3. /\ MemInv /\ RootInv /\ Called /\ pc = "done" /\ err = Ok
      /\ "descriptor" \in params.cbs => desc_calls = <<Descriptor>>
  BY <1>1 DEF DigestInv, PhaseInv
<1>4. /\ MemInv' /\ RootInv' /\ Called' /\ pc' = "done" /\ err' = Ok
      /\ RootHash' = RootHash /\ Descriptor' = Descriptor
  BY Zenon, <1>1, <1>2, <1>3 DEF Quiet, Called, Descriptor
<1>5. DigestOf(params, RootHash) # Null
  <2>1. WholeTree /\ args \in Calls /\ args.file_size \in Nat /\ num_levels \in 0 .. MaxLevels
    BY <1>3, CallFacts DEF RootInv, ShapeInv, DoneRef, IInv, TypeOK, LocalsOK
  <2>2. RootHash \in {Zero} \cup ((-1 .. MaxLevels) \X {0})
    BY <2>1, WidthAssumption DEF WholeTree
  <2> QED
    BY Zenon, <1>3, <2>2, NullAssumption DEF Called
<1>6. HeapInv'
  BY <1>1, <1>5 DEF DigestInv, HeapInv, Made, Ok
<1>7. Made' <=> derr' = Ok
  BY <1>1, <1>6 DEF HeapInv
<1>8. PhaseInv'
  BY <1>1, <1>3, <1>4, <1>7 DEF DigestInv, PhaseInv, Ok
<1> QED
  BY <1>4, <1>6, <1>8 DEF DigestInv

LEMMA FreeCtxStep == DigestInv /\ FreeCtx => DigestInv'
<1> SUFFICES ASSUME DigestInv, FreeCtx PROVE DigestInv'
  OBVIOUS
<1>1. /\ dpc = "out" /\ params' = params /\ desc_calls' = desc_calls /\ UNCHANGED vars
      /\ dpc' = "done" /\ derr' = derr /\ heap' = heap \ {"md_ctx", "ctx"} /\ digest_ret' = digest_ret
  BY Zenon DEF FreeCtx, DGoto
<1>2. Quiet
  BY Zenon, <1>1, QuietStep
<1>3. /\ MemInv /\ RootInv /\ Called /\ pc = "done"
      /\ Made => err = Ok /\ digest_ret = DigestOf(params, RootHash)
                 /\ ("descriptor" \in params.cbs => desc_calls = <<Descriptor>>)
  BY <1>1 DEF DigestInv, PhaseInv
<1>4. /\ MemInv' /\ RootInv' /\ Called' /\ pc' = "done" /\ err' = err
      /\ RootHash' = RootHash /\ Descriptor' = Descriptor
  BY Zenon, <1>1, <1>2, <1>3 DEF Quiet, Called, Descriptor
<1>5. HeapInv'
  BY <1>1 DEF DigestInv, HeapInv, Made
<1>6. PhaseInv'
  BY <1>1, <1>3, <1>4 DEF PhaseInv, Made, Called
<1> QED
  BY <1>4, <1>5, <1>6 DEF DigestInv

LEMMA DigestNextInv == DigestInv /\ [DigestNext]_allvars => DigestInv'
<1> SUFFICES ASSUME DigestInv, [DigestNext]_allvars PROVE DigestInv'
  OBVIOUS
<1>1. CASE DigestStep
  BY Zenon, <1>1, EnterStep, CheckStep, AllocCtxStep, AllocMdCtxStep, RootStepStep, RootReturnsStep,
     ReportDescriptorStep, AllocDigestStep, FreeCtxStep DEF DigestStep
<1>2. CASE UNCHANGED allvars
  <2>1. /\ UNCHANGED vars /\ dpc' = dpc /\ params' = params /\ derr' = derr /\ heap' = heap
        /\ desc_calls' = desc_calls /\ digest_ret' = digest_ret
    BY Zenon, <1>2 DEF allvars, dvars
  <2>2. Quiet
    BY Zenon, <2>1, QuietStep
  <2>3. MemInv'
    BY Zenon, <2>2 DEF DigestInv, Quiet
  <2>4. HeapInv'
    BY Zenon, <2>1 DEF DigestInv, HeapInv, Made
  <2>5. (Called => Called') /\ (Made <=> Made') /\ Descriptor' = Descriptor
    BY Zenon, <2>1, <2>2 DEF Called, Made, Descriptor, Quiet
  <2>6. PhaseInv'
    BY <2>1, <2>2, <2>5 DEF DigestInv, PhaseInv, Quiet
  <2> QED
    BY <2>3, <2>4, <2>6 DEF DigestInv
<1> QED
  BY Zenon, <1>1, <1>2 DEF DigestNext, DigestReturned

LEMMA DigestInvariance == DigestComputation => []DigestInv
  BY DigestInitInv, DigestNextInv, PTL DEF DigestComputation

----------------------------------------------------------------------------
\* What the caller of libfsverity_compute_digest() can rely on.

\* The checks of libfsverity_compute_digest() establish, for all parameters of
\* ParamsAssumption, that a block is a power of two and holds whole digests, at
\* least two of them.
THEOREM ChecksEnough == DigestComputation => []RootHashPrecondition
<1>1. DigestInv => RootHashPrecondition
  <2> SUFFICES ASSUME DigestInv, dpc = "root" PROVE CheckedCall(args)
    BY Zenon DEF RootHashPrecondition
  <2>1. Called
    BY DEF DigestInv, PhaseInv
  <2> QED
    BY Zenon, <2>1, ChecksSuffice DEF Called
<1> QED
  BY <1>1, DigestInvariance, PTL

\* On every path to the return of libfsverity_compute_digest() everything that was
\* allocated on the way is freed, but the digest of a call that succeeds.
THEOREM OnlyTheDigestIsLeft == DigestComputation => []CallerOwnsDigest
<1>1. DigestInv => CallerOwnsDigest
  <2> SUFFICES ASSUME DigestInv, dpc = "done"
               PROVE  /\ heap = (IF derr = Ok THEN {"digest"} ELSE {})
                      /\ digest_ret # Null <=> derr = Ok
                      /\ padded_salt # "heap" /\ \A l \in Levels : mem[l] # "heap"
    BY Zenon DEF CallerOwnsDigest
  <2>1. /\ heap = (IF derr = Ok THEN {"digest"} ELSE {})
        /\ digest_ret # Null <=> derr = Ok
    BY DEF DigestInv, HeapInv, Made
  <2>2. padded_salt # "heap" /\ \A l \in Levels : mem[l] # "heap"
    <3>1. pc = "start" \/ pc = "done"
      BY DEF DigestInv, PhaseInv
    <3> QED
      BY <3>1 DEF DigestInv, MemInv
  <2> QED
    BY Zenon, <2>1, <2>2
<1> QED
  BY <1>1, DigestInvariance, PTL

\* The digest that is returned is the digest of the descriptor that the caller was
\* told, whose root hash is the top of the tree of the whole file.
THEOREM DigestIsOfTheFile == DigestComputation => []DigestOfWholeFile
<1>1. DigestInv => DigestOfWholeFile
  <2> DEFINE a == RootArgs(params)
             root == IF params.file_size = 0 THEN Zero ELSE <<RefLevels(a) - 1, 0>>
  <2> SUFFICES ASSUME DigestInv, digest_ret # Null
               PROVE  /\ digest_ret.digest = DescriptorOf(params, root)
                      /\ pos = params.file_size
                      /\ \A b \in RefTree(a) : b[2] < Len(tree[b[1]])
                      /\ "descriptor" \in params.cbs => desc_calls = <<digest_ret.digest>>
    BY Zenon DEF DigestOfWholeFile
  <2>1. /\ Called /\ RootInv /\ pc = "done" /\ err = Ok
        /\ digest_ret = DigestOf(params, RootHash)
        /\ "descriptor" \in params.cbs => desc_calls = <<Descriptor>>
    BY Zenon DEF DigestInv, PhaseInv, Made
  <2>2. args = a /\ a.file_size = params.file_size
    BY <2>1 DEF Called, RootArgs
  <2>3. /\ pos = args.file_size
        /\ \A b \in RefTree(args) : b[2] < Len(tree[b[1]])
        /\ RootHash = IF args.file_size = 0 THEN Zero ELSE <<RefLevels(args) - 1, 0>>
    BY Zenon, <2>1, WholeOnDone DEF RootInv, WholeDone
  <2>4. digest_ret.digest = Descriptor
    <3>1. \A p, r : DigestOf(p, r).digest = DescriptorOf(p, r)
      BY DEF DigestOf
    <3> QED
      BY Zenon, <2>1, <3>1 DEF Descriptor
  <2>5. RootHash = root
    BY Zenon, <2>2, <2>3
  <2> HIDE DEF a, root
  <2> QED
    BY Zenon, <2>1, <2>2, <2>3, <2>4, <2>5 DEF Descriptor
<1> QED
  BY <1>1, DigestInvariance, PTL

\* What DigestSpec accepts is what the checks let through.
LEMMA ChecksAreThePromise ==
  ASSUME NEW p \in Params
  PROVE  Promise!Acceptable(p) <=> ~BadParams(p)
<1>1. GetDigestSize(HashAlgOf(p)) \in Int /\ BlockSizeOf(p) \in Nat
  BY TableAssumption, ParamsAssumption DEF GetDigestSize, KnownHashAlg, BlockSizeOf
<1>2. /\ p.salt_size > 0 <=> p.salt_size # 0
      /\ p.salt_size <= MaxSaltSize <=> ~(p.salt_size > MaxSaltSize)
  BY ParamsAssumption
<1>3. BlockSizeOf(p) >= 2 * GetDigestSize(HashAlgOf(p)) <=> ~(BlockSizeOf(p) < 2 * GetDigestSize(HashAlgOf(p)))
  BY <1>1
<1>4. /\ Promise!HashAlgOf(p) = HashAlgOf(p) /\ Promise!BlockSizeOf(p) = BlockSizeOf(p)
      /\ Promise!KnownHashAlg(HashAlgOf(p)) <=> KnownHashAlg(HashAlgOf(p))
      /\ Promise!GetDigestSize(HashAlgOf(p)) = GetDigestSize(HashAlgOf(p))
  BY Zenon DEF Promise!HashAlgOf, HashAlgOf, Promise!BlockSizeOf, BlockSizeOf, Promise!KnownHashAlg,
     KnownHashAlg, Promise!GetDigestSize, GetDigestSize
<1> QED
  BY Zenon, <1>2, <1>3, <1>4 DEF Promise!Acceptable, BadParams, IsPowerOf2

----------------------------------------------------------------------------
\* A failure ends the call.

\* Where the first failure of a call has got to: compute_root_hash() is on its way
\* out, and what it returned is returned.
FailInv ==
  /\ err # Ok => pc = "out" \/ pc = "done"
  /\ (dpc = "out" \/ dpc = "done") /\ err # Ok => derr = err

\* compute_root_hash() leaves its loops with an error, and then only frees.
LEMMA ErrorLeaves ==
  ASSUME [Next]_vars
  PROVE  /\ err' = err \/ pc' = "out" \/ pc' = "done"
         /\ pc = "out" \/ pc = "done" => (pc' = "out" \/ pc' = "done") /\ err' = err /\ UNCHANGED outside
<1>1. CASE StartEmpty \/ LayoutDone
  <2>1. /\ pc = "start" \/ pc = "layout"
        /\ err' = err \/ pc' = "out" \/ pc' = "done"
    BY Zenon, <1>1 DEF StartEmpty, LayoutDone, ReportSize, Goto, Leave
  <2> QED
    BY <2>1
<1>2. CASE AllocSaltFails \/ Start \/ CountLevel \/ LevelsCounted \/ PlaceLevel \/ AllocBuffer \/ AllocDone
  <2>1. /\ pc = "start" \/ pc = "levels" \/ pc = "layout" \/ pc = "alloc"
        /\ err' = err \/ pc' = "out" \/ pc' = "done"
    BY Zenon, <1>2 DEF AllocSaltFails, Start, CountLevel, LevelsCounted, PlaceLevel, AllocBuffer, AllocDone,
       Goto, Leave
  <2> QED
    BY <2>1
<1>3. CASE ReadBlock \/ ReadFails \/ Cascade \/ CascadeDone \/ EndOfData
  <2>1. /\ pc = "read" \/ pc = "cascade"
        /\ err' = err \/ pc' = "out"
    BY Zenon, <1>3 DEF ReadBlock, ReadFails, Cascade, CascadeDone, EndOfData, FinishBlock, ReportBlock, Goto, Leave
  <2> QED
    BY <2>1
<1>4. CASE Flush \/ FlushNothing \/ CheckRoot
  <2>1. /\ pc = "flush"
        /\ err' = err \/ pc' = "out"
    BY Zenon, <1>4 DEF Flush, FlushNothing, CheckRoot, FinishBlock, ReportBlock, Goto, Leave
  <2> QED
    BY <2>1
<1>5. CASE Out
  BY Zenon, <1>5 DEF Out, Goto
<1>6. CASE Returned \/ UNCHANGED vars
  BY Zenon, <1>6 DEF Returned, vars
<1> QED
  BY Zenon, <1>1, <1>2, <1>3, <1>4, <1>5, <1>6 DEF Next, Step

LEMMA FailInit == DigestInit => FailInv
  BY Zenon DEF DigestInit, StartState, FailInv

LEMMA FailNext == DigestInv /\ FailInv /\ [DigestNext]_allvars => FailInv'
<1> SUFFICES ASSUME DigestInv, FailInv, [DigestNext]_allvars PROVE FailInv'
  OBVIOUS
<1>1. CASE RootStep
  <2>1. [Next]_vars /\ dpc' = "root"
    BY Zenon, <1>1 DEF RootStep, Next, dvars
  <2>2. err' # Ok => pc' = "out" \/ pc' = "done"
    BY Zenon, <2>1, ErrorLeaves DEF FailInv
  <2> QED
    BY <2>1, <2>2 DEF FailInv
<1>2. CASE Enter \/ CheckParams \/ AllocCtx \/ AllocMdCtx \/ ReportDescriptor \/ AllocDigest
  <2>1. err' = err /\ dpc \in {"entry", "check", "ctx", "descriptor", "digest"}
    BY Zenon, <1>2 DEF Enter, CheckParams, AllocCtx, AllocMdCtx, ReportDescriptor, AllocDigest, vars
  <2>2. err = Ok
    BY <2>1 DEF DigestInv, PhaseInv, StartState
  <2> QED
    BY Zenon, <2>1, <2>2 DEF FailInv
<1>3. CASE RootReturns
  BY Zenon, <1>3 DEF RootReturns, DGoto, vars, FailInv
<1>4. CASE FreeCtx
  BY Zenon, <1>4 DEF FreeCtx, DGoto, vars, FailInv
<1>5. CASE UNCHANGED allvars
  BY Zenon, <1>5 DEF allvars, vars, dvars, FailInv
<1> QED
  BY Zenon, <1>1, <1>2, <1>3, <1>4, <1>5 DEF DigestNext, DigestStep, DigestReturned

\* Once there is a failure, the only steps are those that return it.
LEMMA FailureStep ==
  ASSUME DigestInv, FailInv, [DigestNext]_allvars, Failure # Ok
  PROVE  /\ UNCHANGED <<outside, desc_calls, digest_ret, Failure>>
         /\ dpc' = "done" => derr' = Failure
<1>1. \/ dpc = "root" /\ derr = Ok /\ err # Ok /\ (pc = "out" \/ pc = "done")
      \/ (dpc = "out" \/ dpc = "done") /\ derr # Ok
  BY DEF DigestInv, PhaseInv, StartState, FailInv, Failure
<1>2. CASE RootStep
  <2>1. /\ [Next]_vars /\ dpc = "root" /\ dpc' = "root" /\ derr' = derr /\ desc_calls' = desc_calls
        /\ digest_ret' = digest_ret
    BY Zenon, <1>2 DEF RootStep, Next, dvars
  <2>2. pc = "out" \/ pc = "done"
    BY <1>1, <2>1
  <2>3. UNCHANGED outside /\ err' = err
    BY Zenon, <2>1, <2>2, ErrorLeaves
  <2>4. Failure' = Failure
    BY Zenon, <2>1, <2>3 DEF Failure
  <2> QED
    BY <2>1, <2>3, <2>4
<1>3. CASE RootReturns
  <2>1. /\ dpc = "root" /\ derr' = err /\ err' = err /\ desc_calls' = desc_calls
        /\ digest_ret' = digest_ret /\ UNCHANGED outside
    BY Zenon, <1>3 DEF RootReturns, DGoto, vars
  <2>2. derr = Ok /\ err # Ok
    BY <1>1, <2>1
  <2>3. Failure = err /\ Failure' = err
    BY Zenon, <2>1, <2>2 DEF Failure
  <2> QED
    BY Zenon, <2>1, <2>3
<1>4. CASE FreeCtx
  <2>1. /\ dpc = "out" /\ derr' = derr /\ err' = err /\ desc_calls' = desc_calls
        /\ digest_ret' = digest_ret /\ UNCHANGED outside
    BY Zenon, <1>4 DEF FreeCtx, DGoto, vars
  <2>2. derr # Ok
    BY <1>1, <2>1
  <2>3. Failure = derr /\ Failure' = derr
    BY Zenon, <2>1, <2>2 DEF Failure
  <2> QED
    BY Zenon, <2>1, <2>3
<1>5. CASE UNCHANGED allvars
  <2>1. /\ dpc' = dpc /\ derr' = derr /\ err' = err /\ desc_calls' = desc_calls
        /\ digest_ret' = digest_ret /\ UNCHANGED outside
    BY Zenon, <1>5 DEF allvars, vars, dvars
  <2>2. dpc = "done" => derr # Ok
    BY <1>1
  <2>3. Failure' = Failure /\ (derr # Ok => Failure = derr)
    BY Zenon, <2>1 DEF Failure
  <2> QED
    BY Zenon, <2>1, <2>2, <2>3
<1>6. CASE Enter \/ CheckParams \/ AllocCtx \/ AllocMdCtx \/ ReportDescriptor \/ AllocDigest
  <2>1. dpc \in {"entry", "check", "ctx", "descriptor", "digest"}
    BY Zenon, <1>6 DEF Enter, CheckParams, AllocCtx, AllocMdCtx, ReportDescriptor, AllocDigest
  <2> QED
    BY <1>1, <2>1
<1> QED
  BY Zenon, <1>2, <1>3, <1>4, <1>5, <1>6 DEF DigestNext, DigestStep, DigestReturned

\* Whatever the file, the parameters and the place where it happens, the first failure
\* is what libfsverity_compute_digest() returns, and nothing is read or reported after it.
THEOREM FirstFailureReturned == DigestComputation => FailureIsFinal
<1>1. DigestComputation => []FailInv
  BY FailInit, FailNext, DigestInvariance, PTL DEF DigestComputation
<1>2. DigestInv /\ FailInv /\ [DigestNext]_allvars =>
        [Failure # Ok => /\ UNCHANGED <<outside, desc_calls, digest_ret, Failure>>
                         /\ dpc' = "done" => derr' = Failure]_allvars
  BY Zenon, FailureStep
<1> QED
  BY <1>1, <1>2, DigestInvariance, PTL DEF DigestComputation, FailureIsFinal

----------------------------------------------------------------------------
\* libfsverity_compute_digest() implements DigestSpec.

\* What the callbacks were told: the size once the levels are laid out, and a
\* block if there is one and a callback for it.
TellInv ==
  /\ pc \in {"start", "levels", "layout"} => tree_size = None
  /\ LaidOut /\ "merkle_tree_size" \in args.cbs => tree_size # None
  /\ "merkle_tree_block" \notin args.cbs => block_calls = <<>>
  /\ "merkle_tree_block" \in args.cbs /\ block_calls = <<>> => TreeBlocksDone = {}
  /\ \E S : block_calls \in Seq(S)

ToldInv == dpc \in {"root", "descriptor", "digest", "out"} => TellInv

ToldBlocks == IF block_calls = <<>> THEN {} ELSE TreeBlocksDone

\* merkle_tree_size() is called, if at all, when the size is known.
LEMMA SizeTold ==
  ASSUME IInv, StartEmpty \/ LayoutDone
  PROVE  /\ pc = "start" \/ pc = "layout"
         /\ pc' = "alloc" \/ pc' = "out" \/ pc' = "done"
         /\ pc' = "out" => err' # Ok
         /\ args' = args /\ tree' = tree /\ block_calls' = block_calls
         /\ "merkle_tree_size" \notin args.cbs => tree_size' = tree_size
         /\ "merkle_tree_size" \in args.cbs => tree_size' # None
<1>1. /\ pc = "start" \/ pc = "layout"
      /\ pc' = "alloc" \/ pc' = "done" \/ (pc' = "out" /\ err' = "callback error")
      /\ args' = args /\ tree' = tree /\ block_calls' = block_calls
      /\ "merkle_tree_size" \notin args.cbs => tree_size' = tree_size
      /\ "merkle_tree_size" \in args.cbs => tree_size' = 0 \/ tree_size' = (offset * args.block_size) % Word
  <2>1. CASE StartEmpty
    BY Zenon, <2>1 DEF StartEmpty, ReportSize, Goto, Leave, locals, history
  <2>2. CASE LayoutDone
    BY Zenon, <2>2 DEF LayoutDone, ReportSize, Goto, Leave, history
  <2> QED
    BY Zenon, <2>1, <2>2
<1>2. (offset * args.block_size) % Word \in Nat
  <2>1. args \in Calls /\ offset \in Nat
    BY DEF IInv, TypeOK, LocalsOK
  <2>2. args.block_size \in Nat /\ Word \in Nat \ {0}
    BY <2>1, CallFacts
  <2> QED
    BY Zenon, <2>1, <2>2, WrapNat
<1>3. "merkle_tree_size" \in args.cbs => tree_size' # None
  <2>1. \A n \in Nat : n # None
    BY DEF None
  <2>2. 0 \in Nat
    OBVIOUS
  <2> QED
    BY Zenon, <1>1, <1>2, <2>1, <2>2
<1>4. "callback error" # Ok
  BY DEF Ok
<1>5. pc' = "out" => err' # Ok
  <2>1. "alloc" # "out" /\ "done" # "out"
    OBVIOUS
  <2> QED
    BY Zenon, <1>1, <1>4, <2>1
<1> QED
  BY Zenon, <1>1, <1>3, <1>5

LEMMA SizeKept ==
  ASSUME [Next]_vars, ~StartEmpty, ~LayoutDone
  PROVE  tree_size' = tree_size
<1>1. CASE AllocSaltFails \/ Start \/ CountLevel \/ LevelsCounted \/ PlaceLevel \/ AllocBuffer \/ AllocDone
  BY Zenon, <1>1 DEF AllocSaltFails, Start, CountLevel, LevelsCounted, PlaceLevel, AllocBuffer, AllocDone, outside
<1>2. CASE ReadBlock \/ ReadFails \/ Cascade \/ CascadeDone \/ EndOfData \/ Flush
  BY Zenon, <1>2 DEF ReadBlock, ReadFails, Cascade, CascadeDone, EndOfData, Flush, FinishBlock, outside
<1>3. CASE FlushNothing \/ CheckRoot \/ Out \/ Returned \/ UNCHANGED vars
  BY Zenon, <1>3 DEF FlushNothing, CheckRoot, Out, Returned, vars, outside
<1> QED
  BY Zenon, <1>1, <1>2, <1>3 DEF Next, Step

\* The other steps lead from before the layout is done to before it, or after it on.
LEMMA LaidOutKept ==
  ASSUME IInv, [Next]_vars, ~StartEmpty, ~LayoutDone
  PROVE  /\ pc' \in {"start", "levels", "layout"} => pc \in {"start", "levels", "layout"}
         /\ LaidOut' => LaidOut
<1>1. CASE AllocSaltFails \/ Start \/ CountLevel \/ LevelsCounted \/ PlaceLevel
  <2>1. /\ pc = "start" \/ pc = "levels" \/ pc = "layout"
        /\ \/ pc' = "levels" \/ pc' = "layout"
           \/ (pc' = "out" \/ pc' = "done") /\ (err' = "ENOMEM" \/ err' = "WARN_ON")
    BY Zenon, <1>1 DEF AllocSaltFails, Start, CountLevel, LevelsCounted, PlaceLevel, Goto, Leave
  <2> QED
    BY <2>1 DEF LaidOut, Hashing, Ok
<1>2. CASE AllocBuffer \/ AllocDone \/ ReadBlock \/ ReadFails \/ CascadeDone \/ EndOfData \/ FlushNothing \/ CheckRoot
  <2>1. /\ pc = "alloc" \/ pc = "read" \/ pc = "cascade" \/ pc = "flush"
        /\ pc' = "alloc" \/ pc' = "read" \/ pc' = "cascade" \/ pc' = "flush" \/ pc' = "out"
    BY Zenon, <1>2 DEF AllocBuffer, AllocDone, ReadBlock, ReadFails, CascadeDone, EndOfData, FlushNothing,
       CheckRoot, Goto, Leave
  <2> QED
    BY <2>1 DEF LaidOut, Hashing
<1>3. CASE Cascade \/ Flush
  <2>1. Hashing /\ (pc' = pc \/ pc' = "out")
    BY Zenon, <1>3, FinishWhat, FinishReport
  <2> QED
    BY <2>1 DEF LaidOut, Hashing
<1>4. CASE Out \/ Returned \/ UNCHANGED vars
  <2>1. err' = err /\ ((pc = "out" /\ pc' = "done") \/ pc' = pc)
    BY Zenon, <1>4 DEF Out, Returned, Goto, vars
  <2> QED
    BY <2>1 DEF LaidOut, Hashing
<1> QED
  BY Zenon, <1>1, <1>2, <1>3, <1>4 DEF Next, Step

\* Each block that is finished is reported, if there is a callback for it.
LEMMA CallsTold ==
  ASSUME RootInv, RootInv', TellInv, [Next]_vars
  PROVE  /\ "merkle_tree_block" \in args.cbs /\ block_calls' = <<>> => TreeBlocksDone' = {}
         /\ \E S : block_calls' \in Seq(S)
<1>1. IInv /\ IInv' /\ ShapeInv
  BY Zenon DEF RootInv
<1>2. PICK S : block_calls \in Seq(S)
  BY Zenon DEF TellInv
<1>3. CASE Cascade \/ Flush
  <2>1. CASE "merkle_tree_block" \notin args.cbs
    BY Zenon, <1>1, <1>2, <1>3, <2>1, FinishReport
  <2>2. CASE "merkle_tree_block" \in args.cbs
    <3> DEFINE c == [offset |-> (level_offset[level] * args.block_size) % Word,
                     block |-> Padded(data[level], UsedSlots(level))]
    <3>1. block_calls' = Append(block_calls, c)
      BY Zenon, <1>1, <1>3, <2>2, FinishReport
    <3> HIDE DEF c
    <3>2. block_calls \in Seq(S \cup {c}) /\ c \in S \cup {c}
      BY <1>2
    <3>3. Append(block_calls, c) \in Seq(S \cup {c}) /\ Append(block_calls, c) # <<>>
      BY <3>2, SeqAppend
    <3> QED
      BY Zenon, <3>1, <3>3
  <2> QED
    BY Zenon, <2>1, <2>2
<1>4. CASE ~Cascade /\ ~Flush
  <2>1. block_calls' = block_calls
    BY Zenon, <1>4, CallsKept
  <2>2. TreeBlocksDone' = TreeBlocksDone
    <3>1. CASE ReadBlock
      BY Zenon, <1>1, <3>1, ReadTreeBlocks
    <3>2. CASE ~ReadBlock
      <4>1. tree' = tree
        BY Zenon, <1>4, <3>2, TreeKept
      <4> QED
        BY Zenon, <4>1 DEF TreeBlocksDone
    <3> QED
      BY Zenon, <3>1, <3>2
  <2> QED
    BY Zenon, <2>1, <2>2 DEF TellInv
<1> QED
  BY Zenon, <1>3, <1>4

LEMMA TellStep ==
  ASSUME RootInv, RootInv', TellInv, [Next]_vars
  PROVE  TellInv'
<1> USE DEF RootInv
<1>0. /\ "merkle_tree_block" \in args.cbs /\ block_calls' = <<>> => TreeBlocksDone' = {}
      /\ \E S : block_calls' \in Seq(S)
  BY Zenon, CallsTold
<1>1. args' = args
  BY ArgsKept
<1>2. "merkle_tree_block" \notin args.cbs => block_calls' = <<>>
  <2>1. CASE Cascade \/ Flush
    BY Zenon, <2>1, FinishReport DEF TellInv
  <2>2. CASE ~Cascade /\ ~Flush
    BY Zenon, <2>2, CallsKept DEF TellInv
  <2> QED
    BY Zenon, <2>1, <2>2
<1>3. CASE StartEmpty \/ LayoutDone
  <2>1. /\ pc' = "alloc" \/ pc' = "out" \/ pc' = "done"
        /\ "merkle_tree_size" \in args.cbs => tree_size' # None
    BY Zenon, <1>3, SizeTold
  <2>2. pc' \notin {"start", "levels", "layout"}
    BY <2>1
  <2> QED
    BY Zenon, <1>0, <1>1, <1>2, <2>1, <2>2 DEF TellInv
<1>4. CASE ~StartEmpty /\ ~LayoutDone
  BY Zenon, <1>0, <1>1, <1>2, <1>4, SizeKept, LaidOutKept DEF TellInv
<1> QED
  BY Zenon, <1>3, <1>4

\* With a callback for the blocks, it was told of each block that is done.
ToldAre == ToldBlocks = IF "merkle_tree_block" \in args.cbs THEN TreeBlocksDone ELSE {}

LEMMA ToldIs == TellInv => ToldAre
<1> SUFFICES ASSUME TellInv
             PROVE  ToldBlocks = IF "merkle_tree_block" \in args.cbs THEN TreeBlocksDone ELSE {}
  BY DEF ToldAre
<1>1. CASE "merkle_tree_block" \notin args.cbs
  BY Zenon, <1>1 DEF TellInv, ToldBlocks
<1>2. CASE "merkle_tree_block" \in args.cbs /\ block_calls = <<>>
  BY Zenon, <1>2 DEF TellInv, ToldBlocks
<1>3. CASE "merkle_tree_block" \in args.cbs /\ block_calls # <<>>
  BY Zenon, <1>3 DEF ToldBlocks
<1> QED
  BY Zenon, <1>1, <1>2, <1>3

LEMMA ToldIsNext == TellInv' => ToldAre'
  BY ToldIs, PTL

\* DigestSpec speaks of the same tree.
LEMMA SamePromise ==
  ASSUME NEW p
  PROVE  /\ Promise!RootArgs(p) = RootArgs(p)
         /\ \A a : Promise!RefTree(a) = RefTree(a)
         /\ \A a, l, k : Promise!RefChildren(a, l, k) = RefChildren(a, l, k)
<1>1. Promise!RootArgs(p) = RootArgs(p)
  BY Zenon DEF Promise!RootArgs, RootArgs, Promise!HashAlgOf, HashAlgOf, Promise!BlockSizeOf, BlockSizeOf,
     Promise!KnownHashAlg, KnownHashAlg, Promise!GetDigestSize, GetDigestSize
<1>2. \A a : Promise!RefTree(a) = RefTree(a)
  BY Zenon DEF Promise!RefTree, RefTree, Promise!RefLevels, RefLevels, Promise!RefBlocks, RefBlocks,
     Promise!CeilDiv, CeilDiv, Promise!RefHashesPerBlock, RefHashesPerBlock
<1>3. \A a, l, k : Promise!RefChildren(a, l, k) = RefChildren(a, l, k)
  BY Zenon DEF Promise!RefChildren, RefChildren, Promise!RefBlocks, RefBlocks,
     Promise!CeilDiv, CeilDiv, Promise!RefHashesPerBlock, RefHashesPerBlock
<1> QED
  BY <1>1, <1>2, <1>3

\* The call is under way, or compute_root_hash() has failed.
LEMMA RootResult ==
  ASSUME dpc = "root"
  PROVE  Result = IF pc \in {"out", "done"} /\ err # Ok THEN "failed" ELSE "running"
  BY DEF Result

LEMMA RootResults ==
  ASSUME RootStep
  PROVE  /\ Result = "running" \/ Result = "failed"
         /\ Result' = "running" \/ Result' = "failed"
         /\ Result = "failed" => Result' = "failed" /\ pc = "out"
<1>1. dpc = "root" /\ dpc' = "root" /\ Step
  BY Zenon DEF RootStep, dvars
<1>2. Result = IF pc \in {"out", "done"} /\ err # Ok THEN "failed" ELSE "running"
  BY <1>1, RootResult
<1>3. Result' = IF pc' \in {"out", "done"} /\ err' # Ok THEN "failed" ELSE "running"
  BY <1>1 DEF Result
<1>4. Result = "running" \/ Result = "failed"
  BY Zenon, <1>2
<1>5. Result' = "running" \/ Result' = "failed"
  BY Zenon, <1>3
<1>6. ASSUME Result = "failed" PROVE Result' = "failed" /\ pc = "out"
  <2>1. (pc = "out" \/ pc = "done") /\ err # Ok
    BY <1>2, <1>6
  <2>2. CASE StartEmpty \/ AllocSaltFails \/ Start \/ CountLevel \/ LevelsCounted \/ PlaceLevel \/ LayoutDone
    BY Zenon, <2>1, <2>2 DEF StartEmpty, AllocSaltFails, Start, CountLevel, LevelsCounted, PlaceLevel, LayoutDone
  <2>3. CASE AllocBuffer \/ AllocDone \/ ReadBlock \/ ReadFails \/ Cascade \/ CascadeDone \/ EndOfData
    BY Zenon, <2>1, <2>3 DEF AllocBuffer, AllocDone, ReadBlock, ReadFails, Cascade, CascadeDone, EndOfData
  <2>4. CASE Flush \/ FlushNothing \/ CheckRoot
    BY Zenon, <2>1, <2>4 DEF Flush, FlushNothing, CheckRoot
  <2>5. CASE Out
    <3>1. pc = "out" /\ pc' = "done" /\ err' = err
      BY Zenon, <2>5 DEF Out, Goto
    <3> QED
      BY <1>3, <2>1, <3>1
  <2> QED
    BY Zenon, <1>1, <2>2, <2>3, <2>4, <2>5 DEF Step
<1> QED
  BY Zenon, <1>4, <1>5, <1>6

\* What DigestSpec sees of a step.
SameTold ==
  /\ params' = params /\ tree_size' = tree_size /\ desc_calls' = desc_calls
  /\ ToldBlocks' = ToldBlocks

LEMMA PromiseQuiet ==
  ASSUME SameTold, Result' = Result \/ (Result = "running" /\ Result' = "failed")
  PROVE  [Promise!Next]_(Promise!dvars)
<1>1. CASE Result' = Result
  BY Zenon, <1>1 DEF SameTold, ToldBlocks, Promise!dvars
<1>2. CASE Result = "running" /\ Result' = "failed"
  BY Zenon, <1>2 DEF SameTold, ToldBlocks, Promise!Fail, Promise!Work, Promise!Next
<1> QED
  BY Zenon, <1>1, <1>2

LEMMA SameToldBlocks ==
  ASSUME tree' = tree, block_calls' = block_calls
  PROVE  ToldBlocks' = ToldBlocks
<1>1. TreeBlocksDone' = TreeBlocksDone
  BY Zenon DEF TreeBlocksDone
<1> QED
  BY Zenon, <1>1 DEF ToldBlocks

\* Nothing is told of a tree of which no block is hashed.
LEMMA NothingTold ==
  ASSUME RootInv, pc = "start" \/ pc = "layout"
  PROVE  ToldBlocks = {}
<1>1. IInv /\ tree = [l \in -1 .. MaxLevels - 1 |-> <<>>]
  BY DEF RootInv, IInv, NothingYet
<1>2. BlocksDone = {} /\ AreTreeBlocks
  BY Zenon, <1>1, NoBlocksDone, TreeBlocks
<1>3. TreeBlocksDone = {}
  BY Zenon, <1>2 DEF AreTreeBlocks
<1> QED
  BY Zenon, <1>3 DEF ToldBlocks

LEMMA SizeRefines ==
  ASSUME Called, RootInv, TellInv, RootStep, StartEmpty \/ LayoutDone
  PROVE  [Promise!Next]_(Promise!dvars)
<1>1. /\ pc = "start" \/ pc = "layout"
      /\ tree' = tree /\ block_calls' = block_calls
      /\ "merkle_tree_size" \notin args.cbs => tree_size' = tree_size
      /\ "merkle_tree_size" \in args.cbs => tree_size' # None
  BY Zenon, SizeTold DEF RootInv
<1>2. params' = params /\ desc_calls' = desc_calls
  BY Zenon DEF RootStep, dvars
<1>3. ToldBlocks' = ToldBlocks /\ ToldBlocks = {}
  BY Zenon, <1>1, SameToldBlocks, NothingTold
<1>4. tree_size = None
  BY <1>1 DEF TellInv
<1>5. /\ Result = "running" \/ Result = "failed"
      /\ Result' = "running" \/ Result' = "failed"
      /\ Result = "failed" => pc = "out"
  BY Zenon, RootResults
<1>6. Result = "running"
  BY Zenon, <1>1, <1>5
<1>7. args.cbs = params.cbs /\ Promise!Acceptable(params)
  <2>1. \A p : RootArgs(p).cbs = p.cbs
    BY DEF RootArgs
  <2> QED
    BY Zenon, <2>1, ChecksAreThePromise DEF Called
<1>8. CASE "merkle_tree_size" \notin args.cbs
  BY Zenon, <1>1, <1>2, <1>3, <1>5, <1>6, <1>8, PromiseQuiet DEF SameTold
<1>9. CASE "merkle_tree_size" \in args.cbs
  <2>1. Result' \in {"running", "failed"}
    BY <1>5
  <2>2. (tree_size' # None) = TRUE
    BY Zenon, <1>1, <1>9
  <2>3. Promise!TellSize
    BY Zenon, <1>2, <1>3, <1>4, <1>6, <1>7, <1>9, <2>1, <2>2 DEF Promise!TellSize, Promise!Wants, ToldBlocks
  <2> QED
    BY Zenon, <2>3 DEF Promise!Work, Promise!Next
<1> QED
  BY Zenon, <1>8, <1>9

\* A block is told once all the blocks below it are.
LEMMA BlockRefines ==
  ASSUME Called, RootInv, RootInv', TellInv, TellInv', RootStep, Cascade \/ Flush, ~StartEmpty, ~LayoutDone
  PROVE  [Promise!Next]_(Promise!dvars)
<1> DEFINE b == <<level, Hashed(level)>>
<1>1. /\ IInv /\ IInv' /\ ShapeInv /\ ShapeInv' /\ Step /\ [Next]_vars
      /\ params' = params /\ desc_calls' = desc_calls
  BY Zenon DEF RootInv, RootStep, dvars, Next
<1>2. args' = args /\ tree_size' = tree_size
  BY Zenon, <1>1, ArgsKept, SizeKept
<1>3. /\ pc \in {"cascade", "flush"} /\ Hashing /\ level \in 0 .. num_levels - 1
  BY <1>1, FinishWhat
<1>4. TreeBlocksDone' = TreeBlocksDone \cup {b} /\ b \notin TreeBlocksDone
  BY Zenon, <1>1, FinishTreeBlocks
<1>5. level \in Nat /\ b[1] = level /\ b[2] = Hashed(level)
  BY <1>3
<1> HIDE DEF b
<1>6. /\ Result = "running"
      /\ Result' = "running" \/ Result' = "failed"
  <2>1. pc # "out"
    BY <1>3
  <2> QED
    BY Zenon, <2>1, RootResults
<1>7. args = RootArgs(params) /\ args.cbs = params.cbs /\ Promise!Acceptable(params)
  <2>1. \A p : RootArgs(p).cbs = p.cbs
    BY DEF RootArgs
  <2> QED
    BY Zenon, <2>1, ChecksAreThePromise DEF Called
<1>8. ToldAre /\ ToldAre'
  BY Zenon, ToldIs, ToldIsNext
<1>9. CASE "merkle_tree_block" \notin args.cbs
  <2>1. ToldBlocks' = ToldBlocks
    BY Zenon, <1>2, <1>8, <1>9 DEF ToldAre
  <2> QED
    BY Zenon, <1>1, <1>2, <1>6, <2>1, PromiseQuiet DEF SameTold
<1>10. CASE "merkle_tree_block" \in args.cbs
  <2>1. ToldBlocks = TreeBlocksDone /\ ToldBlocks' = ToldBlocks \cup {b} /\ b \notin ToldBlocks
    BY Zenon, <1>2, <1>4, <1>8, <1>10 DEF ToldAre
  <2>2. b \in RefTree(args) /\ b[1] >= 0
    <3>1. DoneInTree' /\ AreTreeBlocks'
      <4>1. IInv' /\ ShapeInv' => DoneInTree'
        BY BlocksInTree, PTL
      <4> QED
        BY Zenon, <1>1, <4>1, TreeBlocksNext
    <3>2. b \in TreeBlocksDone'
      BY Zenon, <1>4
    <3>3. b \in RefTree(args)
      BY Zenon, <1>2, <3>1, <3>2 DEF DoneInTree, AreTreeBlocks
    <3> QED
      BY <1>5, <3>3
  <2>3. b \in Promise!TreeBlocks(params)
    BY Zenon, <1>7, <2>2, SamePromise DEF Promise!TreeBlocks
  <2>4. ASSUME b[1] > 0
        PROVE  RefChildren(args, b[1], b[2]) \subseteq ToldBlocks
    <3>1. RefChildren(args, level, Hashed(level)) \subseteq BlocksDone /\ AreTreeBlocks
      BY Zenon, <1>1, ChildrenDone, TreeBlocks
    <3>2. level # -1 /\ level - 1 # -1
      BY <1>5, <2>4
    <3>3. \A c \in RefChildren(args, level, Hashed(level)) : c[1] = level - 1
      BY <3>2 DEF RefChildren
    <3> QED
      BY Zenon, <1>5, <2>1, <3>1, <3>2, <3>3 DEF AreTreeBlocks
  <2>5. "merkle_tree_size" \in args.cbs => tree_size # None
    BY Zenon, <1>3 DEF TellInv, LaidOut
  <2>6. Result' \in {"running", "failed"}
    BY <1>6
  <2>7. b \in Promise!TreeBlocks(params) \ ToldBlocks
    BY Zenon, <2>1, <2>3
  <2>8. b[1] > 0 => Promise!RefChildren(Promise!RootArgs(params), b[1], b[2]) \subseteq ToldBlocks
    BY Zenon, <1>7, <2>4, SamePromise
  <2>9. Promise!TellBlock(b)
    BY Zenon, <1>1, <1>2, <1>6, <1>7, <1>10, <2>1, <2>5, <2>6, <2>7, <2>8
    DEF Promise!TellBlock, Promise!Wants, Promise!SizeIsTold, ToldBlocks
  <2> QED
    BY Zenon, <1>6, <1>7, <2>3, <2>9 DEF Promise!Work, Promise!Next
<1> QED
  BY Zenon, <1>9, <1>10

LEMMA RootRefines ==
  ASSUME DigestInv, DigestInv', ToldInv, ToldInv', RootStep
  PROVE  [Promise!Next]_(Promise!dvars)
<1>1. dpc = "root" /\ dpc' = "root" /\ Step /\ [Next]_vars /\ params' = params /\ desc_calls' = desc_calls
  BY Zenon DEF RootStep, dvars, Next
<1>2. Called /\ RootInv /\ RootInv' /\ TellInv /\ TellInv'
  BY <1>1 DEF DigestInv, PhaseInv, ToldInv
<1>3. CASE StartEmpty \/ LayoutDone
  BY Zenon, <1>2, <1>3, SizeRefines
<1>4. CASE (Cascade \/ Flush) /\ ~StartEmpty /\ ~LayoutDone
  BY Zenon, <1>2, <1>4, BlockRefines
<1>5. CASE ~StartEmpty /\ ~LayoutDone /\ ~Cascade /\ ~Flush
  <2>1. tree_size' = tree_size /\ block_calls' = block_calls
    BY Zenon, <1>1, <1>5, SizeKept, CallsKept
  <2>2. TreeBlocksDone' = TreeBlocksDone
    <3>1. CASE ReadBlock
      BY Zenon, <1>2, <3>1, ReadTreeBlocks DEF RootInv
    <3>2. CASE ~ReadBlock
      <4>1. tree' = tree
        BY Zenon, <1>1, <1>5, <3>2, TreeKept
      <4> QED
        BY Zenon, <4>1 DEF TreeBlocksDone
    <3> QED
      BY Zenon, <3>1, <3>2
  <2>3. SameTold
    BY Zenon, <1>1, <2>1, <2>2 DEF SameTold, ToldBlocks
  <2> QED
    BY Zenon, <2>3, RootResults, PromiseQuiet
<1> QED
  BY Zenon, <1>3, <1>4, <1>5

\* When compute_root_hash() has returned 0 the callbacks were told the whole tree.
LEMMA AllIsTold ==
  ASSUME Called, RootInv, TellInv, pc = "done", err = Ok
  PROVE  Promise!SizeIsTold /\ Promise!BlocksAreTold
<1>1. IInv /\ ShapeInv /\ args = RootArgs(params)
  BY Zenon DEF RootInv, Called
<1>2. args.cbs = params.cbs
  <2>1. \A p : RootArgs(p).cbs = p.cbs
    BY DEF RootArgs
  <2> QED
    BY Zenon, <1>1, <2>1
<1>3. "merkle_tree_size" \in params.cbs => tree_size # None
  <2>1. LaidOut
    BY DEF LaidOut
  <2> QED
    BY Zenon, <1>2, <2>1 DEF TellInv
<1>4. AreTreeBlocks /\ DoneInTree /\ WholeTree
  <2>1. WholeTree
    BY <1>1 DEF ShapeInv, DoneRef
  <2> QED
    BY Zenon, <1>1, <2>1, TreeBlocks, BlocksInTree
<1>5. ASSUME NEW b \in TreeBlocksDone PROVE b \in RefTree(args) /\ b[1] >= 0
  <2>1. b \in RefTree(args) /\ b[1] # -1
    BY Zenon, <1>4, <1>5 DEF AreTreeBlocks, DoneInTree
  <2>2. b[1] \in -1 .. RefLevels(args) - 1
    BY <2>1, RefTreeArePairs
  <2> QED
    BY <2>1, <2>2
<1>6. ASSUME NEW b \in RefTree(args), b[1] >= 0 PROVE b \in TreeBlocksDone
  <2>1. args \in Calls /\ args.file_size \in Nat /\ num_levels \in 0 .. MaxLevels
    BY <1>1, CallFacts DEF IInv, TypeOK, LocalsOK
  <2>2. args.file_size > 0
    <3>1. CASE args.file_size = 0
      BY Zenon, <1>6, <2>1, <3>1, EmptyRefTree
    <3> QED
      BY <2>1, <3>1
  <2>3. /\ RefLevels(args) = num_levels
        /\ \A l \in -1 .. num_levels - 1 : Hashed(l) = RefBlocks(args, l)
    BY Zenon, <1>4, <2>2 DEF WholeTree
  <2>4. b = <<b[1], b[2]>> /\ b[1] \in -1 .. num_levels - 1 /\ b[2] \in 0 .. Hashed(b[1]) - 1
    BY Zenon, <1>6, <2>3, RefTreeArePairs
  <2>5. b[1] \in DOMAIN tree
    <3>1. DOMAIN tree = -1 .. MaxLevels - 1
      BY Zenon, <1>1 DEF IInv, TypeOK, TreeOK
    <3> QED
      BY <2>1, <2>4, <3>1, WidthAssumption
  <2>6. <<b[1], b[2]>> \in BlocksDone
    BY <1>1, <2>4, <2>5, InBlocksDone
  <2>7. b[1] # -1
    BY <1>6, <2>4
  <2> QED
    BY Zenon, <1>4, <2>4, <2>6, <2>7 DEF AreTreeBlocks
<1>7. TreeBlocksDone = {b \in RefTree(args) : b[1] >= 0}
  BY Zenon, <1>5, <1>6
<1>8. Promise!TreeBlocks(params) = TreeBlocksDone
  BY Zenon, <1>1, <1>7, SamePromise DEF Promise!TreeBlocks
<1>9. "merkle_tree_block" \in params.cbs => ToldBlocks = Promise!TreeBlocks(params)
  BY Zenon, <1>2, <1>8, ToldIs DEF ToldAre
<1> QED
  BY Zenon, <1>3, <1>9 DEF Promise!SizeIsTold, Promise!BlocksAreTold, Promise!Wants, ToldBlocks

\* The outcome, outside of compute_root_hash().
LEMMA OtherResult ==
  /\ dpc = "entry" => Result = "idle"
  /\ dpc \in {"check", "ctx", "descriptor", "digest"} => Result = "running"
  /\ dpc \in {"out", "done"} => Result = IF derr = Ok THEN "ok" ELSE "failed"
  BY DEF Result

LEMMA OtherResultNext ==
  /\ dpc' = "entry" => Result' = "idle"
  /\ dpc' \in {"check", "ctx", "descriptor", "digest"} => Result' = "running"
  /\ dpc' \in {"out", "done"} => Result' = IF derr' = Ok THEN "ok" ELSE "failed"
  /\ dpc' = "root" => Result' = IF pc' \in {"out", "done"} /\ err' # Ok THEN "failed" ELSE "running"
  BY DEF Result

LEMMA EnterRefines ==
  ASSUME DigestInv, Enter
  PROVE  [Promise!Next]_(Promise!dvars)
<1>1. /\ dpc = "entry" /\ params' \in Params /\ dpc' = "check"
      /\ desc_calls' = desc_calls /\ UNCHANGED vars
  BY Zenon DEF Enter, DGoto
<1>2. StartState /\ desc_calls = <<>>
  BY <1>1 DEF DigestInv, PhaseInv
<1>3. tree_size' = None /\ block_calls' = <<>> /\ desc_calls' = <<>>
  BY Zenon, <1>1, <1>2, QuietStep DEF Quiet, StartState
<1>4. Result = "idle" /\ Result' = "running"
  BY <1>1, OtherResult, OtherResultNext
<1>5. "idle" # "running"
  OBVIOUS
<1>6. /\ (tree_size' # None) = FALSE /\ (desc_calls' # <<>>) = FALSE
      /\ (IF block_calls' = <<>> THEN {} ELSE TreeBlocksDone') = {}
  BY Zenon, <1>3
<1>7. Promise!Begin(params')
  BY Zenon, <1>4, <1>5, <1>6 DEF Promise!Begin
<1> QED
  BY Zenon, <1>1, <1>7 DEF Promise!Next

LEMMA QuietTold ==
  ASSUME UNCHANGED vars, params' = params, desc_calls' = desc_calls
  PROVE  SameTold
<1>1. tree_size' = tree_size /\ block_calls' = block_calls /\ tree' = tree
  BY Zenon DEF vars, outside, history
<1> QED
  BY Zenon, <1>1, SameToldBlocks DEF SameTold

LEMMA CheckRefines ==
  ASSUME CheckParams \/ AllocCtx
  PROVE  [Promise!Next]_(Promise!dvars)
<1>1. /\ dpc = "check" \/ dpc = "ctx"
      /\ params' = params /\ desc_calls' = desc_calls /\ UNCHANGED vars
      /\ dpc' = "ctx" \/ (dpc' = "done" /\ (derr' = "bad params" \/ derr' = "ENOMEM"))
  BY Zenon DEF CheckParams, AllocCtx, DGoto
<1>2. Result = "running" /\ (Result' = "running" \/ Result' = "failed")
  BY <1>1, OtherResult, OtherResultNext DEF Ok
<1> QED
  BY Zenon, <1>1, <1>2, QuietTold, PromiseQuiet

LEMMA CallRefines ==
  ASSUME DigestInv, AllocMdCtx
  PROVE  [Promise!Next]_(Promise!dvars)
<1>1. /\ dpc = "ctx" /\ params' = params /\ desc_calls' = desc_calls
      /\ pc' = pc /\ tree_size' = tree_size /\ block_calls' = block_calls /\ tree' = tree
      /\ dpc' = "root" \/ (dpc' = "done" /\ derr' = "ENOMEM")
  BY Zenon DEF AllocMdCtx, DGoto, outside, history
<1>2. pc = "start"
  BY Zenon, <1>1 DEF DigestInv, PhaseInv, StartState
<1>3. Result = "running" /\ (Result' = "running" \/ Result' = "failed")
  BY <1>1, <1>2, OtherResult, OtherResultNext DEF Ok
<1>4. SameTold
  BY Zenon, <1>1, SameToldBlocks DEF SameTold
<1> QED
  BY Zenon, <1>3, <1>4, PromiseQuiet

LEMMA ReturnRefines ==
  ASSUME RootReturns \/ FreeCtx \/ UNCHANGED allvars
  PROVE  [Promise!Next]_(Promise!dvars)
<1>1. params' = params /\ desc_calls' = desc_calls /\ UNCHANGED vars
  BY Zenon DEF RootReturns, FreeCtx, allvars, dvars
<1>2. pc' = pc /\ err' = err
  BY Zenon, <1>1 DEF vars
<1>3. Result' = Result
  <2>1. CASE RootReturns
    <3>1. /\ dpc = "root" /\ pc = "done"
          /\ \/ err = Ok /\ dpc' = "descriptor"
             \/ err # Ok /\ dpc' = "out" /\ derr' = err
      BY Zenon, <2>1 DEF RootReturns, DGoto
    <3> QED
      BY <3>1, RootResult, OtherResultNext
  <2>2. CASE FreeCtx
    <3>1. dpc = "out" /\ dpc' = "done" /\ derr' = derr
      BY Zenon, <2>2 DEF FreeCtx, DGoto
    <3> QED
      BY <3>1, OtherResult, OtherResultNext
  <2>3. CASE UNCHANGED allvars
    <3>1. dpc' = dpc /\ derr' = derr
      BY Zenon, <2>3 DEF allvars, dvars
    <3> QED
      BY Zenon, <1>2, <3>1 DEF Result
  <2> QED
    BY Zenon, <2>1, <2>2, <2>3
<1> QED
  BY Zenon, <1>1, <1>3, QuietTold, PromiseQuiet

LEMMA DescriptorRefines ==
  ASSUME DigestInv, ToldInv, ReportDescriptor
  PROVE  [Promise!Next]_(Promise!dvars)
<1>1. /\ dpc = "descriptor" /\ params' = params /\ UNCHANGED vars
      /\ dpc' = "digest" \/ (dpc' = "out" /\ derr' = "callback error")
      /\ \/ "descriptor" \notin params.cbs /\ desc_calls' = desc_calls
         \/ "descriptor" \in params.cbs /\ desc_calls' = Append(desc_calls, Descriptor)
  BY Zenon DEF ReportDescriptor, DGoto
<1>2. Called /\ RootInv /\ TellInv /\ pc = "done" /\ err = Ok /\ desc_calls = <<>>
  <2>1. dpc = "descriptor"
    BY Zenon, <1>1
  <2> QED
    BY <2>1 DEF DigestInv, PhaseInv, ToldInv
<1>3. Result = "running" /\ (Result' = "running" \/ Result' = "failed")
  <2>1. dpc = "descriptor" /\ (dpc' = "digest" \/ (dpc' = "out" /\ derr' = "callback error"))
    BY Zenon, <1>1
  <2> QED
    BY <2>1, OtherResult, OtherResultNext DEF Ok
<1>4. CASE desc_calls' = desc_calls
  BY Zenon, <1>1, <1>3, <1>4, QuietTold, PromiseQuiet
<1>5. CASE "descriptor" \in params.cbs /\ desc_calls' = Append(desc_calls, Descriptor)
  <2>1. (desc_calls' # <<>>) = TRUE
    <3>1. \A x : Append(<<>>, x) # <<>>
      OBVIOUS
    <3> QED
      BY Zenon, <1>2, <1>5, <3>1
  <2>2. tree_size' = tree_size /\ ToldBlocks' = ToldBlocks
    <3>1. tree_size' = tree_size /\ block_calls' = block_calls /\ tree' = tree
      BY Zenon, <1>1 DEF vars, outside, history
    <3> QED
      BY Zenon, <3>1, SameToldBlocks
  <2>3. Promise!SizeIsTold /\ Promise!BlocksAreTold /\ Promise!Acceptable(params)
    BY Zenon, <1>2, AllIsTold, ChecksAreThePromise DEF Called
  <2>4. Result' \in {"running", "failed"}
    BY <1>3
  <2>5. Promise!TellDescriptor
    BY Zenon, <1>1, <1>2, <1>3, <1>5, <2>1, <2>2, <2>3, <2>4
    DEF Promise!TellDescriptor, Promise!Wants, ToldBlocks
  <2> QED
    BY Zenon, <2>5 DEF Promise!Work, Promise!Next
<1> QED
  BY Zenon, <1>1, <1>4, <1>5

LEMMA DigestRefines ==
  ASSUME DigestInv, ToldInv, AllocDigest
  PROVE  [Promise!Next]_(Promise!dvars)
<1>1. /\ dpc = "digest" /\ params' = params /\ desc_calls' = desc_calls /\ UNCHANGED vars
      /\ dpc' = "out" /\ (derr' = Ok \/ derr' = "ENOMEM")
  BY Zenon DEF AllocDigest, DGoto
<1>2. /\ Called /\ RootInv /\ TellInv /\ pc = "done" /\ err = Ok
      /\ "descriptor" \in params.cbs => desc_calls = <<Descriptor>>
  BY <1>1 DEF DigestInv, PhaseInv, ToldInv
<1>3. Result = "running" /\ (Result' = "ok" \/ Result' = "failed")
  BY <1>1, OtherResult, OtherResultNext
<1>4. SameTold
  BY Zenon, <1>1, QuietTold
<1>5. CASE Result' = "failed"
  BY Zenon, <1>3, <1>4, <1>5, PromiseQuiet
<1>6. CASE Result' = "ok"
  <2>1. Promise!SizeIsTold /\ Promise!BlocksAreTold /\ Promise!Acceptable(params)
    BY Zenon, <1>2, AllIsTold, ChecksAreThePromise DEF Called
  <2>2. "descriptor" \in params.cbs => desc_calls # <<>>
    <3>1. \A x : <<x>> # <<>>
      OBVIOUS
    <3> QED
      BY Zenon, <1>2, <3>1
  <2>3. Promise!Succeed
    BY Zenon, <1>3, <1>4, <1>6, <2>1, <2>2 DEF Promise!Succeed, Promise!Wants, SameTold, ToldBlocks
  <2> QED
    BY Zenon, <2>3 DEF Promise!Work, Promise!Next
<1> QED
  BY Zenon, <1>3, <1>5, <1>6

LEMMA ToldNext ==
  ASSUME DigestInv, ToldInv, [DigestNext]_allvars
  PROVE  ToldInv'
<1>1. CASE RootStep
  <2>1. dpc = "root" /\ [Next]_vars
    BY Zenon, <1>1 DEF RootStep, Next
  <2>2. RootInv /\ TellInv
    BY <2>1 DEF DigestInv, PhaseInv, ToldInv
  <2>3. RootInv'
    BY Zenon, <2>1, <2>2, RootNext
  <2>4. TellInv'
    BY <2>1, <2>2, <2>3, TellStep
  <2> QED
    BY <2>4 DEF ToldInv
<1>2. CASE AllocMdCtx
  <2>1. /\ dpc = "ctx" /\ pc' = pc /\ tree_size' = tree_size /\ block_calls' = block_calls
        /\ tree' = tree
    BY Zenon, <1>2 DEF AllocMdCtx, outside, history
  <2>2. /\ pc = "start" /\ tree_size = None /\ block_calls = <<>>
        /\ tree = [l \in -1 .. MaxLevels - 1 |-> <<>>]
    BY Zenon, <2>1 DEF DigestInv, PhaseInv, StartState
  <2>3. TellInv'
    <3>1. TreeBlocksDone' = {}
      <4>1. \A l \in 0 .. MaxLevels - 1 : l \in -1 .. MaxLevels - 1
        BY WidthAssumption
      <4>2. Len(<<>>) = 0 /\ 0 .. 0 - 1 = {}
        OBVIOUS
      <4>3. \A l \in 0 .. MaxLevels - 1 : 0 .. Len(tree'[l]) - 1 = {}
        BY Zenon, <2>1, <2>2, <4>1, <4>2
      <4> QED
        BY Zenon, <4>3 DEF TreeBlocksDone
    <3>2. <<>> \in Seq({})
      OBVIOUS
    <3>3. /\ pc' = "start" /\ tree_size' = None /\ block_calls' = <<>>
          /\ \E S : block_calls' \in Seq(S)
      BY Zenon, <2>1, <2>2, <3>2
    <3>4. ~LaidOut'
      BY <3>3 DEF LaidOut, Hashing
    <3> QED
      BY Zenon, <3>1, <3>3, <3>4 DEF TellInv
  <2> QED
    BY <2>3 DEF ToldInv
<1>3. CASE ~RootStep /\ ~AllocMdCtx
  <2>1. /\ UNCHANGED vars
        /\ \/ dpc' = dpc \/ dpc' = "check" \/ dpc' = "ctx" \/ dpc' = "done"
           \/ dpc = "root" \/ dpc = "descriptor" \/ dpc = "digest"
    <3>1. CASE Enter \/ CheckParams \/ AllocCtx \/ RootReturns
      BY Zenon, <3>1 DEF Enter, CheckParams, AllocCtx, RootReturns, DGoto
    <3>2. CASE ReportDescriptor \/ AllocDigest \/ FreeCtx
      BY Zenon, <3>2 DEF ReportDescriptor, AllocDigest, FreeCtx, DGoto
    <3>3. CASE DigestReturned \/ UNCHANGED allvars
      BY Zenon, <3>3 DEF DigestReturned, allvars, dvars
    <3> QED
      BY Zenon, <1>3, <3>1, <3>2, <3>3 DEF DigestNext, DigestStep
  <2>2. TellInv => TellInv'
    <3>1. pc' = pc /\ err' = err /\ args' = args /\ tree_size' = tree_size /\ block_calls' = block_calls
      BY Zenon, <2>1, QuietStep DEF Quiet
    <3>2. tree' = tree
      BY Zenon, <2>1 DEF vars, history
    <3> QED
      BY Zenon, <3>1, <3>2 DEF TellInv, LaidOut, Hashing, TreeBlocksDone
  <2>3. dpc' \in {"root", "descriptor", "digest", "out"} => dpc \in {"root", "descriptor", "digest", "out"}
    <3>1. \/ dpc' = dpc \/ dpc' = "check" \/ dpc' = "ctx" \/ dpc' = "done"
          \/ dpc = "root" \/ dpc = "descriptor" \/ dpc = "digest"
      BY Zenon, <2>1
    <3> QED
      BY <3>1
  <2> QED
    BY Zenon, <2>2, <2>3 DEF ToldInv
<1> QED
  BY Zenon, <1>1, <1>2, <1>3

LEMMA ToldInvariance == DigestComputation => [](DigestInv /\ ToldInv)
<1>1. DigestInit => ToldInv
  <2>1. DigestInit => dpc = "entry"
    BY Zenon DEF DigestInit
  <2> QED
    BY <2>1 DEF ToldInv
<1>2. DigestInv /\ ToldInv /\ [DigestNext]_allvars => ToldInv'
  BY ToldNext
<1> QED
  BY <1>1, <1>2, DigestInvariance, PTL DEF DigestComputation

LEMMA RefinesPromiseInit ==
  ASSUME DigestInit
  PROVE  Promise!Init
<1>1. StartState /\ dpc = "entry" /\ params = Null /\ desc_calls = <<>>
  BY Zenon DEF DigestInit
<1>2. tree_size = None /\ block_calls = <<>> /\ Result = "idle"
  BY Zenon, <1>1, OtherResult DEF StartState
<1>3. /\ (tree_size # None) = FALSE /\ (desc_calls # <<>>) = FALSE
      /\ (IF block_calls = <<>> THEN {} ELSE TreeBlocksDone) = {}
  BY Zenon, <1>1, <1>2
<1> QED
  BY Zenon, <1>1, <1>2, <1>3 DEF Promise!Init

LEMMA RefinesPromiseNext ==
  ASSUME DigestInv, DigestInv', ToldInv, ToldInv', [DigestNext]_allvars
  PROVE  [Promise!Next]_(Promise!dvars)
<1>1. CASE Enter
  BY <1>1, EnterRefines
<1>2. CASE CheckParams \/ AllocCtx
  BY <1>2, CheckRefines
<1>3. CASE AllocMdCtx
  BY <1>3, CallRefines
<1>4. CASE RootStep
  BY <1>4, RootRefines
<1>5. CASE ReportDescriptor
  BY <1>5, DescriptorRefines
<1>6. CASE AllocDigest
  BY <1>6, DigestRefines
<1>7. CASE RootReturns \/ FreeCtx \/ UNCHANGED allvars
  BY <1>7, ReturnRefines
<1> QED
  BY Zenon, <1>1, <1>2, <1>3, <1>4, <1>5, <1>6, <1>7 DEF DigestNext, DigestStep, DigestReturned

(***************************************************************************)
(* libfsverity_compute_digest() implements the safety part of DigestSpec:  *)
(* it tells the size of the tree before any block, each block once and     *)
(* after its children, the descriptor after all of them, only for          *)
(* parameters that libfsverity.h allows, and it returns 0 only when every  *)
(* callback that the caller installed was told all there is.               *)
(***************************************************************************)
THEOREM RefinesDigestSpec == DigestComputation => Promise!Safety
<1>1. DigestInit => Promise!Init
  BY RefinesPromiseInit
<1>2. /\ DigestInv /\ ToldInv /\ (DigestInv /\ ToldInv)'
      /\ [DigestNext]_allvars
      => [Promise!Next]_(Promise!dvars)
  BY RefinesPromiseNext
<1> QED
  BY <1>1, <1>2, ToldInvariance, PTL DEF DigestComputation, Promise!Safety
=============================================================================
