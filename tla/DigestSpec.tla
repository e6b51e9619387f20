----------------------------- MODULE DigestSpec -----------------------------
(***************************************************************************)
(* What libfsverity_compute_digest() promises the program that calls it:   *)
(* the parameters it accepts, which metadata callbacks it makes in which   *)
(* order, and when it succeeds.  One call after the other.                 *)
(***************************************************************************)
EXTENDS MerkleReference, HashAlgs

CONSTANTS Params, NoCall

VARIABLES
  call,         \* the parameters of the current call
  told_size,    \* merkle_tree_size() was called
  told_blocks,  \* the tree blocks handed to merkle_tree_block()
  told_desc,    \* descriptor() was called
  result        \* "idle", "running", "ok" or "failed"

dvars == <<call, told_size, told_blocks, told_desc, result>>

Init ==
  /\ call = NoCall /\ result = "idle"
  /\ told_size = FALSE /\ told_blocks = {} /\ told_desc = FALSE

\* The arguments that pass the checks of libfsverity_compute_digest().  The
\* header names the fields; most of the limits are only in the checks.
Acceptable(p) ==
  /\ p.pointers /\ p.version = 1 /\ p.reserved_zero
  /\ KnownHashAlg(HashAlgOf(p))
  /\ \E k \in 0 .. BlockSizeOf(p) : BlockSizeOf(p) = 2^k
  /\ BlockSizeOf(p) >= 2 * GetDigestSize(HashAlgOf(p))
  /\ p.salt_size <= MaxSaltSize /\ (p.salt_size > 0 => p.salt)

TreeBlocks(p) == {b \in RefTree(RootArgs(p)) : b[1] >= 0}

Wants(cb) == cb \in call.cbs

SizeIsTold == Wants("merkle_tree_size") => told_size
BlocksAreTold == Wants("merkle_tree_block") => told_blocks = TreeBlocks(call)

Begin(p) ==
  /\ result # "running"
  /\ call' = p /\ result' = "running"
  /\ told_size' = FALSE /\ told_blocks' = {} /\ told_desc' = FALSE

\* A callback that fails ends the call.
TellSize ==
  /\ result = "running" /\ Acceptable(call)
  /\ Wants("merkle_tree_size") /\ ~told_size /\ told_blocks = {}
  /\ told_size' = TRUE
  /\ result' \in {"running", "failed"}
  /\ UNCHANGED <<call, told_blocks, told_desc>>

TellBlock(b) ==
  /\ result = "running" /\ Acceptable(call)
  /\ Wants("merkle_tree_block") /\ SizeIsTold
  /\ b \in TreeBlocks(call) \ told_blocks
  /\ b[1] > 0 => RefChildren(RootArgs(call), b[1], b[2]) \subseteq told_blocks
  /\ told_blocks' = told_blocks \cup {b}
  /\ result' \in {"running", "failed"}
  /\ UNCHANGED <<call, told_size, told_desc>>

TellDescriptor ==
  /\ result = "running" /\ Acceptable(call)
  /\ Wants("descriptor") /\ ~told_desc /\ SizeIsTold /\ BlocksAreTold
  /\ told_desc' = TRUE
  /\ result' \in {"running", "failed"}
  /\ UNCHANGED <<call, told_size, told_blocks>>

Succeed ==
  /\ result = "running" /\ Acceptable(call)
  /\ SizeIsTold /\ BlocksAreTold /\ (Wants("descriptor") => told_desc)
  /\ result' = "ok"
  /\ UNCHANGED <<call, told_size, told_blocks, told_desc>>

Fail ==
  /\ result = "running"
  /\ result' = "failed"
  /\ UNCHANGED <<call, told_size, told_blocks, told_desc>>

Work ==
  \/ TellSize
  \/ result = "running" /\ Acceptable(call) /\ \E b \in TreeBlocks(call) : TellBlock(b)
  \/ TellDescriptor
  \/ Succeed \/ Fail

Next == (\E p \in Params : Begin(p)) \/ Work

Safety == Init /\ [][Next]_dvars
Spec == Safety /\ WF_dvars(Work)
=============================================================================
