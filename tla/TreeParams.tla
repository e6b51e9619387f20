----------------------------- MODULE TreeParams -----------------------------
(***************************************************************************)
(* The Merkle tree parameters of the fsverity program (programs/fsverity.c)*)
(* shared by its subcommands: parse_tree_param() fills them in from the    *)
(* command line and opens the output files, the metadata callbacks write   *)
(* these files during libfsverity_compute_digest() (DigestSpec), and       *)
(* destroy_tree_params() closes them.                                      *)
(*                                                                         *)
(* A whole write that succeeds puts its data in the file and one that      *)
(* fails a part of it (FileIo).  The tree file is a function from block    *)
(* numbers to what the block holds: <<f, l, k>> is block k of level l of   *)
(* the tree of the f-th input.  The root hash of this tree is named f.     *)
(***************************************************************************)
EXTENDS Integers, Sequences, HashAlgs, Command

CONSTANTS
  CommandLines,   \* records of opts, a sequence of options, and files, a count
  IntMax,         \* INT_MAX
  NoCall

\* What an option is (below).  No name of an algorithm begins with a digit.
ASSUME OptionsAssumption ==
  \A c \in CommandLines :
    /\ Len(c.opts) \in Nat /\ DOMAIN c.opts = 1 .. Len(c.opts) /\ c.files \in Nat
    /\ \A k \in DOMAIN c.opts :
         LET o == c.opts[k]
         IN  o.n \in Nat /\ o.clean \in BOOLEAN /\ (FindHashAlgByName(o.name) # 0 => o.n = 0)

\* The numbers that block sizes are taken from.
BlockSizes ==
  {DefaultBlockSize} \cup UNION {{c.opts[k].n : k \in DOMAIN c.opts} : c \in CommandLines}

\* The arithmetic of powers of two that the proofs about block sizes rest on.
ASSUME PowersAssumption ==
  \A n \in BlockSizes :
    /\ n \in Nat /\ 2^1 = 2
    /\ \A k \in 0 .. n + 1 :
         2^k \in Nat \ {0} /\ \A j \in 0 .. k : 2^k = 2^j * 2^(k - j)

VARIABLES
  cmd,           \* the command line
  tree_params,   \* struct libfsverity_merkle_tree_params
  outputs,       \* the output files' descriptors: "none", "open" or "closed"
  heap,          \* live allocations
  tree_file, desc_file,
  io_failed,     \* history: an output operation failed
  \* the library call in progress
  call, told_size, told_blocks, told_desc, result

lib == <<call, told_size, told_blocks, told_desc, result>>
outfiles == <<tree_file, desc_file>>
paramvars == <<tree_params, outputs, heap, outfiles, io_failed, lib>>

Lib == INSTANCE DigestSpec WITH Params <- {}

Hole == <<>>       \* a block that was preallocated or skipped
Torn(b) == <<b>>   \* a block of which a part was written

ParamsInit ==
  /\ tree_params = [pointers |-> TRUE, version |-> 1, reserved_zero |-> TRUE,
                    hash_algorithm |-> 0, block_size |-> 0, file_size |-> 0,
                    salt_size |-> 0, salt |-> FALSE, cbs |-> {}]
  /\ outputs = [tree |-> "none", desc |-> "none"]
  /\ heap = {}
  /\ tree_file = <<>> /\ desc_file = <<>> /\ io_failed = FALSE
  /\ Lib!Init

----------------------------------------------------------------------------
(***************************************************************************)
(* An option is a record: n is what strtoul() returns for its argument (or *)
(* the argument's length, for --salt), "clean" says that the argument was  *)
(* consumed to its end (is a hex string), and name is the argument itself. *)
(* A parser accepts or refuses an option: ok is what it returns.           *)
(***************************************************************************)
ParseHashAlg(o, ok) ==
  LET n == IF o.n > 0 /\ o.n < IntMax /\ o.clean THEN o.n
           ELSE FindHashAlgByName(o.name)
  IN  /\ ok = (tree_params.hash_algorithm = 0 /\ n # 0)
      /\ tree_params' = IF ok THEN [tree_params EXCEPT !.hash_algorithm = n]
                        ELSE tree_params
      /\ UNCHANGED <<outputs, heap, outfiles, io_failed>>

ParseBlockSize(o, ok) ==
  /\ ok = (/\ tree_params.block_size = 0
           /\ o.n > 0 /\ o.n < IntMax /\ IsPowerOf2(o.n) /\ o.clean)
  /\ tree_params' = IF ok THEN [tree_params EXCEPT !.block_size = o.n]
                    ELSE tree_params
  /\ UNCHANGED <<outputs, heap, outfiles, io_failed>>

ParseSalt(o, ok) ==
  \/ /\ tree_params.salt
     /\ ~ok
     /\ UNCHANGED <<tree_params, outputs, heap, outfiles, io_failed>>
  \/ /\ ~tree_params.salt
     /\ ok = (o.n % 2 = 0 /\ o.clean)
     /\ tree_params' = [tree_params EXCEPT !.salt = TRUE, !.salt_size = o.n \div 2]
     /\ heap' = heap \cup {"salt"}
     /\ UNCHANGED <<outputs, outfiles, io_failed>>

\* The callbacks are installed first; the file is truncated when it is opened.
\* Refused if it is open already, or if open() fails.
ParseOut(out, ok) ==
  /\ heap' = heap \cup {"metadata_ctx"}
  /\ tree_params' = [tree_params EXCEPT !.cbs = @ \cup
       IF out = "tree" THEN {"merkle_tree_size", "merkle_tree_block"}
                       ELSE {"descriptor"}]
  /\ \/ ~ok /\ UNCHANGED <<outputs, outfiles>>
     \/ /\ ok /\ outputs[out] # "open"
        /\ outputs' = [outputs EXCEPT ![out] = "open"]
        /\ tree_file' = IF out = "tree" THEN <<>> ELSE tree_file
        /\ desc_file' = IF out = "desc" THEN <<>> ELSE desc_file
  /\ UNCHANGED io_failed

TreeOptions == {"hash-alg", "block-size", "salt", "out-merkle-tree",
                "out-descriptor"}

ParseTreeParam(o, ok) ==
  /\ CASE o.opt = "hash-alg" -> ParseHashAlg(o, ok)
       [] o.opt = "block-size" -> ParseBlockSize(o, ok)
       [] o.opt = "salt" -> ParseSalt(o, ok)
       [] o.opt = "out-merkle-tree" -> ParseOut("tree", ok)
       [] o.opt = "out-descriptor" -> ParseOut("desc", ok)
  /\ UNCHANGED lib

----------------------------------------------------------------------------
\* The metadata callbacks; f is the number of the input being digested.

BlockNumber(b) ==
  Lib!RefOffset(RootArgs(call), b[1], b[2]) \div BlockSizeOf(call)

TreeSize == Lib!RefTreeSize(RootArgs(call)) \div BlockSizeOf(call)

Preallocated(blocks, n) ==
  [k \in 1 .. (IF Len(blocks) < n THEN n ELSE Len(blocks)) |->
     IF k <= Len(blocks) THEN blocks[k] ELSE Hole]

HandleMerkleTreeSize ==
  /\ Lib!TellSize
  /\ \/ /\ result' = "running"
        /\ tree_file' = Preallocated(tree_file, TreeSize)
        /\ UNCHANGED io_failed
     \/ /\ result' = "failed" /\ TreeSize # 0
        /\ io_failed' = TRUE
        /\ UNCHANGED tree_file
  /\ UNCHANGED <<tree_params, outputs, heap, desc_file>>

\* Mutant: blocks are written one after the other, not at their offsets.
HandleMerkleTreeBlockAppends(f, b) ==
  /\ Lib!TellBlock(b)
  /\ tree_file' = Append(tree_file, <<f, b[1], b[2]>>)
  /\ io_failed' = (io_failed \/ result' = "failed")
  /\ UNCHANGED <<tree_params, outputs, heap, desc_file>>

HandleMerkleTreeBlock(f, b) ==
  /\ Lib!TellBlock(b)
  /\ LET block == <<f, b[1], b[2]>>
         at    == BlockNumber(b)
     IN  tree_file' = [Preallocated(tree_file, at + 1) EXCEPT ![at + 1] =
                         IF result' = "running" THEN block ELSE Torn(block)]
  /\ io_failed' = (io_failed \/ result' = "failed")
  /\ UNCHANGED <<tree_params, outputs, heap, desc_file>>

HandleDescriptor(f) ==
  /\ Lib!TellDescriptor
  /\ desc_file' = Append(desc_file, [desc  |-> DescriptorOf(call, f),
                                     whole |-> result' = "running"])
  /\ io_failed' = (io_failed \/ result' = "failed")
  /\ UNCHANGED <<tree_params, outputs, heap, tree_file>>

\* libfsverity_compute_digest() at work on the f-th input.
LibStep(f) ==
  \/ HandleMerkleTreeSize
  \/ result = "running" /\ Lib!Acceptable(call) /\
       \E b \in Lib!TreeBlocks(call) : HandleMerkleTreeBlock(f, b)
  \/ HandleDescriptor(f)
  \/ Lib!Succeed /\ UNCHANGED <<tree_params, outputs, heap, outfiles, io_failed>>
  \/ Lib!Fail /\ UNCHANGED <<tree_params, outputs, heap, outfiles, io_failed>>

\* close() of each open output file may fail; ok is what it returns.
DestroyTreeParams(ok) ==
  /\ outputs' = [o \in DOMAIN outputs |->
                   IF outputs[o] = "open" THEN "closed" ELSE outputs[o]]
  /\ ~ok => \E o \in DOMAIN outputs : outputs[o] = "open"
  /\ io_failed' = (io_failed \/ ~ok)
  /\ heap' = heap \ {"salt", "metadata_ctx"}
  /\ tree_params' = [tree_params EXCEPT !.version = 0, !.hash_algorithm = 0,
       !.block_size = 0, !.file_size = 0, !.salt_size = 0, !.salt = FALSE, !.cbs = {}]
  /\ UNCHANGED <<outfiles, lib>>

----------------------------------------------------------------------------
\* Descriptor d has the parameters that the options opts of a command line
\* give, or the defaults.  Used by the commands' properties.
AsGiven(opts, d) ==
  LET Given(opt) == \E k \in DOMAIN opts : opts[k].opt = opt
      Arg(opt)   == opts[CHOOSE k \in DOMAIN opts : opts[k].opt = opt]
  IN  /\ d.hash_algorithm =
           IF ~Given("hash-alg") THEN DefaultHashAlg
           ELSE IF KnownHashAlg(Arg("hash-alg").n) THEN Arg("hash-alg").n
           ELSE FindHashAlgByName(Arg("hash-alg").name)
      /\ 2^d.log_blocksize = IF Given("block-size") THEN Arg("block-size").n
                             ELSE DefaultBlockSize
      /\ d.salt_size = IF Given("salt") THEN Arg("salt").n \div 2 ELSE 0
=============================================================================
