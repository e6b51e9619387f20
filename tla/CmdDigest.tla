------------------------------ MODULE CmdDigest ------------------------------
(***************************************************************************)
(* fsverity digest (programs/cmd_digest.c): parse the options, then digest *)
(* and print each file in turn.  All files share one set of tree           *)
(* parameters and one pair of output files (TreeParams).                   *)
(***************************************************************************)
EXTENDS TreeParams, FiniteSets

CONSTANT Sizes   \* the sizes fstat() may find

\* The tree of a file has a height: some level, and none before it, is a single
\* block.  The provers know nothing of exponentiation.
ASSUME LevelsAssumption ==
  \A s \in Sizes :
    /\ s \in Nat
    /\ \A n \in BlockSizes, alg \in DOMAIN HashAlgTable :
         LET d == HashAlgTable[alg].digest_size
             a == [file_size |-> s, block_size |-> n, digest_size |-> d]
         IN  n >= 2 * d =>
               /\ \A k \in 0 .. s : (n \div d)^k \in Nat \ {0}
               /\ \E h \in 0 .. s :
                    /\ Lib!RefBlocks(a, h - 1) <= 1
                    /\ \A m \in 0 .. h - 1 : Lib!RefBlocks(a, m - 1) > 1

VARIABLES
  compact, for_builtin_sig,
  digest_lines,     \* the lines printed
  sizes       \* history: what fstat() found for each file

cmdvars == <<pc, cmd, i, compact, for_builtin_sig, file, digest_lines, status, sizes>>
digestvars == <<cmdvars, paramvars>>

CmdDigestInit ==
  /\ ParamsInit
  /\ cmd \in CommandLines
  /\ pc = "options" /\ i = 1 /\ compact = FALSE /\ for_builtin_sig = FALSE
  /\ file = "closed" /\ digest_lines = <<>> /\ status = 0 /\ sizes = <<>>

\* Mutant: the input stays open.
DigestOutErrLeaks == pc' = "out" /\ status' = 1 /\ UNCHANGED file

DigestOutErr == pc' = "out" /\ status' = 1 /\ file' = "closed"

ParseDigestOption ==
  /\ pc = "options" /\ i <= Len(cmd.opts)
  /\ cmd.opts[i].opt \in TreeOptions
  /\ \E ok \in BOOLEAN :
       /\ ParseTreeParam(cmd.opts[i], ok)
       /\ \/ ok /\ i' = i + 1 /\ UNCHANGED <<pc, status>>
          \/ ~ok /\ Usage /\ UNCHANGED i
  /\ UNCHANGED <<cmd, compact, for_builtin_sig, file, digest_lines, sizes>>

ParseFlag ==
  /\ pc = "options" /\ i <= Len(cmd.opts)
  /\ cmd.opts[i].opt \notin TreeOptions
  /\ compact' = (compact \/ cmd.opts[i].opt = "compact")
  /\ for_builtin_sig' = (for_builtin_sig \/ cmd.opts[i].opt = "for-builtin-sig")
  /\ \/ /\ cmd.opts[i].opt \in {"compact", "for-builtin-sig"}
        /\ i' = i + 1 /\ UNCHANGED <<pc, status>>
     \/ /\ cmd.opts[i].opt \notin {"compact", "for-builtin-sig"}
        /\ Usage /\ UNCHANGED i
  /\ UNCHANGED <<cmd, file, digest_lines, sizes, paramvars>>

DigestOptionsDone ==
  /\ pc = "options" /\ i > Len(cmd.opts)
  /\ \/ cmd.files < 1 /\ Usage /\ UNCHANGED i
     \/ cmd.files >= 1 /\ pc' = "open" /\ i' = 1 /\ UNCHANGED status
  /\ UNCHANGED <<cmd, compact, for_builtin_sig, file, digest_lines, sizes, paramvars>>

OpenInput ==
  /\ pc = "open" /\ i <= cmd.files
  /\ \/ file' = "open" /\ pc' = "stat" /\ UNCHANGED status
     \/ DigestOutErr
  /\ UNCHANGED <<cmd, i, compact, for_builtin_sig, digest_lines, sizes, paramvars>>

\* Mutant: the first file's size is kept.
StatInputOnce ==
  /\ pc = "stat"
  /\ \E s \in Sizes :
       /\ tree_params' = IF i = 1 THEN [tree_params EXCEPT !.file_size = s]
                         ELSE tree_params
       /\ sizes' = Append(sizes, s)
  /\ pc' = "compute"
  /\ UNCHANGED <<cmd, i, compact, for_builtin_sig, digest_lines, status, file, outputs,
                 heap, outfiles, io_failed, lib>>

\* get_file_size() into the shared tree_params
StatInput ==
  /\ pc = "stat"
  /\ \/ /\ \E s \in Sizes :
             /\ tree_params' = [tree_params EXCEPT !.file_size = s]
             /\ sizes' = Append(sizes, s)
        /\ pc' = "compute" /\ UNCHANGED <<status, file>>
     \/ DigestOutErr /\ UNCHANGED <<tree_params, sizes>>
  /\ UNCHANGED <<cmd, i, compact, for_builtin_sig, digest_lines, outputs, heap, outfiles,
                 io_failed, lib>>

CallLibrary ==
  /\ pc = "compute"
  /\ Lib!Begin(tree_params)
  /\ pc' = "library"
  /\ UNCHANGED <<cmd, i, compact, for_builtin_sig, file, digest_lines, status, sizes,
                 tree_params, outputs, heap, outfiles, io_failed>>

Library == pc = "library" /\ LibStep(i) /\ UNCHANGED cmdvars

LibraryReturns ==
  /\ pc = "library" /\ result \in {"ok", "failed"}
  /\ \/ /\ result = "ok"
        /\ heap' = heap \cup {"digest"}
        /\ pc' = "print" /\ UNCHANGED <<status, file>>
     \/ result = "failed" /\ DigestOutErr /\ UNCHANGED heap
  /\ UNCHANGED <<cmd, i, compact, for_builtin_sig, digest_lines, sizes, tree_params,
                 outputs, outfiles, io_failed, lib>>

\* What a line shows: the digest, wrapped or not, and the names around it.
PrintDigest ==
  /\ pc = "print"
  /\ digest_lines' = Append(digest_lines,
       [digest  |-> DescriptorOf(call, i),
        wrapped |-> for_builtin_sig,
        alg     |-> ~compact /\ ~for_builtin_sig,
        name    |-> IF compact THEN 0 ELSE i])
  /\ heap' = IF for_builtin_sig THEN heap \cup {"formatted_digest"} ELSE heap
  /\ pc' = "close"
  /\ UNCHANGED <<cmd, i, compact, for_builtin_sig, file, status, sizes,
                 tree_params, outputs, outfiles, io_failed, lib>>

\* The input's close() is not checked.
CloseInput ==
  /\ pc = "close"
  /\ file' = "closed"
  /\ heap' = heap \ {"digest", "formatted_digest"}
  /\ i' = i + 1 /\ pc' = "open"
  /\ UNCHANGED <<cmd, compact, for_builtin_sig, digest_lines, status, sizes,
                 tree_params, outputs, outfiles, io_failed, lib>>

FilesDone ==
  /\ pc = "open" /\ i > cmd.files
  /\ pc' = "out" /\ status' = 0
  /\ UNCHANGED <<cmd, i, compact, for_builtin_sig, file, digest_lines, sizes, paramvars>>

CmdDigestOut ==
  /\ pc = "out"
  /\ \E ok \in BOOLEAN :
       /\ DestroyTreeParams(ok)
       /\ status' = IF ~ok /\ status = 0 THEN 1 ELSE status
  /\ pc' = "exit"
  /\ UNCHANGED <<cmd, i, compact, for_builtin_sig, file, digest_lines, sizes>>

CmdDigestStep ==
  \/ ParseDigestOption \/ ParseFlag \/ DigestOptionsDone
  \/ OpenInput \/ StatInput \/ CallLibrary \/ Library \/ LibraryReturns
  \/ PrintDigest \/ CloseInput \/ FilesDone \/ CmdDigestOut

CmdDigestExited == pc = "exit" /\ UNCHANGED digestvars

CmdDigestNext == CmdDigestStep \/ CmdDigestExited

\* The process runs, and the library call returns, as it promises.
CmdDigestSpec == CmdDigestInit /\ [][CmdDigestNext]_digestvars /\ WF_digestvars(CmdDigestStep)

----------------------------------------------------------------------------
(***************************************************************************)
(* fsverity digest exits with status 0 only if it printed one line for     *)
(* each file, in order, each the digest of that file (of the size found    *)
(* for it, not for an earlier file) with the options given, and no write   *)
(* or close of an output file failed.  The result of printf() is not       *)
(* checked: standard output is taken to work.                              *)
(***************************************************************************)
SuccessPrintsEveryFile ==
  pc = "exit" /\ status = 0 =>
    /\ Len(digest_lines) = cmd.files /\ ~io_failed
    /\ \A j \in 1 .. cmd.files :
         LET d == digest_lines[j].digest
         IN  d.root_hash = j /\ d.data_size = sizes[j] /\ AsGiven(cmd.opts, d)

(***************************************************************************)
(* Once a file is digested the output files hold its metadata: the tree    *)
(* file begins with its whole tree in the kernel's layout, and nothing     *)
(* else if it is the first file; the descriptor file ends with its         *)
(* descriptor.                                                             *)
(***************************************************************************)
OutputsHoldThisFile ==
  pc \in {"print", "close"} =>
    /\ outputs["tree"] = "open" =>
         /\ \A b \in Lib!TreeBlocks(call) :
              tree_file[BlockNumber(b) + 1] = <<i, b[1], b[2]>>
         /\ i = 1 => Len(tree_file) = Cardinality(Lib!TreeBlocks(call))
    /\ outputs["desc"] = "open" =>
         /\ desc_file[Len(desc_file)] = [desc |-> DescriptorOf(call, i), whole |-> TRUE]
         /\ i = 1 => Len(desc_file) = 1

(***************************************************************************)
(* Whatever fails, the command comes to its exit, and by then every        *)
(* descriptor is closed and every allocation freed: "goto out" from option *)
(* parsing, from a half-opened file or from the middle of the list of      *)
(* files included.                                                         *)
(***************************************************************************)
ExitCleansUp ==
  <>(/\ pc = "exit" /\ heap = {} /\ file = "closed"
     /\ \A o \in DOMAIN outputs : outputs[o] # "open")

(***************************************************************************)
(* man/fsverity.1.md, --out-merkle-tree: "Write the computed Merkle tree   *)
(* to the given file."  After success the file is the tree of one of the   *)
(* files digested, and nothing else.                                       *)
(***************************************************************************)
TreeFileIsOneTree ==
  pc = "exit" /\ status = 0 /\ outputs["tree"] = "closed" =>
    \E f \in 1 .. cmd.files : \A k \in DOMAIN tree_file : tree_file[k][1] = f
=============================================================================
