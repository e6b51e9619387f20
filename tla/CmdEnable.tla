----------------------------- MODULE CmdEnable -----------------------------
(***************************************************************************)
(* fsverity enable (programs/cmd_enable.c): read the tree options and the  *)
(* signature file, and ask the kernel to enable verity on the file with    *)
(* libfsverity_enable_with_sig() (lib/enable.c).  The kernel is external.  *)
(* Another process may replace the signature file while it is being read.  *)
(***************************************************************************)
EXTENDS TreeParams

CONSTANTS
  SigFiles,       \* contents of the signature file, sequences of bytes 1, 2...
  MaxSigSize,     \* the largest signature file accepted, 1000000 in the code
  U32,            \* 2^32, for the u32 sig_size fields
  MaxChanges,     \* bounds how often the signature file is replaced
  NoVerity

ASSUME SigSizeAssumption == MaxSigSize \in Nat /\ U32 \in Nat /\ MaxSigSize < U32
ASSUME SigFilesAssumption == SigFiles \subseteq Seq(Nat \ {0})

\* NoVerity is none of the states that the ioctl puts a file in.
ASSUME NoVerityAssumption ==
  NoVerity \notin [hash_algorithm : Nat, log_blocksize : Nat, salt_size : Nat, sig : Seq(Nat)]

VARIABLES
  sig, sig_size,     \* empty for a null pointer
  sig_file,          \* the signature file's contents
  file_size, buf,    \* locals of read_signature()
  sig_fd,            \* its descriptor: "closed" or "open"
  verity,            \* what the kernel has enabled on the file, or NoVerity
  changes,           \* how often the signature file was replaced
  contents,          \* history: what the signature file has contained
  close_failed       \* history: close() of the file failed

reader == <<sig, sig_size, sig_file, file_size, buf, sig_fd, changes, contents>>
enablevars == <<pc, cmd, i, reader, file, status, verity, close_failed, paramvars>>

CmdEnableInit ==
  /\ ParamsInit
  /\ cmd \in CommandLines /\ sig_file \in SigFiles /\ contents = {sig_file}
  /\ pc = "options" /\ i = 1 /\ sig = <<>> /\ sig_size = 0
  /\ file_size = 0 /\ buf = <<>> /\ sig_fd = "closed" /\ file = "closed"
  /\ status = 0 /\ verity = NoVerity /\ changes = 0 /\ close_failed = FALSE

EnableOptions == {"hash-alg", "block-size", "salt"}

ParseEnableOption ==
  /\ pc = "options" /\ i <= Len(cmd.opts) /\ cmd.opts[i].opt \in EnableOptions
  /\ \E accepted \in BOOLEAN :
       /\ ParseTreeParam(cmd.opts[i], accepted)
       /\ IF accepted THEN Goto("options") ELSE Usage
  /\ i' = i + 1
  /\ UNCHANGED <<cmd, reader, file, verity, close_failed>>

\* --signature, once, is read at once; any other option is an error.
ParseSignature ==
  /\ pc = "options" /\ i <= Len(cmd.opts) /\ cmd.opts[i].opt \notin EnableOptions
  /\ IF cmd.opts[i].opt = "signature" /\ sig = <<>> THEN Goto("sig_open") ELSE Usage
  /\ i' = i + 1
  /\ UNCHANGED <<cmd, reader, file, verity, close_failed, paramvars>>

----------------------------------------------------------------------------
\* read_signature()

OpenSignature ==
  /\ pc = "sig_open"
  /\ \/ sig_fd' = "open" /\ Goto("sig_stat")
     \/ OutErr /\ UNCHANGED sig_fd
  /\ UNCHANGED <<cmd, i, sig, sig_size, sig_file, file_size, buf, changes, contents,
                 file, verity, close_failed, paramvars>>

SizeAllowed(n) == n > 0 /\ n <= MaxSigSize

\* get_file_size(), which may fail, the two checks, and the allocation
StatSignature ==
  /\ pc = "sig_stat"
  /\ \/ /\ file_size' = Len(sig_file) /\ SizeAllowed(file_size')
        /\ heap' = heap \cup {"buf"} /\ Goto("sig_read") /\ UNCHANGED sig_fd
     \/ sig_fd' = "closed" /\ OutErr /\ UNCHANGED <<file_size, heap>>
  /\ UNCHANGED <<cmd, i, sig, sig_size, sig_file, buf, changes, contents, file,
                 verity, close_failed, tree_params, outputs, outfiles, io_failed, lib>>

\* full_read(), of which each byte is read from the file as it is by then
ReadSignature ==
  /\ pc = "sig_read" /\ Len(buf) < file_size /\ Len(buf) < Len(sig_file)
  /\ buf' = Append(buf, sig_file[Len(buf) + 1])
  /\ UNCHANGED <<pc, cmd, i, sig, sig_size, sig_file, file_size, sig_fd, changes, contents,
                 file, status, verity, close_failed, paramvars>>

\* Mutant: the end of the file ends the read.
ReadEnoughShort == Len(buf) = file_size \/ Len(buf) >= Len(sig_file)

ReadEnough == Len(buf) = file_size

\* The buffer becomes the caller's; close() is not checked.
SignatureRead ==
  /\ pc = "sig_read" /\ ReadEnough
  /\ sig' = buf /\ sig_size' = file_size /\ buf' = <<>>
  /\ heap' = (heap \ {"buf"}) \cup {"sig"}
  /\ sig_fd' = "closed" /\ Goto("options")
  /\ UNCHANGED <<cmd, i, sig_file, file_size, changes, contents, file, verity,
                 close_failed, tree_params, outputs, outfiles, io_failed, lib>>

\* A read fails, or finds the end of a file that was cut short.
SignatureReadFails ==
  /\ pc = "sig_read" /\ Len(buf) < file_size
  /\ heap' = heap \ {"buf"} /\ buf' = <<>>
  /\ sig_fd' = "closed" /\ OutErr
  /\ UNCHANGED <<cmd, i, sig, sig_size, sig_file, file_size, changes, contents, file,
                 verity, close_failed, tree_params, outputs, outfiles, io_failed, lib>>

\* Another process, of interest only while the file is open here
ReplaceSignature ==
  /\ sig_fd = "open" /\ changes < MaxChanges
  /\ sig_file' \in SigFiles \ {sig_file} /\ changes' = changes + 1
  /\ contents' = contents \cup {sig_file'}
  /\ UNCHANGED <<pc, cmd, i, sig, sig_size, file_size, buf, sig_fd, file, status, verity,
                 close_failed, paramvars>>

----------------------------------------------------------------------------
EnableOptionsDone ==
  /\ pc = "options" /\ i > Len(cmd.opts)
  /\ IF cmd.files # 1 THEN Usage ELSE Goto("open")
  /\ UNCHANGED <<cmd, i, reader, file, verity, close_failed, paramvars>>

OpenFile ==
  /\ pc = "open"
  /\ \/ file' = "open" /\ Goto("enable")
     \/ OutErr /\ UNCHANGED file
  /\ UNCHANGED <<cmd, i, reader, verity, close_failed, paramvars>>

\* Mutant: the salt is forgotten.
EnableArgUnsalted(p, s, n) ==
  [hash_algorithm |-> HashAlgOf(p), block_size |-> BlockSizeOf(p),
   salt_size |-> 0, sig_size |-> n % U32, sig |-> s]

\* struct fsverity_enable_arg
EnableArg(p, s, n) ==
  [hash_algorithm |-> IF p.hash_algorithm # 0 THEN p.hash_algorithm ELSE DefaultHashAlg,
   block_size |-> IF p.block_size # 0 THEN p.block_size ELSE DefaultBlockSize,
   salt_size |-> p.salt_size, sig_size |-> n % U32, sig |-> s]

\* FS_IOC_ENABLE_VERITY: the descriptor's fields and the signature copied from
\* the argument, if the kernel knows these parameters and has no other objection;
\* a byte of the signature's buffer that was never filled is 0
KernelEnables(arg) ==
  /\ KnownHashAlg(arg.hash_algorithm) /\ IsPowerOf2(arg.block_size)
  /\ arg.salt_size <= MaxSaltSize
  /\ verity' = [hash_algorithm |-> arg.hash_algorithm,
                log_blocksize |-> Ilog2(arg.block_size), salt_size |-> arg.salt_size,
                sig |-> [k \in 1 .. arg.sig_size |->
                          IF k \in DOMAIN arg.sig THEN arg.sig[k] ELSE 0]]

\* libfsverity_enable_with_sig(); an error closes the file.
Enable ==
  /\ pc = "enable"
  /\ \/ /\ tree_params.version = 1
        /\ KernelEnables(EnableArg(tree_params, sig, sig_size))
        /\ Goto("close") /\ UNCHANGED file
     \/ OutErr /\ file' = "closed" /\ UNCHANGED verity
  /\ UNCHANGED <<cmd, i, reader, close_failed, paramvars>>

\* Mutant: close() is not checked.
CloseFileUnchecked ==
  /\ pc = "close" /\ file' = "closed"
  /\ close_failed' \in BOOLEAN /\ pc' = "out" /\ status' = 0
  /\ UNCHANGED <<cmd, i, reader, verity, paramvars>>

CloseFile ==
  /\ pc = "close" /\ file' = "closed"
  /\ close_failed' \in BOOLEAN
  /\ IF close_failed' THEN OutErr ELSE pc' = "out" /\ status' = 0
  /\ UNCHANGED <<cmd, i, reader, verity, paramvars>>

\* Mutant: the signature is not freed.
FreedNothing == {}

Freed == {"sig"}

\* No output file is open here, so destroy_tree_params() does not fail.
CmdEnableOut ==
  /\ pc = "out"
  /\ \E destroyed \in BOOLEAN : DestroyTreeParams(destroyed)
  /\ Goto("free")
  /\ UNCHANGED <<cmd, i, reader, file, verity, close_failed>>

FreeSignature ==
  /\ pc = "free"
  /\ heap' = heap \ Freed /\ Goto("exit")
  /\ UNCHANGED <<cmd, i, reader, file, verity, close_failed, tree_params, outputs, outfiles,
                 io_failed, lib>>

CmdEnableStep ==
  \/ ParseEnableOption \/ ParseSignature \/ OpenSignature \/ StatSignature \/ ReadSignature
  \/ SignatureRead \/ SignatureReadFails \/ EnableOptionsDone \/ OpenFile \/ Enable
  \/ CloseFile \/ CmdEnableOut \/ FreeSignature

CmdEnableExited == pc = "exit" /\ UNCHANGED enablevars

CmdEnableNext == CmdEnableStep \/ ReplaceSignature \/ CmdEnableExited

\* The process runs; the other one need not.
CmdEnableSpec == CmdEnableInit /\ [][CmdEnableNext]_enablevars /\ WF_enablevars(CmdEnableStep)

----------------------------------------------------------------------------
(***************************************************************************)
(* The kernel enables verity with the hash algorithm, block size and salt  *)
(* of the options, and with the defaults of fsverity digest and sign       *)
(* (AsGiven), so that the digest these computed and signed is the file's.  *)
(***************************************************************************)
EnabledAsAsked == verity # NoVerity => AsGiven(cmd.opts, verity)

(***************************************************************************)
(* The signature that the kernel is given with --signature has as many     *)
(* bytes as the file had when its size was checked, within the limit, each *)
(* of them read from its place in the file (none made up for one that was  *)
(* cut short), and is the file if nobody replaced it while it was open.    *)
(* Replaced under the read, it may be the start of one, or some of each.   *)
(***************************************************************************)
SignatureFromFile ==
  verity # NoVerity =>
    IF \E k \in DOMAIN cmd.opts : cmd.opts[k].opt = "signature"
      THEN /\ Len(verity.sig) = file_size /\ file_size \in 1 .. MaxSigSize
           /\ \A k \in DOMAIN verity.sig :
                \E c \in contents : k \in DOMAIN c /\ verity.sig[k] = c[k]
           /\ changes = 0 => verity.sig = sig_file
      ELSE verity.sig = <<>>

(***************************************************************************)
(* What the exit status says of the file: 0 means that verity is enabled   *)
(* and nothing failed, 2 that it was not touched, and 1 that it was not    *)
(* enabled unless only the close() afterwards failed.                      *)
(***************************************************************************)
EnableStatusTells ==
  pc = "exit" =>
    /\ status = 0 => verity # NoVerity /\ ~close_failed
    /\ verity # NoVerity /\ status # 0 => status = 1 /\ close_failed

(***************************************************************************)
(* The command always exits, although the signature file may be replaced   *)
(* or cut short while it is read, and by then both descriptors are closed  *)
(* and the signature, the buffer of a read that failed and the parameters  *)
(* are freed.                                                              *)
(***************************************************************************)
EnableExitCleansUp ==
  <>(pc = "exit" /\ heap = {} /\ file = "closed" /\ sig_fd = "closed")
=============================================================================
