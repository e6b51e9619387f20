------------------------------ MODULE CmdSign ------------------------------
(***************************************************************************)
(* fsverity sign (programs/cmd_sign.c): digest a file with the shared tree *)
(* options (TreeParams, DigestSpec), have the library sign the digest      *)
(* (SignSpec), and replace the signature file.                             *)
(***************************************************************************)
EXTENDS TreeParams

CONSTANT InputSizes   \* the sizes fstat() may find

\* "NULL" is a null pointer, and no option's argument.
ASSUME NamesAssumption ==
  \A c \in CommandLines : \A k \in DOMAIN c.opts : c.opts[k].name # "NULL"

VARIABLES
  sig_params,   \* the signing options given so far, or "NULL"
  sig_out,      \* OUT_SIGFILE: "old", "empty", "torn", or "whole"
  sig_out_fd,   \* its descriptor
  ok,           \* the local of write_signature()
  printed,      \* "Signed file" was printed
  size,         \* history: what fstat() found
  sign_call, sign_result, signature

signer == <<sign_call, sign_result, signature>>
outvars == <<sig_out, sig_out_fd, ok, printed>>
cmdsignvars == <<pc, cmd, i, sig_params, file, outvars, status, size, signer, paramvars>>

Signer == INSTANCE SignSpec WITH SignArgs <- {}

SigOptions == {"key", "cert", "pkcs11-engine", "pkcs11-module", "pkcs11-keyid"}

CmdSignInit ==
  /\ ParamsInit /\ Signer!SignInit
  /\ cmd \in CommandLines
  /\ pc = "options" /\ i = 1 /\ sig_params = [o \in SigOptions |-> "NULL"]
  /\ file = "closed" /\ sig_out = "old" /\ sig_out_fd = "closed" /\ ok = TRUE
  /\ printed = FALSE /\ status = 0 /\ size = 0

ParseSignOption ==
  /\ pc = "options" /\ i <= Len(cmd.opts) /\ cmd.opts[i].opt \in TreeOptions
  /\ \E accepted \in BOOLEAN :
       /\ ParseTreeParam(cmd.opts[i], accepted)
       /\ IF accepted THEN Goto("options") ELSE Usage
  /\ i' = i + 1
  /\ UNCHANGED <<cmd, sig_params, file, outvars, size, signer>>

\* Each signing option at most once, and no unknown option
ParseKeyOption ==
  /\ pc = "options" /\ i <= Len(cmd.opts)
  /\ LET o == cmd.opts[i]
     IN  \/ /\ o.opt \in SigOptions /\ sig_params[o.opt] = "NULL"
            /\ sig_params' = [sig_params EXCEPT ![o.opt] = o.name]
            /\ Goto("options")
         \/ /\ o.opt \notin TreeOptions
            /\ o.opt \in SigOptions => sig_params[o.opt] # "NULL"
            /\ Usage /\ UNCHANGED sig_params
  /\ i' = i + 1
  /\ UNCHANGED <<cmd, file, outvars, size, signer, paramvars>>

\* Mutant: a certificate that was given is replaced too.
DefaultCertAlways(p) == [p EXCEPT !["cert"] = p["key"]]

DefaultCert(p) == IF p["cert"] = "NULL" THEN [p EXCEPT !["cert"] = p["key"]] ELSE p

SignOptionsDone ==
  /\ pc = "options" /\ i > Len(cmd.opts)
  /\ \/ cmd.files # 2 /\ Usage /\ UNCHANGED sig_params
     \/ cmd.files = 2 /\ sig_params' = DefaultCert(sig_params) /\ Goto("open")
  /\ UNCHANGED <<cmd, i, file, outvars, size, signer, paramvars>>

OpenSignInput ==
  /\ pc = "open"
  /\ \/ file' = "open" /\ Goto("stat")
     \/ OutErr /\ UNCHANGED file
  /\ UNCHANGED <<cmd, i, sig_params, outvars, size, signer, paramvars>>

StatSignInput ==
  /\ pc = "stat"
  /\ \/ /\ size' \in InputSizes /\ Goto("compute")
        /\ tree_params' = [tree_params EXCEPT !.file_size = size']
     \/ OutErr /\ UNCHANGED <<tree_params, size>>
  /\ UNCHANGED <<cmd, i, sig_params, file, outvars, signer, outputs, heap, outfiles,
                 io_failed, lib>>

CallComputeDigest ==
  /\ pc = "compute" /\ Lib!Begin(tree_params) /\ Goto("computing")
  /\ UNCHANGED <<cmd, i, sig_params, file, outvars, size, signer, tree_params,
                 outputs, heap, outfiles, io_failed>>

ComputeDigest ==
  /\ pc = "computing" /\ LibStep(1)
  /\ UNCHANGED <<pc, cmd, i, sig_params, file, outvars, status, size, signer>>

\* struct libfsverity_digest of the input
InputDigest ==
  [digest_algorithm |-> HashAlgOf(call),
   digest_size |-> GetDigestSize(HashAlgOf(call)),
   of |-> DescriptorOf(call, 1)]

\* What libfsverity_compute_digest() returned, and the call to sign it
CallSignDigest ==
  /\ pc = "computing"
  /\ \/ /\ result = "ok" /\ Goto("signing")
        /\ heap' = heap \cup {"digest"}
        /\ Signer!SignBegin(
             [pointers |-> TRUE, reserved_zero |-> TRUE, digest |-> InputDigest,
              keyfile |-> sig_params["key"], certfile |-> sig_params["cert"],
              engine |-> sig_params["pkcs11-engine"],
              module |-> sig_params["pkcs11-module"],
              keyid |-> sig_params["pkcs11-keyid"]])
     \/ result = "failed" /\ OutErr /\ UNCHANGED <<heap, signer>>
  /\ UNCHANGED <<cmd, i, sig_params, file, outvars, size, tree_params, outputs,
                 outfiles, io_failed, lib>>

SignDigest ==
  /\ pc = "signing" /\ Signer!SignWork
  /\ UNCHANGED <<pc, cmd, i, sig_params, file, outvars, status, size, paramvars>>

SignReturns ==
  /\ pc = "signing"
  /\ \/ sign_result = "ok" /\ heap' = heap \cup {"sig"} /\ Goto("open_sig")
     \/ sign_result = "failed" /\ OutErr /\ UNCHANGED heap
  /\ UNCHANGED <<cmd, i, sig_params, file, outvars, size, signer, tree_params, outputs,
                 outfiles, io_failed, lib>>

----------------------------------------------------------------------------
\* write_signature()

OpenSigFile ==
  /\ pc = "open_sig"
  /\ \/ sig_out' = "empty" /\ sig_out_fd' = "open" /\ Goto("write")
     \/ OutErr /\ UNCHANGED <<sig_out, sig_out_fd>>
  /\ UNCHANGED <<cmd, i, sig_params, file, ok, printed, size, signer, paramvars>>

WriteSigFile ==
  /\ pc = "write"
  /\ \/ sig_out' = "whole" /\ UNCHANGED ok
     \/ sig_out' \in {"empty", "torn"} /\ ok' = FALSE
  /\ Goto("close")
  /\ UNCHANGED <<cmd, i, sig_params, file, sig_out_fd, printed, size, signer, paramvars>>

\* Mutant: what close() returns replaces what the write returned.
AlsoClosedLast(closed) == closed

AlsoClosed(closed) == ok /\ closed

CloseSigFile ==
  /\ pc = "close"
  /\ sig_out_fd' = "closed"
  /\ \E closed \in BOOLEAN :
       /\ ok' = AlsoClosed(closed)
       /\ io_failed' = (io_failed \/ ~closed)
  /\ IF ok' THEN Goto("print") ELSE OutErr
  /\ UNCHANGED <<cmd, i, sig_params, file, sig_out, printed, size, signer, tree_params,
                 outputs, heap, outfiles, lib>>

PrintSigned ==
  /\ pc = "print"
  /\ printed' = TRUE /\ pc' = "out" /\ status' = 0
  /\ UNCHANGED <<cmd, i, sig_params, file, sig_out, sig_out_fd, ok, size, signer, paramvars>>

\* Mutant: the input is closed only where all went well.
CloseSignedIfDone == IF status = 0 THEN "closed" ELSE file

CloseSigned == "closed"

\* The input's close() is not checked.
CmdSignOut ==
  /\ pc = "out"
  /\ file' = CloseSigned
  /\ \E destroyed \in BOOLEAN :
       /\ DestroyTreeParams(destroyed)
       /\ status' = IF ~destroyed /\ status = 0 THEN 1 ELSE status
  /\ pc' = "free"
  /\ UNCHANGED <<cmd, i, sig_params, outvars, size, signer>>

FreeResults ==
  /\ pc = "free"
  /\ heap' = heap \ {"digest", "sig"} /\ Goto("exit")
  /\ UNCHANGED <<cmd, i, sig_params, file, outvars, size, signer, tree_params, outputs,
                 outfiles, io_failed, lib>>

CmdSignStep ==
  \/ ParseSignOption \/ ParseKeyOption \/ SignOptionsDone \/ OpenSignInput \/ StatSignInput
  \/ CallComputeDigest \/ ComputeDigest \/ CallSignDigest \/ SignDigest \/ SignReturns
  \/ OpenSigFile \/ WriteSigFile \/ CloseSigFile \/ PrintSigned \/ CmdSignOut \/ FreeResults

CmdSignExited == pc = "exit" /\ UNCHANGED cmdsignvars

\* The process runs, and the library's two calls return, as they promise.
CmdSignSpec ==
  CmdSignInit /\ [][CmdSignStep \/ CmdSignExited]_cmdsignvars /\ WF_cmdsignvars(CmdSignStep)

----------------------------------------------------------------------------
\* The argument of the one option named opt on the command line, or "NULL"
Arg(opt) ==
  LET K == {k \in DOMAIN cmd.opts : cmd.opts[k].opt = opt}
  IN  IF K = {} THEN "NULL" ELSE cmd.opts[CHOOSE k \in K : TRUE].name

(***************************************************************************)
(* fsverity sign exits with status 0 only if the signature file is whole   *)
(* and closed without error and holds the signature of this file's digest, *)
(* of the size found and with the tree options given, by the key asked for *)
(* and for the certificate asked for, which is the key file by default.    *)
(***************************************************************************)
SignSuccess ==
  pc = "exit" /\ status = 0 =>
    /\ sig_out = "whole" /\ printed /\ ~io_failed
    /\ signature.signed.of.data_size = size
    /\ AsGiven(cmd.opts, signature.signed.of)
    /\ signature.key = IF Arg("key") # "NULL" THEN Arg("key") ELSE Arg("pkcs11-keyid")
    /\ signature.cert = IF Arg("cert") # "NULL" THEN Arg("cert") ELSE Arg("key")

(***************************************************************************)
(* A signature file that was there before is lost only once there is a new *)
(* signature to replace it; a file left incomplete shows in the exit       *)
(* status; and "Signed file" is printed only of a file written completely. *)
(***************************************************************************)
SignatureFileSafe ==
  /\ sig_out # "old" => sign_result = "ok"
  /\ pc = "exit" /\ sig_out \in {"empty", "torn"} => status = 1
  /\ printed => sig_out = "whole" /\ sig_out_fd = "closed"

(***************************************************************************)
(* The command always comes to its exit, from whichever step it leaves,    *)
(* and by then every descriptor is closed and every allocation freed.      *)
(***************************************************************************)
SignExitCleansUp ==
  <>(/\ pc = "exit" /\ heap = {} /\ file = "closed" /\ sig_out_fd = "closed"
     /\ \A o \in DOMAIN outputs : outputs[o] # "open")
=============================================================================
