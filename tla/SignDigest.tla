----------------------------- MODULE SignDigest -----------------------------
(***************************************************************************)
(* libfsverity_sign_digest() (lib/sign_digest.c) in its OpenSSL and its    *)
(* BoringSSL build: read the certificate and the key, format the digest,   *)
(* build the PKCS#7 message, and release everything on every path.  The    *)
(* crypto library is external: a call of it succeeds or fails, and queues  *)
(* errors.  Pointers are kept apart from the objects they point to, so     *)
(* that a pointer to a freed object is visible.                            *)
(***************************************************************************)
EXTENDS ErrorMsg, HashAlgs

CONSTANTS
  Builds,      \* a subset of {"openssl", "boringssl"}
  SignArgs,    \* the arguments, as in SignSpec
  Names,       \* a certificate file's subject and issuer names
  NoCall

\* "0" is the success that err starts from, and NoCall is no signature.
ASSUME ErrAssumption == "0" \notin Errnos
ASSUME NoCallAssumption ==
  \A a \in SignArgs : a.certfile # "NULL" =>
    \A key \in {a.keyfile, a.keyid},
       name \in {Names[a.certfile].subject, Names[a.certfile].issuer} :
      NoCall # [signed |-> a.digest, cert |-> a.certfile, key |-> key, signer |-> name]

VARIABLES
  pc, build, args, err,
  reading,      \* which of "cert" and "pkey" is being read from a file
  ptr,          \* pointer variables: the object pointed to, or "NULL"
  live,         \* objects allocated and not freed
  misuse,       \* an object was freed that was not live
  sig_ret,      \* *sig_ret: the signature, or NoCall (unset or NULL)
  open_failed   \* history: BIO_new_file() failed

locals == <<build, args, misuse, sig_ret>>
vars == <<pc, locals, err, reading, ptr, live, open_failed, mvars>>

Spec7 == INSTANCE SignSpec WITH
  sign_call <- IF pc = "entry" THEN NoCall ELSE args,
  sign_result <- CASE pc = "entry" -> "idle"
                   [] pc = "done" -> IF err = "0" THEN "ok" ELSE "failed"
                   [] pc = "crashed" -> "failed"
                   [] OTHER -> "running",
  signature <- IF pc = "done" /\ err = "0"
               THEN [signed |-> sig_ret.signed, cert |-> sig_ret.cert, key |-> sig_ret.key]
               ELSE NoCall

Pointers == {"cert", "pkey", "d", "bio", "p7", "engine", "engine_init",
             "serial", "md_ctx", "out", "name_der", "sig", "pkcs7_data"}

SignInit ==
  /\ ErrorMsgInit
  /\ pc = "entry" /\ build \in Builds /\ args \in SignArgs /\ err = "0"
  /\ reading = "cert" /\ ptr = [p \in Pointers |-> "NULL"] /\ live = {}
  /\ misuse = FALSE /\ sig_ret = NoCall /\ open_failed = FALSE

Quiet == mpc = "idle" /\ UNCHANGED mvars

\* Give up with error e, reported by libfsverity_error_msg() ("plain") or by
\* error_msg_openssl() ("first").
Fail(kind, e, exit) ==
  /\ pc' = exit /\ err' = e
  /\ \E x \in AnyErrno : Report(kind, x)

\* A call that stores a new object in p (no object if p is "NULL"), or fails.
Call(at, next, p, kind, e, exit) ==
  /\ pc = at
  /\ \/ /\ pc' = next /\ Quiet
        /\ ptr' = IF p = "NULL" THEN ptr ELSE [ptr EXCEPT ![p] = p]
        /\ live' = live \cup ({p} \ {"NULL"})
        /\ UNCHANGED err
     \/ Fail(kind, e, exit) /\ UNCHANGED <<ptr, live>>
  /\ UNCHANGED <<locals, reading, open_failed>>

\* Free what the pointers P point to, at the end of their scope.
Free(P) ==
  /\ live' = live \ {ptr[p] : p \in P}
  /\ misuse' = (misuse \/ \E p \in P : ptr[p] \notin live \cup {"NULL"})
  /\ ptr' = [p \in Pointers |-> IF p \in P THEN "NULL" ELSE ptr[p]]

Enter == pc = "entry" /\ pc' = "check" /\ Quiet
         /\ UNCHANGED <<locals, err, reading, ptr, live, open_failed>>

BadArgs(a) ==
  \/ ~a.pointers \/ ~a.reserved_zero
  \/ ~KnownHashAlg(a.digest.digest_algorithm)
  \/ a.digest.digest_size # GetDigestSize(a.digest.digest_algorithm)

Check ==
  /\ pc = "check"
  /\ \/ BadArgs(args) /\ Fail("plain", "EINVAL", "done")
     \/ ~BadArgs(args) /\ args.certfile = "NULL" /\ Fail("plain", "EINVAL", "out")
     \/ ~BadArgs(args) /\ args.certfile # "NULL" /\ pc' = "open" /\ Quiet /\ UNCHANGED err
  /\ UNCHANGED <<locals, reading, ptr, live, open_failed>>

----------------------------------------------------------------------------
\* read_certificate() and read_private_key()

OpenPem ==
  /\ pc = "open"
  /\ \/ /\ pc' = "parse" /\ Quiet
        /\ ptr' = [ptr EXCEPT !["bio"] = "bio"] /\ live' = live \cup {"bio"}
        /\ UNCHANGED open_failed
     \/ /\ pc' = "errno" /\ \E x \in AnyErrno : Report("first", x)
        /\ open_failed' = TRUE
        /\ UNCHANGED <<ptr, live>>
  /\ UNCHANGED <<locals, err, reading>>

\* return errno ? -errno : -EIO, after the failure was reported
ErrnoReturn ==
  /\ pc = "errno" /\ Quiet
  /\ err' = IF errno # NoErrno THEN errno ELSE "EIO"
  /\ pc' = "out"
  /\ UNCHANGED <<locals, reading, ptr, live, open_failed>>

\* Mutant: what was read is not stored.
ParsePemLost == Call("parse", "close", "NULL", "first", "EBADMSG", "close")

ParsePem == Call("parse", "close", reading, "first", "EBADMSG", "close")

ClosePem ==
  /\ pc = "close" /\ Quiet
  /\ Free({"bio"})
  /\ pc' = IF err # "0" THEN "out" ELSE IF reading = "cert" THEN "key" ELSE "md"
  /\ UNCHANGED <<build, args, sig_ret, err, reading, open_failed>>

\* Mutant: a token is used whatever else was given.
TokenOrFileAny == IF Spec7!UsesToken(args) THEN "token"
                  ELSE IF args.keyfile = "NULL" THEN "neither" ELSE "file"

TokenOrFile ==
  IF Spec7!UsesToken(args)
    THEN IF args.keyfile # "NULL" THEN "both" ELSE "token"
    ELSE IF args.keyfile = "NULL" THEN "neither" ELSE "file"

GetPrivateKey ==
  /\ pc = "key"
  /\ \/ /\ TokenOrFile \in {"both", "neither"}
        /\ Fail("plain", "EINVAL", "out") /\ UNCHANGED reading
     \/ /\ TokenOrFile = "file"
        /\ pc' = "open" /\ reading' = "pkey" /\ Quiet /\ UNCHANGED err
     \/ /\ TokenOrFile = "token" /\ UNCHANGED reading
        /\ \/ /\ build = "boringssl" \/ args.engine = "NULL" \/ args.module = "NULL"
              /\ Fail("plain", "EINVAL", "out")
           \/ /\ build = "openssl" /\ args.engine # "NULL" /\ args.module # "NULL"
              /\ pc' = "engine" /\ Quiet /\ UNCHANGED err
  /\ UNCHANGED <<locals, ptr, live, open_failed>>

----------------------------------------------------------------------------
\* load_pkcs11_private_key(): the engine is held by a structural reference
\* ("engine") and, after ENGINE_init(), a functional one ("engine_init").  A
\* key that was loaded keeps the engine by references of its own.

EngineById == Call("engine", "init", "engine", "first", "EINVAL", "out")

EngineInit == Call("init", "load", "engine_init", "first", "EINVAL", "uninit")

EngineFree ==
  /\ pc = "uninit" /\ Quiet
  /\ Free({"engine"}) /\ pc' = "out"
  /\ UNCHANGED <<build, args, sig_ret, err, reading, open_failed>>

\* ENGINE_load_private_key(), ENGINE_finish(), ENGINE_free()
LoadKey ==
  /\ pc = "load" /\ Free({"engine_init", "engine"})
  /\ pc' = "token" /\ Quiet
  /\ UNCHANGED <<build, args, sig_ret, err, reading, open_failed>>

\* ... and whether there was a key
LoadedKey == Call("token", "md", "pkey", "first", "EINVAL", "out")

GetDigestByName == Call("md", "alloc", "NULL", "plain", "ENOPKG", "out")

FormatDigest ==
  Call("alloc", IF build = "openssl" THEN "buf" ELSE "serial", "d", "plain", "ENOMEM", "out")

\* What the PKCS#7 message says, with the signer's name as given.
Message(name) ==
  [signed |-> args.digest, cert |-> args.certfile,
   key |-> IF reading = "pkey" THEN args.keyfile ELSE args.keyid,
   signer |-> name]

\* libfsverity_memdup() of the message, into *sig_ret
ReturnSignature(at, name, exit) ==
  /\ pc = at
  /\ \/ /\ sig_ret' = Message(name) /\ live' = live \cup {"sig_ret"}
        /\ pc' = exit /\ Quiet /\ UNCHANGED err
     \/ /\ sig_ret' = NoCall
        /\ Fail("plain", "ENOMEM", exit) /\ UNCHANGED live
  /\ UNCHANGED <<build, args, misuse, reading, ptr, open_failed>>

----------------------------------------------------------------------------
\* sign_pkcs7() with OpenSSL.  The formatted digest is a few bytes long, so
\* that new_mem_buf() finds it below INT_MAX.

NewMemBuf == Call("buf", "p7", "bio", "first", "ENOMEM", "p7_out")
Pkcs7Sign == Call("p7", "signer", "p7", "first", "EINVAL", "p7_out")
AddSigner == Call("signer", "final", "NULL", "first", "EINVAL", "p7_out")
Pkcs7Final == Call("final", "renew", "NULL", "first", "EINVAL", "p7_out")

\* Mutant: if there is no new BIO the pointer to the old one stays.
RenewBioKeepsPointer ==
  /\ pc = "renew"
  /\ misuse' = (misuse \/ ptr["bio"] \notin live)
  /\ \/ /\ ptr' = [ptr EXCEPT !["bio"] = "sig_bio"]
        /\ live' = (live \ {ptr["bio"]}) \cup {"sig_bio"}
        /\ pc' = "encode" /\ Quiet /\ UNCHANGED err
     \/ /\ live' = live \ {ptr["bio"]}
        /\ Fail("first", "ENOMEM", "p7_out") /\ UNCHANGED ptr
  /\ UNCHANGED <<build, args, sig_ret, reading, open_failed>>

\* BIO_free(bio), bio = BIO_new()
RenewBio ==
  /\ pc = "renew"
  /\ misuse' = (misuse \/ ptr["bio"] \notin live)
  /\ \/ /\ ptr' = [ptr EXCEPT !["bio"] = "sig_bio"]
        /\ live' = (live \ {ptr["bio"]}) \cup {"sig_bio"}
        /\ pc' = "encode" /\ Quiet /\ UNCHANGED err
     \/ /\ ptr' = [ptr EXCEPT !["bio"] = "NULL"]
        /\ live' = live \ {ptr["bio"]}
        /\ Fail("first", "ENOMEM", "p7_out")
  /\ UNCHANGED <<build, args, sig_ret, reading, open_failed>>

EncodePkcs7 == Call("encode", "copy", "NULL", "first", "EINVAL", "p7_out")

CopyOpenSsl == ReturnSignature("copy", Names[args.certfile].issuer, "p7_out")

OutPkcs7 ==
  /\ pc = "p7_out" /\ Quiet
  /\ Free({"p7", "bio"}) /\ pc' = "out"
  /\ UNCHANGED <<build, args, sig_ret, err, reading, open_failed>>

----------------------------------------------------------------------------
\* sign_pkcs7() with BoringSSL

\* ASN1_INTEGER_to_BN() may run out of memory, which is not checked.
GetSerial ==
  /\ pc = "serial" /\ Quiet
  /\ \E s \in {"NULL", "serial"} :
       /\ ptr' = [ptr EXCEPT !["serial"] = s, !["md_ctx"] = "md_ctx"]
       /\ live' = live \cup ({s, "md_ctx"} \ {"NULL"})
  /\ pc' = "cbb"
  /\ UNCHANGED <<locals, err, reading, open_failed>>

CbbInit == Call("cbb", "name", "out", "first", "ENOMEM", "cbb_out")
NameDer == Call("name", "sign_init", "name_der", "first", "EINVAL", "cbb_out")
DigestSignInit == Call("sign_init", "sig", "NULL", "first", "EINVAL", "cbb_out")
AllocSig == Call("sig", "sign", "sig", "plain", "ENOMEM", "cbb_out")
DigestSign == Call("sign", "build", "NULL", "first", "EINVAL", "cbb_out")

\* The chain of CBB calls.  With no serial number it fails before
\* BN_marshal_asn1() or dereferences a null pointer there.
BuildMessage ==
  \/ /\ Call("build", "dup", "pkcs7_data", "first", "EINVAL", "cbb_out")
     /\ ptr["serial"] = "NULL" => pc' = "cbb_out"
  \/ /\ pc = "build" /\ ptr["serial"] = "NULL" /\ Quiet
     /\ pc' = "crashed"
     /\ UNCHANGED <<locals, err, reading, ptr, live, open_failed>>

\* The name in name_der is the subject's.
CopyBoringSsl == ReturnSignature("dup", Names[args.certfile].subject, "cbb_out")

OutCbb ==
  /\ pc = "cbb_out" /\ Quiet
  /\ Free({"serial", "md_ctx", "out", "sig", "name_der", "pkcs7_data"}) /\ pc' = "out"
  /\ UNCHANGED <<build, args, sig_ret, err, reading, open_failed>>

----------------------------------------------------------------------------
Out ==
  /\ pc = "out" /\ Quiet
  /\ Free({"cert", "pkey", "d"}) /\ pc' = "done"
  /\ UNCHANGED <<build, args, sig_ret, err, reading, open_failed>>

Reporting ==
  ReportStep /\ UNCHANGED <<pc, locals, err, reading, ptr, live, open_failed>>

Step ==
  \/ Enter \/ Check \/ OpenPem \/ ErrnoReturn \/ ParsePem \/ ClosePem
  \/ GetPrivateKey \/ EngineById \/ EngineInit \/ EngineFree \/ LoadKey \/ LoadedKey
  \/ GetDigestByName \/ FormatDigest
  \/ NewMemBuf \/ Pkcs7Sign \/ AddSigner \/ Pkcs7Final \/ RenewBio \/ EncodePkcs7
  \/ CopyOpenSsl \/ OutPkcs7
  \/ GetSerial \/ CbbInit \/ NameDer \/ DigestSignInit \/ AllocSig \/ DigestSign
  \/ BuildMessage \/ CopyBoringSsl \/ OutCbb
  \/ Out \/ Reporting

\* The program may install or remove the callback before it calls.
SetCallback ==
  /\ pc = "entry" /\ SetErrorCallback
  /\ UNCHANGED <<pc, locals, err, reading, ptr, live, open_failed>>

Ended == pc \in {"done", "crashed"} /\ Quiet /\ UNCHANGED vars

SignDigestNext == Step \/ SetCallback \/ Ended

\* The process runs, and the calls it makes return.
SignDigestSpec == SignInit /\ [][SignDigestNext]_vars /\ WF_vars(Step)

----------------------------------------------------------------------------
(***************************************************************************)
(* Every object is freed exactly once on every path: BIOs, the engine's    *)
(* two references, keys and buffers.  At return only the signature is      *)
(* left, if there is one, and the caller sees one exactly on success.      *)
(***************************************************************************)
ReleasedOnce ==
  /\ ~misuse
  /\ pc = "done" => live = IF err = "0" THEN {"sig_ret"} ELSE {}
  /\ pc = "done" => (err = "0" <=> sig_ret # NoCall)

\* The pointers that the call made at a step dereferences.
Operands(at) ==
  CASE at \in {"parse", "close"} -> {"bio"}
    [] at \in {"init", "uninit"} -> {"engine"}
    [] at = "load" -> {"engine", "engine_init"}
    [] at = "signer" -> {"p7", "cert", "pkey"}
    [] at = "final" -> {"p7", "bio", "d"}
    [] at \in {"encode", "copy"} -> {"p7", "bio"}
    [] at \in {"serial", "name"} -> {"cert"}
    [] at = "sign_init" -> {"md_ctx", "pkey"}
    [] at = "sign" -> {"md_ctx", "sig", "d"}
    [] at = "build" -> {"out", "name_der", "sig"}
    [] at = "dup" -> {"pkcs7_data"}
    [] OTHER -> {}

(***************************************************************************)
(* No call of the crypto library is handed a null pointer or an object     *)
(* that was freed (the unchecked serial number of the BoringSSL build      *)
(* apart): each step is reached only if what it uses was obtained.         *)
(***************************************************************************)
OperandsLive == \A p \in Operands(pc) : ptr[p] \in live

(***************************************************************************)
(* If the key or the certificate cannot be opened, the error returned is   *)
(* the errno of that failure, or EIO if there was none, although messages  *)
(* were printed in between.                                                *)
(***************************************************************************)
OpenErrorReturned ==
  pc = "done" /\ open_failed => err = IF failure = NoErrno THEN "EIO" ELSE failure

(***************************************************************************)
(* The function keeps the promise of SignSpec: it succeeds only on         *)
(* acceptable arguments, and then returns the signature of this digest by  *)
(* the key and for the certificate that were asked for.                    *)
(***************************************************************************)
ImplementsSignSpec == Spec7!SignPromise

(***************************************************************************)
(* lib/sign_digest.c:172 and 177 refer to RFC 2315 for the message, in     *)
(* which issuerAndSerialNumber identifies a signer by the name of the      *)
(* certificate's issuer.                                                   *)
(***************************************************************************)
SignerNamedByIssuer ==
  pc = "done" /\ err = "0" => sig_ret.signer = Names[args.certfile].issuer
=============================================================================
