-------------------------- MODULE SignDigestProofs --------------------------
(***************************************************************************)
(* Proofs about libfsverity_sign_digest() and the error reports it makes.  *)
(* Reporting an error preserves errno and never calls a null callback, for *)
(* any set of errno values and any number of queued errors.  The steps of  *)
(* libfsverity_sign_digest() are steps of ErrorMsg or leave errno alone,   *)
(* and no report follows that of a failed open, so that it returns the     *)
(* cause.  Every object it allocates is released once and used only while  *)
(* it is live, and it keeps the promise of SignSpec.                       *)
(***************************************************************************)
EXTENDS SignDigest, TLAPS

----------------------------------------------------------------------------
\* errno and the callback, through a report.

(***************************************************************************)
(* What carries errno through a report: the saved_errno of the message in  *)
(* progress, or, once OpenSSL's queue is being printed, the one saved by   *)
(* error_msg_openssl() before.                                             *)
(***************************************************************************)
ErrnoInv ==
  /\ mpc \in {"idle", "msg", "format", "call", "restore", "sent"}
  /\ mpc # "idle" /\ stage # "plain" => openssl_saved = failure
  /\ stage # "queue" \/ mpc = "idle" =>
       /\ mpc \in {"idle", "msg", "sent"} => errno = failure
       /\ mpc \in {"format", "call", "restore"} => saved_errno = failure
  /\ mpc \in {"format", "call"} => error_cb

LEMMA InitEstablishes == ErrorMsgInit => ErrnoInv
  BY DEF ErrorMsgInit, ErrnoInv

\* One case for each step of a report, and one for the steps in between.
LEMMA StepPreserves == ErrnoInv /\ [ErrorMsgNext]_mvars => ErrnoInv'
<1> SUFFICES ASSUME ErrnoInv, [ErrorMsgNext]_mvars PROVE ErrnoInv'
  OBVIOUS
<1> USE DEF ErrnoInv
<1>1. CASE \E s \in {"plain", "first"}, e \in AnyErrno : Report(s, e)
  BY <1>1 DEF Report
<1>2. CASE DoErrorMsg
  BY <1>2 DEF DoErrorMsg
<1>3. CASE Format
  BY <1>3 DEF Format
<1>4. CASE Callback
  BY <1>4 DEF Callback
<1>5. CASE Restore
  BY <1>5 DEF Restore
<1>6. CASE ReportDone
  BY <1>6 DEF ReportDone
<1>7. CASE QueueHeader
  BY <1>7 DEF QueueHeader
<1>8. CASE PrintQueued
  BY <1>8 DEF PrintQueued
<1>9. CASE QueueDone
  BY <1>9 DEF QueueDone
<1>10. CASE SetErrorCallback
  BY <1>10 DEF SetErrorCallback
<1>11. CASE UNCHANGED mvars
  BY <1>11 DEF mvars
<1> QED
  BY <1>1, <1>2, <1>3, <1>4, <1>5, <1>6, <1>7, <1>8, <1>9, <1>10, <1>11
  DEF ErrorMsgNext, ReportStep

(***************************************************************************)
(* errno survives every report of libfsverity (libfsverity_do_error_msg()  *)
(* and error_msg_openssl()), whatever the callback does to it.             *)
(***************************************************************************)
THEOREM ErrnoSurvives == ErrorMsgSpec => []ErrnoPreserved
<1>1. ErrnoInv => ErrnoPreserved
  BY DEF ErrnoInv, ErrnoPreserved
<1> QED
  BY InitEstablishes, StepPreserves, <1>1, PTL DEF ErrorMsgSpec

(***************************************************************************)
(* libfsverity_do_error_msg() never calls through a null callback.         *)
(***************************************************************************)
THEOREM CallbackSafe == ErrorMsgSpec => []CallbackInstalled
<1>1. ErrnoInv => CallbackInstalled
  BY DEF ErrnoInv, CallbackInstalled
<1> QED
  BY InitEstablishes, StepPreserves, <1>1, PTL DEF ErrorMsgSpec

----------------------------------------------------------------------------
\* The cause of a failed open is returned.

Cause == IF failure = NoErrno THEN "EIO" ELSE failure

(***************************************************************************)
(* After the open failed the function is about to read errno, or it has    *)
(* the cause in err and is on its way out.                                 *)
(***************************************************************************)
OpenInv ==
  /\ pc = "errno" => open_failed
  /\ open_failed => \/ pc = "errno"
                    \/ pc \in {"out", "done"} /\ err = Cause

SignInv == ErrnoInv /\ OpenInv

\* What the steps do that are neither an open nor part of the way out.
Elsewhere ==
  /\ pc \notin {"errno", "out", "done"} /\ pc' # "errno"
  /\ UNCHANGED open_failed /\ [ErrorMsgNext]_mvars

LEMMA ElsewhereKeeps == SignInv /\ Elsewhere => SignInv'
<1> SUFFICES ASSUME SignInv, Elsewhere PROVE SignInv'
  OBVIOUS
<1>1. ErrnoInv'
  BY StepPreserves DEF SignInv, Elsewhere
<1>2. OpenInv'
  BY DEF SignInv, OpenInv, Elsewhere
<1> QED
  BY <1>1, <1>2 DEF SignInv

\* Steps made of one call, or of the copy of the signature
CallSteps ==
  \/ ParsePem \/ EngineById \/ EngineInit \/ LoadedKey \/ GetDigestByName \/ FormatDigest
  \/ NewMemBuf \/ Pkcs7Sign \/ AddSigner \/ Pkcs7Final \/ EncodePkcs7
  \/ CbbInit \/ NameDer \/ DigestSignInit \/ AllocSig \/ DigestSign
  \/ CopyOpenSsl \/ CopyBoringSsl

LEMMA CallStepsElsewhere == CallSteps => Elsewhere
<1> SUFFICES ASSUME CallSteps PROVE Elsewhere
  OBVIOUS
<1> USE DEF Call, ReturnSignature, Fail, Quiet, Elsewhere, ErrorMsgNext
<1>1. CASE ParsePem
  BY <1>1 DEF ParsePem
<1>2. CASE EngineById \/ EngineInit \/ LoadedKey
  BY <1>2 DEF EngineById, EngineInit, LoadedKey
<1>3. CASE GetDigestByName
  BY <1>3 DEF GetDigestByName
<1>4. CASE FormatDigest
  BY <1>4 DEF FormatDigest
<1>5. CASE NewMemBuf \/ Pkcs7Sign \/ AddSigner
  BY <1>5 DEF NewMemBuf, Pkcs7Sign, AddSigner
<1>6. CASE Pkcs7Final \/ EncodePkcs7
  BY <1>6 DEF Pkcs7Final, EncodePkcs7
<1>7. CASE CbbInit \/ NameDer \/ DigestSignInit
  BY <1>7 DEF CbbInit, NameDer, DigestSignInit
<1>8. CASE AllocSig \/ DigestSign
  BY <1>8 DEF AllocSig, DigestSign
<1>9. CASE CopyOpenSsl \/ CopyBoringSsl
  BY <1>9 DEF CopyOpenSsl, CopyBoringSsl
<1> QED
  BY <1>1, <1>2, <1>3, <1>4, <1>5, <1>6, <1>7, <1>8, <1>9 DEF CallSteps

LEMMA SignInitEstablishes == SignInit => SignInv
  BY InitEstablishes DEF SignInit, SignInv, OpenInv

LEMMA SignStepPreserves == SignInv /\ [SignDigestNext]_vars => SignInv'
<1> SUFFICES ASSUME SignInv, [SignDigestNext]_vars PROVE SignInv'
  OBVIOUS
<1>1. CASE Enter \/ Check
  <2>1. Elsewhere
    BY <1>1 DEF Enter, Check, Fail, Quiet, Elsewhere, ErrorMsgNext
  <2> QED
    BY <2>1, ElsewhereKeeps
<1>2. CASE OpenPem
  <2>1. [ErrorMsgNext]_mvars
    BY <1>2 DEF OpenPem, Quiet, ErrorMsgNext
  <2>2. ErrnoInv'
    BY <2>1, StepPreserves DEF SignInv
  <2>3. OpenInv'
    BY <1>2 DEF OpenPem, SignInv, OpenInv
  <2> QED
    BY <2>2, <2>3 DEF SignInv
<1>3. CASE ErrnoReturn
  <2>1. errno = failure /\ UNCHANGED mvars
    BY <1>3 DEF ErrnoReturn, Quiet, SignInv, ErrnoInv
  <2>2. ErrnoInv'
    BY <2>1, StepPreserves DEF SignInv
  <2>3. OpenInv'
    BY <1>3, <2>1 DEF ErrnoReturn, SignInv, OpenInv, Cause, mvars
  <2> QED
    BY <2>2, <2>3 DEF SignInv
<1>4. CASE ClosePem \/ GetPrivateKey
  <2>1. Elsewhere
    BY <1>4 DEF ClosePem, GetPrivateKey, Fail, Quiet, Elsewhere, ErrorMsgNext
  <2> QED
    BY <2>1, ElsewhereKeeps
<1>5. CASE EngineFree \/ LoadKey \/ OutPkcs7 \/ OutCbb \/ GetSerial
  <2>1. Elsewhere
    BY <1>5 DEF EngineFree, LoadKey, OutPkcs7, OutCbb, GetSerial, locals, Quiet, Elsewhere
  <2> QED
    BY <2>1, ElsewhereKeeps
<1>6. CASE CallSteps
  BY <1>6, CallStepsElsewhere, ElsewhereKeeps
<1>7. CASE RenewBio
  <2>1. Elsewhere
    BY <1>7 DEF RenewBio, Fail, Quiet, Elsewhere, ErrorMsgNext
  <2> QED
    BY <2>1, ElsewhereKeeps
<1>8. CASE BuildMessage
  <2>1. CASE Call("build", "dup", "pkcs7_data", "first", "EINVAL", "cbb_out")
    BY <2>1, ElsewhereKeeps DEF Call, Fail, Quiet, Elsewhere, ErrorMsgNext
  <2>2. CASE pc = "build" /\ Quiet /\ pc' = "crashed" /\ UNCHANGED open_failed
    BY <2>2, ElsewhereKeeps DEF Elsewhere, Quiet
  <2> QED
    BY <1>8, <2>1, <2>2 DEF BuildMessage
<1>9. CASE Out
  <2>1. UNCHANGED mvars
    BY <1>9 DEF Out, Quiet
  <2>2. ErrnoInv'
    BY <2>1, StepPreserves DEF SignInv
  <2>3. OpenInv'
    BY <1>9, <2>1 DEF Out, SignInv, OpenInv, Cause, mvars
  <2> QED
    BY <2>2, <2>3 DEF SignInv
<1>10. CASE Reporting \/ SetCallback
  <2>1. ErrorMsgNext /\ UNCHANGED <<pc, err, open_failed, failure>>
    BY <1>10 DEF Reporting, SetCallback, ErrorMsgNext, ReportStep, DoErrorMsg, Format,
         Callback, Restore, ReportDone, QueueHeader, PrintQueued, QueueDone, SetErrorCallback
  <2>2. ErrnoInv'
    BY <2>1, StepPreserves DEF SignInv
  <2>3. OpenInv'
    BY <2>1 DEF SignInv, OpenInv, Cause
  <2> QED
    BY <2>2, <2>3 DEF SignInv
<1>11. CASE Ended \/ UNCHANGED vars
  <2>1. UNCHANGED <<pc, err, open_failed>> /\ UNCHANGED mvars
    BY <1>11 DEF Ended, vars
  <2>2. ErrnoInv'
    BY <2>1, StepPreserves DEF SignInv
  <2>3. OpenInv'
    BY <2>1 DEF SignInv, OpenInv, Cause, mvars
  <2> QED
    BY <2>2, <2>3 DEF SignInv
<1> QED
  BY <1>1, <1>2, <1>3, <1>4, <1>5, <1>6, <1>7, <1>8, <1>9, <1>10, <1>11
  DEF SignDigestNext, Step, CallSteps

(***************************************************************************)
(* If the key or certificate file cannot be opened, the value returned is  *)
(* the errno of that failure (or EIO), for all arguments, both builds, any *)
(* callback and any number of messages (read_private_key() and             *)
(* read_certificate()).                                                    *)
(***************************************************************************)
THEOREM SignReturnsCause == SignDigestSpec => []OpenErrorReturned
<1>1. SignInv => OpenErrorReturned
  BY DEF SignInv, OpenInv, OpenErrorReturned, Cause
<1> QED
  BY SignInitEstablishes, SignStepPreserves, <1>1, PTL DEF SignDigestSpec

----------------------------------------------------------------------------
\* Ownership of the objects.

Held == {p \in Pointers : ptr[p] # "NULL"}

\* A pointer points to the object that its own step made, or to nothing; only
\* "bio" is given a second object.  What is live is what is pointed to, and
\* the signature that was returned.
Own ==
  /\ ptr \in [Pointers -> Pointers \cup {"NULL", "sig_bio"}]
  /\ \A p \in Held : ptr[p] = p \/ (p = "bio" /\ ptr[p] = "sig_bio")
  /\ live = {ptr[p] : p \in Held} \cup (IF sig_ret # NoCall THEN {"sig_ret"} ELSE {})
  /\ misuse = FALSE

\* The certificate is there while the key is being read.
ReadBefore == IF reading = "pkey" THEN {"cert"} ELSE {}

Both == {"cert", "pkey"}
Cbb == {"serial", "md_ctx", "out", "sig", "name_der", "pkcs7_data"}

\* The pointers that are set at each step.
HeldInv ==
  /\ pc \in {"entry", "check", "done"} => Held = {}
  /\ pc \in {"open", "errno"} => Held = ReadBefore
  /\ pc = "parse" => Held = ReadBefore \cup {"bio"}
  /\ pc = "close" => Held = ReadBefore \cup {"bio"} \cup (IF err = "0" THEN {reading} ELSE {})
  /\ pc \in {"key", "engine", "token"} => Held = {"cert"}
  /\ pc \in {"init", "uninit"} => Held = {"cert", "engine"}
  /\ pc = "load" => Held = {"cert", "engine", "engine_init"}
  /\ pc \in {"md", "alloc"} => Held = Both
  /\ pc \in {"buf", "serial"} => Held = Both \cup {"d"}
  /\ pc = "p7" => Held = Both \cup {"d", "bio"}
  /\ pc \in {"signer", "final", "renew", "encode", "copy"} => Held = Both \cup {"d", "bio", "p7"}
  /\ pc = "p7_out" => Held \subseteq Both \cup {"d", "bio", "p7"}
  /\ pc = "cbb" => Held \ {"serial"} = Both \cup {"d", "md_ctx"}
  /\ pc = "name" => Held \ {"serial"} = Both \cup {"d", "md_ctx", "out"}
  /\ pc \in {"sign_init", "sig"} => Held \ {"serial"} = Both \cup {"d", "md_ctx", "out", "name_der"}
  /\ pc \in {"sign", "build"} =>
       Held \ {"serial"} = Both \cup {"d", "md_ctx", "out", "name_der", "sig"}
  /\ pc = "dup" => Held = Both \cup {"d"} \cup Cbb
  /\ pc = "cbb_out" => Held \subseteq Both \cup {"d"} \cup Cbb
  /\ pc = "out" => Held \subseteq Both \cup {"d"}

Leaving == {"p7_out", "cbb_out", "out", "done"}
Steps == {"entry", "check", "open", "errno", "parse", "close", "key", "engine", "init",
          "uninit", "load", "token", "md", "alloc", "buf", "p7", "signer", "final",
          "renew", "encode", "copy", "serial", "cbb", "name", "sign_init", "sig", "sign",
          "build", "dup", "crashed"} \cup Leaving

\* Steps before it is settled where the key comes from
Early == {"entry", "check", "open", "errno", "parse", "close", "key"}

\* No error and no signature up to the way out, and then one of the two; what
\* was asked for is acceptable once the key is chosen, and so is what is returned.
PathInv ==
  /\ pc \in Steps /\ reading \in {"cert", "pkey"} /\ args \in SignArgs
  /\ pc \notin Leaving => sig_ret = NoCall
  /\ pc \notin Leaving \cup {"close", "uninit"} => err = "0"
  /\ pc = "uninit" => err # "0"
  /\ pc \in Leaving => (err = "0" <=> sig_ret # NoCall)
  /\ pc \notin {"entry", "check"} \cup Leaving => ~BadArgs(args) /\ args.certfile # "NULL"
  /\ reading = "pkey" => TokenOrFile = "file"
  /\ pc \in {"entry", "check", "key"} => reading = "cert"
  /\ pc \notin Early \cup Leaving =>
       Spec7!SignAcceptable(args) /\ (reading = "pkey" <=> ~Spec7!UsesToken(args))
  /\ sig_ret # NoCall =>
       /\ Spec7!SignAcceptable(args)
       /\ [signed |-> sig_ret.signed, cert |-> sig_ret.cert, key |-> sig_ret.key] =
            Spec7!SignatureOf(args)

ErrnoOK == {errno, saved_errno, openssl_saved, failure} \subseteq AnyErrno

OwnInv == ErrnoOK /\ Own /\ HeldInv /\ PathInv


LEMMA ObjectNames == {"NULL", "sig_bio", "sig_ret"} \cap Pointers = {}
  BY DEF Pointers

LEMMA Obtain ==
  ASSUME Own, NEW p \in Pointers, p \notin Held,
         ptr' = [ptr EXCEPT ![p] = p], live' = live \cup {p}, UNCHANGED <<misuse, sig_ret>>
  PROVE  Own' /\ Held' = Held \cup {p}
<1>1. Held' = Held \cup {p}
  BY ObjectNames DEF Own, Held
<1>2. \A q \in Held : q # p /\ ptr'[q] = ptr[q]
  BY DEF Own, Held
<1>3. ptr'[p] = p
  BY DEF Own
<1>4. {ptr'[q] : q \in Held'} = {ptr[q] : q \in Held} \cup {p}
  BY <1>1, <1>2, <1>3
<1>5. ptr' \in [Pointers -> Pointers \cup {"NULL", "sig_bio"}]
  BY DEF Own
<1> QED
  BY <1>1, <1>2, <1>3, <1>4, <1>5 DEF Own

LEMMA Release ==
  ASSUME Own, NEW P \in SUBSET Pointers, UNCHANGED sig_ret,
         ptr' = [p \in Pointers |-> IF p \in P THEN "NULL" ELSE ptr[p]],
         live' = live \ {ptr[p] : p \in P},
         misuse' = (misuse \/ \E p \in P : ptr[p] \notin live \cup {"NULL"})
  PROVE  Own' /\ Held' = Held \ P
<1>1. Held' = Held \ P
  BY DEF Own, Held
<1>2. \A q \in Held' : ptr'[q] = ptr[q]
  BY <1>1 DEF Held
<1>3. \A p \in P : ptr[p] \in live \cup {"NULL"}
  BY DEF Own, Held
<1>4. misuse' = FALSE
  BY <1>3 DEF Own
<1>5. \A p \in P, q \in Held' : ptr[p] # ptr[q] /\ ptr[p] # "sig_ret"
  BY <1>1, ObjectNames DEF Own, Held
<1>6. live' = {ptr'[q] : q \in Held'} \cup (IF sig_ret' # NoCall THEN {"sig_ret"} ELSE {})
  <2>1. \A x \in live' : x \in {ptr'[q] : q \in Held'} \cup (IF sig_ret' # NoCall THEN {"sig_ret"} ELSE {})
    BY <1>1, <1>2 DEF Own
  <2>2. \A q \in Held' : ptr'[q] \in live'
    BY <1>1, <1>2, <1>5 DEF Own
  <2>3. sig_ret' # NoCall => "sig_ret" \in live'
    BY <1>5, ObjectNames DEF Own
  <2> QED
    BY <2>1, <2>2, <2>3
<1>7. ptr' \in [Pointers -> Pointers \cup {"NULL", "sig_bio"}]
  BY DEF Own
<1> QED
  BY <1>1, <1>2, <1>4, <1>6, <1>7 DEF Own

LEMMA KeepPointers ==
  ASSUME Own, UNCHANGED <<ptr, live, misuse, sig_ret>>
  PROVE  Own' /\ Held' = Held
  BY DEF Own, Held


LEMMA ErrnoTyped == ErrnoOK /\ [ErrorMsgNext]_mvars => ErrnoOK'
<1> SUFFICES ASSUME ErrnoOK, [ErrorMsgNext]_mvars PROVE ErrnoOK'
  OBVIOUS
<1> USE DEF ErrnoOK, AnyErrno
<1>1. ASSUME NEW s, NEW e \in AnyErrno, Report(s, e) PROVE ErrnoOK'
  BY <1>1 DEF Report
<1>2. CASE ReportStep
  BY <1>2 DEF ReportStep, DoErrorMsg, Format, Callback, Restore, ReportDone,
       QueueHeader, PrintQueued, QueueDone
<1>3. CASE SetErrorCallback \/ UNCHANGED mvars
  BY <1>3 DEF SetErrorCallback, mvars
<1> QED
  BY <1>1, <1>2, <1>3 DEF ErrorMsgNext

LEMMA OwnInit == SignInit => OwnInv
<1> SUFFICES ASSUME SignInit PROVE OwnInv
  OBVIOUS
<1>1. Held = {}
  BY DEF SignInit, Held
<1>2. ErrnoOK
  BY DEF SignInit, ErrorMsgInit, ErrnoOK, AnyErrno
<1>3. Own
  BY <1>1 DEF SignInit, Own
<1>4. HeldInv
  BY <1>1 DEF SignInit, HeldInv
<1>5. PathInv
  BY DEF SignInit, PathInv, Steps, Leaving, Early
<1> QED
  BY <1>2, <1>3, <1>4, <1>5 DEF OwnInv

\* What a call does to the objects, and how the function goes on.
Gets(next, p, exit) ==
  /\ Own' /\ UNCHANGED <<args, reading, sig_ret>>
  /\ \/ pc' = next /\ err' = err /\ Held' = Held \cup ({p} \ {"NULL"})
     \/ pc' = exit /\ err' # "0" /\ Held' = Held

\* The steps that are one call keep the objects accounted for.
LEMMA CallsOwn == ASSUME OwnInv, CallSteps, ~(CopyOpenSsl \/ CopyBoringSsl)
                  PROVE  (Own /\ HeldInv /\ PathInv)'
<1> USE DEF Gets
<1>1. CASE ParsePem
  <2>1. pc = "parse" /\ Gets("close", reading, "close")
    BY <1>1, Obtain, KeepPointers
    DEF ParsePem, Call, Fail, locals, OwnInv, HeldInv, Both, Pointers, PathInv, ReadBefore
  <2>2. HeldInv'
    <3>1. CASE reading = "cert"
      BY <2>1, <3>1 DEF OwnInv, HeldInv, PathInv, ReadBefore, Both, Cbb, Leaving
    <3>2. CASE reading = "pkey"
      BY <2>1, <3>2 DEF OwnInv, HeldInv, PathInv, ReadBefore, Both, Cbb, Leaving
    <3> QED
      BY <3>1, <3>2 DEF OwnInv, PathInv
  <2>3. PathInv'
    BY <2>1 DEF OwnInv, PathInv, Steps, Leaving, Early, TokenOrFile
  <2> QED
    BY <2>1, <2>2, <2>3
<1>2. CASE EngineById
  <2>1. pc = "engine" /\ Gets("init", "engine", "out")
    BY <1>2, Obtain, KeepPointers
    DEF EngineById, Call, Fail, locals, OwnInv, HeldInv, Both, Pointers
  <2>2. HeldInv'
    BY <2>1 DEF OwnInv, HeldInv, PathInv, ReadBefore, Both, Cbb
  <2>3. PathInv'
    BY <2>1 DEF OwnInv, PathInv, Steps, Leaving, Early, TokenOrFile
  <2> QED
    BY <2>1, <2>2, <2>3
<1>3. CASE EngineInit
  <2>1. pc = "init" /\ Gets("load", "engine_init", "uninit")
    BY <1>3, Obtain, KeepPointers
    DEF EngineInit, Call, Fail, locals, OwnInv, HeldInv, Both, Pointers
  <2>2. HeldInv'
    BY <2>1 DEF OwnInv, HeldInv, PathInv, ReadBefore, Both, Cbb
  <2>3. PathInv'
    BY <2>1 DEF OwnInv, PathInv, Steps, Leaving, Early, TokenOrFile
  <2> QED
    BY <2>1, <2>2, <2>3
<1>4. CASE LoadedKey
  <2>1. pc = "token" /\ Gets("md", "pkey", "out")
    BY <1>4, Obtain, KeepPointers
    DEF LoadedKey, Call, Fail, locals, OwnInv, HeldInv, Both, Pointers
  <2>2. HeldInv'
    BY <2>1 DEF OwnInv, HeldInv, PathInv, ReadBefore, Both, Cbb
  <2>3. PathInv'
    BY <2>1 DEF OwnInv, PathInv, Steps, Leaving, Early, TokenOrFile
  <2> QED
    BY <2>1, <2>2, <2>3
<1>5. CASE GetDigestByName
  <2>1. pc = "md" /\ Gets("alloc", "NULL", "out")
    BY <1>5, KeepPointers
    DEF GetDigestByName, Call, Fail, locals, OwnInv
  <2>2. HeldInv'
    BY <2>1 DEF OwnInv, HeldInv, PathInv, ReadBefore, Both, Cbb
  <2>3. PathInv'
    BY <2>1 DEF OwnInv, PathInv, Steps, Leaving, Early, TokenOrFile
  <2> QED
    BY <2>1, <2>2, <2>3
<1>6. CASE FormatDigest
  <2>1. pc = "alloc" /\ Gets(IF build = "openssl" THEN "buf" ELSE "serial", "d", "out")
    BY <1>6, Obtain, KeepPointers
    DEF FormatDigest, Call, Fail, locals, OwnInv, HeldInv, Both, Pointers
  <2>2. HeldInv'
    BY <2>1 DEF OwnInv, HeldInv, PathInv, ReadBefore, Both, Cbb
  <2>3. PathInv'
    BY <2>1 DEF OwnInv, PathInv, Steps, Leaving, Early, TokenOrFile
  <2> QED
    BY <2>1, <2>2, <2>3
<1>7. CASE NewMemBuf
  <2>1. pc = "buf" /\ Gets("p7", "bio", "p7_out")
    BY <1>7, Obtain, KeepPointers
    DEF NewMemBuf, Call, Fail, locals, OwnInv, HeldInv, Both, Pointers
  <2>2. HeldInv'
    BY <2>1 DEF OwnInv, HeldInv, PathInv, ReadBefore, Both, Cbb
  <2>3. PathInv'
    BY <2>1 DEF OwnInv, PathInv, Steps, Leaving, Early, TokenOrFile
  <2> QED
    BY <2>1, <2>2, <2>3
<1>8. CASE Pkcs7Sign
  <2>1. pc = "p7" /\ Gets("signer", "p7", "p7_out")
    BY <1>8, Obtain, KeepPointers
    DEF Pkcs7Sign, Call, Fail, locals, OwnInv, HeldInv, Both, Pointers
  <2>2. HeldInv'
    BY <2>1 DEF OwnInv, HeldInv, PathInv, ReadBefore, Both, Cbb
  <2>3. PathInv'
    BY <2>1 DEF OwnInv, PathInv, Steps, Leaving, Early, TokenOrFile
  <2> QED
    BY <2>1, <2>2, <2>3
<1>9. CASE AddSigner
  <2>1. pc = "signer" /\ Gets("final", "NULL", "p7_out")
    BY <1>9, KeepPointers
    DEF AddSigner, Call, Fail, locals, OwnInv
  <2>2. HeldInv'
    BY <2>1 DEF OwnInv, HeldInv, PathInv, ReadBefore, Both, Cbb
  <2>3. PathInv'
    BY <2>1 DEF OwnInv, PathInv, Steps, Leaving, Early, TokenOrFile
  <2> QED
    BY <2>1, <2>2, <2>3
<1>10. CASE Pkcs7Final
  <2>1. pc = "final" /\ Gets("renew", "NULL", "p7_out")
    BY <1>10, KeepPointers
    DEF Pkcs7Final, Call, Fail, locals, OwnInv
  <2>2. HeldInv'
    BY <2>1 DEF OwnInv, HeldInv, PathInv, ReadBefore, Both, Cbb
  <2>3. PathInv'
    BY <2>1 DEF OwnInv, PathInv, Steps, Leaving, Early, TokenOrFile
  <2> QED
    BY <2>1, <2>2, <2>3
<1>11. CASE EncodePkcs7
  <2>1. pc = "encode" /\ Gets("copy", "NULL", "p7_out")
    BY <1>11, KeepPointers
    DEF EncodePkcs7, Call, Fail, locals, OwnInv
  <2>2. HeldInv'
    BY <2>1 DEF OwnInv, HeldInv, PathInv, ReadBefore, Both, Cbb
  <2>3. PathInv'
    BY <2>1 DEF OwnInv, PathInv, Steps, Leaving, Early, TokenOrFile
  <2> QED
    BY <2>1, <2>2, <2>3
<1>12. CASE CbbInit
  <2>1. pc = "cbb" /\ Gets("name", "out", "cbb_out")
    BY <1>12, Obtain, KeepPointers
    DEF CbbInit, Call, Fail, locals, OwnInv, HeldInv, Both, Pointers
  <2>2. HeldInv'
    BY <2>1 DEF OwnInv, HeldInv, PathInv, ReadBefore, Both, Cbb
  <2>3. PathInv'
    BY <2>1 DEF OwnInv, PathInv, Steps, Leaving, Early, TokenOrFile
  <2> QED
    BY <2>1, <2>2, <2>3
<1>13. CASE NameDer
  <2>1. pc = "name" /\ Gets("sign_init", "name_der", "cbb_out")
    BY <1>13, Obtain, KeepPointers
    DEF NameDer, Call, Fail, locals, OwnInv, HeldInv, Both, Pointers
  <2>2. HeldInv'
    BY <2>1 DEF OwnInv, HeldInv, PathInv, ReadBefore, Both, Cbb
  <2>3. PathInv'
    BY <2>1 DEF OwnInv, PathInv, Steps, Leaving, Early, TokenOrFile
  <2> QED
    BY <2>1, <2>2, <2>3
<1>14. CASE DigestSignInit
  <2>1. pc = "sign_init" /\ Gets("sig", "NULL", "cbb_out")
    BY <1>14, KeepPointers
    DEF DigestSignInit, Call, Fail, locals, OwnInv
  <2>2. HeldInv'
    BY <2>1 DEF OwnInv, HeldInv, PathInv, ReadBefore, Both, Cbb
  <2>3. PathInv'
    BY <2>1 DEF OwnInv, PathInv, Steps, Leaving, Early, TokenOrFile
  <2> QED
    BY <2>1, <2>2, <2>3
<1>15. CASE AllocSig
  <2>1. pc = "sig" /\ Gets("sign", "sig", "cbb_out")
    BY <1>15, Obtain, KeepPointers
    DEF AllocSig, Call, Fail, locals, OwnInv, HeldInv, Both, Pointers
  <2>2. HeldInv'
    BY <2>1 DEF OwnInv, HeldInv, PathInv, ReadBefore, Both, Cbb
  <2>3. PathInv'
    BY <2>1 DEF OwnInv, PathInv, Steps, Leaving, Early, TokenOrFile
  <2> QED
    BY <2>1, <2>2, <2>3
<1>16. CASE DigestSign
  <2>1. pc = "sign" /\ Gets("build", "NULL", "cbb_out")
    BY <1>16, KeepPointers
    DEF DigestSign, Call, Fail, locals, OwnInv
  <2>2. HeldInv'
    BY <2>1 DEF OwnInv, HeldInv, PathInv, ReadBefore, Both, Cbb
  <2>3. PathInv'
    BY <2>1 DEF OwnInv, PathInv, Steps, Leaving, Early, TokenOrFile
  <2> QED
    BY <2>1, <2>2, <2>3
<1> QED
  BY <1>1, <1>2, <1>3, <1>4, <1>5, <1>6, <1>7, <1>8, <1>9, <1>10, <1>11, <1>12, <1>13, <1>14, <1>15, <1>16 DEF CallSteps

LEMMA ReturnOwn == ASSUME OwnInv, CopyOpenSsl \/ CopyBoringSsl
                   PROVE  (Own /\ HeldInv /\ PathInv)'
<1> DEFINE names == {Names[args.certfile].subject, Names[args.certfile].issuer}
<1>1. /\ pc \in {"copy", "dup"} /\ UNCHANGED <<args, reading, ptr, misuse>>
      /\ pc' = IF pc = "copy" THEN "p7_out" ELSE "cbb_out"
      /\ \/ /\ \E name \in names : sig_ret' = Message(name)
            /\ live' = live \cup {"sig_ret"} /\ err' = err
         \/ sig_ret' = NoCall /\ live' = live /\ err' # "0"
  BY DEF CopyOpenSsl, CopyBoringSsl, ReturnSignature, Fail
<1>2. /\ Spec7!SignAcceptable(args) /\ (reading = "pkey" <=> ~Spec7!UsesToken(args))
      /\ args \in SignArgs /\ sig_ret = NoCall /\ err = "0" /\ args.certfile # "NULL"
  BY <1>1 DEF OwnInv, PathInv, Early, Leaving
<1>3. \A name \in names :
        /\ Message(name) # NoCall
        /\ [signed |-> Message(name).signed, cert |-> Message(name).cert,
            key |-> Message(name).key] = Spec7!SignatureOf(args)
  BY <1>2, NoCallAssumption DEF Message, Spec7!SignatureOf
<1> HIDE DEF names
<1>4. Own' /\ Held' = Held
  BY <1>1, <1>2, <1>3 DEF OwnInv, Own, Held
<1>5. HeldInv'
  BY <1>1, <1>4 DEF OwnInv, HeldInv, Both, Cbb
<1>6. PathInv'
  <2>1. sig_ret' # NoCall =>
          /\ Spec7!SignAcceptable(args')
          /\ [signed |-> sig_ret'.signed, cert |-> sig_ret'.cert, key |-> sig_ret'.key] =
               Spec7!SignatureOf(args')
    BY <1>1, <1>2, <1>3
  <2>2. err' = "0" <=> sig_ret' # NoCall
    BY <1>1, <1>2, <1>3
  <2> QED
    BY <1>1, <2>1, <2>2 DEF OwnInv, PathInv, Steps, Leaving, Early, TokenOrFile
<1> QED
  BY <1>4, <1>5, <1>6

\* The steps that free what goes out of scope.
LEMMA FreesOwn ==
  ASSUME OwnInv, ClosePem \/ EngineFree \/ LoadKey \/ OutPkcs7 \/ OutCbb \/ Out
  PROVE  (Own /\ HeldInv /\ PathInv)'
<1> USE DEF Free
<1>0. {{"bio"}, {"engine"}, {"engine_init", "engine"}, {"p7", "bio"}, Cbb,
       {"cert", "pkey", "d"}} \subseteq SUBSET Pointers
  BY DEF Pointers, Cbb
<1>1. CASE ClosePem
  <2>1. /\ Own' /\ Held' = Held \ {"bio"} /\ UNCHANGED <<args, reading, err, sig_ret>>
        /\ pc = "close" 
        /\ pc' = IF err # "0" THEN "out" ELSE IF reading = "cert" THEN "key" ELSE "md"
    BY <1>0, <1>1, Release DEF ClosePem, OwnInv
  <2>2. reading \in {"cert", "pkey"}
    BY DEF OwnInv, PathInv
  <2>3. HeldInv'
    <3>1. CASE reading = "cert"
      BY <2>1, <3>1 DEF OwnInv, HeldInv, PathInv, ReadBefore, Both, Cbb, Leaving
    <3>2. CASE reading = "pkey"
      BY <2>1, <3>2 DEF OwnInv, HeldInv, PathInv, ReadBefore, Both, Cbb, Leaving
    <3> QED
      BY <2>2, <3>1, <3>2
  <2>4. PathInv'
    <3>1. /\ ~BadArgs(args) /\ args.certfile # "NULL" /\ args \in SignArgs
          /\ sig_ret = NoCall /\ (reading = "pkey" => TokenOrFile = "file")
      BY <2>1 DEF OwnInv, PathInv, Leaving
    <3>2. reading = "pkey" => ~Spec7!UsesToken(args) /\ Spec7!SignAcceptable(args)
      BY <3>1 DEF TokenOrFile, Spec7!SignAcceptable, Spec7!WellFormedDigest, BadArgs,
           KnownHashAlg, GetDigestSize, Spec7!KnownHashAlg, Spec7!GetDigestSize
    <3> QED
      BY <2>1, <2>2, <3>1, <3>2 DEF PathInv, Steps, Leaving, Early, TokenOrFile
  <2> QED
    BY <2>1, <2>3, <2>4
<1>2. CASE EngineFree
  <2>1. /\ Own' /\ Held' = Held \ {"engine"} /\ UNCHANGED <<args, reading, err, sig_ret>>
        /\ pc = "uninit" /\ pc' = "out"
    BY <1>0, <1>2, Release DEF EngineFree, OwnInv
  <2>2. HeldInv'
    BY <2>1 DEF OwnInv, HeldInv, Both
  <2>3. PathInv'
    BY <2>1 DEF OwnInv, PathInv, Steps, Leaving, Early, TokenOrFile
  <2> QED
    BY <2>1, <2>2, <2>3
<1>3. CASE LoadKey
  <2>1. /\ Own' /\ Held' = Held \ {"engine_init", "engine"}
        /\ UNCHANGED <<args, reading, err, sig_ret>>
        /\ pc = "load" /\ pc' = "token"
    BY <1>0, <1>3, Release DEF LoadKey, OwnInv
  <2>2. HeldInv'
    BY <2>1 DEF OwnInv, HeldInv, Both
  <2>3. PathInv'
    BY <2>1 DEF OwnInv, PathInv, Steps, Leaving, Early, TokenOrFile
  <2> QED
    BY <2>1, <2>2, <2>3
<1>4. CASE OutPkcs7
  <2>1. /\ Own' /\ Held' = Held \ {"p7", "bio"} /\ UNCHANGED <<args, reading, err, sig_ret>>
        /\ pc = "p7_out" /\ pc' = "out"
    BY <1>0, <1>4, Release DEF OutPkcs7, OwnInv
  <2>2. HeldInv'
    BY <2>1 DEF OwnInv, HeldInv, Both
  <2>3. PathInv'
    BY <2>1 DEF OwnInv, PathInv, Steps, Leaving, Early, TokenOrFile
  <2> QED
    BY <2>1, <2>2, <2>3
<1>5. CASE OutCbb
  <2>1. /\ Own' /\ Held' = Held \ Cbb /\ UNCHANGED <<args, reading, err, sig_ret>>
        /\ pc = "cbb_out" /\ pc' = "out"
    BY <1>0, <1>5, Release DEF OutCbb, OwnInv, Cbb
  <2>2. HeldInv'
    BY <2>1 DEF OwnInv, HeldInv, Both, Cbb
  <2>3. PathInv'
    BY <2>1 DEF OwnInv, PathInv, Steps, Leaving, Early, TokenOrFile
  <2> QED
    BY <2>1, <2>2, <2>3
<1>6. CASE Out
  <2>1. /\ Own' /\ Held' = Held \ {"cert", "pkey", "d"}
        /\ UNCHANGED <<args, reading, err, sig_ret>>
        /\ pc = "out" /\ pc' = "done"
    BY <1>0, <1>6, Release DEF Out, OwnInv
  <2>2. HeldInv'
    BY <2>1 DEF OwnInv, HeldInv, Both
  <2>3. PathInv'
    BY <2>1 DEF OwnInv, PathInv, Steps, Leaving, Early, TokenOrFile
  <2> QED
    BY <2>1, <2>2, <2>3
<1> QED
  BY <1>1, <1>2, <1>3, <1>4, <1>5, <1>6

\* The steps that neither make nor free an object
LEMMA QuietOwn ==
  ASSUME OwnInv, Enter \/ Check \/ ErrnoReturn \/ GetPrivateKey PROVE (Own /\ HeldInv /\ PathInv)'
<1>1. Own' /\ Held' = Held /\ UNCHANGED <<args, sig_ret>>
  BY KeepPointers DEF Enter, Check, ErrnoReturn, GetPrivateKey, locals, OwnInv
<1>2. CASE Enter
  <2>1. pc = "entry" /\ pc' = "check" /\ UNCHANGED <<reading, err>>
    BY <1>2 DEF Enter
  <2>2. HeldInv' /\ PathInv'
    BY <1>1, <2>1 DEF OwnInv, HeldInv, PathInv, Steps, Leaving, Early, TokenOrFile
  <2> QED
    BY <1>1, <2>2
<1>3. CASE Check
  <2>1. /\ pc = "check" /\ UNCHANGED reading
        /\ \/ pc' \in {"done", "out"} /\ err' # "0"
           \/ ~BadArgs(args) /\ args.certfile # "NULL" /\ pc' = "open" /\ err' = err
    BY <1>3 DEF Check, Fail
  <2>2. HeldInv'
    BY <1>1, <2>1 DEF OwnInv, HeldInv, PathInv, ReadBefore, Both
  <2>3. PathInv'
    BY <1>1, <2>1 DEF OwnInv, PathInv, Steps, Leaving, Early, TokenOrFile
  <2> QED
    BY <1>1, <2>2, <2>3
<1>4. CASE ErrnoReturn
  <2>1. pc = "errno" /\ pc' = "out" /\ UNCHANGED reading /\ err' # "0"
    BY <1>4, ErrAssumption DEF ErrnoReturn, OwnInv, ErrnoOK, AnyErrno
  <2>2. HeldInv'
    BY <1>1, <2>1 DEF OwnInv, HeldInv, ReadBefore, Both
  <2>3. PathInv'
    BY <1>1, <2>1 DEF OwnInv, PathInv, Steps, Leaving, Early, TokenOrFile
  <2> QED
    BY <1>1, <2>2, <2>3
<1>5. CASE GetPrivateKey
  <2>1. /\ pc = "key"
        /\ \/ pc' = "out" /\ err' # "0" /\ reading' = reading
           \/ pc' = "open" /\ reading' = "pkey" /\ err' = err /\ TokenOrFile = "file"
           \/ /\ pc' = "engine" /\ reading' = reading /\ err' = err
              /\ TokenOrFile = "token" /\ args.engine # "NULL" /\ args.module # "NULL"
    BY <1>5 DEF GetPrivateKey, Fail
  <2>2. HeldInv'
    BY <1>1, <2>1 DEF OwnInv, HeldInv, PathInv, ReadBefore, Both
  <2>3. PathInv'
    <3>1. /\ ~BadArgs(args) /\ args.certfile # "NULL" /\ args \in SignArgs
          /\ sig_ret = NoCall /\ reading = "cert" /\ err = "0"
      BY <2>1 DEF OwnInv, PathInv, Leaving
    <3>2. pc' = "engine" => Spec7!UsesToken(args) /\ Spec7!SignAcceptable(args)
      BY <2>1, <3>1 DEF TokenOrFile, Spec7!SignAcceptable, Spec7!WellFormedDigest, BadArgs,
           KnownHashAlg, GetDigestSize, Spec7!KnownHashAlg, Spec7!GetDigestSize
    <3> QED
      BY <1>1, <2>1, <3>1, <3>2 DEF PathInv, Steps, Leaving, Early, TokenOrFile
  <2> QED
    BY <1>1, <2>2, <2>3
<1> QED
  BY <1>2, <1>3, <1>4, <1>5

LEMMA OtherOwn ==
  ASSUME OwnInv, OpenPem \/ RenewBio \/ GetSerial \/ BuildMessage
  PROVE  (Own /\ HeldInv /\ PathInv)'
<1>1. CASE OpenPem
  <2>1. /\ Own' /\ UNCHANGED <<args, reading, err, sig_ret>> /\ pc = "open"
        /\ \/ pc' = "parse" /\ Held' = Held \cup {"bio"}
           \/ pc' = "errno" /\ Held' = Held
    BY <1>1, Obtain, KeepPointers
    DEF OpenPem, locals, OwnInv, HeldInv, ReadBefore, Pointers
  <2>2. HeldInv'
    BY <2>1 DEF OwnInv, HeldInv, ReadBefore
  <2>3. PathInv'
    BY <2>1 DEF OwnInv, PathInv, Steps, Leaving, Early, TokenOrFile
  <2> QED
    BY <2>1, <2>2, <2>3
<1>2. CASE RenewBio
  <2>1. /\ pc = "renew" /\ UNCHANGED <<args, reading, sig_ret>>
        /\ misuse' = (misuse \/ ptr["bio"] \notin live)
        /\ \/ /\ ptr' = [ptr EXCEPT !["bio"] = "sig_bio"] /\ pc' = "encode" /\ err' = err
              /\ live' = (live \ {ptr["bio"]}) \cup {"sig_bio"}
           \/ /\ ptr' = [ptr EXCEPT !["bio"] = "NULL"] /\ pc' = "p7_out" /\ err' # "0"
              /\ live' = live \ {ptr["bio"]}
    BY <1>2 DEF RenewBio, Fail
  <2>2. /\ "bio" \in Held /\ "bio" \in Pointers /\ ptr["bio"] \in live
        /\ Held = Both \cup {"d", "bio", "p7"}
    BY <2>1 DEF OwnInv, HeldInv, Own, Held
  <2>3. /\ ptr' \in [Pointers -> Pointers \cup {"NULL", "sig_bio"}]
        /\ \A q \in Pointers \ {"bio"} : ptr'[q] = ptr[q]
        /\ ptr'["bio"] \in {"sig_bio", "NULL"}
    BY <2>1, <2>2 DEF OwnInv, Own
  <2>4. /\ pc' = "encode" => Held' = Held
        /\ pc' = "p7_out" => Held' = Held \ {"bio"}
    BY <2>1, <2>2, <2>3 DEF Held, OwnInv, Own
  <2>5. live' = {ptr'[q] : q \in Held'} \cup (IF sig_ret' # NoCall THEN {"sig_ret"} ELSE {})
    <3>1. \A q \in Held \ {"bio"} : ptr[q] # ptr["bio"] /\ ptr[q] = q
      BY <2>2, ObjectNames DEF OwnInv, Own, Held
    <3>2. ptr["bio"] # "sig_ret"
      BY <2>2, ObjectNames DEF OwnInv, Own, Held
    <3>3. \A x \in live : (x = "sig_ret" /\ sig_ret # NoCall) \/ \E q \in Held : x = ptr[q]
      BY DEF OwnInv, Own
    <3>4. \A q \in Held : ptr[q] \in live
      BY DEF OwnInv, Own
    <3>5. sig_ret = NoCall
      BY <2>1 DEF OwnInv, PathInv, Leaving
    <3>6. "sig_ret" \notin live
      BY <3>3, <3>5, ObjectNames DEF OwnInv, Own, Held
    <3>7. live = {ptr[q] : q \in Held}
      BY <3>5 DEF OwnInv, Own
    <3>8. CASE pc' = "encode"
      BY <2>1, <2>2, <2>3, <2>4, <3>1, <3>5, <3>7, <3>8 DEF Held
    <3>9. CASE pc' = "p7_out"
      BY <2>1, <2>2, <2>3, <2>4, <3>1, <3>5, <3>7, <3>9 DEF Held
    <3> QED
      BY <2>1, <3>8, <3>9
  <2>6. misuse' = FALSE
    BY <2>1, <2>2 DEF OwnInv, Own
  <2>7. \A p \in Held' : ptr'[p] = p \/ (p = "bio" /\ ptr'[p] = "sig_bio")
    BY <2>2, <2>3 DEF OwnInv, Own, Held
  <2>8. Own'
    BY <2>3, <2>5, <2>6, <2>7 DEF Own
  <2>9. HeldInv'
    BY <2>1, <2>2, <2>4 DEF HeldInv, Both
  <2>10. PathInv'
    BY <2>1 DEF OwnInv, PathInv, Steps, Leaving, Early, TokenOrFile
  <2> QED
    BY <2>8, <2>9, <2>10
<1>3. CASE GetSerial
  <2>1. /\ pc = "serial" /\ pc' = "cbb" /\ UNCHANGED <<args, reading, err, sig_ret, misuse>>
        /\ \E s \in {"NULL", "serial"} :
             /\ ptr' = [ptr EXCEPT !["serial"] = s, !["md_ctx"] = "md_ctx"]
             /\ live' = live \cup ({s, "md_ctx"} \ {"NULL"})
    BY <1>3 DEF GetSerial, locals
  <2>2. Held = Both \cup {"d"} /\ sig_ret = NoCall
    BY <2>1 DEF OwnInv, HeldInv, PathInv, Leaving
  <2>3. PICK s \in {"NULL", "serial"} :
          /\ ptr' = [ptr EXCEPT !["serial"] = s, !["md_ctx"] = "md_ctx"]
          /\ live' = live \cup ({s, "md_ctx"} \ {"NULL"})
    BY <2>1
  <2>4. /\ ptr' \in [Pointers -> Pointers \cup {"NULL", "sig_bio"}]
        /\ \A q \in Pointers \ {"serial", "md_ctx"} : ptr'[q] = ptr[q]
        /\ ptr'["serial"] = s /\ ptr'["md_ctx"] = "md_ctx"
        /\ {"serial", "md_ctx"} \subseteq Pointers
    BY <2>3 DEF OwnInv, Own, Pointers
  <2>5. Held' = Held \cup ({s, "md_ctx"} \ {"NULL"})
    <3>1. \A q \in Pointers : q \in Held' <=> ptr'[q] # "NULL"
      BY DEF Held
    <3>2. "serial" \notin Held /\ Held \subseteq Pointers
      BY <2>2 DEF Both, Held
    <3>3. \A q \in Pointers \ {"serial", "md_ctx"} : q \in Held' <=> q \in Held
      BY <2>4 DEF Held
    <3> QED
      BY <2>4, <3>1, <3>2, <3>3 DEF Held
  <2>6. \A q \in Held : q \notin {"serial", "md_ctx"} /\ ptr'[q] = ptr[q]
    BY <2>2, <2>4 DEF Held, Both
  <2>7. live' = {ptr'[q] : q \in Held'}
    <3>1. live = {ptr[q] : q \in Held}
      BY <2>2 DEF OwnInv, Own
    <3>2. \A q \in {s, "md_ctx"} \ {"NULL"} : ptr'[q] = q
      BY <2>4
    <3> DEFINE new == {s, "md_ctx"} \ {"NULL"}
    <3>3. live' = live \cup new /\ Held' = Held \cup new
      BY <2>3, <2>5
    <3> HIDE DEF new
    <3> QED
      BY <2>6, <3>1, <3>2, <3>3 DEF new
  <2>8. \A p \in Held' : ptr'[p] = p \/ (p = "bio" /\ ptr'[p] = "sig_bio")
    BY <2>4, <2>5, <2>6 DEF OwnInv, Own
  <2>9. Own'
    BY <2>1, <2>2, <2>4, <2>7, <2>8 DEF OwnInv, Own
  <2>10. HeldInv'
    BY <2>1, <2>2, <2>5 DEF HeldInv, Both
  <2>11. PathInv'
    BY <2>1 DEF OwnInv, PathInv, Steps, Leaving, Early, TokenOrFile
  <2> QED
    BY <2>9, <2>10, <2>11
<1>4. CASE BuildMessage
  <2>1. /\ Own' /\ pc = "build" /\ UNCHANGED <<args, reading, sig_ret>>
        /\ \/ /\ pc' = "dup" /\ err' = err /\ ptr["serial"] # "NULL"
              /\ Held' = Held \cup {"pkcs7_data"}
           \/ pc' = "cbb_out" /\ err' # "0" /\ Held' = Held
           \/ pc' = "crashed" /\ err' = err
    BY <1>4, Obtain, KeepPointers
    DEF BuildMessage, Call, Fail, locals, OwnInv, HeldInv, Both, Pointers
  <2>2. ptr["serial"] # "NULL" => "serial" \in Held
    BY DEF Held, Pointers
  <2>3. HeldInv'
    BY <2>1, <2>2 DEF OwnInv, HeldInv, Both, Cbb
  <2>4. PathInv'
    BY <2>1 DEF OwnInv, PathInv, Steps, Leaving, Early, TokenOrFile
  <2> QED
    BY <2>1, <2>3, <2>4
<1> QED
  BY <1>1, <1>2, <1>3, <1>4

\* Every step of the function is a step of its error reporting or leaves
\* that alone.
LEMMA MessageStep == [SignDigestNext]_vars => [ErrorMsgNext]_mvars
<1> SUFFICES ASSUME [SignDigestNext]_vars PROVE [ErrorMsgNext]_mvars
  OBVIOUS
<1>1. CASE CallSteps
  BY <1>1, CallStepsElsewhere DEF Elsewhere
<1>2. CASE Enter \/ Check \/ OpenPem \/ ErrnoReturn \/ ClosePem \/ GetPrivateKey
  BY <1>2 DEF Enter, Check, OpenPem, ErrnoReturn, ClosePem, GetPrivateKey, Fail, Quiet,
       ErrorMsgNext
<1>3. CASE EngineFree \/ LoadKey \/ OutPkcs7 \/ OutCbb \/ Out \/ GetSerial
  BY <1>3 DEF EngineFree, LoadKey, OutPkcs7, OutCbb, Out, GetSerial, Quiet
<1>4. CASE RenewBio
  BY <1>4 DEF RenewBio, Fail, Quiet, ErrorMsgNext
<1>5. CASE BuildMessage
  BY <1>5 DEF BuildMessage, Call, Fail, Quiet, ErrorMsgNext
<1>6. CASE Reporting \/ SetCallback \/ Ended \/ UNCHANGED vars
  BY <1>6 DEF Reporting, SetCallback, Ended, vars, ErrorMsgNext
<1> QED
  BY <1>1, <1>2, <1>3, <1>4, <1>5, <1>6 DEF SignDigestNext, Step, CallSteps

LEMMA OwnStep == OwnInv /\ [SignDigestNext]_vars => OwnInv'
<1> SUFFICES ASSUME OwnInv, [SignDigestNext]_vars PROVE OwnInv'
  OBVIOUS
<1>1. ErrnoOK'
  BY MessageStep, ErrnoTyped DEF OwnInv
<1>2. CASE Reporting \/ SetCallback \/ Ended \/ UNCHANGED vars
  <2>1. UNCHANGED <<pc, locals, err, reading, ptr, live>>
    BY <1>2 DEF Reporting, SetCallback, Ended, vars
  <2>2. Own' /\ Held' = Held
    BY <2>1, KeepPointers DEF OwnInv, locals
  <2>3. HeldInv'
    BY <2>1, <2>2 DEF OwnInv, HeldInv, ReadBefore, Both, Cbb
  <2>4. PathInv'
    BY <2>1 DEF OwnInv, PathInv, TokenOrFile, locals
  <2> QED
    BY <1>1, <2>2, <2>3, <2>4 DEF OwnInv
<1>3. CASE ~(Reporting \/ SetCallback \/ Ended \/ UNCHANGED vars)
  <2>1. (Own /\ HeldInv /\ PathInv)'
    BY <1>3, CallsOwn, ReturnOwn, FreesOwn, QuietOwn, OtherOwn
    DEF SignDigestNext, Step, CallSteps
  <2> QED
    BY <1>1, <2>1 DEF OwnInv
<1> QED
  BY <1>2, <1>3

LEMMA OwnInvariance == SignDigestSpec => []OwnInv
  BY OwnInit, OwnStep, PTL DEF SignDigestSpec

(***************************************************************************)
(* libfsverity_sign_digest() frees every object exactly once, whichever    *)
(* calls of the crypto library fail, in both builds and for all arguments: *)
(* what is left at return is the signature, on success, and nothing else.  *)
(***************************************************************************)
THEOREM SignReleasesOnce == SignDigestSpec => []ReleasedOnce
<1>1. OwnInv => ReleasedOnce
  <2> SUFFICES ASSUME OwnInv PROVE ReleasedOnce
    OBVIOUS
  <2>1. pc = "done" => (err = "0" <=> sig_ret # NoCall) /\ Held = {}
    BY DEF OwnInv, PathInv, HeldInv, Leaving
  <2> QED
    BY <2>1 DEF OwnInv, Own, ReleasedOnce
<1> QED
  BY OwnInvariance, <1>1, PTL

(***************************************************************************)
(* No call of the crypto library in lib/sign_digest.c is handed a null     *)
(* pointer or a freed object, apart from the serial number: each call is   *)
(* reached only when the ones that make its operands have succeeded.       *)
(***************************************************************************)
THEOREM SignOperandsLive == SignDigestSpec => []OperandsLive
<1>1. OwnInv => OperandsLive
  <2> SUFFICES ASSUME OwnInv PROVE OperandsLive
    OBVIOUS
  <2>1. Operands(pc) \subseteq Held
    BY DEF OwnInv, HeldInv, ReadBefore, Both, Cbb, Operands
  <2>2. \A p \in Held : ptr[p] \in live
    BY DEF OwnInv, Own
  <2> QED
    BY <2>1, <2>2 DEF OperandsLive
<1> QED
  BY OwnInvariance, <1>1, PTL

\* How the program counter moves, as far as the caller can tell.
Moves ==
  /\ args' = args
  /\ pc = "entry" => pc' \in {"entry", "check"}
  /\ pc # "entry" => pc' # "entry"
  /\ pc \in {"done", "crashed"} => UNCHANGED <<pc, err, sig_ret>>

LEMMA StepMoves == [SignDigestNext]_vars => Moves
<1> SUFFICES ASSUME [SignDigestNext]_vars PROVE Moves
  OBVIOUS
<1> USE DEF Moves, locals
<1>1. CASE ParsePem \/ EngineById \/ EngineInit \/ LoadedKey \/ GetDigestByName
  BY <1>1 DEF ParsePem, EngineById, EngineInit, LoadedKey, GetDigestByName, Call, Fail
<1>2. CASE FormatDigest
  BY <1>2 DEF FormatDigest, Call, Fail
<1>3. CASE NewMemBuf \/ Pkcs7Sign \/ AddSigner \/ Pkcs7Final \/ EncodePkcs7
  BY <1>3 DEF NewMemBuf, Pkcs7Sign, AddSigner, Pkcs7Final, EncodePkcs7, Call, Fail
<1>4. CASE CbbInit \/ NameDer \/ DigestSignInit \/ AllocSig \/ DigestSign \/ BuildMessage
  BY <1>4 DEF CbbInit, NameDer, DigestSignInit, AllocSig, DigestSign, BuildMessage, Call, Fail
<1>5. CASE CopyOpenSsl \/ CopyBoringSsl
  BY <1>5 DEF CopyOpenSsl, CopyBoringSsl, ReturnSignature, Fail
<1>6. CASE Enter \/ Check \/ OpenPem \/ ErrnoReturn \/ ClosePem \/ GetPrivateKey
  BY <1>6 DEF Enter, Check, OpenPem, ErrnoReturn, ClosePem, GetPrivateKey, Fail
<1>7. CASE EngineFree \/ LoadKey \/ RenewBio \/ OutPkcs7 \/ GetSerial \/ OutCbb \/ Out
  BY <1>7 DEF EngineFree, LoadKey, RenewBio, Fail, OutPkcs7, GetSerial, OutCbb, Out
<1>8. CASE Reporting \/ SetCallback \/ Ended \/ UNCHANGED vars
  BY <1>8 DEF Reporting, SetCallback, Ended, vars
<1> QED
  BY <1>1, <1>2, <1>3, <1>4, <1>5, <1>6, <1>7, <1>8 DEF SignDigestNext, Step

LEMMA RefinesInit == SignInit => Spec7!SignInit
  BY DEF SignInit, Spec7!SignInit

LEMMA RefinesNext ==
  ASSUME OwnInv, OwnInv', Moves PROVE [Spec7!SignNext]_(Spec7!svars)
<1>1. pc \in Steps /\ pc' \in Steps /\ args \in SignArgs
  BY DEF OwnInv, PathInv
<1>2. CASE pc = "entry" /\ pc' = "check"
  <2>1. Spec7!SignBegin(args)
    BY <1>2 DEF Moves, Spec7!SignBegin
  <2> QED
    BY <1>1, <2>1 DEF Spec7!SignNext
<1>3. CASE pc \notin {"entry", "done", "crashed"} /\ pc' = "done" /\ err' = "0"
  <2>1. /\ Spec7!SignAcceptable(args)
        /\ [signed |-> sig_ret'.signed, cert |-> sig_ret'.cert, key |-> sig_ret'.key] =
             Spec7!SignatureOf(args)
    BY <1>3 DEF OwnInv, PathInv, Moves, Leaving
  <2>2. Spec7!SignSucceed
    BY <1>3, <2>1 DEF Moves, Spec7!SignSucceed
  <2> QED
    BY <2>2 DEF Spec7!SignNext, Spec7!SignWork
<1>4. CASE pc \notin {"entry", "done", "crashed"} /\
           (pc' = "crashed" \/ (pc' = "done" /\ err' # "0"))
  <2>1. Spec7!SignFail
    BY <1>4 DEF Moves, Spec7!SignFail
  <2> QED
    BY <2>1 DEF Spec7!SignNext, Spec7!SignWork
<1>5. CASE \/ pc = "entry" /\ pc' = "entry"
           \/ pc \in {"done", "crashed"}
           \/ pc \notin {"entry", "done", "crashed"} /\ pc' \notin {"done", "crashed"}
  BY <1>5 DEF Moves, Spec7!svars
<1> QED
  BY <1>2, <1>3, <1>4, <1>5 DEF Moves

(***************************************************************************)
(* libfsverity_sign_digest() implements SignSpec: it succeeds only on      *)
(* arguments that libfsverity.h allows, and then with the signature of     *)
(* this digest by the key and for the certificate that were asked for.     *)
(***************************************************************************)
THEOREM SignImplementsSpec == SignDigestSpec => Spec7!SignSafety
<1>1. OwnInv /\ OwnInv' /\ [SignDigestNext]_vars => [Spec7!SignNext]_(Spec7!svars)
  BY StepMoves, RefinesNext
<1> QED
  BY RefinesInit, OwnInvariance, <1>1, PTL DEF SignDigestSpec, Spec7!SignSafety
=============================================================================
