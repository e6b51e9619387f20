------------------------------ MODULE SignSpec ------------------------------
(***************************************************************************)
(* What libfsverity_sign_digest() promises the program that calls it: the  *)
(* arguments it accepts and what is signed, with which key and for which   *)
(* certificate.  An argument that is a null pointer is "NULL".             *)
(***************************************************************************)
EXTENDS HashAlgs

CONSTANTS SignArgs, NoCall

VARIABLES
  sign_call,     \* the arguments of the current call
  sign_result,   \* "idle", "running", "ok" or "failed"
  signature      \* what a successful call returned

svars == <<sign_call, sign_result, signature>>

UsesToken(c) == \E f \in {"engine", "module", "keyid"} : c[f] # "NULL"

WellFormedDigest(d) ==
  KnownHashAlg(d.digest_algorithm) /\ d.digest_size = GetDigestSize(d.digest_algorithm)

\* What libfsverity.h requires of the arguments.
SignAcceptable(c) ==
  /\ c.pointers /\ c.reserved_zero /\ WellFormedDigest(c.digest)
  /\ c.certfile # "NULL"
  /\ UsesToken(c) <=> c.keyfile = "NULL"
  /\ UsesToken(c) => c.engine # "NULL" /\ c.module # "NULL"

SignatureOf(c) ==
  [signed |-> c.digest, cert |-> c.certfile,
   key |-> IF UsesToken(c) THEN c.keyid ELSE c.keyfile]

SignInit == sign_call = NoCall /\ sign_result = "idle" /\ signature = NoCall

SignBegin(c) ==
  /\ sign_result # "running"
  /\ sign_call' = c /\ sign_result' = "running" /\ signature' = NoCall

SignSucceed ==
  /\ sign_result = "running" /\ SignAcceptable(sign_call)
  /\ sign_result' = "ok" /\ signature' = SignatureOf(sign_call)
  /\ UNCHANGED sign_call

SignFail ==
  /\ sign_result = "running"
  /\ sign_result' = "failed"
  /\ UNCHANGED <<sign_call, signature>>

SignWork == SignSucceed \/ SignFail

SignNext == (\E c \in SignArgs : SignBegin(c)) \/ SignWork

\* What it never does, and that it returns
SignSafety == SignInit /\ [][SignNext]_svars
SignPromise == SignSafety /\ WF_svars(SignWork)
=============================================================================
