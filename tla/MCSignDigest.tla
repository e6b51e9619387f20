---------------------------- MODULE MCSignDigest ----------------------------
(***************************************************************************)
(* Small instances of SignDigest: a self-signed certificate and one issued *)
(* by a CA, every combination of key arguments, and malformed arguments.   *)
(***************************************************************************)
EXTENDS SignDigest, MCParams

MCNames ==
  "self.pem" :> [subject |-> "signer", issuer |-> "signer"] @@
  "issued.pem" :> [subject |-> "signer", issuer |-> "CA"]

Digest(alg, size) == [digest_algorithm |-> alg, digest_size |-> size]

Args(pointers, digests, certs, keys, tokens) ==
  [pointers : pointers, reserved_zero : pointers, digest : digests, certfile : certs,
   keyfile : keys, engine : tokens, module : tokens, keyid : tokens]

MCSignArgs ==
  Args({TRUE}, {Digest(2, 2)}, {"NULL", "self.pem", "issued.pem"}, {"NULL", "key.pem"},
       {"NULL", "token"}) \cup
  Args(BOOLEAN, {Digest(1, 1), Digest(1, 2), Digest(0, 0), Digest(3, 1)}, {"self.pem"},
       {"key.pem"}, {"NULL"})

FileArgs == Args({TRUE}, {Digest(1, 1)}, DOMAIN MCNames, {"key.pem"}, {"NULL"})
=============================================================================
