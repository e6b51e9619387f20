------------------------------ MODULE MCParams ------------------------------
(***************************************************************************)
(* What the small instances share: hash algorithms with digests of one and *)
(* two bytes, and options of a command line.                               *)
(***************************************************************************)
EXTENDS TLC

MCHashAlgTable ==
  1 :> [name |-> "sha256", digest_size |-> 1, block_size |-> 2] @@
  2 :> [name |-> "sha512", digest_size |-> 2, block_size |-> 4]

Option(opt, n, clean, name) == [opt |-> opt, n |-> n, clean |-> clean, name |-> name]

\* An option of which only the argument matters
Named(opt, name) == Option(opt, 0, FALSE, name)
=============================================================================
