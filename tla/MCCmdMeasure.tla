---------------------------- MODULE MCCmdMeasure ----------------------------
(***************************************************************************)
(* A small instance of CmdMeasure: up to three files with digests of one   *)
(* or two bytes, of an algorithm without a name, or without verity.        *)
(***************************************************************************)
EXTENDS CmdMeasure, MCParams

Measured(alg, digest) == [digest_algorithm |-> alg, digest |-> digest]

MCFileLists ==
  UNION {[1 .. n -> {NoDigest, Measured(1, <<10>>), Measured(2, <<11, 172>>),
                     Measured(3, <<255, 0>>)}] : n \in 0 .. 3}
=============================================================================
