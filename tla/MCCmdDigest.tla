----------------------------- MODULE MCCmdDigest -----------------------------
(***************************************************************************)
(* Small instances of CmdDigest: digests of one and two bytes, blocks of   *)
(* two bytes by default, up to two files of up to five bytes (so that a    *)
(* file has no tree, one block or three), and the command lines below.     *)
(***************************************************************************)
EXTENDS CmdDigest, MCParams, SequencesExt

CONSTANTS Options, MaxFiles

Outs == {Named("out-merkle-tree", "t"), Named("out-descriptor", "d")}

\* Numbers good and bad, with and without trailing characters, and names.
MCOptions ==
  Outs \cup
  {Option("hash-alg", 0, FALSE, "sha512"), Option("hash-alg", 2, TRUE, "2"),
   Option("hash-alg", 1, FALSE, "1x"), Option("hash-alg", 3, TRUE, "3"),
   Option("block-size", 4, TRUE, "4"), Option("block-size", 3, TRUE, "3"),
   Option("block-size", 4, FALSE, "4k"), Option("block-size", 8, TRUE, "8"),
   Option("salt", 2, TRUE, "ab"), Option("salt", 3, TRUE, "abc"),
   Option("salt", 2, FALSE, "xy"), Option("salt", 0, TRUE, ""),
   Named("compact", ""), Named("for-builtin-sig", ""),
   Named("unknown", "")}

\* Up to two options, or both outputs and one more.
MCCommandLines ==
  [opts : UNION {[1 .. n -> Options] : n \in 0 .. 2} \cup
          {<<Named("out-merkle-tree", "t"),
             Named("out-descriptor", "d"), o>> : o \in Options},
   files : 0 .. MaxFiles]

OutCommandLines == [opts : {SetToSeq(Outs)}, files : 1 .. MaxFiles]
=============================================================================
