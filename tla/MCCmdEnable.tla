---------------------------- MODULE MCCmdEnable ----------------------------
(***************************************************************************)
(* A small instance of CmdEnable: signatures of up to two bytes, one file  *)
(* that is too large and one that is empty, replaced up to twice.          *)
(***************************************************************************)
EXTENDS CmdEnable, MCParams

Sig == Named("signature", "sig")

Trees ==
  {<<>>, <<Option("hash-alg", 2, TRUE, "2")>>, <<Named("hash-alg", "sha512"), Option("block-size", 4, TRUE, "4")>>,
   <<Option("block-size", 3, TRUE, "3")>>, <<Option("salt", 2, TRUE, "ab")>>,
   <<Named("unknown", "")>>}

MCCommandLines ==
  [opts : {t \o s : t \in Trees, s \in {<<>>, <<Sig>>, <<Sig, Sig>>}} \cup
          {<<Sig>> \o t : t \in Trees},
   files : {1}] \cup
  [opts : {<<>>, <<Sig>>}, files : {0, 2}]

MCSigFiles == {<<>>, <<1>>, <<2, 3>>, <<4, 5>>, <<6, 7, 8>>}
=============================================================================
