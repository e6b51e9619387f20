------------------------------ MODULE MCCmdSign ------------------------------
(***************************************************************************)
(* A small instance of CmdSign: options for a key file, for a token and    *)
(* for both, complete or not, one given twice, an unknown one, and tree    *)
(* options before them.                                                    *)
(***************************************************************************)
EXTENDS CmdSign, MCParams

Key == Named("key", "key.pem")
Cert == Named("cert", "cert.pem")

Keys ==
  {<<>>, <<Key>>, <<Key, Cert>>, <<Cert>>, <<Key, Key>>, <<Named("unknown", "")>>,
   <<Key, Named("pkcs11-engine", "e")>>} \cup
  {<<Cert, Named("pkcs11-engine", "e"), Named("pkcs11-module", "m")>> \o t :
     t \in {<<>>, <<Named("pkcs11-keyid", "id")>>}}

Trees ==
  {<<>>, <<Option("hash-alg", 2, TRUE, "2")>>, <<Named("hash-alg", "sha512"), Option("block-size", 4, TRUE, "4")>>,
   <<Option("block-size", 3, TRUE, "3")>>,
   <<Option("salt", 2, TRUE, "ab"), Named("out-merkle-tree", "t"), Named("out-descriptor", "d")>>}

MCCommandLines ==
  [opts : {t \o k : t \in Trees, k \in Keys}, files : {2}] \cup
  [opts : {<<Key>>}, files : {0, 1, 3}]
=============================================================================
