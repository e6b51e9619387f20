--------------------------- MODULE MCComputeDigest ---------------------------
(***************************************************************************)
(* Small instances of ComputeDigest: two hash algorithms with digests of   *)
(* one and two bytes, every file size the word admits, and for two of them *)
(* every combination of parameters the checks look at, valid or not.       *)
(***************************************************************************)
EXTENDS ComputeDigest, TLC

MCHashAlgTable ==
  1 :> [name |-> "sha256", digest_size |-> 1, block_size |-> 2] @@
  2 :> [name |-> "sha512", digest_size |-> 2, block_size |-> 4]

CallbackSets == {{}, {"merkle_tree_size", "merkle_tree_block"}, {"descriptor"},
                 Callbacks}

ValidParams ==
  [pointers : {TRUE}, version : {1}, hash_algorithm : {0, 2}, block_size : {0},
   file_size : 0 .. Word - DefaultBlockSize, salt_size : {0, 1}, salt : {TRUE},
   reserved_zero : {TRUE}, cbs : CallbackSets]

AnyParams ==
  [pointers : BOOLEAN, version : {0, 1}, hash_algorithm : 0 .. 3,
   block_size : 0 .. 4, file_size : {0, 5}, salt_size : 0 .. MaxSaltSize + 1,
   salt : BOOLEAN, reserved_zero : BOOLEAN, cbs : {Callbacks}]

MCParams == ValidParams \cup AnyParams

MCCalls == {RootArgs(p) : p \in {q \in MCParams : Promise!Acceptable(q)}}
=============================================================================
