SPECIFICATION MainSpec
CONSTANTS
  HashAlgTable <- MCHashAlgTable
  DefaultHashAlg = 1
  DefaultBlockSize = 2
  MaxSaltSize = 1
  Argvs <- MCArgvs
  Commands = {"digest", "measure"}
INVARIANTS
  DispatchesCommand
