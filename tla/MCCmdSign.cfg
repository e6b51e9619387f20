SPECIFICATION CmdSignSpec
CONSTANTS
  HashAlgTable <- MCHashAlgTable
  DefaultHashAlg = 1
  DefaultBlockSize = 2
  MaxSaltSize = 1
  IntMax = 8
  NoCall = NoCall
  CommandLines <- MCCommandLines
  InputSizes = {0, 3, 5}
INVARIANTS
  SignSuccess
  SignatureFileSafe
PROPERTIES
  SignExitCleansUp
