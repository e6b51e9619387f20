SPECIFICATION CmdDigestSpec
CONSTANTS
  HashAlgTable <- MCHashAlgTable
  DefaultHashAlg = 1
  DefaultBlockSize = 2
  MaxSaltSize = 1
  IntMax = 8
  NoCall = NoCall
  CommandLines <- MCCommandLines
  Options <- MCOptions
  MaxFiles = 2
  Sizes = {0, 3, 5}
INVARIANTS
  SuccessPrintsEveryFile
  OutputsHoldThisFile
PROPERTIES
  ExitCleansUp
