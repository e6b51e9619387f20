SPECIFICATION CmdEnableSpec
CONSTANTS
  HashAlgTable <- MCHashAlgTable
  DefaultHashAlg = 1
  DefaultBlockSize = 2
  MaxSaltSize = 1
  IntMax = 8
  NoCall = NoCall
  NoVerity = NoVerity
  CommandLines <- MCCommandLines
  SigFiles <- MCSigFiles
  MaxSigSize = 2
  U32 = 3
  MaxChanges = 2
INVARIANTS
  EnabledAsAsked
  SignatureFromFile
  EnableStatusTells
PROPERTIES
  EnableExitCleansUp
