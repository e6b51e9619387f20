SPECIFICATION DigestComputation
CONSTANTS
  WordBits = 4
  MaxLevels = 4
  Calls <- MCCalls
  Zero = Zero
  HashAlgTable <- MCHashAlgTable
  DefaultHashAlg = 1
  DefaultBlockSize = 4
  MaxSaltSize = 2
  Params <- MCParams
  Null = Null
INVARIANTS
  RootHashPrecondition
  CallerOwnsDigest
  DigestOfWholeFile
PROPERTIES
  FailureIsFinal
  ImplementsDigestSpec
