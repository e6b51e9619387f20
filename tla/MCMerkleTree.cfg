SPECIFICATION Spec
CONSTANTS
  WordBits = 5
  MaxLevels = 5
  Calls <- MCCalls
  BlockDigest <- MCBlockDigest
  CallbackSets <- MCCallbackSets
  Zero = Zero
INVARIANTS
  BuffersInBounds
  NoInternalError
  TreeShape
  ReportedLayout
  SuccessMeansWholeTree
  MemoryOwnership
  IInv
PROPERTIES
  Termination
  ImplementsMerkleSpec
