SPECIFICATION Spec
CONSTANTS
  IntMax = 2
  MaxSize = 3
  MaxCalls = 3
  Errnos = {"EINTR"}
INVARIANTS
  ReadAllOrError
  StreamInOrder
  WholeWrite
  PreallocateKeepsData
PROPERTIES
  LoopsEnd
CHECK_DEADLOCK FALSE
