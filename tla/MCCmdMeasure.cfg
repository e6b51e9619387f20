SPECIFICATION CmdMeasureSpec
CONSTANTS
  HashAlgTable <- MCHashAlgTable
  DefaultHashAlg = 1
  DefaultBlockSize = 2
  MaxSaltSize = 1
  FileLists <- MCFileLists
  MaxDigestSize = 2
  NoDigest = NoDigest
INVARIANTS
  MeasuredDigests
  RoomForEveryDigest
PROPERTIES
  MeasureExitCleansUp
