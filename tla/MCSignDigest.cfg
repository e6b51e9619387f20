SPECIFICATION SignDigestSpec
CONSTANTS
  Errnos = {"ENOENT", "EINTR"}
  NoErrno = "0"
  HashAlgTable <- MCHashAlgTable
  DefaultHashAlg = 1
  DefaultBlockSize = 2
  MaxSaltSize = 1
  Names <- MCNames
  NoCall = NoCall
  Builds = {"openssl", "boringssl"}
  SignArgs <- MCSignArgs
  MaxQueue = 2
INVARIANTS
  ReleasedOnce
  OperandsLive
  OpenErrorReturned
PROPERTIES
  ImplementsSignSpec
