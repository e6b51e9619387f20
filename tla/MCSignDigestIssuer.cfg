SPECIFICATION SignDigestSpec
CONSTANTS
  Errnos = {"ENOENT", "EINTR"}
  NoErrno = "0"
  HashAlgTable <- MCHashAlgTable
  DefaultHashAlg = 1
  DefaultBlockSize = 2
  MaxSaltSize = 1
  Names <- MCNames
  NoCall = NoCall
  Builds = {"openssl", "boringssl"}
  SignArgs <- FileArgs
  MaxQueue = 1
INVARIANT
  SignerNamedByIssuer
