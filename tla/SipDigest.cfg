SPECIFICATION DSpec
CONSTANTS
  Text <- MCText
  Lengths = {55, 56, 64}
  Credentials <- MCCredentials
INVARIANTS
  CTypeOK
  NothingIsLost
  HashedIsPadded
  DigestIsMd5
  ResponseIsExpected
