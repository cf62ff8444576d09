SPECIFICATION FairSpec
CONSTANTS
  Seeds = {"s1", "s2"}
  Config <- Configured
  Stdin = "pipe"
  EnvPassphrases = {"unlock", "other"}
  MaxIssued = 2
  FaultKinds = {"kill", "file", "host", "mirror", "disk", "port", "bytes"}
  MaxFaults = 2
INVARIANTS
  TypeOK
  SeedsAreKnown
  IssuedOnce
PROPERTIES
  ReplacedOnPurpose
  ComesUpAgain
  ProverComesUp
CHECK_DEADLOCK FALSE
