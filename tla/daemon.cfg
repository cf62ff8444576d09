SPECIFICATION FairSpec
CONSTANTS
  RefundsEnabled = TRUE
  ChunkSize = 2
  StreamCap = 3
  MaxTip = 4
  FaultKinds = {"tick", "stream", "chunk", "save", "port", "crash"}
  MaxFaults = 3
INVARIANTS
  TypeOK
  WholeWhenUsed
PROPERTIES
  ProgressStays
  CatchesUp
