SPECIFICATION FairSpec
CONSTANTS
  RefundsEnabled = FALSE
  ChunkSize = 1
  StreamCap = 1
  MaxTip = 1
  FaultKinds = {}
  MaxFaults = 0
PROPERTIES
  SignalStops
