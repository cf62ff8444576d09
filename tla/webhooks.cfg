SPECIFICATION FairSpec
CONSTANTS
  Deliveries = {d1, d2}
  MaxAttempts = 2
  MaxRetry = 3
  Timeout = 1
  PageSize = 1
  MaxOverdue = 2
  FaultKinds = {"reply", "client", "write", "crash"}
  MaxFaults = 2
INVARIANTS
  TypeOK
  RequestsAreBounded
PROPERTIES
  KeepsOutbox
  EveryRowIsSettled
