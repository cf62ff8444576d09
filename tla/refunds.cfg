SPECIFICATION FairSpec
CONSTANTS
  r1 = r1
  r2 = r2
  address = address
  pool = pool
  Refunds = {r1, r2}
  SourceOf <- SourceOfEach
  Pools <- ShieldPools
  Gross <- GrossOfEach
  BaseFee = 0
  InputFee = 1
  ShieldBaseFee = 1
  SpendFee = 1
  InitialCoins <- Received
  LateCoins <- ComesLate
  PageSize = 2
  HasProver = TRUE
  Operators = {"h1"}
  FaultKinds = {"fetch", "send", "reply", "write", "crash"}
  MaxFaults = 2
INVARIANTS
  TypeOK
  PaidOncePerFault
  GrossIsKept
  RowsTellTheTruth
PROPERTIES
  PendingIsSettled
