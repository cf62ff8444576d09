SPECIFICATION Spec
CONSTANTS
  r1 = r1
  r2 = r2
  address = address
  pool = pool
  Refunds = {r1}
  SourceOf <- SourceOfEach
  Pools <- ShieldPools
  Gross <- GrossOfEach
  BaseFee = 0
  InputFee = 1
  ShieldBaseFee = 1
  SpendFee = 1
  InitialCoins <- Received
  LateCoins <- ComesLate
  PageSize = 3
  HasProver = TRUE
  Operators = {"h1"}
  FaultKinds = {}
  MaxFaults = 0
PROPERTIES
  TxidIsImmutable
