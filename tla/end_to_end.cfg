CONSTANTS
  i1 = i1
  o1 = o1
  o2 = o2
  c1 = c1
  Invoices = {i1}
  Outputs = {o1, o2, c1}
  InvoiceOf <- OneInvoice
  ShieldInvoices = {}
  Total <- Sums
  Due <- Prices
  ChangeOf <- OneChange
  CoinOf <- Coins
  Threshold = 1
  RefundsEnabled = TRUE
  Fee = 1
  PartialReset = 1
  Windows = {1}
  WatchLimit = 1
  Handlers = {}
  MaxClock = 1
  MaxTip = 2
  FaultKinds = {"abort", "crash", "reorg", "evict"}
  RefundPage = 1
  WorkerFaults = {"crash", "reply", "send"}
  MaxFaults = 1
  MaxFailures = 1
SPECIFICATION EndToEndSpec
VIEW WithoutTrail
INVARIANTS
  ChangeIsNoPayment
  PriceIsKept
  NeverBoth
PROPERTIES
  KeepsOutcome
