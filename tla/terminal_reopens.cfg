CONSTANTS
  i1 = i1
  i2 = i2
  o1 = o1
  o2 = o2
  Invoices = {i1}
  Outputs = {o1}
  InvoiceOf <- OneInvoice
  ShieldInvoices = {}
  Total <- Sums
  Due <- Prices
  Threshold = 1
  RefundsEnabled = TRUE
  Fee = 1
  PartialReset = 1
  Windows = {1}
  WatchLimit = 1
  Handlers = {h1}
  MaxClock = 2
  MaxTip = 2
  FaultKinds = {}
  MaxFaults = 1
SPECIFICATION Spec
PROPERTIES
  TerminalIsFinal
