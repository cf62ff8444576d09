CONSTANTS
  i1 = i1
  i2 = i2
  o1 = o1
  o2 = o2
  Invoices = {i1, i2}
  Outputs = {o1, o2}
  InvoiceOf <- TwoInvoices
  ShieldInvoices = {i2}
  Total <- Sums
  Due <- Prices
  Threshold = 1
  RefundsEnabled = TRUE
  Fee = 1
  PartialReset = 1
  Windows = {1}
  WatchLimit = 1
  Handlers = {}
  MaxClock = 2
  MaxTip = 2
  FaultKinds = {"crash"}
  MaxFaults = 1
SPECIFICATION FairSpec
INVARIANTS
  SavedNotesAreRecorded
PROPERTIES
  FollowsLifecycle
  UnpaidIsSettled
  ConfirmingIsConfirmed
