SPECIFICATION FairSpec
CONSTANTS
  q1 = q1
  q2 = q2
  q3 = q3
  q4 = q4
  NoId = NoId
  Requests = {q1, q2, q3, q4}
  ExternalId <- Order
  Shield <- SomeShield
  UsedIndex <- FirstValid
  MaxIndex = 4
  MaxFaults = 2
INVARIANTS
  TypeOK
  AddressesAreDistinct
  OneInvoicePerId
PROPERTIES
  EveryRequestEnds
