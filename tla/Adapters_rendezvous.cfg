SPECIFICATION FairSpec
CONSTANTS
  c1 = c1
  c2 = c2
  c3 = c3
  s1 = s1
  s2 = s2
  s3 = s3
  r1 = r1
  r2 = r2
  r3 = r3
  Clients = {c1, c2}
  Sources = {s1, s2, s3}
  VendorOf <- TwoVendors
  Rows <- SomeRows
  Failing = {s2}
  Barriers = {s1, s3}
  Requests <- AllOrSome
  Capacity = 1
  Expected = 2
INVARIANTS
  TypeOK
  FetchAllAccounts
PROPERTIES
  FetchesMeet
  CancelledReturns
  BarrierLifts
