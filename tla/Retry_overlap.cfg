SPECIFICATION FairSpec
CONSTANTS
  a1 = a1
  a2 = a2
  d1 = d1
  d2 = d2
  d3 = d3
  b1 = b1
  Batches = {b1}
  Devices = {d1, d2, d3}
  IOErrors = FALSE
  Admins = {a1, a2}
  Waiting <- TwoItems
  Settled <- OneReading
  Offers <- FavourableOffers
  RetryLimit = 2
  Overlap <- FirstItem
  MaxRestarts = 1
INVARIANTS
  TypeOK
  AttemptsBounded
  AcceptedBacked
  AuditHistory
PROPERTIES
  RetryReturns
  BoardSpec
