SPECIFICATION PlatformSpec
CONSTANTS
  c1 = c1
  c2 = c2
  s1 = s1
  s2 = s2
  d1 = d1
  d2 = d2
  b1 = b1
  b2 = b2
  a1 = a1
  a2 = a2
  o1 = o1
  Calls = {c1}
  Sources = {s1}
  Devices = {d1, d2}
  Batches = {b1}
  Feeds <- PlainFeeds
  MaxBatchSize = 2
  Shared = {}
  IOErrors = FALSE
  MaxRestarts = 1
  NoReading = NoReading
  Admins = {a1}
  Offers <- AnyOffers
  RetryLimit = 1
  Overlap <- ReadingIds
  Operators = {o1}
  Mixed = TRUE
  Maintained = TRUE
  MaxEntries = 2
INVARIANTS
  PlatformTypeOK
  LimitKeptByAll
