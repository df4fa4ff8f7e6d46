SPECIFICATION Spec
CONSTANTS
  c1 = c1
  c2 = c2
  s1 = s1
  s2 = s2
  d1 = d1
  d2 = d2
  b1 = b1
  b2 = b2
  Calls = {c1, c2}
  Sources = {s1, s2}
  Devices = {d1, d2}
  Batches = {b1}
  Feeds <- MixedFeeds
  MaxBatchSize = 2
  Shared = {b1}
  IOErrors = FALSE
  MaxRestarts = 0
  NoReading = NoReading
SYMMETRY CallSymmetry
INVARIANT PendingCounted
