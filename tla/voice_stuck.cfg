SPECIFICATION FairSpec
CONSTANTS
  c1 = c1
  c2 = c2
  s1 = s1
  s2 = s2
  Clients = {c1}
  Segments = {s1}
  Limit = 1
  MaxDrafts = 1
  MaxRevision = 1
  MaxRetries = 2
  MaxCrashes = 0
  MaxFaults = 0
  NoSegment = NoSegment
PROPERTIES
  RetryIsAttempted
