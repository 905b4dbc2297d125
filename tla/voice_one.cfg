SPECIFICATION FairSpec
CONSTANTS
  c1 = c1
  c2 = c2
  s1 = s1
  s2 = s2
  Clients = {c1}
  Segments = {s1, s2}
  Limit = 1
  MaxDrafts = 1
  MaxRevision = 3
  MaxRetries = 2
  MaxCrashes = 1
  MaxFaults = 0
  NoSegment = NoSegment
INVARIANTS
  TypeOK AppendedOnce OneActiveSegment SavedSegmentsSucceeded
PROPERTIES
  TranscriptionEnds
