SPECIFICATION Spec
CONSTANTS
  c1 = c1
  c2 = c2
  s1 = s1
  s2 = s2
  Clients = {c1, c2}
  Segments = {s1}
  Limit = 2
  MaxDrafts = 2
  MaxRevision = 3
  MaxRetries = 0
  MaxCrashes = 0
  MaxFaults = 0
  NoSegment = NoSegment
PROPERTIES
  TranscriptsKept
