SPECIFICATION FairSpec
CONSTANTS
  u1 = u1
  u2 = u2
  s1 = s1
  s2 = s2
  e1 = e1
  e2 = e2
  r1 = r1
  r2 = r2
  Users = {u1}
  Sessions = {s1, s2}
  Endpoints = {e1}
  Reminders = {r1}
  Owner <- OneOwner
  SessionUser <- SameUser
  RemindAt <- AtZero
  ExpiresAt <- ExpireAtEnd
  StaleAfter = 1
  Batch = 1
  MayDisable = {u1}
  MaxTime = 3
  MaxFaults = 1
  NoSession = NoSession
  NoKey = NoKey
INVARIANTS
  TypeOK LedgerIsTruthful
PROPERTIES
  KeepsPromise EveryDeliverySettles
