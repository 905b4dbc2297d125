SPECIFICATION Spec
CONSTANTS
  u1 = u1
  u2 = u2
  s1 = s1
  s2 = s2
  e1 = e1
  e2 = e2
  r1 = r1
  r2 = r2
  Users = {u1, u2}
  Sessions = {s1, s2}
  Endpoints = {e1, e2}
  Reminders = {r1, r2}
  Owner <- OneOwner
  SessionUser <- EachOwn
  RemindAt <- AtZero
  ExpiresAt <- ExpireAfter
  StaleAfter = 1
  Batch = 2
  MayDisable = {}
  MaxTime = 1
  MaxFaults = 0
  NoSession = NoSession
  NoKey = NoKey
SYMMETRY Symmetry
INVARIANTS
  ActiveHasSession OneActivePerSession AtMostOneLateCall DeliveriesStayWithOwner
