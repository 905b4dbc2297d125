SPECIFICATION Spec
CONSTANTS
  u1 = u1
  u2 = u2
  a1 = a1
  a2 = a2
  r1 = r1
  r2 = r2
  Users = {u1}
  Addresses = {a1}
  Reminders = {r1, r2}
  Owner <- TwoOfOne
  RemindAt <- BothAt
  Ttl = 2
  MaxAttempts = 1
  RetryDelay <- NoDelay
  FirstCheckDelay = 1
  RecheckDelay <- Rechecks
  MaxChecks = 1
  StaleAfter = 1
  Batch = 1
  MayDisable = {u1}
  MaxTime = 2
  MaxFaults = 0
  NoAddress = NoAddress
  NoReminder = NoReminder
SYMMETRY ReminderSymmetry
INVARIANTS
  QueuedIsEligible OnlyDueDeliver
