SPECIFICATION FairSpec
CONSTANTS
  u1 = u1
  u2 = u2
  a1 = a1
  a2 = a2
  r1 = r1
  r2 = r2
  Users = {u1}
  Addresses = {a1, a2}
  Reminders = {r1}
  Owner <- OneOwner
  RemindAt <- OneAt
  Ttl = 2
  MaxAttempts = 2
  RetryDelay <- OneDelay
  FirstCheckDelay = 1
  RecheckDelay <- Rechecks
  MaxChecks = 2
  StaleAfter = 1
  Batch = 1
  MayDisable = {}
  MaxTime = 3
  MaxFaults = 1
  NoAddress = NoAddress
  NoReminder = NoReminder
INVARIANTS
  TypeOK LedgerIsTruthful AtMostOneLateCall
PROPERTIES
  KeepsPromise EveryDeliverySettles
