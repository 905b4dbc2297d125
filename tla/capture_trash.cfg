SPECIFICATION Spec
CONSTANTS
  i1 = i1
  i2 = i2
  x1 = x1
  x2 = x2
  r1 = r1
  r2 = r2
  t1 = t1
  t2 = t2
  Inputs = {i1, i2}
  Items = {x1, x2}
  Reminders = {r1, r2}
  Tasks = {t1, t2}
  Retention = 1
  Batch = 1
  MaxQueue = 2
  MaxTime = 1
  MaxRestarts = 1
  MaxFaults = 0
  NoItem = NoItem
  NoInput = NoInput
SYMMETRY Symmetry
PROPERTIES
  TrashIsTheUsersChoice
