SPECIFICATION IdentitySpec
CONSTANTS
  u1 = u1
  m1 = m1
  m2 = m2
  q1 = q1
  q2 = q2
  e1 = e1
  e2 = e2
  p1 = p1
  p2 = p2
  t1 = t1
  t2 = t2
  src = src
  far = far
  Users = {u1}
  Addresses = {m1, m2}
  Requests = {q1, q2}
  NoUser = NoUser
  NoAddress = NoAddress
  GlobalWindow = 1
  GlobalLimit = 2
  RecipientWindow = 1
  RecipientLimit = 1
  MaxRecipients = 1
  CodeLife = 1
  Cooldown = 1
  Hour = 1
  AddressLimit = 2
  AccountLimit = 2
  Tries = 1
  TestCooldown = 1
  TestLimit = 1
  MaxChallenges = 3
  MailTime = 1
  Sources = {src, far}
  Emails = {e1, e2}
  Passwords = {p1, p2}
  NoPassword = NoPassword
  NoEmail = NoEmail
  Threads = {t1, t2}
  AuthLimit <- Limits
  AuthWindow <- Windows
  MaxKeys <- OneKey
  Mode = "invite"
  Life = 1
  MaxSessions = 2
  AuthTime = 1
SYMMETRY Symmetry
INVARIANTS
  IdentityTypeOK OwnershipProven SendsAreCounted SessionIsEarned
PROPERTIES
  AdmittedIsLive
