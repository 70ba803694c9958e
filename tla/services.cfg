SPECIFICATION FairSpec
CONSTANTS
  e1 = e1
  a1 = a1
  a2 = a2
  o1 = o1
  o2 = o2
  NoReplica = NoReplica
  m1 = m1
  c1 = c1
  c2 = c2
  b1 = b1
  b2 = b2
  u1 = u1
  u2 = u2
  u3 = u3
  w1 = w1
  w2 = w2
  Cron = Cron
  NoUser = NoUser
  Unset = Unset
  g1 = g1
  g2 = g2
  j1 = j1
  j2 = j2
  NoFingerprint = NoFingerprint
  NoJob = NoJob
  Entries = {e1}
  Replicas = {a1, a2}
  Operators = {o1, o2}
  MaxRetries = 3
  MaxRequeues = 2
  Messages = {m1}
  Callers = {c1, c2}
  Runs = {b1, b2}
  MaxEnqueues = 3
  Users = {u1, u2}
  Members = {u1, u2, u3}
  Workers = {w1, w2}
  Batch = 1
  MaxPayouts = 2
  Values = {"on", "off"}
  Default = "off"
  MaxWrites = 2
  Fingerprints = {g1, g2}
  Registrations = {j1, j2}
CHECK_DEADLOCK FALSE
INVARIANTS
  AuditedOnce
  AcceptedIsKept
  OneSender
  RewardedOnce
  OneUnrestrictedOwner
PROPERTIES
  PendingIsPaid
  SwitchReachesAll
