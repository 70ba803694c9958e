SPECIFICATION AnySpec
CONSTANTS
  s1 = s1
  s2 = s2
  s3 = s3
  a1 = a1
  a2 = a2
  b1 = b1
  b2 = b2
  c1 = c1
  o1 = o1
  o2 = o2
  q1 = q1
  q2 = q2
  NoKey = NoKey
  NoOpportunity = NoOpportunity
  NoProcess = NoProcess
  Nowhere = Nowhere
  None = None
  Sids = {s1, s2, s3}
  Requests = {a1, a2}
  Codes = {c1}
  MaxResets = 1
  MaxSecrets = 1
  Opportunities = {o1, o2}
  Asks = {q1, q2}
  Keys = {b1, b2}
  Cap = 1
  Ttl = 2
  Hour = 2
  MaxClock = 5
  Events <- Telemetry
  Units = {"u"}
  Policies = {1, 2}
  FreshFor = 1
  Recovery = 2
  MaxAge = 2
  MinWait = 1
  MaxNow = 7
  MaxTaken = 2
  Processes = {b1, b2}
  Calls = {a1, a2}
  MaxLogins = 1
  MaxTurns = 1
  StoreFirst = TRUE
  Records = {a1, a2}
  Spoolers = {b1, b2, c1}
  Running = {b1, b2}
  MaxBatch = 1
  MaxQueue = 2
  MaxStored = 2
CHECK_DEADLOCK FALSE
SYMMETRY Interchangeable
INVARIANTS
  OneLivePerFamily
  BurnedFamilyIsDead
  BackupCodeOnce
  
  PolicyOfStart
  WithinCap
  EventKept
  TokenSentOnce
