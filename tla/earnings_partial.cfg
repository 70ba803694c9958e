SPECIFICATION Spec
CONSTANTS
  a1 = a1
  a2 = a2
  b1 = b1
  b2 = b2
  o1 = o1
  o2 = o2
  c1 = c1
  c2 = c2
  NoCredit = NoCredit
  NoFlag = NoFlag
  NoPayout = NoPayout
  Refunds = {a1, a2}
  Disputes = {b1, b2}
  StripeDeposit = 3
  MaxDeaths = 0
  MaxHolds = 2
  Faults = {"overtake"}
  DodoRefunds = {o1}
  DodoDisputes = {o2}
  DodoDeposit = 2
  DodoDeaths = 1
  Handlers = {a1, a2}
  MaxRepeats = 1
  Credits = {c1, c2}
  Share <- Shares
  MaxRows = 4
  Overlap = FALSE
  Payouts = {a1, a2}
  Flags = {o1}
  Creatives = {o1}
  Requests = {a1, a2}
  MaxCreatives = 1
  MaxEdits = 2
  Prices = {1, 2}
  ErasureRows = {a1, a2, o1}
  Worth <- Worths
  Erasers = {b1, b2}
  Threshold = 2
  Minimum = 2
  MaxAttempts = 2
CHECK_DEADLOCK FALSE
SYMMETRY Interchangeable
INVARIANTS
  PaidIsAllocated
