SPECIFICATION Spec
CONSTANTS
  i1 = i1
  i2 = i2
  h1 = h1
  h2 = h2
  m = m
  k = k
  Campaigns = {m, k}
  Impressions = {i1, i2}
  Handlers = {h1, h2}
  NoCampaign = NoCampaign
  Nobody = Nobody
  BidType <- BidTypes
  Bid <- Bids
  Budget <- Tight
  Funds = 2
  Env = {"crash", "falsepositive", "report"}
CHECK_DEADLOCK FALSE
SYMMETRY Interchangeable
INVARIANTS
  ReservedMatchesOpen
  WithinBudget
  ChargesAddUp
  NoOverdraft
PROPERTIES
  ArchivedIsFinal
  InvalidNeverCharged
