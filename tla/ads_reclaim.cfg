SPECIFICATION FairSpec
CONSTANTS
  i1 = i1
  i2 = i2
  h1 = h1
  h2 = h2
  m = m
  k = k
  Campaigns = {m}
  Impressions = {i1, i2}
  Handlers = {h1, h2}
  NoCampaign = NoCampaign
  Nobody = Nobody
  BidType <- BidTypes
  Bid <- Bids
  Budget <- TwoBids
  Funds = 2
  Env = {"crash", "falsepositive"}
CHECK_DEADLOCK FALSE
PROPERTIES
  ReservationsEnd
