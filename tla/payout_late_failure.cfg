SPECIFICATION Spec
CONSTANTS
  p1 = p1
  p2 = p2
  w1 = w1
  w2 = w2
  a1 = a1
  a2 = a2
  Payouts = {p1, p2}
  Accounts = {a1}
  Workers = {w1, w2}
  NoPayout = NoPayout
  NoAccount = NoAccount
  Provider <- OnlyStripe
  Env = {"latefailure"}
CHECK_DEADLOCK FALSE
INVARIANTS
  NoPhantomDebit
