SPECIFICATION Spec
CONSTANTS
  p1 = p1
  p2 = p2
  w1 = w1
  w2 = w2
  a1 = a1
  a2 = a2
  Payouts = {p1, p2}
  Accounts = {a1, a2}
  Workers = {w1, w2}
  NoPayout = NoPayout
  NoAccount = NoAccount
  Provider <- ManualAndPsp
  Env = {"fraud", "forfeit", "report", "freeze", "methods"}
CHECK_DEADLOCK FALSE
SYMMETRY Interchangeable
INVARIANTS
  RowsFollowStatus
  ReservedOnActiveAccount
PROPERTIES
  NoSendWhileFrozen
  TerminalStable
