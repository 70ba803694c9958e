------------------------------- MODULE MCServices ------------------------------
(* Small instances of the services: a behaviour is one of one of them, picked  *)
(* by focus, under the fairness of that one, while the others rest.            *)
EXTENDS Services, TLC

CONSTANTS e1, a1, a2, o1, o2, m1, c1, c2, b1, b2, u1, u2, u3, w1, w2, g1, g2, j1, j2

VARIABLE focus

vars == <<focus, auditVars, emailVars, referralVars, configVars, deviceVars>>

Init ==
  /\ focus \in {"audit", "email", "referral", "config", "devices"}
  /\ Audit!Init /\ Email!Init /\ Referrals!Init /\ Switch!Init /\ Devices!Init

\* Of the three members u3 refers the two others, and only u3 may be banned; of
\* the two callers w2 only applies codes.
Roles ==
  /\ \A w \in Workers : job'[w].by \in {u3, NoUser}
  /\ payouts'[u3] = 0 /\ standing'[u1] = "active" /\ standing'[u2] = "active"
  /\ job'[w2].op # "rewards"

Next ==
  /\ UNCHANGED focus
  /\ \/ focus = "audit" /\ Audit!Next /\ UNCHANGED <<emailVars, referralVars, configVars, deviceVars>>
     \/ focus = "email" /\ Email!Next /\ UNCHANGED <<auditVars, referralVars, configVars, deviceVars>>
     \/ focus = "referral" /\ Referrals!Next /\ Roles /\ UNCHANGED <<auditVars, emailVars, configVars, deviceVars>>
     \/ focus = "config" /\ Switch!Next /\ UNCHANGED <<auditVars, emailVars, referralVars, deviceVars>>
     \/ focus = "devices" /\ Devices!Next /\ UNCHANGED <<auditVars, emailVars, referralVars, configVars>>

FairSpec ==
  /\ Init /\ [][Next]_vars
  /\ Referrals!Fairness /\ Switch!Fairness
===============================================================================
