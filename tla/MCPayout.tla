------------------------------- MODULE MCPayout -------------------------------
(* Small instances of PayoutProcessing: which rail each destination uses.    *)
EXTENDS PayoutProcessing, TLC

CONSTANTS p1, p2, w1, w2, a1, a2

OnlyPsp      == [a \in Accounts |-> "psp"]
OnlyStripe   == [a \in Accounts |-> "stripe"]
StripeAndPsp == [a \in Accounts |-> IF a = a1 THEN "stripe" ELSE "psp"]
ManualAndPsp == [a \in Accounts |-> IF a = a1 THEN "manual" ELSE "psp"]

\* Payout requests differ only by name, and so do invocations.
Interchangeable == Permutations(Payouts) \cup Permutations(Workers)
===============================================================================
