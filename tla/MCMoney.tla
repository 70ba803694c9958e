-------------------------------- MODULE MCMoney --------------------------------
(* Small instances of what moves money: a behaviour is one of one of the       *)
(* components, picked by focus, while the others rest.                         *)
EXTENDS Money, TLC

CONSTANTS a1, a2, b1, b2, o1, o2, c1, c2

VARIABLE focus

vars == <<focus, stripeVars, dodoVars, earningsVars, campaignVars, erasureVars>>

\* Credits of one and two units.
Shares == c1 :> 1 @@ c2 :> 2

\* Three credits, of which two together are worth the threshold, which is the
\* least payout too.
Worths == a1 :> 1 @@ a2 :> 1 @@ o1 :> 2

\* The events of a deposit made through Stripe may overtake each other, or their
\* handlers die.
Dying == INSTANCE StripeFunds WITH Deposit <- StripeDeposit, MaxDeaths <- 2, Faults <- {}

Init ==
  /\ focus \in {"overtaking", "dying", "dodo", "developer", "campaign", "erasure"}
  /\ Stripe!Init /\ Dodo!Init /\ Developer!Init /\ Campaigns!Init /\ Erasure!Init
  /\ focus # "campaign" => terms.bid = terms.budget /\ terms.bid = 1 /\ ~funded

Next ==
  /\ UNCHANGED focus
  /\ \/ /\ focus = "overtaking" /\ Stripe!Next
        /\ UNCHANGED <<dodoVars, earningsVars, campaignVars, erasureVars>>
     \/ /\ focus = "dying" /\ Dying!Next
        /\ UNCHANGED <<dodoVars, earningsVars, campaignVars, erasureVars>>
     \/ /\ focus = "dodo" /\ Dodo!Next
        /\ UNCHANGED <<stripeVars, earningsVars, campaignVars, erasureVars>>
     \/ /\ focus = "developer" /\ Developer!Next
        /\ UNCHANGED <<stripeVars, dodoVars, campaignVars, erasureVars>>
     \/ /\ focus = "campaign" /\ Campaigns!Next
        /\ UNCHANGED <<stripeVars, dodoVars, earningsVars, erasureVars>>
     \/ /\ focus = "erasure" /\ Erasure!Next
        /\ UNCHANGED <<stripeVars, dodoVars, earningsVars, campaignVars>>

Spec == Init /\ [][Next]_vars

\* The names a and b, which the focuses share, are interchangeable in each of them.
Interchangeable == Permutations({a1, a2}) \cup Permutations({b1, b2})
===============================================================================
