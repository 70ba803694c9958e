--------------------------- MODULE PayoutSettlement ---------------------------
(***************************************************************************)
(* What the payout flow promises, with workers, fences, webhooks and cron  *)
(* left out.  A payout is a claim on earnings and an amount of money:      *)
(*                                                                         *)
(*   - the money leaves the platform at most once;                         *)
(*   - the claim is settled (earnings spent) only once the money has       *)
(*     arrived, and released (earnings available again) only once it is    *)
(*     certain that the money is at home;                                  *)
(*   - neither decision is ever taken back, and no money leaves after it.  *)
(***************************************************************************)
CONSTANT Payouts

VARIABLES
  claim,   \* what the books say of the payout's earnings
  money    \* where the payout's money is

Claims == {"none", "reserved", "settled", "released"}

\* "back": it was sent and returned, or was never accepted; it is not sent again.
Places == {"home", "away", "out", "back"}

Init ==
  /\ claim = [p \in Payouts |-> "none"]
  /\ money = [p \in Payouts |-> "home"]

Move(p, from, to) == money[p] \in from /\ money' = [money EXCEPT ![p] = to]
Turn(p, from, to) == claim[p] = from /\ claim' = [claim EXCEPT ![p] = to]

Reserve(p) == Turn(p, "none", "reserved") /\ UNCHANGED money

\* Only the money of a reserved payout leaves, and only once.
Send(p) == claim[p] = "reserved" /\ Move(p, {"home"}, "away") /\ UNCHANGED claim

Arrive(p)  == Move(p, {"away"}, "out") /\ UNCHANGED claim
ComeBack(p) == Move(p, {"away"}, "back") /\ UNCHANGED claim

\* An operator pays by hand and books it.
PayByHand(p) == Turn(p, "reserved", "settled") /\ Move(p, {"home"}, "out")

Settle(p)  == Turn(p, "reserved", "settled") /\ money[p] = "out" /\ UNCHANGED money
Release(p) == Turn(p, "reserved", "released") /\ money[p] \in {"home", "back"} /\ UNCHANGED money

Next ==
  \E p \in Payouts :
    \/ Reserve(p) \/ Send(p) \/ Arrive(p) \/ ComeBack(p)
    \/ PayByHand(p) \/ Settle(p) \/ Release(p)

Spec == Init /\ [][Next]_<<claim, money>>
===============================================================================
