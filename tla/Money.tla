--------------------------------- MODULE Money ---------------------------------
(* What moves advertisers' and developers' money, component by component: a    *)
(* deposit made through Stripe, one made through Dodo, a developer's earnings, *)
(* their forfeiture with the account, and the campaign that deposits activate. *)
(* They share no state; this module names their variables apart and says what  *)
(* holds of each.                                                              *)
EXTENDS Integers, FiniteSets

CONSTANTS Refunds, Disputes, StripeDeposit, MaxDeaths, MaxHolds, Faults,
          DodoRefunds, DodoDisputes, DodoDeposit, DodoDeaths, Handlers, MaxRepeats,
          Credits, Share, MaxRows, Payouts, Flags, NoCredit, NoFlag, NoPayout, Overlap,
          Creatives, Requests, MaxCreatives, MaxEdits, Prices,
          ErasureRows, Worth, Erasers, Threshold, Minimum, MaxAttempts

VARIABLES
  paid, refunded, dispute, owner, campaign, credit, booked, refundRow, catchUp, hold,
  restored, spent, cash, cashRefund, cashLost, flagged, event, pc, seen, deaths,
  dodoPaid, dodoRefunded, dodoDispute, leaver, dodoCredit, dodoBooked, dodoRefundRow,
  dodoHold, dodoRestored, writtenOff, dodoCash, dodoCashRefund, dodoCashLost, dodoEvent,
  repeats, dodoJob, dodoDeaths,
  row, recovery, compensated, payout, alloc, job, lock, flag, report,
  status, creative, terms, usage, funded, decisions, read, request,
  balance, withdrawal, withdrawn, destination, debt, deleted, forfeit, erasure

stripeVars == <<paid, refunded, dispute, owner, campaign, credit, booked, refundRow, catchUp,
                hold, restored, spent, cash, cashRefund, cashLost, flagged, event, pc, seen,
                deaths>>
dodoVars == <<dodoPaid, dodoRefunded, dodoDispute, leaver, dodoCredit, dodoBooked,
              dodoRefundRow, dodoHold, dodoRestored, writtenOff, dodoCash, dodoCashRefund,
              dodoCashLost, dodoEvent, repeats, dodoJob, dodoDeaths>>
earningsVars == <<row, recovery, compensated, payout, alloc, job, lock, flag, report>>
campaignVars == <<status, creative, terms, usage, funded, decisions, read, request>>
erasureVars == <<balance, withdrawal, withdrawn, destination, debt, deleted, forfeit, erasure>>

Stripe == INSTANCE StripeFunds WITH Deposit <- StripeDeposit

Dodo == INSTANCE DodoFunds WITH
  Refunds <- DodoRefunds, Disputes <- DodoDisputes, Deposit <- DodoDeposit, MaxDeaths <- DodoDeaths,
  paid <- dodoPaid, refunded <- dodoRefunded, dispute <- dodoDispute, credit <- dodoCredit,
  booked <- dodoBooked, refundRow <- dodoRefundRow, hold <- dodoHold, restored <- dodoRestored,
  cash <- dodoCash, cashRefund <- dodoCashRefund, cashLost <- dodoCashLost,
  event <- dodoEvent, job <- dodoJob, deaths <- dodoDeaths

Developer == INSTANCE Earnings WITH refunded <- compensated, debt <- recovery

Campaigns == INSTANCE CampaignReview WITH Amounts <- Prices, job <- request

Erasure == INSTANCE AccountErasure WITH
  Rows <- ErasureRows, row <- balance, payout <- withdrawal, alloc <- withdrawn, account <- destination,
  cash <- forfeit, job <- erasure
-------------------------------------------------------------------------------
\* A deposit is counted in units, and its disputes are finitely many.
StripeUnits == StripeDeposit \in Nat /\ MaxHolds \in Nat /\ IsFiniteSet(Disputes)
DodoUnits   == DodoDeposit \in Nat /\ IsFiniteSet(DodoDisputes)

\* The names that stand for none are none of the names; shares are units of money.
EarningsNames == /\ NoCredit \notin Credits /\ NoPayout \notin Payouts /\ MaxRows \in Nat
                 /\ Share \in [Credits -> Nat] /\ Overlap \in BOOLEAN

\* Rows are worth units of money.
ErasureUnits == Threshold \in Nat /\ IsFiniteSet(ErasureRows) /\ Worth \in [ErasureRows -> Nat]

ASSUME MoneyAssumption == StripeUnits /\ DodoUnits /\ EarningsNames /\ ErasureUnits
-------------------------------------------------------------------------------
\* A Stripe deposit is never worth more than was paid (handleRefund,
\* handleDisputeClosed).
NothingFromNothing == Stripe!NothingFromNothing

\* A Stripe deposit, its disputes and the cash rows agree once every event is
\* processed (stripe-webhook.controller).
BooksSettle == Stripe!BooksSettle

\* No unit of a Dodo deposit is frozen, restored or written off twice
\* (handleDisputeOpened, handleDisputeResolved).
DepositIsConserved == Dodo!DepositIsConserved

\* A lost Dodo dispute is written off once (handleDisputeResolved).
LostOnce == Dodo!LostOnce

\* Rows add up to the credits they split, allocations to the payouts they are
\* for (allocatePayoutEarnings).
LedgerAddsUp == Developer!LedgerAddsUp

\* A payout retires rows worth what it paid (markPayoutPaid).
PaidIsAllocated == Developer!PaidIsAllocated

\* A refund reaches every part of its credit (reverseEarnings).
RefundIsRecorded == Developer!RefundIsRecorded

\* A submitted campaign is decided once (approveCampaign, rejectCampaign).
OneDecision == Campaigns!OneDecision

\* No late request puts a campaign live that is archived, rejected or in draft
\* (approveCreative, resumeCampaign).
NoResurrection == Campaigns!NoResurrection

\* The platform books what an erasure takes from a developer, and nothing else
\* (eraseAccountIdentity).
ForfeitIsBooked == Erasure!ForfeitIsBooked
===============================================================================
