------------------------------- MODULE DodoFunds -------------------------------
(* What becomes of one deposit made through Dodo: its events reach             *)
(* apps/api/src/payout/dodo-webhook.controller.ts, which records a delivery    *)
(* before it handles it and claims nothing: a delivery seen before, the        *)
(* reclaim cron's included, is handled again, next to any that still runs.     *)
EXTENDS Integers, FiniteSets

CONSTANTS Refunds,      \* refunds of the payment, each of one unit
          Disputes,     \* disputes of the payment, each of one unit
          Handlers,     \* webhook invocations in flight
          Deposit,      \* units paid
          MaxRepeats,   \* bound on the deliveries of an event after the first
          MaxDeaths     \* bound on handlers that die

VARIABLES paid, refunded, dispute,    \* what happened at Dodo
          leaver,       \* has the advertiser's user been restricted or deleted
          credit,       \* the deposit's advertiser_ledger row
          booked,       \* does that row exist
          refundRow,    \* advertiser refund rows of refunds
          hold,         \* dispute hold rows: "none", "held", "reversed"
          restored, writtenOff,       \* how many rows settle each dispute
          cash, cashRefund, cashLost, \* platform_ledger rows of bucket cash
          event,        \* webhook_events: "none", "pending", "processed", "review"
          repeats, job, deaths

dodo  == <<paid, refunded, dispute, leaver>>
rows  == <<credit, booked, refundRow, hold, restored, writtenOff>>
books == <<cash, cashRefund, cashLost>>
vars  == <<dodo, rows, books, event, repeats, job, deaths>>

Events == {<<"deposit">>} \cup ({"refund"} \X Refunds)
          \cup ({"opened", "resolved"} \X Disputes)
Deposited == <<"deposit">>
Idle   == [at |-> "idle", event |-> Deposited]
Outcomes == {"won", "lost"}

TypeOK ==
  /\ refunded \subseteq Refunds /\ dispute \in [Disputes -> {"none", "open"} \cup Outcomes]
  /\ credit \in 0..Deposit /\ refundRow \subseteq Refunds
  /\ hold \in [Disputes -> {"none", "held", "reversed"}]
  /\ restored \in [Disputes -> Nat] /\ writtenOff \in [Disputes -> Nat]
  /\ cashRefund \subseteq Refunds /\ cashLost \subseteq Disputes
  /\ event \in [Events -> {"none", "pending", "processed", "review"}]
  /\ job \in [Handlers -> [at : {"idle", "credits", "cash", "finds", "debits", "reads",
                                 "freezes", "settles", "lost", "ends"}, event : Events]]

Init ==
  /\ paid = FALSE /\ refunded = {} /\ dispute = [d \in Disputes |-> "none"]
  /\ leaver = FALSE
  /\ credit = 0 /\ booked = FALSE /\ refundRow = {}
  /\ hold = [d \in Disputes |-> "none"]
  /\ restored = [d \in Disputes |-> 0] /\ writtenOff = [d \in Disputes |-> 0]
  /\ cash = FALSE /\ cashRefund = {} /\ cashLost = {}
  /\ event = [e \in Events |-> "none"] /\ repeats = [e \in Events |-> 0]
  /\ job = [h \in Handlers |-> Idle] /\ deaths = 0

In(D, states) == {d \in D : dispute[d] \in states}

\* getAdvertiserBalance: confirmed credits less confirmed refund rows, whatever
\* wrote them.
Total(f) == Cardinality({x \in Disputes \X (1..2) : x[2] <= f[x[1]]})
Balance  == credit + Total(restored) - Total(writtenOff) - Cardinality(refundRow)
-------------------------------------------------------------------------------
\* ---- Dodo and the advertiser ----

Outside == UNCHANGED <<rows, books, event, repeats, job, deaths>>
Left    == Deposit - Cardinality(refunded) - Cardinality(In(Disputes, {"open"} \cup Outcomes))

Pays == ~paid /\ paid' = TRUE /\ Outside /\ UNCHANGED <<refunded, dispute, leaver>>

IssuesRefund(r) ==
  /\ paid /\ r \notin refunded /\ Left > 0
  /\ refunded' = refunded \cup {r}
  /\ Outside /\ UNCHANGED <<paid, dispute, leaver>>

OpensDispute(d) ==
  /\ paid /\ dispute[d] = "none" /\ Left > 0
  /\ dispute' = [dispute EXCEPT ![d] = "open"]
  /\ Outside /\ UNCHANGED <<paid, refunded, leaver>>

ResolvesDispute(d, outcome) ==
  /\ dispute[d] = "open"
  /\ dispute' = [dispute EXCEPT ![d] = outcome]
  /\ Outside /\ UNCHANGED <<paid, refunded, leaver>>

OwnerLeaves == ~leaver /\ leaver' = TRUE /\ Outside /\ UNCHANGED <<paid, refunded, dispute>>
-------------------------------------------------------------------------------
\* ---- delivery ----

Happened(e) ==
  CASE e[1] = "deposit"  -> paid
    [] e[1] = "refund"   -> e[2] \in refunded
    [] e[1] = "opened"   -> dispute[e[2]] # "none"
    [] e[1] = "resolved" -> dispute[e[2]] \in Outcomes

First(e) == CASE e[1] = "deposit" -> "credits" [] e[1] = "refund"   -> "cash"
              [] e[1] = "opened"  -> "reads"   [] e[1] = "resolved" -> "finds"

\* handleWebhook records the event, or finds it recorded and handles it again
\* whatever its status; runReclaimProcessing does the same for a pending one.
Deliver(h, e) ==
  /\ Happened(e) /\ job[h] = Idle
  /\ IF event[e] = "none"
     THEN event' = [event EXCEPT ![e] = "pending"] /\ UNCHANGED repeats
     ELSE /\ repeats[e] < MaxRepeats
          /\ repeats' = [repeats EXCEPT ![e] = @ + 1]
          /\ UNCHANGED event
  /\ job' = [job EXCEPT ![h] = [at |-> First(e), event |-> e]]
  /\ UNCHANGED <<dodo, rows, books, deaths>>

At(h, e, l) == job[h].at = l /\ job[h].event = e
Goto(h, l)  == job' = [job EXCEPT ![h].at = l]
Stops(h)    == job' = [job EXCEPT ![h] = Idle]

\* A handled event is processed, unless it was put up for review meanwhile.
Finishes(h) ==
  /\ job[h].at = "ends" /\ Stops(h)
  /\ event' = [event EXCEPT ![job[h].event] = IF @ = "pending" THEN "processed" ELSE @]
  /\ UNCHANGED <<dodo, rows, books, repeats, deaths>>

\* retainForReview answers 200: the event is an operator's, not redelivered.
Retains(h) == Stops(h) /\ event' = [event EXCEPT ![job[h].event] = "review"]

HandlerDies(h) ==
  /\ job[h].at # "idle" /\ deaths < MaxDeaths
  /\ deaths' = deaths + 1 /\ Stops(h)
  /\ UNCHANGED <<dodo, rows, books, event, repeats>>
-------------------------------------------------------------------------------
\* ---- handlePaymentSuccess ----

\* The credit, once by its key; an owner who left gets none, only the cash is
\* recorded.
DepositCredits(h) ==
  /\ At(h, Deposited, "credits")
  /\ IF leaver
     THEN /\ cash' = TRUE /\ event' = [event EXCEPT ![Deposited] = "processed"]
          /\ Stops(h) /\ UNCHANGED <<credit, booked>>
     ELSE /\ credit' = IF booked THEN credit ELSE Deposit
          /\ booked' = TRUE
          /\ Goto(h, "cash") /\ UNCHANGED <<cash, event>>
  /\ UNCHANGED <<dodo, refundRow, hold, restored, writtenOff, cashRefund, cashLost,
                 repeats, deaths>>

DepositBooksCash(h) ==
  /\ At(h, Deposited, "cash")
  /\ cash' = TRUE /\ Goto(h, "ends")
  /\ UNCHANGED <<dodo, rows, cashRefund, cashLost, event, repeats, deaths>>
-------------------------------------------------------------------------------
\* ---- handleRefundSucceeded ----

RefundBooksCash(h, r) ==
  /\ At(h, <<"refund", r>>, "cash")
  /\ cashRefund' = cashRefund \cup {r} /\ Goto(h, "finds")
  /\ UNCHANGED <<dodo, rows, cash, cashLost, event, repeats, deaths>>

\* A refund next to an open hold is left to an operator.
RefundFindsHolds(h, r) ==
  /\ At(h, <<"refund", r>>, "finds")
  /\ IF \E d \in Disputes : hold[d] = "held"
     THEN Retains(h) ELSE Goto(h, "debits") /\ UNCHANGED event
  /\ UNCHANGED <<dodo, rows, books, repeats, deaths>>

\* Without a deposit row only the cash is recorded.
RefundDebits(h, r) ==
  /\ At(h, <<"refund", r>>, "debits")
  /\ refundRow' = IF booked THEN refundRow \cup {r} ELSE refundRow
  /\ Goto(h, "ends")
  /\ UNCHANGED <<dodo, credit, booked, hold, restored, writtenOff, books, event, repeats,
                 deaths>>
-------------------------------------------------------------------------------
\* ---- handleDisputeOpened and handleDisputeResolved ----

OpenedReads(h, d) ==
  /\ At(h, <<"opened", d>>, "reads")
  /\ IF booked THEN Goto(h, "freezes") /\ UNCHANGED event ELSE Retains(h)
  /\ UNCHANGED <<dodo, rows, books, repeats, deaths>>

\* The decrement and the hold in one transaction, which the hold's unique key
\* aborts the second time: that delivery fails.
OpenedFreezes(h, d) ==
  /\ At(h, <<"opened", d>>, "freezes")
  /\ IF hold[d] = "none"
     THEN credit' = credit - 1 /\ hold' = [hold EXCEPT ![d] = "held"] /\ Goto(h, "ends")
     ELSE UNCHANGED <<credit, hold>> /\ Stops(h)
  /\ UNCHANGED <<dodo, booked, refundRow, restored, writtenOff, books, event, repeats,
                 deaths>>

ResolvedFinds(h, d) ==
  /\ At(h, <<"resolved", d>>, "finds")
  /\ Goto(h, IF hold[d] = "held" THEN "settles" ELSE "ends")
  /\ UNCHANGED <<dodo, rows, books, event, repeats, deaths>>

\* The settling row is keyed by the dispute and its hold; the hold's own update
\* is not looked at.
Unsettled_Assumed(d) == TRUE
Unsettled(d) == restored[d] + writtenOff[d] = 0

ResolvedSettles(h, d) ==
  /\ At(h, <<"resolved", d>>, "settles")
  /\ IF Unsettled(d)
     THEN /\ IF dispute[d] = "won"
             THEN restored' = [restored EXCEPT ![d] = @ + 1] /\ UNCHANGED writtenOff
             ELSE writtenOff' = [writtenOff EXCEPT ![d] = @ + 1] /\ UNCHANGED restored
          /\ hold' = [hold EXCEPT ![d] = "reversed"]
          /\ Goto(h, IF dispute[d] = "lost" THEN "lost" ELSE "ends")
     ELSE Stops(h) /\ UNCHANGED <<hold, restored, writtenOff>>
  /\ UNCHANGED <<dodo, credit, booked, refundRow, books, event, repeats, deaths>>

ResolvedBooksCash(h, d) ==
  /\ At(h, <<"resolved", d>>, "lost")
  /\ cashLost' = cashLost \cup {d} /\ Goto(h, "ends")
  /\ UNCHANGED <<dodo, rows, cash, cashRefund, event, repeats, deaths>>

Next ==
  \/ Pays \/ OwnerLeaves
  \/ \E r \in Refunds : IssuesRefund(r)
  \/ \E d \in Disputes : OpensDispute(d) \/ \E o \in Outcomes : ResolvesDispute(d, o)
  \/ \E h \in Handlers :
       \/ Finishes(h) \/ HandlerDies(h) \/ DepositCredits(h) \/ DepositBooksCash(h)
       \/ \E e \in Events : Deliver(h, e)
       \/ \E r \in Refunds : RefundBooksCash(h, r) \/ RefundFindsHolds(h, r) \/ RefundDebits(h, r)
       \/ \E d \in Disputes : \/ OpenedReads(h, d) \/ OpenedFreezes(h, d) \/ ResolvedFinds(h, d)
                              \/ ResolvedSettles(h, d) \/ ResolvedBooksCash(h, d)
-------------------------------------------------------------------------------
\* However many handlers of one event overlap, die and are repeated, no unit of
\* a deposit is frozen, restored or written off twice: the credit, the open
\* holds and the settled disputes add up to it (handleDisputeOpened,
\* handleDisputeResolved).
DepositIsConserved ==
  booked => credit + Cardinality({d \in Disputes : hold[d] = "held"})
            + Total(restored) + Total(writtenOff) = Deposit

\* A dispute that is lost is written off once: the advertiser is left with what
\* was paid less what Dodo gave back and what is in dispute
\* (handleDisputeResolved; nothing died and no refund is involved).
LostOnce ==
  /\ booked /\ deaths = 0 /\ refunded = {}
  /\ \A e \in Events : Happened(e) => event[e] = "processed"
  => Balance = Deposit - Cardinality(In(Disputes, {"open", "lost"}))
-------------------------------------------------------------------------------
Spec == Init /\ [][Next]_vars
===============================================================================
