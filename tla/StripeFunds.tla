------------------------------ MODULE StripeFunds ------------------------------
(* What becomes of one deposit made through Stripe: the payment, its refunds   *)
(* and its disputes reach apps/api/src/payout/stripe-webhook.controller.ts as  *)
(* events, which Stripe delivers at least once and in any order. The handler   *)
(* of an event runs in steps, each a transaction, and may die between two of   *)
(* them; its row in webhook_events is then reclaimed and the event handled     *)
(* again.                                                                      *)
EXTENDS Integers, FiniteSets

CONSTANTS Refunds,      \* Stripe refunds of the payment, each of one unit
          Disputes,     \* Stripe disputes of the payment, each of one unit
          Deposit,      \* units paid
          MaxDeaths,    \* bound on handlers that die
          MaxHolds,     \* bound on a dispute's holds of restored credits
          Faults        \* "concurrent": handlers of different events overlap;
                        \* "overtake": a refund's event may overtake the deposit's,
                        \* "disorder": a dispute's events come in any order

VARIABLES paid, refunded, dispute,       \* what happened at Stripe
          owner,        \* the advertiser's user: "active" or "inactive"
          campaign,     \* an approved campaign waiting for money, or "active"
          credit,       \* the deposit's advertiser_ledger row, 0 before it exists
          booked,       \* does that row exist
          refundRow, catchUp, \* advertiser refund rows, by the refund they are for
          hold,         \* dispute hold rows: "none", "held", "reversed"
          restored,     \* holds whose won-restore credit exists
          spent,        \* those among them whose credit another hold has taken
          cash, cashRefund, cashLost,    \* platform_ledger rows of bucket cash
          flagged,      \* disputes with a fraud flag
          event,        \* webhook_events: "none", "pending", "processing", "processed"
          pc, seen,     \* each handler's next step and what it has read
          deaths

stripe  == <<paid, refunded, dispute, owner>>
ledger  == <<credit, booked, refundRow, catchUp, hold, restored, spent>>
books   == <<cash, cashRefund, cashLost>>
vars    == <<stripe, campaign, ledger, books, flagged, event, pc, seen, deaths>>

Events == {<<"deposit">>} \cup ({"refund"} \X Refunds)
          \cup ({"opened", "closed"} \X Disputes)
Deposited == <<"deposit">>

\* A dispute's holds: number 0 is on the deposit's credit row, the others are on credits
\* that a won dispute restored, one at most for every delivery of its opening.
Holds    == Disputes \X (0..MaxHolds)
First(d) == <<d, 0>>
Of(d)    == {d} \X (0..MaxHolds)

TypeOK ==
  /\ refunded \subseteq Refunds
  /\ dispute \in [Disputes -> {"none", "open", "won", "lost", "warned"}]
  /\ credit \in 0..Deposit
  /\ refundRow \in [Refunds -> 0..1] /\ catchUp \subseteq Refunds
  /\ hold \in [Holds -> {"none", "held", "reversed"}]
  /\ restored \subseteq Holds /\ spent \subseteq restored
  /\ cashLost \subseteq Holds /\ flagged \subseteq Disputes
  /\ cash \in BOOLEAN /\ cashRefund \subseteq Refunds
  /\ event \in [Events -> {"none", "pending", "processing", "processed"}]
  /\ seen \in [Events -> [found : BOOLEAN, holds : SUBSET Holds]]

Nothing == [found |-> FALSE, holds |-> {}]

Init ==
  /\ paid = FALSE /\ refunded = {} /\ dispute = [d \in Disputes |-> "none"]
  /\ owner = "active" /\ campaign = "approved"
  /\ credit = 0 /\ booked = FALSE
  /\ refundRow = [r \in Refunds |-> 0] /\ catchUp = {}
  /\ hold = [h \in Holds |-> "none"] /\ restored = {} /\ spent = {}
  /\ cash = FALSE /\ cashRefund = {} /\ cashLost = {} /\ flagged = {}
  /\ event = [e \in Events |-> "none"]
  /\ pc = [e \in Events |-> "idle"] /\ seen = [e \in Events |-> Nothing]
  /\ deaths = 0

\* getAdvertiserBalance: confirmed credits less confirmed refunds.
Balance == credit + Cardinality(restored \ spent) - Cardinality(catchUp)
           - Cardinality({r \in Refunds : refundRow[r] = 1})
-------------------------------------------------------------------------------
\* ---- Stripe and the advertiser ----

Pays ==
  /\ ~paid /\ paid' = TRUE
  /\ UNCHANGED <<refunded, dispute, owner, campaign, ledger, books, flagged, event, pc,
                 seen, deaths>>

\* Stripe gives back, by refund or by dispute, no more than was paid; what a dispute did
\* not cost in the end may be disputed and refunded again.
Left == Deposit - Cardinality(refunded)
        - Cardinality({d \in Disputes : dispute[d] \in {"open", "lost"}})

IssuesRefund(r) ==
  /\ paid /\ r \notin refunded /\ Left > 0
  /\ refunded' = refunded \cup {r}
  /\ UNCHANGED <<paid, dispute, owner, campaign, ledger, books, flagged, event, pc, seen,
                 deaths>>

OpensDispute(d) ==
  /\ paid /\ dispute[d] = "none" /\ Left > 0
  /\ dispute' = [dispute EXCEPT ![d] = "open"]
  /\ UNCHANGED <<paid, refunded, owner, campaign, ledger, books, flagged, event, pc, seen,
                 deaths>>

\* An inquiry, which takes no money, closes as warning_closed.
ClosesDispute(d, outcome) ==
  /\ dispute[d] = "open"
  /\ dispute' = [dispute EXCEPT ![d] = outcome]
  /\ UNCHANGED <<paid, refunded, owner, campaign, ledger, books, flagged, event, pc, seen,
                 deaths>>

OwnerLeaves ==
  /\ owner = "active" /\ owner' = "inactive"
  /\ UNCHANGED <<paid, refunded, dispute, campaign, ledger, books, flagged, event, pc, seen,
                 deaths>>
-------------------------------------------------------------------------------
\* ---- delivery, claim and reclaim ----

Happened(e) ==
  CASE e[1] = "deposit" -> paid
    [] e[1] = "refund"  -> e[2] \in refunded
    [] e[1] = "opened"  -> dispute[e[2]] # "none"
    [] e[1] = "closed"  -> dispute[e[2]] \in {"won", "lost", "warned"}

InOrder(e) ==
  /\ e[1] = "refund" /\ "overtake" \notin Faults => event[Deposited] = "processed"
  /\ e[1] = "opened" /\ "disorder" \notin Faults => event[Deposited] = "processed"
  /\ e[1] = "closed" /\ "disorder" \notin Faults => event[<<"opened", e[2]>>] = "processed"

FirstStep(e) == CASE e[1] = "deposit" -> "credits" [] e[1] = "refund" -> "reads"
                  [] e[1] = "opened" -> "freezes"  [] e[1] = "closed" -> "finds"

\* handleWebhook inserts the row or finds it, and claims it by compare-and-set:
\* a pending row, or one left in processing by a handler that died.
Deliver(e) ==
  /\ Happened(e) /\ InOrder(e)
  /\ event[e] # "processed" /\ pc[e] = "idle"
  /\ "concurrent" \in Faults \/ \A f \in Events : pc[f] = "idle"
  /\ event' = [event EXCEPT ![e] = "processing"]
  /\ pc' = [pc EXCEPT ![e] = FirstStep(e)]
  /\ seen' = [seen EXCEPT ![e] = Nothing]
  /\ UNCHANGED <<stripe, campaign, ledger, books, flagged, deaths>>

\* A handler that throws puts its row back to pending.
Throws(e) ==
  /\ event' = [event EXCEPT ![e] = "pending"]
  /\ pc' = [pc EXCEPT ![e] = "idle"]

HandlerDies(e) ==
  /\ pc[e] # "idle" /\ deaths < MaxDeaths
  /\ deaths' = deaths + 1
  /\ pc' = [pc EXCEPT ![e] = "idle"]
  /\ UNCHANGED <<stripe, campaign, ledger, books, flagged, event, seen>>

Goto(e, l) == pc' = [pc EXCEPT ![e] = l]
Ends(e) == Goto(e, "idle") /\ event' = [event EXCEPT ![e] = "processed"]

\* The last writes of a handler, each keyed or repeated alike by the next one.
Finishes(e) ==
  /\ pc[e] = "ends"
  /\ flagged' = IF e[1] = "opened" /\ booked THEN flagged \cup {e[2]} ELSE flagged
  /\ Ends(e)
  /\ UNCHANGED <<stripe, campaign, ledger, books, seen, deaths>>
-------------------------------------------------------------------------------
\* ---- handlePaymentSuccess ----

\* The advertiser's credit, once by its key; for an owner who is not active only
\* the cash is recorded and an operator has to refund it.
DepositCredits ==
  /\ pc[Deposited] = "credits"
  /\ IF owner = "inactive"
     THEN cash' = TRUE /\ Ends(Deposited) /\ UNCHANGED <<credit, booked>>
     ELSE /\ Goto(Deposited, IF booked THEN "cash" ELSE "catchup")
          /\ credit' = IF booked THEN credit ELSE Deposit
          /\ booked' = TRUE
          /\ UNCHANGED <<cash, event>>
  /\ UNCHANGED <<stripe, campaign, refundRow, catchUp, hold, restored, spent,
                 cashRefund, cashLost, flagged, seen, deaths>>

\* Refunds that came before the deposit have only their cash row: the handler
\* that inserted the credit debits the advertiser for them.
Overtaken_None == {}
Overtaken == cashRefund

DepositCatchesUp ==
  /\ pc[Deposited] = "catchup"
  /\ catchUp' = catchUp \cup Overtaken
  /\ Goto(Deposited, "cash")
  /\ UNCHANGED <<stripe, campaign, credit, booked, refundRow, hold, restored, spent,
                 books, flagged, event, seen, deaths>>

DepositBooksCash ==
  /\ pc[Deposited] = "cash"
  /\ cash' = TRUE
  /\ campaign' = IF Balance > 0 THEN "active" ELSE campaign
  /\ Goto(Deposited, "ends")
  /\ UNCHANGED <<stripe, ledger, cashRefund, cashLost, flagged, event, seen, deaths>>
-------------------------------------------------------------------------------
\* ---- handleRefund ----

RefundReads(r) == LET e == <<"refund", r>> IN
  /\ pc[e] = "reads"
  /\ seen' = [seen EXCEPT ![e].found = booked]
  /\ Goto(e, "cash")
  /\ UNCHANGED <<stripe, campaign, ledger, books, flagged, event, deaths>>

\* Stripe's cash is out whatever the advertiser's side says.
RefundBooksCash(r) == LET e == <<"refund", r>> IN
  /\ pc[e] = "cash"
  /\ cashRefund' = cashRefund \cup {r}
  /\ Goto(e, IF seen[e].found THEN "holds" ELSE "ends")
  /\ UNCHANGED <<stripe, campaign, ledger, cash, cashLost, flagged, event, seen, deaths>>

RefundReadsHolds(r) == LET e == <<"refund", r>> IN
  /\ pc[e] = "holds"
  /\ seen' = [seen EXCEPT ![e].holds = {h \in Holds : hold[h] = "held"}]
  /\ Goto(e, "restores")
  /\ UNCHANGED <<stripe, campaign, ledger, books, flagged, event, deaths>>

\* A refund supersedes an open dispute: the held unit goes back to the deposit,
\* wherever it was taken, and the hold is retired, in one transaction.
RefundRestores(r, h) == LET e == <<"refund", r>> IN
  /\ pc[e] = "restores" /\ h \in seen[e].holds
  /\ credit' = credit + 1 /\ hold' = [hold EXCEPT ![h] = "reversed"]
  /\ seen' = [seen EXCEPT ![e].holds = @ \ {h}]
  /\ UNCHANGED <<stripe, campaign, booked, refundRow, catchUp, restored, spent, books,
                 flagged, event, pc, deaths>>

\* The refund row, once by its key, of what is left of the deposit.
RefundDebits(r) == LET e == <<"refund", r>> IN
  /\ pc[e] = "restores" /\ seen[e].holds = {}
  /\ refundRow' = [refundRow EXCEPT ![r] = IF @ = 1 \/ credit > 0 THEN 1 ELSE 0]
  /\ Goto(e, "ends")
  /\ UNCHANGED <<stripe, campaign, credit, booked, catchUp, hold, restored, spent,
                 books, flagged, event, seen, deaths>>
-------------------------------------------------------------------------------
\* ---- handleDispute and handleDisputeClosed ----

\* The hold and the decrement commit together.
TakesUnit_Orphan(d) == UNCHANGED credit /\ hold' = [hold EXCEPT ![First(d)] = "held"]
TakesUnit(d) == credit' = credit - 1 /\ hold' = [hold EXCEPT ![First(d)] = "held"]

Freezable(d) == booked /\ credit > 0 /\ hold[First(d)] = "none"
Unused(d)    == {h \in Of(d) \ {First(d)} : hold[h] = "none"}

\* The dispute's unit is taken of the credit of this payment that the read, which has no
\* order, lists first: the deposit's row, once by the key of dispute and row, or one that
\* a won dispute restored, which no earlier delivery can have taken. A row with nothing
\* left ends the walk, and one that was taken for this dispute before stands for it.
Freezes(d) ==
  \/ Freezable(d) /\ TakesUnit(d) /\ UNCHANGED spent
  \/ \E c \in restored \ spent, h \in Unused(d) :
       /\ \A g \in Unused(d) : h[2] <= g[2]
       /\ spent' = spent \cup {c} /\ hold' = [hold EXCEPT ![h] = "held"]
       /\ UNCHANGED credit
  \/ /\ ~Freezable(d) \/ spent # {}
     /\ UNCHANGED <<credit, hold, spent>>

DisputeFreezes(d) == LET e == <<"opened", d>> IN
  /\ pc[e] = "freezes" /\ Freezes(d)
  /\ Goto(e, "ends")
  /\ UNCHANGED <<stripe, campaign, booked, refundRow, catchUp, restored, books, flagged,
                 event, seen, deaths>>

HeldOf(d) == {h \in Of(d) : hold[h] = "held"}

CloseFinds(d) == LET e == <<"closed", d>> IN
  /\ pc[e] = "finds"
  /\ seen' = [seen EXCEPT ![e].holds = HeldOf(d)]
  /\ Goto(e, IF HeldOf(d) = {} THEN "ends" ELSE "settles")
  /\ UNCHANGED <<stripe, campaign, ledger, books, flagged, event, deaths>>

\* The hold is claimed by compare-and-set first: whoever finds it settled throws. What was
\* not won is written off, an inquiry that took no money too.
CloseSettles(d, h) == LET e == <<"closed", d>> IN
  /\ pc[e] = "settles" /\ h \in seen[e].holds
  /\ IF hold[h] = "held"
     THEN /\ hold' = [hold EXCEPT ![h] = "reversed"]
          /\ IF dispute[d] = "won"
             THEN restored' = restored \cup {h} /\ UNCHANGED cashLost
             ELSE cashLost' = cashLost \cup {h} /\ UNCHANGED restored
          /\ seen' = [seen EXCEPT ![e].holds = @ \ {h}]
          /\ Goto(e, IF seen[e].holds = {h} THEN "ends" ELSE "settles") /\ UNCHANGED event
     ELSE Throws(e) /\ UNCHANGED <<hold, restored, cashLost, seen>>
  /\ UNCHANGED <<stripe, campaign, credit, booked, refundRow, catchUp, spent, cash,
                 cashRefund, flagged, deaths>>

Next ==
  \/ Pays \/ OwnerLeaves
  \/ DepositCredits \/ DepositCatchesUp \/ DepositBooksCash
  \/ \E e \in Events : Deliver(e) \/ HandlerDies(e) \/ Finishes(e)
  \/ \E r \in Refunds :
       \/ IssuesRefund(r) \/ RefundReads(r) \/ RefundBooksCash(r)
       \/ RefundReadsHolds(r) \/ RefundDebits(r)
       \/ \E h \in Holds : RefundRestores(r, h)
  \/ \E d \in Disputes :
       \/ OpensDispute(d) \/ DisputeFreezes(d) \/ CloseFinds(d)
       \/ \E h \in Of(d) : CloseSettles(d, h)
       \/ \E outcome \in {"won", "lost", "warned"} : ClosesDispute(d, outcome)
-------------------------------------------------------------------------------
\* What the advertiser has of the deposit, or may get back of it.
DepositWorth == credit + Cardinality(restored \ spent) + Cardinality({h \in Holds : hold[h] = "held"})

\* However often its events are delivered and its handlers die, a deposit is
\* never worth more than was paid: what the disputes hold back and give back was
\* taken from it before (handleRefund, handleDisputeClosed).
NothingFromNothing == DepositWorth <= Deposit

\* Whichever handlers overlap, after its credit a deposit becomes worth more in one way
\* only: a refund gives back the unit of a hold that is not held any more, which
\* handleRefund does not look at again before it increments.
OnlyStaleHoldsAdd ==
  [][DepositWorth' > DepositWorth =>
       \/ ~booked /\ booked'
       \/ \E r \in Refunds, h \in Holds : hold[h] # "held" /\ RefundRestores(r, h)]_vars

Settled    == \A e \in Events : Happened(e) => event[e] = "processed"
Superseded == \E h \in Holds : hold[h] = "reversed" /\ h \notin restored \cup cashLost
Regained   == {d \in Disputes : dispute[d] \in {"won", "warned"}}

\* A unit that a dispute did not cost in the end is disputed or refunded again.
Reclaimed == spent # {} \/ Left < Cardinality(Regained)

\* Once every event is processed the advertiser has what was paid less what
\* Stripe gave back and what is in dispute, and the cash rows say what Stripe
\* holds, in whatever order refunds and deposit came. Refunds issued over an open dispute,
\* what is given back again after a dispute, and inquiries are left out.
BooksSettle ==
  Settled /\ booked /\ ~Superseded /\ ~Reclaimed /\ (\A d \in Disputes : dispute[d] # "warned") =>
    /\ Balance = Left
    /\ cash /\ cashRefund = refunded
    /\ cashLost = {First(d) : d \in {e \in Disputes : dispute[e] = "lost"}}
-------------------------------------------------------------------------------
Spec == Init /\ [][Next]_vars
===============================================================================
