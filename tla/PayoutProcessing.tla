--------------------------- MODULE PayoutProcessing ---------------------------
(***************************************************************************)
(* The life of developer payouts: requests, the operators who review them, *)
(* the processPayout invocations that call an external provider, the       *)
(* provider itself, the polling cron and the Stripe webhook.               *)
(*                                                                         *)
(* Every database transaction of the code is one action; a provider call,  *)
(* which the code makes outside any transaction, is several.  All payouts  *)
(* belong to one developer: each lock the code takes is per user, and      *)
(* developers share nothing else here.  Amounts and the individual         *)
(* earnings rows are left out; the rows allocated to a payout have one     *)
(* common status, that of the worst of them, which is what every check of  *)
(* the payout code asks about.                                             *)
(*                                                                         *)
(* An operator with an underscore, Claimable_NoCas say, is a mutant: what  *)
(* the operator defined right after it would be with a plausible bug.      *)
(***************************************************************************)
EXTENDS Naturals, FiniteSets

CONSTANTS
  Payouts,    \* payout requests
  Accounts,   \* payout destinations of the developer
  Workers,    \* invocations of processPayout, each serving at most one claim
  NoPayout,   \* the null value of initiationPayoutId and of an idle worker
  NoAccount,  \* the destination of a payout not requested yet
  Provider,   \* Provider[a]: "manual", "psp" (PayPal, Wise) or "stripe"
  Env         \* the disturbances this instance exercises

Disturbances ==
  {"crash", "timeout", "dberror", "fraud", "forfeit", "report", "freeze", "methods",
   "release", "latefailure", "failedcreate"}

ASSUME PayoutAssumption ==
  /\ NoPayout \notin Payouts
  /\ NoAccount \notin Accounts
  /\ Provider \in [Accounts -> {"manual", "psp", "stripe"}]
  /\ Env \subseteq Disturbances

VARIABLES
  status,    \* payoutRequest.status; "none" before the request exists
  dest,      \* payoutRequest.payoutAccountId
  rows,      \* status of the allocated earnings rows; "none": not allocated
  debt,      \* a recovery debit was recorded against the payout's paid rows
  txn,       \* the payoutTransaction row processPayout creates
  cash,      \* platform cash-bucket rows keyed by the payout
  active, verified, frozen,   \* payoutAccount flags
  fence,     \* payoutAccount.initiationPayoutId
  flag,      \* severity of the developer's active fraud flag
  pc, job,   \* a worker's place in processPayout and its payout
  call,      \* state of the worker's provider.initiate promise
  remote,    \* what the provider has really done for the payout
  inbox,     \* Stripe events not processed yet
  hook,      \* progress of the payout.failed handler
  seen,      \* what the cron's checkStatus returned and has not applied yet
  noted      \* fence value an operator's releasePayoutFence has read

requestVars == <<status, dest, rows, debt>>
bookVars    == <<txn, cash>>
accountVars == <<active, verified, frozen, fence>>
workerVars  == <<pc, job, call>>
remoteVars  == <<remote, inbox>>
viewVars    == <<hook, seen, noted>>
vars == <<requestVars, bookVars, accountVars, flag, workerVars, remoteVars, viewVars>>

-------------------------------------------------------------------------------
\* draft, under_review and cancelled exist in the schema; no code writes them.
Status   == {"none", "requested", "approved", "processing", "paid", "failed", "rejected"}
Reserved == {"requested", "approved", "processing"}
Terminal == {"paid", "failed", "rejected"}

RowStatus == {"none", "confirmed", "held", "reversed", "paid"}

\* "placeholder" and "bound" are the processing row before and after the
\* provider's transaction id replaced initiate_pending_<id>; "void" is a failed row
\* that never got one.
TxnStatus == {"none", "placeholder", "bound", "paid", "failed", "void"}

\* "funded": the Stripe transfer reached the connected account, no bank payout
\* exists.  "bankfailed": the bank payout bounced back to that account.
RemoteStatus == {"none", "funded", "pending", "paid", "bankfailed", "returned"}

PC == {"idle", "claimed", "waiting", "bind", "paying", "failing", "closing",
       "finally", "done", "crashed"}

\* leg1: the (first) remote request is on the wire; leg2, reverse: Stripe's
\* payouts.create and transfers.createReversal; dead: answered to nobody.
OpenCall == {"leg1", "leg2", "reverse"}
Call     == OpenCall \cup {"none", "ok", "okpaid", "failed", "safe", "unsafe", "dead"}

Kind(p) == Provider[dest[p]]
MoneyOut(p) == remote[p] \in {"funded", "pending", "paid", "bankfailed"}
CallOpen(p) == \E w \in Workers : job[w] = p /\ call[w] \in OpenCall

TypeOK ==
  /\ status \in [Payouts -> Status]
  /\ dest \in [Payouts -> Accounts \cup {NoAccount}]
  /\ rows \in [Payouts -> RowStatus]
  /\ debt \in [Payouts -> BOOLEAN]
  /\ txn \in [Payouts -> TxnStatus]
  /\ cash \in [Payouts -> SUBSET {"debit", "reclaim"}]
  /\ active \in [Accounts -> BOOLEAN]
  /\ verified \in [Accounts -> BOOLEAN]
  /\ frozen \in [Accounts -> BOOLEAN]
  /\ fence \in [Accounts -> Payouts \cup {NoPayout}]
  /\ flag \in {"clear", "high", "critical"}
  /\ pc \in [Workers -> PC]
  /\ job \in [Workers -> Payouts \cup {NoPayout}]
  /\ call \in [Workers -> Call]
  /\ remote \in [Payouts -> RemoteStatus]
  /\ inbox \subseteq Payouts \X {"paid", "failed"}
  /\ hook \in [Payouts -> {"idle", "frozen", "reversed"}]
  /\ seen \in [Payouts -> {"none", "paid", "failed"}]
  /\ noted \in [Accounts -> Payouts \cup {NoPayout}]

Init ==
  /\ status = [p \in Payouts |-> "none"]
  /\ dest = [p \in Payouts |-> NoAccount]
  /\ rows = [p \in Payouts |-> "none"]
  /\ debt = [p \in Payouts |-> FALSE]
  /\ txn = [p \in Payouts |-> "none"]
  /\ cash = [p \in Payouts |-> {}]
  /\ active = [a \in Accounts |-> TRUE]
  /\ verified \in [Accounts -> BOOLEAN]
  /\ frozen = [a \in Accounts |-> FALSE]
  /\ fence = [a \in Accounts |-> NoPayout]
  /\ flag = "clear"
  /\ pc = [w \in Workers |-> "idle"]
  /\ job = [w \in Workers |-> NoPayout]
  /\ call = [w \in Workers |-> "none"]
  /\ remote = [p \in Payouts |-> "none"]
  /\ inbox = {}
  /\ hook = [p \in Payouts |-> "idle"]
  /\ seen = [p \in Payouts |-> "none"]
  /\ noted = [a \in Accounts |-> NoPayout]

-------------------------------------------------------------------------------
\* The developer.

\* requestPayout: the checks repeated under the payout-account and payout-fraud
\* locks decide; allocation reserves confirmed rows in the same transaction.
RequestPayout(p, a) ==
  /\ status[p] = "none"
  /\ active[a] /\ verified[a] /\ ~frozen[a]
  /\ fence[a] = NoPayout
  /\ flag = "clear"
  /\ status' = [status EXCEPT ![p] = "requested"]
  /\ dest' = [dest EXCEPT ![p] = a]
  /\ rows' = [rows EXCEPT ![p] = "confirmed"]
  /\ UNCHANGED <<debt, bookVars, accountVars, flag, workerVars, remoteVars, viewVars>>

\* Mutant: without the lock, a request made meanwhile is not seen.
RemoveMethod_NoLock(a) ==
  /\ active[a] /\ ~frozen[a] /\ fence[a] = NoPayout
  /\ active' = [active EXCEPT ![a] = FALSE]
  /\ UNCHANGED <<requestVars, bookVars, verified, frozen, fence, flag, workerVars,
                 remoteVars, viewVars>>

\* removePayoutMethod (and the deactivation half of addPayoutMethod).
RemoveMethod(a) ==
  /\ "methods" \in Env
  /\ active[a] /\ ~frozen[a] /\ fence[a] = NoPayout
  /\ \A p \in Payouts : dest[p] = a => status[p] \notin Reserved
  /\ active' = [active EXCEPT ![a] = FALSE]
  /\ UNCHANGED <<requestVars, bookVars, verified, frozen, fence, flag, workerVars,
                 remoteVars, viewVars>>

-------------------------------------------------------------------------------
\* The operators (admin-payouts.trait.ts).

ApprovePayout(p) ==
  /\ status[p] = "requested"
  /\ status' = [status EXCEPT ![p] = "approved"]
  /\ UNCHANGED <<dest, rows, debt, bookVars, accountVars, flag, workerVars, remoteVars,
                 viewVars>>

Rejectable_Processing == {"requested", "approved", "processing"}
Rejectable == {"requested", "approved"}

RejectPayout(p) ==
  /\ status[p] \in Rejectable
  /\ status' = [status EXCEPT ![p] = "rejected"]
  /\ rows' = [rows EXCEPT ![p] = "none"]
  /\ UNCHANGED <<dest, debt, bookVars, accountVars, flag, workerVars, remoteVars, viewVars>>

SetAccountVerified(a) ==
  /\ \E v \in BOOLEAN : v # verified[a] /\ verified' = [verified EXCEPT ![a] = v]
  /\ "methods" \in Env
  /\ UNCHANGED <<requestVars, bookVars, active, frozen, fence, flag, workerVars,
                 remoteVars, viewVars>>

FreezeAccount_IgnoresFence(a) ==
  /\ "freeze" \in Env
  /\ ~frozen[a]
  /\ frozen' = [frozen EXCEPT ![a] = TRUE]
  /\ UNCHANGED <<requestVars, bookVars, active, verified, fence, flag, workerVars,
                 remoteVars, viewVars>>

FreezeAccount(a) ==
  /\ "freeze" \in Env
  /\ ~frozen[a] /\ fence[a] = NoPayout
  /\ frozen' = [frozen EXCEPT ![a] = TRUE]
  /\ UNCHANGED <<requestVars, bookVars, active, verified, fence, flag, workerVars,
                 remoteVars, viewVars>>

UnfreezeAccount(a) ==
  /\ frozen[a]
  /\ frozen' = [frozen EXCEPT ![a] = FALSE]
  /\ UNCHANGED <<requestVars, bookVars, active, verified, fence, flag, workerVars,
                 remoteVars, viewVars>>

\* releasePayoutFence reads the account before its transaction ...
ReadFence(a) ==
  /\ "release" \in Env
  /\ noted[a] = NoPayout /\ fence[a] # NoPayout
  /\ noted' = [noted EXCEPT ![a] = fence[a]]
  /\ UNCHANGED <<requestVars, bookVars, accountVars, flag, workerVars, remoteVars,
                 hook, seen>>

\* ... checks the payout it saw inside it, and clears whatever fence is there.
ReleaseFence(a) ==
  /\ noted[a] # NoPayout
  /\ fence' = IF status[noted[a]] \in Terminal THEN [fence EXCEPT ![a] = NoPayout] ELSE fence
  /\ noted' = [noted EXCEPT ![a] = NoPayout]
  /\ UNCHANGED <<requestVars, bookVars, active, verified, frozen, flag, workerVars,
                 remoteVars, hook, seen>>

-------------------------------------------------------------------------------
\* The two terminal transitions, shared by every caller (payout-request.trait.ts).

\* Mutant: the null of another column.
FenceCleared_WrongNull(p) == [a \in Accounts |-> IF fence[a] = p THEN NoAccount ELSE fence[a]]
FenceCleared(p) == [a \in Accounts |-> IF fence[a] = p THEN NoPayout ELSE fence[a]]

\* Mutant: the earnings update is not checked afterwards.
MarkPaid_NoPostCheck(p, payable, row) ==
  /\ status[p] \in {"approved", "processing"}
  /\ status' = [status EXCEPT ![p] = "paid"]
  /\ rows' = IF rows[p] \in payable THEN [rows EXCEPT ![p] = "paid"] ELSE rows
  /\ txn' = [txn EXCEPT ![p] = row]
  /\ cash' = [cash EXCEPT ![p] = @ \cup {"debit"}]
  /\ fence' = FenceCleared(p)

\* markPayoutPaid's transaction.  payable: the row statuses the caller's earlier
\* read of the payout allows; row: the transaction row that carries the caller's
\* provider id, an operator's own id giving a row of its own.
MarkPaid(p, payable, row) ==
  /\ status[p] \in {"approved", "processing"}
  /\ rows[p] \in payable
  /\ status' = [status EXCEPT ![p] = "paid"]
  /\ rows' = [rows EXCEPT ![p] = "paid"]
  /\ txn' = [txn EXCEPT ![p] = row]
  /\ cash' = [cash EXCEPT ![p] = @ \cup {"debit"}]
  /\ fence' = FenceCleared(p)

\* The replay of markPayoutPaid on a paid payout.
RepeatPaid(p) ==
  /\ status[p] = "paid"
  /\ cash' = [cash EXCEPT ![p] = @ \cup {"debit"}]
  /\ fence' = FenceCleared(p)
  /\ UNCHANGED <<status, rows, txn>>

Payable_ConfirmedOnly(seenStatus) == {"confirmed"}

\* A processing payout may settle rows that a fraud hold reached meanwhile.
Payable(seenStatus) == IF seenStatus = "processing" THEN {"confirmed", "held"} ELSE {"confirmed"}

Compensated_Never(p) == cash

\* A Stripe debit booked at initiation is taken back when the payout fails.
Compensated(p) ==
  IF Kind(p) = "stripe" /\ "debit" \in cash[p]
  THEN [cash EXCEPT ![p] = @ \cup {"reclaim"}] ELSE cash

FailedRow(p) == IF txn[p] = "placeholder" THEN "void" ELSE "failed"

\* Mutant: the status is not part of the update's condition.
MarkFailed_NoCas(p) ==
  /\ status' = [status EXCEPT ![p] = "failed"]
  /\ rows' = [rows EXCEPT ![p] = "none"]
  /\ txn' = [txn EXCEPT ![p] = FailedRow(p)]
  /\ cash' = Compensated(p)
  /\ fence' = FenceCleared(p)

\* markPayoutFailed's transaction.
MarkFailed(p) ==
  /\ status[p] \in {"approved", "processing"}
  /\ status' = [status EXCEPT ![p] = "failed"]
  /\ rows' = [rows EXCEPT ![p] = "none"]
  /\ txn' = [txn EXCEPT ![p] = FailedRow(p)]
  /\ cash' = Compensated(p)
  /\ fence' = FenceCleared(p)

RepeatFailed(p) ==
  /\ status[p] = "failed"
  /\ fence' = FenceCleared(p)
  /\ UNCHANGED <<status, rows, txn, cash>>

\* What markPayoutPaid or markPayoutFailed does with p now is not an error.
Settles(p, outcome) ==
  \/ status[p] = outcome
  \/ /\ status[p] \in {"approved", "processing"}
     /\ outcome = "paid" => rows[p] \in Payable(status[p])

\* The part of the state the four transitions above leave alone.
settleRest == <<dest, debt, active, verified, frozen, flag>>

\* An operator's markPayoutPaid, its read of the payout perhaps older than another
\* transition.  The operator acts on evidence: the provider shows the payment, or
\* he has just made it himself on a manual rail.
AdminMarkPaid(p, seenStatus) ==
  /\ status[p] \in {seenStatus, "processing"}
  /\ \/ remote[p] = "paid" /\ UNCHANGED remote
     \/ /\ Kind(p) = "manual"
        /\ remote' = [remote EXCEPT ![p] = "paid"]
  /\ \E row \in {txn[p]} \cup (IF txn[p] = "bound" THEN {"paid"} ELSE {}) :
        MarkPaid(p, Payable(seenStatus), row)
  /\ UNCHANGED <<settleRest, inbox, workerVars, viewVars>>

\* The same request again.
AdminRepeatsPaid(p) ==
  /\ RepeatPaid(p)
  /\ UNCHANGED <<settleRest, workerVars, remoteVars, viewVars>>

-------------------------------------------------------------------------------
\* processPayout.

Goto(w, to) == pc' = [pc EXCEPT ![w] = to]

Claimable_NoCas(p) == status[p] \in {"approved", "processing"}
Claimable(p) == status[p] = "approved"

\* The claim transaction: approved -> processing, every check, the account
\* fence and the placeholder row commit together or not at all.
Claim(w, p) ==
  /\ pc[w] = "idle" /\ Claimable(p)
  /\ LET a == dest[p] IN
       /\ active[a] /\ verified[a] /\ ~frozen[a]
       /\ flag = "clear"
       /\ rows[p] = "confirmed"
       /\ fence[a] = NoPayout
       /\ fence' = [fence EXCEPT ![a] = p]
  /\ status' = [status EXCEPT ![p] = "processing"]
  /\ txn' = [txn EXCEPT ![p] = "placeholder"]
  /\ job' = [job EXCEPT ![w] = p]
  /\ Goto(w, "claimed")
  /\ UNCHANGED <<dest, rows, debt, cash, active, verified, frozen, flag, call,
                 remoteVars, viewVars>>

workerOnly == <<requestVars, bookVars, accountVars, flag, job, viewVars>>

\* The circuit breaker is open: the provider is never called.
BreakerRejects(w) ==
  /\ pc[w] = "claimed"
  /\ Goto(w, "closing")
  /\ UNCHANGED <<workerOnly, call, remoteVars>>

\* A manual rail answers at once and moves no money.
CallProvider(w) ==
  /\ pc[w] = "claimed"
  /\ call' = [call EXCEPT ![w] = IF Kind(job[w]) = "manual" THEN "ok" ELSE "leg1"]
  /\ Goto(w, "waiting")
  /\ UNCHANGED <<workerOnly, remoteVars>>

\* Mutant: every error of the provider releases the allocations.
Answer_UnsafeCloses(w) ==
  /\ pc[w] = "waiting"
  /\ \/ call[w] \in {"ok", "okpaid", "failed"} /\ Goto(w, "bind")
     \/ call[w] \in {"safe", "unsafe"} /\ Goto(w, "closing")
  /\ UNCHANGED <<workerOnly, call, remoteVars>>

\* The answer of provider.initiate.  "unsafe" is every error but a safe failure:
\* the fence stays and the outcome is left to reconciliation.
Answer(w) ==
  /\ pc[w] = "waiting"
  /\ \/ call[w] \in {"ok", "okpaid", "failed"} /\ Goto(w, "bind")
     \/ call[w] = "safe" /\ Goto(w, "closing")
     \/ call[w] = "unsafe" /\ Goto(w, "done")
  /\ UNCHANGED <<workerOnly, call, remoteVars>>

\* Mutant: a timeout leaves through the fence release.
Timeout_ReleasesFence(w) ==
  /\ pc[w] = "waiting"
  /\ Goto(w, "finally")
  /\ UNCHANGED <<workerOnly, call, remoteVars>>

\* withTimeout gives up; the promise it raced keeps running.
Timeout(w) ==
  /\ "timeout" \in Env
  /\ pc[w] = "waiting"
  /\ Goto(w, "done")
  /\ UNCHANGED <<workerOnly, call, remoteVars>>

\* Bind the provider's id to the placeholder; Stripe's cash leaves here.
Bind(w) ==
  /\ pc[w] = "bind"
  /\ LET p == job[w] IN
       \/ /\ txn[p] = "placeholder"
          /\ txn' = [txn EXCEPT ![p] = "bound"]
          /\ cash' = IF Kind(p) = "stripe" THEN [cash EXCEPT ![p] = @ \cup {"debit"}] ELSE cash
          /\ Goto(w, CASE call[w] = "ok" -> "finally"
                       [] call[w] = "okpaid" -> "paying"
                       [] OTHER -> "failing")
       \/ /\ txn[p] # "placeholder" \/ "dberror" \in Env
          /\ Goto(w, "done")
          /\ UNCHANGED bookVars
  /\ UNCHANGED <<requestVars, accountVars, flag, job, call, remoteVars, viewVars>>

\* initiate returned paid.  A markPayoutPaid that throws retains the fence.
WorkerPays(w) ==
  /\ pc[w] = "paying"
  /\ \/ /\ MarkPaid(job[w], Payable(status[job[w]]), "paid") \/ RepeatPaid(job[w])
        /\ Goto(w, "finally")
     \/ /\ "dberror" \in Env \/ ~Settles(job[w], "paid")
        /\ Goto(w, "done")
        /\ UNCHANGED <<status, rows, bookVars, fence>>
  /\ UNCHANGED <<settleRest, job, call, remoteVars, viewVars>>

\* initiate returned failed ("failing", whose error retains the fence), or the
\* breaker or a safe failure closed the claim ("closing", whose error does not).
WorkerFails(w) ==
  /\ pc[w] \in {"failing", "closing"}
  /\ \/ /\ MarkFailed(job[w]) \/ RepeatFailed(job[w])
        /\ Goto(w, "finally")
     \/ /\ "dberror" \in Env \/ ~Settles(job[w], "failed")
        /\ Goto(w, IF pc[w] = "failing" THEN "done" ELSE "finally")
        /\ UNCHANGED <<status, rows, bookVars, fence>>
  /\ UNCHANGED <<settleRest, job, call, remoteVars, viewVars>>

\* The finally block: release this payout's fence, or fail to and log it.
Finally(w) ==
  /\ pc[w] = "finally"
  /\ fence' = FenceCleared(job[w]) \/ ("dberror" \in Env /\ UNCHANGED fence)
  /\ Goto(w, "done")
  /\ UNCHANGED <<requestVars, bookVars, active, verified, frozen, flag, job, call,
                 remoteVars, viewVars>>

\* The API process dies, with the promise of the call; a request on the wire
\* may still reach the provider.
Crash(w) ==
  /\ "crash" \in Env
  /\ pc[w] \notin {"idle", "crashed"}
  /\ pc[w] = "done" => call[w] \in OpenCall
  /\ Goto(w, "crashed")
  /\ UNCHANGED <<workerOnly, call, remoteVars>>

-------------------------------------------------------------------------------
\* The provider (external).  An answer continues initiate() only in a live process.

Reply(w, c) == call' = [call EXCEPT ![w] = IF pc[w] = "crashed" THEN "dead" ELSE c]
Does(p, r) == remote' = [remote EXCEPT ![p] = r]

\* PayPal and Wise: one money-moving request.
PspAnswers(w) ==
  LET p == job[w] IN
  /\ call[w] = "leg1" /\ Kind(p) = "psp"
  /\ \/ Reply(w, "ok") /\ Does(p, "pending")
     \/ Reply(w, "okpaid") /\ Does(p, "paid")
     \/ Reply(w, "failed") /\ UNCHANGED remote     \* refused with a 4xx
     \/ Reply(w, "safe") /\ UNCHANGED remote       \* authentication, recipient or quote
     \/ /\ Reply(w, "unsafe")                      \* 5xx, or the answer was lost
        /\ Does(p, "pending") \/ UNCHANGED remote
  /\ UNCHANGED <<workerOnly, pc, inbox>>

\* Stripe Connect: fund the connected account, pay out from it, and take the
\* funds back if the second leg throws.
StripeTransfers(w) ==
  LET p == job[w] IN
  /\ call[w] = "leg1" /\ Kind(p) = "stripe"
  /\ \/ Reply(w, "leg2") /\ Does(p, "funded")
     \/ Reply(w, "safe") /\ UNCHANGED remote       \* destination or amount refused locally
     \/ /\ Reply(w, "unsafe")
        /\ Does(p, "funded") \/ UNCHANGED remote
  /\ UNCHANGED <<workerOnly, pc, inbox>>

StripePaysOut(w) ==
  LET p == job[w] IN
  /\ call[w] = "leg2"
  /\ \/ Reply(w, "ok") /\ Does(p, "pending")
     \/ Reply(w, "okpaid") /\ Does(p, "paid")
     \/ /\ "failedcreate" \in Env                  \* payouts.create answers status failed
        /\ Reply(w, "failed") /\ Does(p, "bankfailed")
     \/ /\ Reply(w, "reverse")                     \* threw, perhaps after taking effect
        /\ Does(p, "pending") \/ UNCHANGED remote
  /\ inbox' = IF remote'[p] = "bankfailed" THEN inbox \cup {<<p, "failed">>} ELSE inbox
  /\ UNCHANGED <<workerOnly, pc>>

StripeReverses(w) ==
  LET p == job[w] IN
  /\ call[w] = "reverse"
  /\ \/ /\ remote[p] \in {"funded", "bankfailed"}
        /\ Does(p, "returned")
        /\ Reply(w, "safe") \/ Reply(w, "unsafe")
     \/ Reply(w, "unsafe") /\ UNCHANGED remote
  /\ UNCHANGED <<workerOnly, pc, inbox>>

\* A request still on the wire when the process died may be lost.
RequestLost(w) ==
  /\ pc[w] = "crashed" /\ call[w] \in OpenCall
  /\ call' = [call EXCEPT ![w] = "dead"]
  /\ UNCHANGED <<workerOnly, pc, remoteVars>>

providerOnly == <<requestVars, bookVars, accountVars, flag, workerVars, viewVars>>

\* The transfer reaches the bank, or does not.
RemotePays(p) ==
  /\ remote[p] = "pending"
  /\ Does(p, "paid")
  /\ inbox' = IF Kind(p) = "stripe" THEN inbox \cup {<<p, "paid">>} ELSE inbox
  /\ UNCHANGED providerOnly

RemoteFails(p) ==
  /\ \/ remote[p] = "pending"
     \/ "latefailure" \in Env /\ remote[p] = "paid" /\ Kind(p) = "stripe"
  /\ Does(p, IF Kind(p) = "stripe" THEN "bankfailed" ELSE "returned")
  /\ inbox' = IF Kind(p) = "stripe" THEN inbox \cup {<<p, "failed">>} ELSE inbox
  /\ UNCHANGED providerOnly

-------------------------------------------------------------------------------
\* The cron (pollProcessingPayouts): one payout at a time, under a lease.

CheckStatus_PendingIsPaid(p) == IF remote[p] \in {"pending", "paid"} THEN "paid" ELSE "none"

\* checkStatus by the id in the latest processing row; "none" for every answer the
\* cron does not act on.  A Stripe bank failure is only "requires_review".
CheckStatus(p) ==
  CASE remote[p] = "paid" /\ Kind(p) # "manual" -> "paid"
    [] remote[p] = "returned" /\ Kind(p) = "psp" -> "failed"
    [] OTHER -> "none"

\* The placeholder id is unknown to every provider.
CronPolls(p) ==
  /\ \A q \in Payouts : seen[q] = "none"
  /\ status[p] = "processing" /\ txn[p] = "bound"
  /\ CheckStatus(p) # "none"
  /\ seen' = [seen EXCEPT ![p] = CheckStatus(p)]
  /\ UNCHANGED <<requestVars, bookVars, accountVars, flag, workerVars, remoteVars, hook, noted>>

\* Apply what was seen; an error is recorded and the next poll tries again.
CronApplies(p) ==
  /\ \/ /\ seen[p] = "paid"
        /\ MarkPaid(p, Payable(status[p]), "paid") \/ RepeatPaid(p)
     \/ seen[p] = "failed" /\ (MarkFailed(p) \/ RepeatFailed(p))
     \/ /\ seen[p] # "none"
        /\ "dberror" \in Env \/ ~Settles(p, seen[p])
        /\ UNCHANGED <<status, rows, bookVars, fence>>
  /\ seen' = [seen EXCEPT ![p] = "none"]
  /\ UNCHANGED <<settleRest, workerVars, remoteVars, hook, noted>>

-------------------------------------------------------------------------------
\* The Stripe webhook: an event leaves the inbox when it is marked processed, and
\* is delivered or reclaimed again until then.

Processed(p, kind) == inbox' = inbox \ {<<p, kind>>}
Bound(p) == txn[p] \in {"bound", "paid", "failed"}

\* handlePayoutPaid has its own settlement: confirmed rows only, fence untouched.
HookPaid(p) ==
  /\ <<p, "paid">> \in inbox
  /\ \/ /\ ~Bound(p) \/ status[p] = "paid"      \* no such transaction, or a re-delivery
        /\ UNCHANGED <<status, rows, bookVars>>
     \/ /\ Bound(p) /\ status[p] \in {"approved", "processing"}
        /\ rows[p] = "confirmed"
        /\ status' = [status EXCEPT ![p] = "paid"]
        /\ rows' = [rows EXCEPT ![p] = "paid"]
        /\ txn' = [txn EXCEPT ![p] = "paid"]
        /\ cash' = [cash EXCEPT ![p] = @ \cup {"debit"}]
  /\ Processed(p, "paid")
  /\ UNCHANGED <<settleRest, fence, workerVars, remote, viewVars>>

\* handlePayoutFailed: freeze the destination whatever its fence ...
HookFreezes(p) ==
  /\ <<p, "failed">> \in inbox /\ hook[p] = "idle"
  /\ IF Bound(p)
     THEN /\ frozen' = [frozen EXCEPT ![dest[p]] = TRUE]
          /\ hook' = [hook EXCEPT ![p] = "frozen"]
          /\ UNCHANGED inbox
     ELSE /\ Processed(p, "failed")
          /\ UNCHANGED <<frozen, hook>>
  /\ UNCHANGED <<requestVars, bookVars, active, verified, fence, flag, workerVars,
                 remote, seen, noted>>

\* Mutant: an unconfirmed reversal is taken for a reversal.
HookReverses_IgnoresError(p) ==
  /\ hook[p] = "frozen"
  /\ hook' = [hook EXCEPT ![p] = "reversed"]
  /\ UNCHANGED <<requestVars, bookVars, accountVars, flag, workerVars, remoteVars, seen, noted>>

\* ... take the funding back, or throw and leave the event for a retry ...
HookReverses(p) ==
  /\ hook[p] = "frozen"
  /\ \/ /\ remote[p] \in {"bankfailed", "returned"}
        /\ Does(p, "returned")
        /\ hook' = [hook EXCEPT ![p] = "reversed"]
     \/ hook' = [hook EXCEPT ![p] = "idle"] /\ UNCHANGED remote
  /\ UNCHANGED <<requestVars, bookVars, accountVars, flag, workerVars, inbox, seen, noted>>

\* ... and fail the payout.  Any error of markPayoutFailed ends the event too.
HookFails(p) ==
  /\ hook[p] = "reversed"
  /\ \/ MarkFailed(p) \/ RepeatFailed(p)
     \/ /\ "dberror" \in Env \/ ~Settles(p, "failed")
        /\ UNCHANGED <<status, rows, bookVars, fence>>
  /\ Processed(p, "failed")
  /\ hook' = [hook EXCEPT ![p] = "idle"]
  /\ UNCHANGED <<settleRest, workerVars, remote, seen, noted>>

\* The handler's process dies; the stored event is reclaimed.
HookDies(p) ==
  /\ "crash" \in Env
  /\ hook[p] # "idle"
  /\ hook' = [hook EXCEPT ![p] = "idle"]
  /\ UNCHANGED <<requestVars, bookVars, accountVars, flag, workerVars, remoteVars, seen, noted>>

-------------------------------------------------------------------------------
\* Fraud review and ad reports (fraud.service.ts, ledger-earnings.trait.ts).

moneyRest == <<status, dest, bookVars, accountVars, workerVars, remoteVars, viewVars>>

\* createFlag, under the payout-fraud lock: a critical flag holds the user's rows.
RaiseFlag(severity) ==
  /\ "fraud" \in Env
  /\ flag # "critical" /\ flag # severity
  /\ flag' = severity
  /\ rows' = IF severity = "critical"
             THEN [p \in Payouts |-> IF rows[p] = "confirmed" THEN "held" ELSE rows[p]]
             ELSE rows
  /\ UNCHANGED <<moneyRest, debt>>

\* resolveFlag(invalid): releaseEarnings.
DismissFlag ==
  /\ flag # "clear"
  /\ flag' = "clear"
  /\ rows' = [p \in Payouts |-> IF rows[p] = "held" THEN "confirmed" ELSE rows[p]]
  /\ UNCHANGED <<moneyRest, debt>>

\* resolveFlag(valid) of a flag on no particular impression: held rows are forfeited.
ConfirmBehaviour ==
  /\ "forfeit" \in Env
  /\ flag # "clear"
  /\ flag' = "clear"
  /\ rows' = [p \in Payouts |-> IF rows[p] = "held" THEN "reversed" ELSE rows[p]]
  /\ UNCHANGED <<moneyRest, debt>>

\* reverseEarnings on an impression whose row is allocated to p.
Reversed(p) ==
  /\ rows[p] # "none"
  /\ rows' = IF rows[p] = "paid" THEN rows ELSE [rows EXCEPT ![p] = "reversed"]
  /\ debt' = [debt EXCEPT ![p] = @ \/ rows[p] = "paid"]

\* resolveFlag(valid) of a flag on an impression waits for a payout in flight.
\* createFlag takes such flags, though no detector names an impression at present.
ConfirmImpression(p) ==
  /\ flag # "clear"
  /\ status[p] # "processing"
  /\ flag' = "clear"
  /\ Reversed(p)
  /\ UNCHANGED moneyRest

\* reportAd reverses with no lock and no look at the payout.
ReportAd(p) ==
  /\ "report" \in Env
  /\ Reversed(p)
  /\ UNCHANGED <<moneyRest, flag>>

-------------------------------------------------------------------------------
Developer == \E a \in Accounts : RemoveMethod(a) \/ \E p \in Payouts : RequestPayout(p, a)

Operators ==
  \/ \E p \in Payouts : \/ ApprovePayout(p) \/ RejectPayout(p) \/ AdminRepeatsPaid(p)
                        \/ \E s \in {"approved", "processing"} : AdminMarkPaid(p, s)
  \/ \E a \in Accounts : \/ SetAccountVerified(a) \/ FreezeAccount(a) \/ UnfreezeAccount(a)
                         \/ ReadFence(a) \/ ReleaseFence(a)

WorkerStep(w) ==
  \/ BreakerRejects(w) \/ CallProvider(w) \/ Answer(w) \/ Bind(w)
  \/ WorkerPays(w) \/ WorkerFails(w) \/ Finally(w)

ProviderAnswers(w) ==
  PspAnswers(w) \/ StripeTransfers(w) \/ StripePaysOut(w) \/ StripeReverses(w)

Processing ==
  \E w \in Workers :
    \/ \E p \in Payouts : Claim(w, p)
    \/ WorkerStep(w) \/ Timeout(w) \/ Crash(w) \/ ProviderAnswers(w) \/ RequestLost(w)

Reconciliation ==
  \E p \in Payouts :
    \/ RemotePays(p) \/ RemoteFails(p) \/ CronPolls(p) \/ CronApplies(p)
    \/ HookPaid(p) \/ HookFreezes(p) \/ HookReverses(p) \/ HookFails(p) \/ HookDies(p)

FraudReview ==
  \/ \E s \in {"high", "critical"} : RaiseFlag(s)
  \/ DismissFlag \/ ConfirmBehaviour
  \/ \E p \in Payouts : ConfirmImpression(p) \/ ReportAd(p)

Next == Developer \/ Operators \/ Processing \/ Reconciliation \/ FraudReview

Spec == Init /\ [][Next]_vars

\* What the deployment provides: the event loop runs every live invocation, the
\* provider answers and decides every transfer, the cron visits every processing
\* payout in turn and stored events are handed out until they are processed.
\* Nobody is obliged to request, approve, review, report or fix anything.
Fairness ==
  /\ \A w \in Workers : /\ WF_vars(WorkerStep(w))
                        /\ WF_vars(ProviderAnswers(w) \/ RequestLost(w))
  /\ \A p \in Payouts : /\ WF_vars(RemotePays(p) \/ RemoteFails(p))
                        /\ SF_vars(CronPolls(p)) /\ WF_vars(CronApplies(p))
                        /\ WF_vars(HookPaid(p)) /\ WF_vars(HookFreezes(p))
                        /\ SF_vars(HookReverses(p) /\ remote'[p] = "returned")
                        /\ WF_vars(HookReverses(p)) /\ WF_vars(HookFails(p))

FairSpec == Spec /\ Fairness

-------------------------------------------------------------------------------
\* Properties.

\* Earnings become available again only when the payout's money is certainly at
\* home: no transfer stands, and none can still be made by a request in flight.
ReleasedMoneyIsHome ==
  \A p \in Payouts : status[p] \in {"failed", "rejected"} =>
    remote[p] \in {"none", "returned"} /\ ~CallOpen(p)

\* An initiation whose outcome the books do not know keeps the destination fenced,
\* whatever timed out, threw or died, so nothing else is sent there.
UnresolvedInitiationFenced ==
  \A p \in Payouts :
    status[p] = "processing" /\ txn[p] = "placeholder" /\ (MoneyOut(p) \/ CallOpen(p))
      => fence[dest[p]] = p

\* At most one processPayout invocation ever owns a payout, crashes included.
OneInitiation ==
  \A v, w \in Workers : v # w /\ job[v] # NoPayout => job[v] # job[w]

\* A closed payout's cash rows say what happened to the money: out exactly when the
\* provider paid, and a debit booked at initiation is compensated when it failed.
BooksMatchMoney ==
  \A p \in Payouts : status[p] \in Terminal =>
    (("debit" \in cash[p] /\ "reclaim" \notin cash[p]) <=> remote[p] = "paid")

\* Earnings rows stay allocated exactly while the payout is open, and are spent
\* exactly when it is paid, whichever of the settling paths got there and whatever
\* fraud review did meanwhile.
RowsFollowStatus ==
  \A p \in Payouts :
    /\ rows[p] # "none" <=> status[p] \in Reserved \cup {"paid"}
    /\ rows[p] = "paid" <=> status[p] = "paid"

\* No open payout points at a destination that was removed or replaced.
ReservedOnActiveAccount ==
  \A p \in Payouts : status[p] \in Reserved => active[dest[p]]

\* A frozen destination is never sent to, even by a worker that checked it before
\* the operator froze it.
NoSendWhileFrozen ==
  [][\A w \in Workers : call[w] = "none" /\ call'[w] = "leg1" => ~frozen[dest[job[w]]]]_vars

\* A closed payout stays closed the way it was closed.
TerminalStable ==
  [][\A p \in Payouts : status[p] \in Terminal => status'[p] = status[p]]_vars

\* Once the provider's id is recorded, a transfer it accepted is booked in the end,
\* though workers die or time out and fraud flags come and go.
AcceptedTransferSettles ==
  \A p \in Payouts : (txn[p] = "bound" /\ MoneyOut(p)) ~> (status[p] \in Terminal)

\* An initiation nobody is working on any more and that moved no money is closed
\* in the end, so that its earnings and destination become usable again.
AmbiguousInitiationCloses ==
  \A p \in Payouts :
    (status[p] = "processing" /\ remote[p] = "none" /\ \E w \in Workers : job[w] = p /\ pc[w] = "done")
      ~> (status[p] \in Terminal)

\* A debit for money that came back is compensated once the payout is closed and
\* the provider's failure event has been processed.
NoPhantomDebit ==
  \A p \in Payouts :
    /\ status[p] \in Terminal /\ Bound(p) /\ remote[p] = "returned"
    /\ <<p, "failed">> \notin inbox /\ ~CallOpen(p)
    => ("debit" \in cash[p] <=> "reclaim" \in cash[p])

\* A transfer that reached the developer can still be booked as paid: its earnings
\* have not been reversed under it.
SentMoneyIsBookable ==
  \A p \in Payouts : status[p] = "processing" /\ remote[p] = "paid" => rows[p] # "reversed"

\* The payout as PayoutSettlement sees it.
ClaimOf ==
  [p \in Payouts |-> CASE status[p] = "none" -> "none"
                       [] status[p] \in Reserved -> "reserved"
                       [] status[p] = "paid" -> "settled"
                       [] OTHER -> "released"]

Sent(p) == \E w \in Workers : job[w] = p /\ call[w] # "none" /\ Kind(p) # "manual"

MoneyOf ==
  [p \in Payouts |-> IF remote[p] = "paid" THEN "out"
                     ELSE IF MoneyOut(p) \/ CallOpen(p) THEN "away"
                     ELSE IF Sent(p) THEN "back" ELSE "home"]

Settlement == INSTANCE PayoutSettlement WITH claim <- ClaimOf, money <- MoneyOf

\* The workers, fences, webhook and cron together implement PayoutSettlement.
ImplementsSettlement == Settlement!Spec
===============================================================================
