------------------------ MODULE PayoutProcessingProofs ------------------------
(* Theorems about PayoutProcessing for any payouts, destinations, workers,   *)
(* rails and disturbances.                                                   *)
EXTENDS PayoutProcessing, TLAPS

\* A worker without a payout has not started.
Unassigned == \A w \in Workers : job[w] = NoPayout => pc[w] = "idle" /\ call[w] = "none"

Typed == TypeOK /\ Unassigned

LEMMA FreezeTyped ==
  ASSUME frozen \in [Accounts -> BOOLEAN], NEW p \in Payouts, HookFreezes(p)
  PROVE  frozen' \in [Accounts -> BOOLEAN]
<1>1. frozen' = [frozen EXCEPT ![dest[p]] = TRUE] \/ frozen' = frozen
  BY DEF HookFreezes
<1> QED
  BY <1>1

\* Every step of every actor preserves the types, and gives a worker that starts a
\* payout of its own.
LEMMA TypedStep ==
  ASSUME Typed, [Next]_vars PROVE Typed'
<1> USE PayoutAssumption DEF Typed, Unassigned, TypeOK, Status, RowStatus, TxnStatus, RemoteStatus, PC, Call, OpenCall,
      requestVars, bookVars, accountVars, workerVars, remoteVars, viewVars
<1>1. CASE Developer
  <2>1. ASSUME NEW a \in Accounts, RemoveMethod(a) PROVE Typed'
    BY <2>1 DEF RemoveMethod
  <2>2. ASSUME NEW a \in Accounts, NEW p \in Payouts, RequestPayout(p, a) PROVE Typed'
    BY <2>2 DEF RequestPayout
  <2> QED
    BY <1>1, <2>1, <2>2 DEF Developer
<1>2. CASE Operators
  <2>1. ASSUME NEW p \in Payouts, ApprovePayout(p) \/ RejectPayout(p) PROVE Typed'
    BY <2>1 DEF ApprovePayout, RejectPayout
  <2>2. ASSUME NEW p \in Payouts, NEW s \in {"approved", "processing"}, AdminMarkPaid(p, s)
        PROVE Typed'
    BY <2>2 DEF AdminMarkPaid, MarkPaid, FenceCleared, settleRest
  <2>3. ASSUME NEW p \in Payouts, AdminRepeatsPaid(p) PROVE Typed'
    BY <2>3 DEF AdminRepeatsPaid, RepeatPaid, FenceCleared, settleRest
  <2>4. ASSUME NEW a \in Accounts,
               SetAccountVerified(a) \/ FreezeAccount(a) \/ UnfreezeAccount(a)
                 \/ ReadFence(a) \/ ReleaseFence(a)
        PROVE Typed'
    <3>1. CASE SetAccountVerified(a)
      BY <2>4, <3>1 DEF SetAccountVerified
    <3>2. CASE FreezeAccount(a)
      BY <2>4, <3>2 DEF FreezeAccount
    <3>3. CASE UnfreezeAccount(a)
      BY <2>4, <3>3 DEF UnfreezeAccount
    <3>4. CASE ReadFence(a)
      BY <2>4, <3>4 DEF ReadFence
    <3>5. CASE ReleaseFence(a)
      BY <2>4, <3>5 DEF ReleaseFence
    <3> QED
      BY <2>4, <3>1, <3>2, <3>3, <3>4, <3>5
  <2> QED
    BY <1>2, <2>1, <2>2, <2>3, <2>4 DEF Operators
<1>3. CASE Processing
  <2> SUFFICES ASSUME NEW w \in Workers,
                      \/ \E p \in Payouts : Claim(w, p)
                      \/ WorkerStep(w) \/ Timeout(w) \/ Crash(w)
                      \/ ProviderAnswers(w) \/ RequestLost(w)
               PROVE Typed'
    BY <1>3 DEF Processing
  <2>1. ASSUME NEW p \in Payouts, Claim(w, p) PROVE Typed'
    <3>1. /\ fence' = [fence EXCEPT ![dest[p]] = p]
          /\ status' = [status EXCEPT ![p] = "processing"]
          /\ txn' = [txn EXCEPT ![p] = "placeholder"]
          /\ job' = [job EXCEPT ![w] = p]
          /\ pc' = [pc EXCEPT ![w] = "claimed"]
          /\ UNCHANGED <<dest, rows, debt, cash, active, verified, frozen, flag, call,
                         remote, inbox, hook, seen, noted>>
      BY <2>1 DEF Claim, Goto
    <3>2. p \in Payouts
      BY <2>1
    <3>3. Unassigned'
      BY <3>1, <3>2
    <3>4. TypeOK'
      BY <3>1, <3>2
    <3> QED
      BY <3>3, <3>4
  <2>2. CASE BreakerRejects(w) \/ CallProvider(w) \/ Answer(w)
    BY <2>2 DEF BreakerRejects, CallProvider, Answer, Goto, workerOnly
  <2>3. CASE Bind(w)
    BY <2>3 DEF Bind, Goto
  <2>4. CASE WorkerPays(w)
    <3>1. job[w] \in Payouts
      BY <2>4 DEF WorkerPays
    <3>2. CASE MarkPaid(job[w], Payable(status[job[w]]), "paid")
      BY <2>4, <3>1, <3>2 DEF WorkerPays, MarkPaid, FenceCleared, settleRest, Goto
    <3>3. CASE RepeatPaid(job[w])
      BY <2>4, <3>1, <3>3 DEF WorkerPays, RepeatPaid, FenceCleared, settleRest, Goto
    <3>4. CASE UNCHANGED <<status, rows, bookVars, fence>>
      BY <2>4, <3>1, <3>4 DEF WorkerPays, settleRest, Goto
    <3> QED
      BY <2>4, <3>2, <3>3, <3>4 DEF WorkerPays
  <2>5. CASE WorkerFails(w)
    <3>1. job[w] \in Payouts
      BY <2>5 DEF WorkerFails
    <3>2. CASE MarkFailed(job[w])
      BY <2>5, <3>1, <3>2 DEF WorkerFails, MarkFailed, FailedRow, Compensated, FenceCleared, settleRest, Goto
    <3>3. CASE RepeatFailed(job[w])
      BY <2>5, <3>1, <3>3 DEF WorkerFails, RepeatFailed, FenceCleared, settleRest, Goto
    <3>4. CASE UNCHANGED <<status, rows, bookVars, fence>>
      BY <2>5, <3>1, <3>4 DEF WorkerFails, settleRest, Goto
    <3> QED
      BY <2>5, <3>2, <3>3, <3>4 DEF WorkerFails
  <2>6. CASE Finally(w)
    BY <2>6 DEF Finally, FenceCleared, Goto
  <2>7. CASE Timeout(w) \/ Crash(w) \/ RequestLost(w)
    BY <2>7 DEF Timeout, Crash, RequestLost, Goto, workerOnly
  <2>8. CASE ProviderAnswers(w)
    <3>1. CASE PspAnswers(w)
      BY <3>1 DEF PspAnswers, Reply, Does, workerOnly
    <3>2. CASE StripeTransfers(w)
      BY <3>2 DEF StripeTransfers, Reply, Does, workerOnly
    <3>3. CASE StripePaysOut(w)
      BY <3>3 DEF StripePaysOut, Reply, Does, workerOnly
    <3>4. CASE StripeReverses(w)
      BY <3>4 DEF StripeReverses, Reply, Does, workerOnly
    <3> QED
      BY <2>8, <3>1, <3>2, <3>3, <3>4 DEF ProviderAnswers
  <2> QED
    BY <2>1, <2>2, <2>3, <2>4, <2>5, <2>6, <2>7, <2>8 DEF WorkerStep
<1>4. CASE Reconciliation
  <2> SUFFICES ASSUME NEW p \in Payouts,
                      \/ RemotePays(p) \/ RemoteFails(p) \/ CronPolls(p) \/ CronApplies(p)
                      \/ HookPaid(p) \/ HookFreezes(p) \/ HookReverses(p) \/ HookFails(p)
                      \/ HookDies(p)
               PROVE Typed'
    BY <1>4 DEF Reconciliation
  <2>1. CASE RemotePays(p) \/ RemoteFails(p)
    BY <2>1 DEF RemotePays, RemoteFails, Does, providerOnly
  <2>2. CASE CronPolls(p)
    BY <2>2 DEF CronPolls, CheckStatus
  <2>3. CASE CronApplies(p)
    <3>1. /\ seen' \in [Payouts -> {"none", "paid", "failed"}]
          /\ UNCHANGED <<settleRest, workerVars, remoteVars, hook, noted>>
      BY <2>3 DEF CronApplies
    <3>2. CASE MarkPaid(p, Payable(status[p]), "paid")
      BY <3>1, <3>2 DEF MarkPaid, FenceCleared, settleRest
    <3>3. CASE RepeatPaid(p)
      BY <3>1, <3>3 DEF RepeatPaid, FenceCleared, settleRest
    <3>4. CASE MarkFailed(p)
      BY <3>1, <3>4 DEF MarkFailed, FailedRow, Compensated, FenceCleared, settleRest
    <3>5. CASE RepeatFailed(p)
      BY <3>1, <3>5 DEF RepeatFailed, FenceCleared, settleRest
    <3>6. CASE UNCHANGED <<status, rows, bookVars, fence>>
      BY <3>1, <3>6 DEF settleRest
    <3> QED
      BY <2>3, <3>2, <3>3, <3>4, <3>5, <3>6 DEF CronApplies
  <2>4. CASE HookPaid(p)
    <3>1. /\ inbox' \subseteq Payouts \X {"paid", "failed"}
          /\ UNCHANGED <<settleRest, fence, workerVars, remote, viewVars>>
      BY <2>4 DEF HookPaid, Processed
    <3>2. CASE UNCHANGED <<status, rows, bookVars>>
      BY <3>1, <3>2 DEF settleRest
    <3>3. CASE /\ status' = [status EXCEPT ![p] = "paid"] /\ rows' = [rows EXCEPT ![p] = "paid"]
               /\ txn' = [txn EXCEPT ![p] = "paid"]
               /\ cash' = [cash EXCEPT ![p] = cash[p] \cup {"debit"}]
      BY <3>1, <3>3 DEF settleRest
    <3> QED
      BY <2>4, <3>2, <3>3 DEF HookPaid
  <2>5. CASE HookFreezes(p) \/ HookReverses(p) \/ HookDies(p)
    <3>1. CASE HookFreezes(p)
      <4>1. frozen' \in [Accounts -> BOOLEAN]
        BY <3>1, FreezeTyped
      <4>2. /\ hook' \in [Payouts -> {"idle", "frozen", "reversed"}]
            /\ inbox' \subseteq Payouts \X {"paid", "failed"}
            /\ UNCHANGED <<requestVars, bookVars, active, verified, fence, flag, workerVars,
                           remote, seen, noted>>
        BY <3>1 DEF HookFreezes, Processed
      <4> QED
        BY <4>1, <4>2
    <3>2. CASE HookReverses(p)
      BY <3>2 DEF HookReverses, Does
    <3>3. CASE HookDies(p)
      BY <3>3 DEF HookDies
    <3> QED
      BY <2>5, <3>1, <3>2, <3>3
  <2>6. CASE HookFails(p)
    BY <2>6 DEF HookFails, MarkFailed, FailedRow, RepeatFailed, Compensated, FenceCleared, Processed, settleRest
  <2> QED
    BY <2>1, <2>2, <2>3, <2>4, <2>5, <2>6
<1>5. CASE FraudReview
  <2>1. ASSUME NEW s \in {"high", "critical"}, RaiseFlag(s) PROVE Typed'
    BY <2>1 DEF RaiseFlag, moneyRest
  <2>2. CASE DismissFlag
    BY <2>2 DEF DismissFlag, moneyRest
  <2>3. CASE ConfirmBehaviour
    BY <2>3 DEF ConfirmBehaviour, moneyRest
  <2>4. ASSUME NEW p \in Payouts, ConfirmImpression(p) \/ ReportAd(p) PROVE Typed'
    <3>1. CASE ConfirmImpression(p)
      BY <3>1 DEF ConfirmImpression, Reversed, moneyRest
    <3>2. CASE ReportAd(p)
      BY <3>2 DEF ReportAd, Reversed, moneyRest
    <3> QED
      BY <2>4, <3>1, <3>2
  <2> QED
    BY <1>5, <2>1, <2>2, <2>3, <2>4 DEF FraudReview
<1>6. CASE UNCHANGED vars
  BY <1>6 DEF vars
<1> QED
  BY <1>1, <1>2, <1>3, <1>4, <1>5, <1>6 DEF Next

\* Every column and every worker keeps a value of its type, whatever the rails,
\* the disturbances and the number of payouts and workers.
THEOREM TypeCorrect == Spec => []TypeOK
<1>1. Init => Typed
  BY PayoutAssumption DEF Init, Typed, Unassigned, TypeOK, Status, RowStatus, TxnStatus,
     RemoteStatus, PC, Call, OpenCall
<1>2. Typed /\ [Next]_vars => Typed'
  BY TypedStep
<1>3. Typed => TypeOK
  BY DEF Typed
<1> QED
  BY <1>1, <1>2, <1>3, PTL DEF Spec

-------------------------------------------------------------------------------
(* Why released money is at home.  markPayoutFailed runs in four places, and   *)
(* in each the outcome is known: the worker that owns the payout was told      *)
(* so, or the provider's id is bound, which the same worker only does after    *)
(* its call ended, and the provider or the reversal answered.  So the          *)
(* invariant follows one payout from its only worker (OneInitiation) through   *)
(* what that worker was told (Told) to the sources of the transition (Known).  *)

\* Only a claimed payout has a worker.
Owned ==
  \A w \in Workers : job[w] # NoPayout => status[job[w]] \in {"processing", "paid", "failed"}

\* Nothing has happened to a payout that was never claimed.
Untouched ==
  \A p \in Payouts : status[p] \in {"none", "requested", "approved", "rejected"} =>
    remote[p] = "none" /\ txn[p] = "none" /\ hook[p] = "idle" /\ seen[p] = "none"

\* Where a worker is says how its call ended.
PcMatchesCall ==
  \A w \in Workers :
    /\ pc[w] = "idle" => job[w] = NoPayout
    /\ pc[w] \in {"idle", "claimed"} => call[w] = "none"
    /\ pc[w] \in {"bind", "paying"} => call[w] \in {"ok", "okpaid", "failed"}
    /\ pc[w] = "failing" => call[w] = "failed"
    /\ pc[w] = "closing" => call[w] \in {"none", "safe"}

\* What a worker was told of its open payout is so, and once the provider's id is
\* recorded, or the payout failed, the call is over.
Told ==
  \A w \in Workers : job[w] # NoPayout =>
    /\ status[job[w]] = "processing" /\ call[w] \in {"none", "leg1"} => remote[job[w]] = "none"
    /\ status[job[w]] = "processing" /\ call[w] \in {"safe", "failed"} =>
         remote[job[w]] \in {"none", "returned"}
    /\ Bound(job[w]) \/ status[job[w]] = "failed" => call[w] \notin OpenCall /\ pc[w] # "claimed"

\* The cron and the webhook act on recorded payouts and on what the provider did.
Known ==
  \A p \in Payouts :
    /\ seen[p] # "none" \/ hook[p] # "idle" => Bound(p)
    /\ seen[p] = "failed" \/ hook[p] = "reversed" => remote[p] = "returned"
    /\ status[p] = "failed" => txn[p] \in {"failed", "void"} /\ remote[p] \in {"none", "returned"}

\* Nothing is sent over a manual rail; an operator pays by hand.
ByHand ==
  /\ \A p \in Payouts : status[p] # "none" /\ Kind(p) = "manual" => remote[p] \in {"none", "paid"}
  /\ \A w \in Workers : call[w] \in OpenCall => Kind(job[w]) # "manual"

IInv ==
  /\ Typed /\ OneInitiation
  /\ Owned /\ Untouched /\ PcMatchesCall /\ Told /\ Known /\ ByHand

\* The state the invariant speaks of; a step that leaves it alone preserves it.
coreVars == <<status, dest, txn, remote, pc, job, call, hook, seen>>

Core == OneInitiation /\ Owned /\ Untouched /\ PcMatchesCall /\ Told /\ Known /\ ByHand

\* What a request, an operator, the cron, the webhook or fraud review does not touch
\* cannot break the invariant.
LEMMA CoreStutter ==
  ASSUME Core, UNCHANGED coreVars PROVE Core'
  BY DEF Core, coreVars, OneInitiation, Owned, Untouched, PcMatchesCall, Told, Known, ByHand, Kind, OpenCall, Bound

\* Every step of developers and operators preserves the invariant: they act on
\* payouts no worker has, or mark paid what is open.
LEMMA CoreRequests ==
  ASSUME IInv, Developer \/ Operators PROVE Core'
<1> USE PayoutAssumption DEF IInv, Typed, Unassigned, TypeOK
<1>0. Core
  BY DEF Core
<1>1. ASSUME NEW a \in Accounts,
             \/ RemoveMethod(a) \/ SetAccountVerified(a) \/ FreezeAccount(a)
             \/ UnfreezeAccount(a) \/ ReadFence(a) \/ ReleaseFence(a)
      PROVE Core'
  <2>1. UNCHANGED coreVars
    BY <1>1 DEF RemoveMethod, SetAccountVerified, FreezeAccount, UnfreezeAccount, ReadFence,
       ReleaseFence, coreVars, requestVars, bookVars, workerVars, remoteVars, viewVars
  <2> QED
    BY <1>0, <2>1, CoreStutter
<1>2. ASSUME NEW p \in Payouts, AdminRepeatsPaid(p) PROVE Core'
  <2>1. UNCHANGED coreVars
    BY <1>2 DEF AdminRepeatsPaid, RepeatPaid, settleRest, coreVars, workerVars, remoteVars, viewVars
  <2> QED
    BY <1>0, <2>1, CoreStutter
<1> USE DEF OneInitiation, Owned, Untouched, PcMatchesCall, Told, Known, ByHand, Core, Kind
<1>3. ASSUME NEW a \in Accounts, NEW p \in Payouts, RequestPayout(p, a) PROVE Core'
  BY <1>3 DEF RequestPayout, Bound, bookVars, workerVars, remoteVars, viewVars
<1>4. ASSUME NEW p \in Payouts, ApprovePayout(p) PROVE Core'
  BY <1>4 DEF ApprovePayout, Bound, bookVars, workerVars, remoteVars, viewVars
<1>5. ASSUME NEW p \in Payouts, RejectPayout(p) PROVE Core'
  BY <1>5 DEF RejectPayout, Rejectable, Bound, bookVars, workerVars, remoteVars, viewVars
<1>6. ASSUME NEW p \in Payouts, NEW s \in {"approved", "processing"}, AdminMarkPaid(p, s)
      PROVE Core'
  <2>1. /\ status[p] \in {"approved", "processing"}
        /\ status' = [status EXCEPT ![p] = "paid"]
        /\ UNCHANGED <<dest, pc, job, call, hook, seen>>
    BY <1>6 DEF AdminMarkPaid, MarkPaid, settleRest, workerVars, viewVars
  <2>2. \/ UNCHANGED txn
        \/ txn[p] = "bound" /\ txn' = [txn EXCEPT ![p] = "paid"]
    <3>1. PICK row \in {txn[p]} \cup (IF txn[p] = "bound" THEN {"paid"} ELSE {}) :
            MarkPaid(p, Payable(s), row)
      BY <1>6 DEF AdminMarkPaid
    <3>2. txn' = [txn EXCEPT ![p] = row]
      BY <3>1 DEF MarkPaid
    <3>3. row = txn[p] \/ (txn[p] = "bound" /\ row = "paid")
      OBVIOUS
    <3>4. txn = [txn EXCEPT ![p] = txn[p]]
      BY <1>6
    <3> QED
      BY <3>2, <3>3, <3>4
  <2>3. remote' = [remote EXCEPT ![p] = "paid"]
    BY <1>6 DEF AdminMarkPaid
  <2>4. \A q \in Payouts : Bound(q)' <=> Bound(q)
    BY <2>2 DEF Bound
  <2>5. OneInitiation' /\ Owned' /\ PcMatchesCall'
    BY <2>1
  <2>6. Untouched'
    BY <2>1, <2>2, <2>3
  <2>7. Told'
    BY <2>1, <2>3, <2>4
  <2>8. remote[p] = "paid" \/ Kind(p) = "manual"
    BY <1>6 DEF AdminMarkPaid
  <2>9. remote[p] # "returned"
    BY <2>1, <2>8
  <2>10. Known' /\ ByHand'
    BY <2>1, <2>2, <2>3, <2>4, <2>9
  <2> QED
    BY <2>5, <2>6, <2>7, <2>10
<1> HIDE DEF Core
<1> QED
  BY <1>1, <1>2, <1>3, <1>4, <1>5, <1>6 DEF Developer, Operators

\* Every step of a processPayout invocation and of the provider answering it
\* preserves the invariant, if Stripe never accepts a payout as already failed.
LEMMA CoreProcessing ==
  ASSUME "failedcreate" \notin Env, IInv, Processing PROVE Core'
<1> USE PayoutAssumption DEF IInv, Typed, Unassigned, TypeOK, Goto, workerOnly,
     requestVars, bookVars, accountVars, workerVars, remoteVars, viewVars
<1> USE DEF OneInitiation, Owned, Untouched, PcMatchesCall, Told, Known, ByHand, Core, Kind, Bound, OpenCall
<1> SUFFICES ASSUME NEW w \in Workers,
                    \/ \E p \in Payouts : Claim(w, p)
                    \/ WorkerStep(w) \/ Timeout(w) \/ Crash(w)
                    \/ ProviderAnswers(w) \/ RequestLost(w)
             PROVE Core'
  BY DEF Processing
<1>1. ASSUME NEW p \in Payouts, Claim(w, p) PROVE Core'
  <2>1. /\ status[p] = "approved" /\ pc[w] = "idle"
        /\ status' = [status EXCEPT ![p] = "processing"]
        /\ txn' = [txn EXCEPT ![p] = "placeholder"]
        /\ job' = [job EXCEPT ![w] = p]
        /\ pc' = [pc EXCEPT ![w] = "claimed"]
        /\ UNCHANGED <<dest, call, remote, hook, seen>>
    BY <1>1 DEF Claim, Claimable
  <2>2. OneInitiation'
    BY <1>1, <2>1
  <2>3. Owned' /\ PcMatchesCall'
    BY <1>1, <2>1
  <2>4. Untouched'
    BY <1>1, <2>1
  <2>5. Told' /\ Known'
    BY <1>1, <2>1
  <2>6. ByHand'
    BY <1>1, <2>1
  <2> QED
    BY <2>2, <2>3, <2>4, <2>5, <2>6
<1>2. CASE BreakerRejects(w)
  BY <1>2 DEF BreakerRejects
<1>3. CASE CallProvider(w)
  BY <1>3 DEF CallProvider
<1>4. CASE Answer(w)
  BY <1>4 DEF Answer
<1>5. CASE Timeout(w) \/ Crash(w)
  BY <1>5 DEF Timeout, Crash
<1>6. CASE Bind(w)
  BY <1>6 DEF Bind
<1>7. CASE WorkerPays(w)
  BY <1>7 DEF WorkerPays, MarkPaid, RepeatPaid, settleRest
<1>8. CASE WorkerFails(w)
  BY <1>8 DEF WorkerFails, MarkFailed, FailedRow, RepeatFailed, settleRest
<1>9. CASE Finally(w)
  BY <1>9 DEF Finally
<1>10. CASE PspAnswers(w)
  BY <1>10 DEF PspAnswers, Reply, Does
<1>11. CASE StripeTransfers(w)
  BY <1>11 DEF StripeTransfers, Reply, Does
<1>12. CASE StripePaysOut(w)
  BY <1>12 DEF StripePaysOut, Reply, Does
<1>13. CASE StripeReverses(w)
  BY <1>13 DEF StripeReverses, Reply, Does
<1>14. CASE RequestLost(w)
  BY <1>14 DEF RequestLost
<1> HIDE DEF Core
<1> QED
  BY <1>1, <1>2, <1>3, <1>4, <1>5, <1>6, <1>7, <1>8, <1>9, <1>10, <1>11, <1>12, <1>13, <1>14
  DEF WorkerStep, ProviderAnswers

\* Every step of the provider's transfers, the cron and the webhook preserves the
\* invariant: they close payouts whose outcome they know.
LEMMA CoreReconciliation ==
  ASSUME IInv, Reconciliation PROVE Core'
<1> USE PayoutAssumption DEF IInv, Typed, Unassigned, TypeOK, settleRest, providerOnly,
     requestVars, bookVars, accountVars, workerVars, remoteVars, viewVars
<1> USE DEF OneInitiation, Owned, Untouched, PcMatchesCall, Told, Known, ByHand, Core, Kind, Bound, OpenCall
<1> SUFFICES ASSUME NEW p \in Payouts,
                    \/ RemotePays(p) \/ RemoteFails(p) \/ CronPolls(p) \/ CronApplies(p)
                    \/ HookPaid(p) \/ HookFreezes(p) \/ HookReverses(p) \/ HookFails(p)
                    \/ HookDies(p)
             PROVE Core'
  BY DEF Reconciliation
<1>1. CASE RemotePays(p)
  BY <1>1 DEF RemotePays, Does
<1>2. CASE RemoteFails(p)
  BY <1>2 DEF RemoteFails, Does
<1>3. CASE CronPolls(p)
  BY <1>3 DEF CronPolls, CheckStatus
<1>4. CASE CronApplies(p)
  BY <1>4 DEF CronApplies, MarkPaid, RepeatPaid, MarkFailed, FailedRow, RepeatFailed
<1>5. CASE HookPaid(p)
  BY <1>5 DEF HookPaid
<1>6. CASE HookFreezes(p)
  BY <1>6 DEF HookFreezes
<1>7. CASE HookReverses(p)
  BY <1>7 DEF HookReverses, Does
<1>8. CASE HookFails(p)
  BY <1>8 DEF HookFails, MarkFailed, FailedRow, RepeatFailed
<1>9. CASE HookDies(p)
  BY <1>9 DEF HookDies
<1> QED
  BY <1>1, <1>2, <1>3, <1>4, <1>5, <1>6, <1>7, <1>8, <1>9

\* Fraud review changes earnings rows, recovery debts and the flag only.
LEMMA CoreFraudReview ==
  ASSUME Core, FraudReview PROVE Core'
<1>1. UNCHANGED coreVars
  BY DEF FraudReview, RaiseFlag, DismissFlag, ConfirmBehaviour, ConfirmImpression, ReportAd, moneyRest,
     coreVars, bookVars, workerVars, remoteVars, viewVars
<1> QED
  BY <1>1, CoreStutter

\* IInv is an inductive invariant.
LEMMA Inductive ==
  ASSUME "failedcreate" \notin Env PROVE Spec => []IInv
<1>1. Init => IInv
  BY PayoutAssumption
  DEF Init, IInv, Typed, Unassigned, TypeOK, Status, RowStatus, TxnStatus, RemoteStatus, PC, Call,
      OpenCall, OneInitiation, Owned, Untouched, PcMatchesCall, Told, Known, ByHand, Kind, Bound
<1>2. IInv /\ [Next]_vars => IInv'
  <2> SUFFICES ASSUME IInv, [Next]_vars PROVE IInv'
    OBVIOUS
  <2>1. Typed'
    BY TypedStep DEF IInv
  <2>2. Core
    BY DEF IInv, Core
  <2>3. ASSUME UNCHANGED vars PROVE Core'
    BY <2>2, <2>3, CoreStutter
    DEF vars, coreVars, requestVars, bookVars, workerVars, remoteVars, viewVars
  <2>4. Core'
    BY <2>2, <2>3, CoreRequests, CoreProcessing, CoreReconciliation, CoreFraudReview DEF Next, IInv, Core
  <2> QED
    BY <2>1, <2>4 DEF IInv, Core
<1> QED
  BY <1>1, <1>2, PTL DEF Spec

\* Earnings are made available again only when the payout's money is certainly at
\* home, unless Stripe creates a bank payout that has failed already.
THEOREM ReleasedOnlyAtHome ==
  ASSUME "failedcreate" \notin Env PROVE Spec => []ReleasedMoneyIsHome
<1>1. IInv => ReleasedMoneyIsHome
  BY PayoutAssumption
  DEF IInv, Typed, TypeOK, Owned, Untouched, Told, Known, Bound, ReleasedMoneyIsHome, CallOpen
<1> QED
  BY <1>1, Inductive, PTL

\* A payout is never in the hands of two processPayout invocations.
THEOREM SingleInitiation ==
  ASSUME "failedcreate" \notin Env PROVE Spec => []OneInitiation
<1>1. IInv => OneInitiation
  BY DEF IInv
<1> QED
  BY <1>1, Inductive, PTL

-------------------------------------------------------------------------------
\* ---- the cash rows, and the settlement that the flow implements ----

Handed(w) == job[w] # NoPayout /\ Kind(job[w]) # "manual"

\* How far its call has got says where a payout's money is, and only a call moves
\* money over a provider's rail.
Traced ==
  /\ \A w \in Workers : Handed(w) =>
       /\ call[w] \in {"none", "leg1"} => remote[job[w]] = "none"
       /\ call[w] = "leg2" => remote[job[w]] = "funded"
  /\ \A w \in Workers : /\ pc[w] = "paying" => call[w] = "okpaid"
                        /\ call[w] = "okpaid" => remote[job[w]] = "paid"
  /\ \A p \in Payouts : status[p] # "none" /\ Kind(p) # "manual" /\ remote[p] # "none" => Sent(p)

\* Whoever books a payment knows that it arrived.
Arrived ==
  \A p \in Payouts :
    status[p] = "paid" \/ seen[p] = "paid" \/ <<p, "paid">> \in inbox => remote[p] = "paid"

\* The cash rows of a payout at each stage of its life.
CashSoFar ==
  \A p \in Payouts :
    /\ status[p] \in {"none", "requested", "approved", "rejected"} => cash[p] = {}
    /\ status[p] = "processing" => cash[p] \subseteq {"debit"} /\ (Kind(p) # "stripe" => cash[p] = {})
    /\ status[p] = "paid" => cash[p] = {"debit"}
    /\ status[p] = "failed" => cash[p] \in {{}, {"debit", "reclaim"}}

Booked == Traced /\ Arrived /\ CashSoFar

-------------------------------------------------------------------------------
\* Neither the provider that answers with a payout already failed, nor the bank that
\* takes back a payment it reported.
Calm == "failedcreate" \notin Env /\ "latefailure" \notin Env

bookedVars == <<status, dest, cash, pc, job, call, remote, inbox, seen>>

LEMMA BookedStutter ==
  ASSUME Booked, UNCHANGED bookedVars PROVE Booked'
  BY DEF Booked, bookedVars, Traced, Arrived, CashSoFar, Handed, Kind, Sent

\* Requests and reviews act on payouts no worker has; an operator books what arrived.
LEMMA BookedRequests ==
  ASSUME IInv, Booked, Developer \/ Operators PROVE Booked'
<1> USE PayoutAssumption DEF IInv, Typed, Unassigned, TypeOK, requestVars, bookVars, accountVars,
      workerVars, remoteVars, viewVars
<1>1. ASSUME NEW a \in Accounts,
             \/ RemoveMethod(a) \/ SetAccountVerified(a) \/ FreezeAccount(a)
             \/ UnfreezeAccount(a) \/ ReadFence(a) \/ ReleaseFence(a)
      PROVE Booked'
  <2>1. UNCHANGED bookedVars
    BY <1>1 DEF RemoveMethod, SetAccountVerified, FreezeAccount, UnfreezeAccount, ReadFence,
       ReleaseFence, bookedVars
  <2> QED
    BY <2>1, BookedStutter
<1> USE DEF Booked, Traced, Arrived, CashSoFar, Handed, Kind, Sent
<1>2. ASSUME NEW p \in Payouts, AdminRepeatsPaid(p) PROVE Booked'
  BY <1>2 DEF AdminRepeatsPaid, RepeatPaid, settleRest
<1>3. ASSUME NEW a \in Accounts, NEW p \in Payouts, RequestPayout(p, a) PROVE Booked'
  BY <1>3 DEF RequestPayout, Owned, Untouched
<1>4. ASSUME NEW p \in Payouts, ApprovePayout(p) \/ RejectPayout(p) PROVE Booked'
  BY <1>4 DEF ApprovePayout, RejectPayout, Rejectable
<1>5. ASSUME NEW p \in Payouts, NEW s \in {"approved", "processing"}, AdminMarkPaid(p, s)
      PROVE Booked'
  BY <1>5 DEF AdminMarkPaid, MarkPaid, settleRest, ByHand
<1> HIDE DEF Booked
<1> QED
  BY <1>1, <1>2, <1>3, <1>4, <1>5 DEF Developer, Operators

\* The provider answers a call that is open: what it says it did is what it did.
LEMMA AnswerKeepsBooks ==
  ASSUME IInv, Booked, NEW w \in Workers, NEW c, NEW r,
         job[w] \in Payouts, Kind(job[w]) # "manual", call[w] \in OpenCall,
         call' = [call EXCEPT ![w] = c], remote' = [remote EXCEPT ![job[w]] = r],
         c \notin {"none", "leg1"}, c = "leg2" => r = "funded", c = "okpaid" => r = "paid",
         remote[job[w]] = "paid" => r = "paid",
         UNCHANGED <<status, dest, cash, pc, job, seen>>,
         \A p \in Payouts : <<p, "paid">> \in inbox' => <<p, "paid">> \in inbox
  PROVE  Booked'
<1> DEFINE p == job[w]
<1>1. /\ call'[w] = c /\ \A v \in Workers \ {w} : call'[v] = call[v] /\ job[v] # p
      /\ p # NoPayout /\ pc[w] # "paying"
  BY PayoutAssumption DEF IInv, Typed, TypeOK, OneInitiation, PcMatchesCall, OpenCall
<1>2. remote'[p] = r /\ \A q \in Payouts \ {p} : remote'[q] = remote[q]
  BY DEF IInv, Typed, TypeOK
<1>3. \A q \in Payouts : Kind(q)' = Kind(q)
  BY DEF Kind
<1>4. Sent(p)'
  BY <1>1, <1>3 DEF Sent
<1>5. \A q \in Payouts : Sent(q) => Sent(q)'
  BY <1>1, <1>3, <1>4 DEF Sent
<1>6. \A v \in Workers \ {w} : remote'[job[v]] = remote[job[v]] \/ job[v] = NoPayout
  BY <1>1, <1>2 DEF IInv, Typed, TypeOK
<1>7. Traced'
  <2>1. ASSUME NEW v \in Workers, Handed(v)'
        PROVE  /\ call'[v] \in {"none", "leg1"} => remote'[job'[v]] = "none"
               /\ call'[v] = "leg2" => remote'[job'[v]] = "funded"
    <3>1. CASE v = w
      BY <1>1, <1>2, <3>1
    <3>2. CASE v # w
      BY <1>1, <1>6, <2>1, <3>2 DEF Handed, Kind, Booked, Traced
    <3> QED
      BY <3>1, <3>2
  <2>2. ASSUME NEW v \in Workers
        PROVE  /\ pc'[v] = "paying" => call'[v] = "okpaid"
               /\ call'[v] = "okpaid" => remote'[job'[v]] = "paid"
    <3>1. CASE v = w
      BY <1>1, <1>2, <3>1
    <3>2. CASE v # w
      <4>1. call[v] = "okpaid" => job[v] # NoPayout /\ remote[job[v]] = "paid"
        BY PayoutAssumption DEF IInv, Typed, Unassigned, Booked, Traced
      <4> QED
        BY <1>1, <1>6, <3>2, <4>1 DEF Booked, Traced
    <3> QED
      BY <3>1, <3>2
  <2>3. ASSUME NEW q \in Payouts, status'[q] # "none", Kind(q)' # "manual", remote'[q] # "none"
        PROVE  Sent(q)'
    BY <1>2, <1>3, <1>4, <1>5, <2>3 DEF Booked, Traced
  <2> QED
    BY <2>1, <2>2, <2>3 DEF Traced
<1>8. Arrived'
  BY <1>2 DEF Booked, Arrived
<1>9. CashSoFar'
  BY <1>3 DEF Booked, CashSoFar
<1> QED
  BY <1>7, <1>8, <1>9 DEF Booked

LEMMA BookedProcessing ==
  ASSUME Calm, IInv, Booked, Processing PROVE Booked'
<1> USE PayoutAssumption DEF IInv, Typed, Unassigned, TypeOK, Goto, workerOnly,
     requestVars, bookVars, accountVars, workerVars, remoteVars, viewVars
<1> USE DEF Booked, Traced, Arrived, CashSoFar, Handed, Kind, Sent, Calm
<1> SUFFICES ASSUME NEW w \in Workers,
                    \/ \E p \in Payouts : Claim(w, p)
                    \/ WorkerStep(w) \/ Timeout(w) \/ Crash(w)
                    \/ ProviderAnswers(w) \/ RequestLost(w)
             PROVE Booked'
  BY DEF Processing
<1>1. ASSUME NEW p \in Payouts, Claim(w, p) PROVE Booked'
  <2>1. /\ status[p] = "approved" /\ status' = [status EXCEPT ![p] = "processing"]
        /\ job' = [job EXCEPT ![w] = p] /\ pc' = [pc EXCEPT ![w] = "claimed"] /\ pc[w] = "idle"
        /\ UNCHANGED <<dest, cash, call, remote, inbox, seen>>
    BY <1>1 DEF Claim, Claimable
  <2>2. /\ remote[p] = "none" /\ call[w] = "none" /\ job[w] = NoPayout /\ p # NoPayout
        /\ \A v \in Workers : job[v] # p
    BY <2>1 DEF Owned, Untouched, PcMatchesCall
  <2>3. \A q \in Payouts : Sent(q) => Sent(q)'
    BY <2>1, <2>2
  <2>4. Traced'
    BY <2>1, <2>2, <2>3
  <2>5. Arrived' /\ CashSoFar'
    BY <2>1, <2>2
  <2> QED
    BY <2>4, <2>5
<1>2. CASE BreakerRejects(w) \/ CallProvider(w)
  BY <1>2 DEF BreakerRejects, CallProvider, PcMatchesCall
<1>3. CASE Answer(w) \/ Timeout(w) \/ Crash(w)
  BY <1>3 DEF Answer, Timeout, Crash
<1>4. CASE Bind(w)
  BY <1>4 DEF Bind, Owned, Known, PcMatchesCall
<1>5. CASE WorkerPays(w)
  BY <1>5 DEF WorkerPays, MarkPaid, RepeatPaid, settleRest
<1>6. CASE WorkerFails(w)
  BY <1>6 DEF WorkerFails, MarkFailed, RepeatFailed, Compensated, settleRest
<1>7. CASE Finally(w)
  BY <1>7 DEF Finally
<1>8. CASE PspAnswers(w)
  BY <1>8 DEF PspAnswers, Reply, Does, OneInitiation, Owned
<1>9. CASE StripeTransfers(w)
  <2>1. job[w] \in Payouts /\ remote[job[w]] = "none"
    BY <1>9 DEF StripeTransfers
  <2> DEFINE c == call'[w]
             r == remote'[job[w]]
  <2>2. /\ call' = [call EXCEPT ![w] = c] /\ remote' = [remote EXCEPT ![job[w]] = r]
        /\ c \in {"dead", "leg2", "safe", "unsafe"} /\ (c = "leg2" => r = "funded")
    <3>1. remote = [remote EXCEPT ![job[w]] = remote[job[w]]]
      BY <2>1
    <3> QED
      BY <1>9, <3>1 DEF StripeTransfers, Reply, Does
  <2>3. call[w] = "leg1" /\ Kind(job[w]) = "stripe" /\ UNCHANGED <<status, dest, cash, pc, job, inbox, seen>>
    BY <1>9 DEF StripeTransfers
  <2> HIDE DEF IInv, Booked, Kind, c, r
  <2> QED
    BY <2>1, <2>2, <2>3, AnswerKeepsBooks DEF OpenCall
<1>10. CASE StripePaysOut(w)
  <2>1. job[w] \in Payouts /\ remote[job[w]] = "funded" /\ Kind(job[w]) # "manual"
    BY <1>10 DEF StripePaysOut, ByHand, OpenCall
  <2> DEFINE c == call'[w]
             r == remote'[job[w]]
  <2>2. /\ call' = [call EXCEPT ![w] = c] /\ remote' = [remote EXCEPT ![job[w]] = r]
        /\ c \in {"dead", "ok", "okpaid", "reverse"} /\ (c = "okpaid" => r = "paid")
    <3>1. remote = [remote EXCEPT ![job[w]] = remote[job[w]]]
      BY <2>1
    <3> QED
      BY <1>10, <3>1 DEF StripePaysOut, Reply, Does
  <2>3. /\ call[w] = "leg2" /\ UNCHANGED <<status, dest, cash, pc, job, seen>>
        /\ \A p \in Payouts : <<p, "paid">> \in inbox' => <<p, "paid">> \in inbox
    BY <1>10 DEF StripePaysOut
  <2> HIDE DEF IInv, Booked, Kind, c, r
  <2> QED
    BY <2>1, <2>2, <2>3, AnswerKeepsBooks DEF OpenCall
<1>11. CASE StripeReverses(w)
  <2>1. job[w] \in Payouts /\ Kind(job[w]) # "manual"
    BY <1>11 DEF StripeReverses, ByHand, OpenCall
  <2> DEFINE c == call'[w]
             r == remote'[job[w]]
  <2>2. /\ call' = [call EXCEPT ![w] = c] /\ remote' = [remote EXCEPT ![job[w]] = r]
        /\ c \in {"dead", "safe", "unsafe"} /\ (remote[job[w]] = "paid" => r = "paid")
    <3>1. remote = [remote EXCEPT ![job[w]] = remote[job[w]]]
      BY <2>1
    <3> QED
      BY <1>11, <3>1 DEF StripeReverses, Reply, Does
  <2>3. call[w] = "reverse" /\ UNCHANGED <<status, dest, cash, pc, job, inbox, seen>>
    BY <1>11 DEF StripeReverses
  <2> HIDE DEF IInv, Booked, Kind, c, r
  <2> QED
    BY <2>1, <2>2, <2>3, AnswerKeepsBooks DEF OpenCall
<1>12. CASE RequestLost(w)
  BY <1>12 DEF RequestLost
<1> QED
  BY <1>1, <1>2, <1>3, <1>4, <1>5, <1>6, <1>7, <1>8, <1>9, <1>10, <1>11, <1>12
  DEF WorkerStep, ProviderAnswers

LEMMA BookedReconciliation ==
  ASSUME Calm, IInv, Booked, Reconciliation PROVE Booked'
<1> USE PayoutAssumption DEF IInv, Typed, Unassigned, TypeOK, settleRest, providerOnly,
     requestVars, bookVars, accountVars, workerVars, remoteVars, viewVars
<1> USE DEF Booked, Traced, Arrived, CashSoFar, Handed, Kind, Sent, Calm
<1> SUFFICES ASSUME NEW p \in Payouts,
                    \/ RemotePays(p) \/ RemoteFails(p) \/ CronPolls(p) \/ CronApplies(p)
                    \/ HookPaid(p) \/ HookFreezes(p) \/ HookReverses(p) \/ HookFails(p)
                    \/ HookDies(p)
             PROVE Booked'
  BY DEF Reconciliation
<1>1. CASE RemotePays(p)
  BY <1>1 DEF RemotePays, Does
<1>2. CASE RemoteFails(p)
  BY <1>2 DEF RemoteFails, Does
<1>3. CASE CronPolls(p)
  BY <1>3 DEF CronPolls, CheckStatus
<1>4. CASE CronApplies(p)
  BY <1>4 DEF CronApplies, MarkPaid, RepeatPaid, MarkFailed, RepeatFailed, Compensated, Known
<1>5. CASE HookPaid(p)
  BY <1>5 DEF HookPaid, Processed
<1>6. CASE HookFreezes(p) \/ HookDies(p)
  BY <1>6 DEF HookFreezes, HookDies, Processed
<1>7. CASE HookReverses(p)
  <2>1. /\ UNCHANGED <<dest, status, cash, pc, job, call, inbox, seen>>
        /\ \/ UNCHANGED remote
           \/ /\ remote[p] \in {"bankfailed", "returned"}
              /\ remote' = [remote EXCEPT ![p] = "returned"]
    BY <1>7 DEF HookReverses, Does
  <2>2. \A q \in Payouts : remote[q] \in {"none", "funded", "paid"} => remote'[q] = remote[q]
    BY <2>1
  <2>3. Traced'
    BY <2>1, <2>2
  <2>4. Arrived' /\ CashSoFar'
    BY <2>1, <2>2
  <2> QED
    BY <2>3, <2>4
<1>8. CASE HookFails(p)
  BY <1>8 DEF HookFails, MarkFailed, RepeatFailed, Compensated, Processed
<1> QED
  BY <1>1, <1>2, <1>3, <1>4, <1>5, <1>6, <1>7, <1>8

LEMMA BookedFraudReview ==
  ASSUME Booked, FraudReview PROVE Booked'
<1>1. UNCHANGED bookedVars
  BY DEF FraudReview, RaiseFlag, DismissFlag, ConfirmBehaviour, ConfirmImpression, ReportAd, moneyRest,
     bookedVars, bookVars, workerVars, remoteVars, viewVars
<1> QED
  BY <1>1, BookedStutter

\* With the payouts' invariant, what the books and the rails say is inductive.
LEMMA BookedAlways == ASSUME Calm PROVE Spec => [](IInv /\ Booked)
<1>1. Init => Booked
  BY PayoutAssumption
  DEF Init, Booked, Traced, Arrived, CashSoFar, Handed
<1>2. IInv /\ Booked /\ [Next]_vars => Booked'
  <2> SUFFICES ASSUME IInv, Booked, [Next]_vars PROVE Booked'
    OBVIOUS
  <2>1. ASSUME UNCHANGED vars PROVE Booked'
    BY <2>1, BookedStutter
    DEF vars, bookedVars, requestVars, bookVars, workerVars, remoteVars, viewVars
  <2> QED
    BY <2>1, BookedRequests, BookedProcessing, BookedReconciliation, BookedFraudReview DEF Next
<1> QED
  BY <1>1, <1>2, Inductive, PTL DEF Spec, Calm

\* A closed payout's cash rows say what happened to the money, whichever path closed it.
THEOREM BooksAlwaysMatch == ASSUME Calm PROVE Spec => []BooksMatchMoney
<1>1. IInv /\ Booked => BooksMatchMoney
  <2> SUFFICES ASSUME IInv, Booked, NEW p \in Payouts, status[p] \in Terminal
               PROVE  ("debit" \in cash[p] /\ "reclaim" \notin cash[p]) <=> remote[p] = "paid"
    BY DEF BooksMatchMoney
  <2>1. CASE status[p] = "paid"
    BY <2>1 DEF Booked, Arrived, CashSoFar
  <2>2. CASE status[p] = "failed"
    BY <2>2 DEF IInv, Known, Booked, CashSoFar
  <2>3. CASE status[p] = "rejected"
    BY <2>3 DEF IInv, Untouched, Booked, CashSoFar
  <2> QED
    BY <2>1, <2>2, <2>3 DEF Terminal
<1> QED
  BY <1>1, BookedAlways, PTL

-------------------------------------------------------------------------------
(* The payout flow implements PayoutSettlement. *)

\* What the abstract payout p may do in one step.
AllowedAt(p) ==
  \/ /\ ClaimOf'[p] = ClaimOf[p]
     /\ \/ MoneyOf'[p] = MoneyOf[p]
        \/ ClaimOf[p] = "reserved" /\ MoneyOf[p] = "home" /\ MoneyOf'[p] = "away"
        \/ MoneyOf[p] = "away" /\ MoneyOf'[p] \in {"out", "back"}
  \/ /\ ClaimOf[p] = "none" /\ ClaimOf'[p] = "reserved" /\ MoneyOf'[p] = MoneyOf[p]
  \/ /\ ClaimOf[p] = "reserved" /\ ClaimOf'[p] = "settled"
     /\ MoneyOf[p] \in {"home", "out"} /\ MoneyOf'[p] = "out"
  \/ /\ ClaimOf[p] = "reserved" /\ ClaimOf'[p] = "released"
     /\ MoneyOf[p] \in {"home", "back"} /\ MoneyOf'[p] = MoneyOf[p]

\* The other payouts look as they did.
Elsewhere(p) == \A q \in Payouts \ {p} : ClaimOf'[q] = ClaimOf[q] /\ MoneyOf'[q] = MoneyOf[q]

LEMMA Simulated ==
  ASSUME NEW p \in Payouts, Elsewhere(p), AllowedAt(p)
  PROVE  [Settlement!Next]_<<ClaimOf, MoneyOf>>
<1> DEFINE C == ClaimOf
           M == MoneyOf
<1>1. /\ C = [q \in Payouts |-> C[q]] /\ C' = [q \in Payouts |-> C'[q]]
      /\ M = [q \in Payouts |-> M[q]] /\ M' = [q \in Payouts |-> M'[q]]
  BY DEF ClaimOf, MoneyOf
<1> HIDE DEF C, M
<1>2. \A q \in Payouts \ {p} : C'[q] = C[q] /\ M'[q] = M[q]
  BY DEF Elsewhere, C, M
<1>3. C' = [C EXCEPT ![p] = C'[p]] /\ M' = [M EXCEPT ![p] = M'[p]]
  BY <1>1, <1>2
<1>4. C'[p] = C[p] => C' = C
  BY <1>1, <1>2
<1>5. M'[p] = M[p] => M' = M
  BY <1>1, <1>2
<1>6. CASE C'[p] = C[p] /\ M'[p] = M[p]
  BY <1>4, <1>5, <1>6 DEF C, M
<1>7. CASE C'[p] = C[p] /\ C[p] = "reserved" /\ M[p] = "home" /\ M'[p] = "away"
  <2>1. Settlement!Send(p)
    BY <1>3, <1>4, <1>7 DEF Settlement!Send, Settlement!Move, C, M
  <2> QED
    BY <2>1 DEF Settlement!Next
<1>8. CASE C'[p] = C[p] /\ M[p] = "away" /\ M'[p] \in {"out", "back"}
  <2>1. Settlement!Arrive(p) \/ Settlement!ComeBack(p)
    BY <1>3, <1>4, <1>8 DEF Settlement!Arrive, Settlement!ComeBack, Settlement!Move, C, M
  <2> QED
    BY <2>1 DEF Settlement!Next
<1>9. CASE C[p] = "none" /\ C'[p] = "reserved" /\ M'[p] = M[p]
  <2>1. Settlement!Reserve(p)
    BY <1>3, <1>5, <1>9 DEF Settlement!Reserve, Settlement!Turn, C, M
  <2> QED
    BY <2>1 DEF Settlement!Next
<1>10. CASE C[p] = "reserved" /\ C'[p] = "settled" /\ M[p] \in {"home", "out"} /\ M'[p] = "out"
  <2>1. Settlement!PayByHand(p) \/ Settlement!Settle(p)
    BY <1>3, <1>5, <1>10
    DEF Settlement!PayByHand, Settlement!Settle, Settlement!Turn, Settlement!Move, C, M
  <2> QED
    BY <2>1 DEF Settlement!Next
<1>11. CASE C[p] = "reserved" /\ C'[p] = "released" /\ M[p] \in {"home", "back"} /\ M'[p] = M[p]
  <2>1. Settlement!Release(p)
    BY <1>3, <1>5, <1>11 DEF Settlement!Release, Settlement!Turn, C, M
  <2> QED
    BY <2>1 DEF Settlement!Next
<1> QED
  BY <1>6, <1>7, <1>8, <1>9, <1>10, <1>11 DEF AllowedAt, C, M

\* Steps that close, open or claim one payout and move no money.
LEMMA ClaimTurns ==
  ASSUME NEW p \in Payouts, \A q \in Payouts \ {p} : status'[q] = status[q]
  PROVE  \A q \in Payouts \ {p} : ClaimOf'[q] = ClaimOf[q]
  BY DEF ClaimOf

LEMMA MoneyRests ==
  ASSUME NEW p \in Payouts, remote'[p] = remote[p], CallOpen(p)' <=> CallOpen(p), Sent(p)' <=> Sent(p)
  PROVE  MoneyOf'[p] = MoneyOf[p]
  BY DEF MoneyOf, MoneyOut

\* The calls of a payout are those of its one worker.
LEMMA OwnerSpeaks ==
  ASSUME IInv, NEW w \in Workers, job[w] # NoPayout
  PROVE  /\ CallOpen(job[w]) <=> call[w] \in OpenCall
         /\ Sent(job[w]) <=> call[w] # "none" /\ Kind(job[w]) # "manual"
  BY DEF IInv, OneInitiation, CallOpen, Sent

\* A step of the calls and transfers of one payout is not seen by the others.
LEMMA MoneyElsewhere ==
  ASSUME NEW p \in Payouts, UNCHANGED <<dest, job>>,
         \A q \in Payouts \ {p} : remote'[q] = remote[q],
         \A w \in Workers : job[w] # p => call'[w] = call[w]
  PROVE  \A q \in Payouts \ {p} : MoneyOf'[q] = MoneyOf[q]
<1> SUFFICES ASSUME NEW q \in Payouts \ {p} PROVE MoneyOf'[q] = MoneyOf[q]
  OBVIOUS
<1>1. CallOpen(q)' <=> CallOpen(q)
  BY DEF CallOpen
<1>2. Sent(q)' <=> Sent(q)
  BY DEF Sent, Kind
<1> QED
  BY <1>1, <1>2, MoneyRests

\* The four settling transitions, for whoever knows what they need to know.
LEMMA SettlingAllowed ==
  ASSUME IInv, IInv', Booked, Booked', NEW p \in Payouts,
         UNCHANGED <<dest, job, call, remote>>,
         \/ \E payable, row : MarkPaid(p, payable, row)
         \/ RepeatPaid(p) \/ MarkFailed(p) \/ RepeatFailed(p)
         \/ UNCHANGED status
  PROVE  Elsewhere(p) /\ AllowedAt(p)
<1> USE DEF IInv, Typed, TypeOK
<1>1. \A q \in Payouts \ {p} : status'[q] = status[q]
  BY DEF MarkPaid, RepeatPaid, MarkFailed, RepeatFailed
<1>2. Elsewhere(p)
  BY <1>1, ClaimTurns, MoneyElsewhere DEF Elsewhere
<1>3. MoneyOf'[p] = MoneyOf[p]
  BY MoneyRests DEF CallOpen, Sent, Kind
<1>4. CASE status'[p] = status[p]
  BY <1>2, <1>3, <1>4 DEF AllowedAt, ClaimOf
<1>5. CASE status[p] \in {"approved", "processing"} /\ status'[p] = "paid"
  <2>1. remote[p] = "paid"
    BY <1>5 DEF Booked, Arrived
  <2> QED
    BY <1>2, <1>3, <1>5, <2>1 DEF AllowedAt, ClaimOf, MoneyOf, Reserved
<1>6. CASE status[p] \in {"approved", "processing"} /\ status'[p] = "failed"
  <2>1. remote[p] \in {"none", "returned"}
    BY <1>6 DEF Known
  <2>2. ~CallOpen(p)
    BY <1>6, PayoutAssumption DEF CallOpen, Told
  <2>3. MoneyOf[p] \in {"home", "back"}
    BY <2>1, <2>2 DEF MoneyOf, MoneyOut
  <2> QED
    BY <1>2, <1>3, <1>6, <2>3 DEF AllowedAt, ClaimOf, Reserved
<1> QED
  BY <1>4, <1>5, <1>6 DEF MarkPaid, RepeatPaid, MarkFailed, RepeatFailed

\* A step of the mapped payout p, or of none.
Maps(p) == Elsewhere(p) /\ AllowedAt(p)

\* What changes neither status nor money nor a call is not seen at all.
LEMMA Unseen ==
  ASSUME UNCHANGED <<status, dest, remote, job, call>> PROVE UNCHANGED <<ClaimOf, MoneyOf>>
  BY DEF ClaimOf, MoneyOf, MoneyOut, CallOpen, Sent, Kind

LEMMA RequestsMap ==
  ASSUME IInv, IInv', Booked, Booked', Developer \/ Operators
  PROVE  UNCHANGED <<ClaimOf, MoneyOf>> \/ \E p \in Payouts : Maps(p)
<1> USE PayoutAssumption DEF IInv, Typed, TypeOK, requestVars, bookVars, accountVars, workerVars,
      remoteVars, viewVars
<1>1. ASSUME NEW a \in Accounts,
             \/ RemoveMethod(a) \/ SetAccountVerified(a) \/ FreezeAccount(a)
             \/ UnfreezeAccount(a) \/ ReadFence(a) \/ ReleaseFence(a)
      PROVE UNCHANGED <<ClaimOf, MoneyOf>>
  BY <1>1, Unseen
  DEF RemoveMethod, SetAccountVerified, FreezeAccount, UnfreezeAccount, ReadFence, ReleaseFence
<1>2. ASSUME NEW p \in Payouts, AdminRepeatsPaid(p) PROVE Maps(p)
  BY <1>2, SettlingAllowed DEF AdminRepeatsPaid, settleRest, Maps
<1>3. ASSUME NEW a \in Accounts, NEW p \in Payouts, RequestPayout(p, a) PROVE Maps(p)
  <2>1. /\ status[p] = "none" /\ status' = [status EXCEPT ![p] = "requested"]
        /\ \A q \in Payouts \ {p} : dest'[q] = dest[q]
        /\ UNCHANGED <<remote, job, call>>
    BY <1>3 DEF RequestPayout
  <2>2. \A q \in Payouts \ {p} : MoneyOf'[q] = MoneyOf[q]
    BY <2>1 DEF MoneyOf, MoneyOut, CallOpen, Sent, Kind
  <2>3. \A w \in Workers : job[w] # p
    BY <2>1 DEF Owned
  <2>4. MoneyOf'[p] = MoneyOf[p]
    BY <2>1, <2>3, MoneyRests DEF CallOpen, Sent
  <2> QED
    BY <2>1, <2>2, <2>4, ClaimTurns DEF Maps, Elsewhere, AllowedAt, ClaimOf, Reserved
<1>4. ASSUME NEW p \in Payouts, ApprovePayout(p) \/ RejectPayout(p) PROVE Maps(p)
  <2>1. /\ status[p] \in {"requested", "approved"}
        /\ \E s \in {"approved", "rejected"} : status' = [status EXCEPT ![p] = s]
        /\ UNCHANGED <<dest, remote, job, call>>
    BY <1>4 DEF ApprovePayout, RejectPayout, Rejectable
  <2>2. \A w \in Workers : job[w] # p
    BY <2>1 DEF Owned
  <2>3. MoneyOf[p] = "home" /\ MoneyOf'[p] = "home"
    BY <2>1, <2>2 DEF MoneyOf, MoneyOut, CallOpen, Sent, Untouched
  <2>4. Elsewhere(p)
    BY <2>1, ClaimTurns, MoneyElsewhere DEF Elsewhere
  <2> QED
    BY <2>1, <2>3, <2>4 DEF Maps, AllowedAt, ClaimOf, Reserved
<1>5. ASSUME NEW p \in Payouts, NEW s \in {"approved", "processing"}, AdminMarkPaid(p, s)
      PROVE Maps(p)
  <2>1. CASE UNCHANGED remote
    BY <1>5, <2>1, SettlingAllowed DEF AdminMarkPaid, settleRest, Maps
  <2>2. CASE Kind(p) = "manual" /\ remote' = [remote EXCEPT ![p] = "paid"]
    <3>1. /\ status[p] \in {"approved", "processing"} /\ status' = [status EXCEPT ![p] = "paid"]
          /\ UNCHANGED <<dest, job, call>>
      BY <1>5 DEF AdminMarkPaid, MarkPaid, settleRest
    <3>2. Elsewhere(p)
      BY <2>2, <3>1, ClaimTurns, MoneyElsewhere DEF Elsewhere
    <3>3. MoneyOf'[p] = "out"
      BY <2>2 DEF MoneyOf
    <3>4. remote[p] \in {"none", "paid"} /\ ~CallOpen(p) /\ ~Sent(p)
      BY <2>2, <3>1 DEF ByHand, CallOpen, Sent
    <3>5. MoneyOf[p] \in {"home", "out"}
      BY <3>4 DEF MoneyOf, MoneyOut
    <3> QED
      BY <3>1, <3>2, <3>3, <3>5 DEF Maps, AllowedAt, ClaimOf, Reserved
  <2> QED
    BY <1>5, <2>1, <2>2 DEF AdminMarkPaid
<1> QED
  BY <1>1, <1>2, <1>3, <1>4, <1>5 DEF Developer, Operators

\* The end of a leg of a call, or of the call, whatever it did to the money.
LEMMA CallMaps ==
  ASSUME IInv, NEW w \in Workers, call[w] \in OpenCall, NEW c, c # "none",
         call' = [call EXCEPT ![w] = c], UNCHANGED <<status, dest, job>>,
         NEW r \in RemoteStatus, remote' = [remote EXCEPT ![job[w]] = r],
         remote[job[w]] = "paid" => r = "paid"
  PROVE  job[w] \in Payouts /\ Maps(job[w])
<1> USE PayoutAssumption DEF IInv, Typed, Unassigned, TypeOK
<1>1. job[w] \in Payouts /\ Kind(job[w]) # "manual"
  BY DEF ByHand, OpenCall
<1>2. Elsewhere(job[w])
  BY <1>1, ClaimTurns, MoneyElsewhere DEF Elsewhere
<1>3. MoneyOf[job[w]] = IF remote[job[w]] = "paid" THEN "out" ELSE "away"
  BY <1>1, OwnerSpeaks DEF MoneyOf
<1>4. Sent(job[w])'
  BY <1>1 DEF Sent, Kind
<1>5. MoneyOf'[job[w]] \in {"out", "away", "back"}
  BY <1>1, <1>4 DEF MoneyOf
<1>6. remote[job[w]] = "paid" => MoneyOf'[job[w]] = "out"
  BY <1>1 DEF MoneyOf
<1> QED
  BY <1>1, <1>2, <1>3, <1>5, <1>6 DEF Maps, AllowedAt, ClaimOf

LEMMA ProcessingMaps ==
  ASSUME IInv, IInv', Booked, Booked', Processing
  PROVE  UNCHANGED <<ClaimOf, MoneyOf>> \/ \E p \in Payouts : Maps(p)
<1> USE PayoutAssumption DEF IInv, Typed, Unassigned, TypeOK, Goto, workerOnly, requestVars, bookVars,
      accountVars, workerVars, remoteVars, viewVars
<1> SUFFICES ASSUME NEW w \in Workers,
                    \/ \E p \in Payouts : Claim(w, p)
                    \/ WorkerStep(w) \/ Timeout(w) \/ Crash(w)
                    \/ ProviderAnswers(w) \/ RequestLost(w)
             PROVE UNCHANGED <<ClaimOf, MoneyOf>> \/ \E p \in Payouts : Maps(p)
  BY DEF Processing
<1>1. ASSUME NEW p \in Payouts, Claim(w, p) PROVE UNCHANGED <<ClaimOf, MoneyOf>>
  <2>1. /\ status[p] = "approved" /\ status' = [status EXCEPT ![p] = "processing"]
        /\ job[w] = NoPayout /\ call[w] = "none" /\ job' = [job EXCEPT ![w] = p]
        /\ UNCHANGED <<dest, remote, call>>
    BY <1>1 DEF Claim, Claimable, PcMatchesCall
  <2>2. \A q \in Payouts : (CallOpen(q)' <=> CallOpen(q)) /\ (Sent(q)' <=> Sent(q))
    BY <2>1 DEF CallOpen, Sent, OpenCall, Kind
  <2> QED
    BY <2>1, <2>2 DEF ClaimOf, MoneyOf, MoneyOut, Reserved
<1>2. CASE BreakerRejects(w) \/ Answer(w) \/ Bind(w) \/ Finally(w) \/ Timeout(w) \/ Crash(w)
  BY <1>2, Unseen DEF BreakerRejects, Answer, Bind, Finally, Timeout, Crash
<1>3. CASE CallProvider(w)
  <2>1. job[w] \in Payouts /\ call[w] = "none"
    BY <1>3 DEF CallProvider, PcMatchesCall
  <2>2. UNCHANGED <<status, dest, remote, job>> /\ \A v \in Workers \ {w} : call'[v] = call[v]
    BY <1>3 DEF CallProvider
  <2>3. Elsewhere(job[w])
    BY <2>1, <2>2, ClaimTurns, MoneyElsewhere DEF Elsewhere
  <2>4. CASE Kind(job[w]) = "manual"
    <3>1. call'[w] = "ok"
      BY <1>3, <2>4 DEF CallProvider
    <3>2. (CallOpen(job[w])' <=> CallOpen(job[w])) /\ (Sent(job[w])' <=> Sent(job[w]))
      BY <2>1, <2>2, <2>4, <3>1 DEF CallOpen, OpenCall, Sent, Kind
    <3>3. MoneyOf'[job[w]] = MoneyOf[job[w]]
      BY <2>1, <2>2, <3>2, MoneyRests
    <3>4. Maps(job[w])
      BY <2>1, <2>2, <2>3, <3>3 DEF Maps, AllowedAt, ClaimOf
    <3> QED
      BY <2>1, <3>4
  <2>5. CASE Kind(job[w]) # "manual"
    <3>1. call'[w] = "leg1"
      BY <1>3, <2>5 DEF CallProvider
    <3>2. remote[job[w]] = "none"
      BY <2>1, <2>5 DEF Booked, Traced, Handed
    <3>3. status[job[w]] = "processing"
      BY <1>3, <2>1, <3>2 DEF CallProvider, Owned, Told, Booked, Arrived
    <3>4. MoneyOf[job[w]] = "home"
      BY <2>1, <3>2, OwnerSpeaks DEF MoneyOf, MoneyOut, OpenCall
    <3>5. CallOpen(job[w])'
      BY <2>2, <3>1 DEF CallOpen, OpenCall
    <3>6. MoneyOf'[job[w]] = "away"
      BY <2>1, <2>2, <3>2, <3>5 DEF MoneyOf
    <3>7. Maps(job[w])
      BY <2>1, <2>2, <2>3, <3>3, <3>4, <3>6 DEF Maps, AllowedAt, ClaimOf, Reserved
    <3> QED
      BY <2>1, <3>7
  <2> QED
    BY <2>4, <2>5
<1>4. CASE WorkerPays(w) \/ WorkerFails(w)
  <2>1. job[w] \in Payouts
    BY <1>4 DEF WorkerPays, WorkerFails
  <2> QED
    BY <1>4, <2>1, SettlingAllowed DEF WorkerPays, WorkerFails, settleRest, Maps
<1>5. CASE ProviderAnswers(w) \/ RequestLost(w)
  <2>1. /\ call[w] \in OpenCall /\ job[w] \in Payouts /\ Kind(job[w]) # "manual"
        /\ UNCHANGED <<status, dest, job>>
    <3>1. call[w] \in OpenCall /\ UNCHANGED <<status, dest, job>>
      BY <1>5 DEF ProviderAnswers, PspAnswers, StripeTransfers, StripePaysOut, StripeReverses,
         RequestLost, OpenCall
    <3> QED
      BY <3>1 DEF ByHand, OpenCall
  <2>2. \E c \in Call \ {"none"} : call' = [call EXCEPT ![w] = c]
    BY <1>5 DEF ProviderAnswers, PspAnswers, StripeTransfers, StripePaysOut, StripeReverses,
       RequestLost, Reply, Call, OpenCall
  <2>3. remote[job[w]] = "paid" => call[w] = "reverse"
    BY <2>1 DEF Booked, Traced, Handed, OpenCall
  <2>4. \E r \in RemoteStatus : /\ remote' = [remote EXCEPT ![job[w]] = r]
                                /\ remote[job[w]] = "paid" => r = "paid"
    <3>1. CASE UNCHANGED remote
      BY <2>1, <3>1
    <3>2. CASE PspAnswers(w) \/ StripeTransfers(w) \/ StripePaysOut(w)
      BY <2>1, <2>3, <3>1, <3>2 DEF PspAnswers, StripeTransfers, StripePaysOut, Does, RemoteStatus
    <3>3. CASE StripeReverses(w) \/ RequestLost(w)
      BY <2>1, <3>1, <3>3 DEF StripeReverses, RequestLost, Does, RemoteStatus
    <3> QED
      BY <1>5, <3>2, <3>3 DEF ProviderAnswers
  <2>5. Maps(job[w])
    BY <2>1, <2>2, <2>4, CallMaps
  <2> QED
    BY <2>1, <2>5
<1> QED
  BY <1>1, <1>2, <1>3, <1>4, <1>5 DEF WorkerStep

\* A transfer moves on at the provider or the bank.
LEMMA TransferMaps ==
  ASSUME IInv, Booked, NEW p \in Payouts, remote[p] \in {"pending", "bankfailed", "returned"},
         NEW r \in {"paid", "bankfailed", "returned"}, remote[p] = "returned" => r = "returned",
         remote' = [remote EXCEPT ![p] = r], UNCHANGED <<status, dest, job, call>>
  PROVE  Maps(p)
<1> USE PayoutAssumption DEF IInv, Typed, TypeOK
<1>1. Elsewhere(p)
  BY ClaimTurns, MoneyElsewhere DEF Elsewhere
<1>2. Sent(p)
  BY DEF Booked, Traced, Untouched, ByHand
<1>3. Sent(p)' /\ (CallOpen(p)' <=> CallOpen(p))
  BY <1>2 DEF Sent, CallOpen, Kind
<1>4. MoneyOf[p] = IF remote[p] = "returned" /\ ~CallOpen(p) THEN "back" ELSE "away"
  BY <1>2 DEF MoneyOf, MoneyOut
<1>5. MoneyOf'[p] = IF r = "paid" THEN "out"
                    ELSE IF r = "returned" /\ ~CallOpen(p) THEN "back" ELSE "away"
  BY <1>3 DEF MoneyOf, MoneyOut
<1> QED
  BY <1>1, <1>4, <1>5 DEF Maps, AllowedAt, ClaimOf

LEMMA ReconciliationMaps ==
  ASSUME Calm, IInv, IInv', Booked, Booked', Reconciliation
  PROVE  UNCHANGED <<ClaimOf, MoneyOf>> \/ \E p \in Payouts : Maps(p)
<1> USE PayoutAssumption DEF IInv, Typed, TypeOK, settleRest, providerOnly, requestVars, bookVars,
      accountVars, workerVars, remoteVars, viewVars
<1> SUFFICES ASSUME NEW p \in Payouts,
                    \/ RemotePays(p) \/ RemoteFails(p) \/ CronPolls(p) \/ CronApplies(p)
                    \/ HookPaid(p) \/ HookFreezes(p) \/ HookReverses(p) \/ HookFails(p)
                    \/ HookDies(p)
             PROVE UNCHANGED <<ClaimOf, MoneyOf>> \/ Maps(p)
  BY DEF Reconciliation
<1>1. CASE RemotePays(p) \/ RemoteFails(p)
  BY <1>1, TransferMaps DEF RemotePays, RemoteFails, Does, Calm
<1>2. CASE CronPolls(p) \/ HookFreezes(p) \/ HookDies(p)
  BY <1>2, Unseen DEF CronPolls, HookFreezes, HookDies
<1>3. CASE CronApplies(p) \/ HookFails(p)
  BY <1>3, SettlingAllowed DEF CronApplies, HookFails, Maps
<1>4. CASE HookPaid(p)
  <2>1. CASE UNCHANGED status
    BY <1>4, <2>1, Unseen DEF HookPaid
  <2>2. CASE status[p] \in {"approved", "processing"} /\ status' = [status EXCEPT ![p] = "paid"]
    <3>1. UNCHANGED <<dest, remote, job, call>> /\ remote[p] = "paid"
      BY <1>4 DEF HookPaid, Booked, Arrived
    <3>2. Elsewhere(p)
      BY <2>2, <3>1, ClaimTurns, MoneyElsewhere DEF Elsewhere
    <3> QED
      BY <2>2, <3>1, <3>2 DEF Maps, AllowedAt, ClaimOf, MoneyOf, Reserved
  <2> QED
    BY <1>4, <2>1, <2>2 DEF HookPaid
<1>5. CASE HookReverses(p)
  BY <1>5, TransferMaps, Unseen DEF HookReverses, Does
<1> QED
  BY <1>1, <1>2, <1>3, <1>4, <1>5

\* The workers, fences, webhook and cron together keep PayoutSettlement's promise: money
\* leaves once, for a reserved claim, and a claim is settled or released only when it is
\* known where its money is.
THEOREM Implements == ASSUME Calm PROVE Spec => ImplementsSettlement
<1>1. Init => Settlement!Init
  <2> SUFFICES ASSUME Init PROVE Settlement!Init
    OBVIOUS
  <2>1. \A p \in Payouts : ~CallOpen(p) /\ ~Sent(p)
    BY DEF Init, CallOpen, OpenCall, Sent
  <2>2. \A p \in Payouts : status[p] = "none" /\ remote[p] = "none"
    BY DEF Init
  <2> QED
    BY <2>1, <2>2 DEF Settlement!Init, ClaimOf, MoneyOf, MoneyOut, Reserved
<1>2. /\ IInv /\ Booked /\ (IInv /\ Booked)' /\ [Next]_vars
      => [Settlement!Next]_<<ClaimOf, MoneyOf>>
  <2> SUFFICES ASSUME IInv, Booked, IInv', Booked', [Next]_vars
               PROVE  [Settlement!Next]_<<ClaimOf, MoneyOf>>
    OBVIOUS
  <2>1. CASE UNCHANGED vars
    BY <2>1, Unseen DEF vars, requestVars, workerVars, remoteVars
  <2>2. CASE FraudReview
    BY <2>2, Unseen
    DEF FraudReview, RaiseFlag, DismissFlag, ConfirmBehaviour, ConfirmImpression, ReportAd, moneyRest,
        workerVars, remoteVars
  <2>3. UNCHANGED <<ClaimOf, MoneyOf>> \/ \E p \in Payouts : Maps(p)
    BY <2>1, <2>2, RequestsMap, ProcessingMaps, ReconciliationMaps, Unseen
    DEF Next, FraudReview, RaiseFlag, DismissFlag, ConfirmBehaviour, ConfirmImpression, ReportAd, moneyRest,
        vars, requestVars, workerVars, remoteVars
  <2> QED
    BY <2>3, Simulated DEF Maps
<1> QED
  BY <1>1, <1>2, BookedAlways, PTL DEF Spec, ImplementsSettlement, Settlement!Spec
===============================================================================
