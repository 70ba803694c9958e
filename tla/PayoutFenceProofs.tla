--------------------------- MODULE PayoutFenceProofs ---------------------------
(* The fence of an unresolved initiation, the finality of closed payouts and *)
(* the agreement of rows and status, for any payouts, destinations, workers  *)
(* and rails.                                                                *)
EXTENDS PayoutProcessingProofs

\* The only invocation of p was told, or knows, that nothing was sent, and is over.
GaveUp(p) ==
  \E w \in Workers : job[w] = p /\ call[w] \in {"none", "safe"} /\ pc[w] \in {"done", "crashed"}

Unbound(p) == status[p] = "processing" /\ txn[p] = "placeholder"

\* A requested payout has a destination.
Destined == \A p \in Payouts : status[p] # "none" => dest[p] \in Accounts

\* The fence of a payout without its provider id is missing only after its invocation
\* gave up.
FenceKept == \A p \in Payouts : Unbound(p) => fence[dest[p]] = p \/ GaveUp(p)

\* An invocation that is about to release the fence knows the outcome.
Releasing ==
  \A w \in Workers, p \in Payouts :
    job[w] = p /\ pc[w] = "finally" /\ Unbound(p) => call[w] \in {"none", "safe"}

Fenced == Destined /\ FenceKept /\ Releasing /\ \A a \in Accounts : noted[a] = NoPayout

LEMMA InitFenced == Init => Fenced
  BY DEF Init, Fenced, Destined, FenceKept, Releasing, Unbound

-------------------------------------------------------------------------------
\* What an invocation that gave up knows stays so: it takes no more steps.
LEMMA GaveUpForGood ==
  ASSUME IInv, [Next]_vars, NEW p \in Payouts, GaveUp(p) PROVE GaveUp(p)'
<1> USE PayoutAssumption DEF IInv, Typed, TypeOK
<1> PICK w \in Workers : job[w] = p /\ call[w] \in {"none", "safe"} /\ pc[w] \in {"done", "crashed"}
  BY DEF GaveUp
<1> SUFFICES job'[w] = job[w] /\ call'[w] = call[w] /\ pc'[w] \in {"done", "crashed"}
  BY DEF GaveUp
<1>1. ASSUME UNCHANGED workerVars
      PROVE  job'[w] = job[w] /\ call'[w] = call[w] /\ pc'[w] \in {"done", "crashed"}
  BY <1>1 DEF workerVars
<1>2. ASSUME NEW v \in Workers, NEW q \in Payouts, Claim(v, q)
      PROVE  job'[w] = job[w] /\ call'[w] = call[w] /\ pc'[w] \in {"done", "crashed"}
  BY <1>2 DEF Claim, Goto
<1>3. ASSUME NEW v \in Workers, WorkerStep(v) \/ Timeout(v) \/ Crash(v)
      PROVE  job'[w] = job[w] /\ call'[w] = call[w] /\ pc'[w] \in {"done", "crashed"}
  <2>1. CASE BreakerRejects(v) \/ CallProvider(v) \/ Answer(v) \/ Timeout(v) \/ Crash(v)
    BY <2>1 DEF BreakerRejects, CallProvider, Answer, Timeout, Crash, Goto, workerOnly
  <2>2. CASE Bind(v) \/ Finally(v)
    BY <2>2 DEF Bind, Finally, Goto
  <2>3. CASE WorkerPays(v) \/ WorkerFails(v)
    BY <2>3 DEF WorkerPays, WorkerFails, Goto
  <2> QED
    BY <1>3, <2>1, <2>2, <2>3 DEF WorkerStep
<1>4. ASSUME NEW v \in Workers, ProviderAnswers(v) \/ RequestLost(v)
      PROVE  job'[w] = job[w] /\ call'[w] = call[w] /\ pc'[w] \in {"done", "crashed"}
  BY <1>4
  DEF ProviderAnswers, PspAnswers, StripeTransfers, StripePaysOut, StripeReverses, RequestLost,
      Reply, workerOnly, OpenCall
<1>5. CASE Developer \/ Operators
  BY <1>1, <1>5
  DEF Developer, Operators, RemoveMethod, RequestPayout, ApprovePayout, RejectPayout,
      AdminRepeatsPaid, AdminMarkPaid, SetAccountVerified, FreezeAccount, UnfreezeAccount,
      ReadFence, ReleaseFence
<1>6. CASE Reconciliation
  BY <1>1, <1>6
  DEF Reconciliation, RemotePays, RemoteFails, CronPolls, CronApplies, HookPaid, HookFreezes,
      HookReverses, HookFails, HookDies, providerOnly
<1>7. CASE FraudReview
  BY <1>1, <1>7
  DEF FraudReview, RaiseFlag, DismissFlag, ConfirmBehaviour, ConfirmImpression, ReportAd, moneyRest
<1> QED
  BY <1>1, <1>2, <1>3, <1>4, <1>5, <1>6, <1>7 DEF Next, Processing, vars

\* A step that brings no payout into an unbound initiation keeps the fences if it
\* clears only that of a payout it closes, or whose invocation gave up with it.
LEMMA FenceStays ==
  ASSUME IInv, [Next]_vars, FenceKept, dest' = dest,
         \A p \in Payouts : Unbound(p)' =>
           Unbound(p) /\ (fence[dest[p]] = p => fence'[dest[p]] = p \/ GaveUp(p)')
  PROVE  FenceKept'
<1> SUFFICES ASSUME NEW p \in Payouts, Unbound(p)' PROVE (fence[dest[p]] = p \/ GaveUp(p))'
  BY DEF FenceKept
<1>1. fence[dest[p]] = p \/ GaveUp(p)
  BY DEF FenceKept
<1> QED
  BY <1>1, GaveUpForGood

LEMMA FencedStep ==
  ASSUME "release" \notin Env, IInv, [Next]_vars, Fenced PROVE Fenced'
<1> USE PayoutAssumption DEF IInv, Typed, TypeOK, requestVars, bookVars, accountVars, workerVars,
      remoteVars, viewVars
\* Steps that change neither the payouts' progress nor the fences.
<1>1. ASSUME UNCHANGED <<status, dest, txn, fence, noted>>,
             \A w \in Workers : /\ job'[w] = job[w]
                                /\ pc'[w] = "finally" => pc[w] = "finally"
                                /\ call[w] \in {"none", "safe"} => call'[w] = call[w] \/ pc'[w] # "finally"
      PROVE  Fenced'
  <2>1. Destined' /\ \A a \in Accounts : noted'[a] = NoPayout
    BY <1>1 DEF Fenced, Destined
  <2>2. Releasing'
    BY <1>1 DEF Fenced, Releasing, Unbound
  <2>3. FenceKept'
    BY <1>1, FenceStays DEF Fenced, Unbound
  <2> QED
    BY <2>1, <2>2, <2>3 DEF Fenced
\* Steps that close one open payout, or find it closed, and clear its fence.
<1>2. ASSUME NEW p \in Payouts, status[p] # "none",
             \E s \in {"paid", "failed"} : status' = [status EXCEPT ![p] = s],
             fence' = FenceCleared(p) \/ fence' = fence,
             \A q \in Payouts \ {p} : txn'[q] = txn[q],
             UNCHANGED <<dest, noted, job, call>>,
             \A w \in Workers : pc'[w] = "finally" => pc[w] = "finally" \/ job[w] = p
      PROVE  Fenced'
  <2>1. Destined' /\ \A a \in Accounts : noted'[a] = NoPayout
    BY <1>2 DEF Fenced, Destined
  <2>2. Releasing'
    BY <1>2 DEF Fenced, Releasing, Unbound
  <2>3. \A q \in Payouts : Unbound(q)' => Unbound(q) /\ q # p
    BY <1>2 DEF Unbound
  <2>4. \A q \in Payouts : q # p /\ fence[dest[q]] = q /\ status[q] # "none" => fence'[dest[q]] = q
    BY <1>2 DEF FenceCleared, Fenced, Destined
  <2>5. FenceKept'
    BY <1>2, <2>3, <2>4, FenceStays DEF Fenced, Unbound
  <2> QED
    BY <2>1, <2>2, <2>5 DEF Fenced
<1>3. CASE Developer
  <2>1. ASSUME NEW a \in Accounts, RemoveMethod(a) PROVE Fenced'
    BY <1>1, <2>1 DEF RemoveMethod
  <2>2. ASSUME NEW a \in Accounts, NEW p \in Payouts, RequestPayout(p, a) PROVE Fenced'
    <3>1. Destined' /\ Releasing' /\ \A b \in Accounts : noted'[b] = NoPayout
      BY <2>2 DEF RequestPayout, Fenced, Destined, Releasing, Unbound
    <3>2. ASSUME NEW q \in Payouts, Unbound(q)' PROVE (fence[dest[q]] = q \/ GaveUp(q))'
      <4>1. Unbound(q) /\ q # p /\ dest'[q] = dest[q] /\ fence' = fence
        BY <2>2, <3>2 DEF RequestPayout, Unbound
      <4> QED
        BY <4>1, GaveUpForGood DEF Fenced, FenceKept
    <3> QED
      BY <3>1, <3>2 DEF Fenced, FenceKept
  <2> QED
    BY <1>3, <2>1, <2>2 DEF Developer
<1>4. CASE Operators
  <2>1. ASSUME NEW p \in Payouts, ApprovePayout(p) \/ RejectPayout(p) PROVE Fenced'
    <3>1. /\ UNCHANGED <<dest, txn, fence, noted, job, pc, call>>
          /\ status[p] # "none" /\ \E s \in Status : status' = [status EXCEPT ![p] = s]
          /\ status'[p] # "processing"
      BY <2>1 DEF ApprovePayout, RejectPayout, Rejectable, Status
    <3>2. Destined' /\ Releasing' /\ \A b \in Accounts : noted'[b] = NoPayout
      BY <3>1 DEF Fenced, Destined, Releasing, Unbound
    <3>3. FenceKept'
      BY <3>1, FenceStays DEF Fenced, Unbound
    <3> QED
      BY <3>2, <3>3 DEF Fenced
  <2>2. ASSUME NEW p \in Payouts, NEW s \in {"approved", "processing"}, AdminMarkPaid(p, s)
        PROVE Fenced'
    <3>1. \A q \in Payouts \ {p} : txn'[q] = txn[q]
      BY <2>2 DEF AdminMarkPaid, MarkPaid
    <3> QED
      BY <1>2, <2>2, <3>1 DEF AdminMarkPaid, MarkPaid, settleRest
  <2>3. ASSUME NEW p \in Payouts, AdminRepeatsPaid(p) PROVE Fenced'
    <3>1. status[p] = "paid" /\ status' = [status EXCEPT ![p] = "paid"]
      BY <2>3 DEF AdminRepeatsPaid, RepeatPaid
    <3> QED
      BY <1>2, <2>3, <3>1 DEF AdminRepeatsPaid, RepeatPaid, settleRest
  <2>4. ASSUME NEW a \in Accounts,
               SetAccountVerified(a) \/ FreezeAccount(a) \/ UnfreezeAccount(a)
        PROVE Fenced'
    BY <1>1, <2>4 DEF SetAccountVerified, FreezeAccount, UnfreezeAccount
  <2>5. ASSUME NEW a \in Accounts PROVE ~ReadFence(a) /\ ~ReleaseFence(a)
    BY DEF ReadFence, ReleaseFence, Fenced
  <2> QED
    BY <1>4, <2>1, <2>2, <2>3, <2>4, <2>5 DEF Operators
<1>5. CASE Processing
  <2> SUFFICES ASSUME NEW w \in Workers,
                      \/ \E p \in Payouts : Claim(w, p)
                      \/ WorkerStep(w) \/ Timeout(w) \/ Crash(w)
                      \/ ProviderAnswers(w) \/ RequestLost(w)
               PROVE Fenced'
    BY <1>5 DEF Processing
  <2>1. ASSUME NEW p \in Payouts, Claim(w, p) PROVE Fenced'
    <3>1. /\ status[p] = "approved" /\ fence[dest[p]] = NoPayout /\ dest[p] \in Accounts
          /\ status' = [status EXCEPT ![p] = "processing"]
          /\ fence' = [fence EXCEPT ![dest[p]] = p]
          /\ txn' = [txn EXCEPT ![p] = "placeholder"]
          /\ pc' = [pc EXCEPT ![w] = "claimed"] /\ job' = [job EXCEPT ![w] = p]
          /\ UNCHANGED <<dest, noted, call>>
      BY <2>1 DEF Claim, Claimable, Goto, Fenced, Destined
    <3>2. \A v \in Workers : job[v] # p
      BY <3>1 DEF Owned
    <3>3. Destined' /\ Releasing' /\ \A b \in Accounts : noted'[b] = NoPayout
      BY <3>1, <3>2 DEF Fenced, Destined, Releasing, Unbound
    <3>4. ASSUME NEW q \in Payouts, Unbound(q)' PROVE (fence[dest[q]] = q \/ GaveUp(q))'
      <4>1. CASE q = p
        BY <3>1, <4>1
      <4>2. CASE q # p
        <5>1. Unbound(q) /\ dest[q] \in Accounts
          BY <3>1, <3>4, <4>2 DEF Unbound, Fenced, Destined
        <5>2. CASE fence[dest[q]] = q
          <6>1. dest[q] # dest[p]
            BY <3>1, <5>2
          <6> QED
            BY <3>1, <5>1, <5>2, <6>1
        <5>3. CASE GaveUp(q)
          BY <5>3, GaveUpForGood
        <5> QED
          BY <5>1, <5>2, <5>3 DEF Fenced, FenceKept
      <4> QED
        BY <4>1, <4>2
    <3> QED
      BY <3>3, <3>4 DEF Fenced, FenceKept
  <2>2. CASE BreakerRejects(w) \/ CallProvider(w) \/ Answer(w) \/ Timeout(w) \/ Crash(w)
    BY <1>1, <2>2 DEF BreakerRejects, CallProvider, Answer, Timeout, Crash, Goto, workerOnly
  <2>3. CASE ProviderAnswers(w) \/ RequestLost(w)
    BY <1>1, <2>3
    DEF ProviderAnswers, PspAnswers, StripeTransfers, StripePaysOut, StripeReverses, RequestLost,
        Reply, workerOnly, OpenCall
  <2>4. CASE Bind(w)
    <3>1. /\ UNCHANGED <<status, dest, fence, noted, job, call>>
          /\ \A v \in Workers \ {w} : pc'[v] = pc[v]
          /\ \/ txn' = [txn EXCEPT ![job[w]] = "bound"]
             \/ txn' = txn /\ pc'[w] = "done"
      BY <2>4 DEF Bind, Goto
    <3>2. job[w] \in Payouts
      BY <2>4 DEF Bind, Unassigned
    <3>3. Destined' /\ Releasing' /\ \A b \in Accounts : noted'[b] = NoPayout
      BY <3>1, <3>2 DEF Fenced, Destined, Releasing, Unbound
    <3>4. FenceKept'
      BY <3>1, <3>2, FenceStays DEF Fenced, Unbound
    <3> QED
      BY <3>3, <3>4 DEF Fenced
  <2>5. CASE WorkerPays(w)
    <3>1. job[w] \in Payouts
      BY <2>5 DEF WorkerPays, Unassigned
    <3>2. CASE UNCHANGED <<status, txn, fence>> /\ pc' = [pc EXCEPT ![w] = "done"]
      BY <1>1, <2>5, <3>2 DEF WorkerPays, settleRest
    <3>3. CASE MarkPaid(job[w], Payable(status[job[w]]), "paid") /\ Goto(w, "finally")
      BY <1>2, <2>5, <3>1, <3>3 DEF WorkerPays, MarkPaid, settleRest, Goto
    <3>4. CASE RepeatPaid(job[w]) /\ Goto(w, "finally")
      <4>1. status' = [status EXCEPT ![job[w]] = "paid"] /\ status[job[w]] # "none"
        BY <3>1, <3>4 DEF RepeatPaid
      <4> QED
        BY <1>2, <2>5, <3>1, <3>4, <4>1 DEF WorkerPays, RepeatPaid, settleRest, Goto
    <3> QED
      BY <2>5, <3>2, <3>3, <3>4 DEF WorkerPays, Goto
  <2>6. CASE WorkerFails(w)
    <3>1. job[w] \in Payouts
      BY <2>6 DEF WorkerFails, Unassigned
    <3>2. CASE /\ UNCHANGED <<status, rows, bookVars, fence>>
               /\ Goto(w, IF pc[w] = "failing" THEN "done" ELSE "finally")
      <4>1. /\ UNCHANGED <<status, dest, txn, fence, noted, job, call>>
            /\ \A v \in Workers \ {w} : pc'[v] = pc[v]
            /\ pc'[w] = "finally" => call[w] \in {"none", "safe"}
        BY <2>6, <3>2 DEF WorkerFails, Goto, settleRest, PcMatchesCall
      <4>2. Destined' /\ Releasing' /\ \A b \in Accounts : noted'[b] = NoPayout
        BY <4>1 DEF Fenced, Destined, Releasing, Unbound
      <4>3. FenceKept'
        BY <4>1, FenceStays DEF Fenced, Unbound
      <4> QED
        BY <4>2, <4>3 DEF Fenced
    <3>3. CASE MarkFailed(job[w]) /\ Goto(w, "finally")
      BY <1>2, <2>6, <3>1, <3>3 DEF WorkerFails, MarkFailed, settleRest, Goto
    <3>4. CASE RepeatFailed(job[w]) /\ Goto(w, "finally")
      <4>1. status' = [status EXCEPT ![job[w]] = "failed"] /\ status[job[w]] # "none"
        BY <3>1, <3>4 DEF RepeatFailed
      <4> QED
        BY <1>2, <2>6, <3>1, <3>4, <4>1 DEF WorkerFails, RepeatFailed, settleRest, Goto
    <3> QED
      BY <2>6, <3>2, <3>3, <3>4 DEF WorkerFails
  <2>7. CASE Finally(w)
    <3>1. /\ UNCHANGED <<status, dest, txn, noted, job, call>>
          /\ pc' = [pc EXCEPT ![w] = "done"]
          /\ fence' = FenceCleared(job[w]) \/ fence' = fence
          /\ pc[w] = "finally" /\ job[w] \in Payouts
      BY <2>7 DEF Finally, Goto, Unassigned
    <3>2. Destined' /\ Releasing' /\ \A b \in Accounts : noted'[b] = NoPayout
      BY <3>1 DEF Fenced, Destined, Releasing, Unbound
    <3>3. ASSUME NEW q \in Payouts, Unbound(q), fence[dest[q]] = q
          PROVE  fence'[dest[q]] = q \/ GaveUp(q)'
      <4>1. CASE q = job[w]
        <5>1. call[w] \in {"none", "safe"}
          BY <3>1, <3>3, <4>1 DEF Fenced, Releasing
        <5> QED
          BY <3>1, <4>1, <5>1 DEF GaveUp
      <4>2. CASE q # job[w]
        BY <3>1, <3>3, <4>2 DEF FenceCleared, Fenced, Destined, Unbound
      <4> QED
        BY <4>1, <4>2
    <3>4. FenceKept'
      BY <3>1, <3>3, FenceStays DEF Fenced, Unbound
    <3> QED
      BY <3>2, <3>4 DEF Fenced
  <2> QED
    BY <2>1, <2>2, <2>3, <2>4, <2>5, <2>6, <2>7 DEF WorkerStep
<1>6. CASE Reconciliation
  <2> SUFFICES ASSUME NEW p \in Payouts,
                      \/ RemotePays(p) \/ RemoteFails(p) \/ CronPolls(p) \/ CronApplies(p)
                      \/ HookPaid(p) \/ HookFreezes(p) \/ HookReverses(p) \/ HookFails(p) \/ HookDies(p)
               PROVE Fenced'
    BY <1>6 DEF Reconciliation
  <2>1. CASE \/ RemotePays(p) \/ RemoteFails(p) \/ CronPolls(p)
             \/ HookFreezes(p) \/ HookReverses(p) \/ HookDies(p)
    BY <1>1, <2>1
    DEF RemotePays, RemoteFails, CronPolls, HookFreezes, HookReverses, HookDies, providerOnly
  <2>2. ASSUME \E row \in TxnStatus : MarkPaid(p, Payable(status[p]), row) \/ MarkFailed(p),
               UNCHANGED <<dest, noted, job, call, pc>>
        PROVE  Fenced'
    BY <1>2, <2>2 DEF MarkPaid, MarkFailed
  <2>3. ASSUME RepeatPaid(p) \/ RepeatFailed(p), UNCHANGED <<dest, noted, job, call, pc>>
        PROVE  Fenced'
    <3>1. status' = [status EXCEPT ![p] = status[p]] /\ status[p] \in {"paid", "failed"}
      BY <2>3 DEF RepeatPaid, RepeatFailed
    <3> QED
      BY <1>2, <2>3, <3>1 DEF RepeatPaid, RepeatFailed
  <2>4. CASE CronApplies(p)
    <3>1. UNCHANGED <<dest, noted, job, call, pc>>
      BY <2>4 DEF CronApplies, settleRest
    <3>2. CASE UNCHANGED <<status, rows, bookVars, fence>>
      BY <1>1, <3>1, <3>2
    <3> QED
      BY <2>2, <2>3, <2>4, <3>1, <3>2 DEF CronApplies, TxnStatus
  <2>5. CASE HookFails(p)
    <3>1. UNCHANGED <<dest, noted, job, call, pc>>
      BY <2>5 DEF HookFails, settleRest
    <3>2. CASE UNCHANGED <<status, rows, bookVars, fence>>
      BY <1>1, <3>1, <3>2
    <3> QED
      BY <2>2, <2>3, <2>5, <3>1, <3>2 DEF HookFails, TxnStatus
  <2>6. CASE HookPaid(p)
    <3>1. UNCHANGED <<dest, noted, job, call, pc, fence>>
      BY <2>6 DEF HookPaid, settleRest
    <3>2. CASE UNCHANGED <<status, rows, bookVars>>
      BY <1>1, <3>1, <3>2
    <3>3. CASE /\ status[p] \in {"approved", "processing"}
               /\ status' = [status EXCEPT ![p] = "paid"]
               /\ txn' = [txn EXCEPT ![p] = "paid"]
      BY <1>2, <3>1, <3>3
    <3> QED
      BY <2>6, <3>2, <3>3 DEF HookPaid
  <2> QED
    BY <2>1, <2>4, <2>5, <2>6
<1>7. CASE FraudReview
  BY <1>1, <1>7
  DEF FraudReview, RaiseFlag, DismissFlag, ConfirmBehaviour, ConfirmImpression, ReportAd, moneyRest
<1>8. CASE UNCHANGED vars
  BY <1>1, <1>8 DEF vars
<1> QED
  BY <1>3, <1>4, <1>5, <1>6, <1>7, <1>8 DEF Next

\* An initiation whose outcome the books do not know keeps its destination fenced,
\* as long as no operator races releasePayoutFence with it.
THEOREM InitiationStaysFenced ==
  ASSUME "failedcreate" \notin Env, "release" \notin Env
  PROVE  Spec => []UnresolvedInitiationFenced
<1>1. Init => Fenced
  BY InitFenced
<1>2. Fenced /\ IInv /\ [Next]_vars => Fenced'
  BY FencedStep
<1>3. Fenced /\ IInv => UnresolvedInitiationFenced
  <2> SUFFICES ASSUME Fenced, IInv, NEW p \in Payouts, Unbound(p), MoneyOut(p) \/ CallOpen(p)
               PROVE  fence[dest[p]] = p
    BY DEF UnresolvedInitiationFenced, Unbound
  <2>1. ASSUME GaveUp(p) PROVE FALSE
    <3>1. PICK w \in Workers : job[w] = p /\ call[w] \in {"none", "safe"}
      BY <2>1 DEF GaveUp
    <3>2. ~MoneyOut(p)
      BY <3>1, PayoutAssumption
      DEF IInv, Typed, TypeOK, Untouched, Told, ByHand, Unbound, MoneyOut
    <3>3. ~CallOpen(p)
      BY <3>1, PayoutAssumption DEF IInv, OneInitiation, CallOpen, OpenCall
    <3> QED
      BY <3>2, <3>3
  <2> QED
    BY <2>1 DEF Fenced, FenceKept
<1> QED
  BY <1>1, <1>2, <1>3, Inductive, PTL DEF Spec

-------------------------------------------------------------------------------
\* p is closed and some step gives it another status.
Reopened(p) == status[p] \in Terminal /\ status'[p] # status[p]

LEMMA SettlingKeepsClosed ==
  ASSUME TypeOK, NEW p \in Payouts, NEW q \in Payouts,
         \/ \E payable, row : MarkPaid(p, payable, row)
         \/ RepeatPaid(p) \/ MarkFailed(p) \/ RepeatFailed(p)
  PROVE  ~Reopened(q)
BY DEF TypeOK, MarkPaid, RepeatPaid, MarkFailed, RepeatFailed, Reopened, Terminal

LEMMA ClosedStep ==
  ASSUME Typed, [Next]_vars, NEW q \in Payouts PROVE ~Reopened(q)
<1> USE PayoutAssumption DEF Typed, TypeOK, requestVars
<1>1. ASSUME UNCHANGED status PROVE ~Reopened(q)
  BY <1>1 DEF Reopened
<1>2. ASSUME NEW p \in Payouts, status[p] \notin Terminal,
             \E s \in Status : status' = [status EXCEPT ![p] = s]
      PROVE  ~Reopened(q)
  BY <1>2 DEF Reopened
<1>3. CASE Developer
  BY <1>1, <1>2, <1>3 DEF Developer, RemoveMethod, RequestPayout, Terminal, Status
<1>4. CASE Operators
  <2>1. ASSUME NEW p \in Payouts, ApprovePayout(p) \/ RejectPayout(p) PROVE ~Reopened(q)
    BY <1>2, <2>1 DEF ApprovePayout, RejectPayout, Rejectable, Terminal, Status
  <2>2. ASSUME NEW p \in Payouts,
               AdminRepeatsPaid(p) \/ \E s \in {"approved", "processing"} : AdminMarkPaid(p, s)
        PROVE  ~Reopened(q)
    BY <2>2, SettlingKeepsClosed DEF AdminRepeatsPaid, AdminMarkPaid
  <2>3. ASSUME NEW a \in Accounts,
               SetAccountVerified(a) \/ FreezeAccount(a) \/ UnfreezeAccount(a)
                 \/ ReadFence(a) \/ ReleaseFence(a)
        PROVE  ~Reopened(q)
    BY <1>1, <2>3 DEF SetAccountVerified, FreezeAccount, UnfreezeAccount, ReadFence, ReleaseFence
  <2> QED
    BY <1>4, <2>1, <2>2, <2>3 DEF Operators
<1>5. CASE Processing
  <2> SUFFICES ASSUME NEW w \in Workers,
                      \/ \E p \in Payouts : Claim(w, p)
                      \/ WorkerStep(w) \/ Timeout(w) \/ Crash(w)
                      \/ ProviderAnswers(w) \/ RequestLost(w)
               PROVE ~Reopened(q)
    BY <1>5 DEF Processing
  <2>1. ASSUME NEW p \in Payouts, Claim(w, p) PROVE ~Reopened(q)
    BY <1>2, <2>1 DEF Claim, Claimable, Terminal, Status
  <2>2. CASE WorkerPays(w) \/ WorkerFails(w)
    <3>1. job[w] \in Payouts
      BY <2>2 DEF WorkerPays, WorkerFails, Unassigned
    <3>2. CASE UNCHANGED <<status, rows, bookVars, fence>>
      BY <1>1, <3>2
    <3> QED
      BY <2>2, <3>1, <3>2, SettlingKeepsClosed DEF WorkerPays, WorkerFails
  <2>3. CASE BreakerRejects(w) \/ CallProvider(w) \/ Answer(w) \/ Bind(w) \/ Finally(w)
             \/ Timeout(w) \/ Crash(w) \/ RequestLost(w)
    BY <1>1, <2>3
    DEF BreakerRejects, CallProvider, Answer, Bind, Finally, Timeout, Crash, RequestLost, workerOnly
  <2>4. CASE ProviderAnswers(w)
    BY <1>1, <2>4
    DEF ProviderAnswers, PspAnswers, StripeTransfers, StripePaysOut, StripeReverses, workerOnly
  <2> QED
    BY <2>1, <2>2, <2>3, <2>4 DEF WorkerStep
<1>6. CASE Reconciliation
  <2> SUFFICES ASSUME NEW p \in Payouts,
                      \/ RemotePays(p) \/ RemoteFails(p) \/ CronPolls(p) \/ CronApplies(p)
                      \/ HookPaid(p) \/ HookFreezes(p) \/ HookReverses(p) \/ HookFails(p) \/ HookDies(p)
               PROVE ~Reopened(q)
    BY <1>6 DEF Reconciliation
  <2>1. CASE \/ RemotePays(p) \/ RemoteFails(p) \/ CronPolls(p)
             \/ HookFreezes(p) \/ HookReverses(p) \/ HookDies(p)
    BY <1>1, <2>1
    DEF RemotePays, RemoteFails, CronPolls, HookFreezes, HookReverses, HookDies, providerOnly
  <2>2. CASE CronApplies(p) \/ HookFails(p)
    <3>1. CASE UNCHANGED <<status, rows, bookVars, fence>>
      BY <1>1, <3>1
    <3> QED
      BY <2>2, <3>1, SettlingKeepsClosed DEF CronApplies, HookFails
  <2>3. CASE HookPaid(p)
    BY <1>1, <1>2, <2>3 DEF HookPaid, Terminal, Status
  <2> QED
    BY <2>1, <2>2, <2>3
<1>7. CASE FraudReview
  BY <1>1, <1>7
  DEF FraudReview, RaiseFlag, DismissFlag, ConfirmBehaviour, ConfirmImpression, ReportAd, moneyRest
<1>8. CASE UNCHANGED vars
  BY <1>1, <1>8 DEF vars
<1> QED
  BY <1>3, <1>4, <1>5, <1>6, <1>7, <1>8 DEF Next

\* Whoever acts on a closed payout, a late worker, cron, webhook or operator, leaves
\* it closed the way it was.
THEOREM ClosedStaysClosed == Spec => TerminalStable
<1>1. Init => Typed
  BY PayoutAssumption
  DEF Init, Typed, Unassigned, TypeOK, Status, RowStatus, TxnStatus, RemoteStatus, PC, Call, OpenCall
<1>2. Typed /\ [Next]_vars => Typed'
  BY TypedStep
<1>3. Typed /\ [Next]_vars
        => [\A p \in Payouts : status[p] \in Terminal => status'[p] = status[p]]_vars
  BY ClosedStep DEF Reopened
<1> QED
  BY <1>1, <1>2, <1>3, PTL DEF Spec, TerminalStable

-------------------------------------------------------------------------------
RowsAgree(p) ==
  /\ rows[p] # "none" <=> status[p] \in Reserved \cup {"paid"}
  /\ rows[p] = "paid" <=> status[p] = "paid"

LEMMA SettlingKeepsRows ==
  ASSUME TypeOK, RowsFollowStatus, NEW p \in Payouts,
         \/ \E payable, row : MarkPaid(p, payable, row)
         \/ RepeatPaid(p) \/ MarkFailed(p) \/ RepeatFailed(p)
  PROVE  RowsFollowStatus'
BY DEF TypeOK, MarkPaid, RepeatPaid, MarkFailed, RepeatFailed, RowsFollowStatus, Reserved

LEMMA RowsStep ==
  ASSUME Typed, [Next]_vars, RowsFollowStatus PROVE RowsFollowStatus'
<1> USE PayoutAssumption DEF Typed, TypeOK, requestVars, RowsAgree
<1>1. ASSUME UNCHANGED <<status, rows>> PROVE RowsFollowStatus'
  BY <1>1 DEF RowsFollowStatus
<1>2. ASSUME NEW p \in Payouts, \A q \in Payouts \ {p} : status'[q] = status[q] /\ rows'[q] = rows[q],
             RowsAgree(p)'
      PROVE  RowsFollowStatus'
  BY <1>2 DEF RowsFollowStatus
<1>3. CASE Developer
  BY <1>1, <1>2, <1>3 DEF Developer, RemoveMethod, RequestPayout, Reserved
<1>4. CASE Operators
  <2>1. ASSUME NEW p \in Payouts, ApprovePayout(p) \/ RejectPayout(p) PROVE RowsFollowStatus'
    BY <2>1 DEF ApprovePayout, RejectPayout, Rejectable, RowsFollowStatus, Reserved
  <2>2. ASSUME NEW p \in Payouts,
               AdminRepeatsPaid(p) \/ \E s \in {"approved", "processing"} : AdminMarkPaid(p, s)
        PROVE  RowsFollowStatus'
    BY <2>2, SettlingKeepsRows DEF AdminRepeatsPaid, AdminMarkPaid
  <2>3. ASSUME NEW a \in Accounts,
               SetAccountVerified(a) \/ FreezeAccount(a) \/ UnfreezeAccount(a)
                 \/ ReadFence(a) \/ ReleaseFence(a)
        PROVE  RowsFollowStatus'
    BY <1>1, <2>3 DEF SetAccountVerified, FreezeAccount, UnfreezeAccount, ReadFence, ReleaseFence
  <2> QED
    BY <1>4, <2>1, <2>2, <2>3 DEF Operators
<1>5. CASE Processing
  <2> SUFFICES ASSUME NEW w \in Workers,
                      \/ \E p \in Payouts : Claim(w, p)
                      \/ WorkerStep(w) \/ Timeout(w) \/ Crash(w)
                      \/ ProviderAnswers(w) \/ RequestLost(w)
               PROVE RowsFollowStatus'
    BY <1>5 DEF Processing
  <2>1. ASSUME NEW p \in Payouts, Claim(w, p) PROVE RowsFollowStatus'
    BY <2>1 DEF Claim, Claimable, RowsFollowStatus, Reserved
  <2>2. CASE WorkerPays(w) \/ WorkerFails(w)
    <3>1. job[w] \in Payouts
      BY <2>2 DEF WorkerPays, WorkerFails, Unassigned
    <3>2. CASE UNCHANGED <<status, rows, bookVars, fence>>
      BY <1>1, <3>2
    <3> QED
      BY <2>2, <3>1, <3>2, SettlingKeepsRows DEF WorkerPays, WorkerFails
  <2>3. CASE BreakerRejects(w) \/ CallProvider(w) \/ Answer(w) \/ Bind(w) \/ Finally(w)
             \/ Timeout(w) \/ Crash(w) \/ RequestLost(w)
    BY <1>1, <2>3
    DEF BreakerRejects, CallProvider, Answer, Bind, Finally, Timeout, Crash, RequestLost, workerOnly
  <2>4. CASE ProviderAnswers(w)
    BY <1>1, <2>4
    DEF ProviderAnswers, PspAnswers, StripeTransfers, StripePaysOut, StripeReverses, workerOnly
  <2> QED
    BY <2>1, <2>2, <2>3, <2>4 DEF WorkerStep
<1>6. CASE Reconciliation
  <2> SUFFICES ASSUME NEW p \in Payouts,
                      \/ RemotePays(p) \/ RemoteFails(p) \/ CronPolls(p) \/ CronApplies(p)
                      \/ HookPaid(p) \/ HookFreezes(p) \/ HookReverses(p) \/ HookFails(p) \/ HookDies(p)
               PROVE RowsFollowStatus'
    BY <1>6 DEF Reconciliation
  <2>1. CASE \/ RemotePays(p) \/ RemoteFails(p) \/ CronPolls(p)
             \/ HookFreezes(p) \/ HookReverses(p) \/ HookDies(p)
    BY <1>1, <2>1
    DEF RemotePays, RemoteFails, CronPolls, HookFreezes, HookReverses, HookDies, providerOnly
  <2>2. CASE CronApplies(p) \/ HookFails(p)
    <3>1. CASE UNCHANGED <<status, rows, bookVars, fence>>
      BY <1>1, <3>1
    <3> QED
      BY <2>2, <3>1, SettlingKeepsRows DEF CronApplies, HookFails
  <2>3. CASE HookPaid(p)
    BY <1>1, <1>2, <2>3 DEF HookPaid, Reserved
  <2> QED
    BY <2>1, <2>2, <2>3
<1>7. CASE FraudReview
  <2>1. ASSUME \/ \E s \in {"high", "critical"} : RaiseFlag(s)
               \/ DismissFlag \/ ConfirmBehaviour
        PROVE  RowsFollowStatus'
    BY <2>1 DEF RaiseFlag, DismissFlag, ConfirmBehaviour, moneyRest, RowsFollowStatus
  <2>2. ASSUME NEW p \in Payouts, Reversed(p), UNCHANGED status PROVE RowsFollowStatus'
    BY <2>2 DEF Reversed, RowsFollowStatus
  <2> QED
    BY <1>7, <2>1, <2>2 DEF FraudReview, ConfirmImpression, ReportAd, moneyRest
<1>8. CASE UNCHANGED vars
  BY <1>1, <1>8 DEF vars
<1> QED
  BY <1>3, <1>4, <1>5, <1>6, <1>7, <1>8 DEF Next

\* Earnings rows stay allocated exactly while the payout is open and are spent
\* exactly when it is paid, whichever path settles it and whatever fraud review does.
THEOREM RowsAlwaysFollow == Spec => []RowsFollowStatus
<1>1. Init => Typed /\ RowsFollowStatus
  BY PayoutAssumption
  DEF Init, Typed, Unassigned, TypeOK, Status, RowStatus, TxnStatus, RemoteStatus, PC, Call, OpenCall,
      RowsFollowStatus, Reserved
<1>2. Typed /\ RowsFollowStatus /\ [Next]_vars => (Typed /\ RowsFollowStatus)'
  BY TypedStep, RowsStep
<1> QED
  BY <1>1, <1>2, PTL DEF Spec

-------------------------------------------------------------------------------
InUse == Destined /\ ReservedOnActiveAccount

LEMMA InUseStep ==
  ASSUME Typed, [Next]_vars, InUse PROVE InUse'
<1> USE PayoutAssumption DEF Typed, TypeOK, requestVars, accountVars
\* Steps that bring no payout in flight and leave its destination alone.
<1>1. ASSUME UNCHANGED <<dest, active>>,
             \A p \in Payouts : /\ status'[p] # "none" => status[p] # "none"
                                /\ status'[p] \in Reserved => status[p] \in Reserved
      PROVE  InUse'
  BY <1>1 DEF InUse, Destined, ReservedOnActiveAccount
<1>2. ASSUME UNCHANGED <<status, dest, active>> PROVE InUse'
  BY <1>1, <1>2
<1>3. ASSUME NEW p \in Payouts, UNCHANGED <<dest, active>>,
             \/ \E payable, row : MarkPaid(p, payable, row)
             \/ RepeatPaid(p) \/ MarkFailed(p) \/ RepeatFailed(p)
      PROVE  InUse'
  BY <1>1, <1>3 DEF MarkPaid, RepeatPaid, MarkFailed, RepeatFailed, Reserved
<1>4. CASE Developer
  <2>1. ASSUME NEW a \in Accounts, RemoveMethod(a) PROVE InUse'
    BY <2>1 DEF RemoveMethod, InUse, Destined, ReservedOnActiveAccount
  <2>2. ASSUME NEW a \in Accounts, NEW p \in Payouts, RequestPayout(p, a) PROVE InUse'
    BY <2>2 DEF RequestPayout, InUse, Destined, ReservedOnActiveAccount, Reserved
  <2> QED
    BY <1>4, <2>1, <2>2 DEF Developer
<1>5. CASE Operators
  <2>1. ASSUME NEW p \in Payouts, ApprovePayout(p) \/ RejectPayout(p) PROVE InUse'
    BY <1>1, <2>1 DEF ApprovePayout, RejectPayout, Rejectable, Reserved
  <2>2. ASSUME NEW p \in Payouts,
               AdminRepeatsPaid(p) \/ \E s \in {"approved", "processing"} : AdminMarkPaid(p, s)
        PROVE  InUse'
    BY <1>3, <2>2 DEF AdminRepeatsPaid, AdminMarkPaid, settleRest
  <2>3. ASSUME NEW a \in Accounts,
               SetAccountVerified(a) \/ FreezeAccount(a) \/ UnfreezeAccount(a)
                 \/ ReadFence(a) \/ ReleaseFence(a)
        PROVE  InUse'
    BY <1>2, <2>3 DEF SetAccountVerified, FreezeAccount, UnfreezeAccount, ReadFence, ReleaseFence
  <2> QED
    BY <1>5, <2>1, <2>2, <2>3 DEF Operators
<1>6. CASE Processing
  <2> SUFFICES ASSUME NEW w \in Workers,
                      \/ \E p \in Payouts : Claim(w, p)
                      \/ WorkerStep(w) \/ Timeout(w) \/ Crash(w)
                      \/ ProviderAnswers(w) \/ RequestLost(w)
               PROVE InUse'
    BY <1>6 DEF Processing
  <2>1. ASSUME NEW p \in Payouts, Claim(w, p) PROVE InUse'
    BY <1>1, <2>1 DEF Claim, Claimable, Reserved
  <2>2. CASE WorkerPays(w) \/ WorkerFails(w)
    <3>1. job[w] \in Payouts /\ UNCHANGED <<dest, active>>
      BY <2>2 DEF WorkerPays, WorkerFails, Unassigned, settleRest
    <3>2. CASE UNCHANGED <<status, rows, bookVars, fence>>
      BY <1>2, <3>1, <3>2
    <3> QED
      BY <1>3, <2>2, <3>1, <3>2 DEF WorkerPays, WorkerFails
  <2>3. CASE BreakerRejects(w) \/ CallProvider(w) \/ Answer(w) \/ Bind(w) \/ Finally(w)
             \/ Timeout(w) \/ Crash(w) \/ RequestLost(w) \/ ProviderAnswers(w)
    BY <1>2, <2>3
    DEF BreakerRejects, CallProvider, Answer, Bind, Finally, Timeout, Crash, RequestLost, workerOnly,
        ProviderAnswers, PspAnswers, StripeTransfers, StripePaysOut, StripeReverses
  <2> QED
    BY <2>1, <2>2, <2>3 DEF WorkerStep
<1>7. CASE Reconciliation
  <2> SUFFICES ASSUME NEW p \in Payouts,
                      \/ RemotePays(p) \/ RemoteFails(p) \/ CronPolls(p) \/ CronApplies(p)
                      \/ HookPaid(p) \/ HookFreezes(p) \/ HookReverses(p) \/ HookFails(p) \/ HookDies(p)
               PROVE InUse'
    BY <1>7 DEF Reconciliation
  <2>1. CASE \/ RemotePays(p) \/ RemoteFails(p) \/ CronPolls(p)
             \/ HookFreezes(p) \/ HookReverses(p) \/ HookDies(p)
    BY <1>2, <2>1
    DEF RemotePays, RemoteFails, CronPolls, HookFreezes, HookReverses, HookDies, providerOnly
  <2>2. CASE CronApplies(p) \/ HookFails(p)
    <3>1. CASE UNCHANGED <<status, rows, bookVars, fence>>
      BY <1>2, <2>2, <3>1 DEF CronApplies, HookFails, settleRest
    <3> QED
      BY <1>3, <2>2, <3>1 DEF CronApplies, HookFails, settleRest
  <2>3. CASE HookPaid(p)
    BY <1>1, <2>3 DEF HookPaid, settleRest, Reserved
  <2> QED
    BY <2>1, <2>2, <2>3
<1>8. CASE FraudReview
  BY <1>2, <1>8
  DEF FraudReview, RaiseFlag, DismissFlag, ConfirmBehaviour, ConfirmImpression, ReportAd, moneyRest
<1>9. CASE UNCHANGED vars
  BY <1>2, <1>9 DEF vars
<1> QED
  BY <1>4, <1>5, <1>6, <1>7, <1>8, <1>9 DEF Next

\* No open payout points at a destination its developer removed or replaced, whoever
\* requests, approves or pays meanwhile.
THEOREM OpenPayoutKeepsDestination == Spec => []ReservedOnActiveAccount
<1>1. Init => Typed /\ InUse
  BY PayoutAssumption
  DEF Init, Typed, Unassigned, TypeOK, Status, RowStatus, TxnStatus, RemoteStatus, PC, Call, OpenCall,
      InUse, Destined, ReservedOnActiveAccount, Reserved
<1>2. Typed /\ InUse /\ [Next]_vars => (Typed /\ InUse)'
  BY TypedStep, InUseStep
<1>3. InUse => ReservedOnActiveAccount
  BY DEF InUse
<1> QED
  BY <1>1, <1>2, <1>3, PTL DEF Spec

-------------------------------------------------------------------------------
\* A worker about to call PayPal or Wise has an open initiation to a destination that
\* is not frozen; only Stripe's bank payouts freeze a destination whatever its fence.
ClearToSend ==
  /\ \A w \in Workers : pc[w] = "claimed" /\ Kind(job[w]) = "psp" =>
       ~frozen[dest[job[w]]] /\ Unbound(job[w])
  /\ \A p \in Payouts : <<p, "failed">> \in inbox \/ hook[p] # "idle" =>
       status[p] # "none" /\ Kind(p) = "stripe"
  /\ \A w \in Workers : call[w] \in {"leg2", "reverse"} => Kind(job[w]) = "stripe"

\* A worker that claimed holds the fence.
LEMMA ClaimedHoldsFence ==
  ASSUME IInv, Fenced, ClearToSend, NEW w \in Workers, pc[w] = "claimed", Kind(job[w]) = "psp"
  PROVE  job[w] \in Payouts /\ dest[job[w]] \in Accounts /\ fence[dest[job[w]]] = job[w]
<1>1. job[w] \in Payouts /\ Unbound(job[w])
  BY DEF ClearToSend, IInv, Typed, TypeOK, Unassigned
<1>2. ~GaveUp(job[w])
  BY <1>1, PayoutAssumption DEF GaveUp, IInv, OneInitiation
<1> QED
  BY <1>1, <1>2 DEF Fenced, Destined, FenceKept, Unbound

LEMMA ClearToSendStep ==
  ASSUME "failedcreate" \notin Env, IInv, IInv', Fenced, ClearToSend, [Next]_vars
  PROVE  ClearToSend'
<1> USE PayoutAssumption DEF IInv, Typed, Unassigned, TypeOK, requestVars, bookVars, accountVars,
      workerVars, remoteVars, viewVars
\* Steps that freeze nothing and add no event.
<1>1. ASSUME UNCHANGED <<dest, job, frozen>>, inbox' \subseteq inbox,
             \A p \in Payouts : /\ Unbound(p) => Unbound(p)' \/ \A w \in Workers : job[w] = p => pc'[w] # "claimed"
                                /\ status[p] # "none" => status'[p] # "none"
                                /\ hook'[p] # "idle" => hook[p] # "idle",
             \A w \in Workers : /\ pc'[w] = "claimed" => pc[w] = "claimed"
                                /\ call'[w] \in {"leg2", "reverse"} => Kind(job[w]) = "stripe"
      PROVE  ClearToSend'
  BY <1>1 DEF ClearToSend, Kind, Owned, Unbound
<1>2. ASSUME UNCHANGED <<status, dest, txn, job, call, frozen>>, inbox' \subseteq inbox,
             \A p \in Payouts : hook'[p] # "idle" => hook[p] # "idle",
             \A w \in Workers : pc'[w] = "claimed" => pc[w] = "claimed"
      PROVE  ClearToSend'
  BY <1>1, <1>2 DEF ClearToSend, Unbound
\* Settling a payout: no worker that has claimed it has yet to call.
<1>3. ASSUME NEW p \in Payouts, status[p] # "none",
             \A w \in Workers : job[w] = p /\ Kind(p) = "psp" => pc'[w] # "claimed",
             \/ \E payable, row : MarkPaid(p, payable, row)
             \/ RepeatPaid(p) \/ MarkFailed(p) \/ RepeatFailed(p),
             UNCHANGED <<dest, job, call, frozen>>, inbox' \subseteq inbox,
             \A q \in Payouts : hook'[q] # "idle" => hook[q] # "idle",
             \A w \in Workers : pc'[w] = "claimed" => pc[w] = "claimed"
      PROVE  ClearToSend'
  <2>1. /\ \A q \in Payouts \ {p} : status'[q] = status[q] /\ txn'[q] = txn[q]
        /\ status'[p] # "none"
    BY <1>3 DEF MarkPaid, RepeatPaid, MarkFailed, RepeatFailed
  <2> QED
    BY <1>3, <2>1 DEF ClearToSend, Kind, Unbound
<1>4. CASE Developer
  <2>1. ASSUME NEW a \in Accounts, RemoveMethod(a) PROVE ClearToSend'
    BY <1>2, <2>1 DEF RemoveMethod
  <2>2. ASSUME NEW a \in Accounts, NEW p \in Payouts, RequestPayout(p, a) PROVE ClearToSend'
    BY <2>2 DEF RequestPayout, ClearToSend, Unbound, Kind, Owned
  <2> QED
    BY <1>4, <2>1, <2>2 DEF Developer
<1>5. CASE Operators
  <2>1. ASSUME NEW p \in Payouts, ApprovePayout(p) \/ RejectPayout(p) PROVE ClearToSend'
    BY <2>1 DEF ApprovePayout, RejectPayout, Rejectable, ClearToSend, Unbound, Kind
  <2>2. ASSUME NEW p \in Payouts,
               AdminRepeatsPaid(p) \/ \E s \in {"approved", "processing"} : AdminMarkPaid(p, s)
        PROVE  ClearToSend'
    <3>1. status[p] \in {"approved", "processing", "paid"}
      BY <2>2 DEF AdminRepeatsPaid, AdminMarkPaid, RepeatPaid
    <3>2. ASSUME NEW w \in Workers, job[w] = p, Kind(p) = "psp", pc[w] = "claimed" PROVE FALSE
      <4>1. Unbound(p) /\ remote[p] = "none"
        BY <3>2 DEF ClearToSend, Told, PcMatchesCall, Unbound
      <4> QED
        BY <2>2, <3>2, <4>1 DEF AdminRepeatsPaid, AdminMarkPaid, RepeatPaid, Unbound
    <3> QED
      BY <1>3, <2>2, <3>1, <3>2 DEF AdminRepeatsPaid, AdminMarkPaid, settleRest
  <2>3. ASSUME NEW a \in Accounts, FreezeAccount(a) PROVE ClearToSend'
    <3>1. ASSUME NEW w \in Workers, pc[w] = "claimed", Kind(job[w]) = "psp"
          PROVE  dest[job[w]] # a /\ job[w] \in Payouts
      BY <2>3, <3>1, ClaimedHoldsFence DEF FreezeAccount
    <3> QED
      BY <2>3, <3>1 DEF FreezeAccount, ClearToSend, Unbound, Kind
  <2>4. ASSUME NEW a \in Accounts, UnfreezeAccount(a) PROVE ClearToSend'
    BY <2>4 DEF UnfreezeAccount, ClearToSend, Unbound, Kind
  <2>5. ASSUME NEW a \in Accounts, SetAccountVerified(a) \/ ReadFence(a) \/ ReleaseFence(a)
        PROVE  ClearToSend'
    BY <1>2, <2>5 DEF SetAccountVerified, ReadFence, ReleaseFence
  <2> QED
    BY <1>5, <2>1, <2>2, <2>3, <2>4, <2>5 DEF Operators
<1>6. CASE Processing
  <2> SUFFICES ASSUME NEW w \in Workers,
                      \/ \E p \in Payouts : Claim(w, p)
                      \/ WorkerStep(w) \/ Timeout(w) \/ Crash(w)
                      \/ ProviderAnswers(w) \/ RequestLost(w)
               PROVE ClearToSend'
    BY <1>6 DEF Processing
  <2>1. ASSUME NEW p \in Payouts, Claim(w, p) PROVE ClearToSend'
    <3>1. /\ status[p] = "approved" /\ ~frozen[dest[p]]
          /\ status' = [status EXCEPT ![p] = "processing"]
          /\ txn' = [txn EXCEPT ![p] = "placeholder"]
          /\ job' = [job EXCEPT ![w] = p] /\ call[w] = "none"
          /\ pc' = [pc EXCEPT ![w] = "claimed"]
          /\ UNCHANGED <<dest, frozen, call, inbox, hook>>
      BY <2>1 DEF Claim, Claimable, Goto, PcMatchesCall
    <3>2. \A v \in Workers : job[v] # p
      BY <3>1 DEF Owned
    <3> QED
      BY <3>1, <3>2 DEF ClearToSend, Unbound, Kind
  <2>2. CASE WorkerPays(w) \/ WorkerFails(w)
    <3>1. job[w] \in Payouts /\ UNCHANGED <<dest, frozen, job, call, inbox, hook>>
      BY <2>2 DEF WorkerPays, WorkerFails, settleRest
    <3>2. \A v \in Workers : pc'[v] = "claimed" => pc[v] = "claimed" /\ v # w
      BY <2>2 DEF WorkerPays, WorkerFails, Goto
    <3>3. CASE UNCHANGED <<status, rows, bookVars, fence>>
      BY <1>2, <3>1, <3>2, <3>3
    <3>4. status[job[w]] # "none" /\ \A v \in Workers : job[v] = job[w] => v = w
      <4>1. job[w] # NoPayout
        BY <3>1, PayoutAssumption
      <4>2. status[job[w]] # "none"
        BY <4>1 DEF Owned
      <4>3. \A v \in Workers : job[v] = job[w] => v = w
        BY <4>1 DEF OneInitiation
      <4> QED
        BY <4>2, <4>3
    <3> QED
      BY <1>3, <2>2, <3>1, <3>2, <3>3, <3>4 DEF WorkerPays, WorkerFails
  <2>3. CASE BreakerRejects(w) \/ CallProvider(w) \/ Answer(w) \/ Finally(w)
             \/ Timeout(w) \/ Crash(w)
    BY <1>1, <2>3
    DEF BreakerRejects, CallProvider, Answer, Finally, Timeout, Crash, Goto, workerOnly, ClearToSend, Unbound
  <2>4. CASE Bind(w)
    <3>1. /\ UNCHANGED <<status, dest, frozen, job, call, inbox, hook>>
          /\ job[w] \in Payouts /\ pc'[w] # "claimed"
          /\ \A v \in Workers \ {w} : pc'[v] = pc[v]
          /\ \A q \in Payouts \ {job[w]} : txn'[q] = txn[q]
      BY <2>4 DEF Bind, Goto
    <3> QED
      BY <1>1, <3>1 DEF OneInitiation, Unbound, ClearToSend
  <2>5. CASE RequestLost(w) \/ PspAnswers(w) \/ StripeTransfers(w) \/ StripeReverses(w)
    BY <1>1, <2>5
    DEF RequestLost, PspAnswers, StripeTransfers, StripeReverses, Reply, workerOnly, ClearToSend, Unbound
  <2>6. CASE StripePaysOut(w)
    <3>1. /\ job[w] \in Payouts /\ Kind(job[w]) = "stripe" /\ status[job[w]] # "none"
          /\ inbox' \subseteq inbox \cup {<<job[w], "failed">>}
          /\ UNCHANGED <<status, dest, txn, frozen, job, pc, hook>>
          /\ \A v \in Workers \ {w} : call'[v] = call[v]
      BY <2>6 DEF StripePaysOut, Reply, workerOnly, ClearToSend, Owned
    <3> QED
      BY <3>1 DEF ClearToSend, Unbound, Kind
  <2> QED
    BY <2>1, <2>2, <2>3, <2>4, <2>5, <2>6 DEF WorkerStep, ProviderAnswers
<1>7. CASE Reconciliation
  <2> SUFFICES ASSUME NEW p \in Payouts,
                      \/ RemotePays(p) \/ RemoteFails(p) \/ CronPolls(p) \/ CronApplies(p)
                      \/ HookPaid(p) \/ HookFreezes(p) \/ HookReverses(p) \/ HookFails(p) \/ HookDies(p)
               PROVE ClearToSend'
    BY <1>7 DEF Reconciliation
  <2>1. CASE RemotePays(p) \/ RemoteFails(p)
    <3>1. status[p] # "none" /\ UNCHANGED <<status, dest, txn, frozen, job, call, pc, hook>>
      BY <2>1 DEF RemotePays, RemoteFails, providerOnly, Untouched
    <3>2. \/ inbox' \subseteq inbox \cup {<<p, "paid">>}
          \/ Kind(p) = "stripe" /\ inbox' \subseteq inbox \cup {<<p, "failed">>}
      BY <2>1 DEF RemotePays, RemoteFails
    <3>3. \A q \in Payouts : <<q, "failed">> \in inbox' =>
            <<q, "failed">> \in inbox \/ (q = p /\ Kind(p) = "stripe")
      BY <3>2
    <3> QED
      BY <3>1, <3>3 DEF ClearToSend, Unbound, Kind
  <2>2. CASE CronPolls(p) \/ HookDies(p)
    BY <1>2, <2>2 DEF CronPolls, HookDies
  <2>3. CASE HookReverses(p)
    BY <1>2, <2>3 DEF HookReverses
  <2>4. CASE HookFreezes(p)
    <3>1. /\ Kind(p) = "stripe" /\ status[p] # "none"
          /\ UNCHANGED <<status, dest, txn, job, call, pc>> /\ inbox' \subseteq inbox
          /\ frozen' = [frozen EXCEPT ![dest[p]] = TRUE] \/ frozen' = frozen
          /\ \A q \in Payouts \ {p} : hook'[q] = hook[q]
      BY <2>4 DEF HookFreezes, Processed, ClearToSend
    <3>2. ASSUME NEW w \in Workers, pc[w] = "claimed", Kind(job[w]) = "psp"
          PROVE  ~frozen'[dest[job[w]]]
      BY <3>1, <3>2, ClaimedHoldsFence DEF ClearToSend, Kind
    <3> QED
      BY <3>1, <3>2 DEF ClearToSend, Unbound, Kind
  <2>5. CASE CronApplies(p) \/ HookFails(p)
    <3>1. /\ Bound(p) /\ UNCHANGED <<dest, frozen, job, call, pc>> /\ inbox' \subseteq inbox
          /\ \A q \in Payouts : hook'[q] # "idle" => hook[q] # "idle"
      BY <2>5 DEF CronApplies, HookFails, Known, Processed, settleRest
    <3>2. status[p] # "none" /\ \A w \in Workers : job[w] = p => pc[w] # "claimed"
      BY <3>1 DEF Untouched, Told, Bound
    <3>3. CASE UNCHANGED <<status, rows, bookVars, fence>>
      BY <1>2, <3>1, <3>3
    <3> QED
      BY <1>3, <2>5, <3>1, <3>2, <3>3 DEF CronApplies, HookFails
  <2>6. CASE HookPaid(p)
    <3>1. /\ UNCHANGED <<dest, frozen, job, call, pc, hook>> /\ inbox' \subseteq inbox
          /\ \/ UNCHANGED <<status, txn>>
             \/ Bound(p) /\ status'[p] = "paid"
                /\ \A q \in Payouts \ {p} : status'[q] = status[q] /\ txn'[q] = txn[q]
      BY <2>6 DEF HookPaid, Processed, settleRest
    <3>2. CASE UNCHANGED <<status, txn>>
      BY <1>2, <3>1, <3>2
    <3> QED
      BY <3>1, <3>2 DEF ClearToSend, Unbound, Kind, Bound
  <2> QED
    BY <2>1, <2>2, <2>3, <2>4, <2>5, <2>6
<1>8. CASE FraudReview
  BY <1>2, <1>8
  DEF FraudReview, RaiseFlag, DismissFlag, ConfirmBehaviour, ConfirmImpression, ReportAd, moneyRest
<1>9. CASE UNCHANGED vars
  BY <1>2, <1>9 DEF vars
<1> QED
  BY <1>4, <1>5, <1>6, <1>7, <1>8, <1>9 DEF Next

\* A worker that finds its PayPal or Wise destination unfrozen may take its time to
\* call: nobody freezes it in between.
LEMMA SendStep ==
  ASSUME IInv, Fenced, ClearToSend, [Next]_vars, NEW w \in Workers,
         call[w] = "none", call'[w] = "leg1"
  PROVE  /\ job[w] \in Payouts /\ dest[job[w]] \in Accounts /\ Kind(job[w]) # "manual"
         /\ Kind(job[w]) = "psp" => ~frozen[dest[job[w]]]
<1> USE PayoutAssumption DEF IInv, Typed, Unassigned, TypeOK, workerVars
<1>1. CallProvider(w)
  <2>1. ASSUME UNCHANGED call PROVE FALSE
    BY <2>1
  <2>2. CASE Developer \/ Operators
    BY <2>1, <2>2
    DEF Developer, Operators, RemoveMethod, RequestPayout, ApprovePayout, RejectPayout,
        AdminRepeatsPaid, AdminMarkPaid, SetAccountVerified, FreezeAccount, UnfreezeAccount,
        ReadFence, ReleaseFence
  <2>3. CASE Reconciliation \/ FraudReview
    BY <2>1, <2>3
    DEF Reconciliation, RemotePays, RemoteFails, CronPolls, CronApplies, HookPaid, HookFreezes,
        HookReverses, HookFails, HookDies, providerOnly, FraudReview, RaiseFlag, DismissFlag,
        ConfirmBehaviour, ConfirmImpression, ReportAd, moneyRest
  <2>4. ASSUME NEW v \in Workers,
               \/ \E p \in Payouts : Claim(v, p)
               \/ BreakerRejects(v) \/ Answer(v) \/ Bind(v) \/ WorkerPays(v) \/ WorkerFails(v)
               \/ Finally(v) \/ Timeout(v) \/ Crash(v)
        PROVE  FALSE
    BY <2>1, <2>4
    DEF Claim, BreakerRejects, Answer, Bind, WorkerPays, WorkerFails, Finally, Timeout, Crash
  <2>5. ASSUME NEW v \in Workers, ProviderAnswers(v) \/ RequestLost(v) PROVE FALSE
    BY <2>5
    DEF ProviderAnswers, PspAnswers, StripeTransfers, StripePaysOut, StripeReverses, RequestLost, Reply,
        OpenCall
  <2>6. ASSUME NEW v \in Workers, CallProvider(v) PROVE v = w
    BY <2>6 DEF CallProvider
  <2> QED
    BY <2>1, <2>2, <2>3, <2>4, <2>5, <2>6 DEF Next, Processing, WorkerStep, vars
<1>2. pc[w] = "claimed" /\ job[w] \in Payouts /\ Kind(job[w]) # "manual"
  BY <1>1 DEF CallProvider
<1>3. status[job[w]] # "none"
  BY <1>2 DEF Owned
<1> QED
  BY <1>2, <1>3 DEF ClearToSend, Fenced, Destined

\* Nothing is sent to a frozen destination, as long as no operator races
\* releasePayoutFence and none of the destinations is Stripe's, whose bank failures freeze
\* a destination under another payout's fence.
THEOREM FrozenIsNotSentTo ==
  ASSUME "failedcreate" \notin Env, "release" \notin Env, \A a \in Accounts : Provider[a] # "stripe"
  PROVE  Spec => NoSendWhileFrozen
<1>1. Init => ClearToSend
  BY DEF Init, ClearToSend
<1>2. Fenced /\ ClearToSend /\ IInv /\ IInv' /\ [Next]_vars => (Fenced /\ ClearToSend)'
  BY FencedStep, ClearToSendStep
<1>3. Fenced /\ ClearToSend /\ IInv /\ [Next]_vars
        => [\A w \in Workers : call[w] = "none" /\ call'[w] = "leg1" => ~frozen[dest[job[w]]]]_vars
  <2> SUFFICES ASSUME Fenced, ClearToSend, IInv, [Next]_vars, NEW w \in Workers,
                      call[w] = "none", call'[w] = "leg1"
               PROVE  ~frozen[dest[job[w]]]
    OBVIOUS
  <2> QED
    BY SendStep, PayoutAssumption DEF Kind
<1> QED
  BY <1>1, <1>2, <1>3, InitFenced, Inductive, PTL DEF Spec, NoSendWhileFrozen
===============================================================================
