# Verification of WaitLayer's protocols

This directory holds TLA+ models of the parts of the API (`src/apps/api`), the command
line and the editor extension where several actors change shared state at once and
where a mistake costs money, an account or a record; the TLC configurations that check
them on small instances; and TLAPS proofs of the results that matter most.

- **Payouts**: how a developer's earnings leave the platform, once, to the right place,
  whatever times out, dies or arrives late.
- **Advertisement billing**: how a budget is reserved, spent and released while
  impressions are served, qualified, clicked, reported and reclaimed.
- **Money in**: an advertiser's deposits, refunds and disputes through Stripe and Dodo,
  and the campaign they activate; the developer's earnings rows, and what becomes of
  them when the account is erased.
- **Accounts**: sessions, second factor and the tokens clients keep, agent sessions and
  the policy they are bound to, sandbox opportunities, the command line's event spool.
- **Services**: audit outbox, email queue, referrals, runtime switches, devices.

Abbreviations for the paths below: `payout/` is `src/apps/api/src/payout/`, and
likewise for the other API directories; `cli/` is `src/apps/cli/src/` and `vscode/` is
`src/apps/vscode-extension/src/`.

## 1. The system

A NestJS API over PostgreSQL. Editors and command lines show advertisements while
a developer waits for an agent; advertisers pay from prepaid budgets; developers
earn a share and withdraw it. Components, their state, what is hard, and the module:

| Component | State | What is hard | Module |
|---|---|---|---|
| Payout requests (`payout/payout-request.trait.ts`) | `payoutRequest.status`, allocations, `payoutTransaction`, cash rows, the fence `payoutAccount.initiationPayoutId` | a provider call between two transactions; four callers that settle one payout | `PayoutProcessing` |
| Payout methods, review (`payout/payout-method.trait.ts`, `admin/admin-payouts.trait.ts`) | `payoutAccount` rows | a destination vanishing or frozen under an open payout; a decision on a row read earlier | `PayoutProcessing` |
| Polling cron, Stripe payout webhook, providers | leases, `webhookEvent`, remote transfers | repeated, late and early events; two legs and an undo | `PayoutProcessing` |
| Earnings ledger (`ledger/ledger-earnings.trait.ts`, `fraud/fraud.service.ts`) | earnings rows, recovery debts, flags | split rows, partial approvals, reversal before, during and after a payout, a recovery debit that is a row like any other | `Earnings` |
| Account erasure (`common/utils/account-erasure.ts`) | rows, destination, forfeit | a serializable transaction among others that are not | `AccountErasure` |
| Stripe deposits (`payout/stripe-webhook.controller.ts`) | advertiser ledger, cash rows, `webhookEvent` | refunds and disputes that overtake the deposit, handlers that die half-way, a dispute that takes its unit from a credit another one restored | `StripeFunds` |
| Dodo deposits (`payout/dodo-webhook.controller.ts`) | the same | deliveries that are not claimed and run twice at once | `DodoFunds` |
| Ad serving and billing (`extension/`, `campaign/`) | remaining and reserved budget, impressions | a reservation reclaimed while billed; two campaigns of one balance | `AdBilling` |
| Campaign review (`advertiser/`, `campaign/campaign.service.ts`, `admin/admin-campaigns.trait.ts`) | campaign and creative status | reviewers, advertiser, crons and deposits decide at once on stale reads | `CampaignReview` |
| Authentication (`auth/`) | sessions in token families, TOTP, backup codes | one refresh token used twice at once; a revocation racing a rotation | `Sessions` |
| Clients' tokens (`vscode/api-client.ts`, `cli/lib/api-client.ts`) | tokens in memory and in shared storage | several requests refused at once, lost answers, sign-in and sign-out meanwhile | `ClientTokens` |
| Agent sessions (`agent/`) | session, work units, opportunities, facts | telemetry late, twice and out of order; crons that freeze what it changes; an age checked before a wait | `AgentSessions` |
| Sandbox opportunities (`extension/extension-ad.trait.ts`) | opportunity rows | devices that ask at once at the edge of the cap | `AdOpportunities` |
| Event spool (`cli/lib/agent-spool.ts`) | queue, claim and quarantine files, a lock file | processes that die between two writes | `AgentSpool` |
| Audit outbox (`audit/`) | log and outbox rows, a lease | drains that outlive their lease, commits whose answer is lost | `AuditOutbox` |
| Email queue (`email/`) | queue rows | overlapping runs, a content enqueued again | `EmailQueue` |
| Referrals (`referral/`) | referral rows | a reward asked for by several callers, or by none; a cron that reads one batch | `Referral` |
| Runtime switches (`runtime-config/`) | row, caches, announcements | a stale read cached after a change | `RuntimeConfig` |
| Devices (`extension/extension-device-report.trait.ts`) | devices, trust levels | two users of one device at once, a score recomputed meanwhile | `DeviceRegistration` |

What is in no module, and why, is in section 5.

The interactions that matter: `processPayout` claims a payout and its destination in
one transaction, calls the provider outside it, and then binds the provider's id in
another. The cron, the webhook and operators settle the same payout by
compare-and-set on `payoutRequest.status`. Fraud review and ad reports write the
earnings rows allocated to the payout while all this happens. The *fence* keeps a
destination from receiving a second transfer while the outcome of a first is unknown,
and keeps operators from freezing or removing it meanwhile. A deposit is credited by a
webhook, spent by the billing transactions and taken back by refunds and disputes; its
arrival activates campaigns. Telemetry that a client spools mints the opportunities
that ad requests claim. An erasure revokes sessions, renames device fingerprints and
forfeits rows. A paid payout asks for the referral's reward.

## 2. Modules

| Module | Role |
|---|---|
| `PayoutProcessing`, `PayoutSettlement` | the payout flow in detail, and what it promises: an abstract specification of claims and money |
| `AdBilling` | budget, impressions, the two billing requests, the reclaim cron, reports, pause and archive |
| `StripeFunds`, `DodoFunds`, `Earnings`, `AccountErasure`, `CampaignReview` | the components brought together in `Money` |
| `ClientTokens`, `AgentSessions`, `AdOpportunities`, `AgentSpool` | the components brought together in `Clients` |
| `AuditOutbox`, `EmailQueue`, `Referral`, `RuntimeConfig`, `DeviceRegistration` | the components brought together in `Services` |
| `Sessions` | sign-in, rotation, resets, second factor |
| `Money`, `Clients`, `Services` | name the variables of their components apart and state their properties |
| `MCPayout`, `MCAds` | instances of the first two flows: rails, bids, budgets, symmetry |
| `MCMoney`, `MCAccounts`, `MCServices` | instances of the others, several in one run |
| `PayoutProcessingProofs`, `PayoutFenceProofs`, `AdBillingProofs`, `SessionsProofs`, `MoneyProofs`, `ClientProofs`, `ServicesProofs` | inductive invariants and theorems |
| `SumTheorems` | sums over finite sets: what one element adds, what a bound on each part bounds |

Conventions. A database transaction is one action, because the code runs it under row
or advisory locks or as a compare-and-set; where another action must wait for the row
or the lock, the guard says so (`RowLocked`, `lock`, `FamilyLocked`). A read before a
transaction is a step of its own whenever the code acts on it later: `...Reads`,
`...Commits`. What a request has read is in `job` (or `req`, `call`, `read`), and a
process may die with it. An operator with an underscore, such as `MarkFailed_NoCas`, is
a mutant of the operator defined right after it: the same step with a plausible bug,
put in its place to see that a property notices. `Env` and `Faults` list the
disturbances an instance exercises; an action that needs one names it in its guard.

The components in `Money`, `Clients` and `Services` share no state with each other. What
is proved is proved of each under its own specification (`Stripe!Spec`, `Agent!Spec`,
...); for TLC, a behaviour of `MCMoney`, `MCAccounts` or `MCServices` is one of one of
them, chosen in the initial state by `focus`, while the others rest in theirs, so the
state space is the sum of the components' and not their product, and nothing is claimed
about their composition. Components whose processes are anonymous share the model values
`a1`, `a2` and `b1`, `b2`; since each is symmetric in them, one symmetry set serves all.

### 2.1 `PayoutProcessing` and the code

All payouts of an instance belong to one developer: the locks `payout-account:<user>`
and `payout-fraud:<user>` are per user, and developers share nothing else in this flow.

| State | Column or value |
|---|---|
| `status`, `dest`, `rows`, `debt` | `payoutRequest.status` and destination; the status the allocated earnings rows have in common; a recovery debit against them |
| `txn` | the `payoutTransaction` row: `placeholder` is `initiate_pending_<id>`, `bound` has the provider's id |
| `cash` | cash bucket rows keyed by the payout: debit, and the credit that takes it back |
| `active`, `verified`, `frozen`, `fence` | `payoutAccount` columns |
| `flag` | the severity of the developer's active fraud flag |
| `pc`, `job`, `call` | an invocation of `processPayout` and its `provider.initiate` promise |
| `remote`, `inbox` | what the provider has done; Stripe events stored and not processed |
| `hook`, `seen`, `noted` | what the `payout.failed` handler has done, what the cron was told, the fence an operator read |

| Actions | Code |
|---|---|
| `RequestPayout`, `RemoveMethod` | `requestPayout`; `removePayoutMethod` and replacement |
| `ApprovePayout` ... `ReleaseFence` | `admin-payouts.trait.ts` |
| `Claim` | the claim transaction of `processPayout`: checks, compare-and-set, fence, placeholder |
| `BreakerRejects`, `CallProvider`, `Answer`, `Timeout`, `Bind`, `WorkerPays`, `WorkerFails`, `Finally` | the rest of `processPayout`, in its order, with each error path |
| `MarkPaid`, `MarkFailed`, `RepeatPaid`, `RepeatFailed` | the transactions of `markPayoutPaid` and `markPayoutFailed` and their replays, used by worker, cron, webhook and operator |
| `Crash`, `RequestLost` | the API process dies at any step; a request on the wire may still arrive |
| `PspAnswers`, `StripeTransfers`, `StripePaysOut`, `StripeReverses` | what the provider adapters return and what the provider did, independently |
| `RemotePays`, `RemoteFails` | the bank decides |
| `CronPolls`, `CronApplies` | `pollProcessingPayouts`: the answer is applied in a later step |
| `HookPaid`, `HookFreezes`, `HookReverses`, `HookFails`, `HookDies` | the webhook handlers, three steps for `payout.failed` |
| `RaiseFlag`, `DismissFlag`, `ConfirmBehaviour`, `ConfirmImpression`, `ReportAd` | `createFlag`, `resolveFlag` and `reportAd`, as far as they touch allocated rows |

### 2.2 `AdBilling` and the code

All campaigns of an instance belong to one advertiser: the billing lock is per
advertiser and currency. A bid and a budget can be edited only in a draft, so `spent`
and `reserved` are counted in bids of their campaign; the balance, which campaigns
share, is in minor units. Age thresholds, the hourly cap, auction filters, rate limits
and attestation decide only whether a request passes its gates: the model lets every
request pass them or be refused.

| Actions | Code |
|---|---|
| `Serve`, `Render` | `claimImpression` with its reservation; the render acknowledgement |
| `AskQualify`, `BillLock`, `BillCommit`, `QualifyCpc`, `Void` | `recordQualifiedImpression`: reads and gates, the billing transaction up to and after its balance check, the CPC path, `invalidateImpressionAndReleaseReservation` |
| `AskClick`, `ClickLock`, `ClickCommit` | `recordClick` |
| `Crash` | the request dies and its transaction is rolled back |
| `CronPicks`, `CronReclaims` | the reclaim cron: a batch is read, each row is claimed in its own transaction |
| `FlagFalsePositive`, `ReportAd`, `ReverseEarnings` | the developer's reports; the reversal runs after the report's transaction |
| `Pause`, `Resume`, `Archive` | the campaign's transitions, the spend guard's pause included |

### 2.3 `PayoutSettlement`

Per payout a claim (`none`, `reserved`, `settled`, `released`) and the place of its
money (`home`, `away`, `out`, `back`). Money leaves only for a reserved claim and only
once; a claim is settled only when the money is out and released only when it is at
home or back; nothing is undone. `PayoutProcessing` maps its state to
these two (`ClaimOf`, `MoneyOf`): a request on the wire counts as money away, because
it can still become a transfer.

### 2.4 Money in and earnings

`StripeFunds` follows one deposit. `credit`, `hold`, `restored` and `refundRow` are the
rows of the advertiser ledger, `cash*` those of the cash bucket, `event` the state of
each stored event (`pending`, `processing`, `processed`). The handlers are
taken apart at their transactions: `DepositCredits`, `DepositCatchesUp`,
`DepositBooksCash`; `RefundReads` to `RefundDebits`; `DisputeFreezes`; `CloseFinds`,
`CloseSettles`. `HandlerDies` hands the event to the reclaim cron. A hold is keyed by
dispute and credit, as in the code: `First(d)` is the one on the deposit's row, the others
(`Unused(d)`, at most `MaxHolds`) are on credits that a won dispute restored, for
`handleDispute` walks every credit of the payment, in no order, until its unit is found
(`Freezes`); `spent` are the restored credits taken so. A dispute ends won, lost, or
`warned`, an inquiry closed without money taken, which the code treats like a loss.
`DodoFunds` has the
same vocabulary for the other controller, which claims no delivery: `Deliver(h, e)` may
start a second handler of an event that is still being handled.

`Earnings` keeps rows (`row[k]`: credit, amount, status, flag), a recovery debit for each
paid row that was reversed (`debt[k]`), allocations (`alloc[p][k]`) and payouts with the
amount asked for. Its steps are the crediting and maturing of
rows, `requestPayout` with its split (`allocatePayoutEarnings`) and its failure
(`RequestAborts`), approval for less, the claim of `processPayout` that trims the
allocation, the settlements, flags, and `reverseEarnings`, for a report in two steps, its
scan and its commit. Flags hold and move debits as they do credits (`Held`, `Moved`), may
be raised again while active and resolved again with the same verdict, and a reversal
takes the debits of its credit along with the unpaid rows (`Reversed`), because the code's
updates do not ask for the type of an entry. A report's update finds the rows of its
snapshot: what other transactions do between its scan and its commit is all there, except
that with `Overlap` off (`Undisturbed`) no row of the credit is cut or trimmed there.

`AccountErasure` gives the transactions that the erasure overlaps, and PostgreSQL's rule
for a SERIALIZABLE one: it aborts when a row it overwrites was written since its snapshot
(`Writes`), is tried again `MaxAttempts` times, and does not notice what is only inserted.

`CampaignReview` has the status of a campaign and its creatives, the requests of
advertiser and reviewers as a read and a commit each, the spend guard, and the
activation by `approveCreative`, `approveCampaign` and a deposit.

### 2.5 Accounts

`Sessions`: `row[s]` is a session row, `family[s]` its token family. A rotation is two
steps under the family's advisory lock; a bulk revocation that waits for the row lock of
a rotation does not see its child, which is the same as revoking first. `burned`, `used`
and `under` are histories: families a replay was detected in, uses of each backup code,
the password a session was signed in with.

`ClientTokens`: processes (editor windows, or commands) with `memory`, and the storage
they share. A refresh is a record in `call` with its steps `asked`, `granted` or
`refused`, and the two writes after it, whose order differs between editor and command
line (`StoreFirst`). Closing a window and starting one may happen anywhere.

`AgentSessions`: `ingestBatch` checks the age of an event (`Validates`) and `ingestEvent`
stores it at any time later (`Ingest`); between the two it is in `taken`. `stored` are the
events projected so far, `session`, `work`, `minted`
and `policy` what they project to, `build` and `fact` the cron that freezes them, with
what was in flight when it read (`inflight`, which only the properties look at). `now`
runs between the bounds the validation uses. `AdOpportunities`: `offer[o]`, read by
`RequestReads` before the lock and claimed by `RequestClaims` under it. `AgentSpool`: the
files `queue`, `inflight`, `quarantine`, `disabled`, `lock` and the processes `job` that
rewrite them; each write of a file is a step.

### 2.6 Services

`AuditOutbox` counts the rows of the log apart: `written` by the direct write,
`replayed` from the outbox. `Log` may do both, for a write that committed and threw is
queued too, or neither (`sink`); a drain's transaction may commit and still be counted
as failed (`done`). A drain writes an outbox row back from what it has read
(`drain[r]`), as the code does; `LeaseExpires` may strike at any time. `EmailQueue` sees
`next_retry_at` from now: `due`, or parked by a claim, or later; a claim outlasts the
batch it was made for. `Referral`: `RewardReads` is a payout that asks for its reward;
the payout cron reads the `Batch` oldest pending referrals of users with a paid payout
(`CronReads`; `since` ranks them by `updatedAt`, which nothing changes while they are
pending) and asks for one after the other (`CronAsks`), only while `PAYOUT_AUTO` is on
(`auto`). `RuntimeConfig`: a read of the row (`Reads`) and its entry in the cache
(`Caches`) are two steps, an announcement may be lost. `DeviceRegistration`:
registrations lock a fingerprint, then find an owner, then write; `ScoreReads`,
`ScoreWrites` are the recomputation under the user's own lock.

## 3. What is checked

| Run | Instance | Distinct states | Shows |
|---|---|---|---|
| `payout_live` | provider rail, 2 payouts, 1 destination, 2 invocations; crashes, timeouts, flags; fair scheduling | 155,000 | one initiator; an unresolved initiation keeps its fence; an accepted transfer whose id is recorded is booked in the end |
| `payout_stripe` | Stripe and a provider rail, webhook, fence releases, database errors; symmetry | 324,000 | the flow implements `PayoutSettlement`; released money is at home; cash rows say where the money is |
| `payout_review` | a manual and a provider destination; flags, forfeiture, reports, freezes, method changes; symmetry | 1,310,000 | rows follow the status, no open payout loses its destination, nothing is sent while frozen, closed stays closed |
| `ads_billing` | a CPM and a CPC campaign, 2 impressions, 2 requests, funds for one CPM charge or two clicks; crashes, reports; symmetry | 1,290,000 | budget and funds are never overdrawn, reservations match the open impressions, charges add up, invalid or archived is never charged |
| `ads_reclaim` | one CPM campaign, fair scheduling | 160,000 | every reservation is spent or released in the end |
| `money` | six focuses, below; symmetry | 1,650,000 | deposits are conserved, split earnings add up, a refund reaches every part of its credit, an erasure books what it takes, a submission is decided once and nothing closed is revived |
| `accounts` | seven focuses, below; symmetry | 2,390,000 | one good session per family and none after a replay, a backup code once, a refresh token once, a fact misses only what was in flight, policies independent of delivery, the cap, no event lost |
| `services` | five focuses, fair scheduling | 127,000 | an outbox row replayed once, mail kept and sent by one run, rewarded once and, while the cron is on and gets there, in the end, the switch reaches every replica, one unrestricted owner per device |

The focuses of `money`: a Stripe deposit of three units with two refunds and two
disputes of one each and two holds besides the first of each, once with refunds that may
overtake the deposit and once with two deaths (together they leave the books wrong, see
the hazard list); a Dodo deposit of two with a refund and a dispute, each event
delivered twice, two handlers, one death; two credits of one and two units, four rows,
two payouts and a flag; three credits around the threshold, two erasures with two
attempts; a creative edited once, and two requests. Of `accounts`: three sessions
without second factor or two with one and a backup code; eight events of one turn under
two policies, two in flight at once, accepted at an age of two on a clock of seven; two
opportunities under a cap of one; two running processes and a lock left by a third; two
windows, or two commands, with two refreshes at once and one sign-in besides the first.
Of `services`: one entry, two replicas, two operators, three retries, two requeues; one
content enqueued up to three times, two runs; three members of whom the last refers the
two others and may be banned, two payouts each, a batch of one; two replicas and two
writes; two users, two devices, two registrations.

Why these bounds. The hazards are races of two: two payouts share a destination, two
invocations meet a compare-and-set, two deliveries one event. A third actor meets the
first two in no new way, because the guards speak of one row, its lock and the request
at hand. Where a limit matters it is reached with a competitor present: budgets of one
bid, a cap of one, an outbox out of retries, a queue of two, a threshold of two. The
instances are finite without a state constraint, since payouts, impressions and events
are used once and every counter is bounded by a constant named `Max...`. Deadlock
checking is off: a finite set of work is done in the end.

Between them the passing runs take every action, and within the actions every branch
except one: the failing settlement of `StripeFunds` (`Throws`), for two handlers of one
dispute at once, which no passing instance has.

Every property has a mutant under the same configuration in which TLC finds it
violated (`PROJECT.json`, `mutants`). Type correctness is proved (section 4) for payouts,
billing and sessions; the other modules define `TypeOK`, their runs spend the time on
the properties, and the invariants proved of them contain the types they need.

### 3.1 Fairness

`payout_live`: a live invocation takes its steps (the event loop); the provider answers
a request and decides a transfer; the cron visits each processing payout again and
again (strong fairness, since another payout may be in its hands) and applies what it
saw; stored Stripe events are handed out until they are processed
(`webhook-reclaim-cron.service.ts`), and a reversal retried for ever succeeds at some
attempt. No human has to do anything, and nothing prevents crashes or timeouts. Database
errors are left out of this run: an error that strikes every attempt prevents any
progress, and one error in `WorkerFails` after a refusal recorded as
`paypal_failed_<id>` leaves an id the provider does not know (hazard list).

`ads_reclaim`: a request in progress is answered; the cron, which runs every few
minutes, reads and reclaims each overdue impression again and again. Nobody has to
render, qualify or click.

`services`, referrals: the payout cron keeps ticking while it is switched on and reads one
batch at each tick; of the runs that have read a referral not all die before they ask for
it, and of the transactions they try for it not all fail. Nobody else is assumed to ask
for a reward, and no referral is assumed to be read: which ones are follows from their
age. `PendingIsPaid` therefore promises nothing while `PAYOUT_AUTO` is off, and
nothing to a referral behind a full batch of older ones that do not qualify
(`Crowded`). Runtime switches: cache entries expire (the TTL), and a replica that has
read the row or begun a change goes on; announcements need not arrive.

### 3.2 Disagreements between code and text

| Run | What TLC shows | What the text says |
|---|---|---|
| `payout_late_failure` | a bank payout that fails after it was booked paid has its funding reversed and keeps its debit | `payout/payout-request.trait.ts:1453` requires the compensation |
| `ads_orphan` | an impression reported before it qualified keeps its reservation for ever | the header of `campaign/campaign-reservation-reclaim.cron.ts` names this as what the cron prevents |
| `earnings_partial` | an operator who marks a partially approved payout paid retires rows worth the whole request | `payout/payout-request.trait.ts:743`: only the approved amount, "the remainder available" |
| `dodo_lost` | a lost dispute is subtracted twice from the advertiser's balance | `payout/dodo-webhook.controller.ts:680`: the hold is retired so that nothing settles twice |

Other properties are stated in the modules and put into no configuration, because TLC
violates them and each is a smaller thing than the four above. To see one, give the
constants of its module the values of its INSTANCE in the MC module (or of the run named
here) and add the property:

| Property | What fails |
|---|---|
| `UnresolvedInitiationFenced` with `release` in `Env` (`payout_live`) | `releasePayoutFence` clears by account id after checking a payout read earlier: a newer initiation loses its fence |
| `AmbiguousInitiationCloses` (`payout_live`) | an initiation that timed out before any money moved stays in processing for ever; `docs/ops/runbooks.md:138` names a route that no controller has |
| `SentMoneyIsBookable` with `forfeit` or `report` | a confirmed behavioural flag, or a report, reverses rows of a payout in flight, which can then never be booked |
| `NoSendWhileFrozen` on the Stripe rail | `payout.failed` freezes a destination whatever its fence |
| `ReversalsConserve` | the reversal of a reported CPC impression takes the developer's credit and refunds nothing |
| `NothingFromNothing` with `concurrent` in `Faults` (`StripeFunds`) | `handleRefund` gives a slice back by `increment` whatever its compare-and-set on the hold finds (`payout/stripe-webhook.controller.ts:968-991`): a dispute won between the refund's scan and that transaction is restored twice, which the comment there and at line 1428 mean to rule out |
| `RefundIsRecorded` with `Overlap` TRUE (`Earnings`) | a payout that cuts a row between a report's scan and its commit moves a part of the refunded credit out of the reversal's reach |
| `RefundIsFinal` (`Earnings`) | a reversal that is repeated takes the recovery debit of a paid row for an unpaid entry and reverses it (`ledger/ledger-earnings.trait.ts:451-461`), and the upsert that would write it again changes nothing; a behavioural flag that held the debit forfeits it (`fraud/fraud.service.ts:946`). The comment at 403-407 says "Idempotent" |
| `BooksSettle` with `disorder` in `Faults` (`StripeFunds`) | a dispute whose closing is handled before its opening finds no hold, and the opening then freezes a unit that nothing releases |
| `BooksSettle` without its exemption of inquiries | `handleDisputeClosed` writes off whatever was not won (`payout/stripe-webhook.controller.ts:1396`): `warning_closed` books cash out that Stripe never took |
| `BooksSettle` without its exemptions of units given back again | `handleDispute` reads every credit of the payment (1195), with no order and no `stripeDisputeId` filter: an opening handled again takes a second slice, of a credit that a won dispute restored, for the guard at 1138 looks at the status the event was sent with; a dispute that meets an empty row first freezes nothing; a unit won back and then refunded is not debited, since the refund looks at the deposit's row |
| `BooksSettle` without its exemption of superseded disputes | a refund retires the holds of every open dispute of the payment, and a dispute lost afterwards finds nothing to write off |
| `DebtIsNetted` | the balance is summed before the request's transaction |
| `NothingStranded` | a payout requested during an erasure, or a credit after it, survives it |
| `ApprovedWasRead`, `ReadyIsActive`, `BidWithinBudget` | stale reads in `approveCreative`, in the activation and in `updateCampaign` |
| `ResetEndsSessions`, `EnabledSecretIsProved` | a login under way survives a reset; a secret replaced between verification and enabling is enabled |
| `NoOwnReplay`, `LoginSurvives` | two windows of one editor replay each other's token; a late failure clears the tokens of a new sign-in |
| `OrderIndependent`, `AbandonedIsIdle` | the status follows the order of arrival; work begins in an abandoned session |
| `FactIsComplete` (`AgentSessions`) | the age of an event is checked before an await and the wait for a lock (`agent/agent.service.ts:231-332`), and the cron takes no lock: the event is stored after its session's fact, which `agent/attention-shadow-fact.cron.ts:121` says cannot be |
| `OnePerKey`, `ClaimIsFinal` | two requests with one key claim two opportunities; expiry or a second request rewrites a claim read earlier |
| `ResolvedIsTerminal`, `DeadLetterIsUnlogged` | a slow drain writes its old view of a row back |
| `OneRowPerEntry` (`AuditOutbox`) | a direct write that commits and throws is queued and replayed under a key the first row does not have: two rows for one entry |
| `PendingIsPaid` without `~auto` or without `Crowded(u)` (`Referral`) | nothing is reconciled while `PAYOUT_AUTO` is off (`payout/payout-cron.service.ts:134`); a batch of referrals that never qualify keeps its place at the head for ever (`referral/referral.service.ts:446-454`), and the caller ignores `hasMore` |
| `OneSenderEver`, `NoLoops` | enqueueing a content again releases a claimed row; two users name each other at once |

Of the disturbances behind these, `latefailure` and `earlyreport` are off in the passing
runs, as is `failedcreate` (Stripe answers `payouts.create` with a payout that has failed
already, and the earnings are released with the funding still at the connected account).
The theorems of section 4 exclude a disturbance only where they say so.

## 4. What is proved

The invariants and action properties that the passing runs check are proved, each for any
sets of payouts, destinations, workers, campaigns, impressions, requests, sessions,
devices, rows, events and processes, any amounts, caps, ages and bounds, and every
disturbance the theorem does not exclude. What the constants must satisfy is stated by
`PayoutAssumption`, `AdAssumption`, `MoneyAssumption`, `ClientsAssumption` and
`ServicesAssumption`, which TLC evaluates in every run of their modules (names that stand
for none are none of the names, amounts and limits are numbers, what is counted is
finite), and by `Bounded` for `Sessions`. The one among them about the world and not about
names is `AgentEvents`: a client reports the start of a session once, and nothing of the
session is from before it (`cli/` and `vscode/` emit the event when they create it).
Anything more is an `ASSUME` of the theorem itself:

| Theorem | States | Assumes |
|---|---|---|
| `PayoutProcessingProofs!TypeCorrect` | `[]TypeOK` | |
| `ReleasedOnlyAtHome` | `[]ReleasedMoneyIsHome` | `failedcreate` is off |
| `SingleInitiation` | `[]OneInitiation` | `failedcreate` is off |
| `BooksAlwaysMatch` | `[]BooksMatchMoney` | `failedcreate` and `latefailure` are off |
| `Implements` | `ImplementsSettlement`, the refinement | `failedcreate` and `latefailure` are off |
| `PayoutFenceProofs!InitiationStaysFenced` | `[]UnresolvedInitiationFenced` | `failedcreate` and `release` are off |
| `FrozenIsNotSentTo` | `NoSendWhileFrozen` | the same, and no destination on the Stripe rail |
| `ClosedStaysClosed` | `TerminalStable` | |
| `RowsAlwaysFollow` | `[]RowsFollowStatus` | |
| `OpenPayoutKeepsDestination` | `[]ReservedOnActiveAccount` | |
| `AdBillingProofs!TypeCorrect` | `[]TypeOK` | |
| `BudgetHolds` | `[]WithinBudget` | |
| `FundsHold` | `[]NoOverdraft` | |
| `ReservationsExact` | `[]ReservedMatchesOpen` | `earlyreport` is off |
| `SpendingExact` | `[]ChargesAddUp` | |
| `LateChargeImpossible` | `InvalidNeverCharged` | |
| `ArchiveHolds` | `ArchivedIsFinal` | |
| `SessionsProofs!TypeCorrect` | `[]TypeOK` | |
| `ChainHasOneEnd` | `[]OneLivePerFamily` | |
| `ReplayEndsFamily` | `[]BurnedFamilyIsDead` | |
| `CodeAdmitsOnce` | `[]BackupCodeOnce` | |
| `MoneyProofs!NeverWorthMore` | `[]NothingFromNothing` (Stripe) | `concurrent` is off |
| `OnlyRefundsAdd` | `OnlyStaleHoldsAdd` (Stripe) | none: handlers overlap, die and come in any order |
| `BooksAlwaysSettle` | `[]BooksSettle` (Stripe) | `concurrent` and `disorder` are off; refunds overtake, or handlers die |
| `UnitsConserved` | `[]DepositIsConserved` (Dodo) | |
| `RowsAlwaysAddUp` | `[]LedgerAddsUp` | |
| `NothingKept` | `[]RefundIsRecorded` | `Overlap` is off: no row of a credit is cut or trimmed between a report's scan and its commit |
| `BooksWhatItTakes` | `[]ForfeitIsBooked` | |
| `DecidedOnce` | `[]OneDecision` | |
| `StaysDown` | `NoResurrection` | |
| `ClientProofs!SentOnce` | `[]TokenSentOnce` | |
| `TakenIsKept` | `[]EventKept` | |
| `CapHolds` | `[]WithinCap` | |
| `FactMissesOnlyInFlight` | `[]FactIsFinal` | |
| `BoundToStart` | `[]PolicyOfStart` | |
| `ServicesProofs!ReplayAuditsOnce` | `[]AuditedOnce` | |
| `AcceptedStays` | `[]AcceptedIsKept` | |
| `OneRunSends` | `[]OneSender` | |
| `ReferralRewardedOnce` | `[]RewardedOnce` | |
| `DeviceHasOneFreeOwner` | `[]OneUnrestrictedOwner` | |

Few of these properties are inductive as they stand. Each module of proofs defines the
invariant that is, as named conjuncts, and has a lemma per action or group of actions
that keeps it; TLC checked those invariants on the instances above before they were
proved. What they add:

*Payouts.* Whether a failed payout's money is at home depends on what its worker was told.
`IInv` adds: a payout a worker holds has been claimed (`Owned`), by that worker alone
(`OneInitiation`); nothing happened to the money or the books of one never claimed
(`Untouched`); where a worker is says how its call ended (`PcMatchesCall`); an open payout
whose call has not left, or was answered with a failure, has no money out, and one that is
bound or failed has no call open (`Told`); what the cron saw and the webhook reversed is
so, and failed payouts have their money at home (`Known`); on the manual rail money moves
by an operator's hand only (`ByHand`). With it, every release is traced to one of three
causes: a worker told so, a poll that saw a return, a webhook that reversed the funds.
`BooksAlwaysMatch` and `Implements` need the converse as well: whoever books a payout paid
was told so by money that arrived (`Traced`, `Arrived`), and the cash rows are those of
the last booking (`CashSoFar`). The refinement then maps every action to a step of
`PayoutSettlement` or to a stutter. `InitiationStaysFenced` adds `Fenced`: the fence of a
payout without its provider id is missing only after its invocation gave up knowing that
nothing was sent (`GaveUp`), and that knowledge is final (`GaveUpForGood`). This is where
`release` must be excluded (section 3.2). `FrozenIsNotSentTo` follows from it: between a
worker's last look at its destination and its call the fence stands, and a fenced
destination is frozen by nothing but Stripe's webhook. `ClosedStaysClosed`,
`RowsAlwaysFollow` and `OpenPayoutKeepsDestination` hold under every disturbance.

*Billing.* `Inductive` says that a request inside its transaction holds the lock and a
billing transaction has claimed an unsettled impression (`Exclusive`, `Claimed`), that
nothing happened to an impression not served (`Unserved`) and that a CPM impression is
charged only when settled, a CPC impression only when clicked (`ChargedOnce`). With it
the budget columns are sums over impressions, and each theorem follows one action at a
time from how the two sets it counts change. For the balance, `Covered` says that a
request past its balance check still finds its bid there, because the lock keeps
everyone else's charge out.

*Sessions.* A family is a chain: a session not yet inserted is the root of its own family
(`Rooted`), a rotation has claimed its session and is alone in its family (`Claimed`),
there is one good session and while it is rotated no other (`Single`), and a burned
family has neither a good session nor a rotation that could add one (`Burnt`).

*Stripe.* With one handler at a time (`OneHandler`), the holds a refund has read are
still held when it gives them back (`ReadsHold`), so what is held or restored was taken
from the deposit (`WithinDeposit`). That is why `concurrent` must be excluded: section
3.2 names what happens otherwise. `OnlyRefundsAdd` says that nothing else does, whatever
is in `Faults`: a hold takes its unit out of the credit (`FreezingAddsNothing`) and
gives it back once (`ReleasingAddsNothing`), so that after its credit a deposit grows
only when a refund restores a hold settled after the refund had read it. It needs no
more than `DepositRows`, that the rows are rows. No run checks it (`money` keeps
handlers apart); without its second disjunct TLC refutes it as soon as `concurrent` is
in `Faults`. `BooksAlwaysSettle` adds what each event and its order say (`Marked`,
`Ordered`), what Stripe gave back (`GivenBack`), that the deposit's row lacks exactly
what disputes took and a handled dispute has its hold there (`HoldsMatch`), and that a
refund is debited by its own handler or by the deposit's catch-up, never by both or by
none (`DebitedOnce`). Both are claimed only while no unit has been disputed or refunded
twice (`GivenOnce`), which once lost is lost for good and is what `BooksSettle` exempts.
`DebitedOnce` is false when a refund overtakes its deposit and the deposit's handler
dies as well: the catch-up is skipped when the event is delivered again.

*Dodo.* What a handler has read is enough although two handlers run at once, because the
rows are claimed by compare-and-set (`SettledOnce`, `Informed`); the units held, restored
and written off are then those taken out of the credit (`TakenOut`).

*Earnings.* `LedgerFrame` says that rows are rows (`Shaped`, `Recorded`) and that what a
request has read is still there when it commits, reversed meanwhile or not (`Snapshots`);
it needs no assumption and serves both theorems. `NothingKept` adds that a row with a
recovery debit is paid (`DebtsPaid`), so that no row of a refunded credit is left to split
(`Refunded`), that flags and reports are about credits that exist (`Flagging`), and that a
report's update has found all that is unpaid of its credit when it commits (`Reporting`):
this is what a split inside the report breaks, hence `Overlap` off; flags, payments,
releases and other reversals may come between. The theorem says that a debit was written,
not that it lasts (section 3.2). For the amounts `LedgerInductive` says that what
is counted is a number (`Counted`), that an allocation is of a whole row that is in no
other payout (`Whole`), that a payout's allocations are what it asks (`Asked`), and that a
credit's rows add up to its share (`CreditsAddUp`). A request takes rows in order until
its amount is reached, and a trim gives rows back in order: `WalkTakes`, `WalkBounds` and
`WalkCutsOne` in `SumTheorems` say of any such walk that it takes exactly the amount and
cuts one row at most. `RowsAlwaysAddUp` holds with `Overlap` on as well, which the run
leaves out for the sake of `RefundIsRecorded`.

*Erasure, review.* The snapshot of a serializable transaction that has not been overwritten
still says what the rows are (`SnapshotHolds`); a submission is decided by a
compare-and-set on the status (`Waiting`, `Deciding`).

*Clients and services.* The token in storage, in memory and in flight is never ahead of
the server's turn (`Known`, `Flights`, `Granted`, `Unsent`); the lock of the spool keeps
writers apart until one is taken from a running process (`Excluded`, `Halfway`); the
fact of a session has every event from before its end that was not in flight when the
cron read, because none is accepted any more that is older than the age after which the
fact is frozen (`Complete`). `ReplayAuditsOnce` is about replays from the outbox and not
about the direct write, which may leave a second row (section 3.2). A drain reads only
rows that have a retry left, and a row without one has failed (`Retriable`); a processed
outbox row is in the log once (`Logged`); a mail row is kept while anyone may have been
promised it (`Kept`), the print lock covers a registration's read and write
(`PrintHeld`, `OneFree`).

Sums and cardinalities that an action changes by one element follow from the library's
facts about finite sets and from `SumTheorems`: that adding an element to a sum's set adds
its value, and so on, is proved there by the smallest subset that would fail, since
induction over sets, which takes an operator as parameter, is out of the provers' reach.

Only model-checked: `AcceptedTransferSettles`, `ReservationsEnd`, `PendingIsPaid` and
`SwitchReachesAll`, which are liveness under fairness (fairness is stated with `ENABLED`,
which the prover does not handle). The violations of section 3.2 are TLC's.

## 5. What is not modelled, and the plan

Abstracted in the models: the split of a bid into shares, exchange rates and fees;
the payout cron's lease, batch limit and attempt counters; the counters of the
breaker (an open one may refuse any call, which covers every state they can reach);
the detectors of fraud review; auction, targeting, rate limits and attestation (a
request passes its gates or is refused); a provider's request formats; the content of
telemetry, mail and audit entries. External code (the providers, the bank, PostgreSQL,
the mail provider, Redis, the operating system) is modelled from how the source uses it; it
is assumed that Stripe reverses a transfer only when the funds are at the connected
account.

Left out, with the reason:

- exports and retention (`compliance/`): reads, and deletions by age; no protocol;
- attention models (`agent/attention-*`): statistics over recorded events, opaque to
  the session that stores them;
- health, metrics, alerts, configuration: wiring and counters;
- marketing, feedback, developer pages, sandbox wallet: records created, read, updated;
- shared packages: pure functions on amounts and strings;
- the web dashboard and the clients' user interface: pages over the API. The attention
  state machine of the editor (`vscode/attention-state-machine.ts`) has no caller;
- the integrity cron (`ledger/`): it only reads and reports, and the sums it compares
  are properties here;
- the two-person approval of a fence release (`admin/admin-payouts.trait.ts:595-709`):
  with the stale read of section 3.2 its check can be made of another payout than the
  one whose fence is cleared, so nothing worth checking holds of it.

Next, in this order:

1. the breaker's half-open trial and the batch limit of the payout cron, when their
   hazards are worth a run;
2. the device registration that clients keep beside their tokens.
