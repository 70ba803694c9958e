------------------------------- MODULE AdBilling -------------------------------
(***************************************************************************)
(* The money side of advertisements: a campaign's budget is reserved when  *)
(* an impression is served, spent when it qualifies (CPM) or is clicked    *)
(* (CPC), and released when it is invalidated or never qualifies.          *)
(*                                                                         *)
(* All campaigns belong to one advertiser: the billing lock is per         *)
(* advertiser and currency, and advertisers share nothing else.  A bid and *)
(* a budget can be edited in a draft only, so budget columns are counted   *)
(* in bids of their campaign; only the balance, which campaigns share, is  *)
(* counted in minor units.                                                 *)
(*                                                                         *)
(* An operator with an underscore is a mutant of the one defined after it. *)
(***************************************************************************)
EXTENDS Integers, FiniteSets, Functions

CONSTANTS
  Campaigns,
  Impressions,  \* advertisement impressions, one per wait state
  Handlers,     \* concurrent recordQualifiedImpression and recordClick requests
  NoCampaign,   \* the campaign of an impression not served yet
  Nobody,       \* the holder of a free billing lock; the job of an idle handler
  BidType,      \* BidType[c]: "cpm" or "cpc"
  Bid,          \* Bid[c]: bidAmountMinor
  Budget,       \* Budget[c]: budgetTotalMinor \div bidAmountMinor
  Funds,        \* the advertiser's confirmed deposits
  Env           \* the disturbances this instance exercises; "earlyreport": an
                \* advertisement reported before it qualified or was invalidated

ASSUME AdAssumption ==
  /\ IsFiniteSet(Impressions)
  /\ NoCampaign \notin Campaigns
  /\ Nobody \notin Handlers /\ Nobody \notin Impressions
  /\ BidType \in [Campaigns -> {"cpm", "cpc"}]
  /\ Bid \in [Campaigns -> Nat \ {0}]
  /\ Budget \in [Campaigns -> Nat]
  /\ Funds \in Nat
  /\ Env \subseteq {"crash", "falsepositive", "report", "earlyreport"}

VARIABLES
  state,      \* campaign.status, from activation on
  spent,      \* campaign.budgetSpentMinor, in bids
  reserved,   \* campaign.budgetReservedMinor, in bids
  camp,       \* adImpression.campaignId
  rendered, qualified, invalid, billable,   \* impressions with that column set
  clicked,    \* impressions with an adClick row
  falsepos,   \* impressions whose wait state was reported a false positive
  reported,   \* impressions with an adReport row
  debits,     \* confirmed advertiser debits per impression
  refunded,   \* impressions whose debit has its compensating credit
  earned,     \* the developer's credit for an impression
  pc, job,    \* a handler's place and its impression
  lock,       \* pg_advisory_xact_lock of the advertiser and currency
  picked      \* impressions in the reclaim cron's batch

campaignVars   == <<state, spent, reserved>>
impressionVars == <<camp, rendered, qualified, invalid, billable, clicked, falsepos, reported>>
ledgerVars     == <<debits, refunded, earned>>
handlerVars    == <<pc, job, lock>>
vars == <<campaignVars, impressionVars, ledgerVars, handlerVars, picked>>

-------------------------------------------------------------------------------
\* "qualify", "void", "click": past the reads, before the transaction; "billing",
\* "clicking": inside it, holding the lock.
Place == {"idle", "qualify", "void", "billing", "click", "clicking"}

\* "reversed": taken back, or a recovery debit of the same amount if already paid.
Credit == {"none", "live", "reversed"}

TypeOK ==
  /\ state \in [Campaigns -> {"active", "paused", "archived"}]
  /\ spent \in [Campaigns -> Nat] /\ reserved \in [Campaigns -> Nat]
  /\ camp \in [Impressions -> Campaigns \cup {NoCampaign}]
  /\ {rendered, qualified, invalid, billable, clicked, falsepos, reported, refunded, picked}
       \subseteq SUBSET Impressions
  /\ debits \in [Impressions -> Nat]
  /\ earned \in [Impressions -> Credit]
  /\ pc \in [Handlers -> Place] /\ job \in [Handlers -> Impressions \cup {Nobody}]
  /\ lock \in Handlers \cup {Nobody}

Init ==
  /\ state = [c \in Campaigns |-> "active"]
  /\ spent = [c \in Campaigns |-> 0] /\ reserved = [c \in Campaigns |-> 0]
  /\ camp = [i \in Impressions |-> NoCampaign]
  /\ rendered = {} /\ qualified = {} /\ invalid = {} /\ billable = {}
  /\ clicked = {} /\ falsepos = {} /\ reported = {} /\ refunded = {} /\ picked = {}
  /\ debits = [i \in Impressions |-> 0]
  /\ earned = [i \in Impressions |-> "none"]
  /\ pc = [h \in Handlers |-> "idle"] /\ job = [h \in Handlers |-> Nobody]
  /\ lock = Nobody

Served(i)  == camp[i] # NoCampaign
Cpm(i)     == BidType[camp[i]] = "cpm"
Settled(i) == i \in qualified \cup invalid

\* The impressions whose reservation has been neither spent nor released.
Open(c) == {i \in Impressions : camp[i] = c /\ ~Settled(i)}

\* A billing transaction has updated the impression's row and not committed.
RowLocked(i) == \E h \in Handlers : pc[h] = "billing" /\ job[h] = i

\* What an impression's rows add to the balance: its debits, and the credit reversing one.
Effect(i) ==
  IF Served(i) THEN ((IF i \in refunded THEN 1 ELSE 0) - debits[i]) * Bid[camp[i]] ELSE 0

\* getAdvertiserBalance: deposits and reversals less debits.
Balance == Funds + SumFunction([i \in Impressions |-> Effect(i)])

-------------------------------------------------------------------------------
\* Serving (claimImpression) and rendering.

Reservable_IgnoresReserved(c) == state[c] = "active" /\ spent[c] + 1 <= Budget[c]
Reservable(c) == state[c] = "active" /\ spent[c] + reserved[c] + 1 <= Budget[c]

\* A CPC campaign was filtered by the auction earlier and is not checked again.
Serve(i, c) ==
  /\ ~Served(i)
  /\ camp' = [camp EXCEPT ![i] = c]
  /\ \/ /\ BidType[c] = "cpm" /\ Reservable(c)
        /\ reserved' = [reserved EXCEPT ![c] = @ + 1]
     \/ BidType[c] = "cpc" /\ UNCHANGED reserved
  /\ UNCHANGED <<state, spent, rendered, qualified, invalid, billable, clicked, falsepos,
                 reported, ledgerVars, handlerVars, picked>>

Render(i) ==
  /\ Served(i) /\ i \notin rendered
  /\ rendered' = rendered \cup {i}
  /\ UNCHANGED <<campaignVars, camp, qualified, invalid, billable, clicked, falsepos,
                 reported, ledgerVars, handlerVars, picked>>

-------------------------------------------------------------------------------
\* recordQualifiedImpression.

Enter(h, i, place) ==
  /\ pc[h] = "idle"
  /\ pc' = [pc EXCEPT ![h] = place]
  /\ job' = [job EXCEPT ![h] = i]

Leave(h) == pc' = [pc EXCEPT ![h] = "idle"] /\ job' = [job EXCEPT ![h] = Nobody]

\* The reads and gates: account, render, surface, rate limit, attestation.
AskQualify(h, i) ==
  /\ Served(i)
  /\ \/ i \in rendered \ (qualified \cup falsepos) /\ Enter(h, i, "qualify")
     \/ Enter(h, i, "void")
  /\ UNCHANGED <<campaignVars, impressionVars, ledgerVars, lock, picked>>

Released_Unguarded(i) ==
  IF Cpm(i) THEN [reserved EXCEPT ![camp[i]] = @ - 1] ELSE reserved

\* The WHERE guard: a reservation that is gone is not released again.
Released(i) ==
  IF Cpm(i) /\ reserved[camp[i]] >= 1 THEN [reserved EXCEPT ![camp[i]] = @ - 1] ELSE reserved

\* invalidateImpressionAndReleaseReservation.
Void(h) ==
  LET i == job[h] IN
  /\ pc[h] = "void" /\ ~RowLocked(i)
  /\ Leave(h)
  /\ \/ Settled(i) /\ UNCHANGED <<qualified, invalid, reserved>>
     \/ /\ ~Settled(i)
        /\ qualified' = qualified \cup {i} /\ invalid' = invalid \cup {i}
        /\ reserved' = Released(i)
  /\ UNCHANGED <<state, spent, camp, rendered, billable, clicked, falsepos, reported,
                 ledgerVars, lock, picked>>

\* A CPC impression qualifies for a click; its row is not asked if it is invalid.
QualifyCpc(h) ==
  /\ pc[h] = "qualify" /\ ~Cpm(job[h])
  /\ qualified' = qualified \cup {job[h]}
  /\ Leave(h)
  /\ UNCHANGED <<campaignVars, camp, rendered, invalid, billable, clicked, falsepos, reported,
                 ledgerVars, lock, picked>>

BillLock_NoLock(h) ==
  /\ pc[h] = "qualify" /\ Cpm(job[h])
  /\ ~Settled(job[h]) /\ Balance >= Bid[camp[job[h]]]
  /\ pc' = [pc EXCEPT ![h] = "billing"]
  /\ UNCHANGED <<campaignVars, impressionVars, ledgerVars, job, lock, picked>>

BillLock_IgnoresReclaim(h) ==
  /\ pc[h] = "qualify" /\ Cpm(job[h]) /\ lock = Nobody
  /\ job[h] \notin qualified /\ Balance >= Bid[camp[job[h]]]
  /\ pc' = [pc EXCEPT ![h] = "billing"] /\ lock' = h
  /\ UNCHANGED <<campaignVars, impressionVars, ledgerVars, job, picked>>

\* The billing transaction up to its balance check: take the lock, claim the row.
\* A balance that is too low rolls back and invalidates.
BillLock(h) ==
  LET i == job[h] IN
  /\ pc[h] = "qualify" /\ Cpm(i) /\ lock = Nobody
  /\ \/ Settled(i) /\ Leave(h) /\ UNCHANGED lock
     \/ /\ ~Settled(i) /\ Balance >= Bid[camp[i]]
        /\ pc' = [pc EXCEPT ![h] = "billing"] /\ lock' = h
        /\ UNCHANGED job
     \/ /\ ~Settled(i) /\ Balance < Bid[camp[i]]
        /\ pc' = [pc EXCEPT ![h] = "void"]
        /\ UNCHANGED <<job, lock>>
  /\ UNCHANGED <<campaignVars, impressionVars, ledgerVars, picked>>

\* The ledger rows of a charge: advertiser debit, developer credit, platform fee and
\* reserve.  The last two always come and go with the debit.
Charged(i) ==
  /\ debits' = [debits EXCEPT ![i] = @ + 1]
  /\ earned' = [earned EXCEPT ![i] = "live"]
  /\ billable' = billable \cup {i}
  /\ UNCHANGED refunded

\* ... and its writes: reserved budget becomes spent budget, or all is rolled back.
BillCommit(h) ==
  LET i == job[h]  c == camp[job[h]] IN
  /\ pc[h] = "billing"
  /\ lock' = Nobody
  /\ \/ /\ reserved[c] >= 1 /\ state[c] # "archived"
        /\ spent' = [spent EXCEPT ![c] = @ + 1]
        /\ reserved' = [reserved EXCEPT ![c] = @ - 1]
        /\ qualified' = qualified \cup {i}
        /\ Charged(i)
        /\ Leave(h)
     \/ /\ reserved[c] < 1 \/ state[c] = "archived"
        /\ pc' = [pc EXCEPT ![h] = "void"]
        /\ UNCHANGED <<spent, reserved, qualified, billable, ledgerVars, job>>
  /\ UNCHANGED <<state, camp, rendered, invalid, clicked, falsepos, reported, picked>>

-------------------------------------------------------------------------------
\* recordClick.

\* The reads and gates; qualifiedAt is also set on impressions that were refused.
AskClick(h, i) ==
  /\ i \in qualified
  /\ ~Cpm(i) => i \notin falsepos
  /\ Enter(h, i, "click")
  /\ UNCHANGED <<campaignVars, impressionVars, ledgerVars, lock, picked>>

ClickLock(h) ==
  LET i == job[h] IN
  /\ pc[h] = "click" /\ lock = Nobody
  /\ \/ /\ Cpm(i) \/ Balance >= Bid[camp[i]]
        /\ pc' = [pc EXCEPT ![h] = "clicking"] /\ lock' = h
        /\ UNCHANGED job
     \/ /\ ~Cpm(i) /\ Balance < Bid[camp[i]]
        /\ Leave(h) /\ UNCHANGED lock
  /\ UNCHANGED <<campaignVars, impressionVars, ledgerVars, picked>>

Chargeable_Archived(c) == spent[c] + 1 <= Budget[c]
Chargeable(c) == state[c] # "archived" /\ spent[c] + 1 <= Budget[c]

\* Mutant: impressionId is not unique among clicks.
ClickCommit_NotUnique(h) ==
  LET i == job[h]  c == camp[job[h]] IN
  /\ pc[h] = "clicking" /\ ~Cpm(i) /\ Chargeable(c)
  /\ clicked' = clicked \cup {i} /\ Charged(i)
  /\ spent' = [spent EXCEPT ![c] = @ + 1]
  /\ lock' = Nobody /\ Leave(h)
  /\ UNCHANGED <<state, reserved, camp, rendered, qualified, invalid, falsepos, reported, picked>>

\* A CPM click earns nothing; a CPC click is charged, or nothing is recorded at all.
ClickCommit(h) ==
  LET i == job[h]  c == camp[job[h]] IN
  /\ pc[h] = "clicking"
  /\ lock' = Nobody /\ Leave(h)
  /\ \/ /\ i \notin clicked /\ Cpm(i)
        /\ clicked' = clicked \cup {i}
        /\ UNCHANGED <<spent, billable, ledgerVars>>
     \/ /\ i \notin clicked /\ ~Cpm(i) /\ Chargeable(c)
        /\ clicked' = clicked \cup {i}
        /\ spent' = [spent EXCEPT ![c] = @ + 1]
        /\ Charged(i)
     \/ /\ i \in clicked \/ (~Cpm(i) /\ ~Chargeable(c))
        /\ UNCHANGED <<spent, clicked, billable, ledgerVars>>
  /\ UNCHANGED <<state, reserved, camp, rendered, qualified, invalid, falsepos, reported, picked>>

\* The request dies; its transaction, if it had one, is rolled back.
Crash(h) ==
  /\ "crash" \in Env
  /\ pc[h] # "idle"
  /\ Leave(h)
  /\ lock' = IF lock = h THEN Nobody ELSE lock
  /\ UNCHANGED <<campaignVars, impressionVars, ledgerVars, picked>>

-------------------------------------------------------------------------------
\* The reclaim cron: a batch is read, then each row is claimed in a transaction.

CronPicks_ActiveOnly(i) ==
  /\ Served(i) /\ i \notin picked /\ Cpm(i) /\ ~Settled(i)
  /\ state[camp[i]] = "active"
  /\ picked' = picked \cup {i}
  /\ UNCHANGED <<campaignVars, impressionVars, ledgerVars, handlerVars>>

CronPicks(i) ==
  /\ Served(i) /\ i \notin picked /\ Cpm(i) /\ ~Settled(i)
  /\ state[camp[i]] \in {"active", "paused"}
  /\ picked' = picked \cup {i}
  /\ UNCHANGED <<campaignVars, impressionVars, ledgerVars, handlerVars>>

\* Mutant: the row is not claimed again.
CronReclaims_NoClaim(i) ==
  /\ i \in picked /\ ~RowLocked(i)
  /\ picked' = picked \ {i} /\ invalid' = invalid \cup {i} /\ reserved' = Released(i)
  /\ UNCHANGED <<state, spent, camp, rendered, qualified, billable, clicked, falsepos,
                 reported, ledgerVars, handlerVars>>

CronReclaims(i) ==
  /\ i \in picked /\ ~RowLocked(i)
  /\ picked' = picked \ {i}
  /\ \/ Settled(i) /\ UNCHANGED <<invalid, reserved>>
     \/ /\ ~Settled(i)
        /\ invalid' = invalid \cup {i}
        /\ reserved' = Released(i)
  /\ UNCHANGED <<state, spent, camp, rendered, qualified, billable, clicked, falsepos,
                 reported, ledgerVars, handlerVars>>

-------------------------------------------------------------------------------
\* The developer's reports.

\* flagFalsePositive: the wait state, and its impression if no charge was made.
FlagFalsePositive(i) ==
  /\ "falsepositive" \in Env
  /\ Served(i) /\ i \notin falsepos /\ ~RowLocked(i)
  /\ falsepos' = falsepos \cup {i}
  /\ \/ i \in billable \cup invalid /\ UNCHANGED <<invalid, reserved>>
     \/ /\ i \notin billable \cup invalid
        /\ invalid' = invalid \cup {i}
        /\ reserved' = Released(i)
  /\ UNCHANGED <<state, spent, camp, rendered, qualified, billable, clicked, reported,
                 ledgerVars, handlerVars, picked>>

\* reportAd's own transaction.  It releases no reservation ...
ReportAd(i) ==
  /\ (IF Settled(i) THEN "report" ELSE "earlyreport") \in Env
  /\ Served(i) /\ i \notin reported /\ ~RowLocked(i)
  /\ reported' = reported \cup {i}
  /\ invalid' = invalid \cup {i} /\ billable' = billable \ {i}
  /\ UNCHANGED <<campaignVars, camp, rendered, qualified, clicked, falsepos, ledgerVars,
                 handlerVars, picked>>

\* ... and reverseEarnings after it, by the impression's key: a CPC debit has the key
\* of its click, while the developer's row carries both.
ReverseEarnings(i) ==
  /\ i \in reported
  /\ earned[i] = "live"
  /\ earned' = [earned EXCEPT ![i] = "reversed"]
  /\ refunded' = IF Cpm(i) THEN refunded \cup {i} ELSE refunded
  /\ UNCHANGED <<campaignVars, impressionVars, debits, handlerVars, picked>>

-------------------------------------------------------------------------------
\* The campaign.

\* pauseCampaign, or the spend guard.
Pause(c) ==
  /\ state[c] = "active"
  /\ state' = [state EXCEPT ![c] = "paused"]
  /\ UNCHANGED <<spent, reserved, impressionVars, ledgerVars, handlerVars, picked>>

Resume(c) ==
  /\ state[c] = "paused"
  /\ spent[c] < Budget[c] /\ Balance > 0
  /\ state' = [state EXCEPT ![c] = "active"]
  /\ UNCHANGED <<spent, reserved, impressionVars, ledgerVars, handlerVars, picked>>

Archive(c) ==
  /\ state[c] # "archived"
  /\ state' = [state EXCEPT ![c] = "archived"]
  /\ reserved' = [reserved EXCEPT ![c] = 0]
  /\ UNCHANGED <<spent, impressionVars, ledgerVars, handlerVars, picked>>

-------------------------------------------------------------------------------
Handle(h) == QualifyCpc(h) \/ Void(h) \/ BillLock(h) \/ BillCommit(h) \/ ClickLock(h) \/ ClickCommit(h)

Next ==
  \/ \E i \in Impressions : \/ Render(i) \/ CronPicks(i) \/ CronReclaims(i)
                            \/ FlagFalsePositive(i) \/ ReportAd(i) \/ ReverseEarnings(i)
                            \/ \E c \in Campaigns : Serve(i, c)
                            \/ \E h \in Handlers : AskQualify(h, i) \/ AskClick(h, i)
  \/ \E h \in Handlers : Handle(h) \/ Crash(h)
  \/ \E c \in Campaigns : Pause(c) \/ Resume(c) \/ Archive(c)

Spec == Init /\ [][Next]_vars

\* Requests in progress are answered and the cron keeps running; nobody has to
\* render, qualify, click, report, pause or resume anything.
Fairness ==
  /\ \A h \in Handlers : WF_vars(Handle(h))
  /\ \A i \in Impressions : SF_vars(CronPicks(i)) /\ SF_vars(CronReclaims(i))

FairSpec == Spec /\ Fairness

-------------------------------------------------------------------------------
\* Properties.

\* The reserved budget of a campaign is what its unsettled CPM impressions hold: no
\* reservation is lost, released twice or taken by another impression.
ReservedMatchesOpen ==
  \A c \in Campaigns :
    reserved[c] = IF BidType[c] = "cpm" /\ state[c] # "archived" THEN Cardinality(Open(c)) ELSE 0

\* Spent and reserved budget together stay within the total, whatever is served,
\* billed and released at once.
WithinBudget == \A c \in Campaigns : spent[c] + reserved[c] <= Budget[c]

\* An impression is charged at most once, for one developer credit, and a campaign has
\* spent what its impressions were charged.
ChargesAddUp ==
  /\ \A i \in Impressions : debits[i] = IF earned[i] = "none" THEN 0 ELSE 1
  /\ \A c \in Campaigns : spent[c] = Cardinality({i \in Impressions : camp[i] = c /\ debits[i] > 0})

\* Events billed at once on different campaigns never overdraw the advertiser.
NoOverdraft == Balance >= 0

\* Nothing is spent on a campaign after it was archived, and it is not revived.
ArchivedIsFinal ==
  [][\A c \in Campaigns : state[c] = "archived" => state'[c] = "archived" /\ spent'[c] = spent[c]]_vars

\* Every reservation is spent or released in the end, though handlers die and
\* campaigns are paused.
ReservationsEnd ==
  \A i \in Impressions, c \in Campaigns :
    (i \in Open(c) /\ BidType[c] = "cpm") ~> (Settled(i) \/ state[c] = "archived")

\* When the developer loses the earning of a charged impression, the advertiser gets
\* the charge back.
ReversalsConserve ==
  \A i \in Impressions : earned[i] = "reversed" => Cardinality(refunded \cap {i}) = debits[i]

\* A CPM impression that was reported, refused or reclaimed is never charged after
\* that, even by a request that was past its gates.
InvalidNeverCharged ==
  [][\A i \in Impressions : (i \in invalid /\ Cpm(i)) => debits'[i] = debits[i]]_vars
===============================================================================
