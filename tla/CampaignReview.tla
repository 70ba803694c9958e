----------------------------- MODULE CampaignReview ----------------------------
(* One campaign from its draft to its archive (campaign.service,               *)
(* advertiser-campaign.trait, admin-campaigns.trait, the spend guard and the   *)
(* activation that follows a deposit). Advertisers, reviewers and crons read   *)
(* first and write later, most of them by compare-and-set on the status.       *)
EXTENDS Naturals, FiniteSets

CONSTANTS Creatives,     \* creatives that may be added
          Requests,      \* requests, cron runs and webhooks in flight
          MaxCreatives,  \* MAX_CREATIVES_PER_CAMPAIGN
          MaxEdits,      \* bound on the versions of a creative
          Amounts        \* bids and budgets

VARIABLES status,        \* Campaign.status
          creative,      \* AdCreative: [status, version]
          terms,         \* [bid, budget]
          usage,         \* the budget: "left", "reserved" to the last unit, or "spent"
          funded,        \* is the advertiser's balance positive
          decisions,     \* CampaignApproval rows since the campaign was submitted
          read,          \* history: versions an approval or a rejection has read
          job            \* what a request has read and does next

vars == <<status, creative, terms, usage, funded, decisions, read, job>>

Idle      == [op |-> "idle"]
Missing   == [status |-> "none", version |-> 0]
Having(s) == {c \in Creatives : creative[c].status = s}
Existing  == Creatives \ Having("none")

TypeOK ==
  /\ status \in {"draft", "submitted", "approved", "rejected", "active", "paused", "archived"}
  /\ creative \in [Creatives ->
       [status : {"none", "draft", "pending_review", "approved", "rejected"}, version : 0..MaxEdits]]
  /\ terms \in [bid : Amounts, budget : Amounts]
  /\ usage \in {"left", "reserved", "spent"} /\ funded \in BOOLEAN
  /\ decisions \in Nat
  /\ read \subseteq Creatives \X (0..MaxEdits)
  /\ \A r \in Requests : job[r] = Idle \/ "op" \in DOMAIN job[r]

Init ==
  /\ status = "draft" /\ creative = [c \in Creatives |-> Missing]
  /\ terms \in [bid : Amounts, budget : Amounts] /\ terms.bid <= terms.budget
  /\ usage = "left" /\ funded \in BOOLEAN
  /\ decisions = 0 /\ read = {} /\ job = [r \in Requests |-> Idle]

Starts(r, j) == job[r] = Idle /\ job' = [job EXCEPT ![r] = j]
Goes(r, j)   == job' = [job EXCEPT ![r] = j]
Ends(r)      == Goes(r, Idle)
At(r, op)    == job[r].op = op

\* Under READ COMMITTED a compare-and-set sees the status of the moment.
Moves(from, to) == status' = IF status \in from THEN to ELSE status
-------------------------------------------------------------------------------
\* ---- the advertiser ----

\* createCreative: the status and the count are read under the lock of the campaign's
\* creatives, which a submission does not take.
CreatorHolds == \E r \in Requests : At(r, "creates")

CreateReads(r) ==
  /\ status \in {"draft", "rejected"} /\ Cardinality(Existing) < MaxCreatives /\ ~CreatorHolds
  /\ Starts(r, [op |-> "creates"])
  /\ UNCHANGED <<status, creative, terms, usage, funded, decisions, read>>

CreateCommits(r) ==
  /\ At(r, "creates") /\ Ends(r)
  /\ \E c \in Having("none") : creative' = [creative EXCEPT ![c] = [status |-> "draft", version |-> 1]]
  /\ UNCHANGED <<status, terms, usage, funded, decisions, read>>

\* updateCreative, whatever the state of the creative and of its campaign.
EditCreative(c) ==
  /\ c \in Existing /\ creative[c].version < MaxEdits
  /\ creative' = [creative EXCEPT ![c] = [status |-> "draft", version |-> @.version + 1]]
  /\ UNCHANGED <<status, terms, usage, funded, decisions, read, job>>

\* updateCampaign checks the new bid against the budget it read, and the new budget
\* against the bid it read.
EditReads(r, field, a) ==
  /\ status = "draft"
  /\ LET new == [terms EXCEPT ![field] = a] IN
       /\ new.bid <= new.budget
       /\ Starts(r, [op |-> "edits", field |-> field, amount |-> a])
  /\ UNCHANGED <<status, creative, terms, usage, funded, decisions, read>>

EditCommits(r) ==
  /\ At(r, "edits") /\ Ends(r)
  /\ terms' = IF status = "draft" THEN [terms EXCEPT ![job[r].field] = job[r].amount] ELSE terms
  /\ UNCHANGED <<status, creative, usage, funded, decisions, read>>

SubmitReads(r) ==
  /\ status = "draft" /\ Existing # {}
  /\ Starts(r, [op |-> "submits"])
  /\ UNCHANGED <<status, creative, terms, usage, funded, decisions, read>>

SubmitCommits(r) ==
  /\ At(r, "submits") /\ Ends(r)
  /\ Moves({"draft"}, "submitted")
  /\ IF status = "draft"
     THEN /\ creative' = [c \in Creatives |-> IF c \in Having("draft")
                            THEN [creative[c] EXCEPT !.status = "pending_review"] ELSE creative[c]]
          /\ decisions' = 0
     ELSE UNCHANGED <<creative, decisions>>
  /\ UNCHANGED <<terms, usage, funded, read>>

ResetToDraft ==
  /\ status = "rejected" /\ status' = "draft"
  /\ UNCHANGED <<creative, terms, usage, funded, decisions, read, job>>

Pause ==
  /\ status = "active" /\ status' = "paused"
  /\ UNCHANGED <<creative, terms, usage, funded, decisions, read, job>>

\* resumeCampaign: creatives, budget and balance are read before the update.
ResumeReads(r) ==
  /\ status \in {"approved", "paused"}
  /\ Having("approved") # {} /\ usage # "spent" /\ funded
  /\ Starts(r, [op |-> "resumes"])
  /\ UNCHANGED <<status, creative, terms, usage, funded, decisions, read>>

ResumeCommits(r) ==
  /\ At(r, "resumes") /\ Ends(r) /\ Moves({"paused"}, "active")
  /\ UNCHANGED <<creative, terms, usage, funded, decisions, read>>

\* archiveCampaign checks the transition on what it read; its update spares an
\* archived campaign only.
ArchiveReads(r) ==
  /\ status \in {"draft", "approved", "active", "paused"}
  /\ Starts(r, [op |-> "archives"])
  /\ UNCHANGED <<status, creative, terms, usage, funded, decisions, read>>

ArchiveCommits(r) ==
  /\ At(r, "archives") /\ Ends(r) /\ status' = "archived"
  /\ usage' = IF usage = "reserved" THEN "left" ELSE usage
  /\ UNCHANGED <<creative, terms, funded, decisions, read>>
-------------------------------------------------------------------------------
\* ---- the reviewers ----

Reviewable == {"pending_review", "draft", "approved"}

ApproveReads(r, c) ==
  /\ creative[c].status \in Reviewable
  /\ Starts(r, [op |-> "approves", of |-> c])
  /\ read' = read \cup {<<c, creative[c].version>>}
  /\ UNCHANGED <<status, creative, terms, usage, funded, decisions>>

\* The update names the creative only, not the state in which it was read.
ApproveCommits(r) ==
  /\ At(r, "approves")
  /\ creative' = [creative EXCEPT ![job[r].of].status = "approved"]
  /\ Goes(r, [op |-> "looks"])
  /\ UNCHANGED <<status, terms, usage, funded, decisions, read>>

\* An approved creative may have been what its campaign was waiting for.
Ready == status = "approved" /\ Having("approved") # {} /\ usage # "spent" /\ funded

ApproveLooks(r) ==
  /\ At(r, "looks")
  /\ IF Ready THEN Goes(r, [op |-> "activates"]) ELSE Ends(r)
  /\ UNCHANGED <<status, creative, terms, usage, funded, decisions, read>>

Activatable_Any == {"draft", "submitted", "approved", "rejected", "paused", "archived"}
Activatable     == {"approved"}

ApproveActivates(r) ==
  /\ At(r, "activates") /\ Ends(r) /\ Moves(Activatable, "active")
  /\ UNCHANGED <<creative, terms, usage, funded, decisions, read>>

RejectCreativeReads(r, c) ==
  /\ creative[c].status \in {"pending_review", "rejected"}
  /\ Starts(r, [op |-> "rejects", of |-> c])
  /\ read' = read \cup {<<c, creative[c].version>>}
  /\ UNCHANGED <<status, creative, terms, usage, funded, decisions>>

RejectCreativeCommits(r) ==
  /\ At(r, "rejects") /\ Ends(r)
  /\ creative' = [creative EXCEPT ![job[r].of].status = "rejected"]
  /\ UNCHANGED <<status, terms, usage, funded, decisions, read>>

\* approveCampaign: creatives and budget before its transaction, the balance in it.
ReviewReads(r) ==
  /\ status = "submitted"
  /\ Starts(r, [op |-> "reviews", servable |-> Having("approved") # {} /\ usage # "spent"])
  /\ UNCHANGED <<status, creative, terms, usage, funded, decisions, read>>

ReviewReadsBalance(r) ==
  /\ At(r, "reviews")
  /\ Goes(r, [op |-> "decides", to |-> IF job[r].servable /\ funded THEN "active" ELSE "approved"])
  /\ UNCHANGED <<status, creative, terms, usage, funded, decisions, read>>

RejectReads(r) ==
  /\ status = "submitted"
  /\ Starts(r, [op |-> "decides", to |-> "rejected"])
  /\ UNCHANGED <<status, creative, terms, usage, funded, decisions, read>>

\* The flip and the CampaignApproval row, or a conflict.
Undecided_Either == {"submitted", "approved", "rejected"}
Undecided        == {"submitted"}

Decides(r) ==
  /\ At(r, "decides") /\ Ends(r)
  /\ Moves(Undecided, job[r].to)
  /\ decisions' = IF status \in Undecided THEN decisions + 1 ELSE decisions
  /\ UNCHANGED <<creative, terms, usage, funded, read>>
-------------------------------------------------------------------------------
\* ---- money and serving ----

\* The deposit's webhook: the credit, then one update of the campaigns that wait for it.
Deposit(r) ==
  /\ Starts(r, [op |-> "funds"]) /\ funded' = TRUE
  /\ UNCHANGED <<status, creative, terms, usage, decisions, read>>

DepositActivates(r) ==
  /\ At(r, "funds") /\ Ends(r)
  /\ status' = IF Ready THEN "active" ELSE status
  /\ UNCHANGED <<creative, terms, usage, funded, decisions, read>>

\* A refund, a dispute or the spending of the advertiser's other campaigns.
Drained ==
  /\ funded /\ funded' = FALSE
  /\ UNCHANGED <<status, creative, terms, usage, decisions, read, job>>

Serves ==
  /\ \/ status = "active" /\ Having("approved") # {} /\ usage = "left" /\ usage' = "reserved"
     \/ usage = "reserved" /\ usage' \in {"left", "spent"}
  /\ UNCHANGED <<status, creative, terms, funded, decisions, read, job>>

\* The spend guard reads the active campaigns and their balances, then pauses.
GuardReads(r) ==
  /\ status = "active" /\ (usage # "left" \/ ~funded)
  /\ Starts(r, [op |-> "guards"])
  /\ UNCHANGED <<status, creative, terms, usage, funded, decisions, read>>

GuardPauses(r) ==
  /\ At(r, "guards") /\ Ends(r) /\ Moves({"active"}, "paused")
  /\ UNCHANGED <<creative, terms, usage, funded, decisions, read>>

RequestDies(r) ==
  /\ job[r] # Idle /\ Ends(r)
  /\ UNCHANGED <<status, creative, terms, usage, funded, decisions, read>>

Next ==
  \/ ResetToDraft \/ Pause \/ Drained \/ Serves
  \/ \E c \in Creatives : EditCreative(c)
  \/ \E r \in Requests :
       \/ CreateReads(r) \/ CreateCommits(r) \/ EditCommits(r) \/ SubmitReads(r) \/ SubmitCommits(r)
       \/ ResumeReads(r) \/ ResumeCommits(r) \/ ArchiveReads(r) \/ ArchiveCommits(r)
       \/ ApproveCommits(r) \/ ApproveLooks(r) \/ ApproveActivates(r) \/ RejectCreativeCommits(r)
       \/ ReviewReads(r) \/ ReviewReadsBalance(r) \/ RejectReads(r) \/ Decides(r)
       \/ Deposit(r) \/ DepositActivates(r) \/ GuardReads(r) \/ GuardPauses(r) \/ RequestDies(r)
       \/ \E c \in Creatives : ApproveReads(r, c) \/ RejectCreativeReads(r, c)
       \/ \E field \in {"bid", "budget"}, a \in Amounts : EditReads(r, field, a)
-------------------------------------------------------------------------------
\* However many reviewers decide at once, a submission is decided once, for two approvals
\* "would both insert duplicate CampaignApproval rows" (approveCampaign).
OneDecision == decisions <= 1

\* A campaign that is archived, rejected or in draft is not put live by a request that had
\* read it before, "reactivating an archived/rejected campaign" (approveCreative, approveCampaign,
\* resumeCampaign, the deposit's activation).
NoResurrection ==
  [][(status \in {"archived", "rejected", "draft"})
        => status' \notin {"active", "approved", "paused"}]_vars

\* "Updating a creative resets it to draft status for re-review" (updateCreative): what
\* is approved is a version that a reviewer's request has read.
ApprovedWasRead == \A c \in Having("approved") : <<c, creative[c].version>> \in read

\* "If so, auto-activate the campaign so it can serve ads" (approveCreative, approveCampaign,
\* handlePaymentSuccess): nobody is left to activate a campaign once all of them are done.
ReadyIsActive == (\A r \in Requests : job[r] = Idle) => ~Ready

\* "Combined bid<=budget invariant" (updateCampaign).
BidWithinBudget == terms.bid <= terms.budget
-------------------------------------------------------------------------------
Spec == Init /\ [][Next]_vars
===============================================================================
