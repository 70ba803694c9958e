----------------------------- MODULE MoneyProofs -----------------------------
(* What holds of the advertisers' and the developers' money for every number   *)
(* of requests, disputes, refunds, handlers, rows and payouts: a campaign is   *)
(* decided once and stays down, a deposit is never worth more than was paid    *)
(* and its books settle (StripeFunds, DodoFunds), what developers were         *)
(* credited is all accounted for and the refund of a credit reaches all of its *)
(* parts (Earnings), and an erasure books what it took (AccountErasure).       *)
EXTENDS Money, SumTheorems

-------------------------------------------------------------------------------
\* ---- the review of a campaign ----

\* A decision is one of three.
Deciding ==
  /\ request = [r \in Requests |-> request[r]]
  /\ \A r \in Requests : request[r].op = "decides" => request[r].to \in {"active", "approved", "rejected"}

\* A campaign that waits for a decision has none.
Waiting == decisions \in {0, 1} /\ (status = "submitted" => decisions = 0)

ReviewInductive == Deciding /\ Waiting

LEMMA ReviewInit == ASSUME Campaigns!Init PROVE ReviewInductive
  BY DEF Campaigns!Init, Campaigns!Idle, ReviewInductive, Deciding, Waiting

\* What a request does next is a decision, or something else.
LEMMA DecidingStep ==
  ASSUME Deciding, [Campaigns!Next]_(Campaigns!vars)
  PROVE  Deciding'
<1>1. ASSUME UNCHANGED request PROVE Deciding'
  BY <1>1 DEF Deciding
<1>2. ASSUME NEW r \in Requests, NEW j, request' = [request EXCEPT ![r] = j],
             j.op = "decides" => j.to \in {"active", "approved", "rejected"}
      PROVE  Deciding'
  BY <1>2 DEF Deciding
<1>3. ASSUME NEW r \in Requests, Campaigns!Ends(r) PROVE Deciding'
  BY <1>2, <1>3 DEF Campaigns!Ends, Campaigns!Goes, Campaigns!Idle
<1>5. ASSUME NEW r \in Requests, \/ Campaigns!CreateReads(r) \/ Campaigns!SubmitReads(r)
                                 \/ Campaigns!ResumeReads(r) \/ Campaigns!ArchiveReads(r)
                                 \/ Campaigns!Deposit(r) \/ Campaigns!GuardReads(r)
      PROVE  Deciding'
  <2>1. PICK op \in {"creates", "submits", "resumes", "archives", "funds", "guards"} :
          request' = [request EXCEPT ![r] = [op |-> op]]
    BY <1>5 DEF Campaigns!CreateReads, Campaigns!SubmitReads, Campaigns!ResumeReads,
                Campaigns!ArchiveReads, Campaigns!Deposit, Campaigns!GuardReads, Campaigns!Starts
  <2>2. QED
    BY <1>2, <2>1
<1>6. ASSUME NEW r \in Requests, NEW c \in Creatives,
             Campaigns!ApproveReads(r, c) \/ Campaigns!RejectCreativeReads(r, c)
      PROVE  Deciding'
  BY <1>2, <1>6 DEF Campaigns!ApproveReads, Campaigns!RejectCreativeReads, Campaigns!Starts
<1>7. ASSUME NEW r \in Requests, NEW field, NEW a, Campaigns!EditReads(r, field, a)
      PROVE  Deciding'
  BY <1>2, <1>7 DEF Campaigns!EditReads, Campaigns!Starts
<1>8. ASSUME NEW r \in Requests, \/ Campaigns!ReviewReads(r) \/ Campaigns!ReviewReadsBalance(r)
                                 \/ Campaigns!RejectReads(r) \/ Campaigns!ApproveCommits(r)
                                 \/ Campaigns!ApproveLooks(r)
      PROVE  Deciding'
  <2>1. CASE Campaigns!ReviewReads(r)
    <3> DEFINE j == [op |-> "reviews", servable |-> Campaigns!Having("approved") # {} /\ usage # "spent"]
    <3>1. request' = [request EXCEPT ![r] = j]
      BY <2>1 DEF Campaigns!ReviewReads, Campaigns!Starts
    <3>2. j.op = "reviews"
      BY Zenon
    <3>3. QED
      <4> HIDE DEF j
      <4> QED
        BY <1>2, <3>1, <3>2
  <2>2. CASE Campaigns!ReviewReadsBalance(r)
    <3>1. PICK to \in {"active", "approved"} :
            request' = [request EXCEPT ![r] = [op |-> "decides", to |-> to]]
      BY <2>2, Zenon DEF Campaigns!ReviewReadsBalance, Campaigns!Goes
    <3>2. QED
      BY <1>2, <3>1
  <2>3. CASE Campaigns!RejectReads(r)
    BY <1>2, <2>3 DEF Campaigns!RejectReads, Campaigns!Starts
  <2>4. CASE Campaigns!ApproveCommits(r)
    BY <1>2, <2>4 DEF Campaigns!ApproveCommits, Campaigns!Goes
  <2>5. CASE Campaigns!ApproveLooks(r)
    BY <1>2, <1>3, <2>5 DEF Campaigns!ApproveLooks, Campaigns!Goes
  <2>6. QED
    BY <1>8, <2>1, <2>2, <2>3, <2>4, <2>5
<1>9. ASSUME NEW r \in Requests, \/ Campaigns!CreateCommits(r) \/ Campaigns!EditCommits(r)
                                 \/ Campaigns!SubmitCommits(r) \/ Campaigns!ResumeCommits(r)
                                 \/ Campaigns!ArchiveCommits(r) \/ Campaigns!ApproveActivates(r)
                                 \/ Campaigns!RejectCreativeCommits(r) \/ Campaigns!Decides(r)
                                 \/ Campaigns!DepositActivates(r) \/ Campaigns!GuardPauses(r)
                                 \/ Campaigns!RequestDies(r)
      PROVE  Deciding'
  BY <1>3, <1>9 DEF Campaigns!CreateCommits, Campaigns!EditCommits, Campaigns!SubmitCommits,
                    Campaigns!ResumeCommits, Campaigns!ArchiveCommits, Campaigns!ApproveActivates,
                    Campaigns!RejectCreativeCommits, Campaigns!Decides, Campaigns!DepositActivates,
                    Campaigns!GuardPauses, Campaigns!RequestDies
<1>10. CASE \/ Campaigns!ResetToDraft \/ Campaigns!Pause \/ Campaigns!Drained \/ Campaigns!Serves
            \/ UNCHANGED Campaigns!vars \/ \E c \in Creatives : Campaigns!EditCreative(c)
  BY <1>1, <1>10 DEF Campaigns!ResetToDraft, Campaigns!Pause, Campaigns!Drained, Campaigns!Serves,
                     Campaigns!vars, Campaigns!EditCreative
<1>11. QED
  BY <1>5, <1>6, <1>7, <1>8, <1>9, <1>10 DEF Campaigns!Next

\* How the status of a campaign may change, and its decisions with it.
LEMMA StatusStep ==
  ASSUME Deciding, [Campaigns!Next]_(Campaigns!vars)
  PROVE  \/ UNCHANGED <<status, decisions>>
         \/ status' = "submitted" /\ decisions' = 0
         \/ status = "submitted" /\ decisions' = decisions + 1 /\ status' \in {"active", "approved", "rejected"}
         \/ status = "rejected" /\ status' = "draft" /\ decisions' = decisions
         \/ status \in {"active", "paused", "approved"} /\ status' \in {"active", "paused"} /\ decisions' = decisions
         \/ status' = "archived" /\ decisions' = decisions
<1> USE DEF Campaigns!Moves
<1>1. CASE \/ Campaigns!ResetToDraft \/ Campaigns!Pause \/ Campaigns!Drained \/ Campaigns!Serves
           \/ UNCHANGED Campaigns!vars \/ \E c \in Creatives : Campaigns!EditCreative(c)
  BY <1>1 DEF Campaigns!ResetToDraft, Campaigns!Pause, Campaigns!Drained, Campaigns!Serves,
              Campaigns!vars, Campaigns!EditCreative
<1>2. CASE \E r \in Requests :
             \/ Campaigns!CreateReads(r) \/ Campaigns!CreateCommits(r) \/ Campaigns!EditCommits(r)
             \/ Campaigns!SubmitReads(r) \/ Campaigns!ResumeReads(r) \/ Campaigns!ArchiveReads(r)
             \/ Campaigns!ApproveCommits(r) \/ Campaigns!ApproveLooks(r)
             \/ Campaigns!RejectCreativeCommits(r) \/ Campaigns!ReviewReads(r)
             \/ Campaigns!ReviewReadsBalance(r) \/ Campaigns!RejectReads(r) \/ Campaigns!Deposit(r)
             \/ Campaigns!GuardReads(r) \/ Campaigns!RequestDies(r)
             \/ \E c \in Creatives : Campaigns!ApproveReads(r, c) \/ Campaigns!RejectCreativeReads(r, c)
             \/ \E field \in {"bid", "budget"}, a \in Prices : Campaigns!EditReads(r, field, a)
  BY <1>2 DEF Campaigns!CreateReads, Campaigns!CreateCommits, Campaigns!EditCommits,
     Campaigns!SubmitReads, Campaigns!ResumeReads, Campaigns!ArchiveReads, Campaigns!ApproveCommits,
     Campaigns!ApproveLooks, Campaigns!RejectCreativeCommits, Campaigns!ReviewReads,
     Campaigns!ReviewReadsBalance, Campaigns!RejectReads, Campaigns!Deposit, Campaigns!GuardReads,
     Campaigns!RequestDies, Campaigns!ApproveReads, Campaigns!RejectCreativeReads, Campaigns!EditReads
<1>3. CASE \E r \in Requests : Campaigns!SubmitCommits(r) \/ Campaigns!ArchiveCommits(r)
  BY <1>3 DEF Campaigns!SubmitCommits, Campaigns!ArchiveCommits
<1>4. CASE \E r \in Requests : \/ Campaigns!ResumeCommits(r) \/ Campaigns!ApproveActivates(r)
                               \/ Campaigns!DepositActivates(r) \/ Campaigns!GuardPauses(r)
  BY <1>4 DEF Campaigns!ResumeCommits, Campaigns!ApproveActivates, Campaigns!Activatable,
              Campaigns!DepositActivates, Campaigns!Ready, Campaigns!GuardPauses
<1>5. CASE \E r \in Requests : Campaigns!Decides(r)
  BY <1>5 DEF Deciding, Campaigns!Decides, Campaigns!Undecided, Campaigns!At
<1>6. QED
  BY <1>1, <1>2, <1>3, <1>4, <1>5 DEF Campaigns!Next

LEMMA ReviewAlways == Campaigns!Spec => []ReviewInductive
<1>1. Campaigns!Init => ReviewInductive
  BY ReviewInit
<1>2. ReviewInductive /\ [Campaigns!Next]_(Campaigns!vars) => ReviewInductive'
  <2>1. SUFFICES ASSUME Deciding, Waiting, [Campaigns!Next]_(Campaigns!vars) PROVE Waiting' /\ Deciding'
    BY DEF ReviewInductive
  <2>2. Deciding'
    BY <2>1, DecidingStep
  <2>3. Waiting'
    BY <2>1, StatusStep DEF Waiting
  <2>4. QED
    BY <2>2, <2>3
<1>3. QED
  BY <1>1, <1>2, PTL DEF Campaigns!Spec

\* However many reviewers and crons have read a submission, one of them decides
\* it (approveCampaign, rejectCampaign).
THEOREM DecidedOnce == Campaigns!Spec => []OneDecision
<1>1. ReviewInductive => OneDecision
  BY DEF ReviewInductive, Waiting, Campaigns!OneDecision, OneDecision
<1>2. QED
  BY <1>1, ReviewAlways, PTL

\* A request that read a campaign before it was archived, rejected or put back
\* to draft does not put it live (approveCreative, approveCampaign,
\* resumeCampaign, handlePaymentSuccess).
THEOREM StaysDown == Campaigns!Spec => NoResurrection
<1>1. Deciding /\ [Campaigns!Next]_(Campaigns!vars)
        => [(status \in {"archived", "rejected", "draft"})
              => status' \notin {"active", "approved", "paused"}]_(Campaigns!vars)
  BY StatusStep
<1>2. ReviewInductive => Deciding
  BY DEF ReviewInductive
<1>3. QED
  BY <1>1, <1>2, ReviewAlways, PTL DEF Campaigns!Spec, Campaigns!NoResurrection, NoResurrection, NoResurrection
-------------------------------------------------------------------------------
\* ---- a deposit made through Dodo ----

LEMMA DodoCount == ASSUME NEW S PROVE Dodo!Cardinality(S) = Cardinality(S)
  BY DEF Dodo!Cardinality, Cardinality

\* A hold that is reversed was settled by one row, and no other was settled.
SettledOnce ==
  /\ dodoHold \in [DodoDisputes -> {"none", "held", "reversed"}]
  /\ dodoRestored \in [DodoDisputes -> {0, 1}] /\ writtenOff \in [DodoDisputes -> {0, 1}]
  /\ \A d \in DodoDisputes :
       dodoRestored[d] + writtenOff[d] = IF dodoHold[d] = "reversed" THEN 1 ELSE 0

Quiet == {"idle", "credits", "cash", "finds", "debits", "reads", "lost", "ends"}

\* What a handler is about to freeze or to settle.
Informed ==
  /\ dodoJob \in [Handlers -> [at : Quiet \cup {"freezes", "settles"}, event : Dodo!Events]]
  /\ \A h \in Handlers : dodoJob[h].at = "freezes" => dodoBooked
  /\ \A h \in Handlers, d \in DodoDisputes : Dodo!At(h, <<"resolved", d>>, "settles") => dodoHold[d] # "none"

\* Every hold was taken from the deposit.
Frozen == {d \in DodoDisputes : dodoHold[d] # "none"}
TakenOut ==
  /\ ~dodoBooked => Frozen = {}
  /\ dodoBooked => dodoCredit + Cardinality(Frozen) = DodoDeposit /\ dodoCredit \in Int

DodoInductive == SettledOnce /\ Informed /\ TakenOut

LEMMA DodoInit == ASSUME DodoUnits, Dodo!Init PROVE DodoInductive
<1>1. SettledOnce /\ TakenOut
  BY DEF Dodo!Init, SettledOnce, Frozen, TakenOut
<1>2. Informed
  BY DEF Dodo!Init, Dodo!Idle, Informed, Quiet, Dodo!At, Dodo!Events, Dodo!Deposited
<1>3. QED
  BY <1>1, <1>2 DEF DodoInductive

LEMMA ToTotal ==
  ASSUME NEW f \in [DodoDisputes -> {0, 1}], IsFiniteSet(DodoDisputes)
  PROVE  Dodo!Total(f) = Cardinality({d \in DodoDisputes : f[d] = 1})
<1> DEFINE S == {d \in DodoDisputes : f[d] = 1}
           P == {x \in DodoDisputes \X (1..2) : x[2] <= f[x[1]]}
<1>1. IsFiniteSet(S)
  BY FS_Subset
<1>2. P = S \X {1}
  OBVIOUS
<1>3. Cardinality(S \X {1}) = Cardinality(S) * Cardinality({1})
  <2> HIDE DEF S
  <2>1. IsFiniteSet({1})
    BY FS_Singleton
  <2>2. QED
    BY <1>1, <2>1, FS_Product
<1>4. Cardinality({1}) = 1
  BY FS_Singleton
<1>5. Cardinality(S) \in Nat
  BY <1>1, FS_CardinalityType
<1>6. Cardinality(P) = Cardinality(S)
  <2> HIDE DEF S, P
  <2>1. Cardinality(P) = Cardinality(S) * 1
    BY <1>2, <1>3, <1>4
  <2>2. QED
    BY <1>5, <2>1
<1>7. Dodo!Total(f) = Cardinality(P)
  BY DodoCount DEF Dodo!Total
<1>8. QED
  BY <1>6, <1>7

LEMMA DisjointUnion ==
  ASSUME NEW S, NEW T, IsFiniteSet(S), IsFiniteSet(T), S \cap T = {}
  PROVE  IsFiniteSet(S \cup T) /\ Cardinality(S \cup T) = Cardinality(S) + Cardinality(T)
<1>1. Cardinality(S \cap T) = 0
  BY FS_EmptySet
<1>2. QED
  BY <1>1, FS_Union, FS_CardinalityType

\* The conserved sum, from the holds.
LEMMA HoldsAddUp ==
  ASSUME DodoUnits, DodoInductive
  PROVE  Dodo!DepositIsConserved
<1> DEFINE OnHold     == {d \in DodoDisputes : dodoHold[d] = "held"}
           Given    == {d \in DodoDisputes : dodoRestored[d] = 1}
           Written  == {d \in DodoDisputes : writtenOff[d] = 1}
<1>1. IsFiniteSet(OnHold) /\ IsFiniteSet(Given) /\ IsFiniteSet(Written)
  BY FS_Subset DEF DodoUnits
<1>2. Frozen = OnHold \cup (Given \cup Written)
  BY DEF DodoInductive, SettledOnce, Frozen
<1>3. Given \cap Written = {} /\ OnHold \cap (Given \cup Written) = {}
  BY DEF DodoInductive, SettledOnce
<1>4. /\ Dodo!Total(dodoRestored) = Cardinality(Given)
      /\ Dodo!Total(writtenOff) = Cardinality(Written)
  BY ToTotal DEF DodoUnits, DodoInductive, SettledOnce
<1>5. Cardinality(Frozen) = Cardinality(OnHold) + Cardinality(Given) + Cardinality(Written)
  <2> HIDE DEF OnHold, Given, Written
  <2>1. IsFiniteSet(Given \cup Written)
    BY <1>1, FS_Union
  <2>2. Cardinality(Given \cup Written) = Cardinality(Given) + Cardinality(Written)
    BY <1>1, <1>3, DisjointUnion
  <2>3. Cardinality(Frozen) = Cardinality(OnHold) + Cardinality(Given \cup Written)
    BY <1>1, <1>2, <1>3, <2>1, DisjointUnion
  <2>4. QED
    BY <1>1, <2>2, <2>3, FS_CardinalityType
<1>6. Dodo!Cardinality(OnHold) = Cardinality(OnHold)
  BY DodoCount
<1>7. /\ Cardinality(OnHold) \in Nat /\ Cardinality(Given) \in Nat /\ Cardinality(Written) \in Nat
      /\ dodoBooked => dodoCredit + Cardinality(Frozen) = DodoDeposit /\ dodoCredit \in Int
  BY <1>1, FS_CardinalityType DEF DodoInductive, TakenOut
<1>8. dodoBooked => dodoCredit + Dodo!Cardinality(OnHold) + Dodo!Total(dodoRestored) + Dodo!Total(writtenOff) = DodoDeposit
  <2> HIDE DEF OnHold, Given, Written
  <2>1. QED
    BY <1>4, <1>5, <1>6, <1>7
<1>9. QED
  BY <1>8 DEF Dodo!DepositIsConserved

\* A handler that goes on somewhere else than to a hold.
LEMMA Elsewhere ==
  ASSUME Informed, NEW h \in Handlers, NEW j \in [at : Quiet, event : Dodo!Events],
         dodoJob' = dodoJob \/ dodoJob' = [dodoJob EXCEPT ![h] = j],
         dodoBooked => dodoBooked',
         \A d \in DodoDisputes : dodoHold[d] # "none" => dodoHold'[d] # "none"
  PROVE  Informed'
<1>1. dodoJob' \in [Handlers -> [at : Quiet \cup {"freezes", "settles"}, event : Dodo!Events]]
  BY DEF Informed
<1>2. j.at # "freezes" /\ j.at # "settles"
  BY DEF Quiet
<1>3. QED
  BY <1>1, <1>2 DEF Informed, Dodo!At

LEMMA ToFirst ==
  ASSUME NEW e \in Dodo!Events
  PROVE  Dodo!First(e) \in {"credits", "cash", "reads", "finds"}
BY DEF Dodo!Events, Dodo!First, Dodo!Deposited

LEMMA StopsQuiet == Dodo!Idle \in [at : Quiet, event : Dodo!Events]
BY DEF Dodo!Idle, Quiet, Dodo!Events, Dodo!Deposited

LEMMA GoesQuiet ==
  ASSUME Informed, NEW h \in Handlers, NEW l \in Quiet, Dodo!Goto(h, l)
  PROVE  \E j \in [at : Quiet, event : Dodo!Events] : dodoJob' = [dodoJob EXCEPT ![h] = j]
<1>1. [dodoJob[h] EXCEPT !.at = l] \in [at : Quiet, event : Dodo!Events]
  BY DEF Informed
<1>2. QED
  BY <1>1 DEF Dodo!Goto

LEMMA DodoStep ==
  ASSUME DodoUnits, DodoInductive, [Dodo!Next]_(Dodo!vars)
  PROVE  DodoInductive'
<1> USE DEF DodoInductive
<1> DEFINE LedgerKept == UNCHANGED <<dodoCredit, dodoBooked, dodoHold, dodoRestored, writtenOff>>
           Quieter(h) == \/ UNCHANGED dodoJob \/ Dodo!Stops(h)
                         \/ \E l \in Quiet : Dodo!Goto(h, l)
                         \/ \E e \in Dodo!Events : dodoJob' = [dodoJob EXCEPT ![h] = [at |-> Dodo!First(e), event |-> e]]
<1>1. LedgerKept => SettledOnce' /\ TakenOut'
  BY DEF SettledOnce, TakenOut, Frozen
<1>2. ASSUME LedgerKept, UNCHANGED dodoJob PROVE DodoInductive'
  BY <1>1, <1>2 DEF Informed, Dodo!At
<1>3. ASSUME NEW h \in Handlers, Quieter(h), dodoBooked => dodoBooked',
             \A d \in DodoDisputes : dodoHold[d] # "none" => dodoHold'[d] # "none"
      PROVE  Informed'
  <2>1. CASE UNCHANGED dodoJob \/ Dodo!Stops(h)
    BY <1>3, <2>1, StopsQuiet, Elsewhere DEF Dodo!Stops
  <2>2. ASSUME NEW l \in Quiet, Dodo!Goto(h, l) PROVE Informed'
    <3>1. PICK j \in [at : Quiet, event : Dodo!Events] : dodoJob' = [dodoJob EXCEPT ![h] = j]
      BY <2>2, GoesQuiet
    <3>2. QED
      BY <1>3, <3>1, Elsewhere
  <2>3. ASSUME NEW e \in Dodo!Events, dodoJob' = [dodoJob EXCEPT ![h] = [at |-> Dodo!First(e), event |-> e]]
        PROVE  Informed'
    <3>1. [at |-> Dodo!First(e), event |-> e] \in [at : Quiet, event : Dodo!Events]
      BY ToFirst DEF Quiet
    <3>2. QED
      BY <1>3, <2>3, <3>1, Elsewhere
  <2>4. QED
    BY <1>3, <2>1, <2>2, <2>3
<1>4. ASSUME NEW h \in Handlers, LedgerKept, Quieter(h) PROVE DodoInductive'
  <2>1. Informed'
    <3> HIDE DEF Quieter
    <3> QED
      BY <1>3, <1>4
  <2>2. QED
    BY <1>1, <1>4, <2>1
<1>5. CASE \/ Dodo!Pays \/ Dodo!OwnerLeaves \/ UNCHANGED Dodo!vars
           \/ \E r \in DodoRefunds : Dodo!IssuesRefund(r)
           \/ \E d \in DodoDisputes : \/ Dodo!OpensDispute(d)
                                  \/ \E o \in Dodo!Outcomes : Dodo!ResolvesDispute(d, o)
  BY <1>2, <1>5 DEF Dodo!Pays, Dodo!OwnerLeaves, Dodo!vars, Dodo!rows, Dodo!IssuesRefund,
                    Dodo!OpensDispute, Dodo!ResolvesDispute, Dodo!Outside
<1>6. ASSUME NEW h \in Handlers, \/ Dodo!Finishes(h) \/ Dodo!HandlerDies(h) \/ Dodo!DepositBooksCash(h)
                                 \/ \E e \in Dodo!Events : Dodo!Deliver(h, e)
      PROVE  DodoInductive'
  BY <1>4, <1>6 DEF Dodo!Finishes, Dodo!HandlerDies, Dodo!DepositBooksCash, Dodo!Deliver, Dodo!rows, Quiet
<1>7. ASSUME NEW h \in Handlers, NEW r \in DodoRefunds,
             Dodo!RefundBooksCash(h, r) \/ Dodo!RefundFindsHolds(h, r) \/ Dodo!RefundDebits(h, r)
      PROVE  DodoInductive'
  BY <1>4, <1>7 DEF Dodo!RefundBooksCash, Dodo!RefundFindsHolds, Dodo!RefundDebits, Dodo!Retains,
                    Dodo!rows, Quiet
<1>8. ASSUME NEW h \in Handlers, Dodo!DepositCredits(h) PROVE DodoInductive'
  <2>1. Quieter(h) /\ UNCHANGED <<dodoHold, dodoRestored, writtenOff>> /\ (dodoBooked => dodoBooked')
    BY <1>8 DEF Dodo!DepositCredits, Quiet
  <2>2. Informed'
    <3> HIDE DEF Quieter
    <3> QED
      BY <1>3, <2>1
  <2>3. SettledOnce'
    BY <2>1 DEF SettledOnce
  <2>4. Cardinality({}) = 0
    BY FS_EmptySet
  <2>5. TakenOut'
    <3>1. Frozen' = Frozen
      BY <2>1 DEF Frozen
    <3>2. CASE leaver
      BY <1>8, <3>1, <3>2 DEF Dodo!DepositCredits, TakenOut
    <3>3. CASE ~leaver /\ dodoBooked
      BY <1>8, <3>1, <3>3 DEF Dodo!DepositCredits, TakenOut
    <3>4. CASE ~leaver /\ ~dodoBooked
      <4>1. dodoCredit' = DodoDeposit /\ Cardinality(Frozen') = 0
        BY <1>8, <2>4, <3>1, <3>4 DEF Dodo!DepositCredits, TakenOut
      <4>2. dodoBooked'
        BY <1>8, <3>4 DEF Dodo!DepositCredits
      <4>3. QED
        BY <4>1, <4>2 DEF TakenOut, DodoUnits
    <3>5. QED
      BY <3>2, <3>3, <3>4
  <2>6. QED
    BY <2>2, <2>3, <2>5
<1>9. ASSUME NEW h \in Handlers, NEW d \in DodoDisputes, Dodo!OpenedReads(h, d) PROVE DodoInductive'
  <2>1. LedgerKept
    BY <1>9 DEF Dodo!OpenedReads, Dodo!rows
  <2>2. CASE ~dodoBooked
    BY <1>4, <1>9, <2>1, <2>2 DEF Dodo!OpenedReads, Dodo!Retains
  <2>3. CASE dodoBooked
    <3> DEFINE j == [dodoJob[h] EXCEPT !.at = "freezes"]
    <3>1. j \in [at : {"freezes"}, event : Dodo!Events]
      BY DEF Informed
    <3>2. dodoJob' = [dodoJob EXCEPT ![h] = j]
      BY <1>9, <2>3 DEF Dodo!OpenedReads, Dodo!Goto
    <3> HIDE DEF j
    <3>3. Informed'
      BY <2>1, <2>3, <3>1, <3>2 DEF Informed, Dodo!At
    <3>4. QED
      BY <1>1, <2>1, <3>3
  <2>4. QED
    BY <2>2, <2>3
<1>10. ASSUME NEW h \in Handlers, NEW d \in DodoDisputes, Dodo!ResolvedFinds(h, d) PROVE DodoInductive'
  <2>1. LedgerKept
    BY <1>10 DEF Dodo!ResolvedFinds, Dodo!rows
  <2>2. CASE dodoHold[d] # "held"
    BY <1>4, <1>10, <2>1, <2>2 DEF Dodo!ResolvedFinds, Quiet
  <2>3. CASE dodoHold[d] = "held"
    <3> DEFINE j == [dodoJob[h] EXCEPT !.at = "settles"]
    <3>1. j \in [at : {"settles"}, event : Dodo!Events] /\ j.event = <<"resolved", d>>
      BY <1>10 DEF Informed, Dodo!ResolvedFinds, Dodo!At
    <3>2. dodoJob' = [dodoJob EXCEPT ![h] = j]
      BY <1>10, <2>3 DEF Dodo!ResolvedFinds, Dodo!Goto
    <3> HIDE DEF j
    <3>3. \A f \in DodoDisputes : <<"resolved", f>> = <<"resolved", d>> => f = d
      OBVIOUS
    <3>4. Informed'
      BY <2>1, <2>3, <3>1, <3>2, <3>3 DEF Informed, Dodo!At
    <3>5. QED
      BY <1>1, <2>1, <3>4
  <2>4. QED
    BY <2>2, <2>3
<1>11. ASSUME NEW h \in Handlers, NEW d \in DodoDisputes, Dodo!OpenedFreezes(h, d) PROVE DodoInductive'
  <2>1. /\ Quieter(h) /\ UNCHANGED <<dodoBooked, dodoRestored, writtenOff>>
        /\ \/ UNCHANGED <<dodoCredit, dodoHold>>
           \/ /\ dodoHold[d] = "none" /\ dodoCredit' = dodoCredit - 1
              /\ dodoHold' = [dodoHold EXCEPT ![d] = "held"]
    BY <1>11 DEF Dodo!OpenedFreezes, Quiet
  <2> HIDE DEF Quieter
  <2>2. Informed'
    <3>1. \A f \in DodoDisputes : dodoHold[f] # "none" => dodoHold'[f] # "none"
      BY <2>1 DEF SettledOnce
    <3>2. QED
      BY <1>3, <2>1, <3>1
  <2>3. SettledOnce'
    BY <2>1 DEF SettledOnce
  <2>4. dodoBooked
    BY <1>11 DEF Dodo!OpenedFreezes, Dodo!At, Informed
  <2>5. TakenOut'
    <3>1. CASE UNCHANGED <<dodoCredit, dodoHold>>
      BY <2>1, <3>1 DEF TakenOut, Frozen
    <3>2. CASE ~UNCHANGED <<dodoCredit, dodoHold>>
      <4>1. Frozen' = Frozen \cup {d} /\ d \notin Frozen
        BY <2>1, <3>2 DEF Frozen, SettledOnce
      <4>2. IsFiniteSet(Frozen)
        BY FS_Subset DEF DodoUnits, Frozen
      <4>3. Cardinality(Frozen') = Cardinality(Frozen) + 1 /\ Cardinality(Frozen) \in Nat
        BY <4>1, <4>2, FS_AddElement, FS_CardinalityType
      <4>4. QED
        BY <2>1, <2>4, <3>2, <4>3 DEF TakenOut, DodoUnits
    <3>3. QED
      BY <3>1, <3>2
  <2>6. QED
    BY <2>2, <2>3, <2>5
<1>12. ASSUME NEW h \in Handlers, NEW d \in DodoDisputes, Dodo!ResolvedSettles(h, d) PROVE DodoInductive'
  <2>1. dodoHold[d] # "none"
    BY <1>12 DEF Dodo!ResolvedSettles, Informed
  <2>2. /\ Quieter(h) /\ UNCHANGED <<dodoCredit, dodoBooked>>
        /\ \/ UNCHANGED <<dodoHold, dodoRestored, writtenOff>>
           \/ /\ dodoRestored[d] + writtenOff[d] = 0
              /\ dodoHold' = [dodoHold EXCEPT ![d] = "reversed"]
              /\ \/ dodoRestored' = [dodoRestored EXCEPT ![d] = @ + 1] /\ UNCHANGED writtenOff
                 \/ writtenOff' = [writtenOff EXCEPT ![d] = @ + 1] /\ UNCHANGED dodoRestored
    BY <1>12 DEF Dodo!ResolvedSettles, Dodo!Unsettled, Quiet
  <2> HIDE DEF Quieter
  <2>3. SettledOnce'
    BY <2>2 DEF SettledOnce
  <2>4. \A f \in DodoDisputes : dodoHold[f] # "none" <=> dodoHold'[f] # "none"
    BY <2>1, <2>2 DEF SettledOnce
  <2>5. TakenOut'
    <3>1. Frozen' = Frozen
      BY <2>4 DEF Frozen
    <3>2. QED
      BY <2>2, <3>1 DEF TakenOut
  <2>6. Informed'
    BY <1>3, <2>2, <2>4
  <2>7. QED
    BY <2>3, <2>5, <2>6
<1>13. ASSUME NEW h \in Handlers, NEW d \in DodoDisputes, Dodo!ResolvedBooksCash(h, d) PROVE DodoInductive'
  BY <1>4, <1>13 DEF Dodo!ResolvedBooksCash, Dodo!rows, Quiet
<1> HIDE DEF DodoInductive
<1>14. QED
  BY <1>5, <1>6, <1>7, <1>8, <1>9, <1>10, <1>11, <1>12, <1>13 DEF Dodo!Next

\* However many handlers of one event overlap, die and are repeated, no unit of
\* a deposit is frozen, restored or written off twice (handleDisputeOpened,
\* handleDisputeResolved).
THEOREM UnitsConserved == Dodo!Spec => []DepositIsConserved
<1> DodoUnits
  BY MoneyAssumption
<1>1. Dodo!Init => DodoInductive
  BY DodoInit
<1>2. DodoInductive /\ [Dodo!Next]_(Dodo!vars) => DodoInductive'
  BY DodoStep
<1>3. DodoInductive => DepositIsConserved
  BY HoldsAddUp DEF DepositIsConserved
<1>4. QED
  BY <1>1, <1>2, <1>3, PTL DEF Dodo!Spec
-------------------------------------------------------------------------------
\* ---- a deposit made through Stripe ----

LEMMA StripeCount == ASSUME NEW S PROVE Stripe!Cardinality(S) = Cardinality(S)
  BY DEF Stripe!Cardinality, Cardinality

\* Whichever handlers overlap, a deposit is counted by its rows: what is left of its
\* credit, the restored credits that nothing was taken of, and the units on hold.
Held      == {h \in Stripe!Holds : hold[h] = "held"}
Untouched == restored \ spent
DepositRows ==
  /\ hold \in [Stripe!Holds -> {"none", "held", "reversed"}]
  /\ restored \subseteq Stripe!Holds
  /\ credit \in Int

\* A unit leaves the deposit or a restored credit for a hold, and a hold for either.
Freezes(h) ==
  /\ hold[h] = "none" /\ hold' = [hold EXCEPT ![h] = "held"] /\ UNCHANGED restored
  /\ \/ booked /\ credit' = credit - 1 /\ UNCHANGED spent
     \/ UNCHANGED credit /\ \E c \in Untouched : spent' = spent \cup {c}
Releases(h) ==
  /\ hold[h] = "held" /\ hold' = [hold EXCEPT ![h] = "reversed"] /\ UNCHANGED spent
  /\ \/ credit' = credit + 1 /\ UNCHANGED restored
     \/ UNCHANGED credit /\ restored' \in {restored, restored \cup {h}}

\* The steps that can add to a deposit: its credit, and a stale restore.
Booking == /\ ~booked /\ booked' /\ credit' = StripeDeposit
           /\ UNCHANGED <<hold, restored, spent>>
StaleRestore == \E r \in Refunds, h \in Stripe!Holds : hold[h] # "held" /\ Stripe!RefundRestores(r, h)

LEMMA HoldsFinite == ASSUME StripeUnits PROVE IsFiniteSet(Stripe!Holds)
<1>1. IsFiniteSet(0..MaxHolds)
  BY FS_Interval DEF StripeUnits
<1>2. QED
  BY <1>1, FS_Product DEF Stripe!Holds, StripeUnits

\* Every step keeps the rows, moves one unit, books the deposit or restores a stale hold.
LEMMA StripeMoves ==
  ASSUME [Stripe!Next]_(Stripe!vars)
  PROVE  \/ UNCHANGED <<credit, booked, hold, restored, spent>>
         \/ UNCHANGED booked /\ \E h \in Stripe!Holds : Freezes(h) \/ Releases(h)
         \/ Booking
         \/ StaleRestore /\ UNCHANGED booked
<1> DEFINE Kept == UNCHANGED <<credit, booked, hold, restored, spent>>
           Moves == UNCHANGED booked /\ \E h \in Stripe!Holds : Freezes(h) \/ Releases(h)
<1>1. CASE \/ Stripe!Pays \/ Stripe!OwnerLeaves \/ UNCHANGED Stripe!vars
           \/ Stripe!DepositCatchesUp \/ Stripe!DepositBooksCash
           \/ \E e \in Stripe!Events : Stripe!Deliver(e) \/ Stripe!HandlerDies(e) \/ Stripe!Finishes(e)
  BY <1>1 DEF Stripe!Pays, Stripe!OwnerLeaves, Stripe!vars, Stripe!ledger, Stripe!DepositCatchesUp,
              Stripe!DepositBooksCash, Stripe!Deliver, Stripe!HandlerDies, Stripe!Finishes
<1>2. CASE \/ \E r \in Refunds : \/ Stripe!IssuesRefund(r) \/ Stripe!RefundReads(r)
                                 \/ Stripe!RefundBooksCash(r) \/ Stripe!RefundReadsHolds(r)
                                 \/ Stripe!RefundDebits(r)
           \/ \E d \in Disputes : \/ Stripe!OpensDispute(d) \/ Stripe!CloseFinds(d)
                                  \/ \E o \in {"won", "lost", "warned"} : Stripe!ClosesDispute(d, o)
  BY <1>2 DEF Stripe!IssuesRefund, Stripe!RefundReads, Stripe!RefundBooksCash, Stripe!ledger,
              Stripe!RefundReadsHolds, Stripe!RefundDebits, Stripe!OpensDispute, Stripe!CloseFinds,
              Stripe!ClosesDispute
<1>3. CASE Stripe!DepositCredits
  BY <1>3 DEF Stripe!DepositCredits, Booking
<1>4. ASSUME NEW r \in Refunds, NEW h \in Stripe!Holds, Stripe!RefundRestores(r, h)
      PROVE  Moves \/ (StaleRestore /\ UNCHANGED booked)
  <2>1. /\ credit' = credit + 1 /\ hold' = [hold EXCEPT ![h] = "reversed"]
        /\ UNCHANGED <<booked, restored, spent>>
    BY <1>4 DEF Stripe!RefundRestores
  <2>2. CASE hold[h] = "held"
    BY <2>1, <2>2 DEF Releases
  <2>3. CASE hold[h] # "held"
    BY <1>4, <2>1, <2>3 DEF StaleRestore
  <2>4. QED
    BY <2>2, <2>3
<1>5. ASSUME NEW d \in Disputes, Stripe!DisputeFreezes(d) PROVE Kept \/ Moves
  <2>1. UNCHANGED <<booked, restored>>
    BY <1>5 DEF Stripe!DisputeFreezes
  <2>2. CASE Stripe!Freezable(d) /\ Stripe!TakesUnit(d) /\ UNCHANGED spent
    <3>1. Stripe!First(d) \in Stripe!Holds
      BY MoneyAssumption DEF Stripe!First, Stripe!Holds, StripeUnits
    <3>2. Freezes(Stripe!First(d))
      BY <2>1, <2>2 DEF Stripe!Freezable, Stripe!TakesUnit, Freezes
    <3>3. QED
      BY <2>1, <3>1, <3>2
  <2>3. ASSUME NEW c \in Untouched, NEW h \in Stripe!Unused(d), spent' = spent \cup {c},
               hold' = [hold EXCEPT ![h] = "held"], UNCHANGED credit
        PROVE  Moves
    <3>1. h \in Stripe!Holds /\ hold[h] = "none"
      BY <2>3 DEF Stripe!Unused, Stripe!Of, Stripe!Holds
    <3>2. QED
      BY <2>1, <2>3, <3>1 DEF Freezes
  <2>4. QED
    BY <1>5, <2>1, <2>2, <2>3 DEF Stripe!DisputeFreezes, Stripe!Freezes, Untouched
<1>6. ASSUME NEW d \in Disputes, NEW h \in Stripe!Of(d), Stripe!CloseSettles(d, h) PROVE Kept \/ Moves
  <2>1. h \in Stripe!Holds
    BY DEF Stripe!Of, Stripe!Holds
  <2>2. Kept \/ (Releases(h) /\ UNCHANGED booked)
    BY <1>6 DEF Stripe!CloseSettles, Releases
  <2>3. QED
    BY <2>1, <2>2
<1>7. QED
  BY <1>1, <1>2, <1>3, <1>4, <1>5, <1>6 DEF Stripe!Next

LEMMA RowsCount ==
  ASSUME StripeUnits, DepositRows
  PROVE  /\ IsFiniteSet(Held) /\ Cardinality(Held) \in Nat
         /\ IsFiniteSet(Untouched) /\ Cardinality(Untouched) \in Nat
         /\ Stripe!DepositWorth = credit + Cardinality(Untouched) + Cardinality(Held)
         /\ Stripe!DepositWorth \in Int
<1>1. IsFiniteSet(Held) /\ IsFiniteSet(Untouched)
  BY HoldsFinite, FS_Subset DEF DepositRows, Held, Untouched
<1>2. Stripe!DepositWorth = credit + Cardinality(Untouched) + Cardinality(Held)
  BY StripeCount DEF Stripe!DepositWorth, Held, Untouched
<1>3. Cardinality(Held) \in Nat /\ Cardinality(Untouched) \in Nat
  BY <1>1, FS_CardinalityType
<1>4. QED
  BY <1>1, <1>2, <1>3 DEF DepositRows

LEMMA RowsCountNext ==
  ASSUME StripeUnits, DepositRows'
  PROVE  /\ Stripe!DepositWorth' = credit' + Cardinality(Untouched') + Cardinality(Held')
         /\ Stripe!DepositWorth' \in Int
<1>1. IsFiniteSet(Held') /\ IsFiniteSet(Untouched')
  BY HoldsFinite, FS_Subset DEF DepositRows, Held, Untouched
<1>2. Stripe!DepositWorth' = credit' + Cardinality(Untouched') + Cardinality(Held')
  BY StripeCount DEF Stripe!DepositWorth, Held, Untouched
<1>3. Cardinality(Held') \in Nat /\ Cardinality(Untouched') \in Nat
  BY <1>1, FS_CardinalityType
<1>4. QED
  BY <1>1, <1>2, <1>3 DEF DepositRows

LEMMA FreezingAddsNothing ==
  ASSUME StripeUnits, DepositRows, NEW h \in Stripe!Holds, Freezes(h)
  PROVE  DepositRows' /\ Stripe!DepositWorth' <= Stripe!DepositWorth
<1>1. DepositRows'
  BY DEF DepositRows, Freezes
<1>2. Held' = Held \cup {h} /\ h \notin Held
  BY DEF DepositRows, Freezes, Held
<1>3. Cardinality(Held') = Cardinality(Held) + 1
  BY <1>2, RowsCount, FS_AddElement
<1>4. CASE credit' = credit - 1 /\ UNCHANGED spent
  <2>1. Untouched' = Untouched
    BY <1>4 DEF Untouched, Freezes
  <2>2. QED
    BY <1>1, <1>3, <1>4, <2>1, RowsCount, RowsCountNext DEF DepositRows
<1>5. ASSUME NEW c \in Untouched, spent' = spent \cup {c}, UNCHANGED credit
      PROVE  Stripe!DepositWorth' <= Stripe!DepositWorth
  <2>1. Untouched' = Untouched \ {c}
    BY <1>5 DEF Untouched, Freezes
  <2>2. Cardinality(Untouched') = Cardinality(Untouched) - 1
    BY <2>1, RowsCount, FS_RemoveElement
  <2>3. QED
    BY <1>1, <1>3, <1>5, <2>2, RowsCount, RowsCountNext DEF DepositRows
<1>6. QED
  BY <1>1, <1>4, <1>5 DEF Freezes

LEMMA ReleasingAddsNothing ==
  ASSUME StripeUnits, DepositRows, NEW h \in Stripe!Holds, Releases(h)
  PROVE  DepositRows' /\ Stripe!DepositWorth' <= Stripe!DepositWorth
<1>1. DepositRows'
  BY DEF DepositRows, Releases
<1>2. Held' = Held \ {h} /\ h \in Held
  BY DEF DepositRows, Releases, Held
<1>3. Cardinality(Held') = Cardinality(Held) - 1
  BY <1>2, RowsCount, FS_RemoveElement
<1>4. CASE restored' = restored /\ (credit' = credit \/ credit' = credit + 1)
  <2>1. Untouched' = Untouched
    BY <1>4 DEF Untouched, Releases
  <2>2. QED
    BY <1>1, <1>3, <1>4, <2>1, RowsCount, RowsCountNext DEF DepositRows
<1>5. CASE credit' = credit /\ restored' = restored \cup {h}
  <2>1. Untouched' = Untouched \/ (Untouched' = Untouched \cup {h} /\ h \notin Untouched)
    BY <1>5 DEF Untouched, Releases
  <2>2. Cardinality(Untouched') <= Cardinality(Untouched) + 1 /\ Cardinality(Untouched') \in Nat
    <3>1. CASE Untouched' = Untouched
      BY <3>1, RowsCount
    <3>2. CASE Untouched' = Untouched \cup {h} /\ h \notin Untouched
      <4>1. Cardinality(Untouched') = Cardinality(Untouched) + 1
        BY <3>2, RowsCount, FS_AddElement
      <4>2. QED
        BY <4>1, RowsCount
    <3>3. QED
      BY <2>1, <3>1, <3>2
  <2>3. QED
    BY <1>1, <1>3, <1>5, <2>2, RowsCount, RowsCountNext DEF DepositRows
<1>6. QED
  BY <1>1, <1>4, <1>5 DEF Releases

LEMMA WorthStep ==
  ASSUME StripeUnits, DepositRows, [Stripe!Next]_(Stripe!vars)
  PROVE  /\ DepositRows' /\ Stripe!DepositWorth \in Int /\ Stripe!DepositWorth' \in Int
         /\ Stripe!DepositWorth' <= Stripe!DepositWorth \/ Booking \/ StaleRestore
<1>1. DepositRows' /\ (Stripe!DepositWorth' <= Stripe!DepositWorth \/ Booking \/ StaleRestore)
  <2>1. CASE UNCHANGED <<credit, booked, hold, restored, spent>>
    <3>1. DepositRows'
      BY <2>1 DEF DepositRows
    <3>2. Held' = Held /\ Untouched' = Untouched
      BY <2>1 DEF Held, Untouched
    <3>3. QED
      BY <2>1, <3>1, <3>2, RowsCount, RowsCountNext
  <2>2. ASSUME NEW h \in Stripe!Holds, Freezes(h) \/ Releases(h)
        PROVE  DepositRows' /\ Stripe!DepositWorth' <= Stripe!DepositWorth
    BY <2>2, FreezingAddsNothing, ReleasingAddsNothing
  <2>3. CASE Booking
    BY <2>3 DEF Booking, DepositRows, StripeUnits
  <2>4. CASE StaleRestore
    <3>1. PICK r \in Refunds, h \in Stripe!Holds : Stripe!RefundRestores(r, h)
      BY <2>4 DEF StaleRestore
    <3>2. credit' = credit + 1 /\ hold' = [hold EXCEPT ![h] = "reversed"] /\ restored' = restored
      BY <3>1 DEF Stripe!RefundRestores
    <3>3. DepositRows'
      BY <3>2 DEF DepositRows
    <3>4. QED
      BY <2>4, <3>3
  <2>5. QED
    BY <2>1, <2>2, <2>3, <2>4, StripeMoves
<1>2. QED
  BY <1>1, RowsCount, RowsCountNext

\* Whichever handlers overlap, once it is credited a deposit becomes worth more to the
\* advertiser in one way only: handleRefund gives back the unit of a hold that was
\* settled after the refund had read it.
THEOREM OnlyRefundsAdd == Stripe!Spec => Stripe!OnlyStaleHoldsAdd
<1> StripeUnits
  BY MoneyAssumption
<1>1. Stripe!Init => DepositRows
  BY DEF Stripe!Init, DepositRows
<1>2. DepositRows /\ [Stripe!Next]_(Stripe!vars) => DepositRows'
  BY WorthStep
<1>3. ASSUME DepositRows, [Stripe!Next]_(Stripe!vars)
      PROVE  [Stripe!DepositWorth' > Stripe!DepositWorth =>
                \/ ~booked /\ booked'
                \/ \E r \in Refunds, h \in Stripe!Holds :
                     hold[h] # "held" /\ Stripe!RefundRestores(r, h)]_(Stripe!vars)
  <2>1. \/ Stripe!DepositWorth' <= Stripe!DepositWorth
        \/ ~booked /\ booked'
        \/ \E r \in Refunds, h \in Stripe!Holds : hold[h] # "held" /\ Stripe!RefundRestores(r, h)
    BY <1>3, WorthStep DEF Booking, StaleRestore
  <2>2. Stripe!DepositWorth \in Int /\ Stripe!DepositWorth' \in Int
    BY <1>3, WorthStep
  <2>3. QED
    BY <2>1, <2>2
<1>4. QED
  BY <1>1, <1>2, <1>3, PTL DEF Stripe!Spec, Stripe!OnlyStaleHoldsAdd

\* Its handlers do not overlap, its deposit and disputes can be counted.
OneAtATime == StripeUnits /\ "concurrent" \notin Faults

Places == {"idle", "credits", "catchup", "cash", "reads", "holds", "freezes", "finds", "settles", "ends"}

\* One handler runs at a time ...
OneHandler ==
  /\ pc \in [Stripe!Events -> Places \cup {"restores"}]
  /\ \A e, f \in Stripe!Events : pc[e] # "idle" /\ pc[f] # "idle" => e = f

\* ... so that the holds a refund has read are still held when it gives them back.
ReadsHold ==
  /\ DOMAIN seen = Stripe!Events /\ \A e \in Stripe!Events : DOMAIN seen[e] = {"found", "holds"}
  /\ \A r \in Refunds : pc[<<"refund", r>>] = "restores" => seen[<<"refund", r>>].holds \subseteq Held

\* What is held or restored was taken from a deposit.
WithinDeposit ==
  /\ DepositRows
  /\ restored \subseteq {h \in Stripe!Holds : hold[h] # "none"}
  /\ ~booked => credit = 0 /\ \A h \in Stripe!Holds : hold[h] = "none"
  /\ Stripe!DepositWorth <= StripeDeposit

StripeInductive == OneHandler /\ ReadsHold /\ WithinDeposit

\* A deposit none of which is held or restored is worth its credit.
LEMMA Unfrozen ==
  ASSUME StripeUnits, DepositRows, restored = {}, \A h \in Stripe!Holds : hold[h] = "none"
  PROVE  Stripe!DepositWorth = credit
<1>1. Held = {} /\ Untouched = {} /\ Cardinality({}) = 0
  BY FS_EmptySet DEF Held, Untouched
<1>2. QED
  BY <1>1, RowsCount DEF DepositRows

LEMMA StripeInit == ASSUME OneAtATime, Stripe!Init PROVE StripeInductive
<1>1. OneHandler
  BY DEF Stripe!Init, OneHandler, Places
<1>2. ReadsHold
  <2>1. DOMAIN Stripe!Nothing = {"found", "holds"}
    BY DEF Stripe!Nothing
  <2>2. \A r \in Refunds : pc[<<"refund", r>>] # "restores"
    BY DEF Stripe!Init, Stripe!Events
  <2>3. QED
    BY <2>1, <2>2 DEF Stripe!Init, ReadsHold
<1>3. WithinDeposit
  <2>1. DepositRows /\ restored = {} /\ credit = 0 /\ \A h \in Stripe!Holds : hold[h] = "none"
    BY DEF Stripe!Init, DepositRows
  <2>2. Stripe!DepositWorth = 0
    BY <2>1, Unfrozen DEF OneAtATime
  <2>3. QED
    BY <2>1, <2>2 DEF WithinDeposit, OneAtATime, StripeUnits
<1>4. QED
  BY <1>1, <1>2, <1>3 DEF StripeInductive

\* No restore is stale while handlers do not overlap.
LEMMA NoneStale == ASSUME ReadsHold PROVE ~StaleRestore
BY DEF ReadsHold, StaleRestore, Stripe!RefundRestores, Held

LEMMA WithinStep ==
  ASSUME StripeUnits, WithinDeposit, ReadsHold, [Stripe!Next]_(Stripe!vars)
  PROVE  WithinDeposit'
<1>1. DepositRows' /\ Stripe!DepositWorth \in Int /\ Stripe!DepositWorth' \in Int
  BY WorthStep DEF WithinDeposit
<1>2. CASE UNCHANGED <<credit, booked, hold, restored, spent>>
  <2>1. Stripe!DepositWorth' <= Stripe!DepositWorth
    BY <1>1, <1>2, WorthStep, NoneStale DEF WithinDeposit, Booking
  <2>2. QED
    BY <1>1, <1>2, <2>1 DEF WithinDeposit, StripeUnits
<1>3. ASSUME NEW h \in Stripe!Holds, Freezes(h) \/ Releases(h), UNCHANGED booked PROVE WithinDeposit'
  <2>1. Stripe!DepositWorth' <= Stripe!DepositWorth
    BY <1>3, FreezingAddsNothing, ReleasingAddsNothing DEF WithinDeposit
  <2>2. booked
    BY <1>3 DEF WithinDeposit, Freezes, Releases, Untouched
  <2>3. restored' \subseteq {g \in Stripe!Holds : hold'[g] # "none"}
    BY <1>3 DEF WithinDeposit, Freezes, Releases, DepositRows
  <2>4. QED
    BY <1>1, <1>3, <2>1, <2>2, <2>3 DEF WithinDeposit, StripeUnits
<1>4. CASE Booking
  <2>1. restored' = {} /\ \A h \in Stripe!Holds : hold'[h] = "none"
    BY <1>4 DEF Booking, WithinDeposit
  <2>2. Held' = {} /\ Untouched' = {} /\ Cardinality({}) = 0
    BY <2>1, FS_EmptySet DEF Held, Untouched
  <2>3. Stripe!DepositWorth' = StripeDeposit
    BY <1>1, <1>4, <2>2, RowsCountNext DEF Booking, StripeUnits
  <2>4. QED
    BY <1>1, <1>4, <2>1, <2>3 DEF Booking, WithinDeposit, StripeUnits
<1>5. QED
  BY <1>2, <1>3, <1>4, StripeMoves, NoneStale

LEMMA StripeFirst ==
  ASSUME NEW e \in Stripe!Events
  PROVE  Stripe!FirstStep(e) \in {"credits", "reads", "freezes", "finds"}
BY DEF Stripe!Events, Stripe!FirstStep, Stripe!Deposited

LEMMA RefundEvents == ASSUME NEW r \in Refunds PROVE <<"refund", r>> \in Stripe!Events
BY DEF Stripe!Events

LEMMA DisputeEvents ==
  ASSUME NEW d \in Disputes
  PROVE  <<"opened", d>> \in Stripe!Events /\ <<"closed", d>> \in Stripe!Events
BY DEF Stripe!Events

\* Only the handler that runs, or the one that nobody else runs with, goes on.
LEMMA Alone ==
  ASSUME OneHandler, NEW e \in Stripe!Events, NEW l \in Places \cup {"restores"},
         pc' = [pc EXCEPT ![e] = l],
         pc[e] # "idle" \/ \A f \in Stripe!Events : pc[f] = "idle"
  PROVE  OneHandler' /\ \A f \in Stripe!Events : f # e => pc'[f] = "idle"
BY DEF OneHandler

\* Away from the holds, what a refund has read does not matter.
LEMMA AwayFromHolds ==
  ASSUME OneHandler, ReadsHold, NEW e \in Stripe!Events, NEW l \in Places,
         pc' = [pc EXCEPT ![e] = l],
         pc[e] # "idle" \/ \A f \in Stripe!Events : pc[f] = "idle",
         DOMAIN seen' = Stripe!Events, \A f \in Stripe!Events : DOMAIN seen'[f] = {"found", "holds"}
  PROVE  OneHandler' /\ ReadsHold'
<1>1. OneHandler' /\ \A f \in Stripe!Events : f # e => pc'[f] = "idle"
  BY Alone
<1>2. \A f \in Stripe!Events : pc'[f] # "restores"
  BY <1>1 DEF OneHandler, Places
<1>3. QED
  BY <1>1, <1>2, RefundEvents DEF ReadsHold

LEMMA HandlersStep ==
  ASSUME OneAtATime, OneHandler, ReadsHold, DepositRows, [Stripe!Next]_(Stripe!vars)
  PROVE  OneHandler' /\ ReadsHold'
<1> DEFINE GoesTo(e, l) == pc[e] # "idle" /\ pc' = [pc EXCEPT ![e] = l]
<1>1. ASSUME UNCHANGED <<hold, pc, seen>> PROVE OneHandler' /\ ReadsHold'
  <2>1. OneHandler'
    BY <1>1 DEF OneHandler
  <2>2. QED
    BY <1>1, <2>1 DEF ReadsHold, Held
<1>2. ASSUME NEW e \in Stripe!Events, NEW l \in Places, GoesTo(e, l),
             seen' = seen \/ \E s : DOMAIN s = {"found", "holds"} /\ seen' = [seen EXCEPT ![e] = s]
      PROVE  OneHandler' /\ ReadsHold'
  <2>1. DOMAIN seen' = Stripe!Events /\ \A f \in Stripe!Events : DOMAIN seen'[f] = {"found", "holds"}
    BY <1>2 DEF ReadsHold
  <2>2. QED
    BY <1>2, <2>1, AwayFromHolds
<1>3. CASE \/ Stripe!Pays \/ Stripe!OwnerLeaves \/ UNCHANGED Stripe!vars
           \/ \E r \in Refunds : Stripe!IssuesRefund(r)
           \/ \E d \in Disputes : \/ Stripe!OpensDispute(d)
                                  \/ \E o \in {"won", "lost", "warned"} : Stripe!ClosesDispute(d, o)
  BY <1>1, <1>3 DEF Stripe!Pays, Stripe!OwnerLeaves, Stripe!vars, Stripe!ledger, Stripe!IssuesRefund,
                    Stripe!OpensDispute, Stripe!ClosesDispute
<1>4. ASSUME NEW e \in Stripe!Events, Stripe!Deliver(e) PROVE OneHandler' /\ ReadsHold'
  <2>1. /\ pc' = [pc EXCEPT ![e] = Stripe!FirstStep(e)]
        /\ \A f \in Stripe!Events : pc[f] = "idle"
        /\ seen' = [seen EXCEPT ![e] = Stripe!Nothing]
    BY <1>4 DEF OneAtATime, StripeUnits, Stripe!Deliver
  <2>2. DOMAIN Stripe!Nothing = {"found", "holds"}
    BY DEF Stripe!Nothing
  <2>3. DOMAIN seen' = Stripe!Events /\ \A f \in Stripe!Events : DOMAIN seen'[f] = {"found", "holds"}
    BY <2>1, <2>2 DEF ReadsHold
  <2>4. Stripe!FirstStep(e) \in Places
    BY StripeFirst DEF Places
  <2>5. QED
    BY <2>1, <2>3, <2>4, AwayFromHolds
<1>5. ASSUME NEW e \in Stripe!Events, Stripe!HandlerDies(e) \/ Stripe!Finishes(e) PROVE OneHandler' /\ ReadsHold'
  <2>1. GoesTo(e, "idle") /\ UNCHANGED seen
    BY <1>5 DEF Stripe!HandlerDies, Stripe!Finishes, Stripe!Ends, Stripe!Goto
  <2>2. QED
    BY <1>2, <2>1 DEF Places
<1>6. CASE Stripe!DepositCredits \/ Stripe!DepositCatchesUp \/ Stripe!DepositBooksCash
  <2>1. UNCHANGED seen /\ \E l \in Places : GoesTo(Stripe!Deposited, l)
    BY <1>6 DEF Stripe!DepositCredits, Stripe!DepositCatchesUp, Stripe!DepositBooksCash, Stripe!Goto,
                Stripe!Ends, Places
  <2>2. Stripe!Deposited \in Stripe!Events
    BY DEF Stripe!Deposited, Stripe!Events
  <2>3. QED
    BY <1>2, <2>1, <2>2
<1>7. ASSUME NEW r \in Refunds, Stripe!RefundReads(r) PROVE OneHandler' /\ ReadsHold'
  <2> DEFINE e == <<"refund", r>>
  <2>1. GoesTo(e, "cash") /\ seen' = [seen EXCEPT ![e].found = booked] /\ e \in Stripe!Events
    BY <1>7, RefundEvents DEF Stripe!RefundReads, Stripe!Goto
  <2>2. DOMAIN seen' = Stripe!Events /\ \A f \in Stripe!Events : DOMAIN seen'[f] = {"found", "holds"}
    BY <2>1 DEF ReadsHold
  <2>3. QED
    BY <2>1, <2>2, AwayFromHolds DEF Places
<1>8. ASSUME NEW r \in Refunds, Stripe!RefundBooksCash(r) \/ Stripe!RefundDebits(r) PROVE OneHandler' /\ ReadsHold'
  <2>1. UNCHANGED seen /\ \E l \in Places : GoesTo(<<"refund", r>>, l)
    BY <1>8 DEF Stripe!RefundBooksCash, Stripe!RefundDebits, Stripe!Goto, Places
  <2>2. QED
    BY <1>2, <2>1, RefundEvents
<1>9. ASSUME NEW r \in Refunds, Stripe!RefundReadsHolds(r) PROVE OneHandler' /\ ReadsHold'
  <2> DEFINE e == <<"refund", r>>
  <2>1. /\ GoesTo(e, "restores") /\ hold' = hold /\ e \in Stripe!Events
        /\ seen' = [seen EXCEPT ![e].holds = Held]
    BY <1>9, RefundEvents DEF Stripe!RefundReadsHolds, Stripe!Goto, Stripe!ledger, Held
  <2>2. DOMAIN seen' = Stripe!Events /\ \A f \in Stripe!Events : DOMAIN seen'[f] = {"found", "holds"}
    BY <2>1 DEF ReadsHold
  <2>3. OneHandler' /\ \A f \in Stripe!Events : f # e => pc'[f] = "idle"
    BY <2>1, Alone
  <2>4. seen'[e].holds = Held'
    BY <2>1 DEF ReadsHold, Held
  <2>5. ASSUME NEW s \in Refunds, pc'[<<"refund", s>>] = "restores" PROVE <<"refund", s>> = e
    BY <2>3, <2>5, RefundEvents
  <2>6. QED
    BY <2>2, <2>3, <2>4, <2>5 DEF ReadsHold
<1>10. ASSUME NEW r \in Refunds, NEW h \in Stripe!Holds, Stripe!RefundRestores(r, h)
       PROVE  OneHandler' /\ ReadsHold'
  <2> DEFINE e == <<"refund", r>>
  <2>1. /\ pc[e] = "restores" /\ e \in Stripe!Events
        /\ hold' = [hold EXCEPT ![h] = "reversed"]
        /\ seen' = [seen EXCEPT ![e].holds = seen[e].holds \ {h}]
        /\ pc' = pc
    BY <1>10, RefundEvents DEF Stripe!RefundRestores
  <2>2. OneHandler'
    BY <2>1 DEF OneHandler
  <2>3. Held' = Held \ {h}
    BY <2>1 DEF Held, DepositRows
  <2>4. DOMAIN seen' = Stripe!Events /\ \A f \in Stripe!Events : DOMAIN seen'[f] = {"found", "holds"}
    BY <2>1 DEF ReadsHold
  <2>5. seen'[e].holds = seen[e].holds \ {h}
    BY <2>1 DEF ReadsHold
  <2>6. ASSUME NEW s \in Refunds, pc'[<<"refund", s>>] = "restores" PROVE <<"refund", s>> = e
    BY <2>1, <2>6, RefundEvents DEF OneHandler
  <2>7. seen'[e].holds \subseteq Held'
    BY <2>1, <2>3, <2>5 DEF ReadsHold
  <2>8. QED
    BY <2>2, <2>4, <2>6, <2>7 DEF ReadsHold
<1>11. ASSUME NEW d \in Disputes, Stripe!DisputeFreezes(d) PROVE OneHandler' /\ ReadsHold'
  <2>1. UNCHANGED seen /\ GoesTo(<<"opened", d>>, "ends")
    BY <1>11 DEF Stripe!DisputeFreezes, Stripe!Goto
  <2>2. QED
    BY <1>2, <2>1, DisputeEvents DEF Places
<1>12. ASSUME NEW d \in Disputes, Stripe!CloseFinds(d) PROVE OneHandler' /\ ReadsHold'
  <2> DEFINE e == <<"closed", d>>
  <2>1. /\ \E l \in Places : GoesTo(e, l)
        /\ seen' = [seen EXCEPT ![e].holds = Stripe!HeldOf(d)] /\ e \in Stripe!Events
    BY <1>12, DisputeEvents DEF Stripe!CloseFinds, Stripe!Goto, Places
  <2>2. DOMAIN seen' = Stripe!Events /\ \A f \in Stripe!Events : DOMAIN seen'[f] = {"found", "holds"}
    BY <2>1 DEF ReadsHold
  <2>3. QED
    BY <2>1, <2>2, AwayFromHolds
<1>13. ASSUME NEW d \in Disputes, NEW h \in Stripe!Of(d), Stripe!CloseSettles(d, h)
       PROVE  OneHandler' /\ ReadsHold'
  <2> DEFINE e == <<"closed", d>>
  <2>1. /\ \E l \in Places : GoesTo(e, l)
        /\ (seen' = seen \/ seen' = [seen EXCEPT ![e].holds = seen[e].holds \ {h}])
        /\ e \in Stripe!Events
    BY <1>13, DisputeEvents DEF Stripe!CloseSettles, Stripe!Goto, Stripe!Throws, Places
  <2>2. DOMAIN seen' = Stripe!Events /\ \A f \in Stripe!Events : DOMAIN seen'[f] = {"found", "holds"}
    BY <2>1 DEF ReadsHold
  <2>3. QED
    BY <2>1, <2>2, AwayFromHolds
<1>14. QED
  BY <1>3, <1>4, <1>5, <1>6, <1>7, <1>8, <1>9, <1>10, <1>11, <1>12, <1>13 DEF Stripe!Next

LEMMA StripeStep ==
  ASSUME OneAtATime, StripeInductive, [Stripe!Next]_(Stripe!vars)
  PROVE  StripeInductive'
BY HandlersStep, WithinStep DEF StripeInductive, WithinDeposit, OneAtATime

\* However often its events are delivered and its handlers die, a deposit is
\* never worth more than was paid (handleRefund, handleDisputeClosed).
THEOREM NeverWorthMore ==
  ASSUME "concurrent" \notin Faults
  PROVE  Stripe!Spec => []NothingFromNothing
<1> OneAtATime
  BY MoneyAssumption DEF OneAtATime
<1>1. Stripe!Init => StripeInductive
  BY StripeInit
<1>2. StripeInductive /\ [Stripe!Next]_(Stripe!vars) => StripeInductive'
  BY StripeStep
<1>3. StripeInductive => NothingFromNothing
  BY DEF StripeInductive, WithinDeposit, Stripe!NothingFromNothing, NothingFromNothing
<1>4. QED
  BY <1>1, <1>2, <1>3, PTL DEF Stripe!Spec

\* Events come in order where that matters: either a refund may overtake its deposit
\* or handlers may die, a dispute's events do not.
Orderly == /\ OneAtATime /\ "disorder" \notin Faults
           /\ MaxDeaths \in Nat /\ ("overtake" \in Faults => MaxDeaths = 0)

PayEvent       == Stripe!Deposited
RefundEvent(r) == <<"refund", r>>
OpenEvent(d)   == <<"opened", d>>
CloseEvent(d)  == <<"closed", d>>

Delivered(e) == event[e] # "none"
Done(e)      == event[e] = "processed" \/ pc[e] = "ends"

Outcomes == {"won", "lost", "warned"}

\* A running handler has its event marked, and Stripe sends what has happened.
Marked ==
  /\ event \in [Stripe!Events -> {"none", "pending", "processing", "processed"}]
  /\ \A e \in Stripe!Events : pc[e] # "idle" => event[e] = "processing"
  /\ Delivered(PayEvent) => paid
  /\ \A r \in Refunds : Delivered(RefundEvent(r)) => r \in refunded
  /\ \A d \in Disputes : /\ Delivered(OpenEvent(d)) => dispute[d] # "none"
                         /\ Delivered(CloseEvent(d)) => dispute[d] \in Outcomes
  /\ deaths \in Nat

Ordered ==
  /\ "overtake" \notin Faults =>
       \A r \in Refunds : Delivered(RefundEvent(r)) => event[PayEvent] = "processed"
  /\ \A d \in Disputes : /\ Delivered(OpenEvent(d)) => event[PayEvent] = "processed"
                         /\ Delivered(CloseEvent(d)) => event[OpenEvent(d)] = "processed"

Disputed == {d \in Disputes : dispute[d] # "none"}
GivenBack ==
  /\ dispute \in [Disputes -> {"none", "open"} \cup Outcomes]
  /\ refunded \subseteq Refunds /\ IsFiniteSet(refunded)

\* No unit is disputed or refunded twice.
GivenOnce ==
  /\ spent = {}
  /\ Cardinality(refunded) + Cardinality(Disputed) <= StripeDeposit

\* The disputes that have taken a unit of the deposit, for the time being or for good.
Taken == {d \in Disputes : Stripe!First(d) \in Held \cup restored \cup cashLost}

\* A handled dispute has its hold on the deposit's row, and what the deposit lacks is what
\* disputes took.
HoldsMatch ==
  /\ booked => Delivered(PayEvent) /\ credit = StripeDeposit - Cardinality(Taken)
  /\ \A h \in Stripe!Holds :
       /\ hold[h] # "none" => h = Stripe!First(h[1])
       /\ h \in cashLost => hold[h] = "reversed" /\ dispute[h[1]] \in {"lost", "warned"}
       /\ h \in restored => hold[h] = "reversed" /\ dispute[h[1]] = "won"
  /\ cashLost \subseteq Stripe!Holds
  /\ \A d \in Disputes :
       /\ hold[Stripe!First(d)] # "none" => Delivered(OpenEvent(d))
       /\ booked /\ Done(OpenEvent(d)) => hold[Stripe!First(d)] # "none"
       /\ booked /\ Done(CloseEvent(d)) => hold[Stripe!First(d)] = "reversed"
Froze == GivenOnce => HoldsMatch

LEMMA HoldNames ==
  /\ \A d \in Disputes : Stripe!First(d) \in Stripe!Holds /\ Stripe!First(d)[1] = d
  /\ \A c, d \in Disputes : Stripe!First(c) = Stripe!First(d) => c = d
  /\ \A h \in Stripe!Holds : h[1] \in Disputes
  /\ \A d \in Disputes : \A h \in Stripe!Of(d) : h \in Stripe!Holds /\ h[1] = d
  /\ \A d \in Disputes : Stripe!First(d) \in Stripe!Of(d)
BY MoneyAssumption DEF Stripe!First, Stripe!Holds, Stripe!Of, StripeUnits

\* A step of a handler gives nothing back at Stripe.
LEMMA OnceBefore ==
  ASSUME UNCHANGED <<refunded, dispute>>, spent \subseteq spent', GivenOnce'
  PROVE  GivenOnce
BY DEF GivenOnce, Disputed

LEMMA EventNames ==
  /\ PayEvent \in Stripe!Events
  /\ \A r \in Refunds : RefundEvent(r) \in Stripe!Events /\ RefundEvent(r) # PayEvent
  /\ \A d \in Disputes : /\ OpenEvent(d) \in Stripe!Events /\ CloseEvent(d) \in Stripe!Events
                         /\ OpenEvent(d) # PayEvent /\ CloseEvent(d) # PayEvent
  /\ \A q, r \in Refunds : RefundEvent(q) = RefundEvent(r) => q = r
  /\ \A c, d \in Disputes : /\ OpenEvent(c) = OpenEvent(d) => c = d
                            /\ CloseEvent(c) = CloseEvent(d) => c = d
                            /\ OpenEvent(c) # CloseEvent(d)
  /\ \A r \in Refunds, d \in Disputes : RefundEvent(r) # OpenEvent(d) /\ RefundEvent(r) # CloseEvent(d)
<1>1. PayEvent \in Stripe!Events
  BY DEF PayEvent, Stripe!Deposited, Stripe!Events
<1>2. \A r \in Refunds : RefundEvent(r) \in Stripe!Events /\ RefundEvent(r) # PayEvent
  BY RefundEvents DEF RefundEvent, PayEvent, Stripe!Deposited
<1>3. \A d \in Disputes : /\ OpenEvent(d) \in Stripe!Events /\ CloseEvent(d) \in Stripe!Events
                          /\ OpenEvent(d) # PayEvent /\ CloseEvent(d) # PayEvent
  BY DisputeEvents DEF OpenEvent, CloseEvent, PayEvent, Stripe!Deposited
<1>4. \A q, r \in Refunds : RefundEvent(q) = RefundEvent(r) => q = r
  BY DEF RefundEvent
<1>5. \A c, d \in Disputes : /\ OpenEvent(c) = OpenEvent(d) => c = d
                             /\ CloseEvent(c) = CloseEvent(d) => c = d
                             /\ OpenEvent(c) # CloseEvent(d)
  BY DEF OpenEvent, CloseEvent
<1>6. \A r \in Refunds, d \in Disputes : RefundEvent(r) # OpenEvent(d) /\ RefundEvent(r) # CloseEvent(d)
  BY DEF RefundEvent, OpenEvent, CloseEvent
<1>7. QED
  BY <1>1, <1>2, <1>3, <1>4, <1>5, <1>6

LEMMA EventKinds ==
  ASSUME NEW e \in Stripe!Events
  PROVE  \/ e = PayEvent \/ \E r \in Refunds : e = RefundEvent(r)
         \/ \E d \in Disputes : e = OpenEvent(d) \/ e = CloseEvent(d)
BY DEF Stripe!Events, PayEvent, Stripe!Deposited, RefundEvent, OpenEvent, CloseEvent

\* What each event waits for.
LEMMA Awaited ==
  ASSUME NEW e \in Stripe!Events, Stripe!Happened(e), Stripe!InOrder(e), "disorder" \notin Faults
  PROVE  /\ e = PayEvent => paid
         /\ \A r \in Refunds : e = RefundEvent(r) =>
              r \in refunded /\ ("overtake" \notin Faults => event[PayEvent] = "processed")
         /\ \A d \in Disputes :
              /\ e = OpenEvent(d) => dispute[d] # "none" /\ event[PayEvent] = "processed"
              /\ e = CloseEvent(d) => dispute[d] \in Outcomes /\ event[OpenEvent(d)] = "processed"
<1>1. e = PayEvent => paid
  BY DEF PayEvent, Stripe!Deposited, Stripe!Happened
<1>2. \A r \in Refunds : e = RefundEvent(r) =>
        r \in refunded /\ ("overtake" \notin Faults => event[PayEvent] = "processed")
  BY DEF PayEvent, RefundEvent, Stripe!Happened, Stripe!InOrder
<1>3. \A d \in Disputes : e = OpenEvent(d) => dispute[d] # "none" /\ event[PayEvent] = "processed"
  BY DEF PayEvent, OpenEvent, Stripe!Happened, Stripe!InOrder
<1>4. \A d \in Disputes : e = CloseEvent(d) => dispute[d] \in Outcomes /\ event[OpenEvent(d)] = "processed"
  BY DEF OpenEvent, CloseEvent, Stripe!Happened, Stripe!InOrder, Outcomes
<1>5. QED
  BY <1>1, <1>2, <1>3, <1>4

\* A step of the handler of e: it goes on, or leaves its event at v.
Handles(e) ==
  /\ pc[e] # "idle" /\ UNCHANGED <<paid, refunded, dispute>> /\ spent \subseteq spent'
  /\ \E l \in Places \cup {"restores"} : pc' = [pc EXCEPT ![e] = l]
  /\ \/ UNCHANGED event /\ (pc[e] = "ends" => pc'[e] = "idle")
     \/ \E v \in {"pending", "processed"} : event' = [event EXCEPT ![e] = v] /\ pc'[e] = "idle"
  /\ deaths' \in Nat

LEMMA HandlesOnce == ASSUME NEW e \in Stripe!Events, Handles(e) PROVE GivenOnce' => GivenOnce
BY OnceBefore DEF Handles

LEMMA HandlesKeeps ==
  ASSUME OneHandler, Marked, Ordered, NEW e \in Stripe!Events, Handles(e)
  PROVE  /\ Marked' /\ Ordered'
         /\ \A f \in Stripe!Events : /\ Delivered(f)' <=> Delivered(f)
                                     /\ f # e => /\ event'[f] = event[f] /\ pc'[f] = pc[f] /\ (Done(f)' <=> Done(f))
                                                 /\ pc[f] = "idle"
<1>1. \A f \in Stripe!Events : /\ Delivered(f)' <=> Delivered(f)
                               /\ f # e => /\ event'[f] = event[f] /\ pc'[f] = pc[f] /\ (Done(f)' <=> Done(f))
                                           /\ pc[f] = "idle"
                               /\ event[f] = "processed" => event'[f] = "processed"
  BY DEF OneHandler, Marked, Handles, Delivered, Done
<1>2. /\ event' \in [Stripe!Events -> {"none", "pending", "processing", "processed"}]
      /\ \A f \in Stripe!Events : pc'[f] # "idle" => event'[f] = "processing"
  BY DEF OneHandler, Marked, Handles
<1>3. Marked'
  BY <1>1, <1>2, EventNames DEF Marked, Handles
<1>4. Ordered'
  BY <1>1, EventNames DEF Ordered
<1>5. QED
  BY <1>1, <1>3, <1>4

LEMMA DeliverKeeps ==
  ASSUME Orderly, OneHandler, Marked, Ordered, NEW e \in Stripe!Events, Stripe!Deliver(e)
  PROVE  /\ Marked' /\ Ordered'
         /\ event[e] # "processed" /\ event'[e] = "processing" /\ pc'[e] # "ends"
         /\ \A f \in Stripe!Events : /\ pc[f] = "idle"
                                     /\ f # e => pc'[f] = "idle" /\ event'[f] = event[f]
<1>1. /\ Stripe!Happened(e) /\ Stripe!InOrder(e) /\ event[e] # "processed"
      /\ event' = [event EXCEPT ![e] = "processing"]
      /\ pc' = [pc EXCEPT ![e] = Stripe!FirstStep(e)] /\ Stripe!FirstStep(e) \in Places \ {"ends"}
      /\ \A f \in Stripe!Events : pc[f] = "idle"
      /\ UNCHANGED <<paid, refunded, dispute, deaths>>
  BY StripeFirst DEF Orderly, OneAtATime, Stripe!Deliver, Stripe!stripe, Places
<1>2. \A f \in Stripe!Events : f # e => pc'[f] = "idle" /\ event'[f] = event[f]
  BY <1>1 DEF OneHandler, Marked
<1>3. event'[e] = "processing" /\ pc'[e] # "ends"
  BY <1>1 DEF OneHandler, Marked
<1>4. \A f \in Stripe!Events : event[f] = "processed" => event'[f] = "processed"
  BY <1>1, <1>2
<1>5. Marked'
  <2>1. event' \in [Stripe!Events -> {"none", "pending", "processing", "processed"}]
    BY <1>1 DEF Marked
  <2>2. \A f \in Stripe!Events : pc'[f] # "idle" => event'[f] = "processing"
    BY <1>2, <1>3
  <2>3. Delivered(PayEvent)' => paid'
    BY <1>1, <1>2, Awaited, EventNames DEF Marked, Delivered, Orderly
  <2>4. \A r \in Refunds : Delivered(RefundEvent(r))' => r \in refunded'
    BY <1>1, <1>2, Awaited, EventNames DEF Marked, Delivered, Orderly
  <2>5. \A d \in Disputes : /\ Delivered(OpenEvent(d))' => dispute'[d] # "none"
                            /\ Delivered(CloseEvent(d))' => dispute'[d] \in Outcomes
    BY <1>1, <1>2, Awaited, EventNames DEF Marked, Delivered, Orderly
  <2>6. QED
    BY <1>1, <2>1, <2>2, <2>3, <2>4, <2>5 DEF Marked
<1>6. Ordered'
  BY <1>1, <1>2, <1>4, Awaited, EventNames DEF Ordered, Delivered, Orderly
<1>7. QED
  BY <1>1, <1>2, <1>3, <1>5, <1>6

\* What happens at Stripe adds to what its events may say.
AtStripe ==
  /\ paid => paid'
  /\ refunded \subseteq refunded'
  /\ \A d \in Disputes : dispute[d] # "none" => dispute'[d] # "none" /\ (dispute[d] # "open" => dispute'[d] = dispute[d])
  /\ UNCHANGED <<event, pc, deaths, seen, spent>>

LEMMA StripeKeeps == ASSUME Marked, Ordered, AtStripe PROVE Marked' /\ Ordered'
<1>1. Marked'
  BY EventNames DEF Marked, AtStripe, Delivered, Outcomes
<1>2. Ordered'
  BY EventNames DEF Ordered, AtStripe, Delivered
<1>3. QED
  BY <1>1, <1>2

LEMMA DisputedFinite ==
  ASSUME StripeUnits PROVE IsFiniteSet(Disputed) /\ Cardinality(Disputed) \in Nat
<1>1. IsFiniteSet(Disputed)
  BY FS_Subset DEF Disputed, StripeUnits
<1>2. QED
  BY <1>1, FS_CardinalityType

\* Nothing is reclaimed while refunds and disputes, whatever became of these, fit into
\* the deposit.
LEMMA ReclaimedIs ==
  ASSUME StripeUnits, GivenBack, ~Stripe!Reclaimed
  PROVE  /\ GivenOnce
         /\ Stripe!Left = StripeDeposit - Cardinality(refunded) - Cardinality(Disputed)
                          + Cardinality(Stripe!Regained)
<1> DEFINE Out == {d \in Disputes : dispute[d] \in {"open", "lost"}}
<1>1. IsFiniteSet(Out) /\ IsFiniteSet(Stripe!Regained)
  BY FS_Subset DEF StripeUnits, Stripe!Regained
<1>2. Disputed = Out \cup Stripe!Regained /\ Out \cap Stripe!Regained = {}
  BY DEF GivenBack, Disputed, Stripe!Regained, Outcomes
<1>3. Cardinality(Out) \in Nat /\ Cardinality(Stripe!Regained) \in Nat /\ Cardinality(refunded) \in Nat
  BY <1>1, FS_CardinalityType DEF GivenBack
<1>4. Cardinality(Disputed) = Cardinality(Out) + Cardinality(Stripe!Regained)
  BY <1>1, <1>2, DisjointUnion
<1>5. Stripe!Left = StripeDeposit - Cardinality(refunded) - Cardinality(Out)
  BY StripeCount DEF Stripe!Left
<1>6. spent = {} /\ ~(Stripe!Left < Cardinality(Stripe!Regained))
  BY StripeCount DEF Stripe!Reclaimed
<1> HIDE DEF Out
<1>7. QED
  BY <1>3, <1>4, <1>5, <1>6 DEF GivenOnce, StripeUnits

\* What Stripe gives back only grows.
LEMMA GivesMore ==
  ASSUME StripeUnits, GivenBack, AtStripe, GivenBack', GivenOnce'
  PROVE  GivenOnce
<1>1. Disputed \subseteq Disputed' /\ refunded \subseteq refunded' /\ spent = {}
  BY DEF AtStripe, Disputed, GivenOnce
<1>2. /\ Cardinality(Disputed) <= Cardinality(Disputed') /\ Cardinality(refunded) <= Cardinality(refunded')
      /\ Cardinality(Disputed') \in Nat /\ Cardinality(refunded') \in Nat
  <2>1. IsFiniteSet(Disputed') /\ IsFiniteSet(refunded')
    BY FS_Subset DEF Disputed, StripeUnits, GivenBack
  <2>2. QED
    BY <1>1, <2>1, FS_Subset, FS_CardinalityType
<1>3. Cardinality(Disputed) \in Nat /\ Cardinality(refunded) \in Nat
  BY DisputedFinite, FS_CardinalityType DEF GivenBack
<1>4. QED
  BY <1>1, <1>2, <1>3 DEF GivenOnce, StripeUnits

\* Steps that leave the deposit, its holds and their outcome alone.
FundsKept == UNCHANGED <<credit, booked, hold, restored, spent, cashLost>>

LEMMA FrozeKept ==
  ASSUME GivenOnce' => GivenOnce, Froze, FundsKept,
         \A f \in Stripe!Events : Delivered(f) => Delivered(f)',
         \A d \in Disputes : dispute[d] \in Outcomes => dispute'[d] = dispute[d],
         HoldsMatch => \A d \in Disputes :
           /\ booked /\ Done(OpenEvent(d))' => Done(OpenEvent(d)) \/ hold[Stripe!First(d)] # "none"
           /\ booked /\ Done(CloseEvent(d))' => Done(CloseEvent(d)) \/ hold[Stripe!First(d)] = "reversed"
  PROVE  Froze'
<1> SUFFICES ASSUME HoldsMatch PROVE HoldsMatch'
  BY DEF Froze
<1>1. Taken' = Taken
  BY DEF FundsKept, Taken, Held
<1>2. QED
  BY <1>1, EventNames, HoldNames DEF HoldsMatch, FundsKept, Outcomes

\* What disputes took they were for, and there is more left while one took nothing.
LEMMA TakenCount ==
  ASSUME StripeUnits, Marked, HoldsMatch
  PROVE  /\ Taken \subseteq Disputed /\ IsFiniteSet(Taken) /\ Cardinality(Taken) \in Nat
         /\ \A d \in Disputed : d \notin Taken => Cardinality(Taken) < Cardinality(Disputed)
<1>1. Taken \subseteq Disputed
  BY HoldNames DEF Taken, Held, Disputed, HoldsMatch, Marked
<1>2. IsFiniteSet(Taken) /\ Cardinality(Taken) \in Nat
  BY <1>1, DisputedFinite, FS_Subset, FS_CardinalityType
<1>3. ASSUME NEW d \in Disputed, d \notin Taken PROVE Cardinality(Taken) < Cardinality(Disputed)
  <2>1. Taken \cup {d} \subseteq Disputed /\ Cardinality(Taken \cup {d}) = Cardinality(Taken) + 1
    BY <1>1, <1>2, <1>3, FS_AddElement
  <2>2. Cardinality(Taken \cup {d}) <= Cardinality(Disputed)
    BY <2>1, DisputedFinite, FS_Subset
  <2>3. QED
    BY <1>2, <2>1, <2>2, DisputedFinite
<1>4. QED
  BY <1>1, <1>2, <1>3

Books == StripeInductive /\ Marked /\ Ordered /\ GivenBack /\ Froze

\* While the deposit is handled no dispute is.
LEMMA PayFirst ==
  ASSUME Marked, Ordered, pc[PayEvent] # "idle", NEW d \in Disputes
  PROVE  ~Done(OpenEvent(d)) /\ ~Done(CloseEvent(d)) /\ ~Delivered(OpenEvent(d)) /\ ~Delivered(CloseEvent(d))
<1>1. event[PayEvent] = "processing"
  BY EventNames DEF Marked
<1>2. ~Delivered(OpenEvent(d)) /\ ~Delivered(CloseEvent(d))
  BY <1>1, EventNames DEF Ordered, Delivered
<1>3. QED
  BY <1>2, EventNames DEF Marked, Delivered, Done

LEMMA CreditsFreeze ==
  ASSUME StripeUnits, Books, Stripe!DepositCredits
  PROVE  Handles(PayEvent) /\ Froze'
<1> USE DEF Books, StripeInductive
<1>1. /\ pc[PayEvent] = "credits"
      /\ UNCHANGED <<hold, restored, spent, cashLost, dispute, paid, refunded, deaths>>
      /\ \/ UNCHANGED <<credit, booked>>
         \/ UNCHANGED event /\ booked' /\ credit' = (IF booked THEN credit ELSE StripeDeposit)
  BY DEF Stripe!DepositCredits, PayEvent, Stripe!stripe
<1>2. \/ /\ pc' = [pc EXCEPT ![PayEvent] = "idle"]
         /\ event' = [event EXCEPT ![PayEvent] = "processed"]
      \/ \E l \in {"cash", "catchup"} : pc' = [pc EXCEPT ![PayEvent] = l] /\ UNCHANGED event
  BY DEF Stripe!DepositCredits, PayEvent, Stripe!Ends, Stripe!Goto
<1>3. Handles(PayEvent)
  BY <1>1, <1>2, EventNames DEF Handles, Places, Marked, OneHandler
<1>4. \A d \in Disputes : ~Done(OpenEvent(d))' /\ ~Done(CloseEvent(d))'
  BY <1>1, <1>3, HandlesKeeps, EventNames, PayFirst
<1>5. Delivered(PayEvent) /\ \A f \in Stripe!Events : Delivered(f)' <=> Delivered(f)
  BY <1>1, <1>3, HandlesKeeps, EventNames DEF Marked, Delivered
<1>0. GivenOnce' => GivenOnce
  BY <1>1, OnceBefore
<1> SUFFICES ASSUME HoldsMatch PROVE HoldsMatch'
  BY <1>0, <1>3 DEF Froze
<1>6. booked' => credit' = StripeDeposit - Cardinality(Taken')
  <2>1. CASE UNCHANGED <<credit, booked>>
    BY <1>1, <2>1 DEF HoldsMatch, Taken, Held
  <2>2. CASE booked /\ ~UNCHANGED <<credit, booked>>
    BY <1>1, <2>2 DEF HoldsMatch, Taken, Held
  <2>3. CASE ~booked /\ ~UNCHANGED <<credit, booked>>
    <3>1. Taken' = {} /\ credit' = StripeDeposit
      BY <1>1, <2>3, HoldNames DEF HoldsMatch, WithinDeposit, Taken, Held
    <3>2. Cardinality({}) = 0
      BY FS_EmptySet
    <3>3. QED
      BY <3>1, <3>2 DEF StripeUnits
  <2>4. QED
    BY <2>1, <2>2, <2>3
<1>7. \A d \in Disputes : hold'[Stripe!First(d)] # "none" => Delivered(OpenEvent(d))'
  BY <1>1, <1>5, EventNames DEF HoldsMatch
<1>8. QED
  BY <1>1, <1>4, <1>5, <1>6, <1>7, EventNames DEF HoldsMatch

LEMMA RestoresFreeze ==
  ASSUME StripeUnits, Books, NEW r \in Refunds, NEW h \in Stripe!Holds, Stripe!RefundRestores(r, h)
  PROVE  Marked' /\ Ordered' /\ Froze'
<1> USE DEF Books, StripeInductive
<1>1. /\ pc[RefundEvent(r)] = "restores" /\ h \in seen[RefundEvent(r)].holds
      /\ credit' = credit + 1 /\ hold' = [hold EXCEPT ![h] = "reversed"]
      /\ UNCHANGED <<booked, restored, spent, cashLost, dispute, paid, refunded, deaths, event, pc>>
  BY DEF Stripe!RefundRestores, RefundEvent, Stripe!stripe, Stripe!books
<1>2. h \in Held
  BY <1>1 DEF ReadsHold, RefundEvent
<1>3. Marked' /\ Ordered'
  BY <1>1 DEF Marked, Ordered, Delivered
<1>4. GivenOnce' => GivenOnce
  BY <1>1, OnceBefore
<1> SUFFICES ASSUME HoldsMatch PROVE HoldsMatch'
  BY <1>3, <1>4 DEF Froze
<1> DEFINE d == h[1]
<1>5. d \in Disputes /\ h = Stripe!First(d)
  BY <1>2, HoldNames DEF Held, HoldsMatch
<1> HIDE DEF d
<1>6. Held' = Held \ {h} /\ h \notin restored /\ h \notin cashLost /\ booked
  BY <1>1, <1>2 DEF Held, WithinDeposit, DepositRows, HoldsMatch
<1>7. Taken' = Taken \ {d} /\ d \in Taken
  BY <1>1, <1>2, <1>5, <1>6, HoldNames DEF Taken
<1>8. Cardinality(Taken') = Cardinality(Taken) - 1
  BY <1>7, TakenCount, FS_RemoveElement
<1>9. credit' = StripeDeposit - Cardinality(Taken')
  BY <1>1, <1>6, <1>8, TakenCount DEF HoldsMatch, StripeUnits
<1>10. \A g \in Stripe!Holds : hold'[g] = IF g = h THEN "reversed" ELSE hold[g]
  BY <1>1 DEF WithinDeposit, DepositRows
<1>11. hold[h] = "held"
  BY <1>2 DEF Held
<1>12. QED
  BY <1>1, <1>6, <1>9, <1>10, <1>11, HoldNames DEF HoldsMatch, Delivered, Done

LEMMA FreezesFreeze ==
  ASSUME StripeUnits, Books, NEW d \in Disputes, Stripe!DisputeFreezes(d)
  PROVE  Handles(OpenEvent(d)) /\ Froze'
<1> USE DEF Books, StripeInductive
<1> DEFINE s == Stripe!First(d)
<1>1. /\ pc[OpenEvent(d)] = "freezes" /\ pc' = [pc EXCEPT ![OpenEvent(d)] = "ends"]
      /\ spent \subseteq spent'
      /\ \/ booked /\ hold[s] = "none" /\ credit > 0 /\ credit' = credit - 1 /\ hold' = [hold EXCEPT ![s] = "held"]
         \/ ~(booked /\ hold[s] = "none" /\ credit > 0) /\ UNCHANGED <<credit, hold>>
         \/ spent' # {}
      /\ UNCHANGED <<booked, restored, cashLost, dispute, paid, refunded, deaths, event>>
  BY DEF Stripe!DisputeFreezes, Stripe!Freezes, Stripe!Freezable, Stripe!TakesUnit, OpenEvent, Stripe!Goto,
         Stripe!stripe, Stripe!books
<1>2. Handles(OpenEvent(d))
  BY <1>1, EventNames DEF Handles, Places, Marked, OneHandler
<1>0. GivenOnce' => GivenOnce
  BY <1>1, OnceBefore
<1> SUFFICES ASSUME HoldsMatch, GivenOnce, spent' = {} PROVE HoldsMatch'
  BY <1>0, <1>2 DEF Froze, GivenOnce
<1> HIDE DEF s
<1>3. \A f \in Stripe!Events : /\ Delivered(f)' <=> Delivered(f)
                               /\ f # OpenEvent(d) => (Done(f)' <=> Done(f))
  BY <1>2, HandlesKeeps, EventNames
<1>4. Delivered(OpenEvent(d)) /\ d \in Disputed
  BY <1>1, EventNames DEF Marked, Delivered, Disputed
<1>14. s = Stripe!First(d) /\ s \in Stripe!Holds /\ s[1] = d
  BY HoldNames DEF s
<1>5. booked => hold'[s] # "none"
  <2>1. ASSUME booked, hold[s] = "none" PROVE credit > 0
    <3>1. d \notin Taken
      BY <1>14, <2>1 DEF Taken, Held, HoldsMatch
    <3>2. Cardinality(Taken) < Cardinality(Disputed) /\ Cardinality(Taken) \in Nat
      BY <1>4, <3>1, TakenCount
    <3>3. Cardinality(Disputed) <= StripeDeposit
      BY DisputedFinite, FS_CardinalityType DEF GivenBack, GivenOnce, StripeUnits
    <3>4. QED
      BY <2>1, <3>2, <3>3, DisputedFinite DEF HoldsMatch, StripeUnits
  <2>2. QED
    BY <1>1, <1>14, <2>1 DEF WithinDeposit, DepositRows
<1>6. booked => credit' = StripeDeposit - Cardinality(Taken')
  <2>1. CASE UNCHANGED <<credit, hold>>
    BY <1>1, <2>1 DEF HoldsMatch, Taken, Held
  <2>2. CASE booked /\ hold[s] = "none" /\ credit' = credit - 1 /\ hold' = [hold EXCEPT ![s] = "held"]
    <3>1. Held' = Held \cup {s} /\ s \notin Held /\ s \notin restored /\ s \notin cashLost
      BY <1>14, <2>2 DEF Held, WithinDeposit, DepositRows, HoldsMatch
    <3>2. Taken' = Taken \cup {d} /\ d \notin Taken
      BY <1>1, <1>14, <3>1, HoldNames DEF Taken
    <3>3. Cardinality(Taken') = Cardinality(Taken) + 1 /\ Cardinality(Taken) \in Nat
      BY <3>2, TakenCount, FS_AddElement
    <3>4. QED
      BY <2>2, <3>3 DEF HoldsMatch, StripeUnits
  <2>3. QED
    BY <1>1, <2>1, <2>2
<1>7. \A h \in Stripe!Holds : h # s => hold'[h] = hold[h]
  BY <1>1 DEF WithinDeposit, DepositRows
<1>8. hold'[s] # hold[s] => hold[s] = "none"
  BY <1>1
<1>9. ASSUME NEW h \in Stripe!Holds
      PROVE  /\ hold'[h] # "none" => h = Stripe!First(h[1])
             /\ h \in cashLost' => hold'[h] = "reversed" /\ dispute'[h[1]] \in {"lost", "warned"}
             /\ h \in restored' => hold'[h] = "reversed" /\ dispute'[h[1]] = "won"
  BY <1>1, <1>7, <1>8, <1>14 DEF HoldsMatch
<1>10. ASSUME NEW c \in Disputes
       PROVE  /\ hold'[Stripe!First(c)] # "none" => Delivered(OpenEvent(c))'
              /\ booked' /\ Done(OpenEvent(c))' => hold'[Stripe!First(c)] # "none"
              /\ booked' /\ Done(CloseEvent(c))' => hold'[Stripe!First(c)] = "reversed"
  <2>1. CASE c = d
    <3>1. Done(CloseEvent(d))' => Done(CloseEvent(d))
      BY <1>3, EventNames
    <3>2. booked /\ Done(CloseEvent(d)) => hold[s] = "reversed"
      BY <1>14 DEF HoldsMatch
    <3>3. QED
      BY <1>1, <1>3, <1>4, <1>5, <1>8, <1>14, <2>1, <3>1, <3>2, EventNames
  <2>2. CASE c # d
    <3>1. Stripe!First(c) # s /\ Stripe!First(c) \in Stripe!Holds
      BY <1>14, <2>2, HoldNames
    <3>2. QED
      BY <1>1, <1>3, <1>7, <2>2, <3>1, EventNames DEF HoldsMatch
  <2>3. QED
    BY <2>1, <2>2
<1>11. booked' => Delivered(PayEvent)'
  BY <1>1, <1>3, EventNames DEF HoldsMatch
<1>12. QED
  BY <1>1, <1>6, <1>9, <1>10, <1>11 DEF HoldsMatch

LEMMA FindsFreeze ==
  ASSUME StripeUnits, Books, NEW d \in Disputes, Stripe!CloseFinds(d)
  PROVE  Handles(CloseEvent(d)) /\ Froze'
<1> USE DEF Books, StripeInductive
<1>1. /\ pc[CloseEvent(d)] = "finds"
      /\ pc' = [pc EXCEPT ![CloseEvent(d)] = IF Stripe!HeldOf(d) = {} THEN "ends" ELSE "settles"]
      /\ FundsKept /\ UNCHANGED <<dispute, paid, refunded, deaths, event>>
  BY DEF Stripe!CloseFinds, CloseEvent, Stripe!Goto, Stripe!stripe, Stripe!books, Stripe!ledger, FundsKept
<1>2. Handles(CloseEvent(d))
  BY <1>1, EventNames DEF Handles, Places, Marked, OneHandler, FundsKept
<1>3. \A f \in Stripe!Events : /\ Delivered(f)' <=> Delivered(f)
                               /\ f # CloseEvent(d) => (Done(f)' <=> Done(f))
  BY <1>2, HandlesKeeps, EventNames
<1>4. event[OpenEvent(d)] = "processed"
  BY <1>1, EventNames DEF Marked, Ordered, Delivered
<1>5. ASSUME HoldsMatch, booked PROVE hold[Stripe!First(d)] \in {"held", "reversed"}
  BY <1>4, <1>5, HoldNames DEF HoldsMatch, Done, WithinDeposit, DepositRows
<1>6. /\ event[CloseEvent(d)] = "processing"
      /\ hold[Stripe!First(d)] = "held" => pc'[CloseEvent(d)] # "ends"
  BY <1>1, EventNames, HoldNames DEF Marked, OneHandler, Stripe!HeldOf
<1>7. HoldsMatch /\ booked /\ Done(CloseEvent(d))' => hold[Stripe!First(d)] = "reversed"
  BY <1>1, <1>5, <1>6 DEF Done
<1>8. HoldsMatch => \A c \in Disputes :
        /\ booked /\ Done(OpenEvent(c))' => Done(OpenEvent(c)) \/ hold[Stripe!First(c)] # "none"
        /\ booked /\ Done(CloseEvent(c))' => Done(CloseEvent(c)) \/ hold[Stripe!First(c)] = "reversed"
  BY <1>3, <1>7, EventNames
<1>9. Froze'
  BY <1>1, <1>3, <1>8, FrozeKept, OnceBefore DEF FundsKept
<1>10. QED
  BY <1>2, <1>9

LEMMA SettlesFreeze ==
  ASSUME StripeUnits, Books, NEW d \in Disputes, NEW h \in Stripe!Of(d), Stripe!CloseSettles(d, h)
  PROVE  Handles(CloseEvent(d)) /\ Froze'
<1> USE DEF Books, StripeInductive
<1>1. /\ pc[CloseEvent(d)] = "settles"
      /\ UNCHANGED <<credit, booked, spent, dispute, paid, refunded, deaths>>
  BY DEF Stripe!CloseSettles, CloseEvent, Stripe!stripe
<1>0. GivenOnce' => GivenOnce
  BY <1>1, OnceBefore
<1>2. CASE hold[h] # "held"
  <2>1. /\ pc' = [pc EXCEPT ![CloseEvent(d)] = "idle"] /\ event' = [event EXCEPT ![CloseEvent(d)] = "pending"]
        /\ FundsKept
    BY <1>1, <1>2 DEF Stripe!CloseSettles, Stripe!Throws, CloseEvent, FundsKept
  <2>2. Handles(CloseEvent(d))
    BY <1>1, <2>1, EventNames DEF Handles, Places, Marked, OneHandler
  <2>3. \A f \in Stripe!Events : /\ Delivered(f)' <=> Delivered(f)
                                 /\ f # CloseEvent(d) => (Done(f)' <=> Done(f))
    BY <2>2, HandlesKeeps, EventNames
  <2>4. ~Done(CloseEvent(d))'
    BY <2>1, EventNames DEF Done, Marked, OneHandler
  <2>5. Froze'
    BY <1>0, <1>1, <2>1, <2>3, <2>4, FrozeKept, EventNames
  <2>6. QED
    BY <2>2, <2>5
<1>3. CASE hold[h] = "held"
  <2>1. /\ \E l \in {"settles", "ends"} : pc' = [pc EXCEPT ![CloseEvent(d)] = l]
        /\ event' = event
        /\ hold' = [hold EXCEPT ![h] = "reversed"]
        /\ restored' = IF dispute[d] = "won" THEN restored \cup {h} ELSE restored
        /\ cashLost' = IF dispute[d] # "won" THEN cashLost \cup {h} ELSE cashLost
    BY <1>1, <1>3 DEF Stripe!CloseSettles, Stripe!Goto, CloseEvent
  <2>2. Handles(CloseEvent(d))
    BY <1>1, <2>1, EventNames DEF Handles, Places, Marked, OneHandler
  <2>3. \A f \in Stripe!Events : /\ Delivered(f)' <=> Delivered(f)
                                 /\ f # CloseEvent(d) => (Done(f)' <=> Done(f))
    BY <2>2, HandlesKeeps, EventNames
  <2>4. dispute[d] \in Outcomes /\ h \in Stripe!Holds /\ h[1] = d
    BY <1>1, EventNames, HoldNames DEF Marked, Delivered
  <2> SUFFICES ASSUME HoldsMatch PROVE HoldsMatch'
    BY <1>0, <2>2 DEF Froze
  <2>5. Held' = Held \ {h} /\ h \in Held /\ h = Stripe!First(d)
    BY <1>3, <2>1, <2>4 DEF Held, WithinDeposit, DepositRows, HoldsMatch
  <2>6. Taken' = Taken
    BY <2>1, <2>4, <2>5, HoldNames DEF Taken, Outcomes
  <2>7. \A g \in Stripe!Holds : g # h => hold'[g] = hold[g]
    BY <2>1 DEF WithinDeposit, DepositRows
  <2>8. hold'[h] = "reversed"
    BY <2>1, <2>4 DEF WithinDeposit, DepositRows
  <2>9. ASSUME NEW g \in Stripe!Holds
        PROVE  /\ hold'[g] # "none" => g = Stripe!First(g[1])
               /\ g \in cashLost' => hold'[g] = "reversed" /\ dispute'[g[1]] \in {"lost", "warned"}
               /\ g \in restored' => hold'[g] = "reversed" /\ dispute'[g[1]] = "won"
    BY <1>1, <2>1, <2>4, <2>5, <2>7, <2>8 DEF HoldsMatch, Outcomes
  <2>10. ASSUME NEW c \in Disputes
         PROVE  /\ hold'[Stripe!First(c)] # "none" => Delivered(OpenEvent(c))'
                /\ booked' /\ Done(OpenEvent(c))' => hold'[Stripe!First(c)] # "none"
                /\ booked' /\ Done(CloseEvent(c))' => hold'[Stripe!First(c)] = "reversed"
    <3>1. CASE c = d
      BY <1>3, <2>3, <2>5, <2>8, <3>1, EventNames DEF HoldsMatch
    <3>2. CASE c # d
      <4>1. Stripe!First(c) # h /\ Stripe!First(c) \in Stripe!Holds
        BY <2>5, <3>2, HoldNames
      <4>2. QED
        BY <1>1, <2>3, <2>7, <3>2, <4>1, EventNames DEF HoldsMatch
    <3>3. QED
      BY <3>1, <3>2
  <2>11. cashLost' \subseteq Stripe!Holds
    BY <2>1, <2>4 DEF HoldsMatch
  <2>12. QED
    BY <1>1, <2>3, <2>6, <2>9, <2>10, <2>11, EventNames DEF HoldsMatch
<1>4. QED
  BY <1>2, <1>3

\* The rest of the handlers' steps, by what they leave.
LEMMA HandlesFreezes ==
  ASSUME Books, FundsKept, NEW e \in Stripe!Events, Handles(e),
         Done(e)' => Done(e) \/ \A d \in Disputes : e # OpenEvent(d) /\ e # CloseEvent(d)
  PROVE  Froze'
<1> USE DEF Books, StripeInductive
<1>1. \A f \in Stripe!Events : /\ Delivered(f)' <=> Delivered(f)
                               /\ f # e => (Done(f)' <=> Done(f))
  BY HandlesKeeps
<1>2. \A d \in Disputes : dispute'[d] = dispute[d]
  BY DEF Handles
<1>3. \A d \in Disputes : /\ Done(OpenEvent(d))' => Done(OpenEvent(d))
                          /\ Done(CloseEvent(d))' => Done(CloseEvent(d))
  BY <1>1, EventNames
<1>4. QED
  BY <1>1, <1>2, <1>3, HandlesOnce, FrozeKept

\* A refund is debited once by its handler, or by that of the deposit it has overtaken.
DebitedOnce(r) ==
  /\ pc[RefundEvent(r)] = "cash" => seen[RefundEvent(r)].found = booked
  /\ pc[RefundEvent(r)] \in {"holds", "restores"} => booked
  /\ Done(RefundEvent(r)) \/ pc[RefundEvent(r)] \in {"holds", "restores"} => r \in cashRefund
  /\ r \in cashRefund =>
       /\ Delivered(RefundEvent(r))
       /\ "overtake" \in Faults => event[RefundEvent(r)] = "processed" \/ pc[RefundEvent(r)] # "idle"
  /\ r \in catchUp => event[RefundEvent(r)] = "processed"
  /\ refundRow[r] = 1 => Delivered(RefundEvent(r)) /\ booked /\ pc[PayEvent] # "catchup" /\ r \notin catchUp
  /\ GivenOnce /\ booked /\ Done(RefundEvent(r)) =>
       refundRow[r] = 1 \/ r \in catchUp \/ pc[PayEvent] = "catchup"

CashBooked ==
  /\ cash \in BOOLEAN /\ (Done(PayEvent) => cash)
  /\ refundRow \in [Refunds -> {0, 1}] /\ catchUp \subseteq Refunds /\ cashRefund \subseteq Refunds

Debited == CashBooked /\ \A r \in Refunds : DebitedOnce(r)

\* Steps that write nothing of a refund.
LEMMA DebitedKept ==
  ASSUME NEW r \in Refunds, DebitedOnce(r), GivenOnce' => GivenOnce,
         booked' = booked, refundRow'[r] = refundRow[r],
         r \in catchUp' <=> r \in catchUp, r \in cashRefund' <=> r \in cashRefund,
         pc'[RefundEvent(r)] = pc[RefundEvent(r)], event'[RefundEvent(r)] = event[RefundEvent(r)],
         seen'[RefundEvent(r)].found = seen[RefundEvent(r)].found,
         (pc'[PayEvent] = "catchup") <=> (pc[PayEvent] = "catchup")
  PROVE  DebitedOnce(r)'
BY DEF DebitedOnce, Done, Delivered

RefundsKept == UNCHANGED <<refundRow, catchUp, cash, cashRefund>>

\* A step of a handler that is neither the deposit's nor a refund's.
LEMMA OthersDebit ==
  ASSUME OneHandler, Marked, Ordered, Debited, RefundsKept, booked' = booked,
         NEW e \in Stripe!Events, Handles(e), e # PayEvent, \A r \in Refunds : e # RefundEvent(r),
         \A r \in Refunds : seen'[RefundEvent(r)].found = seen[RefundEvent(r)].found
  PROVE  Debited'
<1>1. \A f \in Stripe!Events : f # e => event'[f] = event[f] /\ pc'[f] = pc[f] /\ (Done(f)' <=> Done(f))
  BY HandlesKeeps
<1>2. CashBooked'
  BY <1>1, EventNames DEF Debited, CashBooked, RefundsKept
<1>3. ASSUME NEW r \in Refunds PROVE DebitedOnce(r)'
  BY <1>1, EventNames, HandlesOnce, DebitedKept DEF Debited, RefundsKept
<1>4. QED
  BY <1>2, <1>3 DEF Debited

LEMMA DeliverDebits ==
  ASSUME Orderly, OneHandler, ReadsHold, Marked, Ordered, Debited, NEW e \in Stripe!Events, Stripe!Deliver(e)
  PROVE  Debited'
<1>1. /\ pc' = [pc EXCEPT ![e] = Stripe!FirstStep(e)] /\ seen' = [seen EXCEPT ![e] = Stripe!Nothing]
      /\ RefundsKept /\ UNCHANGED <<booked, refunded, dispute, spent>>
      /\ Stripe!FirstStep(e) \in {"credits", "reads", "freezes", "finds"}
  BY StripeFirst DEF Stripe!Deliver, Stripe!stripe, Stripe!ledger, Stripe!books, RefundsKept
<1>0. GivenOnce' => GivenOnce
  BY <1>1, OnceBefore
<1>2. /\ event[e] # "processed" /\ event'[e] = "processing" /\ pc'[e] # "ends"
      /\ \A f \in Stripe!Events : /\ pc[f] = "idle"
                                  /\ f # e => pc'[f] = "idle" /\ event'[f] = event[f]
  BY DeliverKeeps
<1>3. pc'[e] \notin {"cash", "holds", "restores", "catchup", "ends", "idle"}
  BY <1>1 DEF OneHandler
<1>4. CashBooked'
  BY <1>1, <1>2, EventNames DEF Debited, CashBooked, RefundsKept, Done
<1>5. ASSUME NEW r \in Refunds PROVE DebitedOnce(r)'
  <2>1. CASE e = RefundEvent(r)
    <3>1. pc[PayEvent] = "idle" /\ pc'[PayEvent] = "idle"
      BY <1>2, <2>1, EventNames
    <3>2. DebitedOnce(r)
      BY DEF Debited
    <3>3. ~Done(RefundEvent(r))' /\ Delivered(RefundEvent(r))' /\ r \notin catchUp
      BY <1>2, <2>1, <3>2 DEF Done, Delivered, DebitedOnce
    <3>4. QED
      BY <1>0, <1>1, <1>3, <2>1, <3>1, <3>2, <3>3 DEF DebitedOnce, RefundsKept
  <2>2. CASE e # RefundEvent(r)
    <3>1. seen'[RefundEvent(r)] = seen[RefundEvent(r)]
      BY <1>1, <2>2, EventNames DEF ReadsHold
    <3>2. pc[PayEvent] # "catchup" /\ pc'[PayEvent] # "catchup"
      BY <1>2, <1>3, EventNames
    <3>3. /\ pc'[RefundEvent(r)] = pc[RefundEvent(r)] /\ event'[RefundEvent(r)] = event[RefundEvent(r)]
      BY <1>2, <2>2, EventNames
    <3>4. QED
      BY <1>0, <1>1, <3>1, <3>2, <3>3, DebitedKept DEF Debited, RefundsKept
  <2>3. QED
    BY <2>1, <2>2
<1>6. QED
  BY <1>4, <1>5 DEF Debited

LEMMA DiesDebits ==
  ASSUME Orderly, OneHandler, Marked, Ordered, Debited, NEW e \in Stripe!Events, Stripe!HandlerDies(e)
  PROVE  Handles(e) /\ Debited'
<1>1. /\ pc[e] # "idle" /\ pc' = [pc EXCEPT ![e] = "idle"] /\ deaths < MaxDeaths /\ deaths' = deaths + 1
      /\ RefundsKept /\ UNCHANGED <<booked, event, seen, paid, refunded, dispute, spent>>
  BY DEF Stripe!HandlerDies, Stripe!ledger, Stripe!books, Stripe!stripe, RefundsKept
<1>2. "overtake" \notin Faults
  BY <1>1 DEF Orderly, Marked
<1>3. Handles(e)
  BY <1>1 DEF Handles, Places, Marked, OneHandler
<1>4. \A f \in Stripe!Events : /\ Delivered(f)' <=> Delivered(f)
                               /\ f # e => event'[f] = event[f] /\ pc'[f] = pc[f] /\ (Done(f)' <=> Done(f))
  BY <1>3, HandlesKeeps
<1>5. ~Done(e)' /\ pc'[e] = "idle" /\ event[e] = "processing"
  BY <1>1 DEF Done, Marked, OneHandler
<1>6. CashBooked'
  BY <1>1, <1>4, <1>5, EventNames DEF Debited, CashBooked, RefundsKept
<1>7. ASSUME NEW r \in Refunds PROVE DebitedOnce(r)'
  <2>1. CASE e = RefundEvent(r)
    <3>1. pc[PayEvent] = "idle" /\ pc'[PayEvent] = "idle"
      BY <1>1, <1>4, <2>1, EventNames DEF OneHandler
    <3>2. QED
      BY <1>1, <1>2, <1>3, <1>4, <1>5, <2>1, <3>1, EventNames, HandlesOnce DEF Debited, DebitedOnce, RefundsKept
  <2>2. CASE e = PayEvent
    <3>1. ~Delivered(RefundEvent(r))
      BY <1>2, <1>5, <2>2 DEF Ordered
    <3>2. ~Done(RefundEvent(r)) /\ ~Done(RefundEvent(r))' /\ ~Delivered(RefundEvent(r))'
      BY <1>4, <2>2, <3>1, EventNames DEF Done, Delivered, Marked
    <3>3. /\ pc'[RefundEvent(r)] = pc[RefundEvent(r)] /\ event'[RefundEvent(r)] = event[RefundEvent(r)]
      BY <1>4, <2>2, EventNames
    <3>4. QED
      BY <1>1, <1>2, <3>1, <3>2, <3>3 DEF Debited, DebitedOnce, RefundsKept
  <2>3. CASE e # PayEvent /\ e # RefundEvent(r)
    BY <1>1, <1>3, <1>4, <2>3, DebitedKept, EventNames, HandlesOnce DEF Debited, RefundsKept
  <2>4. QED
    BY <2>1, <2>2, <2>3
<1>8. QED
  BY <1>3, <1>6, <1>7 DEF Debited

LEMMA FinishesDebits ==
  ASSUME OneHandler, Marked, Ordered, Debited, NEW e \in Stripe!Events, Stripe!Finishes(e)
  PROVE  Handles(e) /\ Debited'
<1>1. /\ pc[e] = "ends" /\ pc' = [pc EXCEPT ![e] = "idle"] /\ event' = [event EXCEPT ![e] = "processed"]
      /\ RefundsKept /\ UNCHANGED <<booked, deaths, seen, paid, refunded, dispute, spent>>
  BY DEF Stripe!Finishes, Stripe!Ends, Stripe!Goto, Stripe!ledger, Stripe!books, Stripe!stripe, RefundsKept
<1>2. Handles(e)
  BY <1>1 DEF Handles, Places, Marked, OneHandler
<1>3. \A f \in Stripe!Events : /\ Delivered(f)' <=> Delivered(f)
                               /\ f # e => event'[f] = event[f] /\ pc'[f] = pc[f] /\ (Done(f)' <=> Done(f))
  BY <1>2, HandlesKeeps
<1>4. Done(e) /\ pc'[e] = "idle" /\ event'[e] = "processed"
  BY <1>1 DEF Done, Marked, OneHandler
<1>5. CashBooked'
  BY <1>1, <1>3, <1>4, EventNames DEF Debited, CashBooked, RefundsKept
<1>6. (pc'[PayEvent] = "catchup") <=> (pc[PayEvent] = "catchup")
  BY <1>1, <1>3, <1>4, EventNames
<1>7. ASSUME NEW r \in Refunds PROVE DebitedOnce(r)'
  <2>1. CASE e = RefundEvent(r)
    <3>1. DebitedOnce(r)
      BY DEF Debited
    <3>2. Delivered(RefundEvent(r))'
      BY <1>4, <2>1 DEF Delivered
    <3>3. QED
      BY <1>1, <1>2, <1>4, <1>6, <2>1, <3>1, <3>2, HandlesOnce DEF DebitedOnce, RefundsKept
  <2>2. CASE e # RefundEvent(r)
    BY <1>1, <1>2, <1>3, <1>6, <2>2, DebitedKept, EventNames, HandlesOnce DEF Debited, RefundsKept
  <2>3. QED
    BY <2>1, <2>2
<1>8. QED
  BY <1>2, <1>5, <1>7 DEF Debited

LEMMA CreditsDebit ==
  ASSUME Books, Debited, Stripe!DepositCredits, Handles(PayEvent)
  PROVE  Debited'
<1> USE DEF Books, StripeInductive
<1>1. /\ pc[PayEvent] = "credits" /\ UNCHANGED <<refundRow, catchUp, cashRefund, seen>>
      /\ \/ /\ cash' = TRUE /\ UNCHANGED booked /\ pc' = [pc EXCEPT ![PayEvent] = "idle"]
         \/ /\ cash' = cash /\ booked' /\ UNCHANGED event
            /\ pc' = [pc EXCEPT ![PayEvent] = IF booked THEN "cash" ELSE "catchup"]
  BY DEF Stripe!DepositCredits, PayEvent, Stripe!Ends, Stripe!Goto
<1>2. \A f \in Stripe!Events : /\ Delivered(f)' <=> Delivered(f)
                               /\ f # PayEvent => /\ event'[f] = event[f] /\ pc'[f] = pc[f] /\ (Done(f)' <=> Done(f))
                                                  /\ pc[f] = "idle"
  BY HandlesKeeps, EventNames
<1>3. /\ pc'[PayEvent] = "catchup" => ~booked
      /\ booked' => booked \/ pc'[PayEvent] = "catchup"
      /\ booked => booked'
      /\ Done(PayEvent)' => cash'
  <2>1. event[PayEvent] = "processing"
    BY <1>1, EventNames DEF Marked
  <2>2. QED
    BY <1>1, <2>1, EventNames DEF OneHandler, Done
<1>4. CashBooked'
  BY <1>1, <1>3 DEF Debited, CashBooked
<1>5. ASSUME NEW r \in Refunds PROVE DebitedOnce(r)'
  <2>1. DebitedOnce(r)
    BY DEF Debited
  <2>2. /\ pc[RefundEvent(r)] = "idle" /\ pc'[RefundEvent(r)] = "idle"
        /\ event'[RefundEvent(r)] = event[RefundEvent(r)]
        /\ Delivered(RefundEvent(r))' <=> Delivered(RefundEvent(r))
        /\ Done(RefundEvent(r))' <=> Done(RefundEvent(r))
    BY <1>2, EventNames
  <2>3. QED
    BY <1>1, <1>3, <2>1, <2>2, EventNames, HandlesOnce DEF DebitedOnce
<1>6. QED
  BY <1>4, <1>5 DEF Debited

LEMMA CatchesUpDebits ==
  ASSUME Books, Debited, Stripe!DepositCatchesUp
  PROVE  Handles(PayEvent) /\ Debited'
<1> USE DEF Books, StripeInductive
<1>1. /\ pc[PayEvent] = "catchup" /\ pc' = [pc EXCEPT ![PayEvent] = "cash"] /\ catchUp' = catchUp \cup cashRefund
      /\ UNCHANGED <<refundRow, cash, cashRefund, seen, booked, event, paid, refunded, dispute, spent, deaths>>
  BY DEF Stripe!DepositCatchesUp, PayEvent, Stripe!Overtaken, Stripe!Goto, Stripe!books, Stripe!stripe
<1>2. Handles(PayEvent)
  BY <1>1, EventNames DEF Handles, Places, Marked, OneHandler
<1>3. \A f \in Stripe!Events : /\ Delivered(f)' <=> Delivered(f)
                               /\ f # PayEvent => /\ event'[f] = event[f] /\ pc'[f] = pc[f] /\ (Done(f)' <=> Done(f))
                                                  /\ pc[f] = "idle"
  BY <1>2, HandlesKeeps, EventNames
<1>4. event[PayEvent] = "processing" /\ ~Done(PayEvent)'
  BY <1>1, EventNames DEF Marked, Done, OneHandler
<1>5. CashBooked'
  BY <1>1, <1>4 DEF Debited, CashBooked
<1>6. ASSUME NEW r \in Refunds PROVE DebitedOnce(r)'
  <2>1. DebitedOnce(r)
    BY DEF Debited
  <2>2. /\ pc[RefundEvent(r)] = "idle" /\ pc'[RefundEvent(r)] = "idle"
        /\ event'[RefundEvent(r)] = event[RefundEvent(r)]
        /\ Delivered(RefundEvent(r))' <=> Delivered(RefundEvent(r))
        /\ Done(RefundEvent(r))' <=> Done(RefundEvent(r))
    BY <1>3, EventNames
  <2>3. r \in cashRefund => event[RefundEvent(r)] = "processed"
    BY <1>4, <2>1, <2>2 DEF DebitedOnce, Ordered
  <2>4. refundRow[r] # 1
    BY <1>1, <2>1 DEF DebitedOnce
  <2>5. QED
    BY <1>1, <2>1, <2>2, <2>3, <2>4 DEF DebitedOnce
<1>7. QED
  BY <1>2, <1>5, <1>6 DEF Debited

LEMMA CashDebits ==
  ASSUME Books, Debited, Stripe!DepositBooksCash
  PROVE  Handles(PayEvent) /\ Debited'
<1> USE DEF Books, StripeInductive
<1>1. /\ pc[PayEvent] = "cash" /\ pc' = [pc EXCEPT ![PayEvent] = "ends"] /\ cash' = TRUE
      /\ UNCHANGED <<refundRow, catchUp, cashRefund, seen, booked, event, paid, refunded, dispute, spent, deaths>>
  BY DEF Stripe!DepositBooksCash, PayEvent, Stripe!Goto, Stripe!ledger, Stripe!stripe
<1>2. Handles(PayEvent)
  BY <1>1, EventNames DEF Handles, Places, Marked, OneHandler
<1>3. \A f \in Stripe!Events : f # PayEvent => event'[f] = event[f] /\ pc'[f] = pc[f]
  BY <1>2, HandlesKeeps, EventNames
<1>4. CashBooked'
  BY <1>1 DEF Debited, CashBooked
<1>5. pc'[PayEvent] # "catchup"
  BY <1>1, EventNames DEF OneHandler
<1>6. ASSUME NEW r \in Refunds PROVE DebitedOnce(r)'
  BY <1>1, <1>2, <1>3, <1>5, EventNames, DebitedKept, HandlesOnce DEF Debited
<1>7. QED
  BY <1>2, <1>4, <1>6 DEF Debited

\* A refund's handler leaves other refunds and the deposit alone.
LEMMA OneRefund ==
  ASSUME Books, Debited, NEW r \in Refunds, Handles(RefundEvent(r)), UNCHANGED <<booked, cash, catchUp>>,
         refundRow' \in [Refunds -> {0, 1}], cashRefund' \subseteq Refunds,
         \A s \in Refunds : s # r =>
           /\ refundRow'[s] = refundRow[s] /\ (s \in cashRefund' <=> s \in cashRefund)
           /\ seen'[RefundEvent(s)] = seen[RefundEvent(s)],
         pc'[PayEvent] = "idle" /\ pc[PayEvent] = "idle" => DebitedOnce(r)'
  PROVE  Debited'
<1> USE DEF Books, StripeInductive
<1>1. \A f \in Stripe!Events : f # RefundEvent(r) =>
        event'[f] = event[f] /\ pc'[f] = pc[f] /\ (Done(f)' <=> Done(f)) /\ pc[f] = "idle"
  BY HandlesKeeps, EventNames
<1>2. CashBooked'
  BY <1>1, EventNames DEF Debited, CashBooked
<1>3. ASSUME NEW s \in Refunds, s # r PROVE DebitedOnce(s)'
  BY <1>1, <1>3, EventNames, DebitedKept, HandlesOnce DEF Debited
<1>4. pc'[PayEvent] = "idle" /\ pc[PayEvent] = "idle"
  BY <1>1, EventNames
<1>5. QED
  BY <1>2, <1>3, <1>4 DEF Debited

LEMMA ReadsDebit ==
  ASSUME Books, Debited, NEW r \in Refunds, Stripe!RefundReads(r)
  PROVE  Handles(RefundEvent(r)) /\ Debited'
<1> USE DEF Books, StripeInductive
<1>1. /\ pc[RefundEvent(r)] = "reads" /\ pc' = [pc EXCEPT ![RefundEvent(r)] = "cash"]
      /\ seen' = [seen EXCEPT ![RefundEvent(r)].found = booked]
      /\ RefundsKept /\ UNCHANGED <<booked, event, paid, refunded, dispute, spent, deaths>>
  BY DEF Stripe!RefundReads, RefundEvent, Stripe!Goto, Stripe!ledger, Stripe!books, Stripe!stripe, RefundsKept
<1>2. Handles(RefundEvent(r)) /\ pc'[RefundEvent(r)] = "cash"
  BY <1>1, EventNames DEF Handles, Places, Marked, OneHandler
<1>3. seen'[RefundEvent(r)].found = booked /\ \A f \in Stripe!Events : f # RefundEvent(r) => seen'[f] = seen[f]
  BY <1>1, EventNames DEF ReadsHold
<1>4. DebitedOnce(r)
  BY DEF Debited
<1>5. event[RefundEvent(r)] = "processing" /\ (Done(RefundEvent(r))' <=> Done(RefundEvent(r)))
  BY <1>1, <1>2, EventNames DEF Marked, Done
<1>6. (pc'[PayEvent] = "idle" /\ pc[PayEvent] = "idle") => DebitedOnce(r)'
  BY <1>1, <1>2, <1>3, <1>4, <1>5, EventNames, HandlesOnce DEF DebitedOnce, Delivered, RefundsKept
<1>7. Debited'
  BY <1>1, <1>2, <1>3, <1>6, EventNames, OneRefund DEF Debited, CashBooked, RefundsKept
<1>8. QED
  BY <1>2, <1>7

LEMMA CashRefunds ==
  ASSUME Books, Debited, NEW r \in Refunds, Stripe!RefundBooksCash(r)
  PROVE  Handles(RefundEvent(r)) /\ Debited'
<1> USE DEF Books, StripeInductive
<1>1. /\ pc[RefundEvent(r)] = "cash"
      /\ pc' = [pc EXCEPT ![RefundEvent(r)] = IF seen[RefundEvent(r)].found THEN "holds" ELSE "ends"]
      /\ cashRefund' = cashRefund \cup {r}
      /\ UNCHANGED <<seen, refundRow, catchUp, cash, booked, event, paid, refunded, dispute, spent, deaths>>
  BY DEF Stripe!RefundBooksCash, RefundEvent, Stripe!Goto, Stripe!ledger, Stripe!stripe
<1>2. Handles(RefundEvent(r)) /\ pc'[RefundEvent(r)] \in {"holds", "ends"}
  BY <1>1, EventNames DEF Handles, Places, Marked, OneHandler
<1>3. DebitedOnce(r)
  BY DEF Debited
<1>4. (pc'[RefundEvent(r)] = "holds") <=> booked
  BY <1>1, <1>3, EventNames DEF DebitedOnce, OneHandler
<1>5. event[RefundEvent(r)] = "processing"
  BY <1>1, EventNames DEF Marked
<1>6. (pc'[PayEvent] = "idle" /\ pc[PayEvent] = "idle") => DebitedOnce(r)'
  BY <1>1, <1>2, <1>3, <1>4, <1>5, EventNames, HandlesOnce DEF DebitedOnce, Delivered, Done
<1>7. Debited'
  BY <1>1, <1>2, <1>6, EventNames, OneRefund DEF Debited, CashBooked
<1>8. QED
  BY <1>2, <1>7

LEMMA HoldsDebit ==
  ASSUME Books, Debited, NEW r \in Refunds, Stripe!RefundReadsHolds(r)
  PROVE  Handles(RefundEvent(r)) /\ Debited'
<1> USE DEF Books, StripeInductive
<1>1. /\ pc[RefundEvent(r)] = "holds" /\ pc' = [pc EXCEPT ![RefundEvent(r)] = "restores"]
      /\ \E h : seen' = [seen EXCEPT ![RefundEvent(r)].holds = h]
      /\ RefundsKept /\ UNCHANGED <<booked, event, paid, refunded, dispute, spent, deaths>>
  BY DEF Stripe!RefundReadsHolds, RefundEvent, Stripe!Goto, Stripe!ledger, Stripe!books, Stripe!stripe, RefundsKept
<1>2. Handles(RefundEvent(r)) /\ pc'[RefundEvent(r)] = "restores"
  BY <1>1, EventNames DEF Handles, Places, Marked, OneHandler
<1>3. \A f \in Stripe!Events : f # RefundEvent(r) => seen'[f] = seen[f]
  BY <1>1, EventNames DEF ReadsHold
<1>4. DebitedOnce(r)
  BY DEF Debited
<1>5. event[RefundEvent(r)] = "processing" /\ (Done(RefundEvent(r))' <=> Done(RefundEvent(r)))
  BY <1>1, <1>2, EventNames DEF Marked, Done
<1>6. (pc'[PayEvent] = "idle" /\ pc[PayEvent] = "idle") => DebitedOnce(r)'
  BY <1>1, <1>2, <1>4, <1>5, EventNames, HandlesOnce DEF DebitedOnce, Delivered, RefundsKept
<1>7. Debited'
  BY <1>1, <1>2, <1>3, <1>6, EventNames, OneRefund DEF Debited, CashBooked, RefundsKept
<1>8. QED
  BY <1>2, <1>7

LEMMA RestoresDebit ==
  ASSUME Books, Debited, NEW r \in Refunds, NEW h \in Stripe!Holds, Stripe!RefundRestores(r, h)
  PROVE  Debited'
<1> USE DEF Books, StripeInductive
<1>1. /\ seen' = [seen EXCEPT ![RefundEvent(r)].holds = @ \ {h}] /\ RefundsKept
      /\ UNCHANGED <<booked, event, pc, refunded, dispute, spent>>
  BY DEF Stripe!RefundRestores, RefundEvent, Stripe!books, Stripe!stripe, RefundsKept
<1>2. \A f \in Stripe!Events : seen'[f].found = seen[f].found
  BY <1>1, EventNames DEF ReadsHold
<1>3. CashBooked'
  BY <1>1 DEF Debited, CashBooked, RefundsKept, Done
<1>4. ASSUME NEW s \in Refunds PROVE DebitedOnce(s)'
  BY <1>1, <1>2, EventNames, DebitedKept, OnceBefore DEF Debited, RefundsKept
<1>5. QED
  BY <1>3, <1>4 DEF Debited

\* A refund leaves something of the deposit that it can be taken from.
LEMMA StillCredit ==
  ASSUME StripeUnits, Books, GivenOnce, booked, NEW r \in refunded
  PROVE  credit > 0
<1> USE DEF Books
<1>0. HoldsMatch
  BY DEF Froze
<1>1. Cardinality(Taken) <= Cardinality(Disputed) /\ Cardinality(Taken) \in Nat /\ Cardinality(Disputed) \in Nat
  BY <1>0, TakenCount, DisputedFinite, FS_Subset
<1>2. Cardinality(refunded) \in Nat /\ Cardinality(refunded) # 0
  BY FS_CardinalityType, FS_EmptySet DEF GivenBack
<1>3. QED
  BY <1>0, <1>1, <1>2 DEF GivenOnce, HoldsMatch, StripeUnits

LEMMA DebitsDebit ==
  ASSUME StripeUnits, Books, Debited, NEW r \in Refunds, Stripe!RefundDebits(r)
  PROVE  Handles(RefundEvent(r)) /\ Debited'
<1> USE DEF Books, StripeInductive
<1>1. /\ pc[RefundEvent(r)] = "restores" /\ pc' = [pc EXCEPT ![RefundEvent(r)] = "ends"]
      /\ refundRow' = [refundRow EXCEPT ![r] = IF refundRow[r] = 1 \/ credit > 0 THEN 1 ELSE 0]
      /\ UNCHANGED <<seen, catchUp, cash, cashRefund, booked, event, paid, refunded, dispute, spent, deaths>>
  BY DEF Stripe!RefundDebits, RefundEvent, Stripe!Goto, Stripe!books, Stripe!stripe
<1>2. Handles(RefundEvent(r)) /\ pc'[RefundEvent(r)] = "ends"
  BY <1>1, EventNames DEF Handles, Places, Marked, OneHandler
<1>3. DebitedOnce(r)
  BY DEF Debited
<1>4. event[RefundEvent(r)] = "processing"
  BY <1>1, EventNames DEF Marked
<1>5. booked /\ r \in refunded
  BY <1>1, <1>3, <1>4 DEF DebitedOnce, Marked, Delivered
<1>6. refundRow'[r] \in {0, 1} /\ (GivenOnce' => refundRow'[r] = 1)
  BY <1>1, <1>2, <1>5, EventNames, HandlesOnce, StillCredit DEF Debited, CashBooked
<1>7. (pc'[PayEvent] = "idle" /\ pc[PayEvent] = "idle") => DebitedOnce(r)'
  BY <1>1, <1>2, <1>3, <1>4, <1>5, <1>6 DEF DebitedOnce, Delivered, Done
<1>8. Debited'
  BY <1>1, <1>2, <1>7, EventNames, OneRefund DEF Debited, CashBooked
<1>9. QED
  BY <1>2, <1>8

BooksInductive == Books /\ Debited

LEMMA BooksInit == ASSUME Orderly, Stripe!Init PROVE BooksInductive
<1>1. StripeInductive
  BY StripeInit DEF Orderly
<1>2. \A e \in Stripe!Events : event[e] = "none" /\ pc[e] = "idle"
  BY DEF Stripe!Init
<1>3. Marked /\ Ordered
  BY <1>2, EventNames DEF Stripe!Init, Marked, Ordered, Delivered
<1>4. GivenBack
  BY FS_EmptySet DEF Stripe!Init, GivenBack
<1>5. booked = FALSE /\ cashLost = {} /\ restored = {} /\ \A h \in Stripe!Holds : hold[h] = "none"
  BY DEF Stripe!Init
<1>6. Froze
  BY <1>5, HoldNames DEF Froze, HoldsMatch
<1>7. CashBooked
  BY <1>2, EventNames DEF Stripe!Init, CashBooked, Done
<1>8. ASSUME NEW r \in Refunds PROVE DebitedOnce(r)
  <2>1. pc[RefundEvent(r)] = "idle" /\ ~Done(RefundEvent(r)) /\ refundRow[r] = 0 /\ cashRefund = {} /\ catchUp = {}
    BY <1>2, EventNames DEF Stripe!Init, Done
  <2>2. QED
    BY <2>1 DEF DebitedOnce
<1>9. QED
  BY <1>1, <1>3, <1>4, <1>6, <1>7, <1>8 DEF BooksInductive, Books, Debited

LEMMA GivenBackKept ==
  ASSUME GivenBack, UNCHANGED <<refunded, dispute>> PROVE GivenBack'
BY DEF GivenBack

\* A step of a handler that leaves the deposit's funds alone.
LEMMA FundsKeptBooks ==
  ASSUME Books, StripeInductive', FundsKept, NEW e \in Stripe!Events, Handles(e),
         Done(e)' => Done(e) \/ \A d \in Disputes : e # OpenEvent(d) /\ e # CloseEvent(d)
  PROVE  Books'
<1>1. Marked' /\ Ordered'
  BY HandlesKeeps DEF Books, StripeInductive
<1>2. GivenBack'
  BY GivenBackKept DEF Books, Handles
<1>3. Froze'
  BY HandlesFreezes
<1>4. QED
  BY <1>1, <1>2, <1>3 DEF Books

LEMMA StripeBooks ==
  ASSUME Orderly, BooksInductive, StripeInductive',
         \/ Stripe!Pays \/ Stripe!OwnerLeaves \/ UNCHANGED Stripe!vars
         \/ \E r \in Refunds : Stripe!IssuesRefund(r)
         \/ \E d \in Disputes : Stripe!OpensDispute(d) \/ \E o \in Outcomes : Stripe!ClosesDispute(d, o)
  PROVE  BooksInductive'
<1> USE DEF BooksInductive, Books
<1>0. StripeUnits
  BY DEF Orderly, OneAtATime
<1>1. AtStripe /\ GivenBack' /\ FundsKept /\ RefundsKept
  <2>1. CASE Stripe!Pays \/ Stripe!OwnerLeaves \/ UNCHANGED Stripe!vars
    <3>1. /\ UNCHANGED <<refunded, dispute, event, pc, deaths, seen>> /\ (paid => paid')
          /\ FundsKept /\ RefundsKept
      BY <2>1 DEF Stripe!Pays, Stripe!OwnerLeaves, Stripe!vars, Stripe!stripe, Stripe!ledger, Stripe!books,
                  FundsKept, RefundsKept
    <3>2. QED
      BY <3>1, GivenBackKept DEF AtStripe, FundsKept
  <2>2. ASSUME NEW r \in Refunds, Stripe!IssuesRefund(r) PROVE AtStripe /\ GivenBack' /\ FundsKept /\ RefundsKept
    <3>1. AtStripe /\ FundsKept /\ RefundsKept /\ refunded' = refunded \cup {r} /\ dispute' = dispute
      BY <2>2 DEF Stripe!IssuesRefund, AtStripe, Stripe!ledger, Stripe!books, FundsKept, RefundsKept
    <3>2. GivenBack'
      BY <3>1, FS_AddElement DEF GivenBack
    <3>3. QED
      BY <3>1, <3>2
  <2>3. ASSUME NEW d \in Disputes, NEW o \in Outcomes, Stripe!OpensDispute(d) \/ Stripe!ClosesDispute(d, o)
        PROVE  AtStripe /\ GivenBack' /\ FundsKept /\ RefundsKept
    BY <2>3 DEF Stripe!OpensDispute, Stripe!ClosesDispute, AtStripe, GivenBack, Outcomes, Stripe!ledger,
                Stripe!books, FundsKept, RefundsKept
  <2>4. QED
    BY <2>1, <2>2, <2>3 DEF Outcomes
<1>6. GivenOnce' => GivenOnce
  BY <1>0, <1>1, GivesMore
<1>2. Marked' /\ Ordered'
  BY <1>1, StripeKeeps
<1>3. Froze'
  BY <1>1, <1>6, FrozeKept DEF AtStripe, Delivered, Done, Outcomes
<1>4. Debited'
  BY <1>1, <1>6, DebitedKept DEF AtStripe, RefundsKept, FundsKept, Debited, CashBooked, Done
<1>5. QED
  BY <1>1, <1>2, <1>3, <1>4

LEMMA DisputeBooks ==
  ASSUME Orderly, BooksInductive, StripeInductive', NEW d \in Disputes,
         Stripe!DisputeFreezes(d) \/ Stripe!CloseFinds(d) \/ \E h \in Stripe!Of(d) : Stripe!CloseSettles(d, h)
  PROVE  BooksInductive'
<1> USE DEF BooksInductive, Books, StripeInductive
<1>0. StripeUnits
  BY DEF Orderly, OneAtATime
<1>1. PICK e \in {OpenEvent(d), CloseEvent(d)} : Handles(e) /\ Froze'
  BY <1>0, FreezesFreeze, FindsFreeze, SettlesFreeze
<1>2. e \in Stripe!Events /\ e # PayEvent /\ \A r \in Refunds : e # RefundEvent(r)
  BY EventNames
<1>3. Marked' /\ Ordered'
  BY <1>1, <1>2, HandlesKeeps
<1>4. GivenBack'
  BY <1>1, GivenBackKept DEF Handles
<1>5. RefundsKept /\ booked' = booked
  BY DEF Stripe!DisputeFreezes, Stripe!CloseFinds, Stripe!CloseSettles, Stripe!ledger, Stripe!books, RefundsKept
<1>6. seen' = seen \/ \E s : seen' = [seen EXCEPT ![CloseEvent(d)].holds = s]
  BY DEF Stripe!DisputeFreezes, Stripe!CloseFinds, Stripe!CloseSettles, CloseEvent
<1>7. \A r \in Refunds : seen'[RefundEvent(r)] = seen[RefundEvent(r)]
  BY <1>6, EventNames DEF ReadsHold
<1>8. Debited'
  BY <1>1, <1>2, <1>5, <1>7, OthersDebit
<1>9. QED
  BY <1>1, <1>3, <1>4, <1>8

LEMMA DepositBooks ==
  ASSUME Orderly, BooksInductive, StripeInductive',
         Stripe!DepositCredits \/ Stripe!DepositCatchesUp \/ Stripe!DepositBooksCash
  PROVE  BooksInductive'
<1> USE DEF BooksInductive
<1>0. StripeUnits
  BY DEF Orderly, OneAtATime
<1>1. CASE Stripe!DepositCredits
  <2>1. Handles(PayEvent) /\ Froze'
    BY <1>0, <1>1, CreditsFreeze
  <2>2. Debited'
    BY <1>1, <2>1, CreditsDebit
  <2>3. Marked' /\ Ordered' /\ GivenBack'
    BY <2>1, HandlesKeeps, GivenBackKept, EventNames DEF Books, StripeInductive, Handles
  <2>4. QED
    BY <2>1, <2>2, <2>3 DEF Books
<1>2. CASE Stripe!DepositCatchesUp \/ Stripe!DepositBooksCash
  <2>1. Handles(PayEvent) /\ Debited'
    BY <1>2, CatchesUpDebits, CashDebits
  <2>2. FundsKept
    BY <1>2 DEF Stripe!DepositCatchesUp, Stripe!DepositBooksCash, Stripe!ledger, Stripe!books, FundsKept
  <2>3. Books'
    BY <2>1, <2>2, FundsKeptBooks, EventNames
  <2>4. QED
    BY <2>1, <2>3
<1>3. QED
  BY <1>1, <1>2

LEMMA RefundBooks ==
  ASSUME Orderly, BooksInductive, StripeInductive', NEW r \in Refunds,
         \/ Stripe!RefundReads(r) \/ Stripe!RefundBooksCash(r) \/ Stripe!RefundReadsHolds(r)
         \/ Stripe!RefundDebits(r) \/ \E h \in Stripe!Holds : Stripe!RefundRestores(r, h)
  PROVE  BooksInductive'
<1> USE DEF BooksInductive
<1>0. StripeUnits
  BY DEF Orderly, OneAtATime
<1>1. ASSUME NEW h \in Stripe!Holds, Stripe!RefundRestores(r, h) PROVE BooksInductive'
  <2>1. Marked' /\ Ordered' /\ Froze'
    BY <1>0, <1>1, RestoresFreeze
  <2>2. GivenBack'
    BY <1>1, GivenBackKept DEF Books, Stripe!RefundRestores, Stripe!stripe
  <2>3. Debited'
    BY <1>1, RestoresDebit
  <2>4. QED
    BY <2>1, <2>2, <2>3 DEF Books
<1>2. CASE \/ Stripe!RefundReads(r) \/ Stripe!RefundBooksCash(r) \/ Stripe!RefundReadsHolds(r)
           \/ Stripe!RefundDebits(r)
  <2>1. Handles(RefundEvent(r)) /\ Debited'
    BY <1>0, <1>2, ReadsDebit, CashRefunds, HoldsDebit, DebitsDebit
  <2>2. FundsKept
    BY <1>2 DEF Stripe!RefundReads, Stripe!RefundBooksCash, Stripe!RefundReadsHolds, Stripe!RefundDebits,
                Stripe!ledger, Stripe!books, FundsKept
  <2>3. Books'
    BY <2>1, <2>2, FundsKeptBooks, EventNames
  <2>4. QED
    BY <2>1, <2>3
<1>3. QED
  BY <1>1, <1>2

LEMMA BooksStep ==
  ASSUME Orderly, BooksInductive, [Stripe!Next]_(Stripe!vars) PROVE BooksInductive'
<1> USE DEF BooksInductive
<1>0. StripeInductive'
  BY StripeStep DEF Books, Orderly
<1>1. ASSUME NEW e \in Stripe!Events, Stripe!Deliver(e) PROVE BooksInductive'
  <2>1. /\ Marked' /\ Ordered' /\ event[e] # "processed" /\ event'[e] = "processing" /\ pc'[e] # "ends"
        /\ \A f \in Stripe!Events : /\ pc[f] = "idle"
                                    /\ f # e => pc'[f] = "idle" /\ event'[f] = event[f]
    BY <1>1, DeliverKeeps DEF Books, StripeInductive
  <2>2. UNCHANGED <<refunded, dispute>> /\ FundsKept
    BY <1>1 DEF Stripe!Deliver, Stripe!stripe, Stripe!ledger, Stripe!books, FundsKept
  <2>3. \A f \in Stripe!Events : (Delivered(f) => Delivered(f)') /\ (Done(f)' => Done(f))
    BY <2>1 DEF Delivered, Done
  <2>4. GivenBack'
    BY <2>2, GivenBackKept DEF Books
  <2>5. Froze'
    BY <2>2, <2>3, FrozeKept, OnceBefore, EventNames DEF Books, FundsKept
  <2>6. Debited'
    BY <1>1, DeliverDebits DEF Books, StripeInductive
  <2>7. QED
    BY <1>0, <2>1, <2>4, <2>5, <2>6 DEF Books
<1>2. ASSUME NEW e \in Stripe!Events, Stripe!HandlerDies(e) \/ Stripe!Finishes(e) PROVE BooksInductive'
  <2>1. Handles(e) /\ Debited'
    BY <1>2, DiesDebits, FinishesDebits DEF Books, StripeInductive
  <2>2. FundsKept
    BY <1>2 DEF Stripe!HandlerDies, Stripe!Finishes, Stripe!ledger, Stripe!books, FundsKept
  <2>3. Done(e)' => Done(e)
    <3>1. CASE Stripe!HandlerDies(e)
      BY <3>1 DEF Stripe!HandlerDies, Done, Books, StripeInductive, OneHandler
    <3>2. CASE Stripe!Finishes(e)
      BY <3>2 DEF Stripe!Finishes, Done
    <3>3. QED
      BY <1>2, <3>1, <3>2
  <2>4. Books'
    BY <1>0, <2>1, <2>2, <2>3, FundsKeptBooks
  <2>5. QED
    BY <2>1, <2>4
<1>3. QED
  BY <1>0, <1>1, <1>2, StripeBooks, DisputeBooks, DepositBooks, RefundBooks DEF Stripe!Next, Outcomes

\* Once all is handled and nothing is reclaimed, what disputes hold is what is disputed,
\* what they took for good is what they were lost for, and every refund has one row on
\* either side.
LEMMA AllHandled ==
  ASSUME BooksInductive, Stripe!Settled, booked, ~Stripe!Superseded, GivenOnce,
         \A d \in Disputes : dispute[d] # "warned"
  PROVE  /\ Taken = Disputed
         /\ \A d \in Disputes : /\ Stripe!First(d) \in cashLost <=> dispute[d] = "lost"
                                /\ Stripe!First(d) \in restored <=> dispute[d] = "won"
         /\ \A h \in cashLost \cup restored : h \in Stripe!Holds /\ h = Stripe!First(h[1])
         /\ cash /\ cashRefund = refunded
         /\ refunded = catchUp \cup {r \in Refunds : refundRow[r] = 1}
         /\ catchUp \cap {r \in Refunds : refundRow[r] = 1} = {}
<1> USE DEF BooksInductive, Books
<1>0. HoldsMatch
  BY DEF Froze
<1>1. /\ paid => event[PayEvent] = "processed"
      /\ \A r \in Refunds : r \in refunded => event[RefundEvent(r)] = "processed"
      /\ \A d \in Disputes : /\ dispute[d] # "none" => event[OpenEvent(d)] = "processed"
                             /\ dispute[d] \in Outcomes => event[CloseEvent(d)] = "processed"
  <2>1. Stripe!Happened(PayEvent) <=> paid
    BY DEF PayEvent, Stripe!Deposited, Stripe!Happened
  <2>2. \A r \in Refunds : Stripe!Happened(RefundEvent(r)) <=> r \in refunded
    BY DEF RefundEvent, Stripe!Happened
  <2>3. \A d \in Disputes : Stripe!Happened(OpenEvent(d)) <=> dispute[d] # "none"
    BY DEF OpenEvent, Stripe!Happened
  <2>4. \A d \in Disputes : Stripe!Happened(CloseEvent(d)) <=> dispute[d] \in Outcomes
    BY DEF CloseEvent, Stripe!Happened, Outcomes
  <2>5. QED
    BY <2>1, <2>2, <2>3, <2>4, EventNames DEF Stripe!Settled
<1>2. event[PayEvent] = "processed" /\ pc[PayEvent] # "catchup"
  BY <1>0, <1>1, EventNames DEF HoldsMatch, Marked
<1>3. \A d \in Disputes :
        /\ dispute[d] # "none" => hold[Stripe!First(d)] \in {"held", "reversed"}
        /\ dispute[d] \in Outcomes => hold[Stripe!First(d)] = "reversed"
        /\ hold[Stripe!First(d)] # "none" => dispute[d] # "none"
  BY <1>0, <1>1, HoldNames DEF HoldsMatch, Done, Marked, StripeInductive, WithinDeposit, DepositRows
<1>4. \A h \in Stripe!Holds : hold[h] = "reversed" => h \in restored \cup cashLost
  BY DEF Stripe!Superseded
<1>5. cashLost \subseteq Stripe!Holds /\ restored \subseteq Stripe!Holds
  BY <1>0 DEF HoldsMatch, StripeInductive, WithinDeposit, DepositRows
<1>6. \A h \in cashLost \cup restored : h \in Stripe!Holds /\ h = Stripe!First(h[1])
  BY <1>0, <1>5 DEF HoldsMatch
<1>7. \A d \in Disputes :
        /\ Stripe!First(d) \in cashLost => dispute[d] = "lost"
        /\ Stripe!First(d) \in restored => dispute[d] = "won"
  BY <1>0, HoldNames DEF HoldsMatch
<1>8. \A d \in Disputes :
        /\ dispute[d] \in {"won", "lost"} => Stripe!First(d) \in cashLost \cup restored
        /\ dispute[d] = "open" => Stripe!First(d) \in Held \cup cashLost \cup restored
  BY <1>3, <1>4, HoldNames DEF Held, Outcomes
<1>9. \A d \in Disputes : /\ Stripe!First(d) \in cashLost <=> dispute[d] = "lost"
                          /\ Stripe!First(d) \in restored <=> dispute[d] = "won"
  BY <1>7, <1>8
<1>10. Taken = Disputed
  <2>1. \A d \in Disputes : Stripe!First(d) \in Held \cup restored \cup cashLost => dispute[d] # "none"
    BY <1>3, <1>9 DEF Held
  <2>2. \A d \in Disputes : dispute[d] # "none" => Stripe!First(d) \in Held \cup restored \cup cashLost
    BY <1>8 DEF GivenBack, Outcomes
  <2>3. QED
    BY <2>1, <2>2 DEF Taken, Disputed
<1>11. cash /\ cashRefund = refunded
  <2>1. cash
    BY <1>2 DEF Debited, CashBooked, Done
  <2>2. \A r \in Refunds : r \in refunded <=> r \in cashRefund
    BY <1>1 DEF Debited, DebitedOnce, Done, Marked
  <2>3. QED
    BY <2>1, <2>2 DEF Debited, CashBooked, GivenBack
<1>12. \A r \in Refunds : /\ r \in refunded <=> r \in catchUp \/ refundRow[r] = 1
                          /\ ~(r \in catchUp /\ refundRow[r] = 1)
  BY <1>1, <1>2 DEF Debited, DebitedOnce, Done, Marked, Delivered
<1>13. refunded \subseteq Refunds /\ catchUp \subseteq Refunds
  BY DEF GivenBack, Debited, CashBooked
<1>14. QED
  BY <1>6, <1>9, <1>10, <1>11, <1>12, <1>13

\* There are as many first holds as disputes.
LEMMA FirstCount ==
  ASSUME StripeUnits, NEW D \in SUBSET Disputes
  PROVE  Cardinality({Stripe!First(d) : d \in D}) = Cardinality(D)
<1>1. {Stripe!First(d) : d \in D} = D \X {0}
  BY DEF Stripe!First
<1>2. IsFiniteSet(D) /\ IsFiniteSet({0}) /\ Cardinality({0}) = 1
  BY FS_Subset, FS_Singleton DEF StripeUnits
<1>3. Cardinality(D \X {0}) = Cardinality(D) * 1 /\ Cardinality(D) \in Nat
  BY <1>2, FS_Product, FS_CardinalityType
<1>4. QED
  BY <1>1, <1>3

LEMMA AllSettled ==
  ASSUME StripeUnits, BooksInductive, Stripe!Settled, booked, ~Stripe!Superseded, ~Stripe!Reclaimed,
         \A d \in Disputes : dispute[d] # "warned"
  PROVE  /\ Stripe!Balance = Stripe!Left
         /\ cash /\ cashRefund = refunded
         /\ cashLost = {Stripe!First(d) : d \in {e \in Disputes : dispute[e] = "lost"}}
<1> DEFINE Won  == {d \in Disputes : dispute[d] = "won"}
           Rows == {r \in Refunds : refundRow[r] = 1}
<1>1. /\ GivenOnce /\ GivenBack
      /\ Stripe!Left = StripeDeposit - Cardinality(refunded) - Cardinality(Disputed)
                       + Cardinality(Stripe!Regained)
  BY ReclaimedIs DEF BooksInductive, Books
<1>2. /\ Taken = Disputed /\ cash /\ cashRefund = refunded
      /\ \A d \in Disputes : /\ Stripe!First(d) \in cashLost <=> dispute[d] = "lost"
                             /\ Stripe!First(d) \in restored <=> dispute[d] = "won"
      /\ \A h \in cashLost \cup restored : h \in Stripe!Holds /\ h = Stripe!First(h[1])
      /\ refunded = catchUp \cup Rows /\ catchUp \cap Rows = {}
  BY <1>1, AllHandled
<1>3. Stripe!Regained = Won
  BY DEF Stripe!Regained
<1>4. restored = {Stripe!First(d) : d \in Won}
  BY <1>2, HoldNames
<1>5. cashLost = {Stripe!First(d) : d \in {e \in Disputes : dispute[e] = "lost"}}
  BY <1>2, HoldNames
<1>6. Cardinality(restored) = Cardinality(Won)
  BY <1>4, FirstCount
<1>7. IsFiniteSet(catchUp) /\ IsFiniteSet(Rows)
  BY <1>1, <1>2, FS_Subset DEF GivenBack
<1>8. Cardinality(refunded) = Cardinality(catchUp) + Cardinality(Rows)
      /\ Cardinality(catchUp) \in Nat /\ Cardinality(Rows) \in Nat
  BY <1>2, <1>7, DisjointUnion, FS_CardinalityType
<1>9. credit = StripeDeposit - Cardinality(Disputed)
  BY <1>1, <1>2 DEF BooksInductive, Books, Froze, HoldsMatch
<1>10. restored \ spent = restored
  BY <1>1 DEF GivenOnce
<1>11. Stripe!Balance = credit + Cardinality(restored) - Cardinality(catchUp) - Cardinality(Rows)
  BY <1>10, StripeCount DEF Stripe!Balance
<1>12. Cardinality(Won) \in Nat /\ Cardinality(Disputed) \in Nat
  BY DisputedFinite, FS_Subset, FS_CardinalityType DEF StripeUnits
<1> HIDE DEF Won, Rows
<1>13. Stripe!Balance = Stripe!Left
  BY <1>1, <1>3, <1>6, <1>8, <1>9, <1>11, <1>12 DEF StripeUnits
<1>14. QED
  BY <1>2, <1>5, <1>13

\* In whatever order a deposit and its refunds come, or wherever their handlers die:
\* once every event is processed the advertiser has what was paid less what Stripe gave
\* back and what is in dispute, and the cash rows say what Stripe holds, unless a refund
\* superseded a dispute, a unit was given back twice or an inquiry was closed
\* (handlePaymentSuccess, handleRefund, handleDispute, handleDisputeClosed).
THEOREM BooksAlwaysSettle ==
  ASSUME "concurrent" \notin Faults, "disorder" \notin Faults,
         MaxDeaths \in Nat, "overtake" \in Faults => MaxDeaths = 0
  PROVE  Stripe!Spec => []BooksSettle
<1> Orderly /\ StripeUnits
  BY MoneyAssumption DEF Orderly, OneAtATime
<1>1. Stripe!Init => BooksInductive
  BY BooksInit
<1>2. BooksInductive /\ [Stripe!Next]_(Stripe!vars) => BooksInductive'
  BY BooksStep
<1>3. BooksInductive => BooksSettle
  BY AllSettled DEF BooksSettle, Stripe!BooksSettle
<1>4. QED
  BY <1>1, <1>2, <1>3, PTL DEF Stripe!Spec
-------------------------------------------------------------------------------
\* ---- a developer's earnings ----

LEMMA LeastRow ==
  ASSUME NEW S \in SUBSET Developer!Rows, S # {}, EarningsNames
  PROVE  Developer!Min(S) \in S
<1>1. S \in SUBSET Nat
  BY DEF Developer!Rows, EarningsNames
<1>2. PICK x \in S : \A y \in S : <<y, x>> \notin OpToRel(<, Nat)
  BY <1>1, NatLessThanWellFounded, WFMin
<1>3. \A y \in S : ~(y < x)
  BY <1>1, <1>2 DEF OpToRel
<1>4. \A y \in S : x <= y
  BY <1>1, <1>3
<1>5. QED
  BY <1>4 DEF Developer!Min

Columns == {"of", "status", "amount", "flag"}
Retired == {"paid", "reversed", "superseded"}

\* Rows are what they are; a row that does not exist has no credit.
Shaped ==
  /\ DOMAIN row = Developer!Rows
  /\ \A k \in Developer!Rows :
       /\ DOMAIN row[k] = Columns
       /\ row[k].status \in Developer!Unpaid \cup Retired \cup {"none"}
       /\ row[k].status = "none" => row[k].of = NoCredit

\* Requests and payouts are what they are too.
Recorded ==
  /\ DOMAIN job = Payouts /\ \A p \in Payouts : DOMAIN job[p] = {"step", "amount", "rows"}
  /\ DOMAIN payout = Payouts /\ \A p \in Payouts : DOMAIN payout[p] = {"status", "amount"}
  /\ DOMAIN alloc = Payouts

\* Some rows get a status, and keep their credit and their amount.
Rewritten(S, s) ==
  /\ DOMAIN row' = Developer!Rows
  /\ \A k \in Developer!Rows :
       IF k \in S THEN /\ DOMAIN row'[k] = Columns /\ row'[k].status = s
                       /\ row'[k].of = row[k].of /\ row'[k].amount = row[k].amount
                  ELSE row'[k] = row[k]

\* The same, as the transactions write it.
Rewriting(S, s, f) ==
  /\ DOMAIN row' = Developer!Rows
  /\ \A k \in Developer!Rows :
       row'[k] = IF k \in S THEN [row[k] EXCEPT !.status = s, !.flag = f] ELSE row[k]

LEMMA Rewrites ==
  ASSUME Shaped, NEW S, NEW s, NEW f, Rewriting(S, s, f)
  PROVE  Rewritten(S, s)
<1> USE DEF Rewriting
<1>1. ASSUME NEW k \in Developer!Rows, k \in S
      PROVE  /\ DOMAIN row'[k] = Columns /\ row'[k].status = s
             /\ row'[k].of = row[k].of /\ row'[k].amount = row[k].amount
  <2> DEFINE z == [row[k] EXCEPT !.status = s, !.flag = f]
  <2>1. row'[k] = z
    BY <1>1, Zenon
  <2>2. DOMAIN row[k] = Columns
    BY DEF Shaped
  <2>3. DOMAIN z = Columns /\ z.of = row[k].of /\ z.amount = row[k].amount /\ z.status = s
    BY <2>2 DEF Columns
  <2> HIDE DEF z
  <2>4. QED
    BY <2>1, <2>3
<1>2. ASSUME NEW k \in Developer!Rows, k \notin S PROVE row'[k] = row[k]
  BY <1>2, Zenon
<1>3. QED
  BY <1>1, <1>2 DEF Rewritten

\* Flags hold rows that are not paid and move them on, a reversal settles them and a
\* payout retires its own.
Loose == {k \in Developer!Rows : Developer!Unsettled(k)}

LEMMA FlagRewrites ==
  ASSUME Shaped, NEW f,
         \/ \E c : Developer!CreateFlag(f, c)
         \/ Developer!Dismiss(f) \/ Developer!Forfeit(f)
  PROVE  \E S \in SUBSET Loose, s \in Developer!Unpaid \cup {"reversed"} : Rewritten(S, s)
<1>1. CASE \E c : Developer!CreateFlag(f, c)
  <2> DEFINE S == {k \in Developer!Rows : row[k].status \in {"estimated", "confirmed"} /\ row[k].flag = NoFlag}
  <2>1. row' = [k \in Developer!Rows |-> Developer!Held(row[k], f)]
    BY <1>1 DEF Developer!CreateFlag
  <2>2. Rewriting(S, "held", f)
    BY <2>1, Zenon DEF Developer!Held, Rewriting
  <2>3. S \in SUBSET Loose
    BY DEF Loose, Developer!Unsettled, Developer!Unpaid
  <2> HIDE DEF S
  <2>4. Rewritten(S, "held")
    BY <2>2, Rewrites
  <2>5. QED
    BY <2>3, <2>4 DEF Developer!Unpaid
<1>2. CASE Developer!Dismiss(f) \/ Developer!Forfeit(f)
  <2> DEFINE S == {k \in Developer!Rows : row[k].status = "held" /\ row[k].flag = f}
  <2>1. PICK s \in {"confirmed", "reversed"} : Developer!MoveHeld(f, s)
    BY <1>2 DEF Developer!Dismiss, Developer!Forfeit
  <2>2. row' = [k \in Developer!Rows |-> Developer!Moved(row[k], f, s)]
    BY <2>1 DEF Developer!MoveHeld
  <2>3. Rewriting(S, s, NoFlag)
    BY <2>2, Zenon DEF Developer!Moved, Rewriting
  <2>4. S \in SUBSET Loose
    BY DEF Loose, Developer!Unsettled, Developer!Unpaid
  <2> HIDE DEF S
  <2>5. Rewritten(S, s)
    BY <2>3, Rewrites
  <2>6. QED
    BY <2>4, <2>5 DEF Developer!Unpaid
<1>3. QED
  BY <1>1, <1>2

LEMMA ReversalRewrites ==
  ASSUME Shaped, NEW c, NEW rows, NEW debts, Developer!Reversed(c, rows, debts)
  PROVE  Rewritten(Loose \cap rows, "reversed")
<1> DEFINE S == Loose \cap rows
<1>1. row' = [k \in Developer!Rows |-> IF k \in rows /\ Developer!Unsettled(k)
                                       THEN Developer!Withdrawn(row[k]) ELSE row[k]]
  BY DEF Developer!Reversed
<1>2. Rewriting(S, "reversed", NoFlag)
  BY <1>1, Zenon DEF Developer!Withdrawn, Loose, Rewriting
<1> HIDE DEF S
<1>3. Rewritten(S, "reversed")
  BY <1>2, Rewrites
<1>4. QED
  BY <1>3 DEF S

LEMMA SettleRewrites ==
  ASSUME Shaped, NEW p \in Payouts, Developer!Settle(p)
  PROVE  /\ Rewritten(Developer!Allocated(p), "paid")
         /\ \A k \in Developer!Allocated(p) : row[k].status \in Developer!Unpaid \cup {"paid"}
<1>1. row' = [k \in Developer!Rows |-> IF k \in Developer!Allocated(p)
                                       THEN [row[k] EXCEPT !.status = "paid", !.flag = NoFlag] ELSE row[k]]
  BY Zenon DEF Developer!Settle
<1> DEFINE S == Developer!Allocated(p)
<1>2. \A k \in S : row[k].status \in Developer!Unpaid \cup {"paid"}
  BY DEF Developer!Settle, Developer!Payable, Developer!Unpaid
<1> HIDE DEF S
<1>3. Rewriting(S, "paid", NoFlag)
  BY <1>1, Zenon DEF S, Rewriting
<1>4. Rewritten(S, "paid")
  BY <1>3, Rewrites
<1>5. QED
  BY <1>2, <1>4 DEF S

\* A part of a row is a row like it.
LEMMA PartOf ==
  ASSUME Shaped, NEW k \in Developer!Rows, NEW a
  PROVE  /\ DOMAIN Developer!Slice(k, a) = Columns
         /\ Developer!Slice(k, a).of = row[k].of /\ Developer!Slice(k, a).amount = a
         /\ Developer!Slice(k, a).status = "confirmed"
<1>1. DOMAIN row[k] = Columns
  BY DEF Shaped
<1>2. QED
  BY <1>1 DEF Columns, Developer!Slice

\* A split cuts one of the rows that were read, and gives its remainder a new row.
SplitOf(p, k, m) ==
  LET y == [row[k] EXCEPT !.amount = Developer!Taken(p, k), !.status = "confirmed"]
  IN /\ k \in Developer!Cut(p) /\ k \in job[p].rows
     /\ m \in Developer!Fresh /\ k # m
     /\ DOMAIN y = Columns /\ y.of = row[k].of /\ y.amount = Developer!Taken(p, k)
     /\ y.status = "confirmed"
     /\ DOMAIN row' = Developer!Rows
     /\ \A j \in Developer!Rows :
          row'[j] = IF j = m THEN Developer!Slice(k, row[k].amount - Developer!Taken(p, k))
                    ELSE IF j = k THEN y ELSE row[j]

LEMMA SplitShape ==
  ASSUME EarningsNames, Shaped, NEW p \in Payouts, \A k \in job[p].rows : row[k].status # "none",
         Developer!Cut(p) # {}, Developer!Fresh # {}, row' = Developer!SplitRows(p)
  PROVE  \E k, m : SplitOf(p, k, m)
<1> DEFINE k == CHOOSE j \in Developer!Cut(p) : TRUE
           m == Developer!Min(Developer!Fresh)
           x == [row[k] EXCEPT !.amount = Developer!Taken(p, k)]
           y == [row[k] EXCEPT !.amount = Developer!Taken(p, k), !.status = "confirmed"]
           z == [row[k] EXCEPT !.amount = row[k].amount - Developer!Taken(p, k), !.status = "confirmed", !.flag = NoFlag]
<1>1. k \in Developer!Cut(p) /\ k \in Developer!Rows /\ k \in job[p].rows /\ row[k].status # "none"
  <2>1. k \in Developer!Cut(p)
    OBVIOUS
  <2> HIDE DEF k
  <2>2. k \in Developer!Rows /\ Developer!Taken(p, k) > 0
    BY <2>1 DEF Developer!Cut
  <2>3. k \in job[p].rows
    BY <2>2 DEF Developer!Taken
  <2>4. QED
    BY <2>1, <2>2, <2>3
<1>2. m \in Developer!Fresh /\ m \in Developer!Rows /\ row[m].status = "none"
  <2>1. m \in Developer!Fresh
    BY LeastRow DEF Developer!Fresh
  <2> HIDE DEF m
  <2>2. QED
    BY <2>1 DEF Developer!Fresh
<1>3. row' = [row EXCEPT ![k].amount = Developer!Taken(p, k), ![k].status = "confirmed", ![m] = z]
  BY Zenon DEF Developer!SplitRows
<1>4. DOMAIN y = Columns /\ y.of = row[k].of /\ y.status = "confirmed" /\ y.amount = Developer!Taken(p, k)
  <2>1. DOMAIN row[k] = Columns
    BY <1>1 DEF Shaped
  <2> HIDE DEF k
  <2>2. QED
    BY <2>1 DEF Columns
<1>5. /\ DOMAIN row' = Developer!Rows
      /\ \A j \in Developer!Rows : row'[j] = IF j = m THEN z ELSE IF j = k THEN y ELSE row[j]
  <2> HIDE DEF k, m, z
  <2> DEFINE first == [row EXCEPT ![k] = x]
             second == [first EXCEPT ![k] = y]
  <2>1. row' = [second EXCEPT ![m] = z]
    BY <1>1, <1>3 DEF Shaped
  <2> HIDE DEF x, y
  <2>2. QED
    BY <1>1, <1>2, <2>1 DEF Shaped
<1>6. z = Developer!Slice(k, row[k].amount - Developer!Taken(p, k))
  BY Zenon DEF Developer!Slice
<1>7. k # m
  BY <1>1, <1>2
<1> HIDE DEF k, m, z
<1>8. SplitOf(p, k, m)
  BY <1>1, <1>2, <1>4, <1>5, <1>6, <1>7 DEF SplitOf
<1>9. QED
  BY <1>8

\* A trim supersedes one of the allocated rows by a slice and a remainder, both new.
TrimOf(p, k, s, r) ==
  LET x == [row[k] EXCEPT !.status = "superseded"]
  IN /\ k \in Developer!Trimmed(p) /\ row[k].status = "confirmed"
     /\ s \in Developer!Fresh /\ r \in Developer!Fresh /\ s # r /\ k \notin {s, r}
     /\ DOMAIN x = Columns /\ x.of = row[k].of /\ x.amount = row[k].amount
     /\ x.status = "superseded"
     /\ DOMAIN row' = Developer!Rows
     /\ \A j \in Developer!Rows :
          row'[j] = IF j = r THEN Developer!Slice(k, row[k].amount - Developer!Kept(p, k))
                    ELSE IF j = s THEN Developer!Slice(k, Developer!Kept(p, k))
                    ELSE IF j = k THEN x ELSE row[j]

LEMMA TrimShape ==
  ASSUME EarningsNames, Shaped, NEW p \in Payouts, Developer!Claimable(p),
         Developer!Trimmed(p) # {}, Developer!Cardinality(Developer!Fresh) >= 2,
         row' = Developer!TrimmedRows(p)
  PROVE  \E r : TrimOf(p, CHOOSE j \in Developer!Trimmed(p) : TRUE,
                       Developer!Min(Developer!Fresh), r)
<1> DEFINE k == CHOOSE j \in Developer!Trimmed(p) : TRUE
           s == Developer!Min(Developer!Fresh)
           r == Developer!Min(Developer!Fresh \ {s})
           x == [row[k] EXCEPT !.status = "superseded"]
           y == Developer!Slice(k, Developer!Kept(p, k))
           z == Developer!Slice(k, row[k].amount - Developer!Kept(p, k))
<1>1. k \in Developer!Trimmed(p) /\ k \in Developer!Rows /\ row[k].status = "confirmed"
  <2>1. k \in Developer!Trimmed(p)
    OBVIOUS
  <2> HIDE DEF k
  <2>2. QED
    BY <2>1 DEF Developer!Trimmed, Developer!Allocated, Developer!Claimable
<1>2. s \in Developer!Rows /\ row[s].status = "none" /\ r \in Developer!Rows /\ row[r].status = "none" /\ s # r
  <2>1. Developer!Fresh # {} /\ \A v : Developer!Fresh # {v}
    <3>1. Developer!Cardinality(Developer!Fresh) = Cardinality(Developer!Fresh)
      BY DEF Developer!Cardinality, Cardinality
    <3>2. Cardinality({}) = 0
      BY FS_EmptySet
    <3>3. \A v : Cardinality({v}) = 1
      BY FS_Singleton
    <3>4. Cardinality(Developer!Fresh) >= 2
      BY <3>1
    <3>5. ASSUME Developer!Fresh = {} PROVE FALSE
      <4>1. Cardinality(Developer!Fresh) = 0
        BY <3>2, <3>5
      <4>2. QED
        BY <3>4, <4>1
    <3>6. ASSUME NEW v, Developer!Fresh = {v} PROVE FALSE
      <4>1. Cardinality(Developer!Fresh) = 1
        BY <3>3, <3>6
      <4>2. QED
        BY <3>4, <4>1
    <3>7. QED
      BY <3>5, <3>6
  <2>2. s \in Developer!Fresh
    BY <2>1, LeastRow DEF Developer!Fresh
  <2> HIDE DEF s
  <2>3. Developer!Fresh \ {s} # {}
    BY <2>1, <2>2
  <2>4. r \in Developer!Fresh \ {s}
    BY <2>3, LeastRow DEF Developer!Fresh
  <2> HIDE DEF r
  <2>5. QED
    BY <2>2, <2>4 DEF Developer!Fresh
<1>3. row' = [row EXCEPT ![k].status = "superseded", ![s] = y, ![r] = z]
  BY Zenon DEF Developer!TrimmedRows
<1>4. DOMAIN x = Columns /\ x.of = row[k].of /\ x.status = "superseded" /\ x.amount = row[k].amount
  <2>1. DOMAIN row[k] = Columns
    BY <1>1 DEF Shaped
  <2> HIDE DEF k
  <2>2. QED
    BY <2>1 DEF Columns
<1> HIDE DEF s, r, k, y, z
<1>5. /\ DOMAIN row' = Developer!Rows
      /\ \A j \in Developer!Rows :
           row'[j] = IF j = r THEN z ELSE IF j = s THEN y ELSE IF j = k THEN x ELSE row[j]
  <2> DEFINE first == [row EXCEPT ![k] = x]
  <2>1. row' = [first EXCEPT ![s] = y, ![r] = z]
    BY <1>3
  <2> HIDE DEF x
  <2>2. QED
    BY <1>1, <1>2, <2>1 DEF Shaped
<1>6. s \in Developer!Fresh /\ r \in Developer!Fresh /\ k \notin {s, r}
  BY <1>1, <1>2 DEF Developer!Fresh
<1>7. TrimOf(p, k, s, r)
  BY <1>1, <1>2, <1>4, <1>5, <1>6 DEF TrimOf, y, z
<1>8. QED
  BY <1>7 DEF k, s

-------------------------------------------------------------------------------
\* ---- the rows, whatever comes between a report's scan and its commit ----

\* What a request has read is there when it commits, if reversed meanwhile.
Standing == {k \in Developer!Rows : row[k].status \notin {"none", "superseded"}}
Snapshots == \A p \in Payouts : job[p].step = "read" => lock = p /\ job[p].rows \subseteq Standing

LedgerFrame == Shaped /\ Recorded /\ Snapshots

\* A row is left as it was, or live or settled; only a claim supersedes one.
Leaves(k) ==
  \/ row'[k] = row[k]
  \/ DOMAIN row'[k] = Columns /\ row'[k].status \in Developer!Unpaid \cup {"paid", "reversed"}
Supersedes(k) == DOMAIN row'[k] = Columns /\ row'[k].status = "superseded"

LEMMA RowsShaped ==
  ASSUME Shaped, DOMAIN row' = Developer!Rows, \A k \in Developer!Rows : Leaves(k) \/ Supersedes(k)
  PROVE  Shaped'
<1>1. ASSUME NEW k \in Developer!Rows
      PROVE  /\ DOMAIN row'[k] = Columns
             /\ row'[k].status \in Developer!Unpaid \cup Retired \cup {"none"}
             /\ row'[k].status = "none" => row'[k].of = NoCredit
  BY DEF Shaped, Leaves, Supersedes, Developer!Unpaid, Retired
<1>2. QED
  BY <1>1 DEF Shaped, Developer!Rows

LEMMA RowsStand ==
  ASSUME NEW S \in SUBSET Standing, \A k \in Developer!Rows : Leaves(k)
  PROVE  S \in SUBSET Standing'
<1>1. SUFFICES ASSUME NEW k \in S PROVE k \in Standing'
  OBVIOUS
<1>2. k \in Developer!Rows /\ row[k].status \notin {"none", "superseded"}
  BY DEF Standing
<1>3. row'[k].status \notin {"none", "superseded"}
  BY <1>2 DEF Leaves, Developer!Unpaid
<1>4. QED
  BY <1>2, <1>3 DEF Standing, Developer!Rows

\* The rows, payouts and allocations change, and every request goes on.
LEMMA FrameStays ==
  ASSUME EarningsNames, LedgerFrame, UNCHANGED <<job, lock>>, DOMAIN row' = Developer!Rows,
         \A k \in Developer!Rows : Leaves(k) \/ (lock = NoPayout /\ Supersedes(k)),
         DOMAIN payout' = Payouts, \A p \in Payouts : DOMAIN payout'[p] = {"status", "amount"},
         DOMAIN alloc' = Payouts
  PROVE  LedgerFrame'
<1>1. Shaped'
  BY RowsShaped DEF LedgerFrame
<1>2. Recorded'
  BY DEF LedgerFrame, Recorded
<1>3. Snapshots'
  <2>1. SUFFICES ASSUME NEW p \in Payouts, job[p].step = "read"
                 PROVE  lock = p /\ job[p].rows \subseteq Standing'
    BY DEF Snapshots
  <2>2. lock = p /\ lock # NoPayout /\ job[p].rows \subseteq Standing
    BY <2>1 DEF LedgerFrame, Snapshots, EarningsNames
  <2>3. \A k \in Developer!Rows : Leaves(k)
    BY <2>2
  <2>4. QED
    BY <2>2, <2>3, RowsStand
<1>4. QED
  BY <1>1, <1>2, <1>3 DEF LedgerFrame

\* Only rows change, and none is superseded.
LEMMA FrameLeaves ==
  ASSUME EarningsNames, LedgerFrame, UNCHANGED <<payout, alloc, job, lock>>,
         DOMAIN row' = Developer!Rows, \A k \in Developer!Rows : Leaves(k)
  PROVE  LedgerFrame'
BY FrameStays DEF LedgerFrame, Recorded

LEMMA RewritesLeave ==
  ASSUME NEW S, NEW s \in Developer!Unpaid \cup {"paid", "reversed"}, Rewritten(S, s)
  PROVE  DOMAIN row' = Developer!Rows /\ \A k \in Developer!Rows : Leaves(k)
BY DEF Rewritten, Leaves

\* A row that is written over.
LEMMA WritesOne ==
  ASSUME Shaped, NEW m, NEW z, DOMAIN z = Columns, z.status \in Developer!Unpaid, row' = [row EXCEPT ![m] = z]
  PROVE  DOMAIN row' = Developer!Rows /\ \A k \in Developer!Rows : Leaves(k)
<1>1. DOMAIN row' = Developer!Rows /\ \A k \in Developer!Rows : row'[k] = IF k = m THEN z ELSE row[k]
  BY DEF Shaped
<1>2. QED
  BY <1>1 DEF Leaves

LEMMA EarnsFrame ==
  ASSUME EarningsNames, LedgerFrame,
         \/ \E c \in Credits : Developer!Earn(c)
         \/ \E k \in Developer!Rows : Developer!Mature(k)
  PROVE  LedgerFrame'
<1>1. Shaped /\ UNCHANGED <<payout, alloc, job, lock>>
  BY DEF LedgerFrame, Developer!Earn, Developer!Mature
<1>2. CASE \E c \in Credits : Developer!Earn(c)
  <2>1. PICK c \in Credits : Developer!Earn(c)
    BY <1>2
  <2> DEFINE m == Developer!Min(Developer!Fresh)
             z == [of |-> c, status |-> "estimated", amount |-> Share[c], flag |-> NoFlag]
  <2>2. row' = [row EXCEPT ![m] = z]
    BY <2>1 DEF Developer!Earn
  <2>3. DOMAIN z = Columns /\ z.status \in Developer!Unpaid
    BY DEF Columns, Developer!Unpaid
  <2> HIDE DEF m, z
  <2>4. QED
    BY <1>1, <2>2, <2>3, WritesOne, FrameLeaves
<1>3. CASE \E k \in Developer!Rows : Developer!Mature(k)
  <2>1. PICK k \in Developer!Rows : Developer!Mature(k)
    BY <1>3
  <2> DEFINE z == [row[k] EXCEPT !.status = "confirmed"]
  <2>2. row' = [row EXCEPT ![k] = z]
    BY <2>1 DEF Developer!Mature
  <2>3. DOMAIN z = Columns /\ z.status \in Developer!Unpaid
    <3>1. DOMAIN row[k] = Columns
      BY <1>1, <2>1 DEF Shaped
    <3>2. QED
      BY <3>1 DEF Columns, Developer!Unpaid
  <2> HIDE DEF z
  <2>4. QED
    BY <1>1, <2>2, <2>3, WritesOne, FrameLeaves
<1>4. QED
  BY <1>2, <1>3

\* A request goes on, over rows that nobody has changed.
LEMMA RequestsFrame ==
  ASSUME EarningsNames, LedgerFrame, NEW p \in Payouts,
         \/ \E a \in Developer!Amounts : Developer!RequestChecks(p, a)
         \/ \E chosen \in SUBSET Developer!Eligible : Developer!RequestReads(p, chosen)
  PROVE  LedgerFrame'
<1>1. UNCHANGED <<row, payout, alloc>>
  BY DEF Developer!RequestChecks, Developer!RequestReads
<1>2. Shaped' /\ Standing' = Standing
  BY <1>1 DEF LedgerFrame, Shaped, Standing, Developer!Rows, Developer!Unpaid
<1>3. DOMAIN job = Payouts /\ \A q \in Payouts : DOMAIN job[q] = {"step", "amount", "rows"}
  BY DEF LedgerFrame, Recorded
<1>4. \E j : /\ job' = [job EXCEPT ![p] = j] /\ DOMAIN j = {"step", "amount", "rows"}
             /\ \/ j.step # "read" /\ UNCHANGED lock
                \/ lock = NoPayout /\ lock' = p /\ j.rows \subseteq Standing
  <2>1. CASE \E a \in Developer!Amounts : Developer!RequestChecks(p, a)
    <3>1. PICK a \in Developer!Amounts : Developer!RequestChecks(p, a)
      BY <2>1
    <3> DEFINE j == [job[p] EXCEPT !.step = "checked", !.amount = a]
    <3>2. job' = [job EXCEPT ![p] = j] /\ UNCHANGED lock
      BY <3>1 DEF Developer!RequestChecks
    <3>3. DOMAIN j = {"step", "amount", "rows"} /\ j.step = "checked"
      BY <1>3
    <3> HIDE DEF j
    <3>4. QED
      BY <3>2, <3>3
  <2>2. CASE \E chosen \in SUBSET Developer!Eligible : Developer!RequestReads(p, chosen)
    <3>1. PICK chosen \in SUBSET Developer!Eligible : Developer!RequestReads(p, chosen)
      BY <2>2
    <3>2. CASE job' = [job EXCEPT ![p] = Developer!NoJob] /\ UNCHANGED lock
      <4>1. DOMAIN Developer!NoJob = {"step", "amount", "rows"} /\ Developer!NoJob.step = "idle"
        BY DEF Developer!NoJob
      <4>2. QED
        BY <3>2, <4>1
    <3>3. CASE job' = [job EXCEPT ![p].step = "read", ![p].rows = chosen] /\ lock' = p
      <4> DEFINE j == [job[p] EXCEPT !.step = "read", !.rows = chosen]
      <4>1. job' = [job EXCEPT ![p] = j] /\ lock = NoPayout /\ lock' = p
        BY <3>1, <3>3 DEF Developer!RequestReads
      <4>2. DOMAIN j = {"step", "amount", "rows"} /\ j.rows = chosen
        BY <1>3
      <4>3. chosen \subseteq Standing
        BY DEF Standing, Developer!Eligible, Developer!Having
      <4> HIDE DEF j
      <4>4. QED
        BY <4>1, <4>2, <4>3
    <3>4. QED
      BY <3>1, <3>2, <3>3 DEF Developer!RequestReads
  <2>3. QED
    BY <2>1, <2>2
<1>5. PICK j : /\ job' = [job EXCEPT ![p] = j] /\ DOMAIN j = {"step", "amount", "rows"}
               /\ \/ j.step # "read" /\ UNCHANGED lock
                  \/ lock = NoPayout /\ lock' = p /\ j.rows \subseteq Standing
  BY <1>4
<1>6. \A q \in Payouts : job'[q] = IF q = p THEN j ELSE job[q]
  BY <1>3, <1>5
<1>7. Recorded'
  BY <1>1, <1>3, <1>5, <1>6 DEF LedgerFrame, Recorded
<1>8. Snapshots'
  <2>1. SUFFICES ASSUME NEW q \in Payouts, job'[q].step = "read"
                 PROVE  lock' = q /\ job'[q].rows \subseteq Standing
    BY <1>2 DEF Snapshots
  <2>2. CASE q = p
    <3>1. CASE j.step # "read"
      BY <1>6, <2>1, <2>2, <3>1
    <3>2. CASE lock = NoPayout /\ lock' = p /\ j.rows \subseteq Standing
      BY <1>6, <2>2, <3>2
    <3>3. QED
      BY <1>5, <3>1, <3>2
  <2>3. CASE q # p
    <3>1. lock = q /\ lock # NoPayout /\ job[q].rows \subseteq Standing
      BY <1>6, <2>1, <2>3 DEF LedgerFrame, Snapshots, EarningsNames
    <3>2. QED
      BY <1>5, <1>6, <2>3, <3>1
  <2>4. QED
    BY <2>2, <2>3
<1>9. QED
  BY <1>2, <1>7, <1>8 DEF LedgerFrame

\* A commit frees the lock, and no other request had read anything.
LEMMA CommitsFrame ==
  ASSUME EarningsNames, LedgerFrame, NEW p \in Payouts,
         Developer!RequestCommits(p) \/ Developer!RequestAborts(p)
  PROVE  LedgerFrame'
<1>1. /\ job[p].step = "read" /\ lock' = NoPayout /\ job' = [job EXCEPT ![p] = Developer!NoJob]
      /\ \/ UNCHANGED row
         \/ row' = Developer!SplitRows(p) /\ (Developer!Cut(p) # {} => Developer!Fresh # {})
  BY DEF Developer!RequestCommits, Developer!RequestAborts
<1>2. lock = p /\ \A k \in job[p].rows : row[k].status # "none"
  BY <1>1 DEF LedgerFrame, Snapshots, Standing
<1>3. Shaped
  BY DEF LedgerFrame
<1>4. DOMAIN row' = Developer!Rows /\ \A k \in Developer!Rows : Leaves(k)
  <2>1. CASE row' = row
    BY <1>3, <2>1 DEF Leaves, Shaped
  <2>2. CASE row' = Developer!SplitRows(p) /\ Developer!Cut(p) # {}
    <3>0. Developer!Fresh # {} \/ UNCHANGED row
      BY <1>1, <2>2
    <3>1. CASE UNCHANGED row
      BY <2>1, <3>1
    <3>2. CASE Developer!Fresh # {}
      <4>1. PICK k, m : SplitOf(p, k, m)
        BY <1>2, <1>3, <2>2, <3>2, SplitShape
      <4> DEFINE y == [row[k] EXCEPT !.amount = Developer!Taken(p, k), !.status = "confirmed"]
                 z == Developer!Slice(k, row[k].amount - Developer!Taken(p, k))
      <4>2. DOMAIN z = Columns /\ z.status = "confirmed"
        <5>1. k \in Developer!Rows
          BY <4>1 DEF SplitOf, Developer!Cut
        <5>2. QED
          BY <1>3, <5>1, PartOf
      <4>3. /\ DOMAIN y = Columns /\ y.status = "confirmed" /\ DOMAIN row' = Developer!Rows
            /\ \A j \in Developer!Rows : row'[j] = IF j = m THEN z ELSE IF j = k THEN y ELSE row[j]
        BY <4>1 DEF SplitOf
      <4> HIDE DEF y, z
      <4>4. QED
        BY <4>2, <4>3 DEF Leaves, Developer!Unpaid
    <3>3. QED
      BY <3>0, <3>1, <3>2
  <2>3. QED
    BY <1>1, <2>1, <2>2 DEF Developer!SplitRows
<1>5. Shaped'
  BY <1>3, <1>4, RowsShaped
<1>6. DOMAIN Developer!NoJob = {"step", "amount", "rows"} /\ Developer!NoJob.step = "idle"
  BY DEF Developer!NoJob
<1>7. DOMAIN job = Payouts /\ \A q \in Payouts : q # p => job[q].step # "read"
  BY <1>2 DEF LedgerFrame, Snapshots, Recorded
<1>8. \A q \in Payouts : job'[q] = IF q = p THEN Developer!NoJob ELSE job[q]
  BY <1>1, <1>7
<1>9. Recorded'
  <2>1. /\ DOMAIN payout' = Payouts /\ \A q \in Payouts : DOMAIN payout'[q] = {"status", "amount"}
        /\ DOMAIN alloc' = Payouts
    BY DEF Developer!RequestCommits, Developer!RequestAborts, LedgerFrame, Recorded
  <2>2. QED
    BY <1>1, <1>6, <1>8, <2>1 DEF LedgerFrame, Recorded
<1>10. Snapshots'
  BY <1>6, <1>7, <1>8 DEF Snapshots
<1>11. QED
  BY <1>5, <1>9, <1>10 DEF LedgerFrame

\* Payouts are approved, claimed, paid and given up.
LEMMA PayoutsFrame ==
  ASSUME EarningsNames, LedgerFrame, NEW p \in Payouts,
         \/ Developer!Release(p) \/ Developer!ProcessClaims(p) \/ Developer!Settle(p)
         \/ \E a \in Developer!Amounts : Developer!Approve(p, a)
  PROVE  LedgerFrame'
<1>1. Shaped /\ UNCHANGED <<job, lock>>
  BY DEF LedgerFrame, Developer!Release, Developer!ProcessClaims, Developer!Settle, Developer!Approve
<1>2. /\ DOMAIN payout' = Payouts /\ \A q \in Payouts : DOMAIN payout'[q] = {"status", "amount"}
      /\ DOMAIN alloc' = Payouts
  <2>1. /\ DOMAIN payout = Payouts /\ \A q \in Payouts : DOMAIN payout[q] = {"status", "amount"}
        /\ DOMAIN alloc = Payouts
    BY DEF LedgerFrame, Recorded
  <2>2. (UNCHANGED alloc \/ \E w : alloc' = [alloc EXCEPT ![p] = w])
        /\ (\/ \E s : payout' = [payout EXCEPT ![p].status = s]
            \/ \E a : payout' = [payout EXCEPT ![p] = [status |-> "approved", amount |-> a]])
    BY DEF Developer!Release, Developer!ProcessClaims, Developer!Settle, Developer!Approve
  <2>3. DOMAIN alloc' = Payouts
    BY <2>1, <2>2
  <2>4. QED
    BY <2>1, <2>2, <2>3
<1>3. /\ DOMAIN row' = Developer!Rows
      /\ \A k \in Developer!Rows : Leaves(k) \/ (lock = NoPayout /\ Supersedes(k))
  <2>1. CASE UNCHANGED row
    BY <1>1, <2>1 DEF Leaves, Shaped
  <2>2. CASE Developer!Settle(p)
    <3>1. Rewritten(Developer!Allocated(p), "paid")
      BY <1>1, <2>2, SettleRewrites
    <3>2. QED
      BY <3>1, RewritesLeave
  <2>3. CASE Developer!ProcessClaims(p) /\ Developer!Trimmed(p) = {}
    BY <2>1, <2>3 DEF Developer!ProcessClaims, Developer!TrimmedRows
  <2>4. CASE Developer!ProcessClaims(p) /\ Developer!Trimmed(p) # {}
    <3>1. /\ lock = NoPayout /\ Developer!Claimable(p) /\ row' = Developer!TrimmedRows(p)
          /\ Developer!Cardinality(Developer!Fresh) >= 2
      BY <2>4 DEF Developer!ProcessClaims
    <3>2. PICK k, s, r : TrimOf(p, k, s, r)
      BY <1>1, <2>4, <3>1, TrimShape
    <3> DEFINE x == [row[k] EXCEPT !.status = "superseded"]
               y == Developer!Slice(k, Developer!Kept(p, k))
               z == Developer!Slice(k, row[k].amount - Developer!Kept(p, k))
    <3>3. /\ DOMAIN y = Columns /\ y.status = "confirmed"
          /\ DOMAIN z = Columns /\ z.status = "confirmed"
      <4>1. k \in Developer!Rows
        BY <3>2 DEF TrimOf, Developer!Trimmed, Developer!Allocated
      <4>2. QED
        BY <1>1, <4>1, PartOf
    <3>4. /\ DOMAIN x = Columns /\ x.status = "superseded" /\ DOMAIN row' = Developer!Rows
          /\ \A j \in Developer!Rows :
               row'[j] = IF j = r THEN z ELSE IF j = s THEN y ELSE IF j = k THEN x ELSE row[j]
      BY <3>2 DEF TrimOf
    <3> HIDE DEF x, y, z
    <3>5. QED
      BY <3>1, <3>3, <3>4 DEF Leaves, Supersedes, Developer!Unpaid
  <2>5. QED
    BY <2>1, <2>2, <2>3, <2>4 DEF Developer!Release, Developer!Approve
<1>4. QED
  BY <1>1, <1>2, <1>3, FrameStays

LEMMA FlagsFrame ==
  ASSUME EarningsNames, LedgerFrame, NEW f \in Flags,
         \/ \E c \in Credits \cup {NoCredit} : Developer!CreateFlag(f, c)
         \/ Developer!Dismiss(f) \/ Developer!Forfeit(f)
  PROVE  LedgerFrame'
<1>1. Shaped /\ UNCHANGED <<payout, alloc, job, lock>>
  BY DEF LedgerFrame, Developer!CreateFlag, Developer!Dismiss, Developer!Forfeit
<1>2. PICK S \in SUBSET Loose, s \in Developer!Unpaid \cup {"reversed"} : Rewritten(S, s)
  BY <1>1, FlagRewrites
<1>3. DOMAIN row' = Developer!Rows /\ \A k \in Developer!Rows : Leaves(k)
  BY <1>2, RewritesLeave
<1>4. QED
  BY <1>1, <1>3, FrameLeaves

LEMMA ReversalsFrame ==
  ASSUME EarningsNames, LedgerFrame, NEW c, NEW rows, NEW debts,
         Developer!Reversed(c, rows, debts), UNCHANGED <<payout, alloc, job, lock>>
  PROVE  LedgerFrame'
<1>1. Rewritten(Loose \cap rows, "reversed")
  BY ReversalRewrites DEF LedgerFrame
<1>2. DOMAIN row' = Developer!Rows /\ \A k \in Developer!Rows : Leaves(k)
  BY <1>1, RewritesLeave
<1>3. QED
  BY <1>2, FrameLeaves

LEMMA FrameInit == ASSUME EarningsNames, Developer!Init PROVE LedgerFrame
<1>1. DOMAIN Developer!NoRow = Columns
  BY DEF Developer!NoRow, Columns
<1>2. Developer!NoRow.status = "none" /\ Developer!NoRow.of = NoCredit
  BY Zenon DEF Developer!NoRow
<1>3. Shaped
  BY <1>1, <1>2 DEF Developer!Init, Shaped
<1>4. Recorded /\ Snapshots
  BY DEF Developer!Init, Developer!NoJob, Recorded, Snapshots
<1>5. QED
  BY <1>3, <1>4 DEF LedgerFrame

LEMMA FrameStep ==
  ASSUME EarningsNames, LedgerFrame, [Developer!Next]_(Developer!vars)
  PROVE  LedgerFrame'
<1>1. ASSUME UNCHANGED <<row, payout, alloc, job, lock>> PROVE LedgerFrame'
  <2>1. DOMAIN row' = Developer!Rows /\ \A k \in Developer!Rows : Leaves(k)
    BY <1>1 DEF LedgerFrame, Shaped, Leaves
  <2>2. QED
    BY <1>1, <2>1, FrameLeaves
<1>2. CASE UNCHANGED Developer!vars
  BY <1>1, <1>2 DEF Developer!vars
<1>3. CASE \/ \E c \in Credits : Developer!Earn(c)
           \/ \E k \in Developer!Rows : Developer!Mature(k)
  BY <1>3, EarnsFrame
<1>4. CASE \E p \in Payouts : \/ \E a \in Developer!Amounts : Developer!RequestChecks(p, a)
                              \/ Developer!RequestReads(p, Developer!Eligible)
                              \/ \E k \in Developer!Eligible : Developer!RequestReads(p, {k})
  BY <1>4, RequestsFrame
<1>5. CASE \E p \in Payouts : Developer!RequestCommits(p) \/ Developer!RequestAborts(p)
  BY <1>5, CommitsFrame
<1>6. CASE \E p \in Payouts : \/ Developer!Release(p) \/ Developer!ProcessClaims(p) \/ Developer!Settle(p)
                              \/ \E a \in Developer!Amounts : Developer!Approve(p, a)
  BY <1>6, PayoutsFrame
<1>7. CASE \E f \in Flags : \/ \E c \in Credits \cup {NoCredit} : Developer!CreateFlag(f, c)
                            \/ Developer!Dismiss(f) \/ Developer!Forfeit(f)
  BY <1>7, FlagsFrame
<1>8. CASE (\E f \in Flags : Developer!ConfirmEntity(f)) \/ Developer!ReportCommits
  BY <1>8, ReversalsFrame DEF Developer!ConfirmEntity, Developer!ReportCommits
<1>9. CASE \E c \in Credits : Developer!ReportScans(c)
  BY <1>1, <1>9 DEF Developer!ReportScans
<1>10. QED
  BY <1>2, <1>3, <1>4, <1>5, <1>6, <1>7, <1>8, <1>9 DEF Developer!Next
-------------------------------------------------------------------------------
\* ---- the refund of a credit reaches all of its parts ----

\* A row with a recovery debit is a paid one ...
DebtsPaid ==
  /\ DOMAIN recovery = Developer!Rows
  /\ \A k \in Developer!Rows : /\ DOMAIN recovery[k] = {"status", "flag"}
                               /\ recovery[k] # Developer!NoDebt => row[k].status = "paid"

\* ... and no row of a refunded credit can be split, for none of them is unpaid.
Refunded(c) == /\ c # NoCredit /\ Developer!RowsOf(c) # {}
               /\ \A k \in Developer!RowsOf(c) : Developer!Gone(k) \/ recovery[k] # Developer!NoDebt

\* A flag, or a report, is about a credit that has rows.
Flagging ==
  /\ DOMAIN flag = Flags /\ \A f \in Flags : DOMAIN flag[f] = {"status", "on"}
  /\ \A f \in Flags : flag[f].on # NoCredit => Developer!RowsOf(flag[f].on) # {}

\* The update of a report has found what is unpaid of its credit when it commits.
Reporting ==
  report # Developer!NoReport =>
    /\ report.of # NoCredit /\ Developer!RowsOf(report.of) # {}
    /\ \A k \in Developer!RowsOf(report.of) : Developer!Unsettled(k) => k \in report.rows

RefundInductive == DebtsPaid /\ (\A c \in compensated : Refunded(c)) /\ Flagging /\ Reporting

LEMMA RefundInit == ASSUME EarningsNames, Developer!Init PROVE RefundInductive
<1>1. Developer!NoRow.status = "none" /\ Developer!NoRow.of = NoCredit
  BY Zenon DEF Developer!NoRow
<1>2. DebtsPaid
  BY DEF Developer!Init, Developer!NoDebt, DebtsPaid
<1>3. Flagging /\ Reporting
  BY DEF Developer!Init, Flagging, Reporting
<1>4. QED
  BY <1>2, <1>3 DEF Developer!Init, RefundInductive

\* How a transaction may change a row: not at all, from unpaid on, or into being,
\* as a part of an unpaid one that is not under report or as the first of its credit.
Keeps(old, new)  == new.of = old.of /\ new.status = old.status
Moves(old, new)  == new.of = old.of /\ old.status \in Developer!Unpaid
                    /\ new.status \in Developer!Unpaid \cup Retired
Splits(old, new) == /\ old.status = "none" /\ new.status \in Developer!Unpaid
                    /\ new.of # report.of
                    /\ \E j \in Developer!Rows : row[j].status \in Developer!Unpaid /\ new.of = row[j].of
Begins(old, new) == /\ old.status = "none" /\ new.status \in Developer!Unpaid
                    /\ Developer!RowsOf(new.of) = {}
Changes(k) == LET old == row[k]
                  new == row'[k]
              IN Keeps(old, new) \/ Moves(old, new) \/ Splits(old, new) \/ Begins(old, new)

\* A debit may move and not go; only a paid row gets one.
DebtKept(k) == /\ DOMAIN recovery'[k] = {"status", "flag"}
               /\ \/ recovery'[k] = recovery[k]
                  \/ recovery'[k] # Developer!NoDebt /\ row[k].status = "paid"

RowsChange  == DOMAIN row' = Developer!Rows /\ \A k \in Developer!Rows : Changes(k)
DebtsChange == DOMAIN recovery' = Developer!Rows /\ \A k \in Developer!Rows : DebtKept(k)
FlagsChange ==
  /\ DOMAIN flag' = Flags
  /\ \A f \in Flags : /\ DOMAIN flag'[f] = {"status", "on"}
                      /\ flag'[f].on # NoCredit => Developer!RowsOf(flag'[f].on) # {}

LEMMA RowsStay ==
  ASSUME Shaped, RowsChange, NEW c, c # NoCredit, Developer!RowsOf(c) # {}
  PROVE  Developer!RowsOf(c)' # {}
<1>1. PICK k \in Developer!Rows : row[k].of = c
  BY DEF Developer!RowsOf
<1>2. row[k].status # "none"
  BY <1>1 DEF Shaped
<1>3. row'[k].of = c
  BY <1>1, <1>2 DEF RowsChange, Changes, Keeps, Moves, Splits, Begins
<1>4. QED
  BY <1>1, <1>3 DEF Developer!RowsOf, Developer!Rows

LEMMA RefundedStays ==
  ASSUME Shaped, DebtsPaid, RowsChange, DebtsChange, NEW c, Refunded(c)
  PROVE  Refunded(c)'
<1>1. c # NoCredit /\ Developer!RowsOf(c)' # {}
  BY RowsStay DEF Refunded
<1>2. ASSUME NEW k \in Developer!Rows, row'[k].of = c
      PROVE  row'[k].status \in {"reversed", "superseded"} \/ recovery'[k] # Developer!NoDebt
  <2>1. \A j \in Developer!Rows : row[j].of = c =>
          /\ row[j].status \notin Developer!Unpaid
          /\ row[j].status \in {"reversed", "superseded"} \/ recovery[j] # Developer!NoDebt
    BY DEF Refunded, DebtsPaid, Developer!RowsOf, Developer!Gone, Developer!Unpaid
  <2>2. ~Moves(row[k], row'[k]) /\ ~Splits(row[k], row'[k]) /\ ~Begins(row[k], row'[k])
    BY <1>2, <2>1 DEF Moves, Splits, Begins, Refunded
  <2>3. Keeps(row[k], row'[k])
    BY <2>2 DEF RowsChange, Changes
  <2>4. recovery[k] # Developer!NoDebt => recovery'[k] # Developer!NoDebt
    BY DEF DebtsChange, DebtKept
  <2>5. QED
    BY <1>2, <2>1, <2>3, <2>4 DEF Keeps
<1>3. Developer!Rows' = Developer!Rows /\ Developer!NoDebt' = Developer!NoDebt
  BY DEF Developer!Rows, Developer!NoDebt
<1>4. QED
  BY <1>1, <1>2, <1>3 DEF Refunded, Developer!RowsOf, Developer!Gone

LEMMA DebitedStays ==
  ASSUME Shaped, DebtsPaid, RowsChange, DebtsChange
  PROVE  DebtsPaid'
<1>1. ASSUME NEW k \in Developer!Rows
      PROVE  /\ DOMAIN recovery'[k] = {"status", "flag"}
             /\ recovery'[k] # Developer!NoDebt => row'[k].status = "paid"
  <2>1. row[k].status = "paid" => row'[k].status = "paid"
    BY DEF RowsChange, Changes, Keeps, Moves, Splits, Begins, Developer!Unpaid
  <2>2. QED
    BY <2>1 DEF DebtsPaid, DebtsChange, DebtKept
<1>2. Developer!Rows' = Developer!Rows /\ Developer!NoDebt' = Developer!NoDebt
  BY DEF Developer!Rows, Developer!NoDebt
<1>3. QED
  BY <1>1, <1>2 DEF DebtsPaid, DebtsChange

LEMMA FlaggingStays ==
  ASSUME Shaped, RowsChange, FlagsChange
  PROVE  Flagging'
BY RowsStay DEF Flagging, FlagsChange

LEMMA ReportingStays ==
  ASSUME Shaped, RowsChange, Reporting, UNCHANGED report
  PROVE  Reporting'
<1>1. SUFFICES ASSUME report # Developer!NoReport PROVE Reporting'
  BY DEF Reporting, Developer!NoReport
<1>2. /\ report.of # NoCredit /\ Developer!RowsOf(report.of) # {}
      /\ \A k \in Developer!RowsOf(report.of) : Developer!Unsettled(k) => k \in report.rows
  BY <1>1 DEF Reporting
<1>3. Developer!RowsOf(report.of)' # {}
  BY <1>2, RowsStay
<1>4. ASSUME NEW k \in Developer!Rows, row'[k].of = report.of, row'[k].status \in Developer!Unpaid
      PROVE  k \in report.rows
  <2>1. ~Splits(row[k], row'[k]) /\ ~Begins(row[k], row'[k])
    BY <1>2, <1>4 DEF Splits, Begins
  <2>2. row[k].of = report.of /\ row[k].status \in Developer!Unpaid
    BY <1>4, <2>1 DEF RowsChange, Changes, Keeps, Moves
  <2>3. QED
    BY <1>2, <2>2 DEF Developer!RowsOf, Developer!Unsettled
<1>5. QED
  BY <1>2, <1>3, <1>4 DEF Reporting, Developer!RowsOf, Developer!Unsettled, Developer!Unpaid, Developer!Rows

\* All but the reversals, which add a refunded credit, and the scan of a report.
LEMMA RefundStays ==
  ASSUME LedgerFrame, RefundInductive, UNCHANGED <<compensated, report>>,
         RowsChange, DebtsChange, FlagsChange
  PROVE  RefundInductive'
<1>1. Shaped
  BY DEF LedgerFrame
<1>2. DebtsPaid' /\ Flagging' /\ Reporting'
  BY <1>1, DebitedStays, FlaggingStays, ReportingStays DEF RefundInductive
<1>3. \A c \in compensated : Refunded(c)'
  BY <1>1, RefundedStays DEF RefundInductive
<1>4. QED
  BY <1>2, <1>3 DEF RefundInductive

LEMMA RowsKept ==
  ASSUME Shaped, UNCHANGED row
  PROVE  RowsChange
BY DEF Shaped, RowsChange, Changes, Keeps

LEMMA DebtsKept ==
  ASSUME DebtsPaid, UNCHANGED recovery
  PROVE  DebtsChange
BY DEF DebtsPaid, DebtsChange, DebtKept

LEMMA FlagsKept ==
  ASSUME Flagging, UNCHANGED flag
  PROVE  FlagsChange
BY DEF Flagging, FlagsChange

LEMMA RewritesChange ==
  ASSUME Shaped, NEW S, NEW s \in Developer!Unpaid \cup Retired, Rewritten(S, s),
         \A k \in S \cap Developer!Rows : row[k].status \in Developer!Unpaid \cup {s}
  PROVE  RowsChange
BY DEF Rewritten, RowsChange, Changes, Keeps, Moves

LEMMA DebtMoves ==
  ASSUME DebtsPaid, NEW k \in Developer!Rows, recovery[k].status # "none",
         NEW s, s # "none", NEW f, recovery'[k] = [recovery[k] EXCEPT !.status = s, !.flag = f]
  PROVE  DebtKept(k)
<1> DEFINE z == [recovery[k] EXCEPT !.status = s, !.flag = f]
<1>1. DOMAIN recovery[k] = {"status", "flag"}
  BY DEF DebtsPaid
<1>2. DOMAIN z = {"status", "flag"} /\ z.status = s
  BY <1>1
<1>3. recovery'[k] = z
  OBVIOUS
<1> HIDE DEF z
<1>4. Developer!NoDebt.status = "none"
  BY DEF Developer!NoDebt
<1>5. recovery'[k] # Developer!NoDebt /\ recovery[k] # Developer!NoDebt
  BY <1>2, <1>3, <1>4
<1>6. QED
  BY <1>2, <1>3, <1>5 DEF DebtKept, DebtsPaid

\* The transactions, one kind at a time.
LEMMA EarnRefunds ==
  ASSUME EarningsNames, LedgerFrame, RefundInductive, NEW c \in Credits, Developer!Earn(c)
  PROVE  RefundInductive'
<1> DEFINE m == Developer!Min(Developer!Fresh)
           z == [of |-> c, status |-> "estimated", amount |-> Share[c], flag |-> NoFlag]
<1>1. m \in Developer!Rows /\ row[m].status = "none"
  <2>1. m \in Developer!Fresh
    BY LeastRow DEF Developer!Earn, Developer!Fresh
  <2>2. QED
    BY <2>1 DEF Developer!Fresh
<1>2. row' = [row EXCEPT ![m] = z] /\ UNCHANGED <<recovery, compensated, flag, report>>
  BY DEF Developer!Earn
<1>3. z.of = c /\ z.status = "estimated"
  OBVIOUS
<1> HIDE DEF m, z
<1>4. DOMAIN row' = Developer!Rows /\ \A k \in Developer!Rows : row'[k] = IF k = m THEN z ELSE row[k]
  BY <1>2 DEF LedgerFrame, Shaped
<1>5. Begins(row[m], z)
  BY <1>1, <1>3 DEF Begins, Developer!Earn, Developer!Unpaid
<1>6. RowsChange
  BY <1>4, <1>5 DEF RowsChange, Changes, Keeps
<1>7. QED
  BY <1>2, <1>6, DebtsKept, FlagsKept, RefundStays DEF RefundInductive

LEMMA MatureRefunds ==
  ASSUME EarningsNames, LedgerFrame, RefundInductive, NEW k \in Developer!Rows, Developer!Mature(k)
  PROVE  RefundInductive'
<1> DEFINE z == [row[k] EXCEPT !.status = "confirmed"]
<1>1. z.of = row[k].of /\ z.status = "confirmed"
  <2>1. DOMAIN row[k] = Columns
    BY DEF LedgerFrame, Shaped
  <2>2. QED
    BY <2>1 DEF Columns
<1>2. row' = [row EXCEPT ![k] = z] /\ row[k].status = "estimated"
      /\ UNCHANGED <<recovery, compensated, flag, report>>
  BY DEF Developer!Mature
<1> HIDE DEF z
<1>3. DOMAIN row' = Developer!Rows /\ \A j \in Developer!Rows : row'[j] = IF j = k THEN z ELSE row[j]
  BY <1>2 DEF LedgerFrame, Shaped
<1>4. Moves(row[k], z)
  BY <1>1, <1>2 DEF Moves, Developer!Unpaid
<1>5. RowsChange
  BY <1>3, <1>4 DEF RowsChange, Changes, Keeps
<1>6. QED
  BY <1>2, <1>5, DebtsKept, FlagsKept, RefundStays DEF RefundInductive

LEMMA SettleRefunds ==
  ASSUME EarningsNames, LedgerFrame, RefundInductive, NEW p \in Payouts, Developer!Settle(p)
  PROVE  RefundInductive'
<1>1. UNCHANGED <<recovery, compensated, flag, report>>
  BY DEF Developer!Settle
<1>2. /\ Rewritten(Developer!Allocated(p), "paid")
      /\ \A k \in Developer!Allocated(p) : row[k].status \in Developer!Unpaid \cup {"paid"}
  BY SettleRewrites DEF LedgerFrame
<1>3. RowsChange
  BY <1>2, RewritesChange DEF LedgerFrame, Retired
<1>4. QED
  BY <1>1, <1>3, DebtsKept, FlagsKept, RefundStays DEF RefundInductive

LEMMA SplitsOne ==
  ASSUME EarningsNames, ~Overlap, LedgerFrame, NEW p \in Payouts, Developer!RequestCommits(p)
  PROVE  RowsChange
<1>1. /\ job[p].step = "read" /\ (Developer!Cut(p) # {} => Developer!Fresh # {})
      /\ \A k \in Developer!Cut(p) : row[k].of # report.of /\ row[k].status = "confirmed"
      /\ UNCHANGED row \/ row' = Developer!SplitRows(p)
  BY DEF Developer!RequestCommits, Developer!Undisturbed
<1>2. Shaped /\ \A k \in job[p].rows : row[k].status # "none"
  BY <1>1 DEF LedgerFrame, Snapshots, Standing
<1>3. CASE UNCHANGED row
  BY <1>2, <1>3, RowsKept
<1>4. CASE row' = Developer!SplitRows(p) /\ Developer!Cut(p) = {}
  BY <1>3, <1>4 DEF Developer!SplitRows
<1>5. CASE row' = Developer!SplitRows(p) /\ Developer!Cut(p) # {}
  <2>1. PICK k, m : SplitOf(p, k, m)
    BY <1>1, <1>2, <1>5, SplitShape
  <2> DEFINE y == [row[k] EXCEPT !.amount = Developer!Taken(p, k), !.status = "confirmed"]
             z == Developer!Slice(k, row[k].amount - Developer!Taken(p, k))
  <2>2. /\ k \in Developer!Rows /\ m \in Developer!Rows /\ row[m].status = "none"
        /\ row[k].of # report.of /\ row[k].status = "confirmed"
    BY <1>1, <2>1 DEF SplitOf, Developer!Cut, Developer!Fresh
  <2>3. z.of = row[k].of /\ z.status = "confirmed"
    BY <1>2, <2>2, PartOf
  <2>4. /\ y.of = row[k].of /\ y.status = "confirmed" /\ DOMAIN row' = Developer!Rows
        /\ \A j \in Developer!Rows : row'[j] = IF j = m THEN z ELSE IF j = k THEN y ELSE row[j]
    BY <2>1 DEF SplitOf
  <2> HIDE DEF y, z
  <2>5. Splits(row[m], z)
    BY <2>2, <2>3 DEF Splits, Developer!Unpaid
  <2>6. QED
    BY <2>2, <2>4, <2>5 DEF RowsChange, Changes, Keeps
<1>6. QED
  BY <1>1, <1>3, <1>4, <1>5

LEMMA TrimsOne ==
  ASSUME EarningsNames, ~Overlap, LedgerFrame, NEW p \in Payouts, Developer!ProcessClaims(p)
  PROVE  RowsChange
<1>1. /\ Developer!Claimable(p) /\ row' = Developer!TrimmedRows(p)
      /\ Developer!Trimmed(p) # {} => Developer!Cardinality(Developer!Fresh) >= 2
      /\ \A k \in Developer!Trimmed(p) : row[k].of # report.of
  BY DEF Developer!ProcessClaims, Developer!Undisturbed
<1>2. Shaped
  BY DEF LedgerFrame
<1>3. CASE Developer!Trimmed(p) = {}
  BY <1>1, <1>2, <1>3, RowsKept DEF Developer!TrimmedRows
<1>4. CASE Developer!Trimmed(p) # {}
  <2>1. PICK k, s, r : TrimOf(p, k, s, r)
    BY <1>1, <1>2, <1>4, TrimShape
  <2>2. /\ k \in Developer!Rows /\ s \in Developer!Rows /\ r \in Developer!Rows
        /\ row[s].status = "none" /\ row[r].status = "none" /\ row[k].of # report.of
    BY <1>1, <2>1 DEF TrimOf, Developer!Trimmed, Developer!Allocated, Developer!Fresh
  <2> DEFINE x == [row[k] EXCEPT !.status = "superseded"]
             y == Developer!Slice(k, Developer!Kept(p, k))
             z == Developer!Slice(k, row[k].amount - Developer!Kept(p, k))
  <2>3. /\ y.of = row[k].of /\ y.status = "confirmed"
        /\ z.of = row[k].of /\ z.status = "confirmed"
    BY <1>2, <2>2, PartOf
  <2>4. /\ row[k].status = "confirmed" /\ s # r /\ k \notin {s, r}
        /\ x.of = row[k].of /\ x.status = "superseded"
        /\ DOMAIN row' = Developer!Rows
        /\ \A j \in Developer!Rows :
             row'[j] = IF j = r THEN z ELSE IF j = s THEN y ELSE IF j = k THEN x ELSE row[j]
    BY <2>1 DEF TrimOf
  <2> HIDE DEF x, y, z
  <2>5. Splits(row[s], y) /\ Splits(row[r], z) /\ Moves(row[k], x)
    BY <2>2, <2>3, <2>4 DEF Splits, Moves, Developer!Unpaid, Retired
  <2>6. QED
    BY <2>4, <2>5 DEF RowsChange, Changes, Keeps
<1>5. QED
  BY <1>3, <1>4

\* Requests and payouts leave debits, flags and the report alone.
LEMMA PayoutRefunds ==
  ASSUME EarningsNames, ~Overlap, LedgerFrame, RefundInductive, NEW p \in Payouts,
         \/ \E a \in Developer!Amounts : Developer!RequestChecks(p, a) \/ Developer!Approve(p, a)
         \/ \E chosen : Developer!RequestReads(p, chosen)
         \/ Developer!RequestCommits(p) \/ Developer!RequestAborts(p)
         \/ Developer!Release(p) \/ Developer!ProcessClaims(p)
  PROVE  RefundInductive'
<1>1. UNCHANGED <<recovery, compensated, flag, report>>
  BY DEF Developer!RequestChecks, Developer!RequestReads, Developer!RequestCommits, Developer!RequestAborts,
         Developer!Approve, Developer!Release, Developer!ProcessClaims
<1>2. RowsChange
  <2>1. CASE UNCHANGED row
    BY <2>1, RowsKept DEF LedgerFrame
  <2>2. CASE Developer!RequestCommits(p)
    BY <2>2, SplitsOne
  <2>3. CASE Developer!ProcessClaims(p)
    BY <2>3, TrimsOne
  <2>4. QED
    BY <2>1, <2>2, <2>3 DEF Developer!RequestChecks, Developer!RequestReads, Developer!RequestAborts,
                            Developer!Approve, Developer!Release
<1>3. QED
  BY <1>1, <1>2, DebtsKept, FlagsKept, RefundStays DEF RefundInductive

\* Flags hold debits and give them up with the rows, and keep a name for them.
LEMMA FlagRefunds ==
  ASSUME EarningsNames, LedgerFrame, RefundInductive, NEW f \in Flags,
         \/ \E c \in Credits \cup {NoCredit} : Developer!CreateFlag(f, c)
         \/ Developer!Dismiss(f) \/ Developer!Forfeit(f)
  PROVE  RefundInductive'
<1>1. UNCHANGED <<compensated, report>> /\ Shaped /\ DebtsPaid /\ Flagging
  BY DEF Developer!CreateFlag, Developer!Dismiss, Developer!Forfeit, LedgerFrame, RefundInductive
<1>2. PICK S \in SUBSET Loose, s \in Developer!Unpaid \cup {"reversed"} : Rewritten(S, s)
  BY <1>1, FlagRewrites
<1>3. RowsChange
  BY <1>1, <1>2, RewritesChange DEF Loose, Developer!Unsettled, Retired
<1>4. FlagsChange
  <2>1. CASE \E c \in Credits \cup {NoCredit} : Developer!CreateFlag(f, c)
    <3>1. PICK c \in Credits \cup {NoCredit} : Developer!CreateFlag(f, c)
      BY <2>1
    <3> DEFINE z == [status |-> "active", on |-> c]
    <3>2. flag' = [flag EXCEPT ![f] = z] /\ (c = NoCredit \/ Developer!RowsOf(c) # {})
      BY <1>1, <3>1 DEF Developer!CreateFlag, Flagging
    <3>3. DOMAIN z = {"status", "on"} /\ z.on = c
      OBVIOUS
    <3> HIDE DEF z
    <3>4. QED
      BY <1>1, <3>2, <3>3 DEF Flagging, FlagsChange
  <2>2. CASE \E verdict : Developer!Resolve(f, verdict)
    <3>1. PICK verdict : Developer!Resolve(f, verdict)
      BY <2>2
    <3> DEFINE z == [flag[f] EXCEPT !.status = verdict]
    <3>2. flag' = [flag EXCEPT ![f] = z]
      BY <3>1 DEF Developer!Resolve
    <3>3. DOMAIN z = {"status", "on"} /\ z.on = flag[f].on
      BY <1>1 DEF Flagging
    <3> HIDE DEF z
    <3>4. QED
      BY <1>1, <3>2, <3>3 DEF Flagging, FlagsChange
  <2>3. QED
    BY <2>1, <2>2 DEF Developer!Dismiss, Developer!Forfeit
<1>5. DebtsChange
  <2>1. CASE recovery' = [k \in Developer!Rows |-> Developer!Held(recovery[k], f)]
    <3>1. SUFFICES ASSUME NEW k \in Developer!Rows PROVE DebtKept(k)
      BY <2>1 DEF DebtsChange
    <3>2. recovery'[k] = Developer!Held(recovery[k], f)
      BY <2>1
    <3>3. CASE recovery'[k] = recovery[k]
      BY <1>1, <3>3 DEF DebtKept, DebtsPaid
    <3>4. CASE /\ recovery[k].status \in {"estimated", "confirmed"}
               /\ recovery'[k] = [recovery[k] EXCEPT !.status = "held", !.flag = f]
      <4>1. recovery[k].status # "none"
        BY <3>4
      <4>2. recovery'[k] = [recovery[k] EXCEPT !.status = "held", !.flag = f]
        BY <3>4
      <4>3. QED
        BY <1>1, <4>1, <4>2, DebtMoves
    <3>5. QED
      BY <3>2, <3>3, <3>4, Zenon DEF Developer!Held
  <2>2. ASSUME NEW s1 \in {"confirmed", "reversed"},
               recovery' = [k \in Developer!Rows |-> Developer!Moved(recovery[k], f, s1)]
        PROVE  DebtsChange
    <3>1. SUFFICES ASSUME NEW k \in Developer!Rows PROVE DebtKept(k)
      BY <2>2 DEF DebtsChange
    <3>2. recovery'[k] = Developer!Moved(recovery[k], f, s1)
      BY <2>2
    <3>3. CASE recovery'[k] = recovery[k]
      BY <1>1, <3>3 DEF DebtKept, DebtsPaid
    <3>4. CASE /\ recovery[k].status = "held"
               /\ recovery'[k] = [recovery[k] EXCEPT !.status = s1, !.flag = NoFlag]
      <4>1. recovery[k].status # "none" /\ s1 # "none"
        BY <3>4
      <4>2. recovery'[k] = [recovery[k] EXCEPT !.status = s1, !.flag = NoFlag]
        BY <3>4
      <4>3. QED
        BY <1>1, <4>1, <4>2, DebtMoves
    <3>5. QED
      BY <3>2, <3>3, <3>4, Zenon DEF Developer!Moved
  <2>3. QED
    BY <2>1, <2>2 DEF Developer!CreateFlag, Developer!Dismiss, Developer!Forfeit, Developer!MoveHeld
<1>6. QED
  BY <1>1, <1>3, <1>4, <1>5, RefundStays

\* A reversal settles every row of its credit that is not paid, and gives the paid ones
\* a debit they do not have.
LEMMA ReversalDebits ==
  ASSUME DebtsPaid, NEW c, NEW rows, NEW debts, Developer!Reversed(c, rows, debts)
  PROVE  /\ DebtsChange
         /\ \A k \in Developer!RowsOf(c) : row[k].status = "paid" => recovery'[k] # Developer!NoDebt
<1> DEFINE one == [Developer!NoDebt EXCEPT !.status = "confirmed"]
<1>1. recovery' = [k \in Developer!Rows |->
                     IF k \in debts /\ Developer!Indebted(k) THEN Developer!Withdrawn(recovery[k])
                     ELSE IF row[k].of = c /\ row[k].status = "paid" /\ recovery[k] = Developer!NoDebt
                          THEN one ELSE recovery[k]]
  BY DEF Developer!Reversed
<1>2. DOMAIN one = {"status", "flag"} /\ one # Developer!NoDebt
  BY DEF Developer!NoDebt
<1> HIDE DEF one
<1>3. ASSUME NEW k \in Developer!Rows
      PROVE  DebtKept(k) /\ (row[k].of = c /\ row[k].status = "paid" => recovery'[k] # Developer!NoDebt)
  <2>1. CASE k \in debts /\ Developer!Indebted(k)
    <3>1. recovery'[k] = [recovery[k] EXCEPT !.status = "reversed", !.flag = NoFlag]
      BY <1>1, <2>1, Zenon DEF Developer!Withdrawn
    <3>2. recovery[k].status # "none"
      BY <2>1 DEF Developer!Indebted, Developer!Unpaid
    <3>3. DebtKept(k)
      BY <3>1, <3>2, DebtMoves
    <3>4. recovery[k] # Developer!NoDebt
      BY <3>2 DEF Developer!NoDebt
    <3>5. QED
      BY <3>3, <3>4 DEF DebtKept
  <2>2. CASE ~(k \in debts /\ Developer!Indebted(k))
    <3>1. recovery'[k] = IF row[k].of = c /\ row[k].status = "paid" /\ recovery[k] = Developer!NoDebt
                         THEN one ELSE recovery[k]
      BY <1>1, <2>2
    <3>2. QED
      BY <1>2, <3>1 DEF DebtKept, DebtsPaid
  <2>3. QED
    BY <2>1, <2>2
<1>4. DOMAIN recovery' = Developer!Rows
  BY <1>1
<1>5. QED
  BY <1>3, <1>4 DEF DebtsChange, Developer!RowsOf

LEMMA ReversalRefunds ==
  ASSUME EarningsNames, LedgerFrame, RefundInductive, NEW c, NEW rows, NEW debts,
         c # NoCredit, Developer!RowsOf(c) # {},
         \A k \in Developer!RowsOf(c) : Developer!Unsettled(k) => k \in rows,
         Developer!Reversed(c, rows, debts), FlagsChange,
         UNCHANGED report \/ report' = Developer!NoReport
  PROVE  RefundInductive'
<1>1. Shaped /\ DebtsPaid /\ compensated' = compensated \cup {c}
  BY DEF LedgerFrame, RefundInductive, Developer!Reversed
<1>2. Rewritten(Loose \cap rows, "reversed")
  BY <1>1, ReversalRewrites
<1>3. RowsChange
  BY <1>1, <1>2, RewritesChange DEF Loose, Developer!Unsettled, Retired
<1>4. DebtsChange /\ \A k \in Developer!RowsOf(c) : row[k].status = "paid" => recovery'[k] # Developer!NoDebt
  BY <1>1, ReversalDebits
<1>5. DebtsPaid' /\ Flagging'
  BY <1>1, <1>3, <1>4, DebitedStays, FlaggingStays
<1>6. Reporting'
  <2>1. CASE UNCHANGED report
    BY <1>1, <1>3, <2>1, ReportingStays DEF RefundInductive
  <2>2. CASE report' = Developer!NoReport
    BY <2>2 DEF Reporting, Developer!NoReport
  <2>3. QED
    BY <2>1, <2>2
<1>7. \A b \in compensated : Refunded(b)'
  BY <1>1, <1>3, <1>4, RefundedStays DEF RefundInductive
<1>8. Refunded(c)'
  <2>1. Developer!RowsOf(c)' # {}
    BY <1>1, <1>3, RowsStay
  <2>2. ASSUME NEW k \in Developer!Rows, row'[k].of = c
        PROVE  row'[k].status \in {"reversed", "superseded"} \/ recovery'[k] # Developer!NoDebt
    <3>1. k \in Loose \cap rows => row'[k].status = "reversed"
      BY <1>2 DEF Rewritten
    <3>2. ASSUME k \notin Loose \cap rows
          PROVE  row'[k].status \in {"reversed", "superseded"} \/ recovery'[k] # Developer!NoDebt
      <4>1. row'[k] = row[k] /\ k \in Developer!RowsOf(c)
        BY <1>2, <2>2, <3>2 DEF Rewritten, Developer!RowsOf
      <4>2. ~Developer!Unsettled(k)
        BY <3>2, <4>1 DEF Loose
      <4>3. row[k].status \in Retired
        BY <1>1, <2>2, <4>1, <4>2 DEF Shaped, Developer!Unsettled
      <4>4. QED
        BY <1>4, <4>1, <4>3 DEF Retired
    <3>3. QED
      BY <3>1, <3>2
  <2>3. Developer!Rows' = Developer!Rows /\ Developer!NoDebt' = Developer!NoDebt
    BY DEF Developer!Rows, Developer!NoDebt
  <2>4. QED
    BY <2>1, <2>2, <2>3 DEF Refunded, Developer!RowsOf, Developer!Gone
<1>9. QED
  BY <1>1, <1>5, <1>6, <1>7, <1>8 DEF RefundInductive

LEMMA ConfirmRefunds ==
  ASSUME EarningsNames, LedgerFrame, RefundInductive, NEW f \in Flags, Developer!ConfirmEntity(f)
  PROVE  RefundInductive'
<1> DEFINE c == flag[f].on
           z == [flag[f] EXCEPT !.status = "valid"]
<1>1. Flagging
  BY DEF RefundInductive
<1>2. /\ c # NoCredit /\ Developer!Reversed(c, Developer!RowsOf(c), Developer!RowsOf(c))
      /\ flag' = [flag EXCEPT ![f] = z] /\ UNCHANGED report
  BY DEF Developer!ConfirmEntity, Developer!Resolve
<1>3. DOMAIN z = {"status", "on"} /\ z.on = flag[f].on
  BY <1>1 DEF Flagging
<1>4. Developer!RowsOf(c) # {}
  BY <1>1, <1>2 DEF Flagging
<1> HIDE DEF z
<1>5. FlagsChange
  BY <1>1, <1>2, <1>3 DEF Flagging, FlagsChange
<1> HIDE DEF c
<1>6. QED
  BY <1>2, <1>4, <1>5, ReversalRefunds

LEMMA ReportRefunds ==
  ASSUME EarningsNames, LedgerFrame, RefundInductive,
         Developer!ReportCommits \/ \E c \in Credits : Developer!ReportScans(c)
  PROVE  RefundInductive'
<1>1. FlagsChange
  BY FlagsKept DEF RefundInductive, Developer!ReportCommits, Developer!ReportScans
<1>2. CASE Developer!ReportCommits
  <2>1. /\ report # Developer!NoReport /\ report' = Developer!NoReport
        /\ Developer!Reversed(report.of, report.rows, report.debts)
    BY <1>2 DEF Developer!ReportCommits
  <2>2. /\ report.of # NoCredit /\ Developer!RowsOf(report.of) # {}
        /\ \A k \in Developer!RowsOf(report.of) : Developer!Unsettled(k) => k \in report.rows
    BY <2>1 DEF RefundInductive, Reporting
  <2>3. QED
    BY <1>1, <2>1, <2>2, ReversalRefunds
<1>3. CASE \E c \in Credits : Developer!ReportScans(c)
  <2>1. PICK c \in Credits : Developer!ReportScans(c)
    BY <1>3
  <2> DEFINE found == {k \in Developer!RowsOf(c) : Developer!Unsettled(k)}
             owed  == {k \in Developer!RowsOf(c) : Developer!Indebted(k)}
  <2>2. /\ Developer!RowsOf(c) # {} /\ report' = [of |-> c, rows |-> found, debts |-> owed]
        /\ UNCHANGED <<row, recovery, compensated, flag>>
    BY <2>1 DEF Developer!ReportScans
  <2>3. report'.of = c /\ report'.rows = found
    <3> HIDE DEF found, owed
    <3>1. QED
      BY <2>2
  <2>4. c # NoCredit
    BY DEF EarningsNames
  <2>5. Shaped /\ DebtsPaid
    BY DEF LedgerFrame, RefundInductive
  <2>6. RowsChange /\ DebtsChange
    BY <2>2, <2>5, RowsKept, DebtsKept
  <2>7. Reporting'
    BY <2>2, <2>3, <2>4 DEF Reporting, Developer!RowsOf, Developer!Unsettled, Developer!Unpaid, Developer!Rows
  <2>8. DebtsPaid' /\ Flagging' /\ \A b \in compensated : Refunded(b)'
    BY <1>1, <2>5, <2>6, DebitedStays, FlaggingStays, RefundedStays DEF RefundInductive
  <2>9. QED
    BY <2>2, <2>7, <2>8 DEF RefundInductive
<1>4. QED
  BY <1>2, <1>3

LEMMA RefundStep ==
  ASSUME EarningsNames, ~Overlap, LedgerFrame, RefundInductive, [Developer!Next]_(Developer!vars)
  PROVE  RefundInductive'
<1>1. CASE UNCHANGED Developer!vars
  <2>1. UNCHANGED <<row, recovery, compensated, flag, report>>
    BY <1>1 DEF Developer!vars
  <2>2. RowsChange /\ DebtsChange /\ FlagsChange
    BY <2>1, RowsKept, DebtsKept, FlagsKept DEF LedgerFrame, RefundInductive
  <2>3. QED
    BY <2>1, <2>2, RefundStays
<1>2. CASE \/ \E c \in Credits : Developer!Earn(c)
           \/ \E k \in Developer!Rows : Developer!Mature(k)
  BY <1>2, EarnRefunds, MatureRefunds
<1>3. CASE \E p \in Payouts : \/ \E a \in Developer!Amounts : Developer!RequestChecks(p, a)
                              \/ Developer!RequestReads(p, Developer!Eligible)
                              \/ \E k \in Developer!Eligible : Developer!RequestReads(p, {k})
                              \/ Developer!RequestCommits(p) \/ Developer!RequestAborts(p)
  BY <1>3, PayoutRefunds
<1>4. CASE \E p \in Payouts : \/ Developer!Release(p) \/ Developer!ProcessClaims(p) \/ Developer!Settle(p)
                              \/ \E a \in Developer!Amounts : Developer!Approve(p, a)
  BY <1>4, PayoutRefunds, SettleRefunds
<1>5. CASE \E f \in Flags : \/ \E c \in Credits \cup {NoCredit} : Developer!CreateFlag(f, c)
                            \/ Developer!Dismiss(f) \/ Developer!Forfeit(f)
  BY <1>5, FlagRefunds
<1>6. CASE \E f \in Flags : Developer!ConfirmEntity(f)
  BY <1>6, ConfirmRefunds
<1>7. CASE Developer!ReportCommits \/ \E c \in Credits : Developer!ReportScans(c)
  BY <1>7, ReportRefunds
<1>8. QED
  BY <1>1, <1>2, <1>3, <1>4, <1>5, <1>6, <1>7 DEF Developer!Next

\* However a credit is split, held, paid and trimmed before and after its refund, every
\* part of it is reversed or has a recovery debit, which a flag or another reversal may
\* take away later (reverseEarnings), unless rows of it are cut or trimmed between a
\* report's scan and its commit.
THEOREM NothingKept == ASSUME ~Overlap PROVE Developer!Spec => []RefundIsRecorded
<1> EarningsNames
  BY MoneyAssumption
<1> DEFINE Inv == LedgerFrame /\ RefundInductive
<1>1. Developer!Init => Inv
  BY FrameInit, RefundInit
<1>2. Inv /\ [Developer!Next]_(Developer!vars) => Inv'
  BY FrameStep, RefundStep
<1>3. Inv => RefundIsRecorded
  BY DEF RefundInductive, Refunded, RefundIsRecorded, Developer!RefundIsRecorded
<1> HIDE DEF Inv
<1>4. QED
  BY <1>1, <1>2, <1>3, PTL DEF Developer!Spec
-------------------------------------------------------------------------------
\* ---- the sums of the earnings ledger ----

Amount == [k \in Developer!Rows |-> row[k].amount]
Live(c) == Developer!RowsOf(c) \ Developer!Having("superseded")

LEMMA LedgerSum == ASSUME NEW S PROVE Developer!Sum(S) = SumFunctionOnSet(Amount, S)
  BY DEF Amount, Developer!Sum, Developer!SumFunctionOnSet, Developer!FoldFunctionOnSet,
         Developer!MapThenFoldSet, SumFunctionOnSet, FoldFunctionOnSet, MapThenFoldSet

LEMMA AllocationSum ==
  ASSUME NEW p PROVE Developer!AllocatedSum(p) = SumFunctionOnSet(alloc[p], Developer!Rows)
  BY DEF Developer!AllocatedSum, Developer!SumFunctionOnSet, Developer!FoldFunctionOnSet,
         Developer!MapThenFoldSet, SumFunctionOnSet, FoldFunctionOnSet, MapThenFoldSet

LEMMA RowsFinite ==
  ASSUME EarningsNames
  PROVE  IsFiniteSet(Developer!Rows) /\ \A S \in SUBSET Developer!Rows : IsFiniteSet(S)
<1>1. IsFiniteSet(Developer!Rows)
  BY FS_Interval DEF EarningsNames, Developer!Rows
<1>2. QED
  BY <1>1, FS_Subset

\* Rows, allocations, payouts and requests are worth units of money.
Counted ==
  /\ \A k \in Developer!Rows : row[k].amount \in Nat
  /\ \A p \in Payouts : /\ alloc[p] \in [Developer!Rows -> Nat]
                        /\ payout[p].amount \in Nat /\ job[p].amount \in Nat

\* A payout is allocated whole rows, and no row is allocated twice ...
Whole ==
  \A p \in Payouts, k \in Developer!Rows : alloc[p][k] > 0 =>
    /\ alloc[p][k] = row[k].amount /\ row[k].status # "none"
    /\ \A q \in Payouts \ {p} : alloc[q][k] = 0

\* ... that add up to what it asks ...
Fits(asks, allocation) ==
  LET over == SumFunctionOnSet(allocation, Developer!Rows) - asks.amount
  IN /\ asks.status \in {"requested", "processing"} => over = 0
     /\ asks.status = "approved" => over >= 0
     /\ asks.status \in {"none", "failed"} => \A k \in Developer!Rows : allocation[k] = 0
Asked == \A p \in Payouts : Fits(payout[p], alloc[p])

\* ... and the rows of a credit add up to its share.
CreditsAddUp ==
  \A c \in Credits : Developer!RowsOf(c) # {} => SumFunctionOnSet(Amount, Live(c)) = Share[c]

LedgerInductive == Counted /\ Whole /\ Asked /\ CreditsAddUp

LEMMA LedgerImplies == ASSUME LedgerInductive PROVE LedgerAddsUp
<1> USE DEF LedgerInductive
<1>1. \A c \in Credits : Developer!RowsOf(c) # {} =>
        Developer!Sum(Developer!RowsOf(c) \ Developer!Having("superseded")) = Share[c]
  BY LedgerSum DEF CreditsAddUp, Live
<1>2. ASSUME NEW p \in Payouts
      PROVE  /\ \A k \in Developer!Allocated(p) : /\ alloc[p][k] = row[k].amount
                                                  /\ \A q \in Payouts \ {p} : alloc[q][k] = 0
             /\ payout[p].status \in {"requested", "processing"} => Developer!Overage(p) = 0
             /\ payout[p].status = "approved" => Developer!Overage(p) >= 0
             /\ payout[p].status \in {"none", "failed"} => Developer!Allocated(p) = {}
  <2>1. Fits(payout[p], alloc[p])
    BY DEF Asked
  <2>2. Developer!Overage(p) = SumFunctionOnSet(alloc[p], Developer!Rows) - payout[p].amount
    BY AllocationSum DEF Developer!Overage
  <2>3. \A k \in Developer!Allocated(p) : /\ alloc[p][k] = row[k].amount
                                          /\ \A q \in Payouts \ {p} : alloc[q][k] = 0
    BY DEF Whole, Developer!Allocated
  <2>4. payout[p].status \in {"none", "failed"} => Developer!Allocated(p) = {}
    BY <2>1 DEF Fits, Developer!Allocated
  <2>5. QED
    BY <2>1, <2>2, <2>3, <2>4 DEF Fits
<1>3. QED
  BY <1>1, <1>2 DEF LedgerAddsUp, Developer!LedgerAddsUp

LEMMA LedgerInit == ASSUME EarningsNames, Developer!Init PROVE LedgerInductive
<1>1. Developer!NoRow.of = NoCredit /\ Developer!NoRow.amount = 0 /\ Developer!NoJob.amount = 0
  BY Zenon DEF Developer!NoRow, Developer!NoJob
<1>2. Counted
  BY <1>1 DEF Developer!Init, Counted
<1>3. Whole
  BY DEF Developer!Init, Whole
<1>4. ASSUME NEW p \in Payouts PROVE Fits(payout[p], alloc[p])
  <2>1. payout[p].status = "none" /\ \A k \in Developer!Rows : alloc[p][k] = 0
    BY DEF Developer!Init
  <2>2. QED
    BY <2>1 DEF Fits
<1>5. \A c \in Credits : Developer!RowsOf(c) = {}
  BY <1>1 DEF Developer!Init, Developer!RowsOf, EarningsNames
<1>6. QED
  BY <1>2, <1>3, <1>4, <1>5 DEF LedgerInductive, Asked, CreditsAddUp

\* Rows keep their credit and amount, whatever becomes of their status ...
Alike ==
  \A k \in Developer!Rows :
    /\ row'[k].of = row[k].of /\ row'[k].amount = row[k].amount
    /\ (row'[k].status = "superseded") = (row[k].status = "superseded")
    /\ row[k].status # "none" => row'[k].status # "none"

LEMMA SumsStay ==
  ASSUME EarningsNames, LedgerInductive, Alike, UNCHANGED alloc,
         \A p \in Payouts : job'[p].amount \in Nat /\ payout'[p].amount \in Nat
  PROVE  Counted' /\ Whole' /\ CreditsAddUp'
<1>1. Counted'
  BY DEF LedgerInductive, Counted, Alike, Developer!Rows
<1>2. Whole'
  BY DEF LedgerInductive, Whole, Alike, Developer!Rows
<1>3. Developer!Rows' = Developer!Rows
  BY DEF Developer!Rows
<1>4. Amount' = Amount
  BY <1>3 DEF Amount, Alike
<1>5. ASSUME NEW c PROVE Developer!RowsOf(c)' = Developer!RowsOf(c) /\ Live(c)' = Live(c)
  BY <1>3 DEF Developer!RowsOf, Live, Developer!Having, Alike
<1>6. QED
  BY <1>1, <1>2, <1>4, <1>5 DEF LedgerInductive, CreditsAddUp

\* ... and a payout keeps what it asks.
LEMMA AskedStays ==
  ASSUME Asked, UNCHANGED <<payout, alloc>>
  PROVE  Asked'
BY DEF Asked, Fits, Developer!Rows

\* Requests, flags and reversals rewrite statuses, never an amount.
LEMMA RewritesAlike ==
  ASSUME NEW S, NEW s, s \notin {"none", "superseded"}, \A k \in S : row[k].status # "superseded",
         Rewritten(S, s)
  PROVE  Alike
BY DEF Rewritten, Alike

LEMMA LedgerKept ==
  ASSUME EarningsNames, LedgerInductive, Alike, UNCHANGED <<payout, alloc>>,
         \A p \in Payouts : job'[p].amount \in Nat
  PROVE  LedgerInductive'
<1>1. Counted' /\ Whole' /\ CreditsAddUp'
  BY SumsStay DEF LedgerInductive, Counted
<1>2. Asked'
  BY AskedStays DEF LedgerInductive
<1>3. QED
  BY <1>1, <1>2 DEF LedgerInductive

LEMMA MatureAdds ==
  ASSUME EarningsNames, LedgerFrame, LedgerInductive, NEW k \in Developer!Rows, Developer!Mature(k)
  PROVE  LedgerInductive'
<1> DEFINE z == [row[k] EXCEPT !.status = "confirmed"]
<1>1. /\ row' = [row EXCEPT ![k] = z] /\ row[k].status = "estimated"
      /\ UNCHANGED <<payout, alloc, job>>
  BY DEF Developer!Mature
<1>2. DOMAIN row[k] = Columns /\ DOMAIN row = Developer!Rows
  BY DEF LedgerFrame, Shaped
<1>3. z.of = row[k].of /\ z.status = "confirmed" /\ z.amount = row[k].amount
  BY <1>2 DEF Columns
<1> HIDE DEF z
<1>4. Alike
  BY <1>1, <1>2, <1>3 DEF Alike
<1>5. QED
  BY <1>1, <1>4, LedgerKept DEF LedgerInductive, Counted

LEMMA FlagAdds ==
  ASSUME EarningsNames, LedgerFrame, LedgerInductive, NEW f \in Flags,
         \/ \E c \in Credits \cup {NoCredit} : Developer!CreateFlag(f, c)
         \/ Developer!Dismiss(f) \/ Developer!Forfeit(f)
  PROVE  LedgerInductive'
<1>1. UNCHANGED <<payout, alloc, job>>
  BY DEF Developer!CreateFlag, Developer!Dismiss, Developer!Forfeit
<1>2. PICK S \in SUBSET Loose, s \in Developer!Unpaid \cup {"reversed"} : Rewritten(S, s)
  BY FlagRewrites DEF LedgerFrame
<1>3. Alike
  BY <1>2, RewritesAlike DEF Loose, Developer!Unsettled, Developer!Unpaid
<1>4. QED
  BY <1>1, <1>3, LedgerKept DEF LedgerInductive, Counted

LEMMA ReversalAdds ==
  ASSUME EarningsNames, LedgerFrame, LedgerInductive, NEW c, NEW rows, NEW debts,
         Developer!Reversed(c, rows, debts), UNCHANGED <<payout, alloc, job>>
  PROVE  LedgerInductive'
<1>1. Rewritten(Loose \cap rows, "reversed")
  BY ReversalRewrites DEF LedgerFrame
<1>2. Alike
  BY <1>1, RewritesAlike DEF Loose, Developer!Unsettled, Developer!Unpaid
<1>3. QED
  BY <1>2, LedgerKept DEF LedgerInductive, Counted

LEMMA StillAlike == ASSUME UNCHANGED row PROVE Alike
  BY DEF Alike

LEMMA RequestAdds ==
  ASSUME EarningsNames, LedgerFrame, LedgerInductive, NEW p \in Payouts,
         \/ \E a \in Developer!Amounts : Developer!RequestChecks(p, a)
         \/ \E chosen : Developer!RequestReads(p, chosen)
         \/ Developer!RequestAborts(p)
  PROVE  LedgerInductive'
<1>1. UNCHANGED <<row, payout, alloc>>
  BY DEF Developer!RequestChecks, Developer!RequestReads, Developer!RequestAborts
<1>2. DOMAIN job = Payouts /\ DOMAIN job[p] = {"step", "amount", "rows"}
  BY DEF LedgerFrame, Recorded
<1>3. job[p].amount \in Nat /\ Developer!NoJob.amount = 0
  BY DEF LedgerInductive, Counted, Developer!NoJob
<1>4. \E j : job' = [job EXCEPT ![p] = j] /\ j.amount \in Nat
  <2>1. CASE \E a \in Developer!Amounts : Developer!RequestChecks(p, a)
    <3>1. PICK a \in Developer!Amounts : Developer!RequestChecks(p, a)
      BY <2>1
    <3> DEFINE j == [job[p] EXCEPT !.step = "checked", !.amount = a]
    <3>2. job' = [job EXCEPT ![p] = j]
      BY <3>1 DEF Developer!RequestChecks
    <3>3. a \in Nat
      BY <3>1 DEF Developer!Amounts, Developer!RequestChecks
    <3>4. j.amount = a
      BY <1>2
    <3>5. QED
      BY <3>2, <3>3, <3>4
  <2>2. CASE \E chosen : Developer!RequestReads(p, chosen)
    <3>1. PICK chosen : Developer!RequestReads(p, chosen)
      BY <2>2
    <3> DEFINE j == [job[p] EXCEPT !.step = "read", !.rows = chosen]
    <3>2. job' = [job EXCEPT ![p] = j] \/ job' = [job EXCEPT ![p] = Developer!NoJob]
      BY <3>1 DEF Developer!RequestReads
    <3>3. j.amount = job[p].amount
      BY <1>2
    <3> HIDE DEF j
    <3>4. QED
      BY <1>3, <3>2, <3>3
  <2>3. CASE Developer!RequestAborts(p)
    <3> DEFINE j == Developer!NoJob
    <3>1. job' = [job EXCEPT ![p] = j] /\ j.amount \in Nat
      BY <1>3, <2>3 DEF Developer!RequestAborts
    <3> HIDE DEF j
    <3>2. QED
      BY <3>1
  <2>4. QED
    BY <2>1, <2>2, <2>3
<1>5. \A q \in Payouts : job'[q].amount \in Nat
  BY <1>2, <1>4 DEF LedgerInductive, Counted
<1>6. QED
  BY <1>1, <1>5, LedgerKept, StillAlike

LEMMA SettleAdds ==
  ASSUME EarningsNames, LedgerFrame, LedgerInductive, NEW p \in Payouts, Developer!Settle(p)
  PROVE  LedgerInductive'
<1> DEFINE z == [payout[p] EXCEPT !.status = "paid"]
<1>1. payout' = [payout EXCEPT ![p] = z] /\ UNCHANGED <<alloc, job>>
  BY DEF Developer!Settle
<1>2. /\ Rewritten(Developer!Allocated(p), "paid")
      /\ \A k \in Developer!Allocated(p) : row[k].status \in Developer!Unpaid \cup {"paid"}
  BY SettleRewrites DEF LedgerFrame
<1>3. Shaped /\ DOMAIN payout = Payouts /\ DOMAIN payout[p] = {"status", "amount"}
  BY DEF LedgerFrame, Recorded
<1>4. z.status = "paid" /\ z.amount = payout[p].amount
  BY <1>3
<1> HIDE DEF z
<1>5. Alike
  BY <1>2, RewritesAlike DEF Developer!Unpaid
<1>6. \A q \in Payouts : payout'[q] = IF q = p THEN z ELSE payout[q]
  BY <1>1, <1>3
<1>7. \A q \in Payouts : job'[q].amount \in Nat /\ payout'[q].amount \in Nat
  BY <1>1, <1>4, <1>6 DEF LedgerInductive, Counted
<1>8. Counted' /\ Whole' /\ CreditsAddUp'
  BY <1>1, <1>5, <1>7, SumsStay
<1>9. Asked'
  <2>1. SUFFICES ASSUME NEW q \in Payouts PROVE Fits(payout'[q], alloc[q])
    BY <1>1 DEF Asked, Fits, Developer!Rows
  <2>2. CASE q = p
    BY <1>4, <1>6, <2>2 DEF Fits
  <2>3. CASE q # p
    BY <1>6, <2>3 DEF LedgerInductive, Asked
  <2>4. QED
    BY <2>2, <2>3
<1>10. QED
  BY <1>8, <1>9 DEF LedgerInductive

LEMMA ReleaseAdds ==
  ASSUME EarningsNames, LedgerFrame, LedgerInductive, NEW p \in Payouts, Developer!Release(p)
  PROVE  LedgerInductive'
<1> DEFINE z == [payout[p] EXCEPT !.status = "failed"]
           none == [k \in Developer!Rows |-> 0]
<1>1. /\ payout' = [payout EXCEPT ![p] = z] /\ alloc' = [alloc EXCEPT ![p] = none]
      /\ UNCHANGED <<row, job>>
  BY DEF Developer!Release
<1>2. /\ DOMAIN payout = Payouts /\ DOMAIN alloc = Payouts
      /\ DOMAIN payout[p] = {"status", "amount"}
  BY DEF LedgerFrame, Recorded
<1>3. z.status = "failed" /\ z.amount = payout[p].amount
  BY <1>2
<1>4. none \in [Developer!Rows -> Nat] /\ \A k \in Developer!Rows : none[k] = 0
  OBVIOUS
<1> HIDE DEF z, none
<1>5. \A q \in Payouts : /\ payout'[q] = IF q = p THEN z ELSE payout[q]
                         /\ alloc'[q] = IF q = p THEN none ELSE alloc[q]
  BY <1>1, <1>2
<1>6. Counted'
  <2>1. \A k \in Developer!Rows' : row'[k].amount \in Nat
    BY <1>1 DEF LedgerInductive, Counted, Developer!Rows
  <2>2. ASSUME NEW q \in Payouts
        PROVE  /\ alloc'[q] \in [Developer!Rows' -> Nat]
               /\ payout'[q].amount \in Nat /\ job'[q].amount \in Nat
    <3>1. Developer!Rows' = Developer!Rows
      BY DEF Developer!Rows
    <3>2. QED
      BY <1>1, <1>3, <1>4, <1>5, <3>1 DEF LedgerInductive, Counted
  <2>3. QED
    BY <2>1, <2>2 DEF Counted
<1>7. Whole'
  <2>1. SUFFICES ASSUME NEW q \in Payouts, NEW k \in Developer!Rows, alloc'[q][k] > 0
                 PROVE  /\ alloc'[q][k] = row[k].amount /\ row[k].status # "none"
                        /\ \A r \in Payouts \ {q} : alloc'[r][k] = 0
    BY <1>1 DEF Whole, Developer!Rows
  <2>2. q # p /\ alloc'[q] = alloc[q]
    BY <1>4, <1>5, <2>1
  <2>3. QED
    BY <1>4, <1>5, <2>1, <2>2 DEF LedgerInductive, Whole
<1>8. Asked'
  <2>1. SUFFICES ASSUME NEW q \in Payouts PROVE Fits(payout'[q], alloc'[q])
    BY DEF Asked, Fits, Developer!Rows
  <2>2. CASE q = p
    BY <1>3, <1>4, <1>5, <2>2 DEF Fits
  <2>3. CASE q # p
    BY <1>5, <2>3 DEF LedgerInductive, Asked
  <2>4. QED
    BY <2>2, <2>3
<1>9. CreditsAddUp'
  BY <1>1 DEF LedgerInductive, CreditsAddUp, Live, Amount, Developer!RowsOf, Developer!Having, Developer!Rows
<1>10. QED
  BY <1>6, <1>7, <1>8, <1>9 DEF LedgerInductive

LEMMA ApproveAdds ==
  ASSUME EarningsNames, LedgerFrame, LedgerInductive, NEW p \in Payouts,
         NEW a \in Developer!Amounts, Developer!Approve(p, a)
  PROVE  LedgerInductive'
<1> DEFINE z == [status |-> "approved", amount |-> a]
<1>1. /\ payout' = [payout EXCEPT ![p] = z] /\ UNCHANGED <<row, alloc, job>>
      /\ payout[p].status = "requested" /\ a > 0 /\ a <= payout[p].amount
  BY DEF Developer!Approve
<1>2. z.status = "approved" /\ z.amount = a /\ a \in Nat
  BY <1>1 DEF Developer!Amounts
<1> HIDE DEF z
<1>3. \A q \in Payouts : payout'[q] = IF q = p THEN z ELSE payout[q]
  BY <1>1 DEF LedgerFrame, Recorded
<1>4. \A q \in Payouts : job'[q].amount \in Nat /\ payout'[q].amount \in Nat
  BY <1>1, <1>2, <1>3 DEF LedgerInductive, Counted
<1>5. Counted' /\ Whole' /\ CreditsAddUp'
  BY <1>1, <1>4, SumsStay, StillAlike
<1>6. Asked'
  <2>1. SUFFICES ASSUME NEW q \in Payouts PROVE Fits(payout'[q], alloc[q])
    BY <1>1 DEF Asked, Fits, Developer!Rows
  <2>2. CASE q = p
    <3> DEFINE sum == SumFunctionOnSet(alloc[p], Developer!Rows)
    <3>1. sum - payout[p].amount = 0
      BY <1>1 DEF LedgerInductive, Asked, Fits
    <3>2. sum \in Int /\ payout[p].amount \in Nat
      <4>1. \A k \in Developer!Rows : alloc[p][k] \in Nat
        BY DEF LedgerInductive, Counted
      <4>2. QED
        BY <4>1, RowsFinite, SumInt DEF LedgerInductive, Counted
    <3>3. payout'[p].status = "approved" /\ payout'[p].amount = a
      BY <1>2, <1>3
    <3> HIDE DEF sum
    <3>4. sum - a >= 0
      BY <1>1, <1>2, <3>1, <3>2
    <3>5. Fits(payout'[p], alloc[p])
      BY <3>3, <3>4 DEF Fits, sum
    <3>6. QED
      BY <2>2, <3>5
  <2>3. CASE q # p
    BY <1>3, <2>3 DEF LedgerInductive, Asked
  <2>4. QED
    BY <2>2, <2>3
<1>7. QED
  BY <1>5, <1>6 DEF LedgerInductive

LEMMA SmallerOf ==
  ASSUME NEW a \in Int, NEW b \in Int
  PROVE  Developer!Min({a, b}) = IF a <= b THEN a ELSE b
<1>1. \E x \in {a, b} : \A y \in {a, b} : x <= y
  OBVIOUS
<1>2. Developer!Min({a, b}) \in {a, b} /\ \A y \in {a, b} : Developer!Min({a, b}) <= y
  BY <1>1 DEF Developer!Min
<1>3. QED
  BY <1>2

\* A part of a credit is worth what it is cut from.
LEMMA PartsAddUp ==
  ASSUME EarningsNames, Shaped, Counted, CreditsAddUp,
         NEW k \in Developer!Rows, NEW x \in Developer!Rows, NEW y \in Developer!Rows,
         x # y, {x, y} \ {k} \subseteq Developer!Fresh, row[k].status \notin {"none", "superseded"},
         row'[x].of = row[k].of, row'[y].of = row[k].of,
         row'[x].status # "superseded", row'[y].status # "superseded",
         row'[x].amount \in Int, row'[y].amount \in Int,
         row'[x].amount + row'[y].amount = row[k].amount,
         k \notin {x, y} => row'[k].of = row[k].of /\ row'[k].status = "superseded",
         \A j \in Developer!Rows \ {k, x, y} : row'[j] = row[j]
  PROVE  CreditsAddUp'
<1>1. SUFFICES ASSUME NEW c \in Credits, Developer!RowsOf(c)' # {}
               PROVE  SumFunctionOnSet(Amount', Live(c)') = Share[c]
  BY DEF CreditsAddUp
<1>2. \A j \in {x, y} \ {k} : row[j].of = NoCredit /\ row[j].status = "none"
  BY DEF Shaped, Developer!Fresh
<1>3. c # NoCredit
  BY DEF EarningsNames
<1>4. Live(c)' = {j \in Developer!Rows : row'[j].of = c /\ row'[j].status # "superseded"}
  BY DEF Live, Developer!RowsOf, Developer!Having, Developer!Rows
<1>5. Live(c) = {j \in Developer!Rows : row[j].of = c /\ row[j].status # "superseded"}
  BY DEF Live, Developer!RowsOf, Developer!Having
<1>6. \A j \in Developer!Rows : Amount[j] = row[j].amount /\ Amount'[j] = row'[j].amount
  BY DEF Amount, Developer!Rows
<1>7. IsFiniteSet(Live(c)) /\ IsFiniteSet(Live(c)')
  BY <1>4, <1>5, RowsFinite
<1>8. \A j \in Live(c) : Amount[j] \in Int
  BY <1>5, <1>6 DEF Counted
<1> DEFINE S == Live(c)
           T == Live(c)'
           w == Amount
           v == Amount'
<1>9. CASE row[k].of = c
  <2>1. k \in S /\ x \in T /\ y \in T
    BY <1>4, <1>5, <1>9
  <2>2. T \ {x, y} = S \ {k}
    BY <1>2, <1>3, <1>4, <1>5, <1>9
  <2>3. \A j \in S \ {k} : v[j] = w[j]
    BY <1>2, <1>3, <1>5, <1>6
  <2>4. v[x] \in Int /\ v[y] \in Int /\ v[x] + v[y] = w[k]
    BY <1>6
  <2>5. SumFunctionOnSet(w, S) = Share[c]
    BY <2>1 DEF CreditsAddUp, Live
  <2> HIDE DEF S, T, w, v
  <2>6. SumFunctionOnSet(v, T) = SumFunctionOnSet(w, S)
    <3>1. IsFiniteSet(S) /\ IsFiniteSet(T) /\ \A j \in S : w[j] \in Int
      BY <1>7, <1>8 DEF S, T, w
    <3>2. QED
      BY <2>1, <2>2, <2>3, <2>4, <3>1, SumParts
  <2>7. QED
    BY <2>5, <2>6 DEF S, T, w, v
<1>10. CASE row[k].of # c
  <2>1. S = T /\ \A j \in S : v[j] = w[j]
    BY <1>2, <1>3, <1>4, <1>5, <1>6, <1>10
  <2>2. Developer!RowsOf(c) # {}
    BY <1>1, <1>2, <1>3, <1>10 DEF Developer!RowsOf, Developer!Rows
  <2>3. SumFunctionOnSet(w, S) = Share[c]
    BY <2>2 DEF CreditsAddUp
  <2>4. IsFiniteSet(S)
    BY <1>7
  <2> HIDE DEF S, T, w, v
  <2>5. SumFunctionOnSet(v, T) = SumFunctionOnSet(w, S)
    BY <2>1, <2>4, SumSame
  <2>6. QED
    BY <2>3, <2>5 DEF S, T, w, v
<1>11. QED
  BY <1>9, <1>10

LEMMA EarnAdds ==
  ASSUME EarningsNames, LedgerFrame, LedgerInductive, NEW c \in Credits, Developer!Earn(c)
  PROVE  LedgerInductive'
<1> DEFINE m == Developer!Min(Developer!Fresh)
           z == [of |-> c, status |-> "estimated", amount |-> Share[c], flag |-> NoFlag]
<1>1. m \in Developer!Rows /\ row[m].status = "none" /\ row[m].of = NoCredit
  <2>1. m \in Developer!Fresh
    BY LeastRow DEF Developer!Earn, Developer!Fresh
  <2> HIDE DEF m
  <2>2. QED
    BY <2>1 DEF Developer!Fresh, LedgerFrame, Shaped
<1>2. /\ row' = [row EXCEPT ![m] = z] /\ UNCHANGED <<payout, alloc, job>>
      /\ Developer!RowsOf(c) = {}
  BY DEF Developer!Earn
<1>3. z.of = c /\ z.status = "estimated" /\ z.amount = Share[c] /\ Share[c] \in Nat
  BY DEF EarningsNames
<1> HIDE DEF m, z
<1>4. \A k \in Developer!Rows : row'[k] = IF k = m THEN z ELSE row[k]
  BY <1>2 DEF LedgerFrame, Shaped
<1>5. Developer!Rows' = Developer!Rows
  BY DEF Developer!Rows
<1>6. Counted'
  BY <1>2, <1>3, <1>4, <1>5 DEF LedgerInductive, Counted
<1>7. Whole'
  BY <1>1, <1>2, <1>4, <1>5 DEF LedgerInductive, Whole
<1>8. Asked'
  BY <1>2, AskedStays DEF LedgerInductive
<1>9. CreditsAddUp'
  <2>1. SUFFICES ASSUME NEW b \in Credits, Developer!RowsOf(b)' # {}
                 PROVE  SumFunctionOnSet(Amount', Live(b)') = Share[b]
    BY DEF CreditsAddUp
  <2>2. b # NoCredit
    BY DEF EarningsNames
  <2>3. Live(b)' = {j \in Developer!Rows : row'[j].of = b /\ row'[j].status # "superseded"}
    BY DEF Live, Developer!RowsOf, Developer!Having, Developer!Rows
  <2>4. Live(b) = {j \in Developer!Rows : row[j].of = b /\ row[j].status # "superseded"}
    BY DEF Live, Developer!RowsOf, Developer!Having
  <2>5. \A j \in Developer!Rows : Amount[j] = row[j].amount /\ Amount'[j] = row'[j].amount
    BY <1>5 DEF Amount
  <2>6. CASE b = c
    <3>1. Live(b)' = {m}
      BY <1>1, <1>2, <1>3, <1>4, <2>3, <2>6 DEF Developer!RowsOf
    <3>2. Amount'[m] = Share[b] /\ Share[b] \in Int
      BY <1>1, <1>3, <1>4, <2>5, <2>6
    <3> DEFINE v == Amount'
    <3> HIDE DEF v
    <3>3. SumFunctionOnSet(v, {m}) = v[m] + SumFunctionOnSet(v, {m} \ {m})
      <4>1. IsFiniteSet({m}) /\ \A j \in {m} : v[j] \in Int
        BY <3>2, FS_Singleton DEF v
      <4>2. QED
        BY <4>1, SumElement
    <3>4. SumFunctionOnSet(v, {m} \ {m}) = 0
      <4>1. {m} \ {m} = {}
        OBVIOUS
      <4>2. QED
        BY <4>1, SumEmpty
    <3>5. QED
      BY <3>1, <3>2, <3>3, <3>4 DEF v
  <2>7. CASE b # c
    <3> DEFINE S == Live(b)
               w == Amount
               v == Amount'
    <3>1. Live(b)' = S /\ \A j \in S : v[j] = w[j]
      BY <1>1, <1>3, <1>4, <2>2, <2>3, <2>4, <2>5, <2>7
    <3>2. SumFunctionOnSet(w, S) = Share[b]
      <4>1. Developer!RowsOf(b) # {}
        BY <1>1, <1>3, <1>4, <2>1, <2>7 DEF Developer!RowsOf, Developer!Rows
      <4>2. QED
        BY <4>1 DEF LedgerInductive, CreditsAddUp
    <3>3. IsFiniteSet(S)
      BY <2>4, RowsFinite
    <3> HIDE DEF S, w, v
    <3>4. SumFunctionOnSet(v, S) = SumFunctionOnSet(w, S)
      BY <3>1, <3>3, SumSame
    <3>5. QED
      BY <3>1, <3>2, <3>4 DEF v
  <2>8. QED
    BY <2>6, <2>7
<1>10. QED
  BY <1>6, <1>7, <1>8, <1>9 DEF LedgerInductive

\* requestPayout's walk over the rows it read takes what is asked for.
Takes(p) == [k \in Developer!Rows |-> Developer!Taken(p, k)]

LEMMA TakesWalk ==
  ASSUME EarningsNames, Counted, NEW p \in Payouts, job[p].rows \subseteq Developer!Rows
  PROVE  Walks(Takes(p), Amount, job[p].rows, job[p].amount, MaxRows)
<1> DEFINE S == job[p].rows
           t == Takes(p)
<1>1. SUFFICES ASSUME NEW k \in 1..MaxRows
               PROVE  t[k] = IF k \notin S \/ Left(Amount, S, job[p].amount, k) <= 0 THEN 0
                             ELSE IF Left(Amount, S, job[p].amount, k) <= Amount[k]
                                  THEN Left(Amount, S, job[p].amount, k) ELSE Amount[k]
  BY Zenon DEF Walks
<1>2. k \in Developer!Rows /\ t[k] = Developer!Taken(p, k)
  BY DEF Takes, Developer!Rows
<1> DEFINE left == job[p].amount - Developer!Sum({j \in S : j < k})
<1>3. left = Left(Amount, S, job[p].amount, k)
  BY LedgerSum DEF Left, Before
<1>4. left \in Int /\ Amount[k] = row[k].amount /\ row[k].amount \in Nat
  <2>1. Amount[k] = row[k].amount /\ row[k].amount \in Nat
    BY <1>2 DEF Amount, Counted
  <2>2. \A j \in Before(S, k) : Amount[j] \in Nat
    BY DEF Before, Amount, Counted
  <2>3. IsFiniteSet(Before(S, k))
    BY RowsFinite DEF Before
  <2>4. SumFunctionOnSet(Amount, Before(S, k)) \in Nat
    BY <2>2, <2>3, SumInt
  <2>5. job[p].amount \in Nat
    BY DEF Counted
  <2>6. QED
    BY <1>3, <2>1, <2>4, <2>5 DEF Left
<1>5. t[k] = IF k \notin S \/ left <= 0 THEN 0 ELSE Developer!Min({left, row[k].amount})
  BY <1>2 DEF Developer!Taken
<1> HIDE DEF left, t
<1>6. Developer!Min({left, row[k].amount}) = IF left <= row[k].amount THEN left ELSE row[k].amount
  BY <1>4, SmallerOf
<1>7. QED
  BY <1>3, <1>4, <1>5, <1>6

LEMMA TakesAll ==
  ASSUME EarningsNames, Counted, NEW p \in Payouts, job[p].rows \subseteq Developer!Rows, ~Developer!Short(p)
  PROVE  /\ SumFunctionOnSet(Takes(p), Developer!Rows) = job[p].amount
         /\ \A k \in Developer!Rows : /\ Takes(p)[k] \in Nat /\ Takes(p)[k] <= row[k].amount
                                      /\ Takes(p)[k] > 0 => k \in job[p].rows
         /\ \A k \in Developer!Cut(p) : \A j \in Developer!Rows \ {k} :
              Takes(p)[j] > 0 => Takes(p)[j] = row[j].amount
<1> DEFINE S == job[p].rows
           t == Takes(p)
           limit == job[p].amount
<1>1. /\ MaxRows \in Nat /\ Developer!Rows = 1..MaxRows /\ limit \in Nat /\ S \in SUBSET (1..MaxRows)
      /\ \A k \in 1..MaxRows : Amount[k] = row[k].amount /\ Amount[k] \in Nat
  BY DEF EarningsNames, Developer!Rows, Counted, Amount
<1>2. Walks(t, Amount, S, limit, MaxRows)
  BY TakesWalk
<1>3. SumFunctionOnSet(Amount, S) >= limit
  <2>1. SumFunctionOnSet(Amount, S) \in Nat
    <3>1. IsFiniteSet(S) /\ \A k \in S : Amount[k] \in Nat
      BY <1>1, RowsFinite
    <3>2. QED
      BY <3>1, SumInt
  <2>2. ~(SumFunctionOnSet(Amount, S) < limit)
    BY LedgerSum DEF Developer!Short
  <2>3. QED
    BY <1>1, <2>1, <2>2
<1>4. \A k \in Developer!Cut(p) : k \in 1..MaxRows /\ t[k] > 0 /\ t[k] < Amount[k]
  BY <1>1 DEF Developer!Cut, Takes
<1> HIDE DEF S, t, limit
<1>5. \A k \in S : Amount[k] \in Nat
  BY <1>1
<1>6. SumFunctionOnSet(t, 1..MaxRows) = limit
  <2>1. SumFunctionOnSet(t, 1..MaxRows) =
          IF SumFunctionOnSet(Amount, S) <= limit THEN SumFunctionOnSet(Amount, S) ELSE limit
    BY <1>1, <1>2, <1>5, WalkTakes
  <2>2. SumFunctionOnSet(Amount, S) \in Nat
    <3>1. IsFiniteSet(S)
      BY <1>1, RowsFinite
    <3>2. QED
      BY <1>5, <3>1, SumInt
  <2>3. QED
    BY <1>1, <1>3, <2>1, <2>2
<1>7. \A k \in 1..MaxRows : t[k] \in Nat /\ (t[k] > 0 => k \in S) /\ (k \in S => t[k] <= Amount[k])
  BY <1>1, <1>2, <1>5, WalkBounds
<1>8. ASSUME NEW k \in Developer!Cut(p), NEW j \in Developer!Rows \ {k}, t[j] > 0, t[j] # Amount[j] PROVE FALSE
  <2>1. j \in 1..MaxRows /\ k \in 1..MaxRows /\ t[k] > 0 /\ t[k] # Amount[k]
    BY <1>1, <1>4, <1>7
  <2>2. CASE j < k
    BY <1>1, <1>2, <1>5, <1>8, <2>1, <2>2, WalkCutsOne
  <2>3. CASE k < j
    BY <1>1, <1>2, <1>5, <1>8, <2>1, <2>3, WalkCutsOne
  <2>4. QED
    BY <1>8, <2>1, <2>2, <2>3
<1>9. \A k \in Developer!Rows : t[k] \in Nat /\ t[k] <= row[k].amount /\ (t[k] > 0 => k \in S)
  <2>1. SUFFICES ASSUME NEW k \in Developer!Rows
                 PROVE  t[k] \in Nat /\ t[k] <= row[k].amount /\ (t[k] > 0 => k \in S)
    OBVIOUS
  <2>2. k \in 1..MaxRows /\ Amount[k] = row[k].amount /\ Amount[k] \in Nat
    BY <1>1
  <2>3. QED
    BY <1>7, <2>2
<1>10. \A k \in Developer!Cut(p) : \A j \in Developer!Rows \ {k} : t[j] > 0 => t[j] = row[j].amount
  BY <1>1, <1>8
<1>11. SumFunctionOnSet(t, Developer!Rows) = limit
  BY <1>1, <1>6
<1>12. QED
  BY <1>9, <1>10, <1>11 DEF S, t, limit

LEMMA CommitAdds ==
  ASSUME EarningsNames, LedgerFrame, LedgerInductive, NEW p \in Payouts, Developer!RequestCommits(p)
  PROVE  LedgerInductive'
<1> DEFINE t == Takes(p)
<1>1. /\ job[p].step = "read" /\ (Developer!Cut(p) # {} => Developer!Fresh # {})
      /\ job' = [job EXCEPT ![p] = Developer!NoJob]
  BY DEF Developer!RequestCommits
<1>2. /\ job[p].rows \subseteq Developer!Rows
      /\ \A k \in job[p].rows : row[k].status \notin {"none", "superseded"}
  BY <1>1 DEF LedgerFrame, Snapshots, Standing
<1>3. \A q \in Payouts : job'[q].amount \in Nat
  <2>1. Developer!NoJob.amount = 0
    BY DEF Developer!NoJob
  <2>2. QED
    BY <1>1, <2>1 DEF LedgerInductive, Counted, LedgerFrame, Recorded
<1>4. CASE ~Developer!Allocatable(p)
  <2>1. UNCHANGED <<row, payout, alloc>>
    BY <1>4 DEF Developer!RequestCommits
  <2>2. QED
    BY <1>3, <2>1, LedgerKept, StillAlike
<1>5. CASE Developer!Allocatable(p)
  <2> DEFINE z == [status |-> "requested", amount |-> job[p].amount]
  <2>1. /\ row' = Developer!SplitRows(p) /\ alloc' = [alloc EXCEPT ![p] = t]
        /\ payout' = [payout EXCEPT ![p] = z]
    BY <1>5 DEF Developer!RequestCommits, Takes
  <2>2. z.status = "requested" /\ z.amount = job[p].amount
    OBVIOUS
  <2>3. Counted /\ Whole /\ Asked /\ CreditsAddUp /\ Shaped
    BY DEF LedgerInductive, LedgerFrame
  <2>4. /\ SumFunctionOnSet(t, Developer!Rows) = job[p].amount
        /\ \A k \in Developer!Rows : t[k] \in Nat /\ t[k] <= row[k].amount /\ (t[k] > 0 => k \in job[p].rows)
        /\ \A k \in Developer!Cut(p) : \A j \in Developer!Rows \ {k} : t[j] > 0 => t[j] = row[j].amount
    BY <1>2, <1>5, <2>3, TakesAll DEF Developer!Allocatable
  <2>5. \A k \in Developer!Rows : t[k] = Developer!Taken(p, k)
    BY DEF Takes
  <2>6. t \in [Developer!Rows -> Nat]
    <3>1. t = [k \in Developer!Rows |-> t[k]]
      BY DEF Takes
    <3> HIDE DEF t
    <3>2. QED
      BY <2>4, <3>1
  <2>7. \A q \in Payouts, k \in Developer!Rows : t[k] > 0 => alloc[q][k] = 0
    BY <1>5, <2>5 DEF Developer!Allocatable
  <2> HIDE DEF t, z
  <2>8. \A q \in Payouts : /\ alloc'[q] = IF q = p THEN t ELSE alloc[q]
                           /\ payout'[q] = IF q = p THEN z ELSE payout[q]
    BY <2>1 DEF LedgerFrame, Recorded
  <2>9. Developer!Rows' = Developer!Rows /\ job[p].amount \in Nat
    BY <2>3 DEF Developer!Rows, Counted
  <2>10. Asked'
    <3>1. SUFFICES ASSUME NEW q \in Payouts PROVE Fits(payout'[q], alloc'[q])
      BY <2>9 DEF Asked, Fits
    <3>2. CASE q = p
      BY <2>2, <2>4, <2>8, <2>9, <3>2 DEF Fits
    <3>3. CASE q # p
      BY <2>3, <2>8, <3>3 DEF Asked
    <3>4. QED
      BY <3>2, <3>3
  \* What the rows become does not matter to who else holds them.
  <2>11. ASSUME \A k \in Developer!Rows : row'[k].amount \in Nat,
                \A k \in Developer!Rows : t[k] > 0 => t[k] = row'[k].amount /\ row'[k].status # "none",
                \A k \in Developer!Rows : t[k] = 0 /\ row[k].status # "none" => row'[k] = row[k]
         PROVE  Counted' /\ Whole'
    <3>1. Counted'
      BY <1>3, <2>2, <2>3, <2>6, <2>8, <2>9, <2>11 DEF Counted
    <3>2. Whole'
      <4>1. SUFFICES ASSUME NEW q \in Payouts, NEW k \in Developer!Rows, alloc'[q][k] > 0
                     PROVE  /\ alloc'[q][k] = row'[k].amount /\ row'[k].status # "none"
                            /\ \A r \in Payouts \ {q} : alloc'[r][k] = 0
        BY <2>9 DEF Whole
      <4>2. CASE q = p
        BY <2>7, <2>8, <2>11, <4>1, <4>2
      <4>3. CASE q # p
        <5>1. alloc[q][k] > 0 /\ alloc[q][k] \in Nat
          BY <2>3, <2>8, <4>1, <4>3 DEF Counted
        <5>2. t[k] = 0
          BY <2>4, <2>7, <5>1
        <5>3. row'[k] = row[k]
          BY <2>3, <2>11, <5>1, <5>2 DEF Whole
        <5>4. QED
          BY <2>3, <2>8, <4>3, <5>1, <5>2, <5>3 DEF Whole
      <4>4. QED
        BY <4>2, <4>3
    <3>3. QED
      BY <3>1, <3>2
  <2>12. CASE Developer!Cut(p) = {}
    <3>1. row' = row
      BY <2>1, <2>12 DEF Developer!SplitRows
    <3>2. \A k \in Developer!Rows : t[k] > 0 => t[k] = row'[k].amount /\ row'[k].status # "none"
      <4>1. SUFFICES ASSUME NEW k \in Developer!Rows, t[k] > 0
                     PROVE  t[k] = row[k].amount /\ row[k].status # "none"
        BY <3>1
      <4>2. ~(t[k] < row[k].amount)
        BY <2>5, <2>12, <4>1 DEF Developer!Cut
      <4>3. row[k].amount \in Nat
        BY <2>3 DEF Counted
      <4>4. QED
        BY <1>2, <2>4, <4>1, <4>2, <4>3
    <3>3. \A k \in Developer!Rows : row'[k].amount \in Nat
      BY <2>3, <3>1 DEF Counted
    <3>4. Counted' /\ Whole'
      BY <2>11, <3>1, <3>2, <3>3
    <3>5. CreditsAddUp'
      BY <2>3, <2>9, <3>1 DEF CreditsAddUp, Live, Amount, Developer!RowsOf, Developer!Having
    <3>6. QED
      BY <2>10, <3>4, <3>5 DEF LedgerInductive
  <2>13. CASE Developer!Cut(p) # {}
    <3>1. PICK k, m : SplitOf(p, k, m)
      BY <1>1, <1>2, <2>1, <2>3, <2>13, SplitShape
    <3>2. /\ k \in Developer!Cut(p) /\ k \in Developer!Rows /\ m \in Developer!Rows /\ k # m
          /\ m \in Developer!Fresh /\ row[m].status = "none"
          /\ row[k].status \notin {"none", "superseded"}
          /\ t[k] > 0 /\ t[k] < row[k].amount
      BY <1>2, <2>5, <3>1 DEF SplitOf, Developer!Cut, Developer!Fresh
    <3>3. /\ row'[m].of = row[k].of /\ row'[m].status = "confirmed"
          /\ row'[m].amount = row[k].amount - t[k]
      BY <2>3, <2>5, <3>1, <3>2, PartOf DEF SplitOf
    <3>4. /\ row'[k].of = row[k].of /\ row'[k].status = "confirmed" /\ row'[k].amount = t[k]
          /\ \A j \in Developer!Rows \ {k, m} : row'[j] = row[j]
      BY <2>5, <3>1, <3>2 DEF SplitOf
    <3>5. row[k].amount \in Nat /\ t[k] \in Nat
      BY <2>3, <2>4, <3>2 DEF Counted
    <3>6. row'[k].amount \in Nat /\ row'[m].amount \in Nat /\ row'[k].amount + row'[m].amount = row[k].amount
      BY <3>2, <3>3, <3>4, <3>5
    <3>7. \A j \in Developer!Rows : row'[j].amount \in Nat
      BY <2>3, <3>4, <3>6 DEF Counted
    <3>8. t[m] = 0
      BY <1>2, <2>4, <3>2
    <3>9. ASSUME NEW j \in Developer!Rows, t[j] > 0
          PROVE  t[j] = row'[j].amount /\ row'[j].status # "none"
      <4>1. CASE j = k
        BY <3>4, <4>1
      <4>2. CASE j # k
        <5>1. j # m /\ t[j] = row[j].amount /\ row[j].status # "none"
          BY <1>2, <2>4, <3>2, <3>8, <3>9, <4>2
        <5>2. QED
          BY <3>4, <4>2, <5>1
      <4>3. QED
        BY <4>1, <4>2
    <3>10. \A j \in Developer!Rows : t[j] = 0 /\ row[j].status # "none" => row'[j] = row[j]
      BY <3>2, <3>4
    <3>11. Counted' /\ Whole'
      BY <2>11, <3>7, <3>9, <3>10
    <3>12. CreditsAddUp'
      BY <2>3, <3>2, <3>3, <3>4, <3>6, PartsAddUp
    <3>13. QED
      BY <2>10, <3>11, <3>12 DEF LedgerInductive
  <2>14. QED
    BY <2>12, <2>13
<1>6. QED
  BY <1>4, <1>5

\* processPayout's walk over an allocation gives back what it is over.
Gives(p) == [k \in Developer!Rows |-> alloc[p][k] - Developer!Kept(p, k)]
Keeping(p) == [k \in Developer!Rows |-> Developer!Kept(p, k)]

LEMMA AllocatedWorth ==
  ASSUME EarningsNames, Counted, Whole, NEW p \in Payouts
  PROVE  SumFunctionOnSet(Amount, Developer!Allocated(p)) = SumFunctionOnSet(alloc[p], Developer!Rows)
<1> DEFINE S == Developer!Allocated(p)
           R == Developer!Rows
           w == alloc[p]
<1>1. /\ IsFiniteSet(R) /\ IsFiniteSet(S) /\ IsFiniteSet(R \ S) /\ S \in SUBSET R
  BY RowsFinite DEF Developer!Allocated
<1>2. \A k \in R : w[k] \in Nat
  BY DEF Counted
<1>3. \A k \in S : Amount[k] = w[k]
  BY DEF Whole, Amount, Developer!Allocated
<1>4. \A k \in R \ S : w[k] = 0
  BY <1>2 DEF Developer!Allocated
<1> HIDE DEF S, R, w
<1>5. SumFunctionOnSet(w, R) = SumFunctionOnSet(w, S) + SumFunctionOnSet(w, R \ S)
  BY <1>1, <1>2, SumUnion
<1>6. SumFunctionOnSet(w, R \ S) = 0
  BY <1>1, <1>4, SumZero
<1>7. SumFunctionOnSet(w, S) \in Int
  <2>1. \A k \in S : w[k] \in Int
    BY <1>1, <1>2
  <2>2. QED
    BY <1>1, <2>1, SumInt
<1>8. SumFunctionOnSet(Amount, S) = SumFunctionOnSet(w, S)
  BY <1>1, <1>3, SumSame
<1>9. QED
  BY <1>5, <1>6, <1>7, <1>8 DEF S, R, w

LEMMA GivesWalk ==
  ASSUME EarningsNames, Counted, Whole, NEW p \in Payouts, Developer!Overage(p) \in Nat
  PROVE  /\ Walks(Gives(p), Amount, Developer!Allocated(p), Developer!Overage(p), MaxRows)
         /\ \A k \in Developer!Rows : Developer!Kept(p, k) \in Int
<1> DEFINE S == Developer!Allocated(p)
           limit == Developer!Overage(p)
<1>1. ASSUME NEW k \in Developer!Rows
      PROVE  /\ Gives(p)[k] = IF k \notin S \/ Left(Amount, S, limit, k) <= 0 THEN 0
                              ELSE IF Left(Amount, S, limit, k) <= Amount[k]
                                   THEN Left(Amount, S, limit, k) ELSE Amount[k]
             /\ Developer!Kept(p, k) \in Int
  <2> DEFINE left == limit - Developer!Sum({j \in S : j < k})
             a == alloc[p][k]
  <2>1. left = Left(Amount, S, limit, k)
    BY LedgerSum DEF Left, Before
  <2>2. left \in Int
    <3>1. \A j \in Before(S, k) : Amount[j] \in Nat
      BY DEF Before, Amount, Counted, Developer!Allocated
    <3>2. IsFiniteSet(Before(S, k))
      BY RowsFinite DEF Before, Developer!Allocated
    <3>3. SumFunctionOnSet(Amount, Before(S, k)) \in Nat
      BY <3>1, <3>2, SumInt
    <3>4. QED
      BY <2>1, <3>3 DEF Left
  <2>3. a \in Nat /\ (k \in S <=> a > 0) /\ (k \in S => Amount[k] = a)
    BY <1>1 DEF Counted, Whole, Amount, Developer!Allocated
  <2>4. Developer!Kept(p, k) = IF a = 0 \/ left <= 0 THEN a ELSE a - Developer!Min({left, a})
    BY DEF Developer!Kept
  <2>5. Gives(p)[k] = a - Developer!Kept(p, k)
    BY <1>1 DEF Gives
  <2> HIDE DEF left, a, S, limit
  <2>6. Developer!Min({left, a}) = IF left <= a THEN left ELSE a
    BY <2>2, <2>3, SmallerOf
  <2>7. QED
    BY <2>1, <2>2, <2>3, <2>4, <2>5, <2>6
<1>2. Developer!Rows = 1..MaxRows
  BY DEF Developer!Rows
<1> HIDE DEF S, limit
<1>3. Walks(Gives(p), Amount, S, limit, MaxRows)
  BY <1>1, <1>2 DEF Walks
<1>4. QED
  BY <1>1, <1>3 DEF S, limit

\* What is kept of an allocation that is over is what the payout asks, in whole rows
\* but for one.
LEMMA KeepsAll ==
  ASSUME EarningsNames, Counted, Whole, NEW p \in Payouts, Developer!Overage(p) >= 0
  PROVE  /\ SumFunctionOnSet(Keeping(p), Developer!Rows) = payout[p].amount
         /\ \A k \in Developer!Rows : Keeping(p)[k] \in Nat /\ Keeping(p)[k] <= alloc[p][k]
         /\ \A k \in Developer!Trimmed(p) : \A j \in Developer!Rows \ {k} :
              Keeping(p)[j] > 0 => Keeping(p)[j] = alloc[p][j]
<1> DEFINE S == Developer!Allocated(p)
           R == Developer!Rows
           w == alloc[p]
           limit == Developer!Overage(p)
           t == Gives(p)
           u == Keeping(p)
           all == SumFunctionOnSet(w, R)
           asked == payout[p].amount
<1>1. /\ MaxRows \in Nat /\ R = 1..MaxRows /\ S \in SUBSET (1..MaxRows) /\ asked \in Nat
      /\ \A k \in 1..MaxRows : Amount[k] \in Nat /\ w[k] \in Nat
      /\ \A k \in S : Amount[k] \in Nat /\ Amount[k] = w[k]
      /\ \A k \in 1..MaxRows : k \in S <=> w[k] > 0
  BY DEF EarningsNames, Developer!Rows, Counted, Whole, Amount, Developer!Allocated
<1>2. IsFiniteSet(R) /\ IsFiniteSet(S)
  BY RowsFinite DEF Developer!Allocated
<1>3. all \in Nat
  BY <1>1, <1>2, SumInt
<1>4. limit = all - asked
  BY AllocationSum DEF Developer!Overage
<1>5. limit \in Nat
  BY <1>1, <1>3, <1>4
<1>6. Walks(t, Amount, S, limit, MaxRows) /\ \A k \in R : Developer!Kept(p, k) \in Int
  BY <1>5, GivesWalk
<1>7. \A k \in R : t[k] = w[k] - Developer!Kept(p, k) /\ u[k] = Developer!Kept(p, k)
  BY DEF Gives, Keeping
<1>8. SumFunctionOnSet(Amount, S) = all
  BY AllocatedWorth
<1>9. \A k \in Developer!Trimmed(p) : k \in S /\ k \in 1..MaxRows /\ t[k] > 0 /\ t[k] # Amount[k]
  <2>1. SUFFICES ASSUME NEW k \in Developer!Trimmed(p)
                 PROVE  k \in S /\ k \in 1..MaxRows /\ t[k] > 0 /\ t[k] # Amount[k]
    OBVIOUS
  <2>2. k \in S /\ Developer!Kept(p, k) > 0 /\ Developer!Kept(p, k) < w[k]
    BY DEF Developer!Trimmed
  <2>3. k \in 1..MaxRows /\ k \in R
    BY <1>1, <2>2
  <2>4. t[k] = w[k] - Developer!Kept(p, k) /\ Developer!Kept(p, k) \in Int /\ Amount[k] = w[k] /\ w[k] \in Nat
    BY <1>1, <1>6, <1>7, <2>2, <2>3
  <2> HIDE DEF S, R, w, limit, t, u, all, asked
  <2>5. QED
    BY <2>2, <2>3, <2>4
<1> HIDE DEF S, R, w, limit, t, u, all, asked
<1>10. \A k \in S : Amount[k] \in Nat
  BY <1>1
<1>11. SumFunctionOnSet(t, R) = limit
  <2>1. SumFunctionOnSet(t, 1..MaxRows) =
          IF SumFunctionOnSet(Amount, S) <= limit THEN SumFunctionOnSet(Amount, S) ELSE limit
    BY <1>1, <1>5, <1>6, <1>10, WalkTakes
  <2>2. QED
    BY <1>1, <1>3, <1>4, <1>5, <1>8, <2>1
<1>12. \A k \in 1..MaxRows : t[k] \in Nat /\ (t[k] > 0 => k \in S) /\ (k \in S => t[k] <= Amount[k])
  BY <1>1, <1>5, <1>6, <1>10, WalkBounds
<1>13. ASSUME NEW k \in R PROVE u[k] \in Nat /\ u[k] <= w[k] /\ w[k] = u[k] + t[k] /\ t[k] \in Nat
  <2>1. k \in 1..MaxRows /\ w[k] \in Nat /\ (k \in S <=> w[k] > 0) /\ (k \in S => Amount[k] = w[k])
    BY <1>1, <1>13
  <2>2. t[k] \in Nat /\ (t[k] > 0 => k \in S) /\ (k \in S => t[k] <= Amount[k])
    BY <1>12, <2>1
  <2>3. Developer!Kept(p, k) \in Int /\ t[k] = w[k] - Developer!Kept(p, k) /\ u[k] = Developer!Kept(p, k)
    BY <1>6, <1>7, <1>13
  <2>4. QED
    BY <2>1, <2>2, <2>3
<1>14. SumFunctionOnSet(u, R) = asked
  <2>1. \A k \in R : u[k] \in Int /\ t[k] \in Int /\ w[k] = u[k] + t[k]
    BY <1>13
  <2>2. all = SumFunctionOnSet(u, R) + SumFunctionOnSet(t, R)
    BY <1>2, <2>1, SumAdd DEF all
  <2>3. SumFunctionOnSet(u, R) \in Int
    BY <1>2, <2>1, SumInt
  <2>4. QED
    <3>1. SumFunctionOnSet(t, R) = all - asked
      BY <1>4, <1>11
    <3> HIDE DEF all
    <3>2. QED
      BY <1>1, <1>3, <2>2, <2>3, <3>1
<1>15. ASSUME NEW k \in Developer!Trimmed(p), NEW j \in R \ {k}, u[j] > 0, u[j] # w[j] PROVE FALSE
  <2>1. j \in 1..MaxRows /\ u[j] \in Nat /\ u[j] <= w[j] /\ w[j] = u[j] + t[j] /\ t[j] \in Nat
    BY <1>1, <1>13, <1>15
  <2>2. t[j] > 0 /\ j \in S /\ Amount[j] = w[j] /\ t[j] # Amount[j]
    BY <1>1, <1>12, <1>15, <2>1
  <2>3. k \in 1..MaxRows /\ t[k] > 0 /\ t[k] # Amount[k]
    BY <1>9
  <2>4. k \in Nat /\ j \in Nat
    BY <1>1, <2>1, <2>3
  <2>5. CASE j < k
    BY <1>1, <1>5, <1>6, <1>10, <2>1, <2>2, <2>3, <2>5, WalkCutsOne
  <2>6. CASE k < j
    BY <1>1, <1>5, <1>6, <1>10, <2>1, <2>2, <2>3, <2>6, WalkCutsOne
  <2>7. QED
    BY <1>15, <2>4, <2>5, <2>6
<1>16. QED
  BY <1>13, <1>14, <1>15 DEF S, R, w, limit, t, u, all, asked

LEMMA ClaimAdds ==
  ASSUME EarningsNames, LedgerFrame, LedgerInductive, NEW p \in Payouts, Developer!ProcessClaims(p)
  PROVE  LedgerInductive'
<1> DEFINE u == Keeping(p)
           v == Developer!TrimmedAllocations(p)
           z == [payout[p] EXCEPT !.status = "processing"]
<1>1. /\ payout[p].status = "approved" /\ Developer!Claimable(p)
      /\ Developer!Trimmed(p) # {} => Developer!Cardinality(Developer!Fresh) >= 2
      /\ row' = Developer!TrimmedRows(p) /\ alloc' = [alloc EXCEPT ![p] = v]
      /\ payout' = [payout EXCEPT ![p] = z] /\ UNCHANGED job
  BY DEF Developer!ProcessClaims
<1>2. Counted /\ Whole /\ Asked /\ CreditsAddUp /\ Shaped
  BY DEF LedgerInductive, LedgerFrame
<1>3. z.status = "processing" /\ z.amount = payout[p].amount
  BY DEF LedgerFrame, Recorded
<1>4. Developer!Overage(p) >= 0
  BY <1>1, <1>2, AllocationSum DEF Asked, Fits, Developer!Overage
<1>5. /\ SumFunctionOnSet(u, Developer!Rows) = payout[p].amount
      /\ \A k \in Developer!Rows : u[k] \in Nat /\ u[k] <= alloc[p][k]
      /\ \A k \in Developer!Trimmed(p) : \A j \in Developer!Rows \ {k} : u[j] > 0 => u[j] = alloc[p][j]
  BY <1>2, <1>4, KeepsAll
<1>6. \A k \in Developer!Rows : u[k] = Developer!Kept(p, k) /\ alloc[p][k] \in Nat /\ row[k].amount \in Nat
  BY <1>2 DEF Keeping, Counted
<1>7. \A k \in Developer!Rows : k \in Developer!Trimmed(p) <=> u[k] > 0 /\ u[k] < alloc[p][k]
  BY <1>5, <1>6 DEF Developer!Trimmed, Developer!Allocated
<1>8. Developer!Rows' = Developer!Rows /\ payout[p].amount \in Nat
  BY <1>2 DEF Developer!Rows, Counted
<1>9. v = [k \in Developer!Rows |-> v[k]]
  BY DEF Developer!TrimmedAllocations
<1>10. \A k \in Developer!Rows : alloc[p][k] > 0 => alloc[p][k] = row[k].amount /\ row[k].status # "none"
  BY <1>2 DEF Whole
<1> HIDE DEF z, u
\* What the rows become does not matter to who else holds them.
<1>11. ASSUME \A k \in Developer!Rows : row'[k].amount \in Nat,
              \A k \in Developer!Rows : v[k] \in Nat,
              SumFunctionOnSet(v, Developer!Rows) = payout[p].amount,
              \A k \in Developer!Rows : v[k] > 0 =>
                /\ v[k] = row'[k].amount /\ row'[k].status # "none"
                /\ \A q \in Payouts \ {p} : alloc[q][k] = 0,
              \A k \in Developer!Rows : alloc[p][k] = 0 /\ row[k].status # "none" => row'[k] = row[k],
              CreditsAddUp'
       PROVE  LedgerInductive'
  <2> HIDE DEF v
  <2>1. \A q \in Payouts : /\ alloc'[q] = IF q = p THEN v ELSE alloc[q]
                           /\ payout'[q] = IF q = p THEN z ELSE payout[q]
    BY <1>1 DEF LedgerFrame, Recorded
  <2>2. v \in [Developer!Rows -> Nat]
    BY <1>9, <1>11
  <2>3. Counted'
    BY <1>1, <1>2, <1>3, <1>8, <1>11, <2>1, <2>2 DEF Counted
  <2>4. Whole'
    <3>1. SUFFICES ASSUME NEW q \in Payouts, NEW k \in Developer!Rows, alloc'[q][k] > 0
                   PROVE  /\ alloc'[q][k] = row'[k].amount /\ row'[k].status # "none"
                          /\ \A r \in Payouts \ {q} : alloc'[r][k] = 0
      BY <1>8 DEF Whole
    <3>2. CASE q = p
      BY <1>11, <2>1, <3>1, <3>2
    <3>3. CASE q # p
      <4>1. alloc[q][k] > 0 /\ alloc[q][k] \in Nat
        BY <1>2, <2>1, <3>1, <3>3 DEF Counted
      <4>2. v[k] = 0
        <5>1. ~(v[k] > 0)
          BY <1>11, <3>3, <4>1
        <5>2. QED
          BY <1>11, <5>1
      <4>3. alloc[p][k] = 0
        BY <1>2, <3>3, <4>1 DEF Whole
      <4>4. row'[k] = row[k]
        BY <1>2, <1>11, <4>1, <4>3 DEF Whole
      <4>5. QED
        BY <1>2, <2>1, <3>3, <4>1, <4>2, <4>4 DEF Whole
    <3>4. QED
      BY <3>2, <3>3
  <2>5. Asked'
    <3>1. SUFFICES ASSUME NEW q \in Payouts PROVE Fits(payout'[q], alloc'[q])
      BY <1>8 DEF Asked, Fits
    <3>2. CASE q = p
      BY <1>3, <1>8, <1>11, <2>1, <3>2 DEF Fits
    <3>3. CASE q # p
      BY <1>2, <2>1, <3>3 DEF Asked
    <3>4. QED
      BY <3>2, <3>3
  <2>6. QED
    BY <1>11, <2>3, <2>4, <2>5 DEF LedgerInductive
<1>12. CASE Developer!Trimmed(p) = {}
  <2>1. row' = row /\ \A k \in Developer!Rows : v[k] = u[k]
    BY <1>1, <1>6, <1>12 DEF Developer!TrimmedRows, Developer!TrimmedAllocations
  <2> HIDE DEF v
  <2>2. SumFunctionOnSet(v, Developer!Rows) = payout[p].amount
    BY <1>5, <2>1, RowsFinite, SumSame
  <2>3. ASSUME NEW k \in Developer!Rows, v[k] > 0
        PROVE  /\ v[k] = row'[k].amount /\ row'[k].status # "none"
               /\ \A q \in Payouts \ {p} : alloc[q][k] = 0
    <3>1. u[k] = alloc[p][k]
      BY <1>5, <1>6, <1>7, <1>12, <2>1, <2>3
    <3>2. QED
      BY <1>2, <2>1, <2>3, <3>1 DEF Whole
  <2>4. CreditsAddUp'
    BY <1>2, <1>8, <2>1 DEF CreditsAddUp, Live, Amount, Developer!RowsOf, Developer!Having
  <2>5. QED
    BY <1>5, <1>6, <1>11, <2>1, <2>2, <2>3, <2>4
<1>13. CASE Developer!Trimmed(p) # {}
  <2> DEFINE k == CHOOSE j \in Developer!Trimmed(p) : TRUE
             s == Developer!Min(Developer!Fresh)
  <2>1. PICK r : TrimOf(p, k, s, r)
    BY <1>1, <1>2, <1>13, TrimShape
  <2>2. \A j \in Developer!Rows :
          v[j] = IF j \in Developer!Trimmed(p) THEN 0 ELSE IF j = s THEN u[k] ELSE u[j]
    <3>1. k \in Developer!Trimmed(p)
      BY <1>13
    <3>2. k \in Developer!Rows
      BY <3>1 DEF Developer!Trimmed, Developer!Allocated
    <3>3. u[k] = Developer!Kept(p, k)
      BY <1>6, <3>2
    <3>4. QED
      BY <1>6, <1>13, <3>3 DEF Developer!TrimmedAllocations
  <2> HIDE DEF k, s, v
  <2>3. /\ k \in Developer!Trimmed(p) /\ k \in Developer!Rows /\ s \in Developer!Rows /\ r \in Developer!Rows
        /\ s # r /\ k # s /\ k # r /\ {s, r} \subseteq Developer!Fresh
        /\ row[s].status = "none" /\ row[r].status = "none" /\ row[k].status = "confirmed"
    BY <2>1 DEF TrimOf, Developer!Trimmed, Developer!Allocated, Developer!Fresh
  <2>4. u[k] > 0 /\ u[k] < alloc[p][k] /\ alloc[p][k] = row[k].amount /\ u[k] \in Nat /\ row[k].amount \in Nat
    BY <1>5, <1>6, <1>7, <1>10, <2>3
  <2>5. alloc[p][s] = 0 /\ alloc[p][r] = 0 /\ u[s] = 0 /\ u[r] = 0
    <3>1. alloc[p][s] = 0 /\ alloc[p][r] = 0
      BY <1>6, <1>10, <2>3
    <3>2. QED
      BY <1>5, <2>3, <3>1
  <2>6. \A j \in Developer!Trimmed(p) : j = k
    <3>1. SUFFICES ASSUME NEW j \in Developer!Trimmed(p), j # k PROVE FALSE
      OBVIOUS
    <3>2. j \in Developer!Rows
      BY DEF Developer!Trimmed, Developer!Allocated
    <3>3. u[j] > 0 /\ u[j] < alloc[p][j] /\ alloc[p][j] \in Nat /\ u[j] \in Nat
      BY <1>5, <1>6, <1>7, <3>2
    <3>4. u[j] = alloc[p][j]
      BY <1>5, <2>3, <3>1, <3>2, <3>3
    <3>5. QED
      BY <3>3, <3>4
  <2>7. /\ row'[s].of = row[k].of /\ row'[s].status = "confirmed" /\ row'[s].amount = u[k]
        /\ row'[r].of = row[k].of /\ row'[r].status = "confirmed"
        /\ row'[r].amount = row[k].amount - u[k]
    BY <1>2, <1>6, <2>1, <2>3, PartOf DEF TrimOf
  <2>8. /\ row'[k].of = row[k].of /\ row'[k].status = "superseded" /\ row'[k].amount = row[k].amount
        /\ \A j \in Developer!Rows \ {k, s, r} : row'[j] = row[j]
    BY <2>1, <2>3 DEF TrimOf
  <2>9. row'[r].amount \in Nat /\ row'[s].amount \in Nat /\ row'[s].amount + row'[r].amount = row[k].amount
    BY <2>4, <2>7
  <2>10. \A j \in Developer!Rows : row'[j].amount \in Nat
    BY <1>6, <2>8, <2>9
  <2>11. \A j \in Developer!Rows : v[j] \in Nat
    BY <1>5, <2>2, <2>4
  <2>12. SumFunctionOnSet(v, Developer!Rows) = payout[p].amount
    <3>1. v[k] = 0 /\ v[s] = u[k] /\ \A j \in Developer!Rows \ {k, s} : v[j] = u[j]
      BY <2>2, <2>3, <2>6
    <3>2. \A j \in Developer!Rows : u[j] \in Int
      BY <1>5
    <3>3. QED
      BY <1>5, <2>3, <2>5, <3>1, <3>2, RowsFinite, SumMoves
  <2>13. ASSUME NEW j \in Developer!Rows, v[j] > 0
         PROVE  /\ v[j] = row'[j].amount /\ row'[j].status # "none"
                /\ \A q \in Payouts \ {p} : alloc[q][j] = 0
    <3>1. j # k
      BY <2>2, <2>3, <2>13
    <3>2. CASE j = s
      <4>1. v[j] = row'[j].amount /\ row'[j].status # "none"
        BY <2>2, <2>3, <2>6, <2>7, <3>1, <3>2
      <4>2. ASSUME NEW q \in Payouts \ {p} PROVE alloc[q][j] = 0
        <5>1. alloc[q][j] \in Nat
          BY <1>2 DEF Counted
        <5>2. ~(alloc[q][j] > 0)
          BY <1>2, <2>3, <3>2 DEF Whole
        <5>3. QED
          BY <5>1, <5>2
      <4>3. QED
        BY <4>1, <4>2
    <3>3. CASE j # s
      <4>1. v[j] = u[j] /\ u[j] > 0
        BY <2>2, <2>6, <2>13, <3>1, <3>3
      <4>2. j # r
        BY <2>5, <4>1
      <4>3. u[j] = alloc[p][j]
        BY <1>5, <2>3, <3>1, <4>1
      <4>4. row'[j] = row[j]
        BY <2>8, <3>1, <3>3, <4>2
      <4>5. QED
        BY <1>2, <4>1, <4>3, <4>4 DEF Whole
    <3>4. QED
      BY <3>2, <3>3
  <2>14. \A j \in Developer!Rows : alloc[p][j] = 0 /\ row[j].status # "none" => row'[j] = row[j]
    BY <2>3, <2>4, <2>8
  <2>15. CreditsAddUp'
    <3>1. {s, r} \ {k} \subseteq Developer!Fresh /\ row'[s].status # "superseded" /\ row'[r].status # "superseded"
      BY <2>3, <2>7
    <3>2. \A j \in Developer!Rows \ {k, s, r} : row'[j] = row[j]
      BY <2>8
    <3>3. QED
      BY <1>2, <2>3, <2>7, <2>8, <2>9, <3>1, <3>2, PartsAddUp
  <2>16. QED
    BY <1>11, <2>10, <2>11, <2>12, <2>13, <2>14, <2>15
<1>14. QED
  BY <1>12, <1>13

LEMMA LedgerStep ==
  ASSUME EarningsNames, LedgerFrame, LedgerInductive, [Developer!Next]_(Developer!vars)
  PROVE  LedgerInductive'
<1>1. ASSUME UNCHANGED <<row, payout, alloc, job>> PROVE LedgerInductive'
  BY <1>1, LedgerKept, StillAlike DEF LedgerInductive, Counted
<1>2. CASE UNCHANGED Developer!vars
  BY <1>1, <1>2 DEF Developer!vars
<1>3. CASE \E p \in Payouts : \/ \E a \in Developer!Amounts : Developer!RequestChecks(p, a)
                              \/ Developer!RequestReads(p, Developer!Eligible)
                              \/ \E k \in Developer!Eligible : Developer!RequestReads(p, {k})
                              \/ Developer!RequestAborts(p)
  BY <1>3, RequestAdds
<1>4. CASE \/ \E c \in Credits : Developer!Earn(c)
           \/ \E k \in Developer!Rows : Developer!Mature(k)
  BY <1>4, EarnAdds, MatureAdds
<1>5. CASE \E p \in Payouts : Developer!RequestCommits(p) \/ Developer!ProcessClaims(p)
  BY <1>5, CommitAdds, ClaimAdds
<1>6. CASE \E p \in Payouts : \/ Developer!Release(p) \/ Developer!Settle(p)
                              \/ \E a \in Developer!Amounts : Developer!Approve(p, a)
  BY <1>6, ReleaseAdds, SettleAdds, ApproveAdds
<1>7. CASE \E f \in Flags : \/ \E c \in Credits \cup {NoCredit} : Developer!CreateFlag(f, c)
                            \/ Developer!Dismiss(f) \/ Developer!Forfeit(f)
  BY <1>7, FlagAdds
<1>8. CASE (\E f \in Flags : Developer!ConfirmEntity(f)) \/ Developer!ReportCommits
  BY <1>8, ReversalAdds DEF Developer!ConfirmEntity, Developer!ReportCommits
<1>9. CASE \E c \in Credits : Developer!ReportScans(c)
  BY <1>1, <1>9 DEF Developer!ReportScans
<1>10. QED
  BY <1>2, <1>3, <1>4, <1>5, <1>6, <1>7, <1>8, <1>9 DEF Developer!Next

\* However requests cut rows and claims trim them, in whatever order credits mature,
\* are held, paid and reversed: the rows of a credit add up to the share it earned,
\* and a payout is allocated whole rows that add up to what it asks (requestPayout,
\* processPayout), also when a request or a claim commits between a report's scan and
\* its commit.
THEOREM RowsAlwaysAddUp == Developer!Spec => []LedgerAddsUp
<1> EarningsNames
  BY MoneyAssumption
<1> DEFINE Inv == LedgerFrame /\ LedgerInductive
<1>1. Developer!Init => Inv
  BY FrameInit, LedgerInit
<1>2. Inv /\ [Developer!Next]_(Developer!vars) => Inv'
  BY FrameStep, LedgerStep
<1>3. Inv => LedgerAddsUp
  BY LedgerImplies
<1> HIDE DEF Inv
<1>4. QED
  BY <1>1, <1>2, <1>3, PTL DEF Developer!Spec
-------------------------------------------------------------------------------
\* ---- the erasure of a developer ----

\* Sums of rows are amounts of money.
RowsAddUp ==
  Threshold \in Nat /\ Erasure!Sum({}) = 0 /\ \A S \in SUBSET ErasureRows : Erasure!Sum(S) \in Nat

LEMMA ErasureSum == ASSUME NEW S PROVE Erasure!Sum(S) = SumFunctionOnSet(Worth, S)
  BY DEF Erasure!Sum, Erasure!MapThenSumSet, Erasure!MapThenFoldSet,
         SumFunctionOnSet, FoldFunctionOnSet, MapThenFoldSet

LEMMA RowsDoAddUp == ASSUME ErasureUnits PROVE RowsAddUp
<1>1. Erasure!Sum({}) = 0
  BY ErasureSum, SumEmpty
<1>2. ASSUME NEW S \in SUBSET ErasureRows PROVE Erasure!Sum(S) \in Nat
  <2>1. IsFiniteSet(S) /\ \A r \in S : Worth[r] \in Nat
    BY FS_Subset DEF ErasureUnits
  <2>2. SumFunctionOnSet(Worth, S) \in Nat
    BY <2>1, SumInt
  <2>3. QED
    BY <2>2, ErasureSum
<1>3. QED
  BY <1>1, <1>2 DEF RowsAddUp, ErasureUnits

Fields == {"pc", "rows", "blocked", "deleted", "forfeit", "stale", "attempt"}

\* An erasure that began and is not doomed sees the rows as they are, and began
\* neither after another had committed nor with a payout under way.
SnapshotHolds ==
  /\ DOMAIN erasure = Erasers /\ \A e \in Erasers : DOMAIN erasure[e] = Fields
  /\ \A e \in Erasers : erasure[e].pc = "begun" /\ ~erasure[e].stale =>
       /\ erasure[e].rows \subseteq {r \in ErasureRows : balance[r] \in Erasure!Obligations}
       /\ deleted => erasure[e].deleted
       /\ withdrawal = "processing" => erasure[e].blocked

Forfeited == {r \in ErasureRows : balance[r] = "forfeited"}

\* What the platform has booked ...
ForfeitBooked ==
  /\ forfeit = Erasure!Sum(Forfeited) /\ forfeit <= Threshold
  /\ ~deleted => Forfeited = {}

\* ... is nothing that a provider was asked to send.
NothingSent ==
  /\ withdrawn \subseteq ErasureRows
  /\ withdrawal = "processing" => ~deleted
  /\ withdrawal = "paid" => \A r \in withdrawn : balance[r] = "paid"

ErasureInductive == SnapshotHolds /\ ForfeitBooked /\ NothingSent

LEMMA ErasureInit == ASSUME RowsAddUp, Erasure!Init PROVE ErasureInductive
<1>1. SnapshotHolds
  <2>1. DOMAIN Erasure!Idle = Fields
    BY DEF Erasure!Idle, Fields
  <2>2. Erasure!Idle.pc = "idle"
    BY Zenon DEF Erasure!Idle
  <2>3. QED
    BY <2>1, <2>2 DEF Erasure!Init, SnapshotHolds
<1>2. Forfeited = {}
  BY DEF Erasure!Init, Forfeited
<1>3. ForfeitBooked
  BY <1>2 DEF Erasure!Init, ForfeitBooked, RowsAddUp
<1>4. QED
  BY <1>1, <1>3 DEF Erasure!Init, NothingSent, ErasureInductive

LEMMA OneField ==
  ASSUME NEW j, DOMAIN j = Fields, NEW b, NEW k, k = [j EXCEPT !.stale = b]
  PROVE  /\ DOMAIN k = Fields /\ k.stale = b
         /\ k.pc = j.pc /\ k.rows = j.rows /\ k.blocked = j.blocked /\ k.deleted = j.deleted
BY DEF Fields

\* What an erasure holds, but for its doom.
SameSnapshot(j, k) ==
  DOMAIN k = Fields /\ k.pc = j.pc /\ k.rows = j.rows /\ k.blocked = j.blocked /\ k.deleted = j.deleted

LEMMA StillHolds ==
  ASSUME SnapshotHolds, DOMAIN erasure' = Erasers,
         \A e \in Erasers : \/ SameSnapshot(erasure[e], erasure'[e]) /\ (erasure[e].stale => erasure'[e].stale)
                            \/ DOMAIN erasure'[e] = Fields /\ erasure'[e].pc # "begun",
         deleted' => deleted \/ \A e \in Erasers : erasure'[e].pc # "begun" \/ erasure'[e].stale,
         withdrawal' = "processing" =>
            withdrawal = "processing" \/ \A e \in Erasers : erasure'[e].pc # "begun" \/ erasure'[e].stale,
         \A e \in Erasers, r \in ErasureRows :
            balance[r] \in Erasure!Obligations /\ balance'[r] \notin Erasure!Obligations
              => erasure'[e].pc # "begun" \/ erasure'[e].stale \/ r \notin erasure[e].rows
  PROVE  SnapshotHolds'
<1>1. \A e \in Erasers : DOMAIN erasure'[e] = Fields
  BY DEF SameSnapshot
<1>2. ASSUME NEW e \in Erasers, erasure'[e].pc = "begun", ~erasure'[e].stale
      PROVE  /\ erasure'[e].rows \subseteq {r \in ErasureRows : balance'[r] \in Erasure!Obligations}
             /\ deleted' => erasure'[e].deleted
             /\ withdrawal' = "processing" => erasure'[e].blocked
  <2>1. SameSnapshot(erasure[e], erasure'[e]) /\ ~erasure[e].stale /\ erasure[e].pc = "begun"
    BY <1>2 DEF SameSnapshot
  <2>2. /\ erasure[e].rows \subseteq {r \in ErasureRows : balance[r] \in Erasure!Obligations}
        /\ deleted => erasure[e].deleted
        /\ withdrawal = "processing" => erasure[e].blocked
    BY <2>1 DEF SnapshotHolds
  <2>3. (deleted' => deleted) /\ (withdrawal' = "processing" => withdrawal = "processing")
    BY <1>2
  <2>4. erasure'[e].rows = erasure[e].rows /\ erasure'[e].blocked = erasure[e].blocked
        /\ erasure'[e].deleted = erasure[e].deleted
    BY <2>1 DEF SameSnapshot
  <2>5. \A r \in erasure[e].rows : r \in ErasureRows /\ balance'[r] \in Erasure!Obligations
    BY <1>2, <2>2
  <2>6. QED
    BY <2>2, <2>3, <2>4, <2>5
<1>3. QED
  BY <1>1, <1>2 DEF SnapshotHolds

\* What a write does to the erasures.
LEMMA Dooms ==
  ASSUME SnapshotHolds, NEW rs, NEW wide \in BOOLEAN, Erasure!Writes(rs, wide)
  PROVE  /\ DOMAIN erasure' = Erasers
         /\ \A e \in Erasers :
              /\ SameSnapshot(erasure[e], erasure'[e]) /\ (erasure[e].stale => erasure'[e].stale)
              /\ erasure[e].pc = "begun" /\ (wide \/ rs \cap erasure[e].rows # {}) => erasure'[e].stale
<1>1. DOMAIN erasure' = Erasers
  BY DEF Erasure!Writes
<1>2. ASSUME NEW e \in Erasers
      PROVE  /\ SameSnapshot(erasure[e], erasure'[e]) /\ (erasure[e].stale => erasure'[e].stale)
             /\ erasure[e].pc = "begun" /\ (wide \/ rs \cap erasure[e].rows # {}) => erasure'[e].stale
  <2> DEFINE b == erasure[e].stale \/ (erasure[e].pc = "begun" /\ (wide \/ rs \cap erasure[e].rows # {}))
  <2>1. erasure'[e] = [erasure[e] EXCEPT !.stale = b]
    BY Zenon DEF Erasure!Writes
  <2>2. DOMAIN erasure[e] = Fields
    BY DEF SnapshotHolds
  <2>3. erasure'[e].stale = b /\ SameSnapshot(erasure[e], erasure'[e])
    <3> HIDE DEF b
    <3>1. QED
      BY <2>1, <2>2, OneField DEF SameSnapshot
  <2>4. QED
    BY <2>3
<1>3. QED
  BY <1>1, <1>2

LEMMA EndsOne ==
  ASSUME SnapshotHolds, NEW e \in Erasers, NEW others \in BOOLEAN, erasure' = Erasure!Ended(e, others)
  PROVE  /\ DOMAIN erasure' = Erasers
         /\ DOMAIN erasure'[e] = Fields /\ erasure'[e].pc = "idle"
         /\ \A f \in Erasers \ {e} :
              /\ SameSnapshot(erasure[f], erasure'[f]) /\ (erasure[f].stale => erasure'[f].stale)
              /\ others => erasure'[f].stale
<1>1. DOMAIN erasure' = Erasers
  BY Zenon DEF Erasure!Ended
<1>2. erasure'[e] = Erasure!Idle
  BY Zenon DEF Erasure!Ended
<1>3. DOMAIN Erasure!Idle = Fields /\ Erasure!Idle.pc = "idle"
  <2>1. DOMAIN Erasure!Idle = Fields
    BY DEF Erasure!Idle, Fields
  <2>2. Erasure!Idle.pc = "idle"
    BY Zenon DEF Erasure!Idle
  <2>3. QED
    BY <2>1, <2>2
<1>4. ASSUME NEW f \in Erasers, f # e
      PROVE  /\ SameSnapshot(erasure[f], erasure'[f]) /\ (erasure[f].stale => erasure'[f].stale)
             /\ others => erasure'[f].stale
  <2> DEFINE b == erasure[f].stale \/ others
  <2>1. erasure'[f] = [erasure[f] EXCEPT !.stale = b]
    BY <1>4, Zenon DEF Erasure!Ended
  <2>2. DOMAIN erasure[f] = Fields
    BY DEF SnapshotHolds
  <2>3. erasure'[f].stale = b /\ SameSnapshot(erasure[f], erasure'[f])
    <3> HIDE DEF b
    <3>1. QED
      BY <2>1, <2>2, OneField DEF SameSnapshot
  <2>4. QED
    BY <2>3
<1>5. QED
  BY <1>1, <1>2, <1>3, <1>4

\* A transaction that writes live rows leaves the booked ones alone.
LEMMA PutsRows ==
  ASSUME ErasureInductive, NEW rs \in SUBSET ErasureRows,
         NEW to \in {"estimated", "confirmed", "held", "reversed"},
         \A r \in rs : balance[r] \notin {"forfeited", "paid"},
         Erasure!Put(rs, to), Erasure!Else, UNCHANGED withdrawal
  PROVE  ErasureInductive'
<1>1. balance' = [r \in ErasureRows |-> IF r \in rs THEN to ELSE balance[r]] /\ Erasure!Writes(rs, FALSE)
  BY DEF Erasure!Put
<1>2. UNCHANGED <<withdrawn, deleted, forfeit, withdrawal>>
  BY DEF Erasure!Else
<1>3. SnapshotHolds
  BY DEF ErasureInductive
<1>4. /\ DOMAIN erasure' = Erasers
      /\ \A e \in Erasers :
           /\ SameSnapshot(erasure[e], erasure'[e]) /\ (erasure[e].stale => erasure'[e].stale)
           /\ erasure[e].pc = "begun" /\ rs \cap erasure[e].rows # {} => erasure'[e].stale
  BY <1>1, <1>3, Dooms
<1>5. ASSUME NEW e \in Erasers, NEW r \in ErasureRows,
             balance[r] \in Erasure!Obligations, balance'[r] \notin Erasure!Obligations
      PROVE  erasure'[e].pc # "begun" \/ erasure'[e].stale \/ r \notin erasure[e].rows
  <2>1. r \in rs
    BY <1>1, <1>5
  <2>2. QED
    BY <1>4, <2>1 DEF SameSnapshot
<1>6. SnapshotHolds'
  BY <1>2, <1>3, <1>4, <1>5, StillHolds
<1>7. Forfeited' = Forfeited
  BY <1>1 DEF Forfeited
<1>8. ForfeitBooked'
  BY <1>2, <1>7 DEF ErasureInductive, ForfeitBooked
<1>9. NothingSent'
  BY <1>1, <1>2 DEF ErasureInductive, NothingSent
<1>10. QED
  BY <1>6, <1>8, <1>9 DEF ErasureInductive

\* An erasure that begins shows what there is.
LEMMA BeginsOne ==
  ASSUME ErasureInductive, NEW e \in Erasers, NEW f, NEW n, Erasure!Begins(e, f, n),
         UNCHANGED <<balance, withdrawal, withdrawn, deleted, forfeit>>
  PROVE  ErasureInductive'
<1> DEFINE k == [pc |-> "begun", rows |-> {r \in ErasureRows : balance[r] \in Erasure!Obligations},
                 blocked |-> debt \/ withdrawal \in Erasure!Open, deleted |-> deleted,
                 forfeit |-> f, stale |-> FALSE, attempt |-> n]
<1>1. erasure' = [erasure EXCEPT ![e] = k]
  BY Zenon DEF Erasure!Begins
<1>2. /\ k.rows = {r \in ErasureRows : balance[r] \in Erasure!Obligations}
      /\ k.blocked = (debt \/ withdrawal \in Erasure!Open) /\ k.deleted = deleted
  BY Zenon
<1>3. DOMAIN k = Fields
  BY DEF Fields
<1> HIDE DEF k
<1>4. SnapshotHolds'
  <2>1. DOMAIN erasure' = Erasers /\ \A g \in Erasers : DOMAIN erasure'[g] = Fields
    BY <1>1, <1>3 DEF ErasureInductive, SnapshotHolds
  <2>2. ASSUME NEW g \in Erasers, erasure'[g].pc = "begun", ~erasure'[g].stale
        PROVE  /\ erasure'[g].rows \subseteq {r \in ErasureRows : balance'[r] \in Erasure!Obligations}
               /\ deleted' => erasure'[g].deleted
               /\ withdrawal' = "processing" => erasure'[g].blocked
    <3>1. CASE g = e
      <4>1. erasure'[g] = k
        BY <1>1, <3>1 DEF ErasureInductive, SnapshotHolds
      <4>2. erasure'[g].rows \subseteq {r \in ErasureRows : balance'[r] \in Erasure!Obligations}
        BY <1>2, <4>1
      <4>3. deleted' => erasure'[g].deleted
        BY <1>2, <4>1
      <4>4. withdrawal' = "processing" => erasure'[g].blocked
        BY <1>2, <4>1 DEF Erasure!Open
      <4>5. QED
        BY <4>2, <4>3, <4>4
    <3>2. CASE g # e
      BY <1>1, <2>2, <3>2 DEF ErasureInductive, SnapshotHolds
    <3>3. QED
      BY <3>1, <3>2
  <2>3. QED
    BY <2>1, <2>2 DEF SnapshotHolds
<1>5. ForfeitBooked' /\ NothingSent'
  BY DEF ErasureInductive, ForfeitBooked, NothingSent, Forfeited
<1>6. QED
  BY <1>4, <1>5 DEF ErasureInductive

LEMMA ErasureStep ==
  ASSUME RowsAddUp, ErasureInductive, [Erasure!Next]_(Erasure!vars)
  PROVE  ErasureInductive'
<1> DEFINE MoneyKept == UNCHANGED <<balance, withdrawal, withdrawn, deleted, forfeit>>
<1>1. MoneyKept => ForfeitBooked' /\ NothingSent'
  BY DEF ErasureInductive, ForfeitBooked, NothingSent, Forfeited
<1>2. ASSUME NEW r \in ErasureRows, Erasure!Credited(r) \/ Erasure!Matured(r) PROVE ErasureInductive'
  <2>1. CASE Erasure!Credited(r)
    BY <2>1, PutsRows DEF Erasure!Credited
  <2>2. CASE Erasure!Matured(r)
    BY <2>2, PutsRows DEF Erasure!Matured
  <2>3. QED
    BY <1>2, <2>1, <2>2
<1>3. CASE Erasure!FlagRaised
  <2> DEFINE rs == {r \in ErasureRows : balance[r] \in Erasure!Obligations}
  <2>1. Erasure!Put(rs, "held") /\ Erasure!Else /\ UNCHANGED withdrawal
    BY <1>3 DEF Erasure!FlagRaised
  <2>2. \A r \in rs : balance[r] \notin {"forfeited", "paid"}
    BY DEF Erasure!Obligations
  <2>3. rs \in SUBSET ErasureRows
    OBVIOUS
  <2> HIDE DEF rs
  <2>4. QED
    BY <2>1, <2>2, <2>3, PutsRows
<1>4. CASE Erasure!FlagDismissed
  <2> DEFINE rs == {r \in ErasureRows : balance[r] = "held"}
  <2>1. Erasure!Put(rs, "confirmed") /\ Erasure!Else /\ UNCHANGED withdrawal
    BY <1>4 DEF Erasure!FlagDismissed
  <2>2. \A r \in rs : balance[r] \notin {"forfeited", "paid"}
    OBVIOUS
  <2>3. rs \in SUBSET ErasureRows
    OBVIOUS
  <2> HIDE DEF rs
  <2>4. QED
    BY <2>1, <2>2, <2>3, PutsRows
<1>5. ASSUME NEW r \in ErasureRows, Erasure!EarningReversed(r) PROVE ErasureInductive'
  <2>1. CASE balance[r] = "paid"
    <3>1. MoneyKept /\ UNCHANGED erasure
      BY <1>5, <2>1 DEF Erasure!EarningReversed, Erasure!Else
    <3>2. SnapshotHolds'
      BY <3>1 DEF ErasureInductive, SnapshotHolds
    <3>3. QED
      BY <1>1, <3>1, <3>2 DEF ErasureInductive
  <2>2. CASE balance[r] # "paid"
    <3>1. Erasure!Put({r}, "reversed") /\ Erasure!Else /\ UNCHANGED withdrawal /\ balance[r] # "forfeited"
      BY <1>5, <2>2 DEF Erasure!EarningReversed, Erasure!Obligations
    <3>2. QED
      BY <2>2, <3>1, PutsRows
  <2>3. QED
    BY <2>1, <2>2
<1>6. ASSUME NEW rs \in SUBSET ErasureRows, Erasure!PayoutRequested(rs) PROVE ErasureInductive'
  <2>1. withdrawal' = "requested" /\ withdrawn' = rs /\ UNCHANGED <<balance, deleted, forfeit, erasure>>
    BY <1>6 DEF Erasure!PayoutRequested
  <2>2. SnapshotHolds'
    BY <2>1 DEF ErasureInductive, SnapshotHolds
  <2>3. ForfeitBooked' /\ NothingSent'
    BY <2>1 DEF ErasureInductive, ForfeitBooked, NothingSent, Forfeited
  <2>4. QED
    BY <2>2, <2>3 DEF ErasureInductive
<1>7. CASE Erasure!PayoutClaimed
  <2>1. /\ withdrawal' = "processing" /\ ~deleted /\ Erasure!Writes({}, TRUE)
        /\ UNCHANGED <<balance, withdrawn, deleted, forfeit>>
    BY <1>7 DEF Erasure!PayoutClaimed
  <2>2. SnapshotHolds
    BY DEF ErasureInductive
  <2>3. /\ DOMAIN erasure' = Erasers
        /\ \A e \in Erasers :
              /\ SameSnapshot(erasure[e], erasure'[e]) /\ (erasure[e].stale => erasure'[e].stale)
              /\ erasure[e].pc = "begun" => erasure'[e].stale
    BY <2>1, <2>2, Dooms
  <2>4. \A e \in Erasers : erasure'[e].pc # "begun" \/ erasure'[e].stale
    BY <2>3 DEF SameSnapshot
  <2>5. SnapshotHolds'
    BY <2>1, <2>2, <2>3, <2>4, StillHolds
  <2>6. ForfeitBooked' /\ NothingSent'
    BY <2>1 DEF ErasureInductive, ForfeitBooked, NothingSent, Forfeited
  <2>7. QED
    BY <2>5, <2>6 DEF ErasureInductive
<1>8. ASSUME NEW to \in {"paid", "failed"}, Erasure!PayoutEnds(to) PROVE ErasureInductive'
  <2>1. /\ withdrawal = "processing" /\ withdrawal' = to
        /\ \E rs \in SUBSET ErasureRows : Erasure!Writes(rs, TRUE)
        /\ UNCHANGED <<withdrawn, deleted, forfeit>>
    BY <1>8 DEF Erasure!PayoutEnds, ErasureInductive, NothingSent
  <2>2. \/ balance' = balance /\ to = "failed"
        \/ /\ balance' = [r \in ErasureRows |-> IF r \in withdrawn THEN "paid" ELSE balance[r]]
           /\ \A r \in withdrawn : balance[r] = "confirmed"
    BY <1>8 DEF Erasure!PayoutEnds
  <2>3. SnapshotHolds
    BY DEF ErasureInductive
  <2>4. /\ DOMAIN erasure' = Erasers
        /\ \A e \in Erasers :
              /\ SameSnapshot(erasure[e], erasure'[e]) /\ (erasure[e].stale => erasure'[e].stale)
              /\ erasure[e].pc = "begun" => erasure'[e].stale
    BY <2>1, <2>3, Dooms
  <2>5. \A e \in Erasers : erasure'[e].pc # "begun" \/ erasure'[e].stale
    BY <2>4 DEF SameSnapshot
  <2>6. SnapshotHolds'
    BY <2>1, <2>3, <2>4, <2>5, StillHolds
  <2>7. Forfeited' = Forfeited
    BY <2>2 DEF Forfeited
  <2>8. ForfeitBooked'
    BY <2>1, <2>7 DEF ErasureInductive, ForfeitBooked
  <2>9. NothingSent'
    BY <2>1, <2>2 DEF ErasureInductive, NothingSent
  <2>10. QED
    BY <2>6, <2>8, <2>9 DEF ErasureInductive
<1>9. ASSUME NEW e \in Erasers, Erasure!EraseEnds(e) \/ Erasure!EraseRetries(e) \/ \E f \in BOOLEAN : Erasure!EraseBegins(e, f)
      PROVE  ErasureInductive'
  <2>1. MoneyKept
    BY <1>9 DEF Erasure!EraseEnds, Erasure!EraseRetries, Erasure!EraseBegins
  <2>2. CASE \E f, n : Erasure!Begins(e, f, n)
    BY <2>1, <2>2, BeginsOne
  <2>3. CASE erasure' = Erasure!Ended(e, FALSE)
    <3>1. SnapshotHolds
      BY DEF ErasureInductive
    <3>2. /\ DOMAIN erasure' = Erasers
          /\ DOMAIN erasure'[e] = Fields /\ erasure'[e].pc = "idle"
          /\ \A f \in Erasers \ {e} :
               SameSnapshot(erasure[f], erasure'[f]) /\ (erasure[f].stale => erasure'[f].stale)
      BY <2>3, <3>1, EndsOne
    <3>3. SnapshotHolds'
      BY <2>1, <3>1, <3>2, StillHolds
    <3>4. QED
      BY <1>1, <2>1, <3>3 DEF ErasureInductive
  <2>4. QED
    BY <1>9, <2>2, <2>3 DEF Erasure!EraseEnds, Erasure!EraseRetries, Erasure!EraseBegins
<1>10. ASSUME NEW e \in Erasers, Erasure!EraseCommits(e) PROVE ErasureInductive'
  <2> DEFINE rs == erasure[e].rows
  <2>1. /\ erasure[e].pc = "begun" /\ ~erasure[e].deleted /\ ~erasure[e].stale /\ ~erasure[e].blocked
        /\ rs # {} => Erasure!Sum(rs) <= Threshold
        /\ balance' = [r \in ErasureRows |-> IF r \in rs /\ balance[r] \in Erasure!Obligations
                                       THEN "forfeited" ELSE balance[r]]
        /\ forfeit' = forfeit + Erasure!Sum(rs)
        /\ deleted' /\ erasure' = Erasure!Ended(e, TRUE) /\ UNCHANGED <<withdrawal, withdrawn>>
    BY <1>10 DEF Erasure!EraseCommits, Erasure!Erasable, Erasure!Doomed
  <2>2. SnapshotHolds
    BY DEF ErasureInductive
  <2>3. /\ rs \subseteq {r \in ErasureRows : balance[r] \in Erasure!Obligations}
        /\ ~deleted /\ withdrawal # "processing"
    BY <2>1, <2>2 DEF SnapshotHolds
  <2>4. /\ DOMAIN erasure' = Erasers
        /\ DOMAIN erasure'[e] = Fields /\ erasure'[e].pc = "idle"
        /\ \A f \in Erasers \ {e} :
             /\ SameSnapshot(erasure[f], erasure'[f]) /\ (erasure[f].stale => erasure'[f].stale)
             /\ erasure'[f].stale
    BY <2>1, <2>2, EndsOne
  <2>5. \A f \in Erasers : erasure'[f].pc # "begun" \/ erasure'[f].stale
    BY <2>4
  <2>6. SnapshotHolds'
    BY <2>1, <2>2, <2>4, <2>5, StillHolds
  <2>7. Forfeited' = rs
    <3>1. Forfeited = {}
      BY <2>3 DEF ErasureInductive, ForfeitBooked
    <3>2. QED
      BY <2>1, <2>3, <3>1 DEF Forfeited
  <2>8. forfeit = 0
    <3>1. Forfeited = {}
      BY <2>3 DEF ErasureInductive, ForfeitBooked
    <3>2. QED
      BY <3>1 DEF ErasureInductive, ForfeitBooked, RowsAddUp
  <2>9. ForfeitBooked'
    <3>1. Erasure!Sum(rs) \in Nat
      BY <2>3 DEF RowsAddUp
    <3>2. rs = {} => Erasure!Sum(rs) <= Threshold
      BY DEF RowsAddUp
    <3> HIDE DEF rs
    <3>3. forfeit' = Erasure!Sum(rs) /\ forfeit' <= Threshold
      BY <2>1, <2>8, <3>1, <3>2
    <3>4. QED
      BY <2>1, <2>7, <3>3 DEF ForfeitBooked
  <2>10. NothingSent'
    BY <2>1, <2>3 DEF ErasureInductive, NothingSent, Erasure!Obligations
  <2>11. QED
    BY <2>6, <2>9, <2>10 DEF ErasureInductive
<1>11. CASE UNCHANGED Erasure!vars
  <2>1. MoneyKept /\ UNCHANGED erasure
    BY <1>11 DEF Erasure!vars
  <2>2. SnapshotHolds'
    BY <2>1 DEF ErasureInductive, SnapshotHolds
  <2>3. QED
    BY <1>1, <2>1, <2>2 DEF ErasureInductive
<1>12. QED
  BY <1>2, <1>3, <1>4, <1>5, <1>6, <1>7, <1>8, <1>9, <1>10, <1>11 DEF Erasure!Next

\* However many erasures, flags, reversals and payouts write a developer's rows,
\* the platform books what an erasure took, once, within the threshold, and
\* none of it was handed to a provider (eraseAccountIdentity).
THEOREM BooksWhatItTakes == Erasure!Spec => []ForfeitIsBooked
<1> RowsAddUp
  BY MoneyAssumption, RowsDoAddUp
<1>1. Erasure!Init => ErasureInductive
  BY ErasureInit
<1>2. ErasureInductive /\ [Erasure!Next]_(Erasure!vars) => ErasureInductive'
  BY ErasureStep
<1>3. ErasureInductive => ForfeitIsBooked
  BY DEF ErasureInductive, ForfeitBooked, NothingSent, Forfeited, Erasure!ForfeitIsBooked, ForfeitIsBooked
<1>4. QED
  BY <1>1, <1>2, <1>3, PTL DEF Erasure!Spec
===============================================================================
