------------------------------- MODULE Earnings --------------------------------
(* The earnings ledger of one developer, row by row: a credit matures, is      *)
(* held and released with fraud flags, is split over payout allocations, paid, *)
(* or reversed with a recovery debt when it was paid (ledger-earnings,         *)
(* payout-request, fraud.service). Transactions run at READ COMMITTED; only    *)
(* requests, claims and flags share the developer's advisory locks.            *)
EXTENDS Integers, FiniteSets, FiniteSetsExt, Functions

CONSTANTS Credits,       \* impressions that may earn a credit
          Share,         \* Share[c]: the developer's share of credit c
          MaxRows,       \* bound on the ledger rows
          Payouts, Flags, NoCredit, NoFlag, NoPayout,
          Overlap        \* whether rows are cut or trimmed while a reversal of them overlaps

VARIABLES row,           \* EarningsLedger credits: [of, status, amount, flag]
          debt,          \* a paid row's recovery debit, of its amount: [status, flag]
          refunded,      \* credits whose advertiser and platform rows are compensated
          payout,        \* PayoutRequest: [status, amount], amount: approved ?? requested
          alloc,         \* PayoutAllocation: amount of a row in a payout, 0 for none
          job,           \* an invocation of requestPayout: [step, amount, rows]
          lock,          \* the request inside its transaction, holding the advisory locks
          flag,          \* critical FraudFlag: [status, on], on = NoCredit: behavioural
          report         \* reportAd's reversal between scan and commit: [of, rows, debts]

vars == <<row, debt, refunded, payout, alloc, job, lock, flag, report>>

Rows     == 1..MaxRows
NoRow    == [of |-> NoCredit, status |-> "none", amount |-> 0, flag |-> NoFlag]
NoJob    == [step |-> "idle", amount |-> 0, rows |-> {}]
NoDebt   == [status |-> "none", flag |-> NoFlag]
NoReport == [of |-> NoCredit, rows |-> {}, debts |-> {}]
Unpaid   == {"estimated", "confirmed", "held"}
Reserved == {"requested", "approved", "processing"}
Amounts  == 0..SumFunctionOnSet(Share, Credits)

Sum(S)       == SumFunctionOnSet([k \in Rows |-> row[k].amount], S)
RowsOf(c)    == {k \in Rows : row[k].of = c}
Having(s)    == {k \in Rows : row[k].status = s}
Allocated(p) == {k \in Rows : alloc[p][k] > 0}
AllocatedSum(p) == SumFunctionOnSet(alloc[p], Rows)

TypeOK ==
  /\ row \in [Rows -> [of : Credits \cup {NoCredit}, amount : Amounts, flag : Flags \cup {NoFlag},
                       status : Unpaid \cup {"none", "paid", "reversed", "superseded"}]]
  /\ debt \in [Rows -> [status : {"none", "confirmed", "held", "reversed"},
                        flag : Flags \cup {NoFlag}]]
  /\ refunded \subseteq Credits
  /\ payout \in [Payouts -> [status : Reserved \cup {"none", "paid", "failed"}, amount : Amounts]]
  /\ alloc \in [Payouts -> [Rows -> Amounts]]
  /\ job \in [Payouts -> [step : {"idle", "checked", "read"}, amount : Amounts,
                          rows : SUBSET Rows]]
  /\ lock \in Payouts \cup {NoPayout}
  /\ flag \in [Flags -> [status : {"none", "active", "valid", "invalid"},
                          on : Credits \cup {NoCredit}]]
  /\ report \in [of : Credits \cup {NoCredit}, rows : SUBSET Rows, debts : SUBSET Rows]

Init ==
  /\ row = [k \in Rows |-> NoRow]
  /\ debt = [k \in Rows |-> NoDebt] /\ refunded = {}
  /\ payout = [p \in Payouts |-> [status |-> "none", amount |-> 0]]
  /\ alloc = [p \in Payouts |-> [k \in Rows |-> 0]]
  /\ job = [p \in Payouts |-> NoJob]
  /\ lock = NoPayout
  /\ flag = [f \in Flags |-> [status |-> "none", on |-> NoCredit]]
  /\ report = NoReport

Fresh == {k \in Rows : row[k].status = "none"}
Paying(k) == \E p \in Payouts : payout[p].status \in Reserved /\ alloc[p][k] > 0
Flagged   == \E f \in Flags : flag[f].status = "active"

\* The outer pre-check's balance: confirmed credits less confirmed debits and reservations.
Available == Sum(Having("confirmed")) - Sum({k \in Rows : debt[k].status = "confirmed"})
             - Sum(UNION {Allocated(p) : p \in {q \in Payouts : payout[q].status \in Reserved}})

-------------------------------------------------------------------------------
\* A billable impression's credit, estimated until its hold period is over.
Earn(c) ==
  /\ RowsOf(c) = {} /\ Fresh # {}
  /\ row' = [row EXCEPT ![Min(Fresh)] =
               [of |-> c, status |-> "estimated", amount |-> Share[c], flag |-> NoFlag]]
  /\ UNCHANGED <<debt, refunded, payout, alloc, job, lock, flag, report>>

Mature(k) ==
  /\ row[k].status = "estimated"
  /\ row' = [row EXCEPT ![k].status = "confirmed"]
  /\ UNCHANGED <<debt, refunded, payout, alloc, job, lock, flag, report>>

-------------------------------------------------------------------------------
\* requestPayout outside its transaction: the only check that nets recovery debts.
RequestChecks(p, a) ==
  /\ payout[p].status = "none" /\ job[p] = NoJob
  /\ a > 0 /\ a <= Available /\ ~Flagged
  /\ job' = [job EXCEPT ![p].step = "checked", ![p].amount = a]
  /\ UNCHANGED <<row, debt, refunded, payout, alloc, lock, flag, report>>

Eligible == {k \in Having("confirmed") : ~Paying(k)}

\* Its transaction takes the locks, looks for flags again and reads the eligible rows, all
\* of them or the ones the caller named.
RequestReads(p, chosen) ==
  /\ job[p].step = "checked" /\ lock = NoPayout
  /\ IF Flagged THEN job' = [job EXCEPT ![p] = NoJob] /\ UNCHANGED lock
     ELSE /\ job' = [job EXCEPT ![p].step = "read", ![p].rows = chosen]
          /\ lock' = p
  /\ UNCHANGED <<row, debt, refunded, payout, alloc, flag, report>>

\* What the oldest-first walk takes of row k.
Taken(p, k) ==
  LET left == job[p].amount - Sum({j \in job[p].rows : j < k})
  IN IF k \notin job[p].rows \/ left <= 0 THEN 0 ELSE Min({left, row[k].amount})

Short(p) == Sum(job[p].rows) < job[p].amount
Cut(p)   == {k \in Rows : Taken(p, k) > 0 /\ Taken(p, k) < row[k].amount}

\* The row cut in two keeps its slice and gets the status of the snapshot back; its
\* remainder is a new row. The update is pinned to the amount, which only transactions
\* under the same locks change.
SplitRows(p) ==
  IF Cut(p) = {} THEN row
  ELSE LET k == CHOOSE j \in Cut(p) : TRUE
       IN [row EXCEPT ![k].amount = Taken(p, k), ![k].status = "confirmed",
                      ![Min(Fresh)] = [row[k] EXCEPT !.amount = @ - Taken(p, k),
                                         !.status = "confirmed", !.flag = NoFlag]]

Allocatable(p) == /\ ~Short(p)
                  /\ \A q \in Payouts, k \in Rows : Taken(p, k) > 0 => alloc[q][k] = 0

\* Rows are cut or trimmed while no report of their credit is between scan and commit, nor
\* has one reversed them since they were read.
Undisturbed(S) == Overlap \/ \A k \in S : row[k].of # report.of /\ row[k].status = "confirmed"

RequestCommits(p) ==
  /\ job[p].step = "read" /\ (Cut(p) # {} => Fresh # {}) /\ Undisturbed(Cut(p))
  /\ IF Allocatable(p)
     THEN /\ row' = SplitRows(p)
          /\ alloc' = [alloc EXCEPT ![p] = [k \in Rows |-> Taken(p, k)]]
          /\ payout' = [payout EXCEPT ![p] = [status |-> "requested", amount |-> job[p].amount]]
     ELSE UNCHANGED <<row, alloc, payout>>
  /\ lock' = NoPayout
  /\ job' = [job EXCEPT ![p] = NoJob]
  /\ UNCHANGED <<debt, refunded, flag, report>>

\* The transaction fails or times out: its locks go.
RequestAborts(p) ==
  /\ job[p].step = "read"
  /\ lock' = NoPayout
  /\ job' = [job EXCEPT ![p] = NoJob]
  /\ UNCHANGED <<row, debt, refunded, payout, alloc, flag, report>>

-------------------------------------------------------------------------------
\* approvePayout, in full or at a lower amount.
Approve(p, a) ==
  /\ payout[p].status = "requested" /\ a > 0 /\ a <= payout[p].amount
  /\ payout' = [payout EXCEPT ![p] = [status |-> "approved", amount |-> a]]
  /\ UNCHANGED <<row, debt, refunded, alloc, job, lock, flag, report>>

\* rejectPayout and markPayoutFailed give the rows back.
Release(p) ==
  /\ payout[p].status \in Reserved
  /\ payout' = [payout EXCEPT ![p].status = "failed"]
  /\ alloc' = [alloc EXCEPT ![p] = [k \in Rows |-> 0]]
  /\ UNCHANGED <<row, debt, refunded, job, lock, flag, report>>

Overage(p) == AllocatedSum(p) - payout[p].amount

\* What processPayout's trim leaves of an allocation: the oldest give way first.
Kept(p, k) ==
  LET left == Overage(p) - Sum({j \in Allocated(p) : j < k})
  IN IF alloc[p][k] = 0 \/ left <= 0 THEN alloc[p][k] ELSE alloc[p][k] - Min({left, alloc[p][k]})

Trimmed(p) == {k \in Allocated(p) : Kept(p, k) > 0 /\ Kept(p, k) < alloc[p][k]}

Slice(k, a) == [row[k] EXCEPT !.amount = a, !.status = "confirmed", !.flag = NoFlag]

\* The allocated row is superseded by a paid slice and a remainder, both new.
TrimmedRows(p) ==
  IF Trimmed(p) = {} THEN row
  ELSE LET k == CHOOSE j \in Trimmed(p) : TRUE
           s == Min(Fresh)
           r == Min(Fresh \ {s})
       IN [row EXCEPT ![k].status = "superseded", ![s] = Slice(k, Kept(p, k)),
                      ![r] = Slice(k, row[k].amount - Kept(p, k))]

TrimmedAllocations_Superseded(p) == [k \in Rows |-> Kept(p, k)]
TrimmedAllocations(p) ==
  [k \in Rows |-> IF k \in Trimmed(p) THEN 0
                  ELSE IF Trimmed(p) # {} /\ k = Min(Fresh)
                       THEN Kept(p, CHOOSE j \in Trimmed(p) : TRUE)
                  ELSE Kept(p, k)]

Claimable(p) == /\ ~Flagged
                /\ \A k \in Rows : Kept(p, k) > 0 => row[k].status = "confirmed"

\* processPayout's claim transaction, under the fraud lock.
ProcessClaims(p) ==
  /\ payout[p].status = "approved" /\ lock = NoPayout
  /\ Claimable(p) /\ (Trimmed(p) # {} => Cardinality(Fresh) >= 2) /\ Undisturbed(Trimmed(p))
  /\ row' = TrimmedRows(p)
  /\ alloc' = [alloc EXCEPT ![p] = TrimmedAllocations(p)]
  /\ payout' = [payout EXCEPT ![p].status = "processing"]
  /\ UNCHANGED <<debt, refunded, job, lock, flag, report>>

Payable_Reversed(p) == Unpaid \cup {"reversed"}
Payable(p) == IF payout[p].status = "processing" THEN {"confirmed", "held"} ELSE {"confirmed"}

\* markPayoutPaid: an operator may call it for an approved payout too.
Settle(p) ==
  /\ payout[p].status \in {"approved", "processing"}
  /\ \A k \in Allocated(p) : row[k].status \in Payable(p) \cup {"paid"}
  /\ row' = [k \in Rows |-> IF k \in Allocated(p)
                            THEN [row[k] EXCEPT !.status = "paid", !.flag = NoFlag] ELSE row[k]]
  /\ payout' = [payout EXCEPT ![p].status = "paid"]
  /\ UNCHANGED <<debt, refunded, alloc, job, lock, flag, report>>

-------------------------------------------------------------------------------
\* An entry held for flag f, and one moved from held, whatever it was before.
Held(e, f) == IF e.status \in {"estimated", "confirmed"} /\ e.flag = NoFlag
              THEN [e EXCEPT !.status = "held", !.flag = f] ELSE e
Moved(e, f, s) == IF e.status = "held" /\ e.flag = f
                  THEN [e EXCEPT !.status = s, !.flag = NoFlag] ELSE e

\* createFlag, critical: every unpaid row not held yet is held for it, recovery debits too;
\* raised again while it is active, it holds what has come since.
CreateFlag(f, c) ==
  /\ \/ flag[f].status = "none" /\ (c = NoCredit \/ RowsOf(c) # {})
     \/ flag[f].status = "active" /\ flag[f].on = c
  /\ lock = NoPayout
  /\ flag' = [flag EXCEPT ![f] = [status |-> "active", on |-> c]]
  /\ row' = [k \in Rows |-> Held(row[k], f)]
  /\ debt' = [k \in Rows |-> Held(debt[k], f)]
  /\ UNCHANGED <<refunded, payout, alloc, job, lock, report>>

\* A verdict may be repeated: its effects are worked out again.
Resolve(f, verdict) ==
  /\ flag[f].status \in {"active", verdict} /\ lock = NoPayout
  /\ flag' = [flag EXCEPT ![f].status = verdict]
InFlight(c)   == \E p \in Payouts, k \in RowsOf(c) :
                   payout[p].status = "processing" /\ alloc[p][k] > 0

MoveHeld(f, s) ==
  /\ row' = [k \in Rows |-> Moved(row[k], f, s)]
  /\ debt' = [k \in Rows |-> Moved(debt[k], f, s)]

Dismiss(f) ==
  /\ Resolve(f, "invalid") /\ MoveHeld(f, "confirmed")
  /\ UNCHANGED <<refunded, payout, alloc, job, lock, report>>

Forfeit(f) ==
  /\ flag[f].on = NoCredit
  /\ Resolve(f, "valid") /\ MoveHeld(f, "reversed")
  /\ UNCHANGED <<refunded, payout, alloc, job, lock, report>>

Unsettled(k) == row[k].status \in Unpaid
Indebted(k)  == debt[k].status \in Unpaid
Withdrawn(e) == [e EXCEPT !.status = "reversed", !.flag = NoFlag]

\* reverseEarnings: the unpaid rows and the debits among those its update found are
\* reversed, a paid row without a debit gets one, the advertiser and the platform are
\* compensated. The update asks for any entry of the credit, and a debit is never restored.
Reversed(c, rows, debts) ==
  /\ row' = [k \in Rows |-> IF k \in rows /\ Unsettled(k) THEN Withdrawn(row[k]) ELSE row[k]]
  /\ debt' = [k \in Rows |->
                IF k \in debts /\ Indebted(k) THEN Withdrawn(debt[k])
                ELSE IF row[k].of = c /\ row[k].status = "paid" /\ debt[k] = NoDebt
                     THEN [NoDebt EXCEPT !.status = "confirmed"]
                ELSE debt[k]]
  /\ refunded' = refunded \cup {c}

\* resolveFlag, valid, on an impression: waits for a payout in flight.
ConfirmEntity(f) ==
  /\ flag[f].on # NoCredit /\ ~InFlight(flag[f].on)
  /\ Resolve(f, "valid") /\ Reversed(flag[f].on, RowsOf(flag[f].on), RowsOf(flag[f].on))
  /\ UNCHANGED <<payout, alloc, job, lock, report>>

\* reportAd's reversal takes no advisory lock. Its update finds the rows of its snapshot,
\* waits for the transactions that hold them and looks at their status again.
ReportScans(c) ==
  /\ RowsOf(c) # {} /\ report = NoReport
  /\ report' = [of |-> c, rows |-> {k \in RowsOf(c) : Unsettled(k)},
                debts |-> {k \in RowsOf(c) : Indebted(k)}]
  /\ UNCHANGED <<row, debt, refunded, payout, alloc, job, lock, flag>>

ReportCommits ==
  /\ report # NoReport
  /\ Reversed(report.of, report.rows, report.debts)
  /\ report' = NoReport
  /\ UNCHANGED <<payout, alloc, job, lock, flag>>

-------------------------------------------------------------------------------
Next ==
  \/ \E c \in Credits : Earn(c)
  \/ \E k \in Rows : Mature(k)
  \/ \E p \in Payouts, a \in Amounts : RequestChecks(p, a)
  \/ \E p \in Payouts : RequestReads(p, Eligible)
  \/ \E p \in Payouts : \E k \in Eligible : RequestReads(p, {k})
  \/ \E p \in Payouts : RequestCommits(p) \/ RequestAborts(p)
  \/ \E p \in Payouts : Release(p) \/ ProcessClaims(p) \/ Settle(p)
  \/ \E p \in Payouts, a \in Amounts : Approve(p, a)
  \/ \E f \in Flags, c \in Credits \cup {NoCredit} : CreateFlag(f, c)
  \/ \E f \in Flags : Dismiss(f) \/ Forfeit(f) \/ ConfirmEntity(f)
  \/ \E c \in Credits : ReportScans(c)
  \/ ReportCommits

Spec == Init /\ [][Next]_vars

-------------------------------------------------------------------------------
\* However credits are split: the live and settled rows of one add up to the share it
\* earned (trimmed and remainder rows of requestPayout and processPayout), and a payout's
\* allocations are whole rows, in no other payout, that add up to what it asks; an
\* approval may leave them over, never short.
LedgerAddsUp ==
  /\ \A c \in Credits : RowsOf(c) # {} => Sum(RowsOf(c) \ Having("superseded")) = Share[c]
  /\ \A p \in Payouts :
       /\ \A k \in Allocated(p) : /\ alloc[p][k] = row[k].amount
                                  /\ \A q \in Payouts \ {p} : alloc[q][k] = 0
       /\ payout[p].status \in {"requested", "processing"} => Overage(p) = 0
       /\ payout[p].status = "approved" => Overage(p) >= 0
       /\ payout[p].status \in {"none", "failed"} => Allocated(p) = {}

Gone(k) == row[k].status \in {"reversed", "superseded"}

\* A refund reaches every part of its credit: however it was split, allocated and paid
\* meanwhile, a row that was not reversed got a recovery debit (reverseEarnings).
RefundIsRecorded == \A c \in refunded : \A k \in RowsOf(c) : Gone(k) \/ debt[k] # NoDebt

\* The debit stays until it is netted (reverseEarnings).
RefundIsFinal == \A c \in refunded : \A k \in RowsOf(c) : Gone(k) \/ Indebted(k)

\* A paid payout retired rows worth what it paid, and no more.
PaidIsAllocated ==
  \A p \in Payouts : payout[p].status = "paid" => AllocatedSum(p) = payout[p].amount

\* A committed request leaves the developer a balance net of his recovery debts.
DebtIsNetted ==
  [][\A p \in Payouts : payout[p].status = "none" /\ payout'[p].status = "requested"
                          => Available' >= 0]_vars
===============================================================================
