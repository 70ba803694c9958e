--------------------------- MODULE AccountErasure ---------------------------
(* The erasure of a developer's account (common/utils/account-erasure) among  *)
(* the transactions that go on writing its money: a SERIALIZABLE transaction  *)
(* that reads a snapshot, forfeits a small balance to the platform and wipes  *)
(* the destination. PostgreSQL aborts it, and it is tried again, when a row   *)
(* it overwrites was written since its snapshot; the other transactions run   *)
(* READ COMMITTED, and what they only insert conflicts with nothing.          *)
EXTENDS Naturals, FiniteSets, FiniteSetsExt

CONSTANTS Rows, Worth,   \* credit rows of the developer and their amounts
          Erasers,       \* invocations of eraseAccountIdentity
          Threshold,     \* FORFEIT_THRESHOLD_MINOR
          Minimum,       \* payoutMinimumMinor
          MaxAttempts    \* ERASURE_MAX_SERIALIZATION_RETRIES

VARIABLES row,        \* status of each row; "forfeited": reversed by the erasure
          payout,     \* status of the developer's payout
          alloc,      \* the rows it holds
          account,    \* its destination: "open", "claimed" by an initiation or "wiped"
          debt,       \* an open recovery debit
          deleted,    \* the user is pseudonymised
          cash,       \* the gdpr-forfeit credit of the platform's cash bucket
          job         \* each erasure, and what its snapshot shows: the rows that are
                      \* obligations, whether a payout or debt blocks, whether it is done

vars == <<row, payout, alloc, account, debt, deleted, cash, job>>

Obligations == {"estimated", "confirmed", "held"}
Open        == {"requested", "processing"}
Sum(rs)     == MapThenSumSet(LAMBDA r : Worth[r], rs)
Idle        == [pc |-> "idle", rows |-> {}, blocked |-> FALSE, deleted |-> FALSE,
                forfeit |-> FALSE, stale |-> FALSE, attempt |-> 0]

TypeOK ==
  /\ row \in [Rows -> {"none", "paid", "reversed", "forfeited"} \cup Obligations]
  /\ payout \in {"none", "paid", "failed"} \cup Open
  /\ alloc \subseteq Rows /\ account \in {"open", "claimed", "wiped"}
  /\ debt \in BOOLEAN /\ deleted \in BOOLEAN /\ cash \in Nat
  /\ \A e \in Erasers : job[e].pc \in {"idle", "begun"} /\ job[e].attempt \in 0..MaxAttempts

Init ==
  /\ row = [r \in Rows |-> "none"]
  /\ payout = "none" /\ alloc = {} /\ account = "open"
  /\ debt = FALSE /\ deleted = FALSE /\ cash = 0
  /\ job = [e \in Erasers |-> Idle]
-------------------------------------------------------------------------------
\* A transaction that writes rows rs, or the destination, dooms the erasures that
\* overwrite them too.
Writes(rs, destination) ==
  job' = [e \in Erasers |->
            [job[e] EXCEPT !.stale =
               @ \/ (job[e].pc = "begun" /\ (destination \/ rs \cap job[e].rows # {}))]]

Put(rs, status) == row' = [r \in Rows |-> IF r \in rs THEN status ELSE row[r]] /\ Writes(rs, FALSE)
Else == UNCHANGED <<alloc, account, deleted, cash>>

\* A qualified impression credits the user, whoever that is by now.
Credited(r) == row[r] = "none" /\ Put({r}, "estimated") /\ UNCHANGED <<payout, debt>> /\ Else

Matured(r) == row[r] = "estimated" /\ Put({r}, "confirmed") /\ UNCHANGED <<payout, debt>> /\ Else

\* A critical flag holds every live row; its dismissal releases them.
FlagRaised ==
  /\ \E r \in Rows : row[r] \in Obligations \ {"held"}
  /\ Put({r \in Rows : row[r] \in Obligations}, "held")
  /\ UNCHANGED <<payout, debt>> /\ Else
FlagDismissed ==
  /\ \E r \in Rows : row[r] = "held"
  /\ Put({r \in Rows : row[r] = "held"}, "confirmed")
  /\ UNCHANGED <<payout, debt>> /\ Else

\* reverseEarnings: a row that was paid leaves a recovery debit, a new row.
EarningReversed(r) ==
  /\ row[r] \in Obligations \cup {"paid"}
  /\ IF row[r] = "paid"
       THEN debt' = TRUE /\ UNCHANGED <<row, job>>
       ELSE Put({r}, "reversed") /\ UNCHANGED debt
  /\ UNCHANGED payout /\ Else

\* requestPayout reads the destination and inserts: it writes no row that exists.
PayoutRequested(rs) ==
  /\ ~deleted /\ account = "open" /\ payout = "none"
  /\ rs # {} /\ \A r \in rs : row[r] = "confirmed"
  /\ Sum(rs) >= Minimum
  /\ payout' = "requested" /\ alloc' = rs
  /\ UNCHANGED <<row, account, debt, deleted, cash, job>>

\* processPayout: the initiation claims the destination before money is sent.
PayoutClaimed ==
  /\ payout = "requested" /\ ~deleted /\ account = "open"
  /\ \A r \in alloc : row[r] = "confirmed"
  /\ payout' = "processing" /\ account' = "claimed" /\ Writes({}, TRUE)
  /\ UNCHANGED <<row, alloc, debt, deleted, cash>>

PayoutEnds(status) ==
  /\ payout = "processing"
  /\ payout' = status
  /\ IF status = "paid"
       THEN /\ \A r \in alloc : row[r] = "confirmed"
            /\ row' = [r \in Rows |-> IF r \in alloc THEN "paid" ELSE row[r]]
       ELSE UNCHANGED row
  /\ account' = (IF account = "claimed" THEN "open" ELSE account)
  /\ Writes(IF status = "paid" THEN alloc ELSE {}, TRUE)
  /\ UNCHANGED <<alloc, debt, deleted, cash>>
-------------------------------------------------------------------------------
\* The snapshot is of the first statement, the one that waits for the lock of the
\* subject: an erasure that waited for another has not seen it.
Begins(e, forfeit, attempt) ==
  job' = [job EXCEPT ![e] =
            [pc |-> "begun", rows |-> {r \in Rows : row[r] \in Obligations},
             blocked |-> debt \/ payout \in Open, deleted |-> deleted,
             forfeit |-> forfeit, stale |-> FALSE, attempt |-> attempt]]

EraseBegins(e, forfeit) ==
  /\ job[e].pc = "idle"
  /\ Begins(e, forfeit, 1)
  /\ UNCHANGED <<row, payout, alloc, account, debt, deleted, cash>>

\* assertNoFinancialErasureObligations, on the snapshot.
Erasable(e) ==
  /\ job[e].rows # {} => job[e].forfeit /\ Sum(job[e].rows) <= Threshold
  /\ ~job[e].blocked

\* The isolation level: SERIALIZABLE, and as it were READ COMMITTED.
Doomed_Never(e) == FALSE
Doomed(e) == job[e].stale

Ended(e, others) == [f \in Erasers |-> IF f = e THEN Idle
                                       ELSE [job[f] EXCEPT !.stale = @ \/ others]]

EraseCommits(e) ==
  /\ job[e].pc = "begun" /\ ~job[e].deleted /\ Erasable(e) /\ ~Doomed(e)
  /\ row' = [r \in Rows |-> IF r \in job[e].rows /\ row[r] \in Obligations THEN "forfeited" ELSE row[r]]
  /\ cash' = cash + Sum(job[e].rows)
  /\ account' = "wiped" /\ deleted' = TRUE
  /\ job' = Ended(e, TRUE)
  /\ UNCHANGED <<payout, alloc, debt>>

\* A retry, up to the last; a refusal; and the answer for a user already deleted.
EraseRetries(e) ==
  /\ job[e].pc = "begun" /\ Doomed(e)
  /\ IF job[e].attempt < MaxAttempts THEN Begins(e, job[e].forfeit, job[e].attempt + 1)
                                     ELSE job' = Ended(e, FALSE)
  /\ UNCHANGED <<row, payout, alloc, account, debt, deleted, cash>>

EraseEnds(e) ==
  /\ job[e].pc = "begun" /\ (job[e].deleted \/ ~Erasable(e))
  /\ job' = Ended(e, FALSE)
  /\ UNCHANGED <<row, payout, alloc, account, debt, deleted, cash>>

Next ==
  \/ \E r \in Rows : Credited(r) \/ Matured(r) \/ EarningReversed(r)
  \/ FlagRaised \/ FlagDismissed
  \/ \E rs \in SUBSET Rows : PayoutRequested(rs)
  \/ PayoutClaimed \/ PayoutEnds("paid") \/ PayoutEnds("failed")
  \/ \E e \in Erasers : \E f \in BOOLEAN : EraseBegins(e, f)
  \/ \E e \in Erasers : EraseCommits(e) \/ EraseRetries(e) \/ EraseEnds(e)
-------------------------------------------------------------------------------
\* "Aggregate before flipping ... then write the cash credits from the pre-flip
\* snapshot" (account-erasure): the platform books exactly the rows that the
\* erasures took from the developer, together no more than the threshold, though
\* flags, reversals, payouts and a second erasure write the same rows meanwhile;
\* and none of those rows is in a payout that was handed to a provider.
ForfeitIsBooked ==
  LET taken == {r \in Rows : row[r] = "forfeited"} IN
    /\ cash = Sum(taken) /\ cash <= Threshold
    /\ payout \in {"processing", "paid"} => taken \cap alloc = {}

\* "Deletion fail closed rather than converting live value into unclaimable value"
\* (account-erasure). Not so: a request that the snapshot does not show is only
\* inserted, and credits of the ads in flight follow.
NothingStranded ==
  deleted => payout \notin Open /\ \A r \in Rows : row[r] \notin Obligations
-------------------------------------------------------------------------------
Spec == Init /\ [][Next]_vars
===============================================================================
