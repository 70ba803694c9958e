---------------------------- MODULE AdBillingProofs ----------------------------
(* Theorems about AdBilling for any campaigns, impressions, requests, bids,   *)
(* budgets and funds.                                                         *)
EXTENDS AdBilling, SumTheorems

\* A request that left its gates has an impression that was served.
Working == \A h \in Handlers : pc[h] # "idle" => job[h] \in Impressions /\ Served(job[h])

\* Inside its transaction a request holds the billing lock ...
Exclusive == \A h \in Handlers : pc[h] \in {"billing", "clicking"} => lock = h

\* ... and a billing transaction has claimed a CPM impression nobody settled.
Claimed == \A h \in Handlers : pc[h] = "billing" => Cpm(job[h]) /\ ~Settled(job[h])

\* Nothing happened to an impression that was not served.
Unserved ==
  /\ \A i \in Impressions : ~Served(i) => ~Settled(i) /\ i \notin clicked /\ debits[i] = 0
  /\ \A i \in picked : Served(i) /\ Cpm(i)

\* A CPM impression is charged when it is settled, a CPC impression when it is clicked.
ChargedOnce ==
  \A i \in Impressions :
    Served(i) => IF Cpm(i) THEN /\ i \in qualified => i \in billable \cup invalid
                                /\ debits[i] > 0 => i \in qualified
                           ELSE debits[i] > 0 => i \in clicked

Typed == TypeOK /\ Working
Serial == Exclusive /\ Claimed
Entries == Unserved /\ ChargedOnce

Inductive == Typed /\ Serial /\ Entries

-------------------------------------------------------------------------------
LEMMA InitInductive == Init => Inductive
  BY AdAssumption
  DEF Init, Inductive, Typed, Serial, Entries, TypeOK, Place, Credit, Working, Exclusive,
      Claimed, Unserved, ChargedOnce, Served, Settled

\* Every step preserves it: only a handler that holds the lock changes a claimed
\* impression, and only a settled or clicked impression gets a charge.
LEMMA InductiveStep == ASSUME Inductive, [Next]_vars PROVE Inductive'
<1> USE AdAssumption DEF Inductive, Typed, Serial, Entries, TypeOK, Working, Exclusive, Claimed,
      Unserved, ChargedOnce, Served, Settled, Cpm, RowLocked, Place, Credit,
      campaignVars, impressionVars, ledgerVars, handlerVars
<1>1. ASSUME NEW i \in Impressions, Render(i) PROVE Inductive'
  BY <1>1 DEF Render
<1>2. ASSUME NEW i \in Impressions, CronPicks(i) PROVE Inductive'
  BY <1>2 DEF CronPicks
<1>3. ASSUME NEW i \in Impressions, CronReclaims(i) PROVE Inductive'
  BY <1>3 DEF CronReclaims, Released
<1>4. ASSUME NEW i \in Impressions, FlagFalsePositive(i) PROVE Inductive'
  BY <1>4 DEF FlagFalsePositive, Released
<1>5. ASSUME NEW i \in Impressions, ReportAd(i) PROVE Inductive'
  BY <1>5 DEF ReportAd
<1>6. ASSUME NEW i \in Impressions, ReverseEarnings(i) PROVE Inductive'
  BY <1>6 DEF ReverseEarnings
<1>7. ASSUME NEW i \in Impressions, NEW c \in Campaigns, Serve(i, c) PROVE Inductive'
  BY <1>7 DEF Serve
<1>8. ASSUME NEW h \in Handlers, NEW i \in Impressions, AskQualify(h, i) PROVE Inductive'
  BY <1>8 DEF AskQualify, Enter
<1>9. ASSUME NEW h \in Handlers, NEW i \in Impressions, AskClick(h, i) PROVE Inductive'
  BY <1>9 DEF AskClick, Enter
<1>10. ASSUME NEW h \in Handlers, QualifyCpc(h) PROVE Inductive'
  BY <1>10 DEF QualifyCpc, Leave
<1>11. ASSUME NEW h \in Handlers, Void(h) PROVE Inductive'
  BY <1>11 DEF Void, Released, Leave
<1>12. ASSUME NEW h \in Handlers, BillLock(h) PROVE Inductive'
  BY <1>12 DEF BillLock, Leave
<1>13. ASSUME NEW h \in Handlers, BillCommit(h) PROVE Inductive'
  BY <1>13 DEF BillCommit, Charged, Leave
<1>14. ASSUME NEW h \in Handlers, ClickLock(h) PROVE Inductive'
  BY <1>14 DEF ClickLock, Leave
<1>15. ASSUME NEW h \in Handlers, ClickCommit(h) PROVE Inductive'
  BY <1>15 DEF ClickCommit, Charged, Leave
<1>16. ASSUME NEW h \in Handlers, Crash(h) PROVE Inductive'
  BY <1>16 DEF Crash, Leave
<1>17. ASSUME NEW c \in Campaigns, Pause(c) PROVE Inductive'
  BY <1>17 DEF Pause
<1>18. ASSUME NEW c \in Campaigns, Resume(c) PROVE Inductive'
  BY <1>18 DEF Resume
<1>19. ASSUME NEW c \in Campaigns, Archive(c) PROVE Inductive'
  BY <1>19 DEF Archive
<1>20. CASE UNCHANGED vars
  BY <1>20 DEF vars
<1> QED
  BY <1>1, <1>2, <1>3, <1>4, <1>5, <1>6, <1>7, <1>8, <1>9, <1>10, <1>11, <1>12, <1>13, <1>14, <1>15, <1>16, <1>17, <1>18, <1>19, <1>20 DEF Next, Handle

LEMMA InductiveAlways == Spec => []Inductive
<1>1. Inductive /\ UNCHANGED vars => Inductive'
  BY InductiveStep
<1> QED
  BY InitInductive, InductiveStep, <1>1, PTL DEF Spec

\* Every column, request and lock has a value of its type: no reservation goes below
\* zero, however releases and charges interleave.
THEOREM TypeCorrect == Spec => []TypeOK
<1>1. Inductive => TypeOK
  BY DEF Inductive, Typed
<1> QED
  BY InductiveAlways, <1>1, PTL

-------------------------------------------------------------------------------
\* The budget.

\* A CPC campaign never has a reservation, so a click need not look at it.
Budgeted == WithinBudget /\ \A c \in Campaigns : BidType[c] = "cpc" => reserved[c] = 0

LEMMA InitBudgeted == Init => Budgeted
  BY AdAssumption DEF Init, Budgeted, WithinBudget

LEMMA BudgetedStep == ASSUME Inductive, Budgeted, [Next]_vars PROVE Budgeted'
<1> USE AdAssumption DEF Budgeted, WithinBudget, Inductive, Typed, TypeOK, Working, Served,
      campaignVars
<1>1. CASE UNCHANGED <<spent, reserved>>
  BY <1>1
<1>2. ASSUME NEW i \in Impressions, spent' = spent, reserved' \in {reserved, Released(i)}
      PROVE Budgeted'
  BY <1>2 DEF Released
<1>3. ASSUME NEW i \in Impressions, NEW c \in Campaigns, Serve(i, c) PROVE Budgeted'
  BY <1>3 DEF Serve, Reservable
<1>4. ASSUME NEW h \in Handlers, Void(h) PROVE Budgeted'
  BY <1>2, <1>4 DEF Void
<1>5. ASSUME NEW h \in Handlers, BillCommit(h) PROVE Budgeted'
  BY <1>5 DEF BillCommit
<1>6. ASSUME NEW h \in Handlers, ClickCommit(h) PROVE Budgeted'
  BY <1>6 DEF ClickCommit, Chargeable, Cpm
<1>7. ASSUME NEW c \in Campaigns, Archive(c) PROVE Budgeted'
  BY <1>7 DEF Archive
<1>8. ASSUME NEW i \in Impressions, CronReclaims(i) \/ FlagFalsePositive(i) PROVE Budgeted'
  BY <1>2, <1>8 DEF CronReclaims, FlagFalsePositive
<1> QED
  BY <1>1, <1>3, <1>4, <1>5, <1>6, <1>7, <1>8
  DEF Next, Handle, vars, Render, CronPicks, ReportAd, ReverseEarnings, AskQualify, AskClick,
      QualifyCpc, BillLock, ClickLock, Crash, Pause, Resume

\* Spent and reserved budget together never exceed a campaign's total.
THEOREM BudgetHolds == Spec => []WithinBudget
<1>1. Budgeted /\ UNCHANGED vars => Budgeted'
  BY DEF Budgeted, WithinBudget, vars, campaignVars
<1>2. Budgeted => WithinBudget
  BY DEF Budgeted
<1> QED
  BY InductiveAlways, InitBudgeted, BudgetedStep, <1>1, <1>2, PTL DEF Spec

-------------------------------------------------------------------------------
\* Charges.

\* Only a billing transaction or a click charges, and a billing transaction's
\* impression is nobody's but its own.
LEMMA NoLateCharge ==
  ASSUME Inductive, [Next]_vars, NEW i \in Impressions, i \in invalid, Cpm(i)
  PROVE  debits'[i] = debits[i]
<1> USE DEF Inductive, Typed, TypeOK
<1>1. ASSUME NEW h \in Handlers, BillCommit(h) PROVE debits'[i] = debits[i]
  BY <1>1 DEF BillCommit, Charged, Serial, Claimed, Settled, ledgerVars
<1>2. ASSUME NEW h \in Handlers, ClickCommit(h) PROVE debits'[i] = debits[i]
  BY <1>2 DEF ClickCommit, Charged, ledgerVars
<1> QED
  BY <1>1, <1>2
  DEF Next, Handle, vars, ledgerVars, Serve, Render, CronPicks, CronReclaims, FlagFalsePositive,
      ReportAd, ReverseEarnings, AskQualify, AskClick, QualifyCpc, Void, BillLock, ClickLock,
      Crash, Pause, Resume, Archive

\* A CPM impression that was reported, refused or reclaimed is never charged, not even
\* by a request that passed its gates before.
THEOREM LateChargeImpossible == Spec => InvalidNeverCharged
<1>1. Inductive /\ [Next]_vars
        => [\A i \in Impressions : (i \in invalid /\ Cpm(i)) => debits'[i] = debits[i]]_vars
  BY NoLateCharge
<1> QED
  BY InductiveAlways, <1>1, PTL DEF Spec, InvalidNeverCharged

\* An archived campaign stays archived and spends nothing, though requests that were
\* under way when it was archived go on.
THEOREM ArchiveHolds == Spec => ArchivedIsFinal
<1> DEFINE A == \A c \in Campaigns :
                  state[c] = "archived" => state'[c] = "archived" /\ spent'[c] = spent[c]
<1>1. ASSUME Inductive, [Next]_vars PROVE A
  <2> USE <1>1 DEF Inductive, Typed, TypeOK
  <2>1. ASSUME NEW h \in Handlers, BillCommit(h) PROVE A
    BY <2>1 DEF BillCommit
  <2>2. ASSUME NEW h \in Handlers, ClickCommit(h) PROVE A
    BY <2>2 DEF ClickCommit, Chargeable
  <2>3. ASSUME NEW c \in Campaigns, Pause(c) \/ Resume(c) \/ Archive(c) PROVE A
    BY <2>3 DEF Pause, Resume, Archive
  <2> QED
    BY <2>1, <2>2, <2>3
    DEF Next, Handle, vars, campaignVars, Serve, Render, CronPicks, CronReclaims,
        FlagFalsePositive, ReportAd, ReverseEarnings, AskQualify, AskClick, QualifyCpc, Void,
        BillLock, ClickLock, Crash
<1>2. Inductive /\ [Next]_vars => [A]_vars
  BY <1>1
<1> QED
  BY InductiveAlways, <1>2, PTL DEF Spec, ArchivedIsFinal

-------------------------------------------------------------------------------
\* Reservations.

LEMMA OpenFinite == \A c : IsFiniteSet(Open(c)) /\ Cardinality(Open(c)) \in Nat
<1> SUFFICES ASSUME NEW c PROVE IsFiniteSet(Open(c)) /\ Cardinality(Open(c)) \in Nat
  OBVIOUS
<1>1. Open(c) \in SUBSET Impressions
  BY DEF Open
<1> QED
  BY <1>1, AdAssumption, FS_Subset, FS_CardinalityType

\* A step that keeps which impressions are open and which campaigns are archived.
LEMMA SameOpen ==
  ASSUME TypeOK, ReservedMatchesOpen,
         camp' = camp, reserved' = reserved,
         \A i \in Impressions : Settled(i)' = Settled(i),
         \A c \in Campaigns : (state'[c] = "archived") = (state[c] = "archived")
  PROVE  ReservedMatchesOpen'
<1>1. \A c : Open(c)' = Open(c)
  BY DEF Open
<1> QED
  BY <1>1 DEF ReservedMatchesOpen

\* A step that settles one open impression and releases, or spends, its reservation.
LEMMA SettleOne ==
  ASSUME TypeOK, ReservedMatchesOpen, NEW i \in Impressions, Served(i), ~Settled(i),
         camp' = camp, state' = state, reserved' = Released(i),
         \A j \in Impressions : Settled(j)' = (Settled(j) \/ j = i)
  PROVE  ReservedMatchesOpen'
<1> DEFINE c0 == camp[i]
<1>1. c0 \in Campaigns
  BY DEF TypeOK, Served
<1>2. \A c : Open(c)' = IF c = c0 THEN Open(c) \ {i} ELSE Open(c)
  BY DEF Open
<1>3. i \in Open(c0)
  BY DEF Open
<1>4. /\ Cardinality(Open(c0)) \in Nat /\ Cardinality(Open(c0)) >= 1
      /\ Cardinality(Open(c0) \ {i}) = Cardinality(Open(c0)) - 1
  <2> DEFINE S == Open(c0)
  <2>1. IsFiniteSet(S) /\ Cardinality(S) \in Nat /\ i \in S
    BY <1>3, OpenFinite
  <2> HIDE DEF S
  <2>2. IsFiniteSet(S \ {i}) /\ Cardinality(S \ {i}) = Cardinality(S) - 1
    BY <2>1, FS_RemoveElement
  <2>3. Cardinality(S \ {i}) \in Nat
    BY <2>2, FS_CardinalityType
  <2>4. Cardinality(S) >= 1
    BY <2>1, <2>2, <2>3
  <2> QED
    BY <2>1, <2>2, <2>4 DEF S
<1>5. reserved \in [Campaigns -> Nat]
  BY DEF TypeOK
<1> HIDE DEF c0
<1>6. reserved' = IF BidType[c0] = "cpm" /\ reserved[c0] >= 1
                  THEN [reserved EXCEPT ![c0] = @ - 1] ELSE reserved
  BY DEF Released, Cpm, c0
<1>7. ASSUME NEW c \in Campaigns
      PROVE  reserved'[c] = IF BidType[c] = "cpm" /\ state'[c] # "archived"
                            THEN Cardinality(Open(c)') ELSE 0
  <2>1. CASE c = c0
    <3>1. Open(c)' = Open(c) \ {i}
      BY <1>2, <2>1
    <3>2. Cardinality(Open(c)) >= 1 /\ Cardinality(Open(c)') = Cardinality(Open(c)) - 1
      BY <1>4, <2>1, <3>1
    <3>3. reserved'[c] = IF BidType[c] = "cpm" /\ reserved[c] >= 1
                         THEN reserved[c] - 1 ELSE reserved[c]
      BY <1>5, <1>6, <2>1
    <3> QED
      BY <3>2, <3>3 DEF ReservedMatchesOpen
  <2>2. CASE c # c0
    BY <1>2, <1>5, <1>6, <2>2 DEF ReservedMatchesOpen
  <2> QED
    BY <2>1, <2>2
<1> QED
  BY <1>7 DEF ReservedMatchesOpen

LEMMA ReservedStep ==
  ASSUME "earlyreport" \notin Env, Inductive, ReservedMatchesOpen, [Next]_vars
  PROVE  ReservedMatchesOpen'
<1> USE DEF Inductive, Typed
<1>1. ASSUME NEW i \in Impressions, NEW c \in Campaigns, Serve(i, c)
      PROVE ReservedMatchesOpen'
  <2>1. ~Settled(i) /\ camp[i] = NoCampaign
    BY <1>1 DEF Serve, Served, Entries, Unserved
  <2>2. i \notin Open(c)
    BY <2>1, AdAssumption DEF Open
  <2>3. \A d \in Campaigns : Open(d)' = IF d = c THEN Open(d) \cup {i} ELSE Open(d)
    BY <1>1, <2>1, AdAssumption DEF Serve, Open, Settled, TypeOK
  <2>4. Cardinality(Open(c) \cup {i}) = Cardinality(Open(c)) + 1
    BY <2>2, OpenFinite, FS_AddElement
  <2> QED
    BY <1>1, <2>3, <2>4 DEF Serve, Reservable, ReservedMatchesOpen, TypeOK
<1>2. ASSUME NEW h \in Handlers, Void(h) PROVE ReservedMatchesOpen'
  <2>1. job[h] \in Impressions /\ Served(job[h])
    BY <1>2 DEF Void, Working
  <2>2. CASE Settled(job[h])
    BY <1>2, <2>2, SameOpen DEF Void, Settled
  <2>3. CASE ~Settled(job[h])
    BY <1>2, <2>1, <2>3, SettleOne DEF Void, Settled
  <2> QED
    BY <2>2, <2>3
<1>3. ASSUME NEW h \in Handlers, BillCommit(h) PROVE ReservedMatchesOpen'
  <2>1. job[h] \in Impressions /\ Served(job[h]) /\ Cpm(job[h]) /\ ~Settled(job[h])
    BY <1>3 DEF BillCommit, Working, Serial, Claimed
  <2>2. CASE reserved[camp[job[h]]] >= 1 /\ state[camp[job[h]]] # "archived"
    <3>1. /\ camp' = camp /\ state' = state /\ reserved' = Released(job[h])
          /\ qualified' = qualified \cup {job[h]} /\ invalid' = invalid
      BY <1>3, <2>1, <2>2 DEF BillCommit, Released, TypeOK, Served
    <3> QED
      BY <2>1, <3>1, SettleOne DEF Settled
  <2>3. CASE ~(reserved[camp[job[h]]] >= 1 /\ state[camp[job[h]]] # "archived")
    BY <1>3, <2>3, SameOpen DEF BillCommit, Settled
  <2> QED
    BY <2>2, <2>3
<1>4. ASSUME NEW i \in Impressions, CronReclaims(i) PROVE ReservedMatchesOpen'
  <2>1. Served(i)
    BY <1>4 DEF CronReclaims, Entries, Unserved
  <2>2. CASE Settled(i)
    BY <1>4, <2>2, SameOpen DEF CronReclaims, Settled
  <2>3. CASE ~Settled(i)
    BY <1>4, <2>1, <2>3, SettleOne DEF CronReclaims, Settled
  <2> QED
    BY <2>2, <2>3
<1>5. ASSUME NEW i \in Impressions, FlagFalsePositive(i) PROVE ReservedMatchesOpen'
  <2>1. Served(i)
    BY <1>5 DEF FlagFalsePositive
  <2>2. CASE i \in billable \cup invalid
    BY <1>5, <2>2, SameOpen DEF FlagFalsePositive, Settled
  <2>3. CASE i \notin billable \cup invalid /\ Cpm(i)
    <3>1. ~Settled(i)
      BY <2>1, <2>3 DEF Entries, ChargedOnce, Settled
    <3> QED
      BY <1>5, <2>1, <2>3, <3>1, SettleOne DEF FlagFalsePositive, Settled
  <2>4. CASE i \notin billable \cup invalid /\ ~Cpm(i)
    <3>1. reserved' = reserved
      BY <1>5, <2>4 DEF FlagFalsePositive, Released
    <3>2. /\ camp' = camp /\ state' = state /\ qualified' = qualified
          /\ invalid' = invalid \cup {i}
      BY <1>5, <2>4 DEF FlagFalsePositive
    <3>3. \A c \in Campaigns : BidType[c] = "cpm" => Open(c)' = Open(c)
      BY <2>4, <3>2 DEF Open, Settled, Cpm
    <3> QED
      BY <3>1, <3>2, <3>3 DEF ReservedMatchesOpen
  <2> QED
    BY <2>2, <2>3, <2>4
<1>6. ASSUME NEW i \in Impressions, ReportAd(i) PROVE ReservedMatchesOpen'
  BY <1>6, SameOpen DEF ReportAd, Settled, campaignVars
<1>7. ASSUME NEW h \in Handlers, QualifyCpc(h) PROVE ReservedMatchesOpen'
  <2>1. /\ camp' = camp /\ state' = state /\ reserved' = reserved /\ invalid' = invalid
        /\ qualified' = qualified \cup {job[h]} /\ ~Cpm(job[h])
    BY <1>7 DEF QualifyCpc, campaignVars
  <2>2. \A c \in Campaigns : BidType[c] = "cpm" => Open(c)' = Open(c)
    BY <2>1 DEF Open, Settled, Cpm
  <2> QED
    BY <2>1, <2>2 DEF ReservedMatchesOpen
<1>8. ASSUME NEW c \in Campaigns, Pause(c) \/ Resume(c) PROVE ReservedMatchesOpen'
  BY <1>8, SameOpen DEF Pause, Resume, Settled, impressionVars, TypeOK
<1>9. ASSUME NEW c \in Campaigns, Archive(c) PROVE ReservedMatchesOpen'
  <2>1. \A d : Open(d)' = Open(d)
    BY <1>9 DEF Archive, Open, Settled, impressionVars
  <2> QED
    BY <1>9, <2>1 DEF Archive, ReservedMatchesOpen, TypeOK
<1>10. CASE UNCHANGED <<camp, state, reserved, qualified, invalid>>
  BY <1>10, SameOpen DEF Settled
<1> QED
  BY <1>1, <1>2, <1>3, <1>4, <1>5, <1>6, <1>7, <1>8, <1>9, <1>10
  DEF Next, Handle, vars, campaignVars, impressionVars, Render, CronPicks, ReverseEarnings,
      AskQualify, AskClick, BillLock, ClickLock, ClickCommit, Crash

LEMMA InitReserved == Init => ReservedMatchesOpen
<1> SUFFICES ASSUME Init PROVE ReservedMatchesOpen
  OBVIOUS
<1>1. \A c \in Campaigns : Open(c) = {}
  BY AdAssumption DEF Init, Open
<1> QED
  BY <1>1, FS_EmptySet DEF Init, ReservedMatchesOpen

\* Where no impression is reported before it is settled, the reserved budget of a
\* campaign is what its open impressions hold, whoever qualifies, refuses, reclaims or
\* flags them at once.
THEOREM ReservationsExact ==
  ASSUME "earlyreport" \notin Env PROVE Spec => []ReservedMatchesOpen
<1>1. Inductive /\ ReservedMatchesOpen /\ [Next]_vars => ReservedMatchesOpen'
  BY ReservedStep
<1> QED
  BY InductiveAlways, InitReserved, <1>1, PTL DEF Spec

-------------------------------------------------------------------------------
\* Spending.

\* The impressions a campaign was charged for.
Paid(c) == {i \in Impressions : camp[i] = c /\ debits[i] > 0}

LEMMA PaidFinite == \A c : IsFiniteSet(Paid(c)) /\ Cardinality(Paid(c)) \in Nat
<1> SUFFICES ASSUME NEW c PROVE IsFiniteSet(Paid(c)) /\ Cardinality(Paid(c)) \in Nat
  OBVIOUS
<1>1. Paid(c) \in SUBSET Impressions
  BY DEF Paid
<1> QED
  BY <1>1, AdAssumption, FS_Subset, FS_CardinalityType

\* One more charge, on an impression without one, is one more bid spent.
LEMMA ChargeOne ==
  ASSUME TypeOK, ChargesAddUp, NEW i \in Impressions, Served(i), debits[i] = 0, Charged(i),
         camp' = camp, spent' = [spent EXCEPT ![camp[i]] = @ + 1]
  PROVE  ChargesAddUp'
<1>1. \A j \in Impressions : debits'[j] = IF earned'[j] = "none" THEN 0 ELSE 1
  BY DEF TypeOK, Charged, ChargesAddUp
<1>2. ASSUME NEW c \in Campaigns PROVE spent'[c] = Cardinality(Paid(c)')
  <2>1. spent[c] = Cardinality(Paid(c))
    BY DEF ChargesAddUp, Paid
  <2>2. CASE c = camp[i]
    <3>1. Paid(c)' = Paid(c) \cup {i} /\ i \notin Paid(c)
      BY <2>2 DEF Paid, Charged, TypeOK
    <3>2. Cardinality(Paid(c)') = Cardinality(Paid(c)) + 1
      BY <3>1, PaidFinite, FS_AddElement
    <3> QED
      BY <2>1, <2>2, <3>2 DEF TypeOK
  <2>3. CASE c # camp[i]
    <3>1. Paid(c)' = Paid(c)
      BY <2>3 DEF Paid, Charged, TypeOK
    <3> QED
      BY <2>1, <2>3, <3>1 DEF TypeOK
  <2> QED
    BY <2>2, <2>3
<1> QED
  BY <1>1, <1>2 DEF ChargesAddUp, Paid

LEMMA ChargesStep ==
  ASSUME Inductive, ChargesAddUp, [Next]_vars PROVE ChargesAddUp'
<1> USE DEF Inductive, Typed
<1>1. ASSUME UNCHANGED <<spent, camp, debits>>,
             \A i \in Impressions : (earned'[i] = "none") = (earned[i] = "none")
      PROVE  ChargesAddUp'
  BY <1>1 DEF ChargesAddUp
<1>2. ASSUME NEW i \in Impressions, NEW c \in Campaigns, Serve(i, c) PROVE ChargesAddUp'
  <2>1. debits[i] = 0 /\ camp[i] = NoCampaign
    BY <1>2 DEF Serve, Served, Entries, Unserved
  <2>2. /\ UNCHANGED <<spent, debits, earned>>
        /\ \A j \in Impressions : j # i => camp'[j] = camp[j]
    BY <1>2 DEF Serve, ledgerVars, TypeOK
  <2>3. \A d \in Campaigns : Paid(d)' = Paid(d)
    BY <2>1, <2>2 DEF Paid
  <2> QED
    BY <2>2, <2>3 DEF ChargesAddUp, Paid
<1>3. ASSUME NEW h \in Handlers, BillCommit(h) PROVE ChargesAddUp'
  <2>1. job[h] \in Impressions /\ Served(job[h]) /\ debits[job[h]] = 0
    BY <1>3 DEF BillCommit, Working, Serial, Claimed, Settled, Entries, ChargedOnce, TypeOK
  <2>2. CASE Charged(job[h]) /\ spent' = [spent EXCEPT ![camp[job[h]]] = @ + 1]
    BY <1>3, <2>1, <2>2, ChargeOne DEF BillCommit
  <2>3. CASE UNCHANGED <<spent, ledgerVars>>
    BY <1>1, <1>3, <2>3 DEF BillCommit, ledgerVars
  <2> QED
    BY <1>3, <2>2, <2>3 DEF BillCommit
<1>4. ASSUME NEW h \in Handlers, ClickCommit(h) PROVE ChargesAddUp'
  <2>1. job[h] \in Impressions /\ Served(job[h])
    BY <1>4 DEF ClickCommit, Working
  <2>2. CASE /\ Charged(job[h]) /\ spent' = [spent EXCEPT ![camp[job[h]]] = @ + 1]
             /\ job[h] \notin clicked /\ ~Cpm(job[h])
    <3>1. debits[job[h]] = 0
      BY <2>1, <2>2 DEF Entries, ChargedOnce, TypeOK
    <3> QED
      BY <1>4, <2>1, <2>2, <3>1, ChargeOne DEF ClickCommit
  <2>3. CASE UNCHANGED <<spent, ledgerVars>>
    BY <1>1, <1>4, <2>3 DEF ClickCommit, ledgerVars
  <2> QED
    BY <1>4, <2>2, <2>3 DEF ClickCommit
<1>5. ASSUME NEW i \in Impressions, ReverseEarnings(i) PROVE ChargesAddUp'
  BY <1>1, <1>5 DEF ReverseEarnings, campaignVars, impressionVars, TypeOK
<1>6. CASE UNCHANGED <<spent, camp, ledgerVars>>
  BY <1>1, <1>6 DEF ledgerVars
<1> QED
  BY <1>2, <1>3, <1>4, <1>5, <1>6
  DEF Next, Handle, vars, campaignVars, impressionVars, Render, CronPicks, CronReclaims,
      FlagFalsePositive, ReportAd, AskQualify, AskClick, QualifyCpc, Void, BillLock, ClickLock,
      Crash, Pause, Resume, Archive

LEMMA InitCharges == Init => ChargesAddUp
<1> SUFFICES ASSUME Init PROVE ChargesAddUp
  OBVIOUS
<1>1. \A c \in Campaigns : Paid(c) = {}
  BY DEF Init, Paid
<1> QED
  BY <1>1, FS_EmptySet DEF Init, ChargesAddUp, Paid

\* An impression is charged at most once, by whichever requests race for it, and what a
\* campaign spent is what its impressions were charged.
THEOREM SpendingExact == Spec => []ChargesAddUp
<1>1. Inductive /\ ChargesAddUp /\ [Next]_vars => ChargesAddUp'
  BY ChargesStep
<1> QED
  BY InductiveAlways, InitCharges, <1>1, PTL DEF Spec

-------------------------------------------------------------------------------
\* The advertiser's balance.

LEMMA BalanceIsSum ==
  Balance = Funds + SumFunctionOnSet([i \in Impressions |-> Effect(i)], Impressions)
  BY DEF Balance, SumFunction

\* Only a charged impression has been refunded.
Refunds == \A i \in refunded : debits[i] = 1 /\ Served(i)

LEMMA EffectInt == ASSUME TypeOK PROVE \A i \in Impressions : Effect(i) \in Int
  BY AdAssumption DEF TypeOK, Effect, Served

LEMMA BalanceInt == ASSUME TypeOK PROVE Balance \in Int
<1> DEFINE w == [i \in Impressions |-> Effect(i)]
<1>1. \A i \in Impressions : w[i] \in Int
  BY EffectInt
<1> HIDE DEF w
<1>2. SumFunctionOnSet(w, Impressions) \in Int
  BY <1>1, SumInt, AdAssumption
<1> QED
  BY <1>2, BalanceIsSum, AdAssumption DEF w

\* A step that changes no impression's rows leaves the balance.
LEMMA SameBalance ==
  ASSUME \A i \in Impressions : Effect(i)' = Effect(i) PROVE Balance' = Balance
<1>1. [i \in Impressions |-> Effect(i)'] = [i \in Impressions |-> Effect(i)]
  OBVIOUS
<1> QED
  BY <1>1 DEF Balance

\* A step that changes the rows of one impression changes the balance by as much.
LEMMA OneEffect ==
  ASSUME TypeOK, TypeOK', NEW i \in Impressions,
         \A j \in Impressions \ {i} : Effect(j)' = Effect(j)
  PROVE  Balance' = Balance + Effect(i)' - Effect(i)
<1> DEFINE w == [j \in Impressions |-> Effect(j)]
           v == [j \in Impressions |-> Effect(j)']
           rest == Impressions \ {i}
<1>1. (\A j \in Impressions : w[j] \in Int) /\ Effect(i) \in Int
  BY EffectInt
<1>2. (\A j \in Impressions : v[j] \in Int) /\ Effect(i)' \in Int
  <2>1. \A j \in Impressions : Effect(j)' \in Int
    BY AdAssumption DEF TypeOK, Effect, Served
  <2> QED
    BY <2>1
<1>3. \A j \in rest : w[j] = v[j]
  OBVIOUS
<1>4. w[i] = Effect(i) /\ v[i] = Effect(i)'
  OBVIOUS
<1>5. Balance = Funds + SumFunctionOnSet(w, Impressions)
  BY BalanceIsSum
<1>6. Balance' = Funds + SumFunctionOnSet(v, Impressions)
  BY DEF Balance, SumFunction
<1>7. IsFiniteSet(rest) /\ IsFiniteSet(Impressions)
  BY AdAssumption, FS_Subset
<1> HIDE DEF w, v
<1>8. SumFunctionOnSet(w, Impressions) = w[i] + SumFunctionOnSet(w, rest)
  BY <1>1, <1>7, SumElement
<1>9. SumFunctionOnSet(v, Impressions) = v[i] + SumFunctionOnSet(v, rest)
  BY <1>2, <1>7, SumElement
<1>10. SumFunctionOnSet(w, rest) = SumFunctionOnSet(v, rest)
  BY <1>3, <1>7, SumSame
<1>11. SumFunctionOnSet(w, rest) \in Int
  BY <1>1, <1>7, SumInt
<1> HIDE DEF rest
<1> QED
  BY <1>1, <1>2, <1>4, <1>5, <1>6, <1>8, <1>9, <1>10, <1>11, AdAssumption

\* A transaction that is about to charge has a balance that covers its bid.
Covered ==
  \A h \in Handlers :
    pc[h] = "billing" \/ (pc[h] = "clicking" /\ ~Cpm(job[h]))
      => Balance >= Bid[camp[job[h]]]

Funded == NoOverdraft /\ Covered /\ Refunds

\* A charge takes one bid from the balance ...
LEMMA ChargeTakesBid ==
  ASSUME TypeOK, TypeOK', Refunds, NEW i \in Impressions, Served(i), debits[i] = 0, Charged(i),
         camp' = camp
  PROVE  Balance' = Balance - Bid[camp[i]] /\ Refunds'
<1>1. i \notin refunded
  BY DEF Refunds
<1>2. \A j \in Impressions \ {i} : Effect(j)' = Effect(j)
  BY DEF Charged, Effect, Served, TypeOK
<1>3. Effect(i) = 0 /\ Effect(i)' = 0 - Bid[camp[i]] /\ Bid[camp[i]] \in Nat
  <2>1. debits'[i] = 1 /\ i \notin refunded' /\ Served(i)' /\ camp'[i] = camp[i]
    BY <1>1 DEF Charged, TypeOK, Served
  <2>2. Bid[camp[i]] \in Nat
    BY AdAssumption DEF TypeOK, Served
  <2> QED
    BY <1>1, <2>1, <2>2 DEF Effect
<1>4. Refunds'
  BY <1>1 DEF Refunds, Charged, Served, TypeOK
<1> QED
  BY <1>2, <1>3, <1>4, OneEffect, BalanceInt

\* ... and no other step lowers it.
LEMMA NothingElseTakes ==
  ASSUME Inductive, Inductive', ChargesAddUp, Refunds, [Next]_vars, debits' = debits
  PROVE  Balance' \in Int /\ Balance' >= Balance /\ Refunds'
<1> USE DEF Inductive, Typed
<1>1. Balance \in Int
  BY BalanceInt
<1>2. ASSUME NEW i \in Impressions, NEW c \in Campaigns, Serve(i, c)
      PROVE  Balance' \in Int /\ Balance' >= Balance /\ Refunds'
  <2>1. i \notin refunded /\ debits[i] = 0 /\ debits'[i] = 0 /\ refunded' = refunded
    BY <1>2 DEF Serve, Refunds, Entries, Unserved, ledgerVars
  <2>2. \A j \in Impressions \ {i} : camp'[j] = camp[j]
    BY <1>2 DEF Serve, TypeOK
  <2>3. \A j \in Impressions \ {i} : Effect(j)' = Effect(j)
    BY <2>1, <2>2 DEF Effect, Served
  <2>4. Bid[c] \in Int /\ camp'[i] = c
    BY <1>2, AdAssumption DEF Serve, TypeOK
  <2>5. Effect(i) = 0 /\ Effect(i)' = 0
    BY <1>2, <2>1, <2>4 DEF Serve, Effect, Served
  <2>6. Refunds'
    BY <2>1, <2>2 DEF Refunds, Served, TypeOK
  <2> QED
    BY <1>1, <2>3, <2>5, <2>6, OneEffect
<1>3. ASSUME NEW i \in Impressions, ReverseEarnings(i)
      PROVE  Balance' \in Int /\ Balance' >= Balance /\ Refunds'
  <2>1. debits[i] = 1 /\ Served(i) /\ UNCHANGED <<debits, camp>>
    BY <1>3 DEF ReverseEarnings, ChargesAddUp, Entries, Unserved, impressionVars
  <2>2. refunded' \in {refunded, refunded \cup {i}}
    BY <1>3 DEF ReverseEarnings
  <2>3. \A j \in Impressions \ {i} : Effect(j)' = Effect(j)
    BY <2>1, <2>2 DEF Effect, Served
  <2>4. Bid[camp[i]] \in Nat
    BY <2>1, AdAssumption DEF Served, TypeOK
  <2>5. Effect(i) \in Int /\ Effect(i)' \in Int /\ Effect(i)' >= Effect(i)
    BY <2>1, <2>2, <2>4 DEF Effect, Served
  <2>6. Refunds'
    BY <2>1, <2>2 DEF Refunds, Served
  <2>7. Balance' = Balance + Effect(i)' - Effect(i)
    BY <2>3, OneEffect
  <2> QED
    BY <1>1, <2>5, <2>6, <2>7
<1>4. CASE UNCHANGED <<camp, refunded>>
  <2>1. \A j \in Impressions : Effect(j)' = Effect(j)
    BY <1>4 DEF Effect, Served
  <2> QED
    BY <1>1, <1>4, <2>1, SameBalance DEF Refunds, Served
<1> QED
  BY <1>2, <1>3, <1>4
  DEF Next, Handle, vars, campaignVars, impressionVars, ledgerVars, Render, CronPicks,
      CronReclaims, FlagFalsePositive, ReportAd, AskQualify, AskClick, QualifyCpc, Void,
      BillLock, BillCommit, Charged, ClickLock, ClickCommit, Crash, Pause, Resume, Archive

LEMMA FundedStep ==
  ASSUME Inductive, Inductive', ChargesAddUp, Funded, [Next]_vars
  PROVE  Funded'
<1> USE DEF Inductive, Typed
<1>1. Balance \in Int
  BY BalanceInt
\* The transaction that charges is the only one there is.
<1>2. ASSUME NEW h \in Handlers, pc[h] \in {"billing", "clicking"}, Charged(job[h]),
             lock' = Nobody, camp' = camp, debits[job[h]] = 0,
             pc[h] = "billing" \/ ~Cpm(job[h])
      PROVE  Funded'
  <2>1. job[h] \in Impressions /\ Served(job[h]) /\ Balance >= Bid[camp[job[h]]]
    BY <1>2 DEF Working, Funded, Covered
  <2>2. Balance' = Balance - Bid[camp[job[h]]] /\ Refunds'
    BY <1>2, <2>1, ChargeTakesBid DEF Funded
  <2>3. \A g \in Handlers : pc'[g] \notin {"billing", "clicking"}
    BY <1>2, AdAssumption DEF Serial, Exclusive
  <2>4. Bid[camp[job[h]]] \in Nat
    BY <2>1, AdAssumption DEF Served, TypeOK
  <2> QED
    BY <1>1, <2>1, <2>2, <2>3, <2>4 DEF Funded, NoOverdraft, Covered
<1>3. ASSUME NEW h \in Handlers, BillCommit(h), debits' # debits PROVE Funded'
  <2>1. Charged(job[h]) /\ pc[h] = "billing" /\ lock' = Nobody /\ camp' = camp
    BY <1>3 DEF BillCommit, ledgerVars
  <2>2. debits[job[h]] = 0
    BY <2>1 DEF Working, Serial, Claimed, Settled, Entries, ChargedOnce, TypeOK
  <2> QED
    BY <1>2, <2>1, <2>2
<1>4. ASSUME NEW h \in Handlers, ClickCommit(h), debits' # debits PROVE Funded'
  <2>1. /\ Charged(job[h]) /\ pc[h] = "clicking" /\ lock' = Nobody /\ camp' = camp
        /\ ~Cpm(job[h]) /\ job[h] \notin clicked
    BY <1>4 DEF ClickCommit, ledgerVars
  <2>2. debits[job[h]] = 0
    BY <2>1 DEF Working, Entries, ChargedOnce, TypeOK
  <2> QED
    BY <1>2, <2>1, <2>2
\* A transaction that goes on keeps its cover, and one that begins has checked it.
<1>5. ASSUME debits' = debits PROVE Funded'
  <2>1. Balance' \in Int /\ Balance' >= Balance /\ Refunds'
    BY <1>5, NothingElseTakes DEF Funded
  <2>2. NoOverdraft'
    BY <1>1, <2>1 DEF Funded, NoOverdraft
  <2>3. ASSUME NEW h \in Handlers, job'[h] = job[h], pc'[h] = pc[h],
               pc[h] = "billing" \/ (pc[h] = "clicking" /\ ~Cpm(job[h])')
        PROVE  Balance' >= Bid[camp'[job'[h]]]
    <3>1. job[h] \in Impressions /\ Served(job[h])
      BY <2>3 DEF Working
    <3>2. camp'[job[h]] = camp[job[h]]
      BY <3>1 DEF Next, Handle, vars, campaignVars, impressionVars, ledgerVars, Serve, Render,
        CronPicks, CronReclaims, FlagFalsePositive, ReportAd, ReverseEarnings, AskQualify,
        AskClick, QualifyCpc, Void, BillLock, BillCommit, ClickLock, ClickCommit, Crash, Pause,
        Resume, Archive, TypeOK
    <3>3. Balance >= Bid[camp[job[h]]] /\ Bid[camp[job[h]]] \in Nat
      BY <2>3, <3>1, <3>2, AdAssumption DEF Funded, Covered, Cpm, Served, TypeOK
    <3> QED
      BY <1>1, <2>1, <2>3, <3>2, <3>3
  <2>4. ASSUME NEW h \in Handlers, ~(job'[h] = job[h] /\ pc'[h] = pc[h]),
               pc'[h] = "billing" \/ (pc'[h] = "clicking" /\ ~Cpm(job[h])')
        PROVE  Balance' >= Bid[camp'[job'[h]]]
    <3>1. /\ BillLock(h) \/ ClickLock(h)
          /\ UNCHANGED <<camp, job>>
          /\ (Cpm(job[h]) /\ pc'[h] = "clicking") \/ Balance >= Bid[camp[job[h]]]
      <4>1. pc'[h] \in {"billing", "clicking"}
        BY <2>4
      <4>2. BillLock(h) \/ ClickLock(h)
        <5>1. CASE \E g \in Handlers : Handle(g) \/ Crash(g)
          <6>1. PICK g \in Handlers : Handle(g) \/ Crash(g)
            BY <5>1
          <6>2. \A f \in Handlers \ {g} : pc'[f] = pc[f] /\ job'[f] = job[f]
            BY <6>1 DEF Handle, Crash, QualifyCpc, Void, BillLock, BillCommit, ClickLock, ClickCommit,
              handlerVars, Leave, TypeOK
          <6>3. g = h
            BY <2>4, <6>2
          <6>4. ~(QualifyCpc(g) \/ Void(g) \/ BillCommit(g) \/ ClickCommit(g) \/ Crash(g))
            BY <4>1, <6>3 DEF QualifyCpc, Void, BillCommit, ClickCommit, Crash, Leave, TypeOK
          <6> QED
            BY <6>1, <6>3, <6>4 DEF Handle
        <5>2. CASE \E i \in Impressions, g \in Handlers : AskQualify(g, i) \/ AskClick(g, i)
          BY <2>4, <4>1, <5>2 DEF AskQualify, AskClick, Enter, TypeOK
        <5>3. CASE UNCHANGED <<pc, job>>
          BY <2>4, <5>3
        <5>4. \/ \E g \in Handlers : Handle(g) \/ Crash(g)
              \/ \E i \in Impressions, g \in Handlers : AskQualify(g, i) \/ AskClick(g, i)
              \/ UNCHANGED <<pc, job>>
          BY DEF Next, vars, handlerVars, Serve, Render, CronPicks, CronReclaims, FlagFalsePositive,
            ReportAd, ReverseEarnings, Pause, Resume, Archive
        <5> QED
          BY <5>1, <5>2, <5>3, <5>4
      <4>3. CASE BillLock(h)
        BY <2>4, <4>1, <4>3 DEF BillLock, Leave, campaignVars, impressionVars, TypeOK
      <4>4. CASE ClickLock(h)
        BY <2>4, <4>1, <4>4 DEF ClickLock, Leave, campaignVars, impressionVars, TypeOK
      <4> QED
        BY <4>2, <4>3, <4>4
    <3>2. job[h] \in Impressions /\ Served(job[h])
      BY <3>1 DEF BillLock, ClickLock, Working
    <3>3. Balance >= Bid[camp[job[h]]] /\ Bid[camp[job[h]]] \in Nat
      BY <2>4, <3>1, <3>2, AdAssumption DEF Cpm, Served, TypeOK
    <3> QED
      BY <1>1, <2>1, <3>1, <3>3
  <2>5. Covered'
    BY <2>3, <2>4 DEF Covered
  <2> QED
    BY <2>1, <2>2, <2>5 DEF Funded
<1>6. debits' = debits \/ \E h \in Handlers : BillCommit(h) \/ ClickCommit(h)
  BY DEF Next, Handle, vars, campaignVars, impressionVars, ledgerVars, handlerVars,
    Serve, Render, CronPicks, CronReclaims, FlagFalsePositive, ReportAd, ReverseEarnings,
    AskQualify, AskClick, QualifyCpc, Void, BillLock, ClickLock, Crash, Pause, Resume, Archive
<1> QED
  BY <1>3, <1>4, <1>5, <1>6

LEMMA InitFunded == Init => Funded
<1> SUFFICES ASSUME Init PROVE Funded
  OBVIOUS
<1> DEFINE w == [i \in Impressions |-> Effect(i)]
<1>1. \A i \in Impressions : w[i] \in Nat
  BY DEF Init, Effect, Served
<1>2. Balance = Funds + SumFunctionOnSet(w, Impressions)
  BY BalanceIsSum
<1> HIDE DEF w
<1>3. SumFunctionOnSet(w, Impressions) \in Nat
  <2>1. IsFiniteSet(Impressions)
    BY AdAssumption
  <2> QED
    BY <1>1, <2>1, SumInt
<1>4. NoOverdraft
  BY <1>2, <1>3, AdAssumption DEF NoOverdraft
<1> QED
  BY <1>4 DEF Init, Funded, Covered, Refunds

\* The advertiser's balance never goes below zero: the events of different campaigns
\* that are billed at once all found their bid in it under the same lock.
THEOREM FundsHold == Spec => []NoOverdraft
<1>1. Inductive /\ Inductive' /\ ChargesAddUp /\ Funded /\ [Next]_vars => Funded'
  BY FundedStep
<1>2. Funded => NoOverdraft
  BY DEF Funded
<1> QED
  BY InductiveAlways, SpendingExact, InitFunded, <1>1, <1>2, PTL DEF Spec
===============================================================================
