------------------------------- MODULE Referral --------------------------------
(* apps/api/src/referral: a user names a referrer once, and the referrer earns *)
(* a reward when the first payout of the user is paid and large enough. The    *)
(* payout service asks for the reward when it marks the payout; the payout     *)
(* cron, while it is switched on, asks again for the oldest pending referrals  *)
(* of users with a paid payout. Nothing calls the reversal of a reward.        *)
EXTENDS Naturals, FiniteSets

CONSTANTS Users, Workers, NoUser,
          Cron,         \* the replica that holds the lease of the payout cron
          Batch,        \* PayoutStatusCronService.BATCH_SIZE
          MaxPayouts    \* bound on the payouts of a user that are paid

VARIABLES referrer,     \* the Referral row of a referred user, by its referrer
          status,       \* Referral.status: "none", "pending", "rewarded"
          standing,     \* User.status: "active" or "banned"
          payouts,      \* paid payouts of each user
          large,        \* users whose first paid payout reaches the threshold
          rewards,      \* ReferralReward, platform and earnings rows of a referral
          job,          \* what a request or the cron has read
          since,        \* Referral.updatedAt of a pending row, as its rank
          auto,         \* the runtime switch of automatic payouts
          run           \* the referrals a run of the cron has yet to ask for

vars == <<referrer, status, standing, payouts, large, rewards, job, since, auto, run>>

Askers == Workers \cup {Cron}

Idle == [op |-> "idle", user |-> NoUser, by |-> NoUser]

TypeOK ==
  /\ referrer \in [Users -> Users \cup {NoUser}]
  /\ status \in [Users -> {"none", "pending", "rewarded"}]
  /\ standing \in [Users -> {"active", "banned"}]
  /\ payouts \in [Users -> 0..MaxPayouts] /\ large \subseteq Users
  /\ rewards \in [Users -> Nat]
  /\ job \in [Askers -> [op : {"idle", "applies", "rewards"}, user : Users \cup {NoUser},
                          by : Users \cup {NoUser}]]
  /\ since \in [Users -> Nat] /\ auto \in BOOLEAN /\ run \subseteq Users

Init ==
  /\ referrer = [u \in Users |-> NoUser] /\ status = [u \in Users |-> "none"]
  /\ standing = [u \in Users |-> "active"]
  /\ payouts = [u \in Users |-> 0] /\ large = {}
  /\ rewards = [u \in Users |-> 0] /\ job = [w \in Askers |-> Idle]
  /\ since = [u \in Users |-> 0] /\ auto = TRUE /\ run = {}
-------------------------------------------------------------------------------
\* ---- applyReferralCode ----

ApplyReads(w, u, by) ==
  /\ job[w] = Idle /\ u # by
  /\ standing[by] = "active" /\ referrer[u] = NoUser
  /\ referrer[by] # u
  /\ job' = [job EXCEPT ![w] = [op |-> "applies", user |-> u, by |-> by]]
  /\ UNCHANGED <<referrer, status, standing, payouts, large, rewards, since, auto, run>>

\* One referral for one referred user, by its unique index.
ApplyCommits(w) ==
  /\ job[w].op = "applies"
  /\ LET u == job[w].user IN
       IF referrer[u] = NoUser
       THEN /\ referrer' = [referrer EXCEPT ![u] = job[w].by]
            /\ status' = [status EXCEPT ![u] = "pending"]
            /\ since' = [since EXCEPT ![u] = Cardinality({v \in Users : referrer[v] # NoUser})]
       ELSE UNCHANGED <<referrer, status, since>>
  /\ job' = [job EXCEPT ![w] = Idle]
  /\ UNCHANGED <<standing, payouts, large, rewards, auto, run>>
-------------------------------------------------------------------------------
\* ---- processReferralRewards, asked for by the payout service

PaysOut(u) ==
  /\ payouts[u] < MaxPayouts
  /\ payouts' = [payouts EXCEPT ![u] = @ + 1]
  /\ \/ payouts[u] = 0 /\ large' = large \cup {u}
     \/ UNCHANGED large
  /\ UNCHANGED <<referrer, status, standing, rewards, job, since, auto, run>>

Standing(u) == referrer[u] # NoUser /\ standing[referrer[u]] = "active"

\* A second paid payout ends the claim to the reward.
Qualifies(u) ==
  /\ Standing(u) /\ rewards[u] = 0 /\ payouts[u] = 1 /\ u \in large

Asks(u) == [op |-> "rewards", user |-> u, by |-> NoUser]

RewardReads(w, u) ==
  /\ job[w] = Idle /\ Qualifies(u)
  /\ job' = [job EXCEPT ![w] = Asks(u)]
  /\ UNCHANGED <<referrer, status, standing, payouts, large, rewards, since, auto, run>>

\* Under the transaction: the pending status, no reward yet, and unique keys for
\* its rows; a concurrent grant makes this one return nothing.
Grantable_Always(u) == TRUE
Grantable_WrongStatus(u) == status[u] = "none"
Grantable(u) == status[u] = "pending"

RewardCommits(w) ==
  /\ job[w].op = "rewards"
  /\ LET u == job[w].user IN
       IF Grantable(u)
       THEN /\ rewards' = [rewards EXCEPT ![u] = @ + 1]
            /\ status' = [status EXCEPT ![u] = "rewarded"]
       ELSE UNCHANGED <<rewards, status>>
  /\ job' = [job EXCEPT ![w] = Idle]
  /\ UNCHANGED <<referrer, standing, payouts, large, since, auto, run>>

\* A call fails or its process dies before the commit. The cron goes on with the
\* next referral.
CallDies(w) ==
  /\ job[w] # Idle /\ job' = [job EXCEPT ![w] = Idle]
  /\ UNCHANGED <<referrer, status, standing, payouts, large, rewards, since, auto, run>>

Ban(u) ==
  /\ standing[u] = "active" /\ standing' = [standing EXCEPT ![u] = "banned"]
  /\ UNCHANGED <<referrer, status, payouts, large, rewards, job, since, auto, run>>
-------------------------------------------------------------------------------
\* ---- reconcilePendingReferralRewards, once for each tick of the payout cron

\* Whether one of them qualifies is not asked here.
Candidates == {u \in Users : status[u] = "pending" /\ payouts[u] > 0}

Ahead(u) == {v \in Candidates : since[v] < since[u]}

CronReads ==
  /\ auto /\ run = {} /\ job[Cron] = Idle
  /\ run' = {u \in Candidates : Cardinality(Ahead(u)) < Batch}
  /\ UNCHANGED <<referrer, status, standing, payouts, large, rewards, job, since, auto>>

\* A referral that does not qualify is left as it is, and stays in its place.
CronAsks(u) ==
  /\ u \in run /\ job[Cron] = Idle
  /\ run' = run \ {u}
  /\ job' = IF Qualifies(u) THEN [job EXCEPT ![Cron] = Asks(u)] ELSE job
  /\ UNCHANGED <<referrer, status, standing, payouts, large, rewards, since, auto>>

CronDies ==
  /\ run # {}
  /\ run' = {} /\ job' = [job EXCEPT ![Cron] = Idle]
  /\ UNCHANGED <<referrer, status, standing, payouts, large, rewards, since, auto>>

\* PAYOUT_AUTO is switched.
SwitchesAuto ==
  /\ auto' = ~auto
  /\ UNCHANGED <<referrer, status, standing, payouts, large, rewards, job, since, run>>

Next ==
  \/ \E w \in Workers, u \in Users : \/ RewardReads(w, u)
                                    \/ \E by \in Users : ApplyReads(w, u, by)
  \/ \E w \in Workers : ApplyCommits(w)
  \/ \E w \in Askers : RewardCommits(w) \/ CallDies(w)
  \/ \E u \in Users : PaysOut(u) \/ Ban(u) \/ CronAsks(u)
  \/ CronReads \/ CronDies \/ SwitchesAuto
-------------------------------------------------------------------------------
\* However many calls and cron runs ask for a reward at once (they are all told
\* about the same paid payout), a referral is rewarded once.
RewardedOnce == \A u \in Users : rewards[u] <= 1 /\ (rewards[u] = 1 <=> status[u] = "rewarded")

\* "Referral loops are not allowed" (applyReferralCode).
NoLoops == \A u, v \in Users : referrer[u] = v => referrer[v] # u

Pending(u) == Qualifies(u) /\ status[u] = "pending"

\* As many older referrals as a run reads can never be rewarded.
Crowded(u) == Cardinality({v \in Ahead(u) : ~Qualifies(v)}) >= Batch

\* The retry worker is for "paid users whose first-payout reward is pending"
\* (reconcilePendingReferralRewards): such a reward comes, however many runs and
\* calls fail, unless the referrer is banned or a second payout is paid first,
\* for then it never does, the cron is switched off, or it never gets that far.
PendingIsPaid == \A u \in Users :
  Pending(u) ~> \/ status[u] = "rewarded" \/ payouts[u] > 1 \/ ~Standing(u)
                \/ ~auto \/ Crowded(u)
-------------------------------------------------------------------------------
Spec == Init /\ [][Next]_vars

\* The cron keeps ticking, and of the runs that read a referral and the calls
\* they make for it not all fail. Nobody else has to ask.
Fairness ==
  /\ WF_vars(CronReads)
  /\ \A u \in Users : SF_vars(CronAsks(u)) /\ SF_vars(RewardCommits(Cron) /\ job[Cron].user = u)
FairSpec == Spec /\ Fairness
===============================================================================
