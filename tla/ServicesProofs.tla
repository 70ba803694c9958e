----------------------------- MODULE ServicesProofs -----------------------------
(* Theorems about the services beside the money, each on its own: the audit    *)
(* outbox, the referral rewards, the registration of devices and the queue of  *)
(* emails, for any number of rows, users, workers, runs and replicas. They     *)
(* share no state.                                                             *)
EXTENDS Services, FiniteSets, FiniteSetTheorems, TLAPS

\* Sets whose elements are all equal have at most one.
LEMMA AtMostOne ==
  ASSUME NEW S, \A x, y \in S : x = y
  PROVE  Cardinality(S) <= 1
<1>1. CASE S = {}
  BY <1>1, FS_EmptySet
<1>2. ASSUME NEW x \in S PROVE Cardinality(S) = 1
  <2>1. S = {x}
    OBVIOUS
  <2>2. QED
    BY <2>1, FS_Singleton
<1>3. QED
  BY <1>1, <1>2

\* An instance counts as this module does.
LEMMA SameCount ==
  ASSUME NEW S
  PROVE  Devices!Cardinality(S) = Cardinality(S) /\ Email!Cardinality(S) = Cardinality(S)
  BY DEF Devices!Cardinality, Email!Cardinality, Cardinality

-------------------------------------------------------------------------------
\* ---- the audit outbox ----

OutboxRow == [in : BOOLEAN, retries : 0..MaxRetries, processed : BOOLEAN, failed : BOOLEAN,
              resolved : BOOLEAN]

Reading == [kind : {"retry", "resolve"}, entry : Entries]

AuditTyped ==
  /\ replayed \in [Entries -> Nat]
  /\ outbox \in [Entries -> OutboxRow]
  /\ lease \in Replicas \cup {NoReplica}
  /\ drain = [r \in Replicas |-> drain[r]]
  /\ \A r \in Replicas : DOMAIN drain[r] \subseteq Entries
  /\ op \in [Operators -> Reading \cup {Audit!NoOp}]

\* A drain reads rows that have a retry left, and a row out of retries has failed.
Retriable ==
  /\ \A r \in Replicas : \A e \in DOMAIN drain[r] : drain[r][e].retries \in 0..(MaxRetries - 1)
  /\ \A e \in Entries : outbox[e].failed \/ outbox[e].retries < MaxRetries

\* A processed row is in the audit log, and no row is there twice.
Logged == \A e \in Entries : replayed[e] <= 1 /\ (outbox[e].processed => replayed[e] = 1)

AuditInductive == AuditTyped /\ Retriable /\ Logged

LEMMA AuditInit == ASSUME AuditBounds, Audit!Init PROVE AuditInductive
<1> USE DEF AuditBounds, Audit!Init
<1>1. AuditTyped
  BY DEF AuditTyped, OutboxRow, Audit!NoRow
<1>2. Retriable
  BY DEF Retriable, Audit!NoRow
<1>3. Logged
  <2>1. 0 <= 1 /\ Audit!NoRow.processed = FALSE
    BY DEF Audit!NoRow
  <2>2. \A e \in Entries : replayed[e] = 0 /\ outbox[e] = Audit!NoRow
    OBVIOUS
  <2>3. QED
    BY <2>1, <2>2, Zenon DEF Logged
<1>4. QED
  BY <1>1, <1>2, <1>3 DEF AuditInductive

LEMMA AuditStep == ASSUME AuditBounds, AuditInductive, [Audit!Next]_(Audit!vars) PROVE AuditInductive'
<1> USE DEF AuditBounds, AuditInductive, AuditTyped, Retriable, Logged, OutboxRow, Reading
<1>1. ASSUME NEW e \in Entries, Audit!Log(e) PROVE AuditInductive'
  <2>1. AuditTyped'
    <3>1. outbox' = outbox \/ outbox' = [outbox EXCEPT ![e] = [outbox[e] EXCEPT !.in = TRUE]]
      BY <1>1 DEF Audit!Log
    <3>2. outbox' \in [Entries -> OutboxRow]
      <4> HIDE DEF AuditInductive, Retriable, Logged, AuditBounds, Reading
      <4>1. outbox[e] \in OutboxRow /\ [outbox[e] EXCEPT !.in = TRUE] \in OutboxRow
        BY DEF OutboxRow, AuditInductive, AuditTyped
      <4> HIDE DEF OutboxRow
      <4>2. QED
        BY <3>1, <4>1 DEF AuditInductive, AuditTyped
    <3>3. QED
      BY <1>1, <3>2 DEF Audit!Log
  <2>2. Retriable'
    BY <1>1 DEF Audit!Log
  <2>3. Logged'
    <3>1. replayed' = replayed /\ \A d \in Entries : outbox'[d].processed = outbox[d].processed
      BY <1>1 DEF Audit!Log
    <3>2. QED
      BY <3>1
  <2>4. QED
    BY <2>1, <2>2, <2>3 DEF AuditInductive
<1>2. ASSUME NEW r \in Replicas, Audit!StartsDrain(r) PROVE AuditInductive'
  <2>1. AuditTyped'
    BY <1>2 DEF Audit!StartsDrain, Audit!Due
  <2>2. Retriable'
    BY <1>2 DEF Audit!StartsDrain, Audit!Due
  <2>3. Logged'
    BY <1>2 DEF Audit!StartsDrain, Audit!Due
  <2>4. QED
    BY <2>1, <2>2, <2>3 DEF AuditInductive
<1>3. CASE Audit!LeaseExpires
  BY <1>3 DEF Audit!LeaseExpires
<1>4. ASSUME NEW r \in Replicas, NEW e \in Entries, Audit!DrainsRow(r, e) PROVE AuditInductive'
  <2> DEFINE row == [outbox[e] EXCEPT !.processed = TRUE]
             held == [drain[r][e] EXCEPT !.done = TRUE]
             rest == [f \in DOMAIN drain[r] \ {e} |-> drain[r][f]]
             next == [drain[r] EXCEPT ![e] = held]
  <2>a. /\ e \in DOMAIN drain[r] /\ UNCHANGED <<lease, op>>
        /\ outbox' = [outbox EXCEPT ![e] = row]
        /\ drain' = [drain EXCEPT ![r] = rest] \/ drain' = [drain EXCEPT ![r] = next]
    BY <1>4, Zenon DEF Audit!DrainsRow, Audit!Rest
  <2>b. /\ row \in OutboxRow /\ row.failed = outbox[e].failed
        /\ row.retries = outbox[e].retries
    OBVIOUS
  <2>d. /\ held.retries = drain[r][e].retries
        /\ DOMAIN rest \subseteq DOMAIN drain[r] /\ \A f \in DOMAIN rest : rest[f] = drain[r][f]
        /\ DOMAIN next = DOMAIN drain[r]
        /\ \A f \in DOMAIN next : next[f].retries = drain[r][f].retries
    BY <2>a
  <2>u. replayed' \in [Entries -> Nat]
    BY <1>4 DEF Audit!DrainsRow, Audit!Upserted
  <2> HIDE DEF row, held, rest, next
  <2>1. AuditTyped'
    BY <2>a, <2>b, <2>d, <2>u
  <2>2. Retriable'
    BY <2>a, <2>b, <2>d
  <2>3. Logged'
    BY <1>4 DEF Audit!DrainsRow, Audit!Upserted, Audit!Rest
  <2>4. QED
    BY <2>1, <2>2, <2>3 DEF AuditInductive
<1>5. ASSUME NEW r \in Replicas, NEW e \in Entries, Audit!DrainFails(r, e) PROVE AuditInductive'
  <2>1. AuditTyped'
    <3> DEFINE n == drain[r][e].retries + 1
               f == outbox[e].failed \/ n >= MaxRetries
    <3>1. e \in DOMAIN drain[r] /\ n \in 0..MaxRetries
      BY <1>5 DEF Audit!DrainFails
    <3>2. outbox' = [outbox EXCEPT ![e].retries = n, ![e].failed = f]
      BY <1>5, Zenon DEF Audit!DrainFails
    <3>3. f \in BOOLEAN
      BY Zenon
    <3> HIDE DEF n, f
    <3>4. outbox' \in [Entries -> OutboxRow]
      <4>1. [outbox[e] EXCEPT !.retries = n, !.failed = f] \in OutboxRow
        <5>1. outbox[e] \in OutboxRow
          BY <3>1
        <5> HIDE DEF AuditTyped, Retriable, Logged
        <5>2. QED
          BY <3>1, <3>3, <5>1
      <4>2. outbox' = [outbox EXCEPT ![e] = [outbox[e] EXCEPT !.retries = n, !.failed = f]]
        BY <3>1, <3>2
      <4> HIDE DEF OutboxRow, Retriable, Logged, AuditBounds
      <4>3. QED
        BY <4>1, <4>2
    <3>5. QED
      BY <1>5, <3>4 DEF Audit!DrainFails, Audit!Rest
  <2>2. Retriable'
    BY <1>5 DEF Audit!DrainFails, Audit!Rest
  <2>3. Logged'
    BY <1>5 DEF Audit!DrainFails, Audit!Rest
  <2>4. QED
    BY <2>1, <2>2, <2>3 DEF AuditInductive
<1>6. ASSUME NEW r \in Replicas, Audit!ReplicaDies(r) PROVE AuditInductive'
  <2>1. AuditTyped'
    <3>1. DOMAIN << >> = {}
      OBVIOUS
    <3>2. QED
      BY <1>6, <3>1, Zenon DEF Audit!ReplicaDies
  <2>2. Retriable'
    BY <1>6 DEF Audit!ReplicaDies
  <2>3. Logged'
    BY <1>6 DEF Audit!ReplicaDies
  <2>4. QED
    BY <2>1, <2>2, <2>3 DEF AuditInductive
<1>7. ASSUME NEW o \in Operators, NEW e \in Entries, Audit!RetryReads(o, e) PROVE AuditInductive'
  BY <1>7 DEF Audit!RetryReads
<1>8. ASSUME NEW o \in Operators, Audit!RetryCommits(o) PROVE AuditInductive'
  BY <1>8 DEF Audit!RetryCommits, Audit!NoOp
<1>9. ASSUME NEW o \in Operators, NEW e \in Entries, Audit!ResolveReads(o, e) PROVE AuditInductive'
  BY <1>9 DEF Audit!ResolveReads
<1>10. ASSUME NEW o \in Operators, Audit!ResolveCommits(o) PROVE AuditInductive'
  <2> DEFINE e == op[o].entry
  <2>1. /\ e \in Entries /\ op' = [op EXCEPT ![o] = Audit!NoOp]
        /\ outbox' = [outbox EXCEPT ![e].resolved = TRUE]
        /\ UNCHANGED <<replayed, lease, drain, requeues>>
    BY <1>10 DEF Audit!ResolveCommits, Audit!NoOp
  <2> HIDE DEF e
  <2> DEFINE row == [outbox[e] EXCEPT !.resolved = TRUE]
  <2>r. /\ row \in OutboxRow /\ row.processed = outbox[e].processed
        /\ row.failed = outbox[e].failed /\ row.retries = outbox[e].retries
    BY <2>1
  <2>o. outbox' = [outbox EXCEPT ![e] = row]
    BY <2>1
  <2> HIDE DEF row
  <2>2. /\ outbox' \in [Entries -> OutboxRow]
        /\ \A d \in Entries : /\ outbox'[d].processed = outbox[d].processed
                             /\ outbox'[d].failed = outbox[d].failed
                             /\ outbox'[d].retries = outbox[d].retries
    BY <2>1, <2>r, <2>o
  <2>3. AuditTyped'
    BY <2>1, <2>2
  <2>4. Retriable' /\ Logged'
    BY <2>1, <2>2
  <2>5. QED
    BY <2>3, <2>4 DEF AuditInductive
<1>11. CASE UNCHANGED Audit!vars
  BY <1>11 DEF Audit!vars
<1> HIDE DEF AuditInductive
<1>12. QED
  BY <1>1, <1>2, <1>3, <1>4, <1>5, <1>6, <1>7, <1>8, <1>9, <1>10, <1>11 DEF Audit!Next

\* Whatever drains overlap, die, lose the answer of a commit and repeat, an outbox
\* row is replayed into the audit log at most once, and none is marked as
\* processed before it was (drainRow). Of the direct write it says nothing: an
\* entry whose write committed and threw is there beside its replay.
THEOREM ReplayAuditsOnce == Audit!Spec => []AuditedOnce
<1> AuditBounds
  BY ServicesAssumption
<1>1. Audit!Init => AuditInductive
  BY AuditInit
<1>2. AuditInductive /\ [Audit!Next]_(Audit!vars) => AuditInductive'
  BY AuditStep
<1>3. AuditInductive => AuditedOnce
  BY DEF AuditInductive, Logged, Audit!AuditedOnce, AuditedOnce
<1>4. QED
  BY <1>1, <1>2, <1>3, PTL DEF Audit!Spec

-------------------------------------------------------------------------------
\* ---- referrals ----

ReferralTyped ==
  /\ referrer \in [Members -> Members \cup {NoUser}]
  /\ status \in [Members -> {"none", "pending", "rewarded"}]
  /\ rewards \in [Members -> Nat]
  /\ job \in [Referrals!Askers -> [op : {"idle", "applies", "rewards"}, user : Members \cup {NoUser},
                                   by : Members \cup {NoUser}]]
  /\ run \subseteq Members

\* An application and a reward in progress are for a member.
Asking ==
  \A w \in Referrals!Askers :
    /\ job[w].op = "applies" => job[w].user \in Members /\ job[w].by \in Members
    /\ job[w].op = "rewards" => job[w].user \in Members

\* The reward is there exactly when the status says so, and no status is without a referral.
Rewarded ==
  \A u \in Members : /\ rewards[u] <= 1 /\ (rewards[u] = 1 <=> status[u] = "rewarded")
                     /\ referrer[u] = NoUser => status[u] = "none"

ReferralInductive == ReferralTyped /\ Asking /\ Rewarded

LEMMA ReferralStep ==
  ASSUME ReferralBounds, ReferralInductive, [Referrals!Next]_(Referrals!vars)
  PROVE  ReferralInductive'
<1> USE DEF ReferralBounds, ReferralInductive, ReferralTyped, Asking, Rewarded, Referrals!Idle
<1>1. ASSUME NEW w \in Workers, NEW u \in Members, NEW by \in Members, Referrals!ApplyReads(w, u, by)
      PROVE  ReferralInductive'
  BY <1>1 DEF Referrals!ApplyReads, Referrals!Askers
<1>2. ASSUME NEW w \in Workers, Referrals!ApplyCommits(w) PROVE ReferralInductive'
  BY <1>2 DEF Referrals!ApplyCommits, Referrals!Askers
<1>3. ASSUME NEW w \in Workers, NEW u \in Members, Referrals!RewardReads(w, u)
      PROVE  ReferralInductive'
  BY <1>3 DEF Referrals!RewardReads, Referrals!Asks, Referrals!Askers
<1>4. ASSUME NEW w \in Referrals!Askers, Referrals!RewardCommits(w) PROVE ReferralInductive'
  <2>1. ReferralTyped'
    BY <1>4 DEF Referrals!RewardCommits, Referrals!Grantable
  <2>2. Asking'
    BY <1>4 DEF Referrals!RewardCommits, Referrals!Grantable
  <2>3. Rewarded'
    <3> DEFINE u == job[w].user
    <3>1. /\ u \in Members /\ UNCHANGED referrer
          /\ \/ UNCHANGED <<rewards, status>>
             \/ /\ status[u] = "pending" /\ rewards' = [rewards EXCEPT ![u] = rewards[u] + 1]
                /\ status' = [status EXCEPT ![u] = "rewarded"]
      BY <1>4 DEF Referrals!RewardCommits, Referrals!Grantable
    <3> HIDE DEF u
    <3>2. CASE UNCHANGED <<rewards, status>>
      BY <3>1, <3>2
    <3>3. ASSUME status[u] = "pending", rewards' = [rewards EXCEPT ![u] = rewards[u] + 1],
                 status' = [status EXCEPT ![u] = "rewarded"]
          PROVE  Rewarded'
      <4>1. rewards[u] = 0 /\ referrer[u] # NoUser
        <5>1. rewards[u] \in Nat /\ rewards[u] <= 1
          BY <3>1
        <5>2. rewards[u] # 1 /\ referrer[u] # NoUser
          BY <3>1, <3>3
        <5> HIDE DEF ReferralInductive
        <5>3. QED
          BY <5>1, <5>2
      <4>2. rewards'[u] = 1 /\ status'[u] = "rewarded"
        BY <3>1, <3>3, <4>1
      <4>3. \A v \in Members \ {u} : rewards'[v] = rewards[v] /\ status'[v] = status[v]
        BY <3>1, <3>3
      <4> HIDE DEF ReferralTyped, Asking
      <4>4. QED
        BY <3>1, <4>1, <4>2, <4>3
    <3>4. QED
      BY <3>1, <3>2, <3>3
  <2>4. QED
    BY <2>1, <2>2, <2>3 DEF ReferralInductive
<1>5. ASSUME NEW w \in Referrals!Askers, Referrals!CallDies(w) PROVE ReferralInductive'
  BY <1>5 DEF Referrals!CallDies
<1>6. ASSUME NEW u \in Members, Referrals!PaysOut(u) \/ Referrals!Ban(u) PROVE ReferralInductive'
  BY <1>6 DEF Referrals!PaysOut, Referrals!Ban
<1>7. CASE Referrals!CronReads
  BY <1>7 DEF Referrals!CronReads, Referrals!Candidates
<1>8. ASSUME NEW u \in Members, Referrals!CronAsks(u) PROVE ReferralInductive'
  BY <1>8 DEF Referrals!CronAsks, Referrals!Asks, Referrals!Askers
<1>9. CASE Referrals!CronDies
  BY <1>9 DEF Referrals!CronDies
<1>10. CASE Referrals!SwitchesAuto
  BY <1>10 DEF Referrals!SwitchesAuto
<1>11. CASE UNCHANGED Referrals!vars
  BY <1>11 DEF Referrals!vars
<1> HIDE DEF ReferralInductive
<1>12. QED
  BY <1>1, <1>2, <1>3, <1>4, <1>5, <1>6, <1>7, <1>8, <1>9, <1>10, <1>11 DEF Referrals!Next

\* However many calls and cron runs ask for the reward of one referral, it is
\* granted once, and granted exactly when its row says so (processReferralRewards).
THEOREM ReferralRewardedOnce == Referrals!Spec => []RewardedOnce
<1> ReferralBounds
  BY ServicesAssumption
<1>1. Referrals!Init => ReferralInductive
  BY DEF ReferralBounds, Referrals!Init, ReferralInductive, ReferralTyped, Asking, Rewarded,
         Referrals!Idle
<1>2. ReferralInductive /\ [Referrals!Next]_(Referrals!vars) => ReferralInductive'
  BY ReferralStep
<1>3. ReferralInductive => RewardedOnce
  BY DEF ReferralInductive, Rewarded, Referrals!RewardedOnce, RewardedOnce
<1>4. QED
  BY <1>1, <1>2, <1>3, PTL DEF Referrals!Spec

-------------------------------------------------------------------------------
\* ---- devices ----

Registering(j) == registration[j] # Devices!Idle

\* A registration holds the lock of its fingerprint, under which what it found stays true.
PrintHeld ==
  \A j \in Registrations : Registering(j) =>
    /\ registration[j].user \in Users /\ registration[j].print \in Fingerprints
    /\ printLock[registration[j].print] = j
    /\ ~registration[j].owned => \A u \in Users : <<u, registration[j].print>> \notin device

\* A recomputation holds the lock of its score, under which what it read stays true.
ScoreHeld ==
  \A u \in Users : score[u] # "none" => scoreLock[u] = Devices!Score /\ score[u] = level[u]

\* Of two owners of one device one is restricted.
OneFree ==
  \A f \in Fingerprints : \A u, v \in Devices!Owners(f) :
    level[u] # "restricted" /\ level[v] # "restricted" => u = v

DeviceInductive == Devices!TypeOK /\ PrintHeld /\ ScoreHeld /\ OneFree

LEMMA DeviceStep ==
  ASSUME DeviceNames, DeviceInductive, [Devices!Next]_(Devices!vars)
  PROVE  DeviceInductive'
<1> USE DEF DeviceNames, DeviceInductive, Devices!TypeOK, Devices!Levels, PrintHeld, ScoreHeld,
            OneFree, Registering, Devices!Idle, Devices!Score, Devices!Owners
<1>1. ASSUME NEW j \in Registrations, NEW u \in Users, NEW f \in Fingerprints,
             Devices!Registers(j, u, f)
      PROVE  DeviceInductive'
  <2>1. Devices!TypeOK'
    BY <1>1 DEF Devices!Registers, Devices!PrintFree
  <2>2. PrintHeld'
    <3>1. /\ registration' = [registration EXCEPT ![j] =
                [user |-> u, print |-> f, owned |-> Devices!Owners(f) # {}]]
          /\ printLock' = [printLock EXCEPT ![f] = j] /\ printLock[f] = NoJob /\ device' = device
      BY <1>1 DEF Devices!Registers, Devices!PrintFree
    <3>2. ASSUME NEW i \in Registrations \ {j}
          PROVE  registration'[i] = registration[i] /\ (registration[i].print # f =>
                   printLock'[registration[i].print] = printLock[registration[i].print])
      BY <3>1
    <3> HIDE DEF Devices!Idle
    <3>3. registration'[j] = [user |-> u, print |-> f, owned |-> Devices!Owners(f) # {}]
      BY <3>1, Zenon
    <3>4. CASE Devices!Owners(f) = {}
      <4>1. \A v \in Users : <<v, f>> \notin device
        BY <3>4
      <4>2. registration'[j] = [user |-> u, print |-> f, owned |-> FALSE]
        BY <3>3, <3>4, Zenon
      <4>3. QED
        BY <3>1, <3>2, <4>1, <4>2
    <3>5. CASE Devices!Owners(f) # {}
      <4>1. registration'[j] = [user |-> u, print |-> f, owned |-> TRUE]
        BY <3>3, <3>5, Zenon
      <4>2. /\ registration'[j].user = u /\ registration'[j].print = f /\ registration'[j].owned
            /\ printLock'[f] = j
        BY <3>1, <4>1
      <4>3. ASSUME NEW i \in Registrations \ {j}, Registering(i)
            PROVE  registration[i].print # f
        BY <3>1, <4>3
      <4>4. SUFFICES ASSUME NEW i \in Registrations, Registering(i)'
                     PROVE  /\ registration'[i].user \in Users
                            /\ registration'[i].print \in Fingerprints
                            /\ printLock'[registration'[i].print] = i
                            /\ ~registration'[i].owned =>
                                 \A v \in Users : <<v, registration'[i].print>> \notin device'
        OBVIOUS
      <4>5. CASE i = j
        BY <4>2, <4>5
      <4>6. ASSUME i # j PROVE registration'[i] = registration[i] /\ Registering(i)
        <5>1. registration'[i] # Devices!Idle
          BY <4>4 DEF Devices!Idle
        <5>2. QED
          BY <3>2, <4>6, <5>1
      <4>7. QED
        BY <3>1, <3>2, <4>3, <4>5, <4>6
    <3>6. QED
      BY <3>4, <3>5
  <2>3. ScoreHeld'
    BY <1>1 DEF Devices!Registers, Devices!PrintFree
  <2>4. OneFree'
    BY <1>1 DEF Devices!Registers, Devices!PrintFree
  <2>5. QED
    BY <2>1, <2>2, <2>3, <2>4 DEF DeviceInductive
<1>2. ASSUME NEW j \in Registrations, Devices!Contends(j) PROVE DeviceInductive'
  BY <1>2 DEF Devices!Contends
<1>3. ASSUME NEW j \in Registrations, Devices!Registered(j) PROVE DeviceInductive'
  <2>1. Devices!TypeOK'
    BY <1>3 DEF Devices!Registered, Devices!Contended
  <2>2. PrintHeld'
    <3> DEFINE f == registration[j].print
    <3>1. /\ registration' = [registration EXCEPT ![j] = Devices!Idle] /\ Registering(j)
          /\ printLock' = [printLock EXCEPT ![f] = NoJob]
          /\ device' = device \cup {<<registration[j].user, f>>}
      BY <1>3 DEF Devices!Registered
    <3>2. ASSUME NEW i \in Registrations \ {j}, Registering(i)
          PROVE  /\ registration'[i] = registration[i] /\ registration[i].print # f
                 /\ printLock'[registration[i].print] = printLock[registration[i].print]
      BY <3>1, <3>2
    <3>3. registration'[j] = Devices!Idle
      BY <3>1
    <3>4. ASSUME NEW i \in Registrations \ {j}, Registering(i)
          PROVE  \A u \in Users : <<u, registration[i].print>> \in device' =>
                                  <<u, registration[i].print>> \in device
      BY <3>1, <3>2, <3>4
    <3>5. SUFFICES ASSUME NEW i \in Registrations, Registering(i)'
                   PROVE  /\ registration'[i].user \in Users /\ registration'[i].print \in Fingerprints
                          /\ printLock'[registration'[i].print] = i
                          /\ ~registration'[i].owned =>
                               \A u \in Users : <<u, registration'[i].print>> \notin device'
      OBVIOUS
    <3> HIDE DEF Devices!Idle
    <3>6. registration'[i] # Devices!Idle
      BY <3>5 DEF Devices!Idle
    <3>7. i # j
      BY <3>3, <3>6
    <3>8. registration'[i] = registration[i]
      BY <3>1, <3>7
    <3>9. Registering(i)
      BY <3>6, <3>8
    <3>10. QED
      BY <3>2, <3>4, <3>7, <3>8, <3>9
  <2>3. ScoreHeld'
    BY <1>3 DEF Devices!Registered, Devices!Contended
  <2>4. OneFree'
    BY <1>3 DEF Devices!Registered, Devices!Contended
  <2>5. QED
    BY <2>1, <2>2, <2>3, <2>4 DEF DeviceInductive
<1>4. ASSUME NEW j \in Registrations, Devices!Dies(j) PROVE DeviceInductive'
  <2>1. Devices!TypeOK'
    BY <1>4 DEF Devices!Dies
  <2>2. PrintHeld'
    <3> DEFINE f == registration[j].print
    <3>1. /\ registration' = [registration EXCEPT ![j] = Devices!Idle] /\ Registering(j)
          /\ printLock' = [printLock EXCEPT ![f] = NoJob] /\ device' = device
      BY <1>4 DEF Devices!Dies
    <3>2. ASSUME NEW i \in Registrations \ {j}, Registering(i)
          PROVE  /\ registration'[i] = registration[i] /\ registration[i].print # f
                 /\ printLock'[registration[i].print] = printLock[registration[i].print]
      BY <3>1, <3>2
    <3>3. registration'[j] = Devices!Idle
      BY <3>1
    <3>4. ASSUME NEW i \in Registrations \ {j}, Registering(i)
          PROVE  \A u \in Users : <<u, registration[i].print>> \in device' =>
                                  <<u, registration[i].print>> \in device
      BY <3>1, <3>2, <3>4
    <3>5. SUFFICES ASSUME NEW i \in Registrations, Registering(i)'
                   PROVE  /\ registration'[i].user \in Users /\ registration'[i].print \in Fingerprints
                          /\ printLock'[registration'[i].print] = i
                          /\ ~registration'[i].owned =>
                               \A u \in Users : <<u, registration'[i].print>> \notin device'
      OBVIOUS
    <3> HIDE DEF Devices!Idle
    <3>6. registration'[i] # Devices!Idle
      BY <3>5 DEF Devices!Idle
    <3>7. i # j
      BY <3>3, <3>6
    <3>8. registration'[i] = registration[i]
      BY <3>1, <3>7
    <3>9. Registering(i)
      BY <3>6, <3>8
    <3>10. QED
      BY <3>2, <3>4, <3>7, <3>8, <3>9
  <2>3. ScoreHeld'
    BY <1>4 DEF Devices!Dies
  <2>4. OneFree'
    BY <1>4 DEF Devices!Dies
  <2>5. QED
    BY <2>1, <2>2, <2>3, <2>4 DEF DeviceInductive
<1>5. ASSUME NEW u \in Users, Devices!ScoreReads(u) PROVE DeviceInductive'
  BY <1>5 DEF Devices!ScoreReads
<1>6. ASSUME NEW u \in Users, Devices!ScoreWrites(u) PROVE DeviceInductive'
  BY <1>6 DEF Devices!ScoreWrites, Devices!Outcome
<1>7. ASSUME NEW u \in Users, Devices!Erased(u) PROVE DeviceInductive'
  BY <1>7 DEF Devices!Erased
<1>8. CASE UNCHANGED Devices!vars
  BY <1>8 DEF Devices!vars
<1> HIDE DEF DeviceInductive
<1>9. QED
  BY <1>1, <1>2, <1>3, <1>4, <1>5, <1>6, <1>7, <1>8 DEF Devices!Next

\* Of the users of one device all but one are restricted, whatever registers
\* devices, recomputes scores or erases users meanwhile.
THEOREM DeviceHasOneFreeOwner == Devices!Spec => []OneUnrestrictedOwner
<1> DeviceNames
  BY ServicesAssumption
<1>1. Devices!Init => DeviceInductive
  BY DEF DeviceNames, Devices!Init, DeviceInductive, Devices!TypeOK, Devices!Levels, PrintHeld,
         ScoreHeld, OneFree, Registering, Devices!Idle, Devices!Owners
<1>2. DeviceInductive /\ [Devices!Next]_(Devices!vars) => DeviceInductive'
  BY DeviceStep
<1>3. DeviceInductive => OneUnrestrictedOwner
  <2> SUFFICES ASSUME DeviceInductive, NEW f \in Fingerprints
               PROVE  Cardinality({u \in Devices!Owners(f) : level[u] # "restricted"}) <= 1
    BY SameCount DEF Devices!OneUnrestrictedOwner, OneUnrestrictedOwner
  <2> DEFINE Free == {u \in Devices!Owners(f) : level[u] # "restricted"}
  <2>1. \A u, v \in Free : u = v
    BY DEF DeviceInductive, OneFree
  <2> HIDE DEF Free
  <2>2. Cardinality(Free) <= 1
    BY <2>1, AtMostOne
  <2>3. QED
    BY <2>2 DEF Free
<1>4. QED
  BY <1>1, <1>2, <1>3, PTL DEF Devices!Spec

-------------------------------------------------------------------------------
\* ---- emails ----

Times == {"due", "later", "claimed", "parked", "gone"}

Answer == [of : Messages, answer : {"delivered", "failed", "permanent", "throws"}]

Calling(c, m) == call[c] # Email!NoCall /\ call[c].of = m
Holding(r, m) == m \in DOMAIN batch[r]

EmailTyped ==
  /\ mail \in [Messages -> [at : Times, retries : Nat]]
  /\ sent \subseteq Messages /\ accepted \subseteq Messages /\ purged \subseteq Messages
  /\ calls \in [Messages -> Nat]
  /\ call \in [Callers -> [step : {"creates", "finds"}, of : Messages] \cup {Email!NoCall}
                            \cup [step : {"updates"}, of : Messages, at : Times]]
  /\ batch = [r \in Runs |-> batch[r]]
  /\ \A r \in Runs : \A m \in DOMAIN batch[r] : m \in Messages /\ batch[r][m] \in Nat
  /\ result \in [Runs -> Answer \cup {Email!None}]
  /\ \A r \in Runs : result[r] # Email!None => Holding(r, result[r].of)

\* What a run records as delivered was delivered, and what was accepted is kept until then.
Kept ==
  /\ \A r \in Runs : result[r] # Email!None /\ result[r].answer = "delivered" => result[r].of \in sent
  /\ \A m \in accepted : m \in sent \cup purged \/ mail[m].at # "gone"

\* A content enqueued once has no row while its caller is on its way to create one; later a
\* row in a batch is claimed or purged, and it is in one batch.
Alone ==
  \A m \in Messages : calls[m] <= 1 =>
    /\ calls[m] = 0 => \A c \in Callers : ~Calling(c, m)
    /\ (calls[m] = 0 \/ \E c \in Callers : Calling(c, m)) =>
         mail[m] = Email!Gone /\ \A r \in Runs : ~Holding(r, m)
    /\ \A c, d \in Callers : Calling(c, m) /\ Calling(d, m) => c = d
    /\ \A c \in Callers : Calling(c, m) => call[c].step = "creates"
    /\ \A r \in Runs : Holding(r, m) => mail[m].at \in {"claimed", "gone"}
    /\ \A q, r \in Runs : Holding(q, m) /\ Holding(r, m) => q = r

\* A row is gone when it says so.
GoneRows == \A m \in Messages : mail[m].at = "gone" => mail[m] = Email!Gone

EmailInductive == EmailTyped /\ Kept /\ Alone /\ GoneRows

LEMMA MailMoves ==
  ASSUME mail \in [Messages -> [at : Times, retries : Nat]], NEW m \in Messages,
         mail' = mail \/ \E at \in {"due", "later"} : mail' = [mail EXCEPT ![m].at = at]
  PROVE  mail' \in [Messages -> [at : Times, retries : Nat]]
<1>1. CASE mail' = mail
  BY <1>1
<1>2. ASSUME NEW at \in {"due", "later"}, mail' = [mail EXCEPT ![m].at = at]
      PROVE  mail' \in [Messages -> [at : Times, retries : Nat]]
  <2>1. [mail[m] EXCEPT !.at = at] \in [at : Times, retries : Nat]
    BY <1>2 DEF Times
  <2>2. mail' = [mail EXCEPT ![m] = [mail[m] EXCEPT !.at = at]]
    BY <1>2
  <2>3. QED
    BY <2>1, <2>2
<1>3. QED
  BY <1>1, <1>2

LEMMA EmailStep == ASSUME EmailInductive, [Email!Next]_(Email!vars) PROVE EmailInductive'
<1> USE DEF EmailInductive, EmailTyped, Kept, Alone, GoneRows, Answer, Times, Calling, Holding, Email!NoCall,
            Email!None, Email!Gone
<1>1. ASSUME NEW c \in Callers, NEW m \in Messages, Email!EnqueueSends(c, m)
      PROVE  EmailInductive'
  <2>1. EmailTyped'
    BY <1>1 DEF Email!EnqueueSends
  <2>2. Kept'
    BY <1>1 DEF Email!EnqueueSends
  <2>3. Alone'
    <3>1. /\ ~\E n \in Messages : Calling(c, n)
          /\ calls' = [calls EXCEPT ![m] = @ + 1] /\ mail' = mail /\ batch' = batch
          /\ \A d \in Callers \ {c} : call'[d] = call[d]
      BY <1>1 DEF Email!EnqueueSends
    <3>2. \A n \in Messages : Calling(c, n)' => n = m /\ call'[c].step = "creates"
      BY <1>1 DEF Email!EnqueueSends
    <3>3. ASSUME NEW n \in Messages \ {m}
          PROVE  calls'[n] = calls[n] /\ \A d \in Callers : Calling(d, n)' => Calling(d, n) /\ call'[d] = call[d]
      BY <3>1, <3>2
    <3>4. calls'[m] <= 1 => calls[m] = 0 /\ calls'[m] = 1
      BY <3>1
    <3>5. calls[m] = 0 => \A d \in Callers : Calling(d, m)' => d = c
      BY <3>1
    <3> HIDE DEF Calling
    <3>6. QED
      BY <3>1, <3>2, <3>3, <3>4, <3>5
  <2>4. GoneRows'
    BY <1>1 DEF Email!EnqueueSends
  <2>5. QED
    BY <2>1, <2>2, <2>3, <2>4 DEF EmailInductive
<1>2. ASSUME NEW c \in Callers, Email!EnqueueCreates(c)
      PROVE  EmailInductive'
  <2>1. EmailTyped'
    <3> DEFINE m == call[c].of
    <3>1. m \in Messages /\ UNCHANGED <<sent, calls, batch, result>>
      BY <1>2 DEF Email!EnqueueCreates
    <3>2. /\ mail' = mail \/ mail' = [mail EXCEPT ![m] = [at |-> "later", retries |-> 0]]
          /\ accepted' \in {accepted, accepted \cup {m}} /\ purged' \in {purged, purged \ {m}}
      BY <1>2 DEF Email!EnqueueCreates
    <3>3. call[c] \in [step : {"creates", "finds"}, of : Messages]
      BY <1>2 DEF Email!EnqueueCreates
    <3> DEFINE z == [call[c] EXCEPT !.step = "finds"]
    <3>4. call' = [call EXCEPT ![c] = Email!NoCall] \/ call' = [call EXCEPT ![c] = z]
      BY <1>2 DEF Email!EnqueueCreates, Email!Answers
    <3>5. z \in [step : {"creates", "finds"}, of : Messages]
      BY <3>3
    <3> HIDE DEF z, m, Email!NoCall
    <3>6. call' \in [Callers -> [step : {"creates", "finds"}, of : Messages] \cup {Email!NoCall}
                               \cup [step : {"updates"}, of : Messages, at : Times]]
      BY <3>4, <3>5
    <3>7. mail' \in [Messages -> [at : Times, retries : Nat]]
      BY <3>1, <3>2
    <3>8. accepted' \subseteq Messages /\ purged' \subseteq Messages
      BY <3>1, <3>2
    <3>9. QED
      BY <3>1, <3>6, <3>7, <3>8
  <2>2. Kept'
    BY <1>2 DEF Email!EnqueueCreates, Email!Answers
  <2>3. Alone'
    <3>0. PICK m \in Messages : m = call[c].of
      BY <1>2 DEF Email!EnqueueCreates
    <3>1. /\ Calling(c, m) /\ calls' = calls /\ batch' = batch
          /\ \A d \in Callers \ {c} : call'[d] = call[d]
          /\ \A n \in Messages \ {m} : mail'[n] = mail[n] /\ ~Calling(c, n)
      BY <1>2, <3>0 DEF Email!EnqueueCreates, Email!Answers
    <3>2. /\ call[c] \in [step : {"creates", "finds"}, of : Messages]
          /\ call'[c] = Email!NoCall \/ call'[c] = [call[c] EXCEPT !.step = "finds"]
      <4>1. call[c] \in [step : {"creates", "finds"}, of : Messages] /\ c \in DOMAIN call
        BY <1>2 DEF Email!EnqueueCreates
      <4>2. \/ call' = [call EXCEPT ![c] = Email!NoCall]
            \/ call' = [call EXCEPT ![c] = [call[c] EXCEPT !.step = "finds"]]
        BY <1>2 DEF Email!EnqueueCreates, Email!Answers
      <4> HIDE DEF EmailTyped, Kept, Alone, GoneRows, Email!NoCall
      <4>3. QED
        BY <4>1, <4>2
    <3>3. \A n \in Messages \ {m} : ~Calling(c, n)'
      BY <3>0, <3>2
    <3>4. calls[m] <= 1 => mail[m] = Email!Gone /\ \A d \in Callers \ {c} : ~Calling(d, m)
      BY <3>1
    <3>5. calls[m] <= 1 => ~Calling(c, m)'
      BY <1>2, <3>0, <3>4 DEF Email!EnqueueCreates, Email!Answers
    <3>6. calls[m] <= 1 => \A d \in Callers : ~Calling(d, m)'
      BY <3>1, <3>4, <3>5
    <3>7. \A n \in Messages \ {m}, d \in Callers : Calling(d, n)' <=> Calling(d, n)
      BY <3>1, <3>3
    <3>8. \A n \in Messages \ {m}, d \in Callers : Calling(d, n)' => call'[d] = call[d]
      BY <3>1, <3>7
    <3>9. calls[m] <= 1 => \A q \in Runs : ~Holding(q, m)'
      BY <3>1
    <3>10. calls[m] <= 1 => calls[m] # 0
      BY <3>1
    <3> HIDE DEF Calling, Email!NoCall, Email!Gone, EmailTyped
    <3>11. QED
      BY <3>1, <3>6, <3>7, <3>8, <3>9, <3>10
  <2>4. GoneRows'
    <3>1. PICK m \in Messages : m = call[c].of
      BY <1>2 DEF Email!EnqueueCreates
    <3>2. mail' = mail \/ mail' = [mail EXCEPT ![m] = [at |-> "later", retries |-> 0]]
      BY <1>2, <3>1 DEF Email!EnqueueCreates
    <3>3. QED
      BY <3>2
  <2>5. QED
    BY <2>1, <2>2, <2>3, <2>4 DEF EmailInductive
<1>3. ASSUME NEW c \in Callers, Email!EnqueueFinds(c)
      PROVE  EmailInductive'
  <2>1. EmailTyped'
    <3> DEFINE m == call[c].of
    <3>1. m \in Messages /\ UNCHANGED <<mail, sent, accepted, purged, calls, batch, result>>
      BY <1>3 DEF Email!EnqueueFinds
    <3>2. \/ call' = [call EXCEPT ![c] = Email!NoCall]
          \/ call' = [call EXCEPT ![c] = [step |-> "updates", of |-> m, at |-> mail[m].at]]
      BY <1>3 DEF Email!EnqueueFinds, Email!Answers
    <3>3. EmailTyped /\ mail[m].at \in Times
      BY <3>1
    <3> HIDE DEF m, EmailInductive, Kept, Alone, GoneRows, Times
    <3>4. QED
      BY <3>1, <3>2, <3>3
  <2>2. Kept'
    BY <1>3 DEF Email!EnqueueFinds, Email!Answers
  <2>3. Alone'
    <3> DEFINE m == call[c].of
    <3>1. /\ Calling(c, m) /\ m \in Messages /\ ~(calls[m] <= 1)
          /\ calls' = calls /\ batch' = batch /\ mail' = mail
          /\ \A d \in Callers \ {c} : call'[d] = call[d]
          /\ \A n \in Messages \ {m} : ~Calling(c, n) /\ ~Calling(c, n)'
      BY <1>3 DEF Email!EnqueueFinds, Email!Answers
    <3>2. \A n \in Messages \ {m}, d \in Callers : Calling(d, n)' <=> Calling(d, n)
      BY <3>1
    <3>3. \A n \in Messages \ {m}, d \in Callers : Calling(d, n)' => call'[d] = call[d]
      BY <3>1, <3>2
    <3> HIDE DEF Calling, m
    <3>4. QED
      BY <3>1, <3>2, <3>3
  <2>4. GoneRows'
    BY <1>3 DEF Email!EnqueueFinds, Email!Answers
  <2>5. QED
    BY <2>1, <2>2, <2>3, <2>4 DEF EmailInductive
<1>4. ASSUME NEW c \in Callers, Email!EnqueueUpdates(c)
      PROVE  EmailInductive'
  <2>1. EmailTyped'
    <3> DEFINE m == call[c].of
    <3>1. m \in Messages /\ UNCHANGED <<sent, purged, calls, batch, result>>
      BY <1>4 DEF Email!EnqueueUpdates
    <3>2. /\ mail' = mail \/ \E at \in {"due", "later"} : mail' = [mail EXCEPT ![m].at = at]
          /\ accepted' \in {accepted, accepted \cup {m}}
      BY <1>4 DEF Email!EnqueueUpdates, Email!Sooner
    <3>3. call' = [call EXCEPT ![c] = Email!NoCall]
      BY <1>4 DEF Email!EnqueueUpdates, Email!Answers
    <3>4. mail' \in [Messages -> [at : Times, retries : Nat]]
      BY <3>1, <3>2, MailMoves
    <3>5. QED
      BY <3>1, <3>2, <3>3, <3>4
  <2>2. Kept'
    BY <1>4 DEF Email!EnqueueUpdates, Email!Answers, Email!Sooner
  <2>3. Alone'
    BY <1>4 DEF Email!EnqueueUpdates, Email!Answers, Email!Sooner
  <2>4. GoneRows'
    <3> DEFINE m == call[c].of
    <3>1. m \in Messages /\ (mail' = mail \/ \E at \in {"due", "later"} : mail' = [mail EXCEPT ![m].at = at])
      <4>1. call[c].step = "updates" /\ m \in Messages
        BY <1>4 DEF Email!EnqueueUpdates
      <4> HIDE DEF EmailInductive, EmailTyped, Kept, Alone, GoneRows
      <4>2. QED
        BY <1>4, <4>1 DEF Email!EnqueueUpdates, Email!Sooner
    <3>2. GoneRows /\ mail \in [Messages -> [at : Times, retries : Nat]]
      OBVIOUS
    <3> HIDE DEF m, EmailInductive, EmailTyped, Kept, Alone
    <3>3. QED
      BY <3>1, <3>2
  <2>5. QED
    BY <2>1, <2>2, <2>3, <2>4 DEF EmailInductive
<1>5. ASSUME NEW r \in Runs, Email!Claims(r)
      PROVE  EmailInductive'
  <2>1. EmailTyped'
    <3> DEFINE Due == {m \in Messages : mail[m].at = "due"}
    <3>1. /\ UNCHANGED <<sent, accepted, purged, calls, call, result>> /\ DOMAIN batch[r] = {}
          /\ batch' = [batch EXCEPT ![r] = [m \in Due |-> mail[m].retries]]
      BY <1>5 DEF Email!Claims, Email!Due
    <3>2. mail' \in [Messages -> [at : Times, retries : Nat]]
      BY <1>5 DEF Email!Claims, Email!Claimed, Email!Due
    <3>3. result[r] = Email!None
      BY <3>1
    <3>4. \A m \in Due : m \in Messages /\ mail[m].retries \in Nat
      OBVIOUS
    <3> HIDE DEF Due
    <3>5. /\ DOMAIN batch'[r] = Due /\ \A m \in Due : batch'[r][m] = mail[m].retries
          /\ \A q \in Runs \ {r} : batch'[q] = batch[q]
      BY <3>1
    <3>6. /\ \A q \in Runs : \A m \in DOMAIN batch'[q] : m \in Messages /\ batch'[q][m] \in Nat
          /\ batch' = [q \in Runs |-> batch'[q]]
      BY <3>1, <3>4, <3>5
    <3>7. ASSUME NEW q \in Runs, result'[q] # Email!None PROVE Holding(q, result[q].of)'
      <4>1. q # r /\ result' = result
        BY <3>1, <3>3, <3>7
      <4>2. batch'[q] = batch[q] /\ Holding(q, result[q].of)
        BY <3>5, <3>7, <4>1
      <4> HIDE DEF EmailInductive
      <4>3. QED
        BY <4>1, <4>2
    <3>8. QED
      BY <3>1, <3>2, <3>6, <3>7
  <2>2. Kept'
    BY <1>5 DEF Email!Claims, Email!Claimed, Email!Due
  <2>3. Alone'
    BY <1>5 DEF Email!Claims, Email!Claimed, Email!Due
  <2>4. GoneRows'
    BY <1>5 DEF Email!Claims, Email!Claimed, Email!Due
  <2>5. QED
    BY <2>1, <2>2, <2>3, <2>4 DEF EmailInductive
<1>6. ASSUME NEW r \in Runs, NEW m \in Messages, Email!Sends(r, m)
      PROVE  EmailInductive'
  <2>1. EmailTyped'
    BY <1>6 DEF Email!Sends
  <2>2. Kept'
    BY <1>6 DEF Email!Sends
  <2>3. Alone'
    BY <1>6 DEF Email!Sends
  <2>4. GoneRows'
    BY <1>6 DEF Email!Sends
  <2>5. QED
    BY <2>1, <2>2, <2>3, <2>4 DEF EmailInductive
<1>7. ASSUME NEW r \in Runs, Email!Records(r)
      PROVE  EmailInductive'
  <2>1. EmailTyped'
    <3> DEFINE m == result[r].of
    <3>1. /\ UNCHANGED <<sent, accepted, purged, calls, call>>
          /\ result[r] # Email!None /\ m \in DOMAIN batch[r] /\ m \in Messages
          /\ batch' = [batch EXCEPT ![r] = [k \in DOMAIN batch[r] \ {m} |-> batch[r][k]]]
          /\ result' = [result EXCEPT ![r] = Email!None]
      BY <1>7 DEF Email!Records
    <3>2. Email!Recorded(r, m) \in [at : Times, retries : Nat]
      BY <3>1 DEF Email!Recorded
    <3>3. mail' \in [Messages -> [at : Times, retries : Nat]]
      BY <1>7, <3>1, <3>2 DEF Email!Records
    <3> HIDE DEF m
    <3>4. /\ DOMAIN batch'[r] = DOMAIN batch[r] \ {m}
          /\ \A k \in DOMAIN batch'[r] : batch'[r][k] = batch[r][k]
          /\ \A q \in Runs \ {r} : batch'[q] = batch[q] /\ result'[q] = result[q]
          /\ result'[r] = Email!None
      BY <3>1
    <3>5. /\ \A q \in Runs : \A k \in DOMAIN batch'[q] : k \in Messages /\ batch'[q][k] \in Nat
          /\ batch' = [q \in Runs |-> batch'[q]]
      BY <3>1, <3>4
    <3>6. ASSUME NEW q \in Runs, result'[q] # Email!None PROVE Holding(q, result[q].of)'
      <4>1. q # r /\ result'[q] = result[q] /\ batch'[q] = batch[q]
        BY <3>4, <3>6
      <4>2. Holding(q, result[q].of)
        BY <3>6, <4>1
      <4> HIDE DEF EmailInductive
      <4>3. QED
        BY <4>1, <4>2
    <3>7. result' \in [Runs -> Answer \cup {Email!None}]
      BY <3>1
    <3>8. QED
      BY <3>1, <3>3, <3>5, <3>6, <3>7
  <2>2. Kept'
    BY <1>7 DEF Email!Records, Email!Recorded
  <2>3. Alone'
    BY <1>7 DEF Email!Records, Email!Recorded
  <2>4. GoneRows'
    BY <1>7 DEF Email!Records, Email!Recorded
  <2>5. QED
    BY <2>1, <2>2, <2>3, <2>4 DEF EmailInductive
<1>8. ASSUME NEW r \in Runs, Email!RunDies(r)
      PROVE  EmailInductive'
  <2>1. EmailTyped'
    BY <1>8 DEF Email!RunDies
  <2>2. Kept'
    BY <1>8 DEF Email!RunDies
  <2>3. Alone'
    BY <1>8 DEF Email!RunDies
  <2>4. GoneRows'
    BY <1>8 DEF Email!RunDies
  <2>5. QED
    BY <2>1, <2>2, <2>3, <2>4 DEF EmailInductive
<1>9. ASSUME NEW m \in Messages, Email!ComesDue(m)
      PROVE  EmailInductive'
  <2>1. EmailTyped'
    BY <1>9 DEF Email!ComesDue, Email!ClaimExpires
  <2>2. Kept'
    BY <1>9 DEF Email!ComesDue, Email!ClaimExpires
  <2>3. Alone'
    BY <1>9 DEF Email!ComesDue, Email!ClaimExpires
  <2>4. GoneRows'
    BY <1>9 DEF Email!ComesDue, Email!ClaimExpires
  <2>5. QED
    BY <2>1, <2>2, <2>3, <2>4 DEF EmailInductive
<1>10. ASSUME NEW m \in Messages, Email!Purges(m)
      PROVE  EmailInductive'
  <2>1. EmailTyped'
    BY <1>10 DEF Email!Purges
  <2>2. Kept'
    BY <1>10 DEF Email!Purges
  <2>3. Alone'
    BY <1>10 DEF Email!Purges
  <2>4. GoneRows'
    BY <1>10 DEF Email!Purges
  <2>5. QED
    BY <2>1, <2>2, <2>3, <2>4 DEF EmailInductive
<1>11. ASSUME UNCHANGED Email!vars
      PROVE  EmailInductive'
  <2>1. EmailTyped'
    BY <1>11 DEF Email!vars
  <2>2. Kept'
    BY <1>11 DEF Email!vars
  <2>3. Alone'
    BY <1>11 DEF Email!vars
  <2>4. GoneRows'
    BY <1>11 DEF Email!vars
  <2>5. QED
    BY <2>1, <2>2, <2>3, <2>4 DEF EmailInductive
<1> HIDE DEF EmailInductive
<1>12. QED
  BY <1>1, <1>2, <1>3, <1>4, <1>5, <1>6, <1>7, <1>8, <1>9, <1>10, <1>11 DEF Email!Next

LEMMA EmailAlways == Email!Spec => []EmailInductive
<1>1. Email!Init => EmailInductive
  BY DEF Email!Init, EmailInductive, EmailTyped, Kept, Alone, GoneRows, Answer, Times, Calling, Holding,
         Email!NoCall, Email!None, Email!Gone
<1>2. EmailInductive /\ [Email!Next]_(Email!vars) => EmailInductive'
  BY EmailStep
<1>3. QED
  BY <1>1, <1>2, PTL DEF Email!Spec

\* A message that a caller was told is delivered or queued is delivered, or its
\* row is there until it expires (enqueueOrSend, processQueue).
THEOREM AcceptedStays == Email!Spec => []AcceptedIsKept
<1>1. EmailInductive => AcceptedIsKept
  BY DEF EmailInductive, EmailTyped, Kept, Email!AcceptedIsKept, Email!Gone, AcceptedIsKept
<1>2. QED
  BY <1>1, EmailAlways, PTL

\* A content enqueued once is in the batch of one run, however many runs overlap
\* and die (processQueue).
THEOREM OneRunSends == Email!Spec => []OneSender
<1>1. EmailInductive => OneSender
  <2> SUFFICES ASSUME EmailInductive, NEW m \in Messages, calls[m] <= 1
               PROVE  Cardinality({r \in Runs : m \in DOMAIN batch[r]}) <= 1
    BY SameCount DEF Email!OneSender, OneSender
  <2> DEFINE Senders == {r \in Runs : m \in DOMAIN batch[r]}
  <2>1. \A q, r \in Senders : q = r
    BY DEF EmailInductive, Alone, Holding
  <2> HIDE DEF Senders
  <2>2. Cardinality(Senders) <= 1
    BY <2>1, AtMostOne
  <2>3. QED
    BY <2>2 DEF Senders
<1>2. QED
  BY <1>1, EmailAlways, PTL
================================================================================
