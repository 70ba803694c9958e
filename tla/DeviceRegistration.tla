------------------------- MODULE DeviceRegistration -------------------------
(* First registrations of devices by several users (extension-device-report), *)
(* the recomputation of trust scores (fraud.service) and the erasure that     *)
(* renames fingerprints: who shares a device with another user is restricted. *)
EXTENDS Naturals, FiniteSets

CONSTANTS Users, Fingerprints, Registrations, NoUser, NoFingerprint, NoJob

VARIABLES device,      \* the <<user, fingerprint>> pairs with a Device row
          level,       \* User.trustLevel
          erased,      \* users whose identity was erased
          registration,\* each transaction: [user, print, owned], owned = it found an owner
          score,       \* each user's recomputation: the trust level it read, or "none"
          printLock,   \* advisory lock device-fingerprint:<hash>
          scoreLock    \* advisory lock trust-score:<user>

vars == <<device, level, erased, registration, score, printLock, scoreLock>>

Levels == {"new", "normal", "restricted"}
Idle   == [user |-> NoUser, print |-> NoFingerprint, owned |-> FALSE]
Score  == "score"   \* the holder of a score lock that is not a registration

TypeOK ==
  /\ device \subseteq Users \X Fingerprints
  /\ level \in [Users -> Levels] /\ erased \subseteq Users
  /\ registration \in [Registrations -> [user : Users \cup {NoUser}, owned : BOOLEAN,
                                         print : Fingerprints \cup {NoFingerprint}]]
  /\ score \in [Users -> Levels \cup {"none"}]
  /\ printLock \in [Fingerprints -> Registrations \cup {NoJob}]
  /\ scoreLock \in [Users -> Registrations \cup {Score, NoJob}]

Init ==
  /\ device = {} /\ level = [u \in Users |-> "new"] /\ erased = {}
  /\ registration = [j \in Registrations |-> Idle]
  /\ score = [u \in Users |-> "none"]
  /\ printLock = [f \in Fingerprints |-> NoJob] /\ scoreLock = [u \in Users |-> NoJob]
-------------------------------------------------------------------------------
Owners(f) == {u \in Users : <<u, f>> \in device}

\* The transaction of a first registration waits for the fingerprint, then reads.
PrintFree_Always(f) == TRUE
PrintFree(f) == printLock[f] = NoJob

Registers(j, u, f) ==
  /\ registration[j] = Idle /\ u \notin erased /\ PrintFree(f)
  /\ <<u, f>> \notin device
  /\ registration' = [registration EXCEPT ![j] = [user |-> u, print |-> f,
                                                  owned |-> Owners(f) # {}]]
  /\ printLock' = [printLock EXCEPT ![f] = j]
  /\ UNCHANGED <<device, level, erased, score, scoreLock>>

\* A device of another user: the restriction waits for the score of the newcomer.
Contends(j) ==
  /\ registration[j].owned /\ scoreLock[registration[j].user] = NoJob
  /\ scoreLock' = [scoreLock EXCEPT ![registration[j].user] = j]
  /\ UNCHANGED <<device, level, erased, registration, score, printLock>>

Contended_Never(j) == TRUE
Contended(j) == registration[j].owned => scoreLock[registration[j].user] = j

\* Commit: the device, and the restriction become visible together.
Registered(j) ==
  LET u == registration[j].user
      f == registration[j].print IN
    /\ registration[j] # Idle /\ Contended(j)
    /\ device' = device \cup {<<u, f>>}
    /\ IF registration[j].owned
         THEN /\ level' = [level EXCEPT ![u] = "restricted"]
              /\ scoreLock' = [scoreLock EXCEPT ![u] = NoJob]
         ELSE UNCHANGED <<level, scoreLock>>
    /\ registration' = [registration EXCEPT ![j] = Idle]
    /\ printLock' = [printLock EXCEPT ![f] = NoJob]
    /\ UNCHANGED <<erased, score>>

\* A registration that dies before its commit leaves nothing behind.
Dies(j) ==
  /\ registration[j] # Idle
  /\ registration' = [registration EXCEPT ![j] = Idle]
  /\ printLock' = [printLock EXCEPT ![registration[j].print] = NoJob]
  /\ scoreLock' = [u \in Users |-> IF scoreLock[u] = j THEN NoJob ELSE scoreLock[u]]
  /\ UNCHANGED <<device, level, erased, score>>
-------------------------------------------------------------------------------
\* computeTrustScore reads and writes under the lock of the user's score.
ScoreReads(u) ==
  /\ score[u] = "none" /\ scoreLock[u] = NoJob
  /\ score' = [score EXCEPT ![u] = level[u]]
  /\ scoreLock' = [scoreLock EXCEPT ![u] = Score]
  /\ UNCHANGED <<device, level, erased, registration, printLock>>

\* A restriction is no outcome of the score and is kept.
Outcome(read) == IF read = "restricted" THEN {"restricted"} ELSE {"new", "normal"}

ScoreWrites(u) ==
  /\ score[u] # "none"
  /\ \E l \in Outcome(score[u]) : level' = [level EXCEPT ![u] = l]
  /\ score' = [score EXCEPT ![u] = "none"]
  /\ scoreLock' = [scoreLock EXCEPT ![u] = NoJob]
  /\ UNCHANGED <<device, erased, registration, printLock>>

\* eraseAccountIdentity renames the fingerprints of the user's devices.
Erased(u) ==
  /\ u \notin erased
  /\ erased' = erased \cup {u}
  /\ device' = {d \in device : d[1] # u}
  /\ UNCHANGED <<level, registration, score, printLock, scoreLock>>

Next ==
  \/ \E j \in Registrations : \E u \in Users, f \in Fingerprints : Registers(j, u, f)
  \/ \E j \in Registrations : Contends(j) \/ Registered(j) \/ Dies(j)
  \/ \E u \in Users : ScoreReads(u) \/ ScoreWrites(u) \/ Erased(u)
-------------------------------------------------------------------------------
\* "A duplicate device is a financial-control signal; allowing the device to become
\* active while any of the protective writes are still in flight creates a bypass"
\* (extension-device-report): of the users of one device all but one are restricted,
\* whatever registered or recomputed a score meanwhile.
OneUnrestrictedOwner ==
  \A f \in Fingerprints : Cardinality({u \in Owners(f) : level[u] # "restricted"}) <= 1

-------------------------------------------------------------------------------
Spec == Init /\ [][Next]_vars
===============================================================================
