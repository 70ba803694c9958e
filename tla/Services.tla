-------------------------------- MODULE Services -------------------------------
(* Five services that run beside each other: the audit outbox, the queue of    *)
(* emails, referral rewards, runtime switches and the registration of devices. *)
(* They share no state; this module names their variables apart and says what  *)
(* holds of each.                                                              *)
EXTENDS Naturals

CONSTANTS Entries, Replicas, Operators, NoReplica, MaxRetries, MaxRequeues,
          Messages, Callers, Runs, MaxEnqueues,
          Users, NoUser, Members, Workers, Cron, Batch, MaxPayouts,
          Values, Default, Unset, MaxWrites,
          Fingerprints, Registrations, NoFingerprint, NoJob

VARIABLES
  written, replayed, outbox, sink, lease, drain, op, requeues,
  mail, sent, accepted, purged, calls, call, batch, result,
  referrer, status, standing, payouts, large, rewards, job, since, auto, run,
  setting, cache, reading, writing, connected, message, writes,
  device, level, erased, registration, score, printLock, scoreLock

auditVars    == <<written, replayed, outbox, sink, lease, drain, op, requeues>>
emailVars    == <<mail, sent, accepted, purged, calls, call, batch, result>>
referralVars == <<referrer, status, standing, payouts, large, rewards, job, since, auto, run>>
configVars   == <<setting, cache, reading, writing, connected, message, writes>>
deviceVars   == <<device, level, erased, registration, score, printLock, scoreLock>>

Audit == INSTANCE AuditOutbox WITH row <- outbox

Email == INSTANCE EmailQueue WITH row <- mail

Referrals == INSTANCE Referral WITH Users <- Members

Switch == INSTANCE RuntimeConfig

Devices == INSTANCE DeviceRegistration
-------------------------------------------------------------------------------
AuditBounds == MaxRetries \in Nat \ {0}

ReferralBounds == NoUser \notin Members /\ MaxPayouts \in Nat

\* The stand-ins for nobody are nobody.
DeviceNames ==
  /\ NoUser \notin Users /\ NoFingerprint \notin Fingerprints
  /\ NoJob \notin Registrations /\ Devices!Score \notin Registrations \cup {NoJob}

ASSUME ServicesAssumption == AuditBounds /\ ReferralBounds /\ DeviceNames
-------------------------------------------------------------------------------
\* A queued entry is replayed into AuditLog once, and leaves the outbox in no
\* other way (drainRow).
AuditedOnce == Audit!AuditedOnce

\* A message that was accepted is delivered, or its row is kept until it expires
\* (enqueueOrSend).
AcceptedIsKept == Email!AcceptedIsKept

\* A content enqueued once is in the batch of one run (processQueue).
OneSender == Email!OneSender

\* A referral is rewarded once (processReferralRewards).
RewardedOnce == Referrals!RewardedOnce

\* Of the users of one device all but one are restricted (extension-device-report).
OneUnrestrictedOwner == Devices!OneUnrestrictedOwner

\* A pending reward is paid, unless the cron is off or never gets to it
\* (reconcilePendingReferralRewards).
PendingIsPaid == Referrals!PendingIsPaid

\* Every replica comes to go by the stored value of a switch (runtime-config.service).
SwitchReachesAll == Switch!SwitchReachesAll
===============================================================================
