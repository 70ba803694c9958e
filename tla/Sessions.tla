------------------------------- MODULE Sessions -------------------------------
(* One account of apps/api/src/auth: sign-up, login, rotation of refresh       *)
(* tokens, password reset, two-factor enrolment, backup codes, logout, erasure *)
(* and the cleanup of expired rows. Requests run concurrently, each            *)
(* transaction is a step, and a request may die between two of them.           *)
(*                                                                             *)
(* A bulk revocation that waits for the row lock of a running rotation does    *)
(* not see the child which that rotation inserts: its statement's snapshot is  *)
(* older. That is the same as revoking first and inserting the child           *)
(* afterwards, so a bulk revocation is one step here and a rotation is two.    *)
EXTENDS Naturals, FiniteSets

CONSTANTS Sids,        \* session rows, the jti of their tokens
          Requests,    \* HTTP requests in flight
          Codes,       \* backup codes that may ever be generated
          MaxResets,   \* bound on password changes
          MaxSecrets   \* bound on TOTP secrets ever minted

VARIABLES account,     \* "none", "active", "restricted" or "deleted"
          row,         \* a Session: "none", "live", "rotating" (live, its row locked
                       \* by a rotation), "revoked" or "pruned"
          family,      \* Session.tokenFamily: the session a login started
          under,       \* history: the password a session's login was checked with
          password,    \* how often User.passwordHash changed
          totp,        \* twoFactorSecret, twoFactorEnabled, and the secret proved
          codes,       \* twoFactorBackupCodeHashes
          used,        \* history: how often each code was accepted
          burned,      \* history: families a replay was detected in
          req          \* what each request has read and does next

vars == <<account, row, family, under, password, totp, codes, used, burned, req>>

Idle    == [op |-> "idle", sid |-> "none", pw |-> 0, secret |-> 0, code |-> "none"]
Active  == account = "active"
Live(s) == row[s] \in {"live", "rotating"}
Doing(r, op) == req[r].op = op

\* A Google sign-in is checked with no password, so no reset makes it stale.
ByGoogle == MaxResets

\* The advisory lock of a token family is held from the rotation's
\* compare-and-set to its commit.
FamilyLocked_Never(f) == FALSE
FamilyLocked(f) == \E r \in Requests : Doing(r, "rotate") /\ family[req[r].sid] = f

TypeOK ==
  /\ account \in {"none", "active", "restricted", "deleted"}
  /\ row \in [Sids -> {"none", "live", "rotating", "revoked", "pruned"}]
  /\ family \in [Sids -> Sids]
  /\ under \in [Sids -> 0..MaxResets]
  /\ password \in 0..MaxResets
  /\ totp \in [secret : 0..MaxSecrets, enabled : BOOLEAN, proved : 0..MaxSecrets,
               minted : 0..MaxSecrets]
  /\ codes \subseteq Codes
  /\ used \in [Codes -> Nat]
  /\ burned \subseteq Sids

Init ==
  /\ account = "none"
  /\ row = [s \in Sids |-> "none"]
  /\ family = [s \in Sids |-> s]
  /\ under = [s \in Sids |-> 0]
  /\ password = 0
  /\ totp = [secret |-> 0, enabled |-> FALSE, proved |-> 0, minted |-> 0]
  /\ codes = {}
  /\ used = [c \in Codes |-> 0]
  /\ burned = {}
  /\ req = [r \in Requests |-> Idle]

Start(r, q) == req[r] = Idle /\ req' = [req EXCEPT ![r] = q]
Step(r, q)  == req' = [req EXCEPT ![r] = q]
End(r)      == Step(r, Idle)
-------------------------------------------------------------------------------
\* ---- sign-up, login and the session they issue ----

\* Both sign-ups look the email up first and insert under its unique index later.
SignUpChecks(r) ==
  /\ account = "none"
  /\ Start(r, [Idle EXCEPT !.op = "signup"])
  /\ UNCHANGED <<account, row, family, under, password, totp, codes, used, burned>>

\* The loser of two sign-ups meets the unique index and gets a conflict.
SignUpCommits(r) ==
  /\ Doing(r, "signup")
  /\ account' = IF account = "none" THEN "active" ELSE account
  /\ IF account = "none" THEN Step(r, [Idle EXCEPT !.op = "issue"]) ELSE End(r)
  /\ UNCHANGED <<row, family, under, password, totp, codes, used, burned>>

\* Without two-factor, or with a TOTP code, a caller goes straight on to its
\* session; a backup code has to be consumed first.
Admits(r, pw) ==
  \/ Start(r, [Idle EXCEPT !.op = "issue", !.pw = pw])
  \/ /\ totp.enabled
     /\ \E c \in Codes : Start(r, [Idle EXCEPT !.op = "consume", !.pw = pw, !.code = c])

\* login compares the password with the user row it read; a Google sign-in
\* comes with the identity linked to the account.
LoginChecks(r) ==
  /\ Active /\ Admits(r, password)
  /\ UNCHANGED <<account, row, family, under, password, totp, codes, used, burned>>

GoogleLogin(r) ==
  /\ Active /\ Admits(r, ByGoogle)
  /\ UNCHANGED <<account, row, family, under, password, totp, codes, used, burned>>

\* A step-up token takes a TOTP code or one of the same backup codes.
StepUpChecks(r) ==
  /\ Active /\ totp.enabled
  /\ \E c \in Codes : Start(r, [Idle EXCEPT !.op = "stepup", !.code = c])
  /\ UNCHANGED <<account, row, family, under, password, totp, codes, used, burned>>

\* The UPDATE removes the code only if it is still there.
Remaining_All(r) == codes
Remaining(r) == codes \ {req[r].code}

ConsumesCode(r) ==
  /\ req[r].op \in {"consume", "stepup"}
  /\ IF req[r].code \in codes
     THEN /\ codes' = Remaining(r)
          /\ used' = [used EXCEPT ![req[r].code] = @ + 1]
          /\ IF Doing(r, "consume") THEN Step(r, [req[r] EXCEPT !.op = "issue"]) ELSE End(r)
     ELSE End(r) /\ UNCHANGED <<codes, used>>
  /\ UNCHANGED <<account, row, family, under, password, totp, burned>>

\* generateTokenPair, in a family of its own.
IssueSession(r) ==
  /\ Doing(r, "issue")
  /\ \E s \in Sids :
       /\ row[s] = "none"
       /\ row' = [row EXCEPT ![s] = "live"]
       /\ under' = [under EXCEPT ![s] = req[r].pw]
  /\ End(r)
  /\ UNCHANGED <<account, family, password, totp, codes, used, burned>>
-------------------------------------------------------------------------------
\* ---- rotation ----

RevokedFamily(f) == [s \in Sids |-> IF family[s] = f /\ Live(s) THEN "revoked" ELSE row[s]]

\* refresh: the family's advisory lock, then the row's compare-and-set, which a
\* token already exchanged loses.
Exchangeable_Again(s) == row[s] \in {"live", "revoked"}
Exchangeable(s) == row[s] = "live"

RotateLocks(r, s) ==
  /\ Exchangeable(s) /\ ~FamilyLocked(family[s])
  /\ Start(r, [Idle EXCEPT !.op = "rotate", !.sid = s])
  /\ row' = [row EXCEPT ![s] = "rotating"]
  /\ UNCHANGED <<account, family, under, password, totp, codes, used, burned>>

\* The child, if the account is still active; the parent is revoked either way.
RotateCommits(r) ==
  /\ Doing(r, "rotate")
  /\ LET s == req[r].sid IN
       IF Active
       THEN \E t \in Sids :
              /\ row[t] = "none"
              /\ row' = [row EXCEPT ![s] = "revoked", ![t] = "live"]
              /\ family' = [family EXCEPT ![t] = family[s]]
              /\ under' = [under EXCEPT ![t] = under[s]]
       ELSE row' = [row EXCEPT ![s] = "revoked"] /\ UNCHANGED <<family, under>>
  /\ End(r)
  /\ UNCHANGED <<account, password, totp, codes, used, burned>>

\* A process that dies before the commit rolls the compare-and-set back; a
\* revocation that waited for the row has revoked it by then.
RotateDies(r) ==
  /\ Doing(r, "rotate")
  /\ row' = [row EXCEPT ![req[r].sid] = IF @ = "rotating" THEN "live" ELSE @]
  /\ End(r)
  /\ UNCHANGED <<account, family, under, password, totp, codes, used, burned>>

\* A refresh token used again revokes its family as the database knows it; once
\* the row is pruned there is no family to trust and the call is only refused.
Replay(s) ==
  /\ row[s] = "revoked" /\ ~FamilyLocked(family[s])
  /\ row' = RevokedFamily(family[s])
  /\ burned' = burned \cup {family[s]}
  /\ UNCHANGED <<account, family, under, password, totp, codes, used, req>>
-------------------------------------------------------------------------------
\* ---- revocation ----

AllRevoked      == [s \in Sids |-> IF Live(s) THEN "revoked" ELSE row[s]]
OthersRevoked(s) == [t \in Sids |-> IF t # s /\ Live(t) THEN "revoked" ELSE row[t]]

Logout(s) ==
  /\ Live(s)
  /\ row' = [row EXCEPT ![s] = "revoked"]
  /\ UNCHANGED <<account, family, under, password, totp, codes, used, burned, req>>

RevokeOthers(s) ==
  /\ Live(s) /\ Active
  /\ row' = OthersRevoked(s)
  /\ UNCHANGED <<account, family, under, password, totp, codes, used, burned, req>>

\* The reset token names the password it replaces, checked on a read.
ResetReads(r) ==
  /\ Active /\ password < MaxResets
  /\ Start(r, [Idle EXCEPT !.op = "reset", !.pw = password])
  /\ UNCHANGED <<account, row, family, under, password, totp, codes, used, burned>>

ResetCommits(r) ==
  /\ Doing(r, "reset") /\ password < MaxResets
  /\ password' = password + 1
  /\ row' = AllRevoked
  /\ End(r)
  /\ UNCHANGED <<account, family, under, totp, codes, used, burned>>

\* A first password for a Google account, or a Google identity for a password
\* account, leaves the session that asked.
LinkIdentity(s) ==
  /\ Live(s) /\ Active
  /\ row' = OthersRevoked(s)
  /\ UNCHANGED <<account, family, under, password, totp, codes, used, burned, req>>
-------------------------------------------------------------------------------
\* ---- two-factor ----

Unissued == {c \in Codes \ codes : used[c] = 0}

SetupReads(r) ==
  /\ Active /\ ~totp.enabled /\ totp.minted < MaxSecrets
  /\ Start(r, [Idle EXCEPT !.op = "setup"])
  /\ UNCHANGED <<account, row, family, under, password, totp, codes, used, burned>>

SetupCommits(r) ==
  /\ Doing(r, "setup") /\ totp.minted < MaxSecrets
  /\ totp' = [totp EXCEPT !.secret = totp.minted + 1, !.minted = @ + 1]
  /\ End(r)
  /\ UNCHANGED <<account, row, family, under, password, codes, used, burned>>

\* The code is verified against the secret that was read.
EnableReads(r, s) ==
  /\ Active /\ Live(s) /\ totp.secret # 0
  /\ Start(r, [Idle EXCEPT !.op = "enable", !.sid = s, !.secret = totp.secret])
  /\ UNCHANGED <<account, row, family, under, password, totp, codes, used, burned>>

\* Enabling issues backup codes and signs every other session out; the bound is
\* the codes that may still be generated.
EnableCommits(r) ==
  /\ Doing(r, "enable")
  /\ totp' = [totp EXCEPT !.enabled = TRUE, !.proved = req[r].secret]
  /\ \E fresh \in SUBSET Unissued : codes' = fresh
  /\ row' = OthersRevoked(req[r].sid)
  /\ End(r)
  /\ UNCHANGED <<account, family, under, password, used, burned>>

DisableTwoFactor(s) ==
  /\ Live(s) /\ Active /\ totp.enabled
  /\ totp' = [totp EXCEPT !.enabled = FALSE, !.secret = 0, !.proved = 0]
  /\ codes' = {}
  /\ row' = OthersRevoked(s)
  /\ UNCHANGED <<account, family, under, password, used, burned, req>>

RegenerateCodes(s) ==
  /\ Live(s) /\ Active /\ totp.enabled
  /\ \E fresh \in SUBSET Unissued : codes' = fresh
  /\ row' = OthersRevoked(s)
  /\ UNCHANGED <<account, family, under, password, totp, used, burned, req>>
-------------------------------------------------------------------------------
\* ---- the account and the crons ----

RestrictAccount ==
  /\ Active /\ account' = "restricted"
  /\ UNCHANGED <<row, family, under, password, totp, codes, used, burned, req>>

Reinstate ==
  /\ account = "restricted" /\ account' = "active"
  /\ UNCHANGED <<row, family, under, password, totp, codes, used, burned, req>>

\* eraseAccountIdentity, once its preflight passed.
Erase ==
  /\ account \in {"active", "restricted"}
  /\ account' = "deleted"
  /\ row' = AllRevoked
  /\ totp' = [totp EXCEPT !.enabled = FALSE, !.secret = 0, !.proved = 0]
  /\ codes' = {}
  /\ UNCHANGED <<family, under, password, used, burned, req>>

\* runCleanup: rows a week past their expiry, whose tokens no longer verify.
Prune(s) ==
  /\ row[s] # "none"
  /\ \A r \in Requests : req[r].sid # s
  /\ row' = [row EXCEPT ![s] = "pruned"]
  /\ UNCHANGED <<account, family, under, password, totp, codes, used, burned, req>>

\* Any other request may die too, between two of its transactions.
RequestDies(r) ==
  /\ req[r] # Idle /\ ~Doing(r, "rotate")
  /\ End(r)
  /\ UNCHANGED <<account, row, family, under, password, totp, codes, used, burned>>

Next ==
  \/ \E r \in Requests :
       \/ SignUpChecks(r) \/ SignUpCommits(r) \/ LoginChecks(r) \/ StepUpChecks(r)
       \/ ConsumesCode(r) \/ IssueSession(r) \/ GoogleLogin(r) \/ RotateCommits(r)
       \/ RotateDies(r) \/ ResetReads(r) \/ ResetCommits(r) \/ SetupReads(r)
       \/ SetupCommits(r) \/ EnableCommits(r) \/ RequestDies(r)
       \/ \E s \in Sids : RotateLocks(r, s) \/ EnableReads(r, s)
  \/ \E s \in Sids :
       \/ Replay(s) \/ Logout(s) \/ RevokeOthers(s) \/ LinkIdentity(s)
       \/ DisableTwoFactor(s) \/ RegenerateCodes(s) \/ Prune(s)
  \/ RestrictAccount \/ Reinstate \/ Erase

-------------------------------------------------------------------------------
\* A token family is one chain: whatever requests rotate, replay, revoke or die
\* (refresh), at most one of its sessions is good at a time.
OneLivePerFamily ==
  \A f \in Sids : Cardinality({s \in Sids : family[s] = f /\ Live(s)}) <= 1

\* Once refresh has detected a replay, no session of that family is ever good
\* again: not even the child a rotation was about to insert.
BurnedFamilyIsDead == \A s \in Sids : family[s] \in burned => ~Live(s)

\* A backup code lets one request in, however many bring it to login and
\* step-up at once and however often the codes are replaced (consumeBackupCode).
BackupCodeOnce == \A c \in Codes : used[c] <= 1

\* resetPassword "revokes ALL sessions": none that was signed in with an
\* earlier password is still good.
ResetEndsSessions == \A s \in Sids : Live(s) => under[s] >= password

\* Two-factor is on only with the secret a code was verified against, for
\* "rotation requires disabling with a current code" (setupTwoFactor).
EnabledSecretIsProved == Active /\ totp.enabled => totp.secret = totp.proved
-------------------------------------------------------------------------------
Spec == Init /\ [][Next]_vars
===============================================================================
