----------------------------- MODULE SessionsProofs -----------------------------
(* Theorems about Sessions for any session rows, requests, backup codes and    *)
(* bounds: one chain has one good session, a replayed chain has none, and a    *)
(* backup code lets one request in.                                            *)
EXTENDS Sessions, FiniteSetTheorems, TLAPS

Bounded == MaxResets \in Nat /\ MaxSecrets \in Nat

Ops == {"idle", "signup", "issue", "consume", "stepup", "rotate", "reset", "setup", "enable"}

Request == [op : Ops, sid : Sids \cup {"none"}, pw : 0..MaxResets, secret : 0..MaxSecrets,
            code : Codes \cup {"none"}]

Typed == TypeOK /\ req \in [Requests -> Request]

\* A session that does not exist yet is the root of its own family and of no other.
Rooted ==
  /\ \A s \in Sids : row[s] = "none" => family[s] = s
  /\ \A s \in Sids : row[family[s]] = "none" => family[s] = s

\* The session a rotation has claimed stays, good only for that rotation or revoked by
\* another request, and no two rotations are in one family.
Claimed ==
  /\ \A r \in Requests :
       Doing(r, "rotate") => req[r].sid \in Sids /\ row[req[r].sid] \in {"rotating", "revoked"}
  /\ \A q, r \in Requests :
       Doing(q, "rotate") /\ Doing(r, "rotate") /\ family[req[q].sid] = family[req[r].sid] => q = r

\* A family has one good session, and while one of its sessions is rotated no other.
Single ==
  /\ \A s, t \in Sids : Live(s) /\ Live(t) /\ family[s] = family[t] => s = t
  /\ \A r \in Requests, s \in Sids :
       Doing(r, "rotate") /\ Live(s) /\ family[s] = family[req[r].sid] => s = req[r].sid

\* A burned family has begun, has no good session and no rotation that may add one.
Burnt ==
  /\ \A f \in burned : row[f] # "none"
  /\ \A s \in Sids : family[s] \in burned => ~Live(s)
  /\ \A r \in Requests : Doing(r, "rotate") => family[req[r].sid] \notin burned

\* A code that can be consumed has not been.
Unspent == \A c \in Codes : used[c] <= 1 /\ (c \in codes => used[c] = 0)

Inductive == Typed /\ Rooted /\ Claimed /\ Single /\ Burnt /\ Unspent

-------------------------------------------------------------------------------
LEMMA InitInductive == ASSUME Bounded PROVE Init => Inductive
  BY DEF Bounded, Init, Inductive, Typed, TypeOK, Request, Ops, Idle, Rooted, Claimed, Single,
         Burnt, Unspent, Doing, Live

LEMMA IdleTyped == ASSUME Bounded PROVE Idle \in Request /\ Idle.op = "idle"
  BY DEF Bounded, Idle, Request, Ops

\* What requests keep in hand is typed, whatever each of them reads or writes.
LEMMA TypedStep == ASSUME Bounded, Typed, Claimed, [Next]_vars PROVE Typed'
<1> USE IdleTyped DEF Bounded, Typed, TypeOK, Request, Ops, Doing, Active, Live, Start, Step, End
<1>1. ASSUME NEW r \in Requests, SignUpChecks(r) PROVE Typed'
  BY <1>1 DEF SignUpChecks
<1>2. ASSUME NEW r \in Requests, SignUpCommits(r) PROVE Typed'
  BY <1>2 DEF SignUpCommits
<1>3. ASSUME NEW r \in Requests, LoginChecks(r) \/ GoogleLogin(r) PROVE Typed'
  <2>1. PICK pw \in 0..MaxResets : Admits(r, pw)
    BY <1>3 DEF LoginChecks, GoogleLogin, ByGoogle
  <2>2. PICK q \in Request : req' = [req EXCEPT ![r] = q]
    BY <2>1 DEF Admits
  <2>3. UNCHANGED <<account, row, family, under, password, totp, codes, used, burned>>
    BY <1>3 DEF LoginChecks, GoogleLogin
  <2>4. QED
    BY <2>2, <2>3
<1>5. ASSUME NEW r \in Requests, StepUpChecks(r) PROVE Typed'
  <2>1. PICK q \in Request : req' = [req EXCEPT ![r] = q]
    BY <1>5 DEF StepUpChecks
  <2>2. UNCHANGED <<account, row, family, under, password, totp, codes, used, burned>>
    BY <1>5 DEF StepUpChecks
  <2>3. QED
    BY <2>1, <2>2
<1>6. ASSUME NEW r \in Requests, ConsumesCode(r) PROVE Typed'
  BY <1>6 DEF ConsumesCode, Remaining
<1>7. ASSUME NEW r \in Requests, IssueSession(r) PROVE Typed'
  BY <1>7 DEF IssueSession
<1>8. ASSUME NEW r \in Requests, NEW s \in Sids, RotateLocks(r, s) PROVE Typed'
  BY <1>8 DEF RotateLocks
<1>9. ASSUME NEW r \in Requests, RotateCommits(r) PROVE Typed'
  <2> DEFINE s == req[r].sid
  <2>1. /\ s \in Sids /\ req' = [req EXCEPT ![r] = Idle]
        /\ UNCHANGED <<account, password, totp, codes, used, burned>>
    BY <1>9 DEF RotateCommits, Claimed
  <2>2. CASE UNCHANGED <<family, under>> /\ row' = [row EXCEPT ![s] = "revoked"]
    BY <2>1, <2>2
  <2>3. ASSUME NEW t \in Sids, row' = [row EXCEPT ![s] = "revoked", ![t] = "live"],
               family' = [family EXCEPT ![t] = family[s]], under' = [under EXCEPT ![t] = under[s]]
        PROVE  Typed'
    BY <2>1, <2>3
  <2>4. QED
    BY <1>9, <2>1, <2>2, <2>3 DEF RotateCommits
<1>10. ASSUME NEW r \in Requests, RotateDies(r) PROVE Typed'
  BY <1>10 DEF RotateDies
<1>11. ASSUME NEW s \in Sids, Replay(s) PROVE Typed'
  BY <1>11 DEF Replay, RevokedFamily
<1>12. ASSUME NEW s \in Sids, Logout(s) \/ Prune(s) PROVE Typed'
  BY <1>12 DEF Logout, Prune
<1>13. ASSUME NEW s \in Sids, RevokeOthers(s) \/ LinkIdentity(s) PROVE Typed'
  BY <1>13 DEF RevokeOthers, LinkIdentity, OthersRevoked
<1>14. ASSUME NEW r \in Requests, ResetReads(r) PROVE Typed'
  BY <1>14 DEF ResetReads
<1>15. ASSUME NEW r \in Requests, ResetCommits(r) PROVE Typed'
  BY <1>15 DEF ResetCommits, AllRevoked
<1>16. ASSUME NEW r \in Requests, SetupReads(r) PROVE Typed'
  BY <1>16 DEF SetupReads
<1>17. ASSUME NEW r \in Requests, SetupCommits(r) PROVE Typed'
  <2>1. totp' \in [secret : 0..MaxSecrets, enabled : BOOLEAN, proved : 0..MaxSecrets,
                   minted : 0..MaxSecrets]
    <3>1. totp.minted + 1 \in 0..MaxSecrets
      BY <1>17 DEF SetupCommits
    <3>2. QED
      BY <1>17, <3>1, Zenon DEF SetupCommits
  <2>2. QED
    BY <1>17, <2>1 DEF SetupCommits
<1>18. ASSUME NEW r \in Requests, NEW s \in Sids, EnableReads(r, s) PROVE Typed'
  BY <1>18 DEF EnableReads
<1>19. ASSUME NEW r \in Requests, EnableCommits(r) PROVE Typed'
  BY <1>19 DEF EnableCommits, OthersRevoked, Unissued
<1>20. ASSUME NEW s \in Sids, DisableTwoFactor(s) PROVE Typed'
  <2>1. totp' \in [secret : 0..MaxSecrets, enabled : BOOLEAN, proved : 0..MaxSecrets,
                   minted : 0..MaxSecrets]
    <3>1. 0 \in 0..MaxSecrets
      OBVIOUS
    <3>2. QED
      BY <1>20, <3>1, Zenon DEF DisableTwoFactor
  <2>2. QED
    BY <1>20, <2>1 DEF DisableTwoFactor, OthersRevoked
<1>21. ASSUME NEW s \in Sids, RegenerateCodes(s) PROVE Typed'
  BY <1>21 DEF RegenerateCodes, OthersRevoked, Unissued
<1>22. ASSUME RestrictAccount \/ Reinstate PROVE Typed'
  BY <1>22 DEF RestrictAccount, Reinstate
<1>23. ASSUME Erase PROVE Typed'
  <2>1. totp' \in [secret : 0..MaxSecrets, enabled : BOOLEAN, proved : 0..MaxSecrets,
                   minted : 0..MaxSecrets]
    <3>1. 0 \in 0..MaxSecrets
      OBVIOUS
    <3>2. QED
      BY <1>23, <3>1, Zenon DEF Erase
  <2>2. QED
    BY <1>23, <2>1 DEF Erase, AllRevoked
<1>24. ASSUME NEW r \in Requests, RequestDies(r) PROVE Typed'
  BY <1>24 DEF RequestDies
<1>25. CASE UNCHANGED vars
  BY <1>25 DEF vars
<1> HIDE DEF Typed, TypeOK, Request, Ops, Doing, Active, Live, Start, Step, End
<1>26. QED
  BY <1>1, <1>2, <1>3, <1>5, <1>6, <1>7, <1>8, <1>9, <1>10, <1>11, <1>12, <1>13, <1>14, <1>15,
     <1>16, <1>17, <1>18, <1>19, <1>20, <1>21, <1>22, <1>23, <1>24, <1>25 DEF Next

-------------------------------------------------------------------------------
Chained == Rooted /\ Claimed /\ Single /\ Burnt

\* The requests that rotate, and what they rotate, do not change.
SameRotations ==
  \A r \in Requests : /\ Doing(r, "rotate")' <=> Doing(r, "rotate")
                      /\ Doing(r, "rotate") => req'[r].sid = req[r].sid

\* No session comes to life: each stays, is revoked, or is pruned when nobody holds it.
OnlyEnds ==
  /\ family' = family /\ burned' = burned
  /\ \A s \in Sids : \/ row'[s] = row[s]
                     \/ Live(s) /\ row'[s] = "revoked"
                     \/ /\ row[s] # "none" /\ row'[s] = "pruned"
                        /\ \A r \in Requests : req[r].sid # s

\* Requests that revoke sessions, or touch none, leave every chain in order.
LEMMA EndingsKeepChains ==
  ASSUME Typed, Chained, SameRotations, OnlyEnds
  PROVE  Chained'
<1> USE DEF Typed, TypeOK, SameRotations, OnlyEnds, Live
<1> USE DEF Request
<1>1. Rooted'
  BY DEF Chained, Rooted
<1>2. Claimed'
  BY DEF Chained, Claimed
<1>3. Single'
  BY DEF Chained, Claimed, Single
<1>4. Burnt'
  BY DEF Chained, Claimed, Burnt
<1> HIDE DEF Typed, TypeOK, SameRotations, OnlyEnds, Live
<1>5. QED
  BY <1>1, <1>2, <1>3, <1>4 DEF Chained

\* The first session of a chain.
LEMMA IssueKeepsChains ==
  ASSUME Typed, Chained, NEW r \in Requests, IssueSession(r)
  PROVE  Chained'
<1> USE DEF Typed, TypeOK, Request, Ops, Live, Doing, IssueSession, End, Step, Idle
<1>1. PICK s \in Sids : row[s] = "none" /\ row' = [row EXCEPT ![s] = "live"]
  OBVIOUS
<1>2. family' = family /\ burned' = burned /\ req' = [req EXCEPT ![r] = Idle]
  OBVIOUS
<1>3. \A q \in Requests : /\ Doing(q, "rotate")' <=> Doing(q, "rotate")
                          /\ Doing(q, "rotate") => req'[q].sid = req[q].sid
  BY <1>2
<1> HIDE DEF IssueSession, End, Step, Idle, Doing
<1> USE <1>1, <1>2, <1>3
<1>4. Rooted'
  BY DEF Chained, Rooted
<1>5. Claimed'
  BY DEF Chained, Claimed
<1>6. Single'
  BY DEF Chained, Rooted, Claimed, Single
<1>7. Burnt'
  BY DEF Chained, Rooted, Claimed, Burnt
<1> HIDE DEF Typed, TypeOK, Live
<1>8. QED
  BY <1>4, <1>5, <1>6, <1>7 DEF Chained

\* A rotation starts on a good session of a family that nobody rotates.
LEMMA LockKeepsChains ==
  ASSUME Typed, Chained, NEW r \in Requests, NEW s \in Sids, RotateLocks(r, s)
  PROVE  Chained'
<1> USE DEF Typed, TypeOK, Request, Ops, Live, Doing, RotateLocks, Exchangeable, Start, Idle
<1>1. /\ row[s] = "live" /\ row' = [row EXCEPT ![s] = "rotating"]
      /\ family' = family /\ burned' = burned
  OBVIOUS
<1>2. /\ ~Doing(r, "rotate") /\ Doing(r, "rotate")' /\ req'[r].sid = s
      /\ \A q \in Requests \ {r} : req'[q] = req[q]
  OBVIOUS
<1>3. \A q \in Requests : Doing(q, "rotate") => family[req[q].sid] # family[s]
  BY DEF FamilyLocked
<1> HIDE DEF RotateLocks, Exchangeable, Start, Idle
<1> USE <1>1, <1>2, <1>3
<1>4. Rooted'
  BY DEF Chained, Rooted
<1>5. Claimed'
  BY DEF Chained, Claimed
<1>6. Single'
  BY DEF Chained, Claimed, Single
<1>7. Burnt'
  BY DEF Chained, Claimed, Burnt
<1> HIDE DEF Typed, TypeOK, Live, Doing
<1>8. QED
  BY <1>4, <1>5, <1>6, <1>7 DEF Chained

\* It ends in a child that takes the place of its parent ...
LEMMA CommitKeepsChains ==
  ASSUME Typed, Chained, NEW r \in Requests, RotateCommits(r)
  PROVE  Chained'
<1> DEFINE s == req[r].sid
<1> USE DEF Typed, TypeOK, Request, Ops, Live, Doing, RotateCommits, End, Step, Idle
<1>1. Doing(r, "rotate") /\ s \in Sids /\ row[s] \in {"rotating", "revoked"}
  BY DEF Chained, Claimed
<1>2. /\ ~Doing(r, "rotate")' /\ burned' = burned
      /\ \A q \in Requests \ {r} : req'[q] = req[q]
  OBVIOUS
<1>3. CASE ~Active
  <2>1. row' = [row EXCEPT ![s] = "revoked"] /\ family' = family
    BY <1>3
  <2> HIDE DEF RotateCommits, End, Step, Idle
  <2> USE <1>1, <1>2, <2>1
  <2>2. Rooted'
    BY DEF Chained, Rooted
  <2>3. Claimed'
    BY DEF Chained, Claimed
  <2>4. Single'
    BY DEF Chained, Claimed, Single
  <2>5. Burnt'
    BY DEF Chained, Claimed, Burnt
  <2>6. QED
    BY <2>2, <2>3, <2>4, <2>5 DEF Chained
<1>4. CASE Active
  <2>1. PICK t \in Sids : /\ row[t] = "none"
                         /\ row' = [row EXCEPT ![s] = "revoked", ![t] = "live"]
                         /\ family' = [family EXCEPT ![t] = family[s]]
    BY <1>4
  <2> HIDE DEF RotateCommits, End, Step, Idle
  <2> USE <1>1, <1>2, <2>1
  <2>2. /\ s # t /\ row[family[s]] # "none" /\ family[s] # t
        /\ \A u \in Sids : family[u] = t => u = t
    BY DEF Chained, Rooted
  <2>3. \A q \in Requests \ {r} : Doing(q, "rotate") =>
          /\ req[q].sid \in Sids \ {s, t} /\ family[req[q].sid] # family[s]
          /\ Doing(q, "rotate")' /\ req'[q].sid = req[q].sid
    BY DEF Chained, Claimed
  <2>4. \A u \in Sids \ {s, t} : Live(u) => family[u] # family[s]
    BY DEF Chained, Single
  <2> USE <2>2
  <2>5. Rooted'
    BY DEF Chained, Rooted
  <2>6. Claimed'
    BY <2>3 DEF Chained, Claimed
  <2>7. Single'
    <3>1. \A u \in Sids : Live(u)' /\ u # t => Live(u) /\ u # s
      OBVIOUS
    <3>2. \A u, v \in Sids : Live(u)' /\ Live(v)' /\ family'[u] = family'[v] => u = v
      <4>1. ASSUME NEW u \in Sids \ {t}, NEW v \in Sids \ {t}, Live(u)', Live(v)',
                   family'[u] = family'[v]
            PROVE  u = v
        <5>1. Live(u) /\ Live(v) /\ family[u] = family[v]
          BY <3>1, <4>1
        <5>2. QED
          BY <5>1 DEF Chained, Single
      <4>2. ASSUME NEW u \in Sids \ {t}, Live(u)' PROVE family'[u] # family'[t]
        BY <2>4, <3>1, <4>2
      <4>3. QED
        BY <4>1, <4>2
    <3>3. ASSUME NEW q \in Requests, NEW u \in Sids, Doing(q, "rotate")', Live(u)',
                 family'[u] = family'[req'[q].sid]
          PROVE  u = req'[q].sid
      <4>1. q # r /\ Doing(q, "rotate")
        BY <3>3
      <4>2. req'[q].sid = req[q].sid /\ req[q].sid \in Sids \ {s, t} /\ family[req[q].sid] # family[s]
        BY <2>3, <4>1
      <4>3. u # t /\ Live(u) /\ family[u] = family[req[q].sid]
        BY <3>1, <3>3, <4>2
      <4>4. QED
        BY <4>1, <4>2, <4>3 DEF Chained, Single
    <3>4. QED
      BY <3>2, <3>3 DEF Single
  <2>8. Burnt'
    BY <2>3 DEF Chained, Burnt
  <2>9. QED
    BY <2>5, <2>6, <2>7, <2>8 DEF Chained
<1> HIDE DEF Typed, TypeOK, Live, Doing, Chained
<1>5. QED
  BY <1>3, <1>4

\* ... or dies and leaves the parent as it was.
LEMMA DeathKeepsChains ==
  ASSUME Typed, Chained, NEW r \in Requests, RotateDies(r)
  PROVE  Chained'
<1> DEFINE s == req[r].sid
<1> USE DEF Typed, TypeOK, Request, Ops, Live, Doing, RotateDies, End, Step, Idle
<1>1. Doing(r, "rotate") /\ s \in Sids /\ row[s] \in {"rotating", "revoked"}
  BY DEF Chained, Claimed
<1>2. /\ ~Doing(r, "rotate")' /\ burned' = burned /\ family' = family
      /\ \A q \in Requests \ {r} : req'[q] = req[q]
      /\ row' = [row EXCEPT ![s] = IF @ = "rotating" THEN "live" ELSE @]
  OBVIOUS
<1> HIDE DEF RotateDies, End, Step, Idle
<1> USE <1>1, <1>2
<1>3. \A u \in Sids : Live(u)' <=> Live(u)
  OBVIOUS
<1>4. Rooted'
  BY DEF Chained, Rooted
<1>5. Claimed'
  BY DEF Chained, Claimed
<1>6. Single'
  BY <1>3 DEF Chained, Claimed, Single
<1>7. Burnt'
  BY <1>3 DEF Chained, Claimed, Burnt
<1> HIDE DEF Typed, TypeOK, Live, Doing
<1>8. QED
  BY <1>4, <1>5, <1>6, <1>7 DEF Chained

\* A replay revokes the whole family, which no rotation can be about to extend.
LEMMA ReplayKeepsChains ==
  ASSUME Typed, Chained, NEW s \in Sids, Replay(s)
  PROVE  Chained'
<1> USE DEF Typed, TypeOK, Request, Ops, Live
<1>1. /\ row[s] = "revoked" /\ row[family[s]] # "none"
      /\ family' = family /\ burned' = burned \cup {family[s]} /\ req' = req
  BY DEF Replay, Chained, Rooted
<1>2. row' = [u \in Sids |-> IF family[u] = family[s] /\ Live(u) THEN "revoked" ELSE row[u]]
  BY DEF Replay, RevokedFamily
<1>3. \A q \in Requests : Doing(q, "rotate") => family[req[q].sid] # family[s]
  BY DEF Replay, FamilyLocked
<1>4. \A q \in Requests : Doing(q, "rotate")' <=> Doing(q, "rotate")
  BY <1>1 DEF Doing
<1> USE <1>1, <1>2, <1>3, <1>4
<1>5. Rooted'
  BY DEF Chained, Rooted
<1>6. Claimed'
  BY DEF Chained, Claimed
<1>7. Single'
  BY DEF Chained, Claimed, Single
<1>8. Burnt'
  BY DEF Chained, Claimed, Burnt
<1> HIDE DEF Typed, TypeOK, Live
<1>9. QED
  BY <1>5, <1>6, <1>7, <1>8 DEF Chained

LEMMA ChainedStep == ASSUME Bounded, Typed, Typed', Chained, [Next]_vars PROVE Chained'
<1> USE DEF Typed, TypeOK, Request, Ops, Live, Doing, Start, Step, End
<1> DEFINE Mild == SameRotations /\ OnlyEnds
<1>1. ASSUME NEW r \in Requests,
             \/ SignUpChecks(r) \/ SignUpCommits(r) \/ LoginChecks(r) \/ StepUpChecks(r)
             \/ ConsumesCode(r) \/ GoogleLogin(r) \/ ResetReads(r) \/ SetupReads(r)
             \/ SetupCommits(r) \/ RequestDies(r) \/ \E s \in Sids : EnableReads(r, s)
      PROVE  Mild
  <2>1. row' = row /\ family' = family /\ burned' = burned
    BY <1>1 DEF SignUpChecks, SignUpCommits, LoginChecks, StepUpChecks, ConsumesCode, GoogleLogin,
                ResetReads, SetupReads, SetupCommits, RequestDies, EnableReads
  <2>2. req[r].op # "rotate" /\ \E q \in Request : q.op # "rotate" /\ req' = [req EXCEPT ![r] = q]
    <3>1. CASE SignUpChecks(r) \/ SignUpCommits(r)
      BY <3>1, IdleTyped DEF SignUpChecks, SignUpCommits
    <3>2. ASSUME NEW pw \in 0..MaxResets, Admits(r, pw)
          PROVE  req[r].op # "rotate" /\ \E q \in Request : q.op # "rotate" /\ req' = [req EXCEPT ![r] = q]
      <4>1. PICK q \in Request : /\ q.op \in {"issue", "consume"} /\ req[r] = Idle
                                 /\ req' = [req EXCEPT ![r] = q]
        <5>1. CASE Start(r, [Idle EXCEPT !.op = "issue", !.pw = pw])
          BY <5>1, IdleTyped
        <5>2. ASSUME NEW c \in Codes, Start(r, [Idle EXCEPT !.op = "consume", !.pw = pw, !.code = c])
              PROVE  \E q \in Request : /\ q.op \in {"issue", "consume"} /\ req[r] = Idle
                                        /\ req' = [req EXCEPT ![r] = q]
          BY <5>2, IdleTyped
        <5>3. QED
          BY <3>2, <5>1, <5>2 DEF Admits
      <4> HIDE DEF Typed, Request, Start, Step, Live, Doing
      <4>2. QED
        BY <4>1, IdleTyped
    <3>3. CASE LoginChecks(r) \/ GoogleLogin(r)
      BY <3>2, <3>3 DEF LoginChecks, GoogleLogin, ByGoogle, Bounded
    <3>4. CASE StepUpChecks(r)
      BY <3>4, IdleTyped DEF StepUpChecks
    <3>5. CASE ConsumesCode(r)
      BY <3>5, IdleTyped DEF ConsumesCode
    <3>6. CASE ResetReads(r) \/ SetupReads(r) \/ SetupCommits(r) \/ RequestDies(r)
      <4>1. CASE ResetReads(r)
        BY <4>1, IdleTyped DEF ResetReads
      <4>2. CASE SetupReads(r)
        BY <4>2, IdleTyped DEF SetupReads
      <4>3. CASE SetupCommits(r) \/ RequestDies(r)
        BY <4>3, IdleTyped DEF SetupCommits, RequestDies
      <4>4. QED
        BY <3>6, <4>1, <4>2, <4>3
    <3>7. ASSUME NEW s \in Sids, EnableReads(r, s)
          PROVE  req[r].op # "rotate" /\ \E q \in Request : q.op # "rotate" /\ req' = [req EXCEPT ![r] = q]
      BY <3>7, IdleTyped DEF EnableReads
    <3>8. QED
      BY <1>1, <3>1, <3>3, <3>4, <3>5, <3>6, <3>7
  <2>3. QED
    BY <2>1, <2>2 DEF SameRotations, OnlyEnds
<1>2. ASSUME NEW r \in Requests, ResetCommits(r) \/ EnableCommits(r) PROVE Mild
  BY <1>2 DEF ResetCommits, EnableCommits, AllRevoked, OthersRevoked, SameRotations, OnlyEnds, Idle
<1>3. ASSUME NEW s \in Sids,
             \/ Logout(s) \/ RevokeOthers(s) \/ LinkIdentity(s) \/ DisableTwoFactor(s)
             \/ RegenerateCodes(s) \/ Prune(s)
      PROVE  Mild
  BY <1>3 DEF Logout, RevokeOthers, LinkIdentity, DisableTwoFactor, RegenerateCodes, Prune,
              OthersRevoked, SameRotations, OnlyEnds
<1>4. ASSUME RestrictAccount \/ Reinstate \/ Erase \/ UNCHANGED vars PROVE Mild
  BY <1>4 DEF RestrictAccount, Reinstate, Erase, AllRevoked, vars, SameRotations, OnlyEnds
<1> HIDE DEF Typed, TypeOK, Request, Ops, Live, Doing, Start, Step, End
<1>5. Mild => Chained'
  BY EndingsKeepChains
<1> HIDE DEF Mild
<1>6. QED
  BY <1>1, <1>2, <1>3, <1>4, <1>5, IssueKeepsChains, LockKeepsChains, CommitKeepsChains,
     DeathKeepsChains, ReplayKeepsChains DEF Next

\* Codes are used up only while they can be consumed, and replaced only by unused ones.
LEMMA UnspentStep == ASSUME Typed, Unspent, [Next]_vars PROVE Unspent'
<1> USE DEF Typed, TypeOK, Unspent
<1>1. ASSUME NEW r \in Requests, ConsumesCode(r) PROVE Unspent'
  BY <1>1 DEF ConsumesCode, Remaining
<1>2. ASSUME NEW r \in Requests, EnableCommits(r) PROVE Unspent'
  BY <1>2 DEF EnableCommits, Unissued
<1>3. ASSUME NEW s \in Sids, RegenerateCodes(s) PROVE Unspent'
  BY <1>3 DEF RegenerateCodes, Unissued
<1>4. ASSUME codes' \subseteq codes, used' = used PROVE Unspent'
  BY <1>4
<1>5. ASSUME NEW s \in Sids, DisableTwoFactor(s) PROVE codes' = {} /\ used' = used
  BY <1>5 DEF DisableTwoFactor
<1>6. ASSUME NEW r \in Requests,
             \/ SignUpChecks(r) \/ SignUpCommits(r) \/ LoginChecks(r) \/ StepUpChecks(r)
             \/ GoogleLogin(r) \/ ResetReads(r) \/ SetupReads(r) \/ SetupCommits(r)
             \/ RequestDies(r) \/ ResetCommits(r) \/ IssueSession(r) \/ RotateCommits(r)
             \/ RotateDies(r) \/ \E s \in Sids : EnableReads(r, s) \/ RotateLocks(r, s)
      PROVE  codes' = codes /\ used' = used
  BY <1>6 DEF SignUpChecks, SignUpCommits, LoginChecks, StepUpChecks, GoogleLogin, ResetReads,
              SetupReads, SetupCommits, RequestDies, ResetCommits, IssueSession, RotateCommits,
              RotateDies, EnableReads, RotateLocks
<1>7. ASSUME NEW s \in Sids,
             Replay(s) \/ Logout(s) \/ RevokeOthers(s) \/ LinkIdentity(s) \/ Prune(s)
      PROVE  codes' = codes /\ used' = used
  BY <1>7 DEF Replay, Logout, RevokeOthers, LinkIdentity, Prune
<1>8. ASSUME RestrictAccount \/ Reinstate \/ UNCHANGED vars PROVE codes' = codes /\ used' = used
  BY <1>8 DEF RestrictAccount, Reinstate, vars
<1>9. ASSUME Erase PROVE codes' = {} /\ used' = used
  BY <1>9 DEF Erase
<1> HIDE DEF Typed, TypeOK, Unspent
<1>10. QED
  BY <1>1, <1>2, <1>3, <1>4, <1>5, <1>6, <1>7, <1>8, <1>9 DEF Next

LEMMA InductiveAlways == ASSUME Bounded PROVE Spec => []Inductive
<1>1. Init => Inductive
  BY InitInductive
<1>2. Inductive /\ [Next]_vars => Inductive'
  BY TypedStep, ChainedStep, UnspentStep DEF Inductive, Chained
<1>3. QED
  BY <1>1, <1>2, PTL DEF Spec

-------------------------------------------------------------------------------
\* Accounts, sessions, codes and what requests have read keep their types.
THEOREM TypeCorrect == ASSUME Bounded PROVE Spec => []TypeOK
<1>1. Inductive => TypeOK
  BY DEF Inductive, Typed
<1>2. QED
  BY <1>1, InductiveAlways, PTL

\* A token family is one chain with at most one good session, however many
\* sessions, families and requests there are (refresh).
THEOREM ChainHasOneEnd == ASSUME Bounded PROVE Spec => []OneLivePerFamily
<1>1. Inductive => OneLivePerFamily
  <2> SUFFICES ASSUME Inductive, NEW f \in Sids
               PROVE  Cardinality({s \in Sids : family[s] = f /\ Live(s)}) <= 1
    BY DEF OneLivePerFamily
  <2> DEFINE Good == {s \in Sids : family[s] = f /\ Live(s)}
  <2>1. \A s, t \in Good : s = t
    BY DEF Inductive, Single
  <2> HIDE DEF Good
  <2>2. CASE Good = {}
    BY <2>2, FS_EmptySet DEF Good
  <2>3. ASSUME NEW s \in Good PROVE Cardinality(Good) = 1
    <3>1. Good = {s}
      BY <2>1, <2>3
    <3>2. QED
      BY <3>1, FS_Singleton
  <2>4. Cardinality(Good) <= 1
    BY <2>2, <2>3, FS_EmptySet
  <2>5. QED
    BY <2>4 DEF Good
<1>2. QED
  BY <1>1, InductiveAlways, PTL

\* After a replay was detected no session of the family is ever good again, not
\* even one that a rotation was about to insert.
THEOREM ReplayEndsFamily == ASSUME Bounded PROVE Spec => []BurnedFamilyIsDead
<1>1. Inductive => BurnedFamilyIsDead
  BY DEF Inductive, Burnt, BurnedFamilyIsDead
<1>2. QED
  BY <1>1, InductiveAlways, PTL

\* A backup code lets one request in, whatever requests bring it to login and
\* step-up (consumeBackupCode).
THEOREM CodeAdmitsOnce == ASSUME Bounded PROVE Spec => []BackupCodeOnce
<1>1. Inductive => BackupCodeOnce
  BY DEF Inductive, Unspent, BackupCodeOnce
<1>2. QED
  BY <1>1, InductiveAlways, PTL
================================================================================
