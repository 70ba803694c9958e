------------------------------ MODULE ClientTokens ------------------------------
(* How a client keeps the refresh token it signed in with: the editor's windows *)
(* (apps/vscode-extension/src/api-client.ts), which share a SecretStorage, or   *)
(* the processes of the command line (apps/cli/src/lib/api-client.ts), which    *)
(* share a keychain entry. Requests of one process meet a 401 at once and share *)
(* one refresh; answers are lost; the user signs in and out meanwhile; processes *)
(* end and start between any two steps. The server rotates a token once and     *)
(* ends the chain of a token that comes again, as module Sessions has it.       *)
EXTENDS Naturals, FiniteSets

CONSTANTS Processes,   \* windows of the editor, or processes of the command line
          Calls,       \* refreshes in progress, in any process
          MaxLogins,   \* bound on sign-ins after the first
          MaxTurns,    \* bound on the rotations of one sign-in
          StoreFirst,  \* the editor stores a new pair before it uses it
          Nowhere, None

VARIABLES chain,       \* the server: per sign-in the turn its good token has, Dead or Unborn
          stored,      \* the token in SecretStorage or the keychain
          memory,      \* currentTokens or creds of a process; Nowhere: it does not run
          call,        \* a refresh: its process, its step, the token sent, the one received
          user,        \* a sign-in or sign-out a process is carrying out
          sent,        \* history: the refresh tokens a process has sent since it started
          again        \* history: one was sent again

vars == <<chain, stored, memory, call, user, sent, again>>

\* No turn of a token.
Dead   == MaxTurns + 1
Unborn == MaxTurns + 2

Token == [login : 0..MaxLogins, turn : 0..MaxTurns]
Idle  == [at |-> Nowhere, step |-> "idle", token |-> None, got |-> None]
Still == [step |-> "none", token |-> None]

Good(t)    == t # None /\ chain[t.login] = t.turn
Turned(t)  == [t EXCEPT !.turn = @ + 1]
Runs(p)    == memory[p] # Nowhere
InFlight(p) == {q \in Calls : call[q].at = p}

TypeOK ==
  /\ chain \in [0..MaxLogins -> 0..Unborn]
  /\ stored \in Token \cup {None}
  /\ memory \in [Processes -> Token \cup {None, Nowhere}]
  /\ call \in [Calls -> [at : Processes \cup {Nowhere}, token : Token \cup {None},
                         got : Token \cup {None},
                         step : {"idle", "asked", "granted", "half", "refused", "wiped"}]]
  /\ user \in [Processes -> [step : {"none", "granted", "stored", "leaving", "left"},
                             token : Token \cup {None}]]
  /\ sent \in [Processes -> SUBSET Token]
  /\ again \in BOOLEAN

Init ==
  /\ chain = [n \in 0..MaxLogins |-> IF n = 0 THEN 0 ELSE Unborn]
  /\ stored = [login |-> 0, turn |-> 0]
  /\ memory = [p \in Processes |-> Nowhere]
  /\ call = [q \in Calls |-> Idle]
  /\ user = [p \in Processes |-> Still]
  /\ sent = [p \in Processes |-> {}]
  /\ again = FALSE

Step(q, step) == call' = [call EXCEPT ![q].step = step]
End(q)        == call' = [call EXCEPT ![q] = Idle]
-------------------------------------------------------------------------------
\* ---- the process ----

\* The constructor (or getCredentials) reads what is stored.
Starts(p) ==
  /\ ~Runs(p)
  /\ memory' = [memory EXCEPT ![p] = stored]
  /\ UNCHANGED <<chain, stored, call, user, sent, again>>

\* The window is closed or the command ends, in the middle of anything.
Exits(p) ==
  /\ Runs(p)
  /\ memory' = [memory EXCEPT ![p] = Nowhere]
  /\ call' = [q \in Calls |-> IF call[q].at = p THEN Idle ELSE call[q]]
  /\ user' = [user EXCEPT ![p] = Still]
  /\ sent' = [sent EXCEPT ![p] = {}]
  /\ UNCHANGED <<chain, stored, again>>
-------------------------------------------------------------------------------
\* ---- refreshTokens ----

\* A request is answered 401. Others of the process join the refresh that runs.
Joins_Never(p) == FALSE
Joins(p) == InFlight(p) # {}

Refreshes(p, q) ==
  /\ Runs(p) /\ memory[p] # None /\ ~Joins(p)
  /\ call[q] = Idle
  /\ call' = [call EXCEPT ![q] = [at |-> p, step |-> "asked", token |-> memory[p], got |-> None]]
  /\ again' = (again \/ memory[p] \in sent[p])
  /\ sent' = [sent EXCEPT ![p] = @ \cup {memory[p]}]
  /\ UNCHANGED <<chain, stored, memory, user>>

\* The server exchanges a good token, or ends the chain of one it has exchanged.
Exchanged(t) ==
  chain' = [chain EXCEPT ![t.login] = IF Good(t) THEN @ + 1 ELSE Dead]

Answered(q) ==
  LET t == call[q].token IN
    /\ call[q].step = "asked"
    /\ Good(t) => t.turn < MaxTurns
    /\ Exchanged(t)
    /\ call' = [call EXCEPT ![q].step = IF Good(t) THEN "granted" ELSE "refused",
                            ![q].got  = IF Good(t) THEN Turned(t) ELSE None]
    /\ UNCHANGED <<stored, memory, user, sent, again>>

\* The answer does not come, whatever the server did. A refresh is not retried.
NotAnswered(q) ==
  LET t == call[q].token IN
    /\ call[q].step = "asked"
    /\ \/ (Good(t) => t.turn < MaxTurns) /\ Exchanged(t)
       \/ UNCHANGED chain
    /\ Step(q, "refused")
    /\ UNCHANGED <<stored, memory, user, sent, again>>

\* The new pair is stored and then used in the editor, used and then stored in
\* the command line; the refresh is over after both.
First(q)  == call[q].step = "granted"
Second(q) == call[q].step = "half"
Onward(q) == IF First(q) THEN Step(q, "half") ELSE End(q)

StoresPair(q) ==
  /\ IF StoreFirst THEN First(q) ELSE Second(q)
  /\ stored' = call[q].got
  /\ Onward(q)
  /\ UNCHANGED <<chain, memory, user, sent, again>>

UsesPair(q) ==
  /\ IF StoreFirst THEN Second(q) ELSE First(q)
  /\ memory' = [memory EXCEPT ![call[q].at] = call[q].got]
  /\ Onward(q)
  /\ UNCHANGED <<chain, stored, user, sent, again>>

\* Secret storage refuses; the refresh counts as failed.
StoringFails(q) ==
  /\ IF StoreFirst THEN First(q) ELSE Second(q)
  /\ Step(q, "refused")
  /\ UNCHANGED <<chain, stored, memory, user, sent, again>>

\* A failed refresh forgets the tokens, in memory first.
Forgotten_Kept(p) == memory
Forgotten(p) == [memory EXCEPT ![p] = None]

Forgets(q) ==
  /\ call[q].step = "refused"
  /\ memory' = Forgotten(call[q].at)
  /\ Step(q, "wiped")
  /\ UNCHANGED <<chain, stored, user, sent, again>>

\* Whatever is stored by now is cleared, unless clearing fails.
Clears(q) ==
  /\ call[q].step = "wiped"
  /\ stored' \in {None, stored}
  /\ End(q)
  /\ UNCHANGED <<chain, memory, user, sent, again>>
-------------------------------------------------------------------------------
\* ---- sign-in and sign-out ----

SignsIn(p) ==
  /\ Runs(p) /\ user[p] = Still
  /\ StoreFirst \/ memory[p] = None
  /\ \E n \in 1..MaxLogins :
       /\ chain[n] = Unborn
       /\ chain' = [chain EXCEPT ![n] = 0]
       /\ user' = [user EXCEPT ![p] = [step |-> "granted", token |-> [login |-> n, turn |-> 0]]]
  /\ UNCHANGED <<stored, memory, call, sent, again>>

\* handleLoginSuccess or persistLogin; a sign-in's process in the command line
\* ends without using the pair.
StoresLogin(p) ==
  /\ user[p].step = "granted"
  /\ stored' = user[p].token
  /\ user' = [user EXCEPT ![p] = IF StoreFirst THEN [@ EXCEPT !.step = "stored"] ELSE Still]
  /\ UNCHANGED <<chain, memory, call, sent, again>>

UsesLogin(p) ==
  /\ user[p].step = "stored"
  /\ memory' = [memory EXCEPT ![p] = user[p].token]
  /\ user' = [user EXCEPT ![p] = Still]
  /\ UNCHANGED <<chain, stored, call, sent, again>>

\* POST /auth/logout ends the session of the access token, or fails.
SignsOut(p) ==
  /\ Runs(p) /\ user[p] = Still /\ memory[p] # None
  /\ \/ Good(memory[p]) /\ chain' = [chain EXCEPT ![memory[p].login] = Dead]
     \/ UNCHANGED chain
  /\ user' = [user EXCEPT ![p].step = IF StoreFirst THEN "leaving" ELSE "left"]
  /\ UNCHANGED <<stored, memory, call, sent, again>>

\* Either way the tokens go: first from the memory of the editor, whose windows
\* stay, then from where they are stored.
DropsLogin(p) ==
  /\ user[p].step = "leaving"
  /\ memory' = [memory EXCEPT ![p] = None]
  /\ user' = [user EXCEPT ![p].step = "left"]
  /\ UNCHANGED <<chain, stored, call, sent, again>>

ClearsLogin(p) ==
  /\ user[p].step = "left"
  /\ stored' = None
  /\ user' = [user EXCEPT ![p] = Still]
  /\ UNCHANGED <<chain, memory, call, sent, again>>

Next ==
  \/ \E p \in Processes :
       \/ Starts(p) \/ Exits(p) \/ SignsIn(p) \/ StoresLogin(p) \/ UsesLogin(p)
       \/ SignsOut(p) \/ DropsLogin(p) \/ ClearsLogin(p)
       \/ \E q \in Calls : Refreshes(p, q)
  \/ \E q \in Calls :
       \/ Answered(q) \/ NotAnswered(q) \/ StoresPair(q) \/ UsesPair(q)
       \/ StoringFails(q) \/ Forgets(q) \/ Clears(q)
-------------------------------------------------------------------------------
\* "Do not re-send a consumed refresh token" (raw): no process sends a refresh
\* token twice, however many of its requests meet a 401, whatever answers are
\* lost and however the user signs in and out meanwhile.
TokenSentOnce == ~again

\* A failed refresh clears the tokens it was made with (_doRefresh): a sign-in
\* that was stored meanwhile survives.
LoginSurvives ==
  [][\A q \in Calls : call[q].step = "wiped" /\ stored' # stored =>
       stored.login = call[q].token.login]_vars

\* What processes of one client do never ends the sign-in they share: the
\* server sees a token that was exchanged only from someone else.
NoOwnReplay ==
  \A q \in Calls : call[q].step = "asked" =>
    chain[call[q].token.login] \in {Dead, call[q].token.turn}
-------------------------------------------------------------------------------
Spec == Init /\ [][Next]_vars
===============================================================================
