-------------------------------- MODULE Clients --------------------------------
(* What the clients of an account share, component by component: its sandbox   *)
(* opportunities, the agent session an editor reports, the refresh token of    *)
(* windows or processes, and the spool of events on disk. They share no state; *)
(* this module names their variables apart and says what holds of each.        *)
EXTENDS Integers, FiniteSets

CONSTANTS Opportunities, Asks, Keys, NoKey, NoOpportunity, Cap, Ttl, Hour, MaxClock,
          Events, Units, Policies, FreshFor, Recovery, MaxAge, MinWait, MaxNow, MaxTaken,
          Processes, Calls, MaxLogins, MaxTurns, StoreFirst, Nowhere, None,
          Records, Spoolers, Running, NoProcess, MaxBatch, MaxQueue, MaxStored

VARIABLES
  clock, offer, request,
  now, taken, stored, received, session, work, minted, policy, refused, build, fact,
  chain, token, memory, call, user, sent, again,
  queue, inflight, quarantine, disabled, lock, alive, job, old, server, enqueued, cleared, raced

adVars     == <<clock, offer, request>>
agentVars  == <<now, taken, stored, received, session, work, minted, policy, refused, build,
                fact>>
clientVars == <<chain, token, memory, call, user, sent, again>>
spoolVars  == <<queue, inflight, quarantine, disabled, lock, alive, job, old, server, enqueued,
                cleared, raced>>

Ads == INSTANCE AdOpportunities WITH now <- clock, Requests <- Asks, MaxNow <- MaxClock

Agent == INSTANCE AgentSessions WITH Fresh <- FreshFor

Client == INSTANCE ClientTokens WITH stored <- token

Spool == INSTANCE AgentSpool WITH Events <- Records, Processes <- Spoolers

-------------------------------------------------------------------------------
\* The clock and the cap are numbers, and so many opportunities can be counted.
AdBounds == /\ Cap \in Nat /\ Ttl \in Nat /\ Hour \in Nat /\ MaxClock \in Nat \ {0}
            /\ IsFiniteSet(Opportunities)

\* Instants are numbers. A client reports the start of a session once, and
\* nothing of the session is from before it.
AgentEvents ==
  /\ MaxAge \in Nat /\ MaxNow \in Nat /\ Policies \subseteq Nat
  /\ \A e \in Events : e.at \in Nat
  /\ \A s \in Events : s.type = "session.started" =>
       \A e \in Events : s.at <= e.at /\ (e.type = "session.started" => e = s)

\* No token and no process is called none or nowhere.
ClientNames ==
  /\ MaxLogins \in Nat /\ MaxTurns \in Nat /\ StoreFirst \in BOOLEAN
  /\ None \notin Client!Token /\ Nowhere \notin Client!Token \cup Processes /\ None # Nowhere

ASSUME ClientsAssumption ==
  AdBounds /\ AgentEvents /\ ClientNames /\ NoProcess \notin Spoolers
-------------------------------------------------------------------------------
\* The hourly cap of an account holds for all of its devices together
\* (claimSandboxOpportunity).
WithinCap == Ads!WithinCap

\* A fact misses no event from before the end of its session that was not in flight when
\* it was read (attention-shadow-fact.cron).
FactIsFinal == Agent!FactIsFinal

\* A session is bound to the policy of its start (rebindShadowPolicyToSessionStart).
PolicyOfStart == Agent!PolicyOfStart

\* No process of a client sends a refresh token twice (raw, refreshTokens).
TokenSentOnce == Client!TokenSentOnce

\* An event the spool has taken is not lost (agent-spool).
EventKept == Spool!EventKept
===============================================================================
