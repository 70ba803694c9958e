----------------------------- MODULE AgentSessions -----------------------------
(* apps/api/src/agent: lifecycle events of one coding-agent session reach the  *)
(* API late, twice and in any order, and are projected one transaction each,   *)
(* under an advisory lock on the correlation, into the session, its work units *)
(* and its shadow policy. A cron abandons orphaned sessions, another freezes   *)
(* finished ones into immutable facts.                                         *)
EXTENDS Naturals, FiniteSets, FiniteSetsExt

CONSTANTS Events,        \* [id, type, at, unit]: what the client emits; id breaks ties
          Units,         \* provider work identities (turns, tasks)
          Policies,      \* times from which an operator's shadow policy is in force
          Fresh,         \* MAX_OPPORTUNITY_TRIGGER_AGE_MS
          Recovery,      \* recoveryWindowMs of the reconciliation
          MaxAge,        \* AGENT_EVENT_MAX_AGE_MS
          MinWait,       \* MIN_FOREGROUND_WAIT_MS
          MaxNow,        \* bound on the clock
          MaxTaken       \* bound on the events in flight

VARIABLES now,
          taken,         \* events whose age a request has checked and not stored yet
          stored,        \* AgentLifecycleEvent rows
          received,      \* latest receivedAt among them
          session,       \* AgentSession row
          work,          \* AgentWorkUnit.status, "none" without a row
          minted,        \* events whose AdOpportunity row was created
          policy,        \* [bound, at]: policy and instant of the assignment, 0 for none
          refused,       \* events answered abandoned_session: the client drops them
          build,         \* the fact the shadow-fact cron is building
          fact           \* AttentionSessionFact row

vars == <<now, taken, stored, received, session, work, minted, policy, refused, build, fact>>

\* A fact; inflight, for the properties only: what was in flight when it was read.
NoFact    == [policy |-> 0, events |-> {}, ended |-> 0, inflight |-> {}]
Unbound   == [bound |-> 0, at |-> 0]
NoSession == [status |-> "none", started |-> 0, ended |-> 0, updated |-> 0]
Fact      == [policy : 0..MaxNow, events : SUBSET Events, ended : 0..MaxNow,
              inflight : SUBSET Events]

TypeOK ==
  /\ now \in 1..MaxNow /\ received \in 0..MaxNow
  /\ taken \subseteq Events /\ stored \subseteq Events /\ minted \subseteq stored /\ refused \subseteq Events
  /\ session \in [status : {"none", "active", "paused", "ended", "abandoned"},
                  started : 0..MaxNow, ended : 0..MaxNow, updated : 0..MaxNow]
  /\ work \in [Units -> {"none", "active", "completed", "failed"}]
  /\ policy \in [bound : 0..MaxNow, at : 0..MaxNow]
  /\ build \in Fact /\ fact \in Fact

Init ==
  /\ now = 1 /\ taken = {} /\ stored = {} /\ received = 0 /\ session = NoSession
  /\ work = [u \in Units |-> "none"] /\ minted = {} /\ policy = Unbound
  /\ refused = {} /\ build = NoFact /\ fact = NoFact
-------------------------------------------------------------------------------
\* The total order (occurredAt, sequence, eventId).
Before(d, e) == d.at < e.at \/ (d.at = e.at /\ d.id < e.id)
Newest(es)   == {e \in es : \A d \in es : d = e \/ Before(d, e)}
IsLatest(e)  == \A d \in stored : Before(d, e)

\* The policy in force at an instant.
PolicyAt(t)  == Max({0} \cup {p \in Policies : p <= t})
-------------------------------------------------------------------------------
\* ---- projections of one event ----

StatusFor(e) == CASE e.type = "session.ended" -> "ended"
                  [] e.type = "session.paused" -> "paused"
                  [] OTHER -> "active"

Opened(e) == IF session.status = "none"
             THEN [status |-> StatusFor(e), started |-> e.at, ended |-> 0, updated |-> now]
             ELSE session

\* Only the newest event moves the session; a resumed session keeps its endedAt.
Moved(e, s) ==
  IF ~IsLatest(e) THEN s
  ELSE CASE e.type = "session.ended" -> [s EXCEPT !.status = "ended", !.ended = e.at, !.updated = now]
         [] e.type = "session.paused" -> [s EXCEPT !.status = "paused", !.updated = now]
         [] e.type \in {"session.started", "session.resumed"} ->
              [s EXCEPT !.status = "active", !.updated = now]
         [] OTHER -> s

UnitStatus_OfSession(type) == IF type \in {"turn.completed", "turn.failed"} THEN "ended" ELSE "active"
UnitStatus(type) == CASE type = "turn.completed" -> "completed"
                      [] type = "turn.failed" -> "failed"
                      [] OTHER -> "active"

\* The first terminal status to arrive sticks.
Projected(e) ==
  [u \in Units |-> IF u = e.unit /\ work[u] \in {"none", "active"}
                   THEN UnitStatus(e.type) ELSE work[u]]

\* A wait seen while a unit runs, a minimum after its start; or a return after
\* work completed in the background. From fresh events that are the newest.
Starts(e) == {s \in stored : s.type = "turn.processing_started" /\ s.at < e.at}
Leaves(e) == {b \in stored : b.type = "user.backgrounded" /\ b.at < e.at}
Mints(e) ==
  /\ IsLatest(e) /\ e.at + Fresh >= now
  /\ \/ /\ e.type = "surface.visible"
        /\ \E u \in Units : work[u] = "active"
        /\ \E s \in Newest(Starts(e)) : e.at - s.at >= MinWait
     \/ /\ e.type = "user.returned"
        /\ \E b \in Newest(Leaves(e)) : \E c \in stored :
             c.type \in {"turn.completed", "session.ended"} /\ b.at < c.at /\ c.at < e.at

Bind(t) == IF PolicyAt(t) = 0 THEN Unbound ELSE [bound |-> PolicyAt(t), at |-> t]

\* assignShadowPolicyIfAvailable when the session is created, then
\* rebindShadowPolicyToSessionStart when its start arrives.
Rebindable_Never(e, p) == FALSE
Rebindable(e, p) ==
  /\ e.type = "session.started" /\ p # Unbound
  /\ p.bound > e.at /\ e.at < p.at /\ fact = NoFact
Bound(e) ==
  LET p == IF session.status = "none" THEN Bind(e.at) ELSE policy
  IN  IF Rebindable(e, p) THEN Bind(e.at) ELSE p
-------------------------------------------------------------------------------
\* ---- actions ----

Deliverable(e) == e.at <= now /\ e.at + MaxAge >= now

\* ingestBatch looks at the age of every event once, before it awaits the device. An event
\* whose request dies stays in flight, one that is sent again is in flight once.
Validates(e) ==
  /\ Deliverable(e) /\ e \notin taken \cup stored \cup refused
  /\ Cardinality(taken) < MaxTaken
  /\ taken' = taken \cup {e}
  /\ UNCHANGED <<now, stored, received, session, work, minted, policy, refused, build, fact>>

\* ingestEvent, at any time later; a repeated event changes nothing.
Ingest(e) ==
  /\ e \in taken /\ session.status # "abandoned"
  /\ taken' = taken \ {e}
  /\ stored' = stored \cup {e} /\ received' = now
  /\ session' = Moved(e, Opened(e))
  /\ work' = Projected(e)
  /\ minted' = IF Mints(e) THEN minted \cup {e} ELSE minted
  /\ policy' = Bound(e)
  /\ UNCHANGED <<now, refused, build, fact>>

\* An abandoned correlation is terminal, whatever the event.
Refuse(e) ==
  /\ e \in taken /\ session.status = "abandoned"
  /\ taken' = taken \ {e} /\ refused' = refused \cup {e}
  /\ UNCHANGED <<now, stored, received, session, work, minted, policy, build, fact>>

\* reconcileCandidate: re-checked under the lock of the correlation.
Orphaned ==
  /\ session.status = "active" /\ session.ended = 0
  /\ session.updated + Recovery < now
  /\ received + Recovery < now
  /\ \A e \in stored : e.at + Recovery < now
  /\ \A u \in Units : work[u] # "active"

Abandon ==
  /\ Orphaned
  /\ session' = [session EXCEPT !.status = "abandoned", !.ended = now, !.updated = now]
  /\ UNCHANGED <<now, taken, stored, received, work, minted, policy, refused, build, fact>>

\* The shadow-fact cron reads the assignment and the events of a final session ...
Final_AtOnce == session.status \in {"ended", "abandoned"}
Final == session.status \in {"ended", "abandoned"} /\ session.ended + MaxAge <= now

FactReads ==
  /\ Final /\ fact = NoFact /\ build = NoFact /\ policy # Unbound
  /\ build' = [policy |-> policy.bound, events |-> stored, ended |-> session.ended,
               inflight |-> taken]
  /\ UNCHANGED <<now, taken, stored, received, session, work, minted, policy, refused, fact>>

\* ... and persists, once per session and only under the assigned policy.
FactPersists ==
  /\ build # NoFact
  /\ fact' = IF policy.bound = build.policy /\ fact = NoFact THEN build ELSE fact
  /\ build' = NoFact
  /\ UNCHANGED <<now, taken, stored, received, session, work, minted, policy, refused>>

Tick ==
  /\ now < MaxNow /\ now' = now + 1
  /\ UNCHANGED <<taken, stored, received, session, work, minted, policy, refused, build, fact>>

Next == \/ \E e \in Events : Validates(e) \/ Ingest(e) \/ Refuse(e)
        \/ Abandon \/ FactReads \/ FactPersists \/ Tick
-------------------------------------------------------------------------------
Missing == {e \in stored : e.at < fact.ended} \ fact.events

\* No event from before the end of a session is missing from its fact that was not on its
\* way, past the check of its age, when the fact was read; and the policy the fact was
\* computed under stays assigned (attention-shadow-fact.cron).
FactIsFinal ==
  fact # NoFact => policy.bound = fact.policy /\ Missing \subseteq fact.inflight

\* "Once endedAt is older than that bound, every event that can still pass
\* timestamp validation necessarily occurred after the session ended"
\* (attention-shadow-fact.cron).
FactIsComplete == fact # NoFact => Missing = {}

\* The binding does not depend on the order of delivery: once the start of a
\* session is known it is bound to the policy in force at its start, unless a
\* fact froze it before (rebindShadowPolicyToSessionStart).
PolicyOfStart ==
  \A e \in stored : e.type = "session.started" /\ fact = NoFact => policy.bound = PolicyAt(e.at)

\* An abandoned session had no work in progress, and none is added to it.
AbandonedIsIdle ==
  session.status = "abandoned" => \A u \in Units : work[u] # "active"

\* "Duplicate and out-of-order events are handled deterministically"
\* (ateva-implementation-blueprint): once every event is in, the status is that
\* of the last event that speaks of it.
Speaks(es) == {e \in es : e.type \in {"session.started", "session.resumed", "session.paused",
                                      "session.ended"}}
OrderIndependent ==
  stored = Events /\ session.status # "abandoned" =>
    \A e \in Newest(Speaks(stored)) : session.status = StatusFor(e)
-------------------------------------------------------------------------------
Spec == Init /\ [][Next]_vars
===============================================================================
