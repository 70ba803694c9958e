------------------------------ MODULE ClientProofs ------------------------------
(* Theorems about what an account's clients share, each on its own: sandbox    *)
(* opportunities under their hourly cap, the session of a coding agent and its *)
(* immutable fact, the refresh token that windows or processes keep, and the   *)
(* spool of events on disk. They share no state.                               *)
EXTENDS Clients, FiniteSetTheorems, WellFoundedInduction, TLAPS

-------------------------------------------------------------------------------
\* ---- sandbox opportunities ----

\* An instance counts as this module does.
LEMMA SameCount == ASSUME NEW S PROVE Ads!Cardinality(S) = Cardinality(S)
  BY DEF Ads!Cardinality, Cardinality

\* What was claimed was claimed by now, and a request counts from an hour ago or longer.
Counted ==
  /\ \A o \in Opportunities : offer[o].state = "claimed" => offer[o].claimed <= clock
  /\ \A r \in Asks : request[r] # Ads!Idle =>
       request[r].offer \in Opportunities /\ (request[r].since = 0 \/ request[r].since + Hour <= clock)

Seen(t) == {o \in Opportunities : offer[o].state = "claimed" /\ offer[o].claimed \in t..(t + Hour)}

Capped == \A t \in 1..MaxClock : Cardinality(Seen(t)) <= Cap

AdInductive == Ads!TypeOK /\ Counted /\ Capped

LEMMA AdInit == ASSUME AdBounds, Ads!Init PROVE AdInductive
<1>1. Ads!TypeOK
  BY DEF AdBounds, Ads!Init, Ads!TypeOK, Ads!Idle
<1>2. Counted
  BY DEF AdBounds, Ads!Init, Counted
<1>3. \A t \in 1..MaxClock : Seen(t) = {}
  BY DEF Ads!Init, Seen
<1>4. Capped
  BY <1>3, FS_EmptySet DEF AdBounds, Capped
<1>5. QED
  BY <1>1, <1>2, <1>4 DEF AdInductive

\* A claim counts all that lies in an hour with it.
LEMMA ClaimStep ==
  ASSUME AdBounds, AdInductive, NEW r \in Asks, Ads!RequestClaims(r)
  PROVE  AdInductive'
<1> USE DEF AdBounds, AdInductive, Ads!TypeOK, Counted, Ads!RequestClaims
<1>1. PICK o \in Opportunities : o = request[r].offer
  OBVIOUS
<1> DEFINE Recent == {q \in Opportunities :
                        offer[q].state = "claimed" /\ offer[q].claimed >= request[r].since}
<1>2. request[r] # Ads!Idle /\ clock' = clock /\ request' = [request EXCEPT ![r] = Ads!Idle]
  OBVIOUS
<1>3. \/ offer' = offer
      \/ /\ Cardinality(Recent) < Cap /\ offer[o].state = "candidate"
         /\ offer' = [offer EXCEPT ![o] = [@ EXCEPT !.state = "claimed", !.claimed = clock,
                                                   !.key = request[r].key]]
  BY <1>1, SameCount DEF Ads!UnderCap, Ads!Recent, Ads!Claimable
<1>4. Ads!TypeOK'
  <2>1. request' \in [Asks -> [key : Keys \cup {NoKey}, since : 0..MaxClock,
                                  offer : Opportunities \cup {NoOpportunity}]]
    <3>1. Ads!Idle \in [key : Keys \cup {NoKey}, since : 0..MaxClock,
                       offer : Opportunities \cup {NoOpportunity}]
      BY DEF Ads!Idle
    <3>2. QED
      BY <1>2, <3>1
  <2>2. CASE offer' = offer
    BY <1>2, <2>1, <2>2
  <2>3. CASE offer' = [offer EXCEPT ![o] = [@ EXCEPT !.state = "claimed", !.claimed = clock,
                                                   !.key = request[r].key]]
    <3>1. clock \in 0..MaxClock /\ request[r].key \in Keys \cup {NoKey}
      OBVIOUS
    <3>2. [offer[o] EXCEPT !.state = "claimed", !.claimed = clock, !.key = request[r].key]
            \in [state : {"none", "candidate", "claimed", "expired"}, eligible : 0..MaxClock,
                key : Keys \cup {NoKey}, claimed : 0..MaxClock]
      <4>1. offer[o] \in [state : {"none", "candidate", "claimed", "expired"}, eligible : 0..MaxClock,
                          key : Keys \cup {NoKey}, claimed : 0..MaxClock]
        OBVIOUS
      <4> HIDE DEF AdInductive, Ads!TypeOK, Counted, Ads!RequestClaims
      <4>2. QED
        BY <3>1, <4>1
    <3>3. QED
      BY <1>2, <2>1, <2>3, <3>2
  <2>4. QED
    BY <1>3, <2>2, <2>3
<1>5. Counted'
  BY <1>1, <1>2, <1>3 DEF Ads!Idle
<1>6. Capped'
  <2>1. CASE offer' = offer
    <3>1. \A t \in 1..MaxClock : Seen(t)' = Seen(t)
      BY <2>1 DEF Seen
    <3>2. QED
      BY <3>1 DEF Capped
  <2>2. CASE offer' # offer
    <3> SUFFICES ASSUME NEW t \in 1..MaxClock PROVE Cardinality(Seen(t)') <= Cap
      BY DEF Capped, Seen
    <3>1. /\ Cardinality(Recent) < Cap
          /\ \A q \in Opportunities \ {o} : offer'[q] = offer[q]
          /\ offer'[o].claimed = clock
      BY <1>3, <2>2
    <3>2. CASE clock \in t..(t + Hour)
      <4>1. Seen(t)' \subseteq Recent \cup {o}
        <5>1. SUFFICES ASSUME NEW q \in Opportunities, q # o, offer[q].state = "claimed",
                              offer[q].claimed \in t..(t + Hour)
                       PROVE  offer[q].claimed >= request[r].since
          BY <3>1 DEF Seen
        <5>2. request[r].since = 0 \/ request[r].since + Hour <= clock
          BY <1>2
        <5>3. clock <= t + Hour /\ t <= offer[q].claimed /\ offer[q].claimed \in Nat
          BY <3>2, <5>1
        <5>4. request[r].since \in Nat /\ clock \in Nat
          OBVIOUS
        <5>5. QED
          BY <5>2, <5>3, <5>4
      <4>2. IsFiniteSet(Recent)
        BY FS_Subset
      <4> HIDE DEF Recent
      <4>3. IsFiniteSet(Recent \cup {o}) /\ Cardinality(Recent \cup {o}) <= Cap
        <5>1. Cardinality(Recent) \in Nat
          BY <4>2, FS_CardinalityType
        <5>2. /\ IsFiniteSet(Recent \cup {o})
              /\ \/ Cardinality(Recent \cup {o}) = Cardinality(Recent)
                 \/ Cardinality(Recent \cup {o}) = Cardinality(Recent) + 1
          BY <4>2, FS_AddElement
        <5>3. QED
          BY <3>1, <5>1, <5>2
      <4>4. Cardinality(Seen(t)') <= Cardinality(Recent \cup {o})
        BY <4>1, <4>3, FS_Subset
      <4>5. IsFiniteSet(Seen(t)')
        BY <4>1, <4>3, FS_Subset
      <4>6. QED
        BY <4>3, <4>4, <4>5, FS_CardinalityType
    <3>3. CASE clock \notin t..(t + Hour)
      <4>1. Seen(t)' \subseteq Seen(t)
        BY <3>1, <3>3 DEF Seen
      <4>2. IsFiniteSet(Seen(t))
        BY FS_Subset DEF Seen
      <4>3. Cardinality(Seen(t)') <= Cardinality(Seen(t)) /\ IsFiniteSet(Seen(t)')
        BY <4>1, <4>2, FS_Subset
      <4>4. Cardinality(Seen(t)') \in Nat /\ Cardinality(Seen(t)) \in Nat
        BY <4>2, <4>3, FS_CardinalityType
      <4>5. Cardinality(Seen(t)) <= Cap
        BY DEF Capped
      <4>6. QED
        BY <4>3, <4>4, <4>5
    <3>4. QED
      BY <3>2, <3>3
  <2>3. QED
    BY <2>1, <2>2
<1>7. QED
  BY <1>4, <1>5, <1>6

LEMMA AdStep == ASSUME AdBounds, AdInductive, [Ads!Next]_(Ads!vars) PROVE AdInductive'
<1> USE DEF AdBounds, AdInductive, Ads!TypeOK, Counted
<1>1. ASSUME \A o \in Opportunities : /\ offer[o].state = "claimed" => offer'[o] = offer[o]
                                      /\ offer'[o].state = "claimed" => offer[o].state = "claimed"
      PROVE  Capped'
  <2>1. \A t \in 1..MaxClock : Seen(t)' = Seen(t)
    BY <1>1 DEF Seen
  <2>2. QED
    BY <2>1 DEF Capped
<1>2. ASSUME NEW o \in Opportunities, Ads!Minted(o) \/ Ads!Expired(o) PROVE AdInductive'
  BY <1>1, <1>2 DEF Ads!Minted, Ads!Expired
<1>3. ASSUME NEW r \in Asks, NEW k \in Keys, NEW o \in Opportunities, Ads!RequestReads(r, k, o)
      PROVE  AdInductive'
  BY <1>1, <1>3 DEF Ads!RequestReads
<1>4. CASE Ads!Tick
  BY <1>1, <1>4 DEF Ads!Tick
<1>5. CASE UNCHANGED Ads!vars
  BY <1>1, <1>5 DEF Ads!vars
<1> HIDE DEF AdInductive
<1>6. QED
  BY <1>2, <1>3, <1>4, <1>5, ClaimStep DEF Ads!Next

\* In no hour does an account see more ads than its cap, however many devices
\* ask at once, whatever the cap and the length of the hour (claimSandboxOpportunity).
THEOREM CapHolds == Ads!Spec => []WithinCap
<1> AdBounds
  BY ClientsAssumption
<1>1. Ads!Init => AdInductive
  BY AdInit
<1>2. AdInductive /\ [Ads!Next]_(Ads!vars) => AdInductive'
  BY AdStep
<1>3. AdInductive => WithinCap
  BY SameCount DEF AdInductive, Capped, Seen, Ads!WithinCap, WithinCap
<1>4. QED
  BY <1>1, <1>2, <1>3, PTL DEF Ads!Spec
-------------------------------------------------------------------------------
\* ---- the session of a coding agent ----

\* No event whose age can still pass is from before the end of f, and f knows of all that
\* are: it has them, or they were on their way when it was read.
Complete(f) ==
  f # Agent!NoFact =>
    /\ session.status # "none"
    /\ f.ended \in Nat /\ f.ended + MaxAge <= now
    /\ \A e \in stored \cup taken : e.at < f.ended => e \in f.events \cup f.inflight

\* What a fact says of the policy stays true.
Frozen == fact # Agent!NoFact => policy.bound = fact.policy

\* The policy is the one in force at some event of the session ...
BoundByEvent ==
  /\ stored \subseteq Events
  /\ session.status = "none" => stored = {}
  /\ session.status # "none" => \E d \in stored : policy = Agent!Bind(d.at)

SessionRow == [status : {"none", "active", "paused", "ended", "abandoned"},
               started : Nat, ended : Nat, updated : Nat]

AgentTyped == now \in Nat /\ session \in SessionRow

AgentInductive ==
  /\ AgentTyped /\ Complete(build) /\ Complete(fact) /\ Frozen
  /\ BoundByEvent /\ Agent!PolicyOfStart

LEMMA LeastNatural ==
  ASSUME NEW S \in SUBSET Nat, S # {}
  PROVE  \E x \in S : \A y \in S : x <= y
<1>1. PICK x \in S : \A y \in S : <<y, x>> \notin OpToRel(<, Nat)
  BY NatLessThanWellFounded, WFMin
<1>2. \A y \in S : ~(y < x)
  BY <1>1 DEF OpToRel
<1>3. QED
  BY <1>2

LEMMA GreatestNatural ==
  ASSUME NEW S \in SUBSET Nat, S # {}, NEW n \in Nat, \A x \in S : x <= n
  PROVE  \E x \in S : \A y \in S : y <= x
<1> DEFINE T == {m \in 0..n : n - m \in S}
<1>1. T \subseteq Nat /\ T # {}
  <2>1. PICK x \in S : TRUE
    OBVIOUS
  <2>2. n - x \in T
    BY <2>1
  <2>3. QED
    BY <2>2
<1>2. PICK m \in T : \A k \in T : m <= k
  <2> HIDE DEF T
  <2>1. QED
    BY <1>1, LeastNatural
<1>3. n - m \in S /\ \A y \in S : n - y \in T
  OBVIOUS
<1>4. \A y \in S : y <= n - m
  BY <1>2, <1>3
<1>5. QED
  BY <1>3, <1>4

\* The policy in force at t is the latest that took force by t, 0 if none did.
LEMMA PolicyInForce ==
  ASSUME AgentEvents, NEW t \in Nat
  PROVE  /\ Agent!PolicyAt(t) \in Nat /\ Agent!PolicyAt(t) <= t
         /\ Agent!PolicyAt(t) \in {0} \cup Policies
         /\ \A p \in Policies : p <= t => p <= Agent!PolicyAt(t)
<1> DEFINE S == {0} \cup {p \in Policies : p <= t}
<1>1. S \in SUBSET Nat /\ S # {} /\ \A x \in S : x <= t
  <2>1. Policies \subseteq Nat
    BY DEF AgentEvents
  <2>2. ASSUME NEW x \in S PROVE x \in Nat
    <3>1. x = 0 \/ x \in Policies
      OBVIOUS
    <3>2. QED
      BY <2>1, <3>1
  <2>3. ASSUME NEW x \in S PROVE x <= t
    BY <2>2
  <2>4. 0 \in S
    OBVIOUS
  <2>5. QED
    BY <2>2, <2>3, <2>4
<1>2. \E x \in S : \A y \in S : y <= x
  <2> HIDE DEF S
  <2>1. QED
    BY <1>1, GreatestNatural
<1>3. \E x \in S : \A y \in S : x >= y
  BY <1>1, <1>2
<1>4. Agent!PolicyAt(t) = CHOOSE x \in S : \A y \in S : x >= y
  BY DEF Agent!PolicyAt, Agent!Max
<1>5. Agent!PolicyAt(t) \in S /\ \A y \in S : Agent!PolicyAt(t) >= y
  <2> HIDE DEF S
  <2>1. QED
    BY <1>3, <1>4
<1>6. QED
  BY <1>1, <1>5

\* A policy in force at some time was in force ever since it took force.
LEMMA PolicyMonotone ==
  ASSUME AgentEvents, NEW s \in Nat, NEW t \in Nat, s <= t, Agent!PolicyAt(t) <= s
  PROVE  Agent!PolicyAt(s) = Agent!PolicyAt(t)
<1>1. /\ Agent!PolicyAt(s) \in Nat /\ Agent!PolicyAt(t) \in Nat /\ Agent!PolicyAt(s) <= s
      /\ Agent!PolicyAt(s) \in {0} \cup Policies /\ Agent!PolicyAt(t) \in {0} \cup Policies
      /\ \A p \in Policies : p <= s => p <= Agent!PolicyAt(s)
      /\ \A p \in Policies : p <= t => p <= Agent!PolicyAt(t)
  BY PolicyInForce
<1>2. Agent!PolicyAt(s) <= Agent!PolicyAt(t) /\ Agent!PolicyAt(t) <= Agent!PolicyAt(s)
  BY <1>1
<1>3. QED
  BY <1>1, <1>2

LEMMA BindIs ==
  ASSUME AgentEvents, NEW t \in Nat
  PROVE  /\ Agent!Bind(t).bound = Agent!PolicyAt(t)
         /\ Agent!Bind(t) # Agent!Unbound => Agent!Bind(t).at = t
  BY DEF Agent!Bind, Agent!Unbound

LEMMA AgentInit == ASSUME AgentEvents, Agent!Init PROVE AgentInductive
<1>1. AgentTyped
  BY DEF Agent!Init, Agent!NoSession, AgentTyped, SessionRow
<1>2. Complete(build) /\ Complete(fact) /\ Frozen
  BY DEF Agent!Init, Complete, Frozen
<1>3. BoundByEvent /\ Agent!PolicyOfStart
  BY DEF Agent!Init, Agent!NoSession, BoundByEvent, Agent!PolicyOfStart
<1>4. QED
  BY <1>1, <1>2, <1>3 DEF AgentInductive

\* What an event makes of the session.
LEMMA SessionMoves ==
  ASSUME AgentTyped, NEW e \in Events, Agent!Ingest(e), e.at \in Nat
  PROVE  /\ session'.status # "none"
         /\ session' \in SessionRow
<1> USE DEF SessionRow
<1>1. Agent!Opened(e).status # "none" /\ Agent!Opened(e) \in SessionRow
  <2>1. CASE session.status = "none"
    <3>1. Agent!StatusFor(e) \in {"ended", "paused", "active"}
      BY DEF Agent!StatusFor
    <3>2. Agent!Opened(e) = [status |-> Agent!StatusFor(e), started |-> e.at, ended |-> 0,
                             updated |-> now]
      BY <2>1 DEF Agent!Opened
    <3>3. QED
      BY <3>1, <3>2 DEF AgentTyped
  <2>2. CASE session.status # "none"
    BY <2>2 DEF AgentTyped, Agent!Opened
  <2>3. QED
    BY <2>1, <2>2
<1>2. ASSUME NEW s \in SessionRow, s.status # "none"
      PROVE  Agent!Moved(e, s).status # "none" /\ Agent!Moved(e, s) \in SessionRow
  <2>1. \/ Agent!Moved(e, s) = s
        \/ Agent!Moved(e, s) = [s EXCEPT !.status = "ended", !.ended = e.at, !.updated = now]
        \/ Agent!Moved(e, s) = [s EXCEPT !.status = "paused", !.updated = now]
        \/ Agent!Moved(e, s) = [s EXCEPT !.status = "active", !.updated = now]
    BY Zenon DEF Agent!Moved
  <2>2. QED
    BY <1>2, <2>1 DEF AgentTyped
<1>3. QED
  BY <1>1, <1>2 DEF Agent!Ingest

LEMMA IngestStep ==
  ASSUME AgentEvents, AgentInductive, NEW e \in Events, Agent!Ingest(e)
  PROVE  AgentInductive'
<1> USE DEF AgentInductive
<1>1. /\ e.at \in Nat /\ now' = now /\ now \in Nat /\ MaxAge \in Nat /\ e \in taken
      /\ stored' = stored \cup {e} /\ taken' = taken \ {e} /\ stored \subseteq Events
      /\ policy' = Agent!Bound(e) /\ build' = build /\ fact' = fact
  BY DEF AgentEvents, AgentTyped, BoundByEvent, Agent!Ingest
<1>2. /\ session'.status # "none"
      /\ session' \in SessionRow
  BY <1>1, SessionMoves
<1>3. AgentTyped'
  BY <1>1, <1>2 DEF AgentTyped
<1>4. ASSUME NEW f, Complete(f) PROVE f # Agent!NoFact =>
         /\ session'.status # "none" /\ f.ended \in Nat /\ f.ended + MaxAge <= now'
         /\ \A d \in stored' \cup taken' : d.at < f.ended => d \in f.events \cup f.inflight
  BY <1>1, <1>2, <1>4 DEF Complete
<1>5. Complete(build)' /\ Complete(fact)'
  BY <1>1, <1>4 DEF Complete
<1>6. Frozen'
  BY <1>1 DEF Frozen, Complete, Agent!Bound, Agent!Rebindable
<1>7. CASE session.status = "none"
  <2>1. stored = {}
    BY <1>7 DEF BoundByEvent
  <2>2. policy' = Agent!Bind(e.at)
    BY <1>1, <1>7 DEF Agent!Bound
  <2>3. BoundByEvent'
    BY <1>1, <1>2, <2>2 DEF BoundByEvent
  <2>4. Agent!PolicyOfStart'
    BY <1>1, <2>1, <2>2, BindIs DEF Agent!PolicyOfStart
  <2>5. QED
    BY <1>3, <1>5, <1>6, <2>3, <2>4
<1>8. CASE session.status # "none"
  <2>1. PICK d \in stored : policy = Agent!Bind(d.at)
    BY <1>8 DEF BoundByEvent
  <2>2. policy' = IF Agent!Rebindable(e, policy) THEN Agent!Bind(e.at) ELSE policy
    BY <1>1, <1>8 DEF Agent!Bound
  <2>3. BoundByEvent'
    BY <1>1, <1>2, <2>1, <2>2 DEF BoundByEvent
  <2>4. CASE e.type # "session.started"
    <3>1. policy' = policy
      BY <2>2, <2>4 DEF Agent!Rebindable
    <3>2. Agent!PolicyOfStart'
      BY <1>1, <2>4, <3>1 DEF Agent!PolicyOfStart
    <3>3. QED
      BY <1>3, <1>5, <1>6, <2>3, <3>2
  <2>5. CASE e.type = "session.started"
    <3>1. d.at \in Nat /\ e.at <= d.at /\ \A s \in stored' : s.type = "session.started" => s = e
      BY <1>1, <2>5 DEF AgentEvents
    <3>2. policy.bound = Agent!PolicyAt(d.at) /\ (policy # Agent!Unbound => policy.at = d.at)
      BY <2>1, <3>1, BindIs
    <3>3. fact = Agent!NoFact => policy'.bound = Agent!PolicyAt(e.at)
      <4>1. CASE Agent!Rebindable(e, policy)
        BY <1>1, <2>2, <4>1, BindIs
      <4>2. CASE policy = Agent!Unbound
        <5>1. Agent!PolicyAt(d.at) = 0 /\ policy' = policy
          BY <2>2, <3>2, <4>2 DEF Agent!Rebindable, Agent!Unbound
        <5>2. QED
          BY <1>1, <3>1, <3>2, <5>1, PolicyMonotone
      <4>3. CASE fact = Agent!NoFact /\ ~Agent!Rebindable(e, policy) /\ policy # Agent!Unbound
        <5>1. policy' = policy /\ policy.at = d.at /\ Agent!PolicyAt(d.at) \in Nat
          BY <2>2, <3>1, <3>2, <4>3, PolicyInForce
        <5>2. policy.bound <= e.at \/ d.at <= e.at
          BY <1>1, <2>5, <3>1, <3>2, <4>3, <5>1 DEF Agent!Rebindable
        <5>3. CASE d.at <= e.at
          <6>1. d.at = e.at
            BY <1>1, <3>1, <5>3
          <6>2. QED
            BY <3>2, <5>1, <6>1
        <5>4. CASE policy.bound <= e.at
          BY <1>1, <3>1, <3>2, <5>1, <5>4, PolicyMonotone
        <5>5. QED
          BY <5>2, <5>3, <5>4
      <4>4. QED
        BY <4>1, <4>2, <4>3
    <3>4. Agent!PolicyOfStart'
      BY <1>1, <3>1, <3>3 DEF Agent!PolicyOfStart
    <3>5. QED
      BY <1>3, <1>5, <1>6, <2>3, <3>4
  <2>6. QED
    BY <2>4, <2>5
<1>9. QED
  BY <1>7, <1>8

\* A fact is read once no event from before its end can pass the check of its age, and
\* stands once written.
LEMMA FactStep ==
  ASSUME AgentEvents, AgentInductive, Agent!FactReads \/ Agent!FactPersists
  PROVE  AgentInductive'
<1> USE DEF AgentInductive
<1>1. /\ UNCHANGED <<now, taken, stored, session, policy>>
      /\ fact # Agent!NoFact => fact' = fact
  BY DEF Agent!FactReads, Agent!FactPersists
<1>2. AgentTyped' /\ BoundByEvent' /\ Agent!PolicyOfStart'
  BY <1>1 DEF AgentTyped, BoundByEvent, Agent!PolicyOfStart
<1>3. CASE Agent!FactReads
  <2>1. Complete(build)'
    BY <1>1, <1>3 DEF Complete, AgentTyped, SessionRow, Agent!FactReads, Agent!Final
  <2>2. Complete(fact)' /\ Frozen'
    BY <1>1, <1>3 DEF Complete, Frozen, Agent!FactReads
  <2>3. QED
    BY <1>2, <2>1, <2>2
<1>4. CASE Agent!FactPersists
  <2>1. Complete(build)'
    BY <1>4 DEF Complete, Agent!FactPersists
  <2>2. Complete(fact)' /\ Frozen'
    BY <1>1, <1>4 DEF Complete, Frozen, Agent!FactPersists
  <2>3. QED
    BY <1>2, <2>1, <2>2
<1>5. QED
  BY <1>3, <1>4

LEMMA AgentStep == ASSUME AgentEvents, AgentInductive, [Agent!Next]_(Agent!vars) PROVE AgentInductive'
<1>1. CASE Agent!Tick \/ UNCHANGED Agent!vars \/ \E e \in Events : Agent!Refuse(e)
  <2>1. /\ UNCHANGED <<stored, session, policy, build, fact>> /\ taken' \subseteq taken
        /\ now \in Nat /\ now' \in Nat /\ now <= now' /\ MaxAge \in Nat
    BY <1>1 DEF AgentEvents, AgentInductive, AgentTyped, Agent!Tick, Agent!Refuse, Agent!vars
  <2>2. Complete(build)' /\ Complete(fact)'
    BY <2>1 DEF AgentInductive, Complete
  <2>3. QED
    BY <2>1, <2>2 DEF AgentInductive, AgentTyped, Frozen, BoundByEvent, Agent!PolicyOfStart
<1>2. CASE Agent!Abandon
  <2>1. /\ UNCHANGED <<now, taken, stored, policy, build, fact>>
        /\ session.status # "none" /\ AgentTyped
        /\ session' = [session EXCEPT !.status = "abandoned", !.ended = now, !.updated = now]
    BY <1>2 DEF AgentInductive, AgentTyped, Agent!Abandon, Agent!Orphaned
  <2>2. session'.status = "abandoned" /\ AgentTyped'
    BY <2>1 DEF AgentTyped, SessionRow
  <2>3. Complete(build)' /\ Complete(fact)'
    BY <2>1, <2>2 DEF AgentInductive, Complete
  <2>4. QED
    BY <2>1, <2>2, <2>3 DEF AgentInductive, Frozen, BoundByEvent, Agent!PolicyOfStart
<1>3. ASSUME NEW e \in Events, Agent!Validates(e) PROVE AgentInductive'
  <2>1. /\ UNCHANGED <<now, stored, session, policy, build, fact>> /\ taken' = taken \cup {e}
        /\ e.at \in Nat /\ now \in Nat /\ MaxAge \in Nat /\ e.at + MaxAge >= now
    BY <1>3 DEF AgentEvents, AgentInductive, AgentTyped, Agent!Validates, Agent!Deliverable
  <2>2. Complete(build)' /\ Complete(fact)'
    BY <2>1 DEF AgentInductive, Complete
  <2>3. QED
    BY <2>1, <2>2 DEF AgentInductive, AgentTyped, Frozen, BoundByEvent, Agent!PolicyOfStart
<1>4. QED
  BY <1>1, <1>2, <1>3, IngestStep, FactStep DEF Agent!Next

LEMMA AgentAlways == ASSUME AgentEvents PROVE Agent!Spec => []AgentInductive
<1>1. Agent!Init => AgentInductive
  BY AgentInit
<1>2. AgentInductive /\ [Agent!Next]_(Agent!vars) => AgentInductive'
  BY AgentStep
<1>3. QED
  BY <1>1, <1>2, PTL DEF Agent!Spec

\* The fact of a session misses no event from before its end but those that had
\* passed the check of their age and were not stored yet when the cron read it,
\* and its policy stays assigned, whatever the events, the order they come in and
\* the ages allowed (attention-shadow-fact.cron). Those may be missing.
THEOREM FactMissesOnlyInFlight == Agent!Spec => []FactIsFinal
<1> AgentEvents
  BY ClientsAssumption
<1>1. AgentInductive => FactIsFinal
  BY DEF AgentInductive, Complete, Frozen, Agent!FactIsFinal, Agent!Missing, FactIsFinal
<1>2. QED
  BY <1>1, AgentAlways, PTL

\* Whatever order the events of a session come in, it is bound to the policy in
\* force at its start once the start is known (rebindShadowPolicyToSessionStart).
THEOREM BoundToStart == Agent!Spec => []PolicyOfStart
<1> AgentEvents
  BY ClientsAssumption
<1>1. AgentInductive => PolicyOfStart
  BY DEF AgentInductive, PolicyOfStart
<1>2. QED
  BY <1>1, AgentAlways, PTL
-------------------------------------------------------------------------------
\* ---- the refresh token a client keeps ----

Calling == [at : Processes \cup {Nowhere}, token : Client!Token \cup {None},
            got : Client!Token \cup {None},
            step : {"idle", "asked", "granted", "half", "refused", "wiped"}]

\* The server has given t out.
Issued(t) == t \in Client!Token /\ chain[t.login] # Client!Unborn /\ t.turn <= chain[t.login]

\* Whatever token there is, the server has given out.
Known ==
  /\ token # None => Issued(token)
  /\ \A p \in Processes : memory[p] \notin {None, Nowhere} => Issued(memory[p])
  /\ \A p \in Processes : \A t \in sent[p] : Issued(t)
  /\ \A q \in Calls : call[q].at # Nowhere => Issued(call[q].token)

\* Of a process that runs there is one refresh at a time.
Flights ==
  /\ \A q \in Calls : call[q].at = Nowhere => call[q] = Client!Idle
  /\ \A q \in Calls : call[q].at # Nowhere => Client!Runs(call[q].at)
  /\ \A q, r \in Calls : call[q].at = call[r].at /\ call[q].at # Nowhere => q = r
  /\ \A p \in Processes : ~Client!Runs(p) => sent[p] = {} /\ user[p] = Client!Still

\* A token that was received, of a refresh or of a sign-in, has not been sent ...
Granted ==
  \A q \in Calls : call[q].step \in {"granted", "half"} =>
    Issued(call[q].got) /\ call[q].got.turn > 0 /\ call[q].got \notin sent[call[q].at]

SignedIn ==
  \A p \in Processes : user[p].step \in {"granted", "stored"} =>
    Issued(user[p].token) /\ user[p].token.turn = 0 /\ user[p].token \notin sent[p] \cup {memory[p]}

\* ... nor has the one in memory, once the refresh it was sent in is as good as over.
Over(q) == call[q].step = "wiped" \/ (call[q].step = "half" /\ ~StoreFirst)
Unsent  == \A p \in Processes : (\A q \in Calls : call[q].at = p => Over(q)) => memory[p] \notin sent[p]

ClientInductive ==
  Client!TypeOK /\ Known /\ Flights /\ Granted /\ SignedIn /\ Unsent /\ Client!TokenSentOnce

LEMMA IdleIs ==
  ASSUME ClientNames
  PROVE  /\ Client!Idle \in Calling /\ Client!Idle.at = Nowhere /\ Client!Idle.step = "idle"
         /\ Client!Still \in [step : {"none", "granted", "stored", "leaving", "left"},
                              token : Client!Token \cup {None}]
         /\ Client!Still.step = "none"
  BY DEF Client!Idle, Client!Still, Calling

\* A refresh that goes on keeps all but its step.
LEMMA StepTyped ==
  ASSUME call \in [Calls -> Calling], NEW q \in Calls,
         NEW step \in {"half", "refused", "wiped"}, call' = [call EXCEPT ![q].step = step]
  PROVE  /\ call' \in [Calls -> Calling] /\ \A r \in Calls \ {q} : call'[r] = call[r]
         /\ call'[q].step = step /\ call'[q].at = call[q].at
         /\ call'[q].token = call[q].token /\ call'[q].got = call[q].got
<1>1. [call[q] EXCEPT !.step = step] \in Calling
  BY DEF Calling
<1>2. call' = [call EXCEPT ![q] = [call[q] EXCEPT !.step = step]]
  OBVIOUS
<1>3. /\ [call[q] EXCEPT !.step = step].at = call[q].at
      /\ [call[q] EXCEPT !.step = step].token = call[q].token
      /\ [call[q] EXCEPT !.step = step].got = call[q].got
      /\ [call[q] EXCEPT !.step = step].step = step
  BY DEF Calling
<1>4. QED
  BY <1>1, <1>2, <1>3

LEMMA ClientInit == ASSUME ClientNames, Client!Init PROVE ClientInductive
<1>1. Client!TypeOK
  <2>1. chain \in [0..MaxLogins -> 0..Client!Unborn]
    BY DEF ClientNames, Client!Init, Client!Unborn
  <2>2. token \in Client!Token
    BY DEF ClientNames, Client!Init, Client!Token
  <2>3. QED
    BY <2>1, <2>2, IdleIs DEF Client!Init, Client!TypeOK, Calling
<1>2. Known
  BY IdleIs DEF ClientNames, Client!Init, Known, Issued, Client!Token, Client!Unborn
<1>3. Flights
  BY IdleIs DEF Client!Init, Flights, Client!Runs
<1>4. Granted /\ SignedIn
  BY IdleIs DEF Client!Init, Granted, SignedIn
<1>5. Unsent /\ Client!TokenSentOnce
  BY DEF Client!Init, Unsent, Client!TokenSentOnce
<1>6. QED
  BY <1>1, <1>2, <1>3, <1>4, <1>5 DEF ClientInductive

\* What the server has given out it has given out, whatever it does to one chain.
LEMMA IssuedStays ==
  ASSUME ClientNames, Client!TypeOK, NEW t, Issued(t), NEW n \in 0..MaxLogins,
         \/ chain' = chain
         \/ chain' = [chain EXCEPT ![n] = Client!Dead]
         \/ chain[n] = Client!Unborn /\ chain' = [chain EXCEPT ![n] = 0]
         \/ chain[n] < MaxTurns /\ chain' = [chain EXCEPT ![n] = @ + 1]
  PROVE  /\ chain' \in [0..MaxLogins -> 0..Client!Unborn]
         /\ chain'[t.login] # Client!Unborn /\ t.turn <= chain'[t.login]
<1>1. /\ t.login \in 0..MaxLogins /\ t.turn \in 0..MaxTurns /\ chain[t.login] \in Nat /\ chain[n] \in Nat
      /\ chain \in [0..MaxLogins -> 0..Client!Unborn] /\ MaxTurns \in Nat
  BY DEF ClientNames, Client!TypeOK, Issued, Client!Token, Client!Unborn
<1>2. chain[t.login] # MaxTurns + 2 /\ t.turn <= chain[t.login] /\ Client!Unborn = MaxTurns + 2
  BY DEF Issued, Client!Unborn
<1>3. CASE chain' = [chain EXCEPT ![n] = Client!Dead]
  BY <1>1, <1>2, <1>3 DEF Client!Dead
<1>4. CASE chain[n] = Client!Unborn /\ chain' = [chain EXCEPT ![n] = 0]
  BY <1>1, <1>2, <1>4
<1>5. CASE chain[n] < MaxTurns /\ chain' = [chain EXCEPT ![n] = @ + 1]
  BY <1>1, <1>2, <1>5
<1>6. QED
  BY <1>1, <1>2, <1>3, <1>4, <1>5

\* A step that goes on with refreshes or ends them, and stops no process.
LEMMA FlightsKept ==
  ASSUME ClientNames, Flights, UNCHANGED <<user, sent>>,
         \A r \in Calls : call[r].at \in Processes \cup {Nowhere},
         \A r \in Calls : (call'[r].at = call[r].at /\ call[r].at # Nowhere) \/ call'[r] = Client!Idle,
         \A p \in Processes : memory'[p] = Nowhere <=> memory[p] = Nowhere
  PROVE  Flights'
<1>1. \A r \in Calls : call'[r].at = Nowhere => call'[r] = Client!Idle
  OBVIOUS
<1>2. \A r \in Calls : call'[r].at # Nowhere =>
        call'[r].at = call[r].at /\ memory'[call[r].at] # Nowhere
  BY IdleIs DEF Flights, Client!Runs
<1>3. \A q, r \in Calls : call'[q].at = call'[r].at /\ call'[q].at # Nowhere => q = r
  BY <1>2 DEF Flights
<1>4. \A p \in Processes : memory'[p] = Nowhere => sent'[p] = {} /\ user'[p] = Client!Still
  BY DEF Flights, Client!Runs
<1>5. QED
  BY <1>1, <1>2, <1>3, <1>4 DEF Flights, Client!Runs

LEMMA StartsStep ==
  ASSUME ClientNames, ClientInductive, NEW p \in Processes, Client!Starts(p)
  PROVE  ClientInductive'
<1> USE IdleIs DEF ClientInductive, ClientNames, Client!TypeOK, Client!Runs
<1>1. /\ memory' = [memory EXCEPT ![p] = token] /\ UNCHANGED <<chain, token, call, user, sent, again>>
      /\ memory[p] = Nowhere /\ sent[p] = {} /\ user[p] = Client!Still /\ token # Nowhere
  BY DEF Client!Starts, Flights
<1>2. Client!TypeOK' /\ Client!TokenSentOnce'
  BY <1>1 DEF Client!TokenSentOnce
<1>3. Known' /\ Granted'
  BY <1>1 DEF Known, Granted, Issued
<1>4. Flights'
  BY <1>1 DEF Flights
<1>5. SignedIn'
  <2>1. SUFFICES ASSUME NEW r \in Processes, user[r].step \in {"granted", "stored"}
                 PROVE  memory'[r] = memory[r]
    BY <1>1 DEF SignedIn, Issued
  <2>2. QED
    BY <1>1, <2>1
<1>6. Unsent'
  <2>1. SUFFICES ASSUME NEW r \in Processes, \A q \in Calls : call[q].at = r => Over(q)
                 PROVE  memory'[r] \notin sent[r]
    BY <1>1 DEF Unsent, Over
  <2>2. QED
    BY <1>1, <2>1 DEF Unsent
<1>7. QED
  BY <1>2, <1>3, <1>4, <1>5, <1>6

LEMMA ExitsStep ==
  ASSUME ClientNames, ClientInductive, NEW p \in Processes, Client!Exits(p)
  PROVE  ClientInductive'
<1> USE IdleIs DEF ClientInductive, ClientNames, Client!TypeOK, Client!Runs
<1>1. /\ memory' = [memory EXCEPT ![p] = Nowhere] /\ user' = [user EXCEPT ![p] = Client!Still]
      /\ sent' = [sent EXCEPT ![p] = {}] /\ UNCHANGED <<chain, token, again>>
      /\ call' = [q \in Calls |-> IF call[q].at = p THEN Client!Idle ELSE call[q]]
  BY DEF Client!Exits
<1>2. call' \in [Calls -> Calling]
  <2>1. call \in [Calls -> Calling]
    BY DEF Calling
  <2>2. QED
    BY <1>1, <2>1
<1>3. Client!TypeOK' /\ Client!TokenSentOnce'
  BY <1>1, <1>2 DEF Client!TokenSentOnce, Calling
<1>4. Known' /\ Flights'
  BY <1>1 DEF Known, Issued, Flights
<1>5. Granted' /\ SignedIn'
  BY <1>1 DEF Granted, SignedIn, Issued
<1>6. Unsent'
  BY <1>1 DEF Unsent, Over
<1>7. QED
  BY <1>3, <1>4, <1>5, <1>6

LEMMA RefreshesStep ==
  ASSUME ClientNames, ClientInductive, NEW p \in Processes, NEW q \in Calls, Client!Refreshes(p, q)
  PROVE  ClientInductive'
<1> USE IdleIs DEF ClientInductive, ClientNames, Client!TypeOK, Client!Runs
<1> USE DEF Client!Refreshes, Client!Joins, Client!InFlight
<1>1. Client!TypeOK'
  OBVIOUS
<1>2. Known' /\ Flights'
  BY DEF Known, Issued, Flights
<1>3. Granted' /\ SignedIn'
  BY DEF Granted, SignedIn, Issued
<1>4. Unsent'
  BY DEF Unsent, Over
<1>5. Client!TokenSentOnce'
  BY DEF Client!TokenSentOnce, Unsent
<1>6. QED
  BY <1>1, <1>2, <1>3, <1>4, <1>5

LEMMA AnsweredStep ==
  ASSUME ClientNames, ClientInductive, NEW q \in Calls, Client!Answered(q)
  PROVE  ClientInductive'
<1> USE IdleIs DEF ClientInductive, ClientNames, Client!TypeOK, Client!Runs
<1> DEFINE t == call[q].token
<1>1. /\ UNCHANGED <<token, memory, user, sent, again>> /\ call[q].step = "asked" /\ call[q].at # Nowhere
      /\ Issued(t) /\ t \in Client!Token
  BY DEF Client!Answered, Flights, Known, Issued
<1>2. /\ t.login \in 0..MaxLogins /\ t.turn \in 0..MaxTurns /\ chain[t.login] \in Nat
      /\ Client!Good(t) => chain[t.login] = t.turn
  BY <1>1 DEF Client!Token, Client!Good, Client!Unborn
<1>3. \/ chain' = chain
      \/ Client!Good(t) /\ t.turn < MaxTurns /\ chain' = [chain EXCEPT ![t.login] = @ + 1]
      \/ ~Client!Good(t) /\ chain' = [chain EXCEPT ![t.login] = Client!Dead]
  BY <1>2 DEF Client!Answered, Client!Exchanged
<1>4. /\ chain' \in [0..MaxLogins -> 0..Client!Unborn]
      /\ \A u : Issued(u) => chain'[u.login] # Client!Unborn /\ u.turn <= chain'[u.login]
  BY <1>1, <1>2, <1>3, IssuedStays
<1>5. /\ call' \in [Calls -> Calling] /\ \A r \in Calls \ {q} : call'[r] = call[r]
      /\ call'[q].at = call[q].at /\ call'[q].token = t /\ call'[q].step \in {"granted", "refused"}
      /\ call'[q].step = "granted" => Client!Good(t) /\ call'[q].got = Client!Turned(t)
  <2>1. CASE Client!Good(t)
    <3>1. Client!Turned(t) = [login |-> t.login, turn |-> t.turn + 1]
      BY <1>1 DEF Client!Turned, Client!Token
    <3>2. Client!Turned(t) \in Client!Token
      BY <1>2, <2>1, <3>1 DEF Client!Answered, Client!Token
    <3>3. call' = [call EXCEPT ![q].step = "granted", ![q].got = Client!Turned(t)]
      BY <2>1, Zenon DEF Client!Answered
    <3>4. QED
      BY <1>1, <2>1, <3>2, <3>3 DEF Calling
  <2>2. CASE ~Client!Good(t)
    <3>1. call' = [call EXCEPT ![q].step = "refused", ![q].got = None]
      BY <2>2, Zenon DEF Client!Answered
    <3>2. QED
      BY <1>1, <3>1 DEF Calling
  <2>3. QED
    BY <2>1, <2>2
<1>6. Client!TypeOK' /\ Client!TokenSentOnce'
  BY <1>1, <1>4, <1>5 DEF Client!TokenSentOnce, Calling
<1>7. Known'
  <2>1. \A u : Issued(u) => Issued(u)'
    BY <1>4 DEF Issued
  <2>2. \A r \in Calls : call'[r].at = call[r].at /\ call'[r].token = call[r].token
    BY <1>5
  <2>3. QED
    BY <1>1, <2>1, <2>2 DEF Known
<1>8. Flights'
  <2>1. \A r \in Calls : /\ call'[r].at = call[r].at
                         /\ call[r].at = Nowhere => call'[r] = call[r]
    BY <1>1, <1>5
  <2>2. QED
    BY <1>1, <2>1 DEF Flights
<1>9. call'[q].step = "granted" => /\ call'[q].got.turn > 0 /\ call'[q].got \notin sent[call[q].at]
                                   /\ call'[q].got \in Client!Token
                                   /\ chain'[call'[q].got.login] = call'[q].got.turn
  <2>1. SUFFICES ASSUME call'[q].step = "granted"
                 PROVE  /\ Client!Turned(t).turn > 0 /\ Client!Turned(t) \notin sent[call[q].at]
                        /\ Client!Turned(t) \in Client!Token
                        /\ chain'[Client!Turned(t).login] = Client!Turned(t).turn
    BY <1>5
  <2>2. Client!Turned(t) = [login |-> t.login, turn |-> t.turn + 1] /\ Client!Good(t)
    BY <1>1, <1>5, <2>1 DEF Client!Turned, Client!Token
  <2>3. t.turn < MaxTurns /\ chain' = [chain EXCEPT ![t.login] = @ + 1]
    BY <2>2 DEF Client!Answered, Client!Exchanged
  <2>4. Client!Turned(t) \in Client!Token /\ chain'[t.login] = t.turn + 1
    BY <1>2, <2>2, <2>3 DEF Client!Token
  <2>5. ASSUME NEW u \in sent[call[q].at] PROVE u # Client!Turned(t)
    <3>1. u.turn <= chain[u.login]
      BY <1>1, <2>5 DEF Known, Issued
    <3>2. QED
      BY <1>2, <2>2, <3>1
  <2>6. QED
    BY <1>2, <2>2, <2>4, <2>5
<1>10. Granted'
  <2>1. SUFFICES ASSUME NEW r \in Calls, call'[r].step \in {"granted", "half"}
                 PROVE  Issued(call[r].got)' /\ call'[r].got.turn > 0 /\ call'[r].got \notin sent[call'[r].at]
    BY <1>1 DEF Granted
  <2>2. CASE r = q
    <3>1. call'[q].got.turn \in 0..MaxTurns /\ MaxTurns \in Nat
      BY <1>5, <1>9, <2>1, <2>2 DEF Client!Token
    <3>2. QED
      BY <1>5, <1>9, <2>1, <2>2, <3>1 DEF Issued, Client!Unborn
  <2>3. CASE r # q
    BY <1>4, <1>5, <2>1, <2>3 DEF Granted, Issued
  <2>4. QED
    BY <2>2, <2>3
<1>11. SignedIn'
  BY <1>1, <1>4 DEF SignedIn, Issued
<1>12. Unsent'
  BY <1>1, <1>5 DEF Unsent, Over
<1>13. QED
  BY <1>6, <1>7, <1>8, <1>10, <1>11, <1>12

LEMMA NotAnsweredStep ==
  ASSUME ClientNames, ClientInductive, NEW q \in Calls, Client!NotAnswered(q)
  PROVE  ClientInductive'
<1> USE IdleIs DEF ClientInductive, ClientNames, Client!TypeOK, Client!Runs
<1> DEFINE t == call[q].token
<1>1. /\ UNCHANGED <<token, memory, user, sent, again>> /\ call[q].step = "asked" /\ call[q].at # Nowhere
      /\ Issued(t) /\ t \in Client!Token
  BY DEF Client!NotAnswered, Flights, Known, Issued
<1>2. /\ t.login \in 0..MaxLogins /\ t.turn \in 0..MaxTurns /\ chain[t.login] \in Nat
      /\ Client!Good(t) => chain[t.login] = t.turn
  BY <1>1 DEF Client!Token, Client!Good, Client!Unborn
<1>3. \/ chain' = chain
      \/ Client!Good(t) /\ t.turn < MaxTurns /\ chain' = [chain EXCEPT ![t.login] = @ + 1]
      \/ ~Client!Good(t) /\ chain' = [chain EXCEPT ![t.login] = Client!Dead]
  BY <1>2 DEF Client!NotAnswered, Client!Exchanged
<1>4. /\ chain' \in [0..MaxLogins -> 0..Client!Unborn]
      /\ \A u : Issued(u) => chain'[u.login] # Client!Unborn /\ u.turn <= chain'[u.login]
  BY <1>1, <1>2, <1>3, IssuedStays
<1>5. call' = [call EXCEPT ![q].step = "refused"]
  BY DEF Client!NotAnswered, Client!Step
<1>5a. /\ call' \in [Calls -> Calling] /\ \A r \in Calls \ {q} : call'[r] = call[r]
       /\ \A r \in Calls : call'[r].at = call[r].at /\ call'[r].token = call[r].token
  BY <1>5, StepTyped DEF Calling
<1>6. Client!TypeOK' /\ Client!TokenSentOnce'
  BY <1>1, <1>4, <1>5a DEF Client!TokenSentOnce, Calling
<1>7. Known'
  <2>1. \A u : Issued(u) => Issued(u)'
    BY <1>4 DEF Issued
  <2>2. QED
    BY <1>1, <1>5a, <2>1 DEF Known
<1>8. Flights'
  BY <1>1, <1>5 DEF Flights
<1>9. Granted'
  BY <1>1, <1>4, <1>5 DEF Granted, Issued
<1>10. SignedIn'
  BY <1>1, <1>4 DEF SignedIn, Issued
<1>11. Unsent'
  BY <1>1, <1>5 DEF Unsent, Over
<1>12. QED
  BY <1>6, <1>7, <1>8, <1>9, <1>10, <1>11

LEMMA StoresPairStep ==
  ASSUME ClientNames, ClientInductive, NEW q \in Calls, Client!StoresPair(q)
  PROVE  ClientInductive'
<1> USE IdleIs DEF ClientInductive, ClientNames, Client!TypeOK, Client!Runs
<1>1. /\ call[q].step \in {"granted", "half"} /\ call[q].at # Nowhere /\ call[q].at \in Processes
      /\ Issued(call[q].got) /\ call[q].got.turn > 0 /\ call[q].got \notin sent[call[q].at]
  BY DEF Client!StoresPair, Client!First, Client!Second, Flights, Granted
<1>2. /\ call' \in [Calls -> Calling] /\ \A r \in Calls \ {q} : call'[r] = call[r]
      /\ \/ /\ call[q].step = "granted" /\ call'[q].step = "half" /\ call'[q].at = call[q].at
            /\ call'[q].token = call[q].token /\ call'[q].got = call[q].got
         \/ call[q].step = "half" /\ call'[q] = Client!Idle
  <2>1. call \in [Calls -> Calling]
    BY DEF Calling
  <2>2. CASE call[q].step = "granted"
    <3>1. call' = [call EXCEPT ![q].step = "half"]
      BY <2>2 DEF Client!StoresPair, Client!Onward, Client!First, Client!Step
    <3>2. QED
      BY <2>1, <2>2, <3>1 DEF Calling
  <2>3. CASE call[q].step = "half"
    <3>1. call' = [call EXCEPT ![q] = Client!Idle]
      BY <2>3 DEF Client!StoresPair, Client!Onward, Client!First, Client!End
    <3>2. QED
      BY <2>1, <2>3, <3>1
  <2>4. QED
    BY <1>1, <2>2, <2>3
<1>2a. \A r \in Calls : \/ call'[r].at = call[r].at /\ call'[r].token = call[r].token /\ call[r].at # Nowhere
                      \/ call'[r] = Client!Idle
  BY <1>1, <1>2 DEF Flights
<1>3. /\ token' = call[q].got /\ UNCHANGED <<chain, memory, user, sent, again>>
      /\ call[q].step = "half" => ~StoreFirst
      /\ call[q].step = "granted" => StoreFirst
  BY DEF Client!StoresPair, Client!First, Client!Second
<1>4. Client!TypeOK' /\ Client!TokenSentOnce' /\ SignedIn'
  BY <1>1, <1>2, <1>3 DEF Client!TokenSentOnce, Calling, SignedIn, Issued
<1>5. Known'
  BY <1>1, <1>2a, <1>3 DEF Known, Issued
<1>6. Flights'
  BY <1>2a, <1>3, FlightsKept
<1>7. Granted'
  <2>1. \A r \in Calls : call'[r].step \in {"granted", "half"} =>
          /\ call[r].step \in {"granted", "half"}
          /\ call'[r].got = call[r].got /\ call'[r].at = call[r].at
    BY <1>1, <1>2
  <2>2. QED
    BY <1>3, <2>1 DEF Granted, Issued
<1>8. Unsent'
  <2>1. SUFFICES ASSUME NEW r \in Processes, \A s \in Calls : call'[s].at = r => Over(s)'
                 PROVE  memory[r] \notin sent[r]
    BY <1>3 DEF Unsent
  <2>2. \A s \in Calls : call[s].at = r => Over(s)
    BY <1>1, <1>2, <1>3, <2>1 DEF Over
  <2>3. QED
    BY <2>2 DEF Unsent
<1>9. QED
  BY <1>4, <1>5, <1>6, <1>7, <1>8

LEMMA UsesPairStep ==
  ASSUME ClientNames, ClientInductive, NEW q \in Calls, Client!UsesPair(q)
  PROVE  ClientInductive'
<1> USE IdleIs DEF ClientInductive, ClientNames, Client!TypeOK, Client!Runs
<1> DEFINE p == call[q].at
<1>1. /\ call[q].step \in {"granted", "half"} /\ call[q].at # Nowhere /\ call[q].at \in Processes
      /\ Issued(call[q].got) /\ call[q].got.turn > 0 /\ call[q].got \notin sent[call[q].at]
  BY DEF Client!UsesPair, Client!First, Client!Second, Flights, Granted
<1>2. /\ call' \in [Calls -> Calling] /\ \A r \in Calls \ {q} : call'[r] = call[r]
      /\ \/ /\ call[q].step = "granted" /\ call'[q].step = "half" /\ call'[q].at = call[q].at
            /\ call'[q].token = call[q].token /\ call'[q].got = call[q].got
         \/ call[q].step = "half" /\ call'[q] = Client!Idle
  <2>1. call \in [Calls -> Calling]
    BY DEF Calling
  <2>2. CASE call[q].step = "granted"
    <3>1. call' = [call EXCEPT ![q].step = "half"]
      BY <2>2 DEF Client!UsesPair, Client!Onward, Client!First, Client!Step
    <3>2. QED
      BY <2>1, <2>2, <3>1 DEF Calling
  <2>3. CASE call[q].step = "half"
    <3>1. call' = [call EXCEPT ![q] = Client!Idle]
      BY <2>3 DEF Client!UsesPair, Client!Onward, Client!First, Client!End
    <3>2. QED
      BY <2>1, <2>3, <3>1
  <2>4. QED
    BY <1>1, <2>2, <2>3
<1>2a. \A r \in Calls : \/ call'[r].at = call[r].at /\ call'[r].token = call[r].token /\ call[r].at # Nowhere
                      \/ call'[r] = Client!Idle
  BY <1>1, <1>2 DEF Flights
<1>3. /\ memory' = [memory EXCEPT ![p] = call[q].got] /\ UNCHANGED <<chain, token, user, sent, again>>
      /\ p \in Processes /\ memory[p] # Nowhere /\ memory'[p] # Nowhere
      /\ memory'[p] = call[q].got /\ \A r \in Processes \ {p} : memory'[r] = memory[r]
  BY <1>1 DEF Client!UsesPair, Flights, Issued
<1>4. Client!TypeOK' /\ Client!TokenSentOnce'
  BY <1>1, <1>2, <1>3 DEF Client!TokenSentOnce, Calling, Issued
<1> HIDE DEF p
<1>5. Known'
  BY <1>1, <1>2, <1>3 DEF Known, Issued
<1>6. Flights'
  BY <1>2a, <1>3, FlightsKept
<1>7. Granted'
  BY <1>1, <1>2, <1>3 DEF Granted, Issued
<1>8. SignedIn'
  <2>1. SUFFICES ASSUME NEW r \in Processes, user[r].step \in {"granted", "stored"}
                 PROVE  memory'[r] # user[r].token
    BY <1>3 DEF SignedIn, Issued
  <2>2. user[r].token # memory[r] /\ user[r].token.turn = 0 /\ call[q].got.turn # 0
    BY <1>1, <2>1 DEF SignedIn
  <2>3. QED
    BY <1>3, <2>2
<1>9. Unsent'
  <2>1. SUFFICES ASSUME NEW r \in Processes, \A s \in Calls : call'[s].at = r => Over(s)'
                 PROVE  memory'[r] \notin sent[r]
    BY <1>3 DEF Unsent
  <2>2. CASE r = p
    BY <1>1, <1>3, <2>2 DEF p
  <2>3. CASE r # p
    <3>1. \A s \in Calls : call[s].at = r => Over(s)
      BY <1>2, <2>1, <2>3 DEF Over, p
    <3>2. QED
      BY <1>3, <2>3, <3>1 DEF Unsent
  <2>4. QED
    BY <2>2, <2>3
<1>10. QED
  BY <1>4, <1>5, <1>6, <1>7, <1>8, <1>9

LEMMA StoringFailsStep ==
  ASSUME ClientNames, ClientInductive, NEW q \in Calls, Client!StoringFails(q)
  PROVE  ClientInductive'
<1> USE IdleIs DEF ClientInductive, ClientNames, Client!TypeOK, Client!Runs
<1> USE DEF Client!StoringFails, Client!First, Client!Second, Client!Step
<1>1. Client!TypeOK' /\ Client!TokenSentOnce'
  <2>1. call' = [call EXCEPT ![q].step = "refused"] /\ UNCHANGED <<chain, token, memory, user, sent, again>>
    OBVIOUS
  <2>2. call' \in [Calls -> Calling]
    BY <2>1, StepTyped DEF Calling
  <2> HIDE DEF Client!StoringFails
  <2>3. QED
    BY <2>1, <2>2 DEF Client!TokenSentOnce, Calling
<1>2. Known' /\ Flights'
  BY DEF Known, Issued, Flights
<1>3. Granted' /\ SignedIn'
  BY DEF Granted, SignedIn, Issued
<1>4. Unsent'
  BY DEF Unsent, Over
<1>5. QED
  BY <1>1, <1>2, <1>3, <1>4

LEMMA ForgetsStep ==
  ASSUME ClientNames, ClientInductive, NEW q \in Calls, Client!Forgets(q)
  PROVE  ClientInductive'
<1> USE IdleIs DEF ClientInductive, ClientNames, Client!TypeOK, Client!Runs
<1> USE DEF Client!Forgets, Client!Forgotten, Client!Step
<1>1. Client!TypeOK' /\ Client!TokenSentOnce'
  <2>1. /\ call' = [call EXCEPT ![q].step = "wiped"] /\ UNCHANGED <<chain, token, user, sent, again>>
        /\ memory' = [memory EXCEPT ![call[q].at] = None]
    OBVIOUS
  <2>2. call' \in [Calls -> Calling]
    BY <2>1, StepTyped DEF Calling
  <2> HIDE DEF Client!Forgets
  <2>3. QED
    BY <2>1, <2>2 DEF Client!TokenSentOnce, Calling
<1>2. Known' /\ Flights'
  BY DEF Known, Issued, Flights
<1>3. Granted' /\ SignedIn'
  BY DEF Granted, SignedIn, Issued
<1>4. Unsent'
  BY DEF Unsent, Over
<1>5. QED
  BY <1>1, <1>2, <1>3, <1>4

LEMMA ClearsStep ==
  ASSUME ClientNames, ClientInductive, NEW q \in Calls, Client!Clears(q)
  PROVE  ClientInductive'
<1> USE IdleIs DEF ClientInductive, ClientNames, Client!TypeOK, Client!Runs
<1>1. /\ call' = [call EXCEPT ![q] = Client!Idle] /\ token' \in {None, token}
      /\ UNCHANGED <<chain, memory, user, sent, again>> /\ call[q].step = "wiped"
  BY DEF Client!Clears, Client!End
<1>2. Client!TypeOK' /\ Client!TokenSentOnce'
  <2>1. call \in [Calls -> Calling]
    BY DEF Calling
  <2>2. call' \in [Calls -> Calling]
    BY <1>1, <2>1
  <2>3. QED
    BY <1>1, <2>2 DEF Client!TokenSentOnce, Calling
<1>3. Known' /\ Flights'
  BY <1>1 DEF Known, Issued, Flights
<1>4. Granted' /\ SignedIn'
  BY <1>1 DEF Granted, SignedIn, Issued
<1>5. Unsent'
  BY <1>1 DEF Unsent, Over
<1>6. QED
  BY <1>2, <1>3, <1>4, <1>5

LEMMA SignsInStep ==
  ASSUME ClientNames, ClientInductive, NEW p \in Processes, Client!SignsIn(p)
  PROVE  ClientInductive'
<1> USE IdleIs DEF ClientInductive, ClientNames, Client!TypeOK, Client!Runs
<1>1. PICK n \in 1..MaxLogins :
        /\ chain[n] = Client!Unborn /\ chain' = [chain EXCEPT ![n] = 0]
        /\ user' = [user EXCEPT ![p] = [step |-> "granted", token |-> [login |-> n, turn |-> 0]]]
  BY DEF Client!SignsIn
<1>2. UNCHANGED <<token, memory, call, sent, again>> /\ memory[p] # Nowhere
  BY DEF Client!SignsIn
<1>3. /\ n \in 0..MaxLogins /\ chain' \in [0..MaxLogins -> 0..Client!Unborn]
      /\ [login |-> n, turn |-> 0] \in Client!Token
  BY <1>1 DEF Client!Token, Client!Unborn
<1>4. \A u : Issued(u) => /\ chain'[u.login] # Client!Unborn /\ u.turn <= chain'[u.login]
                          /\ u # [login |-> n, turn |-> 0]
  <2>1. SUFFICES ASSUME NEW u, Issued(u)
                 PROVE  /\ chain'[u.login] # Client!Unborn /\ u.turn <= chain'[u.login]
                        /\ u.login # n
    OBVIOUS
  <2>2. u.login # n
    BY <1>1, <2>1 DEF Issued
  <2>3. QED
    BY <1>1, <1>3, <2>1, <2>2, IssuedStays
<1>5. Client!TypeOK' /\ Client!TokenSentOnce'
  BY <1>1, <1>2, <1>3 DEF Client!TokenSentOnce
<1>6. Known'
  BY <1>2, <1>4 DEF Known, Issued
<1>7. Flights' /\ Unsent'
  BY <1>1, <1>2 DEF Flights, Unsent, Over
<1>8. Granted'
  BY <1>2, <1>4 DEF Granted, Issued
<1>9. SignedIn'
  <2>1. SUFFICES ASSUME NEW r \in Processes, user'[r].step \in {"granted", "stored"}
                 PROVE  /\ Issued(user[r].token)' /\ user'[r].token.turn = 0
                        /\ user'[r].token \notin sent[r] \cup {memory[r]}
    BY <1>2 DEF SignedIn
  <2>2. CASE r # p
    BY <1>1, <1>4, <2>1, <2>2 DEF SignedIn, Issued
  <2>3. CASE r = p
    <3>1. user'[p].token = [login |-> n, turn |-> 0] /\ chain'[n] = 0
      BY <1>1, <1>3
    <3>2. 0 # Client!Unborn
      BY DEF Client!Unborn
    <3>3. [login |-> n, turn |-> 0] \notin sent[p]
      BY <1>4 DEF Known
    <3>4. [login |-> n, turn |-> 0] # memory[p]
      BY <1>2, <1>3, <1>4 DEF Known
    <3>5. QED
      BY <1>3, <2>3, <3>1, <3>2, <3>3, <3>4 DEF Issued
  <2>4. QED
    BY <2>2, <2>3
<1>10. QED
  BY <1>5, <1>6, <1>7, <1>8, <1>9

LEMMA StoresLoginStep ==
  ASSUME ClientNames, ClientInductive, NEW p \in Processes, Client!StoresLogin(p)
  PROVE  ClientInductive'
<1> USE IdleIs DEF ClientInductive, ClientNames, Client!TypeOK, Client!Runs
<1> USE DEF Client!StoresLogin
<1>1. Issued(user[p].token) /\ user[p].token \in Client!Token
  BY DEF SignedIn, Issued
<1>2. Client!TypeOK' /\ Client!TokenSentOnce'
  BY DEF Client!TokenSentOnce
<1>3. Known'
  BY <1>1 DEF Known, Issued
<1>4. Flights'
  BY DEF Flights
<1>5. Granted' /\ SignedIn'
  BY DEF Granted, SignedIn, Issued
<1>6. Unsent'
  BY DEF Unsent, Over
<1>7. QED
  BY <1>2, <1>3, <1>4, <1>5, <1>6

LEMMA UsesLoginStep ==
  ASSUME ClientNames, ClientInductive, NEW p \in Processes, Client!UsesLogin(p)
  PROVE  ClientInductive'
<1> USE IdleIs DEF ClientInductive, ClientNames, Client!TypeOK, Client!Runs
<1> USE DEF Client!UsesLogin
<1>1. Issued(user[p].token) /\ user[p].token \in Client!Token /\ user[p].token \notin sent[p]
  BY DEF SignedIn, Issued
<1>2. Client!TypeOK' /\ Client!TokenSentOnce'
  BY DEF Client!TokenSentOnce
<1>3. Known'
  BY <1>1 DEF Known, Issued
<1>4. Flights'
  BY DEF Flights
<1>5. Granted' /\ SignedIn'
  BY DEF Granted, SignedIn, Issued
<1>6. Unsent'
  <2>1. SUFFICES ASSUME NEW r \in Processes, \A s \in Calls : call[s].at = r => Over(s)
                 PROVE  memory'[r] \notin sent[r]
    BY DEF Unsent, Over
  <2>2. memory' = [memory EXCEPT ![p] = user[p].token]
    OBVIOUS
  <2>3. QED
    BY <1>1, <2>1, <2>2 DEF Unsent
<1>7. QED
  BY <1>2, <1>3, <1>4, <1>5, <1>6

LEMMA SignsOutStep ==
  ASSUME ClientNames, ClientInductive, NEW p \in Processes, Client!SignsOut(p)
  PROVE  ClientInductive'
<1> USE IdleIs DEF ClientInductive, ClientNames, Client!TypeOK, Client!Runs
<1>1. /\ user[p] = Client!Still /\ memory[p] \notin {Nowhere, None}
      /\ UNCHANGED <<token, memory, call, sent, again>>
      /\ user' = [user EXCEPT ![p].step = IF StoreFirst THEN "leaving" ELSE "left"]
  BY DEF Client!SignsOut
<1>2. memory[p].login \in 0..MaxLogins
  BY <1>1 DEF Known, Issued, Client!Token
<1>3. chain' = chain \/ chain' = [chain EXCEPT ![memory[p].login] = Client!Dead]
  BY DEF Client!SignsOut
<1>4. /\ chain' \in [0..MaxLogins -> 0..Client!Unborn]
      /\ \A u : Issued(u) => chain'[u.login] # Client!Unborn /\ u.turn <= chain'[u.login]
  <2>1. chain \in [0..MaxLogins -> 0..Client!Unborn] /\ Client!Dead \in 0..Client!Unborn
    BY DEF Client!Dead, Client!Unborn
  <2>2. chain' \in [0..MaxLogins -> 0..Client!Unborn]
    BY <1>2, <1>3, <2>1
  <2>3. ASSUME NEW u, Issued(u) PROVE chain'[u.login] # Client!Unborn /\ u.turn <= chain'[u.login]
    BY <1>2, <1>3, <2>3, IssuedStays
  <2>4. QED
    BY <2>2, <2>3
<1>5. user'[p].step \in {"leaving", "left"} /\ \A r \in Processes \ {p} : user'[r] = user[r]
  BY <1>1
<1>6. Client!TypeOK' /\ Client!TokenSentOnce'
  BY <1>1, <1>4 DEF Client!TokenSentOnce
<1>7. Known'
  BY <1>1, <1>4 DEF Known, Issued
<1>8. Flights' /\ Unsent'
  BY <1>1, <1>5 DEF Flights, Unsent, Over
<1>9. Granted'
  BY <1>1, <1>4 DEF Granted, Issued
<1>10. SignedIn'
  BY <1>1, <1>4, <1>5 DEF SignedIn, Issued
<1>11. QED
  BY <1>6, <1>7, <1>8, <1>9, <1>10

LEMMA DropsStep ==
  ASSUME ClientNames, ClientInductive, NEW p \in Processes, Client!DropsLogin(p) \/ Client!ClearsLogin(p)
  PROVE  ClientInductive'
<1>0. UNCHANGED <<chain, call, sent, again>> /\ (token' = token \/ token' = None)
  BY DEF Client!DropsLogin, Client!ClearsLogin
<1> USE IdleIs DEF ClientInductive, ClientNames, Client!TypeOK, Client!Runs
<1> USE DEF Client!DropsLogin, Client!ClearsLogin
<1>1. Client!TypeOK' /\ Client!TokenSentOnce'
  <2>1. UNCHANGED <<chain, call, sent, again>> /\ token' \in Client!Token \cup {None}
    BY <1>0
  <2>2. memory' \in [Processes -> Client!Token \cup {None, Nowhere}]
    OBVIOUS
  <2>3. user' \in [Processes -> [step : {"none", "granted", "stored", "leaving", "left"},
                                 token : Client!Token \cup {None}]]
    <3>1. CASE Client!DropsLogin(p)
      BY <3>1
    <3>2. CASE Client!ClearsLogin(p)
      BY <3>2
    <3>3. QED
      BY <3>1, <3>2
  <2>4. QED
    BY <2>1, <2>2, <2>3 DEF Client!TokenSentOnce
<1>2. Known'
  BY DEF Known, Issued
<1>3. Flights'
  BY DEF Flights
<1>4. Granted'
  BY DEF Granted, Issued
<1>5. SignedIn'
  BY DEF SignedIn, Issued
<1>6. Unsent'
  <2>1. UNCHANGED <<call, sent>> /\ (memory' = memory \/ memory' = [memory EXCEPT ![p] = None])
    OBVIOUS
  <2>2. \A r \in Processes : memory'[r] = memory[r] \/ memory'[r] \notin sent[r]
    BY <2>1
  <2>3. QED
    BY <2>1, <2>2 DEF Unsent, Over
<1>7. QED
  BY <1>1, <1>2, <1>3, <1>4, <1>5, <1>6

\* A process of a client sends no refresh token twice, however many processes,
\* refreshes, sign-ins and rotations there are, whichever of storing and using
\* comes first (refreshTokens of both clients).
THEOREM SentOnce == Client!Spec => []TokenSentOnce
<1> ClientNames
  BY ClientsAssumption
<1>1. Client!Init => ClientInductive
  BY ClientInit
<1>2. ClientInductive /\ [Client!Next]_(Client!vars) => ClientInductive'
  <2>1. ASSUME ClientInductive, UNCHANGED Client!vars PROVE ClientInductive'
    BY <2>1 DEF ClientInductive, Client!vars, Client!TypeOK, Known, Issued, Flights, Client!Runs,
                Granted, SignedIn, Unsent, Over, Client!TokenSentOnce
  <2>2. QED
    BY <2>1, StartsStep, ExitsStep, RefreshesStep, AnsweredStep, NotAnsweredStep, StoresPairStep,
       UsesPairStep, StoringFailsStep, ForgetsStep, ClearsStep, SignsInStep, StoresLoginStep,
       UsesLoginStep, SignsOutStep, DropsStep
       DEF Client!Next
<1>3. ClientInductive => TokenSentOnce
  BY DEF ClientInductive, TokenSentOnce
<1>4. QED
  BY <1>1, <1>2, <1>3, PTL DEF Client!Spec
-------------------------------------------------------------------------------
\* ---- the spool of the command line ----

Locking == [by : Spoolers \cup {NoProcess}, signed : BOOLEAN]
Jobs == [op : {"none", "enqueue", "claim", "upload", "complete", "clear", "wipe", "enable"},
         at : {"idle", "wants", "unlinks", "signs", "in", "trims", "settles", "removes", "leaves", "sends"},
         of : SUBSET Records, done : SUBSET Records, bad : SUBSET Records, rest : SUBSET Records]

Inside(p) == job[p].at \in {"signs", "in", "trims", "settles", "removes", "leaves"}

\* Only a process that runs does anything, and what it was told is stored.
Honest ==
  /\ job \in [Spoolers -> Jobs] /\ lock \in Locking
  /\ queue \subseteq Records /\ inflight \subseteq Records
  /\ \A p \in Spoolers : job[p].at # "idle" => p \in alive
  /\ \A p \in Spoolers : job[p].op = "complete" => job[p].done \subseteq server

\* The lock excludes ...
Excluded == \A p \in Spoolers : Inside(p) => lock.by = p

\* ... so between its two writes a process finds the files as it read them.
Halfway ==
  /\ \A p \in Spoolers : job[p].at = "trims" => queue \subseteq job[p].rest \cup inflight \cup old
  /\ \A p \in Spoolers : job[p].at = "settles" =>
       inflight \subseteq job[p].rest \cup server \cup quarantine \cup old

SpoolInductive == Honest /\ Spool!EventKept /\ (raced \/ (Excluded /\ Halfway))

LEMMA RestIs ==
  /\ Spool!Rest \in Jobs /\ Spool!Rest.op = "none" /\ Spool!Rest.at = "idle" /\ Spool!Rest.done = {}
  /\ Spool!Free \in Locking /\ Spool!Free.by = NoProcess
  BY DEF Spool!Rest, Spool!Free, Jobs, Locking

LEMMA SpoolInit == ASSUME NoProcess \notin Spoolers, Spool!Init PROVE SpoolInductive
<1>1. lock \in Locking
  BY RestIs DEF Spool!Init, Locking
<1>2. Honest
  BY <1>1, RestIs DEF Spool!Init, Honest
<1>3. Excluded /\ Halfway /\ Spool!EventKept
  BY RestIs DEF Spool!Init, Excluded, Halfway, Inside, Spool!EventKept
<1>4. QED
  BY <1>2, <1>3 DEF SpoolInductive

\* A step that leaves the files alone: the lock must still exclude.
LEMMA OutsideKept ==
  ASSUME SpoolInductive, NEW p \in Spoolers,
         UNCHANGED <<queue, inflight, quarantine, enqueued, cleared>>,
         server \subseteq server', old \subseteq old', raced => raced', lock' \in Locking,
         alive \ {p} \subseteq alive', job'[p].at # "idle" => p \in alive',
         job' \in [Spoolers -> Jobs], \A r \in Spoolers \ {p} : job'[r] = job[r],
         job'[p].at \notin {"trims", "settles"},
         job'[p].op = "complete" => job'[p].done \subseteq server',
         raced' \/ Excluded'
  PROVE  SpoolInductive'
<1> USE DEF SpoolInductive
<1>1. Honest'
  BY DEF Honest
<1>2. Spool!EventKept'
  BY DEF Spool!EventKept
<1>3. ~raced => Halfway'
  BY DEF Halfway
<1>4. QED
  BY <1>1, <1>2, <1>3

\* A step under the lock: no other process is in the middle of anything.
LEMMA InsideKept ==
  ASSUME SpoolInductive, NEW p \in Spoolers, Inside(p),
         UNCHANGED <<lock, alive, old, server, raced>>,
         queue' \subseteq Records, inflight' \subseteq Records,
         job' \in [Spoolers -> Jobs], \A r \in Spoolers \ {p} : job'[r] = job[r],
         job'[p].op = job[p].op, job'[p].done = job[p].done, Inside(p)',
         job'[p].at = "trims" => queue' \subseteq job'[p].rest \cup inflight' \cup old,
         job'[p].at = "settles" => inflight' \subseteq job'[p].rest \cup server \cup quarantine' \cup old,
         raced \/ Spool!EventKept'
  PROVE  SpoolInductive'
<1> USE DEF SpoolInductive
<1>1. Honest'
  BY DEF Honest, Inside
<1>2. ASSUME ~raced PROVE Excluded' /\ Halfway'
  <2>1. lock.by = p /\ \A r \in Spoolers \ {p} : ~Inside(r)
    BY <1>2 DEF Excluded
  <2>2. \A r \in Spoolers \ {p} : job'[r].at \notin {"trims", "settles"} /\ ~Inside(r)'
    BY <2>1 DEF Inside
  <2>3. QED
    BY <2>1, <2>2 DEF Excluded, Halfway
<1>3. Spool!EventKept'
  BY DEF Spool!EventKept
<1>4. QED
  BY <1>1, <1>2, <1>3

LEMMA StartStep ==
  ASSUME SpoolInductive, NEW p \in Spoolers, Spool!Start(p)
  PROVE  SpoolInductive'
<1>1. PICK op \in {"enqueue", "claim", "clear", "wipe", "enable"}, S \in SUBSET Records :
        Spool!Starts(p, op, S)
  BY Zenon DEF Spool!Start
<1>2. /\ job' = [job EXCEPT ![p] = [Spool!Rest EXCEPT !.op = op, !.at = "wants", !.of = S]]
      /\ p \in alive
      /\ UNCHANGED <<queue, inflight, quarantine, disabled, lock, alive, old, server, enqueued, cleared, raced>>
  BY <1>1 DEF Spool!Start, Spool!Starts, Spool!files
<1>3. [Spool!Rest EXCEPT !.op = op, !.at = "wants", !.of = S] \in Jobs
  BY RestIs DEF Jobs
<1>4. /\ job' \in [Spoolers -> Jobs] /\ job'[p].at = "wants" /\ job'[p].op = op
      /\ \A r \in Spoolers \ {p} : job'[r] = job[r]
  BY <1>2, <1>3, RestIs DEF SpoolInductive, Honest, Jobs
<1>5. raced \/ Excluded'
  BY <1>2, <1>4 DEF SpoolInductive, Excluded, Inside
<1>6. QED
  BY <1>2, <1>4, <1>5, OutsideKept DEF SpoolInductive, Honest

\* The lock is taken when it is free, and left by the process that has it.
LEMMA LockStep ==
  ASSUME NoProcess \notin Spoolers, SpoolInductive, NEW p \in Spoolers,
         Spool!Locks(p) \/ Spool!Signs(p)
  PROVE  SpoolInductive'
<1> USE DEF SpoolInductive
<1>1. /\ UNCHANGED <<queue, inflight, quarantine, alive, old, server, enqueued, cleared, raced>>
      /\ \E at \in {"signs", "in"} : job' = [job EXCEPT ![p].at = at]
      /\ job[p].at \in {"wants", "signs"}
  BY DEF Spool!Locks, Spool!Signs, Spool!Goes, Spool!files
<1>2. /\ job' \in [Spoolers -> Jobs] /\ job'[p].at \in {"signs", "in"} /\ job'[p].op = job[p].op
      /\ job'[p].done = job[p].done /\ \A r \in Spoolers \ {p} : job'[r] = job[r]
  BY <1>1 DEF Honest, Jobs
<1>3. lock' \in Locking
  <2>1. CASE Spool!Locks(p)
    BY <2>1 DEF Locking, Spool!Locks
  <2>2. CASE Spool!Signs(p)
    <3>1. lock' = [lock EXCEPT !.signed = TRUE] \/ lock' = lock
      <4>1. CASE lock.by = p
        BY <2>2, <4>1, Zenon DEF Spool!Signs
      <4>2. CASE lock.by # p
        BY <2>2, <4>2 DEF Honest, Locking, Spool!Signs
      <4>3. QED
        BY <4>1, <4>2
    <3>2. QED
      BY <3>1 DEF Honest, Locking
  <2>3. QED
    BY <2>1, <2>2
<1>4. raced \/ Excluded'
  <2>1. CASE Spool!Locks(p)
    <3>1. ASSUME ~raced PROVE \A r \in Spoolers : ~Inside(r)
      BY <2>1, <3>1, RestIs DEF Excluded, Spool!Locks
    <3>2. QED
      BY <1>2, <2>1, <3>1 DEF Excluded, Inside, Spool!Locks
  <2>2. CASE Spool!Signs(p)
    <3>1. lock'.by = lock.by
      BY <2>2 DEF Honest, Locking, Spool!Signs
    <3>2. QED
      BY <1>2, <2>2, <3>1 DEF Excluded, Inside, Spool!Signs
  <2>3. QED
    BY <2>1, <2>2
<1>5. QED
  BY <1>1, <1>2, <1>3, <1>4, OutsideKept DEF Honest

\* A lock is removed by the process that has it or, once it has none that runs,
\* by one that found it stale.
LEMMA UnlockStep ==
  ASSUME NoProcess \notin Spoolers, SpoolInductive, NEW p \in Spoolers,
         Spool!TakesOver(p) \/ Spool!Leaves(p)
  PROVE  SpoolInductive'
<1> USE DEF SpoolInductive
<1>1. /\ UNCHANGED <<queue, inflight, quarantine, alive, old, server, enqueued, cleared>>
      /\ lock' = Spool!Free /\ raced' = (raced \/ lock.by \in alive \ {p})
      /\ job[p].at \in {"unlinks", "leaves"}
  BY DEF Spool!TakesOver, Spool!Leaves, Spool!Unlinked, Spool!files
<1>2. /\ job' \in [Spoolers -> Jobs] /\ job'[p].at \in {"wants", "idle", "sends"}
      /\ job'[p].op = "complete" => job'[p].op = job[p].op /\ job'[p].done = job[p].done
      /\ \A r \in Spoolers \ {p} : job'[r] = job[r]
  <2>1. CASE Spool!TakesOver(p)
    BY <2>1 DEF Honest, Jobs, Spool!TakesOver, Spool!Goes
  <2>2. CASE Spool!Leaves(p)
    <3>1. \/ job' = [job EXCEPT ![p] = [job[p] EXCEPT !.op = "upload", !.at = "sends"]]
          \/ job' = [job EXCEPT ![p] = Spool!Rest]
      BY <2>2 DEF Spool!Leaves
    <3>2. CASE job' = [job EXCEPT ![p] = [job[p] EXCEPT !.op = "upload", !.at = "sends"]]
      <4> DEFINE j == [job[p] EXCEPT !.op = "upload", !.at = "sends"]
      <4>1. j \in Jobs /\ j.at = "sends" /\ j.op = "upload" /\ job \in [Spoolers -> Jobs]
        BY DEF Honest, Jobs
      <4> HIDE DEF j, SpoolInductive
      <4>2. QED
        BY <3>2, <4>1 DEF j
    <3>3. CASE job' = [job EXCEPT ![p] = Spool!Rest]
      BY <3>3, RestIs DEF Honest
    <3>4. QED
      BY <3>1, <3>2, <3>3
  <2>3. QED
    BY <2>1, <2>2
<1>3. ASSUME ~raced' PROVE Excluded'
  <2>1. ~raced /\ (lock.by \notin alive \/ lock.by = p)
    BY <1>1, <1>3
  <2>2. \A r \in Spoolers \ {p} : ~Inside(r)
    BY <2>1 DEF Excluded, Inside, Honest
  <2>3. QED
    BY <1>2, <2>2 DEF Excluded, Inside
<1>4. QED
  BY <1>1, <1>2, <1>3, RestIs, OutsideKept DEF Honest

\* Nothing is decided by what a process finds or is answered, nor by its death.
LEMMA OutsideStep ==
  ASSUME SpoolInductive, NEW p \in Spoolers,
         \/ Spool!FindsStale(p) \/ Spool!GivesUp(p) \/ Spool!Dies(p)
         \/ Spool!Answered(p) \/ Spool!Unanswered(p)
  PROVE  SpoolInductive'
<1> USE DEF SpoolInductive
<1>1. /\ UNCHANGED <<queue, inflight, quarantine, lock, old, enqueued, cleared, raced>>
      /\ server \subseteq server' /\ alive \ {p} \subseteq alive'
  BY DEF Spool!FindsStale, Spool!GivesUp, Spool!Dies, Spool!Answered, Spool!Unanswered, Spool!files
<1>2. /\ job' \in [Spoolers -> Jobs] /\ job'[p].at \in {"unlinks", "idle", "wants"}
      /\ job'[p].at # "idle" => alive' = alive /\ job[p].at # "idle"
      /\ job'[p].op = "complete" => job'[p].done \subseteq server'
      /\ \A r \in Spoolers \ {p} : job'[r] = job[r]
  <2>1. CASE Spool!FindsStale(p)
    BY <2>1 DEF Honest, Jobs, Spool!FindsStale, Spool!Goes
  <2>2. CASE Spool!GivesUp(p) \/ Spool!Dies(p) \/ Spool!Unanswered(p)
    <3>1. job' = [job EXCEPT ![p] = Spool!Rest]
      BY <2>2 DEF Spool!GivesUp, Spool!Dies, Spool!Unanswered
    <3>2. QED
      BY <3>1, RestIs DEF Honest
  <2>3. CASE Spool!Answered(p)
    <3>1. PICK bad \in SUBSET (job[p].of \ server) :
            /\ server' = server \cup (job[p].of \ bad)
            /\ job' = [job EXCEPT ![p] = [Spool!Rest EXCEPT !.op = "complete", !.at = "wants",
                                            !.done = job[p].of \ bad, !.bad = bad]]
      BY <2>3 DEF Spool!Answered
    <3>2. job[p].of \in SUBSET Records
      BY DEF Honest, Jobs
    <3>3. [Spool!Rest EXCEPT !.op = "complete", !.at = "wants", !.done = job[p].of \ bad, !.bad = bad]
            \in Jobs
      BY <3>2, RestIs DEF Jobs
    <3>4. job'[p].at = "wants" /\ job'[p].op = "complete" /\ job'[p].done = job[p].of \ bad
      BY <3>1, RestIs DEF Honest, Jobs
    <3>5. QED
      BY <2>3, <3>1, <3>3, <3>4 DEF Honest, Spool!Answered, Spool!At
  <2>4. QED
    BY <2>1, <2>2, <2>3
<1>3. raced \/ Excluded'
  BY <1>1, <1>2 DEF Excluded, Inside
<1>4. QED
  BY <1>1, <1>2, <1>3, OutsideKept DEF Honest

\* ---- under the lock ----

LEMMA EnqueueStep ==
  ASSUME SpoolInductive, NEW p \in Spoolers, Spool!Enqueue(p)
  PROVE  SpoolInductive'
<1> DEFINE F == inflight \ old
<1>1. /\ job' = [job EXCEPT ![p].at = "leaves"] /\ job[p].at = "in" /\ job \in [Spoolers -> Jobs]
      /\ UNCHANGED <<lock, alive, old, server, quarantine, cleared, raced>>
  BY DEF SpoolInductive, Honest, Spool!Enqueue, Spool!Goes, Spool!At, Spool!files
<1>2. \/ UNCHANGED <<queue, inflight, enqueued>>
      \/ /\ inflight' = inflight \ old /\ queue \ old \subseteq queue'
         /\ \/ enqueued' = enqueued
            \/ /\ enqueued' = enqueued \cup job[p].of
               /\ \/ job[p].of \subseteq (queue \cup inflight) \ old
                  \/ job[p].of \ inflight \subseteq queue'
  BY DEF Spool!Enqueue, Spool!Fresh, Spool!files
<1>3. raced \/ Spool!EventKept'
  BY <1>1, <1>2 DEF SpoolInductive, Spool!EventKept
<1>3a. queue' \subseteq Records /\ inflight' \subseteq Records
  <2>1. queue \subseteq Records /\ inflight \subseteq Records /\ job[p].of \subseteq Records
    BY DEF SpoolInductive, Honest, Jobs
  <2>2. QED
    BY <2>1 DEF Spool!Enqueue, Spool!Fresh, Spool!files
<1>4. /\ job' \in [Spoolers -> Jobs] /\ job'[p].at = "leaves" /\ job'[p].op = job[p].op
      /\ job'[p].done = job[p].done /\ \A r \in Spoolers \ {p} : job'[r] = job[r]
  BY <1>1 DEF Jobs
<1>5. QED
  BY <1>1, <1>3a, <1>3, <1>4, InsideKept DEF Inside

\* The claim is written before the queue is.
LEMMA ClaimsStep ==
  ASSUME SpoolInductive, NEW p \in Spoolers, Spool!Claim(p)
  PROVE  SpoolInductive'
<1> USE DEF Spool!Fresh, Spool!Claimable, Spool!ClaimedFile
<1>1. /\ job[p].at = "in" /\ job \in [Spoolers -> Jobs]
      /\ queue \subseteq Records /\ inflight \subseteq Records
      /\ UNCHANGED <<lock, alive, old, server, quarantine, enqueued, cleared, raced>>
  BY DEF SpoolInductive, Honest, Spool!Claim, Spool!At
<1>2. CASE Spool!Claimable = {} /\ inflight' = {} /\ queue' = {} /\ Spool!Goes(p, "leaves")
  <2>1. queue \subseteq old /\ inflight \subseteq old
    BY <1>2
  <2>2. raced \/ Spool!EventKept'
    BY <1>1, <1>2, <2>1 DEF SpoolInductive, Spool!EventKept
  <2>3. /\ job' \in [Spoolers -> Jobs] /\ job'[p].at = "leaves" /\ job'[p].op = job[p].op
        /\ job'[p].done = job[p].done /\ \A r \in Spoolers \ {p} : job'[r] = job[r]
    BY <1>1, <1>2 DEF Jobs, Spool!Goes
  <2>4. QED
    BY <1>1, <1>2, <2>2, <2>3, InsideKept DEF Inside
<1>3. CASE \E batch \in SUBSET Spool!Claimable :
             /\ inflight' = Spool!ClaimedFile(batch) /\ queue' = queue
             /\ job' = [job EXCEPT ![p].at = "trims", ![p].of = batch,
                                   ![p].rest = Spool!Fresh(queue) \ Spool!ClaimedFile(batch)]
  <2>1. PICK batch \in SUBSET Spool!Claimable :
             /\ inflight' = Spool!ClaimedFile(batch) /\ queue' = queue
             /\ job' = [job EXCEPT ![p].at = "trims", ![p].of = batch,
                                   ![p].rest = (queue \ old) \ inflight']
    BY <1>3
  <2>2. batch \subseteq Records /\ inflight' \subseteq Records /\ inflight \subseteq inflight' \cup old
    BY <1>1, <2>1
  <2>3. raced \/ Spool!EventKept'
    BY <1>1, <2>1, <2>2 DEF SpoolInductive, Spool!EventKept
  <2>4. (queue \ old) \ inflight' \in SUBSET Records /\ batch \in SUBSET Records
    BY <1>1, <2>2
  <2>5. /\ job' \in [Spoolers -> Jobs] /\ job'[p].at = "trims" /\ job'[p].op = job[p].op
        /\ job'[p].done = job[p].done /\ job'[p].rest = (queue \ old) \ inflight'
        /\ \A r \in Spoolers \ {p} : job'[r] = job[r]
    <3>1. ASSUME NEW S \in SUBSET Records, NEW R \in SUBSET Records,
                 job' = [job EXCEPT ![p].at = "trims", ![p].of = S, ![p].rest = R]
          PROVE  /\ job' \in [Spoolers -> Jobs] /\ job'[p].at = "trims" /\ job'[p].op = job[p].op
                 /\ job'[p].done = job[p].done /\ job'[p].rest = R
                 /\ \A r \in Spoolers \ {p} : job'[r] = job[r]
      <4> DEFINE half == [job EXCEPT ![p].at = "trims", ![p].of = S]
      <4>1. /\ half \in [Spoolers -> Jobs] /\ half[p].at = "trims" /\ half[p].op = job[p].op
            /\ half[p].done = job[p].done /\ \A r \in Spoolers \ {p} : half[r] = job[r]
        <5> DEFINE j == [job[p] EXCEPT !.at = "trims", !.of = S]
        <5>1. j \in Jobs /\ j.at = "trims" /\ j.op = job[p].op /\ j.done = job[p].done
          BY <1>1 DEF Jobs
        <5>2. half = [job EXCEPT ![p] = j]
          OBVIOUS
        <5> HIDE DEF half, j
        <5>3. QED
          BY <1>1, <5>1, <5>2
      <4>2. job' = [half EXCEPT ![p].rest = R]
        BY <3>1
      <4> HIDE DEF half
      <4>3. QED
        BY <4>1, <4>2 DEF Jobs
    <3>2. QED
      BY <2>1, <2>4, <3>1
  <2>6. QED
    BY <1>1, <2>1, <2>2, <2>3, <2>5, InsideKept DEF Inside
<1>4. QED
  BY <1>2, <1>3 DEF Spool!Claim

LEMMA CompleteStep ==
  ASSUME SpoolInductive, NEW p \in Spoolers, Spool!Complete(p)
  PROVE  SpoolInductive'
<1> USE DEF Spool!Fresh
<1>1. /\ job[p].at = "in" /\ job \in [Spoolers -> Jobs] /\ job[p].done \subseteq server
      /\ queue \subseteq Records /\ inflight \subseteq Records
      /\ UNCHANGED <<queue, lock, alive, old, server, enqueued, cleared, raced>>
      /\ inflight' = inflight \ old
  BY DEF SpoolInductive, Honest, Spool!Complete, Spool!At
<1>2. \/ UNCHANGED quarantine /\ job' = [job EXCEPT ![p].at = "leaves"]
      \/ /\ quarantine' = quarantine \cup ((inflight \ old) \cap job[p].bad)
         /\ job' = [job EXCEPT ![p].at = "settles",
                               ![p].rest = (inflight \ old) \ (job[p].done \cup job[p].bad)]
  BY DEF Spool!Complete, Spool!Unresolved, Spool!Goes
<1>3. raced \/ Spool!EventKept'
  BY <1>1, <1>2 DEF SpoolInductive, Spool!EventKept
<1>4. (inflight \ old) \ (job[p].done \cup job[p].bad) \in SUBSET Records
  BY <1>1
<1>5. /\ job' \in [Spoolers -> Jobs] /\ job'[p].at \in {"leaves", "settles"} /\ job'[p].op = job[p].op
      /\ job'[p].done = job[p].done /\ \A r \in Spoolers \ {p} : job'[r] = job[r]
      /\ job'[p].at = "settles" =>
           /\ job'[p].rest = (inflight \ old) \ (job[p].done \cup job[p].bad)
           /\ quarantine' = quarantine \cup ((inflight \ old) \cap job[p].bad)
  BY <1>1, <1>2, <1>4 DEF Jobs
<1>6. job'[p].at = "settles" => inflight' \subseteq job'[p].rest \cup server \cup quarantine' \cup old
  BY <1>1, <1>5
<1>7. QED
  BY <1>1, <1>3, <1>5, <1>6, InsideKept DEF Inside

\* The second write of a claim, and of an answer.
LEMMA SecondWriteStep ==
  ASSUME SpoolInductive, NEW p \in Spoolers, Spool!Trims(p) \/ Spool!Settles(p)
  PROVE  SpoolInductive'
<1>1. /\ job[p].at \in {"trims", "settles"} /\ job \in [Spoolers -> Jobs]
      /\ queue \subseteq Records /\ inflight \subseteq Records /\ job[p].rest \subseteq Records
      /\ UNCHANGED <<quarantine, lock, alive, old, server, enqueued, cleared, raced>>
      /\ job' = [job EXCEPT ![p].at = "leaves"]
  BY DEF SpoolInductive, Honest, Jobs, Spool!Trims, Spool!Settles, Spool!At, Spool!Goes
<1>2. \/ job[p].at = "trims" /\ queue' = job[p].rest /\ inflight' = inflight
      \/ job[p].at = "settles" /\ inflight' = job[p].rest /\ queue' = queue
  BY DEF Spool!Trims, Spool!Settles, Spool!At
<1>3. raced \/ Spool!EventKept'
  BY <1>1, <1>2 DEF SpoolInductive, Halfway, Spool!EventKept
<1>4. /\ job' \in [Spoolers -> Jobs] /\ job'[p].at = "leaves" /\ job'[p].op = job[p].op
      /\ job'[p].done = job[p].done /\ \A r \in Spoolers \ {p} : job'[r] = job[r]
  BY <1>1 DEF Jobs
<1>5. QED
  BY <1>1, <1>2, <1>3, <1>4, InsideKept DEF Inside

LEMMA CommandStep ==
  ASSUME SpoolInductive, NEW p \in Spoolers, Spool!Marks(p) \/ Spool!Removes(p) \/ Spool!Enables(p)
  PROVE  SpoolInductive'
<1>1. /\ Inside(p) /\ job \in [Spoolers -> Jobs]
      /\ queue \subseteq Records /\ inflight \subseteq Records
      /\ UNCHANGED <<lock, alive, old, server, enqueued, raced>>
      /\ \E at \in {"removes", "leaves"} : job' = [job EXCEPT ![p].at = at]
  BY DEF SpoolInductive, Honest, Inside, Spool!Marks, Spool!Removes, Spool!Enables, Spool!At, Spool!Goes
<1>2. \/ UNCHANGED <<queue, inflight, quarantine, cleared>>
      \/ queue' = {} /\ inflight' = {} /\ cleared' = cleared \cup queue \cup inflight \cup quarantine
  BY DEF Spool!Marks, Spool!Removes, Spool!Enables
<1>3. raced \/ Spool!EventKept'
  BY <1>1, <1>2 DEF SpoolInductive, Spool!EventKept
<1>4. /\ job' \in [Spoolers -> Jobs] /\ job'[p].at \in {"removes", "leaves"} /\ job'[p].op = job[p].op
      /\ job'[p].done = job[p].done /\ \A r \in Spoolers \ {p} : job'[r] = job[r]
  BY <1>1 DEF Jobs
<1>5. QED
  BY <1>1, <1>2, <1>3, <1>4, InsideKept DEF Inside

\* What the spool has taken it keeps until the API has it, it expires or it is
\* cleared, however many processes share the files and wherever they die, as long
\* as no lock is taken from one that runs (agent-spool).
THEOREM TakenIsKept == Spool!Spec => []EventKept
<1> NoProcess \notin Spoolers
  BY ClientsAssumption
<1>1. Spool!Init => SpoolInductive
  BY SpoolInit
<1>2. SpoolInductive /\ [Spool!Next]_(Spool!vars) => SpoolInductive'
  <2>1. ASSUME SpoolInductive, UNCHANGED Spool!vars PROVE SpoolInductive'
    BY <2>1 DEF SpoolInductive, Spool!vars, Spool!files, Honest, Excluded, Halfway, Inside,
                Spool!EventKept
  <2>2. ASSUME SpoolInductive, Spool!Ages PROVE SpoolInductive'
    BY <2>2 DEF SpoolInductive, Spool!Ages, Spool!files, Honest, Excluded, Halfway, Inside,
                Spool!EventKept
  <2>3. QED
    BY <2>1, <2>2, StartStep, LockStep, UnlockStep, OutsideStep, EnqueueStep, ClaimsStep,
       CompleteStep, SecondWriteStep, CommandStep DEF Spool!Next
<1>3. SpoolInductive => EventKept
  BY DEF SpoolInductive, EventKept
<1>4. QED
  BY <1>1, <1>2, <1>3, PTL DEF Spool!Spec
================================================================================
