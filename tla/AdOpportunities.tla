---------------------------- MODULE AdOpportunities ----------------------------
(* The sandbox inventory of one account: opportunities minted by agent         *)
(* telemetry, an expiry cron, and ad requests of several devices that claim    *)
(* one under the hourly attention cap of the account (extension-ad.trait).     *)
EXTENDS Naturals, FiniteSets, FiniteSetsExt

CONSTANTS Opportunities, Requests, Keys, NoKey, NoOpportunity,
          Cap,           \* UserSettings.maxAdsPerHour
          Ttl,           \* OPPORTUNITY_TTL_MS
          Hour,          \* the window of the cap
          MaxNow         \* bound on the clock

VARIABLES now,
          offer,         \* AdOpportunity row: [state, eligible, key, claimed]
          request        \* an ad request: [key, offer, since], since = oneHourAgo

vars == <<now, offer, request>>

Idle == [key |-> NoKey, offer |-> NoOpportunity, since |-> 0]

TypeOK ==
  /\ now \in 1..MaxNow
  /\ offer \in [Opportunities -> [state : {"none", "candidate", "claimed", "expired"},
                                  eligible : 0..MaxNow, key : Keys \cup {NoKey},
                                  claimed : 0..MaxNow]]
  /\ request \in [Requests -> [key : Keys \cup {NoKey}, since : 0..MaxNow,
                               offer : Opportunities \cup {NoOpportunity}]]

Init ==
  /\ now = 1
  /\ offer = [o \in Opportunities |->
                [state |-> "none", eligible |-> 0, key |-> NoKey, claimed |-> 0]]
  /\ request = [r \in Requests |-> Idle]
-------------------------------------------------------------------------------
Minted(o) ==
  /\ offer[o].state = "none"
  /\ offer' = [offer EXCEPT ![o].state = "candidate", ![o].eligible = now]
  /\ UNCHANGED <<now, request>>

\* The expiry cron closes what nobody claimed.
Expired(o) ==
  /\ offer[o].state = "candidate" /\ offer[o].eligible + Ttl <= now
  /\ offer' = [offer EXCEPT ![o].state = "expired"]
  /\ UNCHANGED <<now, request>>

\* serveSandboxOpportunity: a key that was served is answered from its row;
\* otherwise the newest live candidate is picked, outside any transaction.
Served(k)   == \E o \in Opportunities : offer[o].key = k
Live        == {o \in Opportunities : offer[o].state = "candidate" /\ offer[o].eligible + Ttl > now}
NewestLive  == {o \in Live : \A p \in Live : offer[p].eligible <= offer[o].eligible}

RequestReads(r, k, o) ==
  /\ request[r] = Idle /\ ~Served(k) /\ o \in NewestLive
  /\ request' = [request EXCEPT ![r] =
                   [key |-> k, offer |-> o, since |-> IF now > Hour THEN now - Hour ELSE 0]]
  /\ UNCHANGED <<now, offer>>

\* claimSandboxOpportunity: counted and claimed under the lock of the account.
Recent(since) == {o \in Opportunities : offer[o].state = "claimed" /\ offer[o].claimed >= since}
UnderCap_OneMore(r) == Cardinality(Recent(request[r].since)) <= Cap
UnderCap(r) == Cardinality(Recent(request[r].since)) < Cap
Claimable(o)  == offer[o].state = "candidate" /\ offer[o].key = NoKey

RequestClaims(r) ==
  /\ request[r] # Idle
  /\ LET o == request[r].offer IN
       offer' = IF UnderCap(r) /\ Claimable(o)
                THEN [offer EXCEPT ![o] = [@ EXCEPT !.state = "claimed", !.claimed = now,
                                                    !.key = request[r].key]]
                ELSE offer
  /\ request' = [request EXCEPT ![r] = Idle]
  /\ UNCHANGED now

Tick == now < MaxNow /\ now' = now + 1 /\ UNCHANGED <<offer, request>>

Next ==
  \/ \E o \in Opportunities : Minted(o) \/ Expired(o)
  \/ \E r \in Requests : RequestClaims(r) \/ \E k \in Keys, o \in Opportunities : RequestReads(r, k, o)
  \/ Tick
-------------------------------------------------------------------------------
\* "One shared attention inventory across all of its devices"
\* (claimSandboxOpportunity): in no window of an hour does the account see more
\* ads than its cap, however many devices ask at once.
WithinCap ==
  \A t \in 1..MaxNow :
    Cardinality({o \in Opportunities : offer[o].state = "claimed" /\ offer[o].claimed \in t..(t + Hour)})
      <= Cap

\* A claimed opportunity is final: it neither expires nor changes its request,
\* whatever request or cron had read it before.
ClaimIsFinal ==
  [][\A o \in Opportunities : offer[o].state = "claimed" => offer'[o] = offer[o]]_vars

\* "Returns the exact same placement instead of serving a second one"
\* (serveSandboxOpportunity): one key, one opportunity.
OnePerKey == \A o, p \in Opportunities : offer[o].key # NoKey /\ offer[o].key = offer[p].key => o = p
-------------------------------------------------------------------------------
Spec == Init /\ [][Next]_vars
===============================================================================
