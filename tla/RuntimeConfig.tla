----------------------------- MODULE RuntimeConfig -----------------------------
(* apps/api/src/runtime-config: one kill switch, its row in system_settings    *)
(* and the copy each API replica caches for a while. A change is announced to  *)
(* the replicas over Redis, which may be gone.                                 *)
EXTENDS Naturals, FiniteSets

CONSTANTS Replicas, Values,
          Default,      \* what a reader takes a missing row for
          Unset, MaxWrites

VARIABLES setting,      \* the row: a value, or Unset
          cache,        \* each replica's entry: a value, or Unset
          reading,      \* values a replica has read and not cached yet
          writing,      \* a replica's change: [step, value]
          connected,    \* replicas whose Redis clients are connected
          message,      \* replicas an invalidation is on its way to
          writes

vars == <<setting, cache, reading, writing, connected, message, writes>>

Quiet == [step |-> "none", value |-> Unset]

TypeOK ==
  /\ setting \in Values \cup {Unset} /\ cache \in [Replicas -> Values \cup {Unset}]
  /\ reading \in [Replicas -> SUBSET Values]
  /\ writing \in [Replicas -> [step : {"none", "caches", "publishes"}, value : Values \cup {Unset}]]
  /\ connected \subseteq Replicas /\ message \subseteq Replicas

Init ==
  /\ setting = Unset /\ cache = [r \in Replicas |-> Unset]
  /\ reading = [r \in Replicas |-> {}] /\ writing = [r \in Replicas |-> Quiet]
  /\ connected = Replicas /\ message = {} /\ writes = 0

Stored == IF setting = Unset THEN Default ELSE setting

\* A get that finds nothing cached reads the row and caches it afterwards, for
\* as long as if it had just been read.
Reads(r) ==
  /\ cache[r] = Unset
  /\ reading' = [reading EXCEPT ![r] = @ \cup {Stored}]
  /\ UNCHANGED <<setting, cache, writing, connected, message, writes>>

Caches(r, v) ==
  /\ v \in reading[r]
  /\ cache' = [cache EXCEPT ![r] = v]
  /\ reading' = [reading EXCEPT ![r] = @ \ {v}]
  /\ UNCHANGED <<setting, writing, connected, message, writes>>

\* getCached drops an entry past its TTL.
Expired_Never(r) == FALSE
Expired(r) == cache[r] # Unset

Expires(r) ==
  /\ Expired(r)
  /\ cache' = [cache EXCEPT ![r] = Unset]
  /\ UNCHANGED <<setting, reading, writing, connected, message, writes>>

\* A change writes the row, then caches its value (setRaw drops the entry
\* instead), then publishes.
Sets(r, v) ==
  /\ writing[r] = Quiet /\ writes < MaxWrites
  /\ setting' = v /\ writes' = writes + 1
  /\ writing' = [writing EXCEPT ![r] = [step |-> "caches", value |-> v]]
  /\ UNCHANGED <<cache, reading, connected, message>>

SetCaches(r) ==
  /\ writing[r].step = "caches"
  /\ \E raw \in BOOLEAN : cache' = [cache EXCEPT ![r] = IF raw THEN Unset ELSE writing[r].value]
  /\ writing' = [writing EXCEPT ![r].step = "publishes"]
  /\ UNCHANGED <<setting, reading, connected, message, writes>>

Publishes(r) ==
  /\ writing[r].step = "publishes"
  /\ message' = IF r \in connected THEN connected ELSE message
  /\ writing' = [writing EXCEPT ![r] = Quiet]
  /\ UNCHANGED <<setting, cache, reading, connected, writes>>

Invalidates(r) ==
  /\ r \in message
  /\ message' = message \ {r} /\ cache' = [cache EXCEPT ![r] = Unset]
  /\ UNCHANGED <<setting, reading, writing, connected, writes>>

\* A client that loses Redis does not reconnect.
Disconnects(r) ==
  /\ r \in connected
  /\ connected' = connected \ {r} /\ message' = message \ {r}
  /\ UNCHANGED <<setting, cache, reading, writing, writes>>

\* A replica that dies comes back with an empty cache.
Restarts(r) ==
  /\ writing[r] # Quiet
  /\ cache' = [cache EXCEPT ![r] = Unset] /\ reading' = [reading EXCEPT ![r] = {}]
  /\ writing' = [writing EXCEPT ![r] = Quiet]
  /\ connected' = connected \cup {r}
  /\ UNCHANGED <<setting, message, writes>>

Next ==
  \E r \in Replicas :
    \/ Reads(r) \/ Expires(r) \/ SetCaches(r) \/ Publishes(r) \/ Invalidates(r)
    \/ Disconnects(r) \/ Restarts(r)
    \/ \E v \in Values : Caches(r, v) \/ Sets(r, v)
-------------------------------------------------------------------------------
\* Whatever is read, announced or lost while a switch is changed, every replica
\* comes to go by the last value written to the row and no other (the TTL is the
\* fallback for Redis, onModuleInit).
SwitchReachesAll == <>[](\A r \in Replicas : cache[r] \in {Unset, Stored})
-------------------------------------------------------------------------------
Spec == Init /\ [][Next]_vars

\* Time passes, and a request that has begun goes on.
Fairness == \A r \in Replicas :
  /\ WF_vars(Expires(r)) /\ WF_vars(SetCaches(r)) /\ WF_vars(Publishes(r))
  /\ \A v \in Values : WF_vars(Caches(r, v))
FairSpec == Spec /\ Fairness
===============================================================================
