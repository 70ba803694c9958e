------------------------------ MODULE AuditOutbox ------------------------------
(* apps/api/src/audit: an entry whose write to AuditLog throws goes to the     *)
(* durable outbox, which a leased cron drains; a row out of retries is a dead  *)
(* letter, which an operator requeues or resolves. A lease that expires under  *)
(* a slow drain lets another replica drain the same rows, and a write or a     *)
(* transaction that commits may still throw, when its answer is lost.          *)
EXTENDS Naturals, FiniteSets

CONSTANTS Entries, Replicas, Operators,
          NoReplica,
          MaxRetries,   \* AuditOutbox.maxRetries
          MaxRequeues   \* bound on the dead letters requeued

VARIABLES written,      \* entries with an AuditLog row of their direct write
          replayed,     \* AuditLog rows of each entry that carry its sourceOutboxId
          row,          \* AuditOutbox: [in, retries, processed, failed, resolved]
          sink,         \* entries of which at best the emergency sink heard
          lease,        \* cron_leases: the owner of an unexpired lease
          drain,        \* a replica's drain: the rows it has yet to do, with the
                        \* retries it read and whether its transaction is committed
          op,           \* what an operator's request has read
          requeues

vars == <<written, replayed, row, sink, lease, drain, op, requeues>>

NoRow == [in |-> FALSE, retries |-> 0, processed |-> FALSE, failed |-> FALSE,
          resolved |-> FALSE]
NoOp  == [kind |-> "none"]

TypeOK ==
  /\ written \subseteq Entries /\ replayed \in [Entries -> Nat] /\ sink \subseteq Entries
  /\ row \in [Entries -> [in : BOOLEAN, retries : 0..MaxRetries, processed : BOOLEAN,
                          failed : BOOLEAN, resolved : BOOLEAN]]
  /\ lease \in Replicas \cup {NoReplica}
  /\ \A r \in Replicas : /\ DOMAIN drain[r] \subseteq Entries
                         /\ \A e \in DOMAIN drain[r] : drain[r][e].done \in BOOLEAN

Init ==
  /\ written = {} /\ replayed = [e \in Entries |-> 0]
  /\ row = [e \in Entries |-> NoRow] /\ sink = {}
  /\ lease = NoReplica /\ drain = [r \in Replicas |-> << >>]
  /\ op = [o \in Operators |-> NoOp] /\ requeues = 0

New(e) == e \notin written /\ ~row[e].in /\ e \notin sink
-------------------------------------------------------------------------------
\* ---- log ----

\* The write, then the outbox if the write throws, then Sentry if that throws
\* too. A write that throws may have committed and lost its answer: then both
\* tables hold the entry. Where neither does, at best Sentry heard of it.
Log(e) ==
  /\ New(e)
  /\ written' \in {written, written \cup {e}}
  /\ row' \in {row, [row EXCEPT ![e].in = TRUE]}
  /\ sink' = IF written' = written /\ row' = row THEN sink \cup {e} ELSE sink
  /\ UNCHANGED <<replayed, lease, drain, op, requeues>>
-------------------------------------------------------------------------------
\* ---- the drain ----

Due_Failed == {e \in Entries : row[e].in /\ ~row[e].processed}
Due == {e \in Entries : row[e].in /\ ~row[e].processed /\ ~row[e].failed}

\* acquireCronLease renews the owner's lease too: the running drain is shared
\* then. The rows are read with their retry counts.
StartsDrain(r) ==
  /\ lease \in {r, NoReplica} /\ drain[r] = << >> /\ Due # {}
  /\ lease' = r
  /\ drain' = [drain EXCEPT ![r] = [e \in Due |-> [retries |-> row[e].retries, done |-> FALSE]]]
  /\ UNCHANGED <<written, replayed, row, sink, op, requeues>>

LeaseExpires ==
  /\ lease # NoReplica /\ lease' = NoReplica
  /\ UNCHANGED <<written, replayed, row, sink, drain, op, requeues>>

Rest(r, e) == [drain EXCEPT ![r] = [f \in DOMAIN drain[r] \ {e} |-> drain[r][f]]]

\* The upsert is keyed by the outbox row, in one transaction with its mark: it
\* finds the row of a replay, and never that of the direct write, which has no
\* sourceOutboxId.
Upserted_Blindly(e) == [replayed EXCEPT ![e] = @ + 1]
Upserted(e) == IF replayed[e] > 0 THEN replayed ELSE [replayed EXCEPT ![e] = 1]

\* A transaction whose answer is lost leaves the row to be counted as failed.
DrainsRow(r, e) ==
  /\ e \in DOMAIN drain[r] /\ ~drain[r][e].done
  /\ replayed' = Upserted(e)
  /\ row' = [row EXCEPT ![e].processed = TRUE]
  /\ drain' \in {Rest(r, e), [drain EXCEPT ![r][e].done = TRUE]}
  /\ UNCHANGED <<written, sink, lease, op, requeues>>

\* A failed row counts a retry on from what was read; out of retries it becomes
\* a dead letter. The row is not looked at again.
DrainFails(r, e) ==
  /\ e \in DOMAIN drain[r]
  /\ LET n == drain[r][e].retries + 1 IN
       row' = [row EXCEPT ![e].retries = n, ![e].failed = @ \/ n >= MaxRetries]
  /\ drain' = Rest(r, e)
  /\ UNCHANGED <<written, replayed, sink, lease, op, requeues>>

ReplicaDies(r) ==
  /\ drain[r] # << >>
  /\ drain' = [drain EXCEPT ![r] = << >>]
  /\ UNCHANGED <<written, replayed, row, sink, lease, op, requeues>>
-------------------------------------------------------------------------------
\* ---- dead letters ----

\* retryDeadLetter reads that the row has failed, then resets it.
RetryReads(o, e) ==
  /\ op[o] = NoOp /\ row[e].failed /\ requeues < MaxRequeues
  /\ op' = [op EXCEPT ![o] = [kind |-> "retry", entry |-> e]]
  /\ UNCHANGED <<written, replayed, row, sink, lease, drain, requeues>>

RetryCommits(o) ==
  /\ op[o].kind = "retry" /\ requeues < MaxRequeues
  /\ row' = [row EXCEPT ![op[o].entry].retries = 0, ![op[o].entry].failed = FALSE]
  /\ op' = [op EXCEPT ![o] = NoOp] /\ requeues' = requeues + 1
  /\ UNCHANGED <<written, replayed, sink, lease, drain>>

\* resolveDeadLetter reads a failed, unresolved row, then marks it.
ResolveReads(o, e) ==
  /\ op[o] = NoOp /\ row[e].failed /\ ~row[e].resolved
  /\ op' = [op EXCEPT ![o] = [kind |-> "resolve", entry |-> e]]
  /\ UNCHANGED <<written, replayed, row, sink, lease, drain, requeues>>

ResolveCommits(o) ==
  /\ op[o].kind = "resolve"
  /\ row' = [row EXCEPT ![op[o].entry].resolved = TRUE]
  /\ op' = [op EXCEPT ![o] = NoOp]
  /\ UNCHANGED <<written, replayed, sink, lease, drain, requeues>>

Next ==
  \/ LeaseExpires
  \/ \E e \in Entries : Log(e)
  \/ \E r \in Replicas : \/ StartsDrain(r) \/ ReplicaDies(r)
                         \/ \E e \in Entries : DrainsRow(r, e) \/ DrainFails(r, e)
  \/ \E o \in Operators : \/ RetryCommits(o) \/ ResolveCommits(o)
                          \/ \E e \in Entries : RetryReads(o, e) \/ ResolveReads(o, e)
-------------------------------------------------------------------------------
\* However drains overlap, die, lose their answers and repeat and dead letters
\* are requeued, an outbox row is in AuditLog at most once, for "replay can never
\* create a duplicate audit record" (drainRow), and it is there if processed.
AuditedOnce ==
  \A e \in Entries : replayed[e] <= 1 /\ (row[e].in /\ row[e].processed => replayed[e] = 1)

\* An entry is in AuditLog at most once. It is not: a direct write that commits
\* and loses its answer is queued too (log).
OneRowPerEntry ==
  \A e \in Entries : ~(e \in written /\ replayed[e] > 0)

\* A dead letter never reached AuditLog (listDeadLetter). It may have.
DeadLetterIsUnlogged == \A e \in Entries : row[e].failed => replayed[e] = 0

\* A resolved row cannot be retried (resolveDeadLetter).
ResolvedIsTerminal == [][\A e \in Entries : row[e].failed /\ row[e].resolved => row'[e].failed]_vars
-------------------------------------------------------------------------------
Spec == Init /\ [][Next]_vars
===============================================================================
