------------------------------ MODULE EmailQueue -------------------------------
(* apps/api/src/email: a message the provider does not take at once is kept in *)
(* email_queue, one row for one content, and retried by a cron whose runs      *)
(* claim rows by moving next_retry_at. Runs overlap, in one process and across *)
(* replicas, and may die.                                                      *)
EXTENDS Naturals, FiniteSets

CONSTANTS Messages,     \* contents, by which rows are unique
          Callers,      \* enqueueOrSend calls in flight
          Runs,         \* processQueue runs in flight
          MaxRetries,   \* MAX_RETRIES
          MaxEnqueues   \* bound on the calls for one content

VARIABLES row,          \* email_queue: [at, retries]; at is next_retry_at seen from
                        \* now: "due", "later", "claimed", "parked", or "gone"
          sent,         \* messages the provider has delivered
          accepted,     \* messages a caller was told are delivered or queued
          purged,       \* messages whose row expired
          calls,        \* how often each content was enqueued
          call,         \* what a caller does next and what it has read
          batch,        \* a run's rows with the retry counts it read
          result        \* the answer to the run's current send

vars == <<row, sent, accepted, purged, calls, call, batch, result>>

Gone   == [at |-> "gone", retries |-> 0]
NoCall == [step |-> "idle"]
None   == [of |-> "none"]

TypeOK ==
  /\ row \in [Messages -> [at : {"due", "later", "claimed", "parked", "gone"},
                           retries : Nat]]
  /\ sent \subseteq Messages /\ accepted \subseteq Messages /\ purged \subseteq Messages
  /\ \A r \in Runs : DOMAIN batch[r] \subseteq Messages

Init ==
  /\ row = [m \in Messages |-> Gone]
  /\ sent = {} /\ accepted = {} /\ purged = {} /\ calls = [m \in Messages |-> 0]
  /\ call = [c \in Callers |-> NoCall]
  /\ batch = [r \in Runs |-> << >>] /\ result = [r \in Runs |-> None]
-------------------------------------------------------------------------------
\* ---- enqueueOrSend ----

\* Delivered at once, refused for good, or to be kept.
EnqueueSends(c, m) ==
  /\ call[c] = NoCall /\ calls[m] < MaxEnqueues
  /\ calls' = [calls EXCEPT ![m] = @ + 1]
  /\ \/ sent' = sent \cup {m} /\ UNCHANGED call
     \/ UNCHANGED <<sent, call>>
     \/ call' = [call EXCEPT ![c] = [step |-> "creates", of |-> m]] /\ UNCHANGED sent
  /\ UNCHANGED <<row, accepted, purged, batch, result>>

Answers(c) == call' = [call EXCEPT ![c] = NoCall]

EnqueueCreates(c) ==
  /\ call[c].step = "creates"
  /\ LET m == call[c].of IN
       IF row[m] = Gone
       THEN /\ row' = [row EXCEPT ![m] = [at |-> "later", retries |-> 0]]
            /\ accepted' = accepted \cup {m} /\ purged' = purged \ {m}
            /\ Answers(c)
       ELSE call' = [call EXCEPT ![c].step = "finds"] /\ UNCHANGED <<row, accepted, purged>>
  /\ UNCHANGED <<sent, calls, batch, result>>

\* The row that holds the content, which may be gone by now.
EnqueueFinds(c) ==
  /\ call[c].step = "finds"
  /\ LET m == call[c].of IN
       IF row[m] = Gone THEN Answers(c)
       ELSE call' = [call EXCEPT ![c] = [step |-> "updates", of |-> m, at |-> row[m].at]]
  /\ UNCHANGED <<row, sent, accepted, purged, calls, batch, result>>

\* The earlier of the retry time it read and a backoff from now; the retry count
\* stays.
Sooner(at) == IF at = "due" THEN "due" ELSE "later"

EnqueueUpdates(c) ==
  /\ call[c].step = "updates"
  /\ LET m == call[c].of IN
       IF row[m] = Gone THEN UNCHANGED <<row, accepted>>
       ELSE row' = [row EXCEPT ![m].at = Sooner(call[c].at)] /\ accepted' = accepted \cup {m}
  /\ Answers(c)
  /\ UNCHANGED <<sent, purged, calls, batch, result>>
-------------------------------------------------------------------------------
\* ---- processQueue ----

Due == {m \in Messages : row[m].at = "due"}
Claimed_Nothing(S) == row
Claimed(S) == [m \in Messages |-> IF m \in S THEN [row[m] EXCEPT !.at = "claimed"] ELSE row[m]]

Claims(r) ==
  /\ batch[r] = << >> /\ Due # {}
  /\ batch' = [batch EXCEPT ![r] = [m \in Due |-> row[m].retries]]
  /\ row' = Claimed(Due)
  /\ UNCHANGED <<sent, accepted, purged, calls, call, result>>

Sends(r, m) ==
  /\ m \in DOMAIN batch[r] /\ result[r] = None
  /\ \E answer \in {"delivered", "failed", "permanent", "throws"} :
       /\ result' = [result EXCEPT ![r] = [of |-> m, answer |-> answer]]
       /\ sent' = IF answer = "delivered" THEN sent \cup {m} ELSE sent
  /\ UNCHANGED <<row, accepted, purged, calls, call, batch>>

\* Delivered rows are deleted; a refused row, one that threw and one out of
\* retries are parked, with the retry count the run had read.
Recorded_DropsRefused(r, m) ==
  LET n == batch[r][m] + 1 IN
  CASE result[r].answer \in {"delivered", "permanent"} -> Gone
    [] result[r].answer = "failed" /\ n <= MaxRetries -> [at |-> "later", retries |-> n]
    [] OTHER -> [at |-> "parked", retries |-> n]

Recorded(r, m) ==
  LET n == batch[r][m] + 1 IN
  CASE result[r].answer = "delivered" -> Gone
    [] result[r].answer = "failed" /\ n <= MaxRetries -> [at |-> "later", retries |-> n]
    [] OTHER -> [at |-> "parked", retries |-> n]

Records(r) ==
  /\ result[r] # None
  /\ LET m == result[r].of IN
       /\ row' = IF row[m] = Gone THEN row ELSE [row EXCEPT ![m] = Recorded(r, m)]
       /\ batch' = [batch EXCEPT ![r] = [k \in DOMAIN batch[r] \ {m} |-> batch[r][k]]]
  /\ result' = [result EXCEPT ![r] = None]
  /\ UNCHANGED <<sent, accepted, purged, calls, call>>

RunDies(r) ==
  /\ batch[r] # << >>
  /\ batch' = [batch EXCEPT ![r] = << >>] /\ result' = [result EXCEPT ![r] = None]
  /\ UNCHANGED <<row, sent, accepted, purged, calls, call>>

\* A claim outlasts every batch: it expires under a run that died only.
ClaimExpires(m) == row[m].at = "claimed" /\ \A r \in Runs : m \notin DOMAIN batch[r]

ComesDue(m) ==
  /\ row[m].at = "later" \/ ClaimExpires(m)
  /\ row' = [row EXCEPT ![m].at = "due"]
  /\ UNCHANGED <<sent, accepted, purged, calls, call, batch, result>>

\* The purge deletes a row past its TTL, claimed or not.
Purges(m) ==
  /\ row[m] # Gone /\ row' = [row EXCEPT ![m] = Gone] /\ purged' = purged \cup {m}
  /\ UNCHANGED <<sent, accepted, calls, call, batch, result>>

Next ==
  \/ \E c \in Callers : \/ EnqueueCreates(c) \/ EnqueueFinds(c) \/ EnqueueUpdates(c)
                        \/ \E m \in Messages : EnqueueSends(c, m)
  \/ \E r \in Runs : \/ Claims(r) \/ Records(r) \/ RunDies(r)
                     \/ \E m \in Messages : Sends(r, m)
  \/ \E m \in Messages : ComesDue(m) \/ Purges(m)
-------------------------------------------------------------------------------
\* A caller told that its message is on its way (enqueueOrSend) was told the
\* truth: it is delivered, or its row is there until it expires, whatever the
\* runs and the other callers for the same content do to that row.
AcceptedIsKept == \A m \in accepted \ (sent \cup purged) : row[m] # Gone

\* "The claim prevents duplicates" (processQueue): a content that was enqueued
\* once is in the batch of one run at most.
OneSender ==
  \A m \in Messages : calls[m] <= 1 => Cardinality({r \in Runs : m \in DOMAIN batch[r]}) <= 1

\* And so is one that was enqueued again.
OneSenderEver == \A m \in Messages : Cardinality({r \in Runs : m \in DOMAIN batch[r]}) <= 1
-------------------------------------------------------------------------------
Spec == Init /\ [][Next]_vars
===============================================================================
