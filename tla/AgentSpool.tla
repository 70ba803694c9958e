------------------------------- MODULE AgentSpool ------------------------------
(* The CLI's spool of agent events (agent-spool.ts, agent-bridge.ts): a queue, *)
(* a claim and a quarantine, three files that hooks, the bridge and the        *)
(* commands rewrite under a lock file, each of them a process that may die at  *)
(* any step.                                                                   *)
EXTENDS Naturals, FiniteSets

CONSTANTS Events,
          Processes,   \* processes, and uploads of one process that overlap
          Running,     \* those that have not died before
          NoProcess,
          MaxBatch,    \* events of an upload
          MaxQueue,    \* MAX_QUEUE_EVENTS
          MaxStored    \* MAX_TOTAL_STORAGE_BYTES, in events of one size

VARIABLES queue, inflight, quarantine,  \* the records of the three files
          disabled,    \* the marker a logout leaves
          lock,        \* the lock file: [by, signed]
          alive,       \* processes that run
          job,         \* what a process does
          old,         \* events queued more than DEFAULT_TTL_MS ago
          server,      \* events the API has stored
          enqueued,    \* history: events the spool has taken
          cleared,     \* history: events a logout or a command removed
          raced        \* history: a lock was taken from a process that runs

files == <<queue, inflight, quarantine, disabled>>
vars  == <<files, lock, alive, job, old, server, enqueued, cleared, raced>>

Rest == [op |-> "none", at |-> "idle", of |-> {}, done |-> {}, bad |-> {}, rest |-> {}]
Free == [by |-> NoProcess, signed |-> FALSE]

TypeOK ==
  /\ queue \subseteq Events /\ inflight \subseteq Events /\ quarantine \subseteq Events
  /\ disabled \in BOOLEAN /\ raced \in BOOLEAN
  /\ lock \in [by : Processes \cup {NoProcess}, signed : BOOLEAN]
  /\ alive \subseteq Processes
  /\ job \in [Processes ->
       [op : {"none", "enqueue", "claim", "upload", "complete", "clear", "wipe", "enable"},
        at : {"idle", "wants", "unlinks", "signs", "in", "trims", "settles", "removes", "leaves", "sends"},
        of : SUBSET Events, done : SUBSET Events, bad : SUBSET Events, rest : SUBSET Events]]
  /\ old \subseteq Events /\ server \subseteq Events
  /\ enqueued \subseteq Events /\ cleared \subseteq Events

Init ==
  /\ queue = {} /\ inflight = {} /\ quarantine = {} /\ disabled = FALSE
  /\ lock \in {Free} \cup [by : Processes \ Running, signed : BOOLEAN]
  /\ alive = Running /\ job = [p \in Processes |-> Rest]
  /\ old = {} /\ server = {} /\ enqueued = {} /\ cleared = {} /\ raced = FALSE

At(p, op, at) == job[p].op = op /\ job[p].at = at
Goes(p, at)   == job' = [job EXCEPT ![p].at = at]
Starts(p, op, S) == /\ p \in alive /\ job[p] = Rest
                    /\ job' = [job EXCEPT ![p] = [Rest EXCEPT !.op = op, !.at = "wants", !.of = S]]

\* readRecords drops what is too old and writes the rest back (the stub it leaves in the
\* quarantine takes no room here).
Fresh(S) == S \ old
Room(n)  == Cardinality(queue) + Cardinality(inflight) + Cardinality(quarantine) + n <= MaxStored
-------------------------------------------------------------------------------
\* ---- what a process sets out to do ----

Start(p) ==
  /\ \/ \E e \in Events \ enqueued : Starts(p, "enqueue", {e})
     \/ ~disabled /\ Starts(p, "claim", {})     \* the secret of the bridge is gone with a logout
     \/ Starts(p, IF disabled THEN "enable" ELSE "clear", {})
     \/ Starts(p, "wipe", {})
  /\ UNCHANGED <<files, lock, alive, old, server, enqueued, cleared, raced>>
-------------------------------------------------------------------------------
\* ---- withAgentSpoolLock ----

Locks(p) ==
  /\ job[p].at = "wants" /\ lock = Free
  /\ lock' = [by |-> p, signed |-> FALSE] /\ Goes(p, "signs")
  /\ UNCHANGED <<files, alive, old, server, enqueued, cleared, raced>>

\* The owner's pid is written through the handle, into whatever has become of the file.
Signs(p) ==
  /\ job[p].at = "signs"
  /\ lock' = [lock EXCEPT !.signed = @ \/ lock.by = p] /\ Goes(p, "in")
  /\ UNCHANGED <<files, alive, old, server, enqueued, cleared, raced>>

\* A lock whose owner is dead is removed, in a step after the one that read it. A file
\* without a pid cannot be parsed.
FindsStale(p) ==
  /\ job[p].at = "wants" /\ lock.signed /\ lock.by \notin alive
  /\ Goes(p, "unlinks")
  /\ UNCHANGED <<files, lock, alive, old, server, enqueued, cleared, raced>>

Unlinked(p) == lock' = Free /\ raced' = (raced \/ lock.by \in alive \ {p})

TakesOver(p) ==
  /\ job[p].at = "unlinks" /\ Unlinked(p) /\ Goes(p, "wants")
  /\ UNCHANGED <<files, alive, old, server, enqueued, cleared>>

\* "Ateva local event spool is busy": an answer that was to be recorded is forgotten.
GivesUp(p) ==
  /\ job[p].at = "wants" /\ lock # Free
  /\ job' = [job EXCEPT ![p] = Rest]
  /\ UNCHANGED <<files, lock, alive, old, server, enqueued, cleared, raced>>

Leaves(p) ==
  /\ job[p].at = "leaves" /\ Unlinked(p)
  /\ job' = [job EXCEPT ![p] = IF @.op = "claim" /\ @.of # {} THEN [@ EXCEPT !.op = "upload", !.at = "sends"] ELSE Rest]
  /\ UNCHANGED <<files, alive, old, server, enqueued, cleared>>

Dies(p) ==
  /\ p \in alive /\ alive' = alive \ {p}
  /\ job' = [job EXCEPT ![p] = Rest]
  /\ UNCHANGED <<files, lock, old, server, enqueued, cleared, raced>>
-------------------------------------------------------------------------------
\* ---- under the lock ----

Enqueue(p) ==
  /\ At(p, "enqueue", "in") /\ Goes(p, "leaves")
  /\ LET known == job[p].of \subseteq Fresh(queue \cup inflight)
         full  == Cardinality(Fresh(queue)) >= MaxQueue \/ ~Room(1) IN
       IF disabled THEN UNCHANGED <<files, enqueued>>
       ELSE /\ inflight' = Fresh(inflight)
            /\ queue' = Fresh(queue) \cup (IF full THEN {} ELSE job[p].of \ inflight)
            /\ enqueued' = IF full /\ ~known THEN enqueued ELSE enqueued \cup job[p].of
            /\ UNCHANGED <<quarantine, disabled>>
  /\ UNCHANGED <<lock, alive, old, server, cleared, raced>>

\* claimAgentEventBatch: a claim that was never answered is claimed again, else the claim
\* is written before the queue is. A batch is of one installation and device.
Claimable == IF Fresh(inflight) # {} THEN Fresh(inflight) ELSE Fresh(queue)

ClaimedFile(batch) == IF Fresh(inflight) # {} THEN Fresh(inflight) ELSE batch

Claim(p) ==
  /\ At(p, "claim", "in")
  /\ \/ Claimable = {} /\ inflight' = {} /\ queue' = {} /\ Goes(p, "leaves")
     \/ \E batch \in SUBSET Claimable :
          /\ batch # {} /\ Cardinality(batch) <= MaxBatch
          /\ inflight' = ClaimedFile(batch)
          /\ job' = [job EXCEPT ![p].at = "trims", ![p].of = batch,
                                ![p].rest = Fresh(queue) \ ClaimedFile(batch)]
          /\ UNCHANGED queue
  /\ UNCHANGED <<quarantine, disabled, lock, alive, old, server, enqueued, cleared, raced>>

Trims(p) ==
  /\ At(p, "claim", "trims") /\ Goes(p, "leaves")
  /\ queue' = job[p].rest
  /\ UNCHANGED <<inflight, quarantine, disabled, lock, alive, old, server, enqueued, cleared, raced>>

\* completeAgentEventBatch: what the answer does not name stays claimed, in particular the
\* batch that was claimed since.
Unresolved_None(p) == {}
Unresolved(p)      == Fresh(inflight) \ (job[p].done \cup job[p].bad)

Complete(p) ==
  /\ At(p, "complete", "in")
  /\ LET refused == Fresh(inflight) \cap job[p].bad IN
       IF Fresh(inflight) = {} \/ (refused # {} /\ ~Room(Cardinality(refused)))
       THEN inflight' = Fresh(inflight) /\ Goes(p, "leaves") /\ UNCHANGED quarantine
       ELSE /\ inflight' = Fresh(inflight) /\ quarantine' = quarantine \cup refused
            /\ job' = [job EXCEPT ![p].at = "settles", ![p].rest = Unresolved(p)]
  /\ UNCHANGED <<queue, disabled, lock, alive, old, server, enqueued, cleared, raced>>

Settles(p) ==
  /\ At(p, "complete", "settles") /\ Goes(p, "leaves")
  /\ inflight' = job[p].rest
  /\ UNCHANGED <<queue, quarantine, disabled, lock, alive, old, server, enqueued, cleared, raced>>

\* clearAgentTelemetry marks the bridge disabled before it removes the files.
Marks(p) ==
  /\ At(p, "clear", "in") /\ disabled' = TRUE /\ Goes(p, "removes")
  /\ UNCHANGED <<queue, inflight, quarantine, lock, alive, old, server, enqueued, cleared, raced>>

Removes(p) ==
  /\ At(p, "clear", "removes") \/ At(p, "wipe", "in")
  /\ queue' = {} /\ inflight' = {} /\ quarantine' = {} /\ Goes(p, "leaves")
  /\ cleared' = cleared \cup queue \cup inflight \cup quarantine
  /\ UNCHANGED <<disabled, lock, alive, old, server, enqueued, raced>>

Enables(p) ==
  /\ At(p, "enable", "in") /\ disabled' = FALSE /\ Goes(p, "leaves")
  /\ UNCHANGED <<queue, inflight, quarantine, lock, alive, old, server, enqueued, cleared, raced>>
-------------------------------------------------------------------------------
\* ---- the upload, outside of the lock ----

\* The API stores an event, knows it already, or rejects it.
Answered(p) ==
  /\ At(p, "upload", "sends")
  /\ \E bad \in SUBSET (job[p].of \ server) :
       /\ server' = server \cup (job[p].of \ bad)
       /\ job' = [job EXCEPT ![p] = [Rest EXCEPT !.op = "complete", !.at = "wants",
                                       !.done = job[p].of \ bad, !.bad = bad]]
  /\ UNCHANGED <<files, lock, alive, old, enqueued, cleared, raced>>

\* No answer, whatever the API has stored.
Unanswered(p) ==
  /\ At(p, "upload", "sends")
  /\ \E some \in SUBSET job[p].of : server' = server \cup some
  /\ job' = [job EXCEPT ![p] = Rest]
  /\ UNCHANGED <<files, lock, alive, old, enqueued, cleared, raced>>

Ages ==
  /\ \E e \in enqueued \ old : old' = old \cup {e}
  /\ UNCHANGED <<files, lock, alive, job, server, enqueued, cleared, raced>>

Next ==
  \/ Ages
  \/ \E p \in Processes :
       \/ Start(p) \/ Locks(p) \/ Signs(p) \/ FindsStale(p) \/ TakesOver(p) \/ GivesUp(p)
       \/ Leaves(p) \/ Dies(p) \/ Enqueue(p) \/ Claim(p) \/ Trims(p) \/ Complete(p) \/ Settles(p)
       \/ Marks(p) \/ Removes(p) \/ Enables(p) \/ Answered(p) \/ Unanswered(p)
-------------------------------------------------------------------------------
\* An event the spool has taken is in one of its files, stored by the API, expired or
\* cleared, through deaths at every step, overlapping uploads and late answers
\* (claimAgentEventBatch: "if it dies before this write, the original queue remains
\* retryable"), as long as no lock was taken from a process that runs: two processes that
\* find one stale lock may both end up under it, and the rewrite of one then drops what
\* the other has added.
EventKept ==
  raced \/ enqueued \subseteq queue \cup inflight \cup quarantine \cup server \cup old \cup cleared
-------------------------------------------------------------------------------
Spec == Init /\ [][Next]_vars
===============================================================================
