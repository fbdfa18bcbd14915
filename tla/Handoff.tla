------------------------------- MODULE Handoff -------------------------------
(***************************************************************************)
(* The hand-off from Pipeline 1 to Pipeline 2 for one consumer and one     *)
(* document type: Silver's ingest_batch table as the queue of record, the  *)
(* Kafka doorbell, and the polling side of SilverReader (pending_batches   *)
(* and record_execution) as it is driven by the consumer loop of           *)
(* tests/handoff/test_handoff.py.                                          *)
(*                                                                         *)
(* Time is a counter.  An ingest transaction takes ready_at when it starts *)
(* (DEFAULT now() is the transaction's start) and becomes visible when it  *)
(* commits, so batches may appear out of ready_at order.  Every statement  *)
(* of the reader that can interleave with another worker is a step.        *)
(***************************************************************************)
EXTENDS Integers, Sequences, FiniteSets

CONSTANTS Batches,       \* batch ids an ingest transaction may create
          Workers,       \* reconciliation workers sharing one consumer name
          MaxVersion,    \* engine version tuples, oldest first, are 1..MaxVersion
          Overlap,       \* the re-read window of pending_batches
          CommitBound,   \* longest time from ready_at to commit
          Limit,         \* page size of pending_batches
          MaxTime,       \* bound on the clock
          MaxCrashes     \* bound on worker crashes

ASSUME ConstantsAssumption ==
    /\ MaxVersion \in Nat \ {0}
    /\ Limit \in Nat \ {0}
    /\ MaxTime \in Nat \ {0}
    /\ MaxCrashes \in Nat

\* The overlap window only works for transactions shorter than it.
ASSUME OverlapAssumption ==
    /\ Overlap \in Nat
    /\ CommitBound \in Nat
    /\ CommitBound < Overlap

Versions == 1 .. MaxVersion
EPOCH == 0

VARIABLES
    now,         \* the database clock
    status,      \* per batch: absent, in an open transaction, or READY
    readyAt,     \* per batch: ingest_batch.ready_at
    topic,       \* batches whose manifest is on the Kafka topic
    watermark,   \* gold.consumer_watermark.last_ready_at (EPOCH: no row)
    executed,    \* gold.batch_execution: <<batch, version>> keys committed
    facts,       \* gold.fact_record: how often each key's facts were written
    pc,          \* per worker: where it is in the consumer loop
    version,     \* per worker: the EngineVersions it is deployed with
    seen,        \* per worker: the watermark its poll read
    page,        \* per worker: the batches of its poll still to be executed
    crashes      \* worker crashes so far

silverVars == <<status, readyAt>>
goldVars   == <<watermark, executed, facts>>
workerVars == <<pc, version, seen, page>>
vars == <<now, silverVars, topic, goldVars, workerVars, crashes>>

TypeOK ==
    /\ now \in 1 .. MaxTime
    /\ status \in [Batches -> {"absent", "open", "READY"}]
    /\ readyAt \in [Batches -> 0 .. MaxTime]
    /\ topic \subseteq Batches
    /\ watermark \in 0 .. MaxTime
    /\ executed \subseteq Batches \X Versions
    /\ facts \in [Batches \X Versions -> Nat]
    /\ pc \in [Workers -> {"idle", "polling", "draining", "recording"}]
    /\ version \in [Workers -> Versions]
    /\ seen \in [Workers -> 0 .. MaxTime]
    /\ page \in [Workers -> Seq(Batches)]
    /\ crashes \in 0 .. MaxCrashes

Init ==
    /\ now = 1
    /\ status = [b \in Batches |-> "absent"]
    /\ readyAt = [b \in Batches |-> 0]
    /\ topic = {}
    /\ watermark = EPOCH
    /\ executed = {}
    /\ facts = [k \in Batches \X Versions |-> 0]
    /\ pc = [w \in Workers |-> "idle"]
    /\ version = [w \in Workers |-> 1]
    /\ seen = [w \in Workers |-> EPOCH]
    /\ page = [w \in Workers |-> <<>>]
    /\ crashes = 0

Tick ==
    /\ now < MaxTime
    /\ now' = now + 1
    /\ UNCHANGED <<silverVars, topic, goldVars, workerVars, crashes>>

-----------------------------------------------------------------------------
(* Pipeline 1: one ingest transaction per batch.                           *)

\* The transaction that inserts the batch starts; ready_at is its now().
BeginIngest(b) ==
    /\ status[b] = "absent"
    /\ status' = [status EXCEPT ![b] = "open"]
    /\ readyAt' = [readyAt EXCEPT ![b] = now]
    /\ UNCHANGED <<now, topic, goldVars, workerVars, crashes>>

CommitIngest(b) ==
    /\ status[b] = "open"
    /\ now - readyAt[b] <= CommitBound
    /\ status' = [status EXCEPT ![b] = "READY"]
    /\ UNCHANGED <<now, readyAt, topic, goldVars, workerVars, crashes>>

\* A rolled back transaction leaves nothing behind; its id is never reused,
\* so the model value stands for the next attempt's.
AbortIngest(b) ==
    /\ status[b] = "open"
    /\ status' = [status EXCEPT ![b] = "absent"]
    /\ readyAt' = [readyAt EXCEPT ![b] = 0]
    /\ UNCHANGED <<now, topic, goldVars, workerVars, crashes>>

\* publish runs after the commit and never raises: that the producer is
\* missing or the send fails is the absence of this step.
Publish(b) ==
    /\ status[b] = "READY"
    /\ topic' = topic \union {b}
    /\ UNCHANGED <<now, silverVars, goldVars, workerVars, crashes>>

\* Retention expiry or a purged topic.
PurgeTopic ==
    /\ topic # {}
    /\ topic' = {}
    /\ UNCHANGED <<now, silverVars, goldVars, workerVars, crashes>>

-----------------------------------------------------------------------------
(* Pipeline 2: poll, then execute the page in order.                       *)

Never(b) == \A v \in Versions : <<b, v>> \notin executed

\* Wrong on purpose: no overlap, as a plain "newer than the watermark" query.
PendingNoOverlap(w) ==
    {b \in Batches : /\ status[b] = "READY"
                     /\ readyAt[b] > seen[w]
                     /\ <<b, version[w]>> \notin executed}

\* What the SELECT of pending_batches offers a worker that read the
\* watermark as seen[w] and runs under version[w].
Pending(w) ==
    {b \in Batches : /\ status[b] = "READY"
                     /\ readyAt[b] > seen[w] - Overlap
                     /\ <<b, version[w]>> \notin executed}

\* Wrong on purpose: LIMIT without ORDER BY.
IsPageUnordered(s, offered) ==
    /\ \A i, j \in 1 .. Len(s) : i < j => s[i] # s[j]
    /\ \A i \in 1 .. Len(s) : s[i] \in offered
    /\ Len(s) = Limit \/ \A b \in offered : \E i \in 1 .. Len(s) : s[i] = b

\* ORDER BY ready_at LIMIT Limit: ties come in any order.
IsPage(s, offered) ==
    /\ \A i, j \in 1 .. Len(s) :
          i < j => s[i] # s[j] /\ readyAt[s[i]] <= readyAt[s[j]]
    /\ \A i \in 1 .. Len(s) : s[i] \in offered
    /\ \A b \in offered :
          \/ \E i \in 1 .. Len(s) : s[i] = b
          \/ /\ Len(s) = Limit
             /\ \A i \in 1 .. Len(s) : readyAt[s[i]] <= readyAt[b]

Pages(offered) == UNION {[1 .. n -> offered] : n \in 0 .. Limit}

\* First statement of pending_batches: read the watermark, EPOCH without a row.
ReadWatermark(w) ==
    /\ pc[w] = "idle"
    /\ pc' = [pc EXCEPT ![w] = "polling"]
    /\ seen' = [seen EXCEPT ![w] = watermark]
    /\ UNCHANGED <<now, silverVars, topic, goldVars, version, page, crashes>>

\* Second statement, on a later snapshot: select the page.
SelectPending(w) ==
    /\ pc[w] = "polling"
    /\ \E s \in Pages(Pending(w)) :
          /\ IsPage(s, Pending(w))
          /\ page' = [page EXCEPT ![w] = s]
          /\ pc' = [pc EXCEPT ![w] = IF s = <<>> THEN "idle" ELSE "draining"]
    /\ seen' = [seen EXCEPT ![w] = EPOCH]
    /\ UNCHANGED <<now, silverVars, topic, goldVars, version, crashes>>

Key(w) == <<Head(page[w]), version[w]>>

\* The worker is done with the head of its page.
NextInPage(w) ==
    /\ page' = [page EXCEPT ![w] = Tail(page[w])]
    /\ pc' = [pc EXCEPT ![w] = IF Tail(page[w]) = <<>> THEN "idle" ELSE "draining"]

\* Wrong on purpose: a check for the key and a plain insert, without the index.
InsertExecutionUnchecked(w) ==
    /\ pc[w] = "draining"
    /\ Key(w) \notin executed
    /\ pc' = [pc EXCEPT ![w] = "recording"]
    /\ UNCHANGED <<now, silverVars, topic, goldVars, version, seen, page, crashes>>

\* INSERT INTO batch_execution ... ON CONFLICT DO NOTHING takes the key: it
\* waits for a transaction that has inserted the same key and not ended.
InsertExecution(w) ==
    /\ pc[w] = "draining"
    /\ Key(w) \notin executed
    /\ \A u \in Workers : pc[u] = "recording" => Key(u) # Key(w)
    /\ pc' = [pc EXCEPT ![w] = "recording"]
    /\ UNCHANGED <<now, silverVars, topic, goldVars, version, seen, page, crashes>>

\* The insert found the key: record_execution returns False, nothing written.
AlreadyExecuted(w) ==
    /\ pc[w] = "draining"
    /\ Key(w) \in executed
    /\ NextInPage(w)
    /\ UNCHANGED <<now, silverVars, topic, goldVars, version, seen, crashes>>

\* Wrong on purpose: no GREATEST, and a watermark one past the batch.
WatermarkAssigned(t) == t
WatermarkPastBatch(t) == IF t >= watermark THEN t + 1 ELSE watermark

AdvanceWatermark(t) == IF t > watermark THEN t ELSE watermark

\* The transaction that holds the key writes the facts and the watermark
\* (GREATEST) and commits.
CommitExecution(w) ==
    /\ pc[w] = "recording"
    /\ executed' = executed \union {Key(w)}
    /\ facts' = [facts EXCEPT ![Key(w)] = @ + 1]
    /\ watermark' = AdvanceWatermark(readyAt[Head(page[w])])
    /\ NextInPage(w)
    /\ UNCHANGED <<now, silverVars, topic, version, seen, crashes>>

\* A worker dies, or an error propagates out of the loop: an open
\* transaction rolls back and the rest of the page is forgotten.
Crash(w) ==
    /\ pc[w] # "idle"
    /\ crashes < MaxCrashes
    /\ crashes' = crashes + 1
    /\ pc' = [pc EXCEPT ![w] = "idle"]
    /\ seen' = [seen EXCEPT ![w] = EPOCH]
    /\ page' = [page EXCEPT ![w] = <<>>]
    /\ UNCHANGED <<now, silverVars, topic, goldVars, version>>

\* A rule, corpus or tenant-pack change is deployed to one worker.
Upgrade(w) ==
    /\ pc[w] = "idle"
    /\ version[w] < MaxVersion
    /\ version' = [version EXCEPT ![w] = @ + 1]
    /\ UNCHANGED <<now, silverVars, topic, goldVars, pc, seen, page, crashes>>

-----------------------------------------------------------------------------
Poll(w) == ReadWatermark(w) \/ SelectPending(w)
RecordExecution(w) == InsertExecution(w) \/ AlreadyExecuted(w) \/ CommitExecution(w)

Ingest(b) ==
    BeginIngest(b) \/ CommitIngest(b) \/ AbortIngest(b) \/ Publish(b)

Consume(w) == Poll(w) \/ RecordExecution(w) \/ Crash(w) \/ Upgrade(w)

Next ==
    \/ Tick
    \/ PurgeTopic
    \/ \E b \in Batches : Ingest(b)
    \/ \E w \in Workers : Consume(w)

Spec == Init /\ [][Next]_vars

\* A worker keeps polling and keeps executing what it polled.  Nothing is
\* assumed of the clock, of ingestion, of Kafka, of crashes or of upgrades.
Fairness == \A w \in Workers : WF_vars(Poll(w) \/ RecordExecution(w))

FairSpec == Spec /\ Fairness

-----------------------------------------------------------------------------
(* Properties.                                                             *)

\* Two workers that both polled a batch never both write its facts, and an
\* execution is never recorded without them: one set of facts per key of
\* batch_execution (record_execution's ON CONFLICT and its early return).
FactsExactlyOnce ==
    \A k \in Batches \X Versions : facts[k] = IF k \in executed THEN 1 ELSE 0

\* The overlap window does its job: a READY batch that no version has
\* executed is still inside the window every later poll selects from,
\* however late it committed and whichever worker moved the watermark.
Discoverable ==
    \A b \in Batches :
        status[b] = "READY" /\ Never(b) => readyAt[b] > watermark - Overlap

\* The watermark is never ahead of what was executed: it is EPOCH or the
\* ready_at of an executed batch, and no execution is ahead of it.
WatermarkIsNewestExecuted ==
    /\ \A k \in executed : readyAt[k[1]] <= watermark
    /\ watermark = EPOCH \/ \E k \in executed : readyAt[k[1]] = watermark

\* Gold is append-only: no step rewinds the watermark, forgets an execution
\* or takes back a fact (GREATEST in record_execution).
GoldOnlyGrows ==
    [][/\ watermark' >= watermark
       /\ executed \subseteq executed'
       /\ \A k \in Batches \X Versions : facts'[k] >= facts[k]]_vars

\* What was handed over, and what of it the next poll finds unexecuted.
Given == {b \in Batches : status[b] = "READY"}
Waiting == {b \in Given : Never(b) /\ readyAt[b] > watermark - Overlap}

\* To Pipeline 2 the table, the watermark, the overlap window and the workers'
\* polls are one durable queue: a batch that commits is in the window at once,
\* and stays there until it is executed.
Queue == INSTANCE BatchQueue WITH given <- Given, waiting <- Waiting, results <- facts
ImplementsBatchQueue == Queue!Spec

\* Kafka is only a doorbell: every batch that commits is executed, whether or
\* not a message for it was sent, and whatever crashed in between.
EveryBatchExecuted ==
    \A b \in Batches : status[b] = "READY" ~> ~Never(b)

\* "Bumped rule version: a full re-run": once every worker runs the newest
\* version, every READY batch is executed under it.
RuleChangeForcesRerun ==
    \A b \in Batches :
        (status[b] = "READY" /\ \A w \in Workers : version[w] = MaxVersion)
            ~> <<b, MaxVersion>> \in executed
=============================================================================
