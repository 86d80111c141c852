-------------------------------- MODULE Ingest --------------------------------
(***************************************************************************)
(* Bulk ingest (orchestrator/ingest_api.py) and the triage queue it fills  *)
(* (shared/priority_engine.py), both in the orchestrator's process.        *)
(*                                                                         *)
(* A handler is atomic between two awaits: the gather over the chunks sent *)
(* to Layer 1, and the put into a full triage queue.  Scoring an alert and *)
(* putting it is one step, PutNext; `loop' keeps the event loop for the    *)
(* batch until its next await.  An entry <<b, p>> is the p-th log of a     *)
(* batch.  Nothing in the repository takes an alert out of the queue or of *)
(* the buffer of critical ones, so there is no action that does.           *)
(***************************************************************************)
EXTENDS PriorityScore, SequencesExt

CONSTANTS Batches,      \* the requests to /ingest/batch
          Submissions,  \* their bodies: the logs, deduplicate, run_full_pipeline
          Logs,         \* what normalize() makes of a log: key, source and the facts of a score and
                        \* the verdicts (is_anomalous) that Layer 1 may give it
          Unreadable,   \* a log that normalize() cannot read
          Keys,         \* source_ip and alert_type, hashed
          Sources,      \* source_ip
          Nodes,        \* L1_NODES
          Primary,      \* L1_NODES[0]
          Local,        \* the nodes whose URL is on this host
          ChunkSize,    \* batch_size
          GpuSlots,     \* _GPU_SEMAPHORE
          Slots,        \* _PIPELINE_SEMAPHORE
          QueueMax,     \* maxsize of the triage queue
          Nobody

ASSUME LogsAssumption ==
  /\ Unreadable \notin Logs
  /\ \A l \in Logs : l.key \in Keys /\ l.source \in Sources /\ l.verdicts \subseteq BOOLEAN
ASSUME SubmissionsAssumption ==
  Submissions \subseteq [logs : Seq(Logs \cup {Unreadable}), dedup : BOOLEAN, full : BOOLEAN]
ASSUME NodesAssumption == Primary \in Nodes /\ Local \subseteq Nodes
ASSUME LimitsAssumption ==
  /\ {ChunkSize, GpuSlots, Slots, QueueMax} \subseteq Nat \ {0}
  /\ IsFiniteSet(Batches) /\ Nobody \notin Batches

VARIABLES
  alive,      \* the nodes with _node_alive
  remembered, \* the dedup keys in Redis
  passed,     \* history: how often a key passed the dedup since Redis forgot it
  hits,       \* AttackChainTracker: the hits of a source, pruned when it is scored
  stage,      \* where the handler of a batch is
  body,       \* its request
  sent,       \* the positions that go to Layer 1
  out,        \* its chunks that Layer 1 has not answered
  verdict,    \* per batch: the positions with a verdict, and, as history, those that
              \* a node lost (`missed')
  answer,     \* per batch: the counts of its BulkIngestResponse
  todo,       \* the anomalous positions that are not scored yet
  tier,       \* per batch: the tier of the scored positions
  queue,      \* the triage queue
  critical,   \* _critical_buffer
  dropped,    \* the entries dropped
  stats,      \* the queue's own counters
  loop,       \* the batch that keeps the event loop
  waiting,    \* anomalous entries whose background pipeline has no slot yet
  running     \* those with a slot

vars == <<alive, remembered, passed, hits, stage, body, sent, out, verdict, answer, todo, tier,
          queue, critical, dropped, stats, loop, waiting, running>>
requestVars == <<stage, body, sent, out, verdict, answer, todo>>
triageVars  == <<tier, queue, critical, dropped, stats>>
redisVars   == <<remembered, passed>>
pipeVars    == <<waiting, running>>

NoBody == [logs |-> <<>>, dedup |-> FALSE, full |-> FALSE]
NoVerdict == [anomalous |-> {}, benign |-> {}, missed |-> {}]
NoAnswer == [normalized |-> 0, deduplicated |-> 0, sent |-> 0, anomalous |-> 0, benign |-> 0]
Stages == {"new", "queued", "detecting", "triage", "blocked", "answered", "failed"}
Entries == Batches \X (Nat \ {0})

Init ==
  /\ alive = Local
  /\ remembered = {} /\ passed = [k \in Keys |-> 0]
  /\ hits = [s \in Sources |-> 0]
  /\ stage = [b \in Batches |-> "new"]
  /\ body = [b \in Batches |-> NoBody]
  /\ sent = [b \in Batches |-> {}]
  /\ out = [b \in Batches |-> {}]
  /\ verdict = [b \in Batches |-> NoVerdict]
  /\ answer = [b \in Batches |-> NoAnswer]
  /\ todo = [b \in Batches |-> {}]
  /\ tier = [b \in Batches |-> <<>>]
  /\ queue = {} /\ critical = <<>> /\ dropped = {}
  /\ stats = [enqueued |-> 0, bypassed |-> 0, dropped |-> 0]
  /\ loop = Nobody
  /\ waiting = {} /\ running = {}
-----------------------------------------------------------------------------
\* What is left of a request after normalize_bulk: the positions it could read.
\* The handler keeps its alerts in their order, so a set of positions is a list.
Readable(logs) == {p \in 1..Len(logs) : logs[p] # Unreadable}

KeyAt(logs, p) == logs[p].key

\* record_pre_dedup: the raw volume of every source in the batch.
Counted(logs) ==
  [s \in Sources |->
     hits[s] + Cardinality({p \in Readable(logs) : logs[p].source = s})]

\* Seeded fault: the keys are read first and written afterwards.
FreshReadFirst(logs, positions, known) == {p \in positions : KeyAt(logs, p) \notin known}
\* SET NX, one after the other in one pipeline: the first entry of a new key.
Fresh(logs, positions, known) ==
  {p \in positions :
    /\ KeyAt(logs, p) \notin known
    /\ \A q \in positions : q < p => KeyAt(logs, q) # KeyAt(logs, p)}

KeysOf(logs, positions) == {KeyAt(logs, p) : p \in positions}
Passing(logs, positions, key) == {p \in positions : KeyAt(logs, p) = key}

\* _deduplicate, when Redis still knows the keys `known' (an entry lives for
\* 60 s): what passes.  When Redis raises, everything passes, whether the
\* keys were written before or not.
Deduplicate(sub, known, passes) ==
  LET all == Readable(sub.logs)
      fresh == Fresh(sub.logs, all, known)
      kept == [k \in Keys |-> IF k \in known THEN passed[k] ELSE 0]
  IN \/ /\ ~sub.dedup
        /\ passes = all /\ known = remembered
        /\ UNCHANGED redisVars
     \/ /\ sub.dedup
        /\ passes = fresh
        /\ remembered' = known \cup KeysOf(sub.logs, all)
        /\ passed' = [k \in Keys |-> kept[k] + Cardinality(Passing(sub.logs, fresh, k))]
     \/ /\ sub.dedup
        /\ passes = all
        /\ remembered' \in {known, known \cup KeysOf(sub.logs, all)}
        /\ passed' = kept

\* The chunk that a position is sent in, and the positions of a chunk.
ChunkOf(positions, p) == Cardinality({q \in positions : q < p}) \div ChunkSize
Chunks(positions) == {ChunkOf(positions, p) : p \in positions}
ChunkAt(positions, chunk) == {p \in positions : ChunkOf(positions, p) = chunk}

\* _get_live_nodes looks up a table nobody defines as soon as one node is
\* alive; without any it answers the primary node.
LiveNodesRaises == alive # {}

\* BulkIngestResponse, of the positions that could be read, those sent and
\* the numbers of verdicts.  An answer has no count of the alerts that a
\* node lost, and its errors stay empty.
Counts(all, positions, anomalous, benign) ==
  [normalized |-> Cardinality(all), deduplicated |-> Cardinality(all) - Cardinality(positions),
   sent |-> Cardinality(positions), anomalous |-> anomalous, benign |-> benign]

\* Nothing is left after the dedup: all that could be read counts as benign.
Duplicates(all) == Counts(all, {}, 0, Cardinality(all))

\* The answer of a batch after its triage.
Response(b) == Counts(Readable(body[b].logs), sent[b],
                      Cardinality(verdict[b].anomalous), Cardinality(verdict[b].benign))

\* /ingest/batch up to the gather over the nodes.
Submit(b) ==
  /\ loop = Nobody
  /\ stage[b] = "new"
  /\ \E sub \in Submissions :
       /\ sub.logs # <<>>
       /\ body' = [body EXCEPT ![b] = sub]
       /\ hits' = Counted(sub.logs)
       /\ \E known \in SUBSET remembered :
          \E passes \in {Readable(sub.logs), Fresh(sub.logs, Readable(sub.logs), known)} :
            /\ Deduplicate(sub, known, passes)
            /\ sent' = [sent EXCEPT ![b] = passes]
            /\ stage' = [stage EXCEPT ![b] =
                 IF passes = {} THEN "answered"
                 ELSE IF LiveNodesRaises THEN "failed" ELSE "queued"]
            /\ answer' = [answer EXCEPT ![b] =
                 IF passes = {} THEN Duplicates(Readable(sub.logs)) ELSE @]
  /\ UNCHANGED <<alive, out, verdict, todo, triageVars, loop, pipeVars>>

\* Seeded fault: the batch waits until its node is alive.
SendWhenAlive(b) ==
  /\ loop = Nobody
  /\ stage[b] = "queued" /\ Primary \in alive
  /\ Cardinality({c \in Batches : stage[c] = "detecting"}) < GpuSlots
  /\ stage' = [stage EXCEPT ![b] = "detecting"]
  /\ out' = [out EXCEPT ![b] = Chunks(sent[b])]
  /\ UNCHANGED <<alive, redisVars, hits, body, sent, verdict, answer, todo, triageVars, loop,
                 pipeVars>>

\* The task of the only node in use has a slot and posts all its chunks.
Send(b) ==
  /\ loop = Nobody
  /\ stage[b] = "queued"
  /\ Cardinality({c \in Batches : stage[c] = "detecting"}) < GpuSlots
  /\ stage' = [stage EXCEPT ![b] = "detecting"]
  /\ out' = [out EXCEPT ![b] = Chunks(sent[b])]
  /\ UNCHANGED <<alive, redisVars, hits, body, sent, verdict, answer, todo, triageVars, loop,
                 pipeVars>>

Outstanding(b, chunk) == loop = Nobody /\ stage[b] = "detecting" /\ chunk \in out[b]

\* What a chunk's end adds to the verdicts of its batch.
Told(b, chunk, anomalous, benign) ==
  /\ out' = [out EXCEPT ![b] = @ \ {chunk}]
  /\ verdict' = [verdict EXCEPT ![b] =
       [anomalous |-> @.anomalous \cup anomalous,
        benign    |-> @.benign \cup benign,
        missed    |-> @.missed \cup (ChunkAt(sent[b], chunk) \ (anomalous \cup benign))]]
  /\ UNCHANGED <<redisVars, hits, stage, body, sent, answer, todo, triageVars, loop, pipeVars>>

\* What Layer 1 may find anomalous among some alerts.
Verdicts(b, positions) ==
  {found \in SUBSET positions : \A p \in positions : (p \in found) \in body[b].logs[p].verdicts}

\* /detect/batch answers with a result for every alert of the chunk.
ChunkAnswered(b, chunk) ==
  /\ Outstanding(b, chunk)
  /\ \E anomalous \in Verdicts(b, ChunkAt(sent[b], chunk)) :
       Told(b, chunk, anomalous, ChunkAt(sent[b], chunk) \ anomalous)
  /\ UNCHANGED alive

\* 404: one call per alert; those that fail are left out of the results.
FellBack(b, chunk) ==
  /\ Outstanding(b, chunk)
  /\ \E told \in SUBSET ChunkAt(sent[b], chunk) :
       \E anomalous \in Verdicts(b, told) : Told(b, chunk, anomalous, told \ anomalous)
  /\ UNCHANGED alive

\* Any other failure: no results, and the node counts as dead.
ChunkFailed(b, chunk) ==
  /\ Outstanding(b, chunk)
  /\ Told(b, chunk, {}, {})
  /\ alive' = alive \ {Primary}

\* The gather is over: the anomalous results in the order of the alerts.
Gathered(b) ==
  /\ loop = Nobody
  /\ stage[b] = "detecting" /\ out[b] = {}
  /\ stage' = [stage EXCEPT ![b] = "triage"]
  /\ todo' = [todo EXCEPT ![b] = verdict[b].anomalous]
  /\ loop' = b
  /\ UNCHANGED <<alive, redisVars, hits, body, sent, out, verdict, answer, triageVars, pipeVars>>

\* record_and_score: the hits that are still within the window of 300 s, which
\* were counted before the dedup, and at least the one of this alert.
Recorded(source, left) == [hits EXCEPT ![source] = IF left = 0 THEN 1 ELSE left]

\* The tiers of a batch when one more position is scored.
WithTier(tiers, p, rank) ==
  [q \in DOMAIN tiers \cup {p} |-> IF q = p THEN rank ELSE tiers[q]]

\* Seeded fault: a full queue drops MEDIUM alerts too.
PutDropsMedium(b, p, rank) ==
  LET entry == <<b, p>>
      full == Cardinality(queue) >= QueueMax
  IN \/ /\ rank = 0
        /\ critical' = Append(critical, entry)
        /\ stats' = [stats EXCEPT !.bypassed = @ + 1]
        /\ UNCHANGED <<queue, dropped, stage, loop>>
     \/ /\ rank > 0 /\ ~full
        /\ queue' = queue \cup {entry}
        /\ stats' = [stats EXCEPT !.enqueued = @ + 1]
        /\ UNCHANGED <<critical, dropped, stage, loop>>
     \/ /\ rank > 0 /\ full
        /\ dropped' = dropped \cup {entry}
        /\ stats' = [stats EXCEPT !.dropped = @ + 1]
        /\ UNCHANGED <<critical, queue, stage, loop>>
\* ThreatPriorityQueue.put: CRITICAL alerts go to the buffer; when the queue is
\* full a LOW one is dropped and the others wait for a place.
Put(b, p, rank) ==
  LET entry == <<b, p>>
      full == Cardinality(queue) >= QueueMax
  IN \/ /\ rank = 0
        /\ critical' = Append(critical, entry)
        /\ stats' = [stats EXCEPT !.bypassed = @ + 1]
        /\ UNCHANGED <<queue, dropped, stage, loop>>
     \/ /\ rank > 0 /\ ~full
        /\ queue' = queue \cup {entry}
        /\ stats' = [stats EXCEPT !.enqueued = @ + 1]
        /\ UNCHANGED <<critical, dropped, stage, loop>>
     \/ /\ rank = 3 /\ full
        /\ dropped' = dropped \cup {entry}
        /\ stats' = [stats EXCEPT !.dropped = @ + 1]
        /\ UNCHANGED <<critical, queue, stage, loop>>
     \/ /\ rank \in 1..2 /\ full
        /\ stage' = [stage EXCEPT ![b] = "blocked"]
        /\ loop' = Nobody
        /\ UNCHANGED <<critical, queue, dropped, stats>>

\* One turn of the loop of score_and_enqueue_batch.
PutNext(b) ==
  /\ loop = b
  /\ \E p \in todo[b] :
       /\ \A q \in todo[b] : p <= q
       /\ LET log == body[b].logs[p]
          IN \E left \in 0..hits[log.source] :
             LET rank == Tier(log, Recorded(log.source, left)[log.source])
             IN
             /\ hits' = Recorded(log.source, left)
             /\ tier' = [tier EXCEPT ![b] = WithTier(@, p, rank)]
             /\ Put(b, p, rank)
       /\ todo' = [todo EXCEPT ![b] = @ \ {p}]
  /\ UNCHANGED <<alive, redisVars, body, sent, out, verdict, answer, pipeVars>>

\* Seeded fault: the answer does not wait for the triage.
AnswerEarly(b) ==
  /\ loop = b
  /\ stage' = [stage EXCEPT ![b] = "answered"]
  /\ answer' = [answer EXCEPT ![b] = Response(b)]
  /\ loop' = Nobody
  /\ UNCHANGED <<alive, redisVars, hits, body, sent, out, verdict, todo, triageVars, pipeVars>>
\* The response, and after it the background pipelines of run_full_pipeline.
Answer(b) ==
  /\ loop = b
  /\ todo[b] = {}
  /\ stage' = [stage EXCEPT ![b] = "answered"]
  /\ answer' = [answer EXCEPT ![b] = Response(b)]
  /\ loop' = Nobody
  /\ waiting' = IF body[b].full
                THEN waiting \cup ({b} \X verdict[b].anomalous) ELSE waiting
  /\ UNCHANGED <<alive, redisVars, hits, body, sent, out, verdict, todo, triageVars, running>>

\* Seeded fault: the slot is not asked for.
StartPipelineAtOnce(entry) ==
  /\ loop = Nobody
  /\ waiting' = waiting \ {entry}
  /\ running' = running \cup {entry}
  /\ UNCHANGED <<alive, redisVars, hits, requestVars, triageVars, loop>>
\* _run_pipeline_for_anomalous: a slot, run_pipeline, whose errors are kept,
\* and the slot is free again.
StartPipeline(entry) ==
  /\ loop = Nobody
  /\ Cardinality(running) < Slots
  /\ waiting' = waiting \ {entry}
  /\ running' = running \cup {entry}
  /\ UNCHANGED <<alive, redisVars, hits, requestVars, triageVars, loop>>

EndPipeline(entry) ==
  /\ loop = Nobody
  /\ running' = running \ {entry}
  /\ UNCHANGED <<alive, redisVars, hits, requestVars, triageVars, loop, waiting>>

\* The health loop and /ingest/nodes.  A ping that succeeds sets the flag and
\* then fails on the same undefined table, which clears it; one that fails
\* clears it at once.
Ping(node) ==
  /\ loop = Nobody
  /\ node \in alive
  /\ alive' = alive \ {node}
  /\ UNCHANGED <<redisVars, hits, requestVars, triageVars, loop, pipeVars>>

ChunkEnds(b, chunk) ==
  ChunkAnswered(b, chunk) \/ FellBack(b, chunk) \/ ChunkFailed(b, chunk)
\* What a submitted batch does next.
Advance(b) ==
  \/ Send(b) \/ Gathered(b) \/ PutNext(b) \/ Answer(b)
  \/ \E chunk \in out[b] : ChunkEnds(b, chunk)
\* What the background pipelines do next.
Background ==
  \/ \E entry \in waiting : StartPipeline(entry)
  \/ \E entry \in running : EndPipeline(entry)

Next ==
  \/ \E b \in Batches : Submit(b) \/ Advance(b)
  \/ Background
  \/ \E node \in Nodes : Ping(node)

Spec == Init /\ [][Next]_vars

\* Every call to Layer 1 has a timeout, and the event loop runs what is ready.
\* A semaphore serves its waiters in order, and they are finitely many.
Fairness == \A b \in Batches : WF_vars(Advance(b))

FairSpec == Spec /\ Fairness
-----------------------------------------------------------------------------
\* The entries of a batch that were scored.
Scored(b) == DOMAIN tier[b]

\* Every variable keeps its type, a batch's results are about what it sent
\* (bulk_ingest), the event loop is kept by the batch in triage, and the
\* semaphore's slots suffice.
TypeOK ==
  /\ alive \subseteq Nodes
  /\ remembered \subseteq Keys /\ passed \in [Keys -> Nat]
  /\ hits \in [Sources -> Nat]
  /\ stage \in [Batches -> Stages]
  /\ body \in [Batches -> Submissions \cup {NoBody}]
  /\ verdict \in [Batches -> [anomalous : SUBSET Nat, benign : SUBSET Nat, missed : SUBSET Nat]]
  /\ sent \in [Batches -> SUBSET Nat] /\ out \in [Batches -> SUBSET Int]
  /\ \A b \in Batches : sent[b] \subseteq Readable(body[b].logs)
  /\ todo \in [Batches -> SUBSET Nat]
  /\ answer \in [Batches -> [normalized : Nat, deduplicated : Nat, sent : Nat,
                           anomalous : Nat, benign : Nat]]
  /\ DOMAIN tier = Batches
  /\ \A b \in Batches : Scored(b) \subseteq Nat /\ \A p \in Scored(b) : tier[b][p] \in 0..3
  /\ critical \in Seq(Batches \X Nat)
  /\ IsFiniteSet(queue) /\ IsFiniteSet(dropped) /\ IsFiniteSet(running)
  /\ stats \in [enqueued : Nat, bypassed : Nat, dropped : Nat]
  /\ \A b \in Batches : stage[b] = "triage" <=> loop = b
  /\ loop \in Batches \cup {Nobody}
  /\ Cardinality(running) <= Slots

\* The triage queue loses and repeats nothing (ThreatPriorityQueue.put and its
\* counters): a scored alert is in the buffer, in the queue, counted as
\* dropped, or the one its batch waits to put; only LOW alerts are dropped,
\* and the queue never exceeds its limit.
Triaged(b, p) ==
  LET entry == <<b, p>>
  IN \/ tier[b][p] = 0 /\ entry \in ToSet(critical)
     \/ tier[b][p] = 3 /\ entry \in queue \cup dropped
     \/ tier[b][p] \in 1..2 /\ entry \in queue
     \/ /\ tier[b][p] \in 1..2
        /\ stage[b] = "blocked" /\ Cardinality(queue) = QueueMax
QueueAccounts ==
  /\ \A b \in Batches : \A p \in Scored(b) : Triaged(b, p)
  /\ stats.bypassed = Len(critical) /\ IsInjective(critical)
  /\ stats.enqueued = Cardinality(queue) /\ stats.enqueued <= QueueMax
  /\ stats.dropped = Cardinality(dropped)
  /\ queue \cap dropped = {} /\ (queue \cup dropped) \cap ToSet(critical) = {}

\* Between two times that Redis forgets a key, at most one alert of that key
\* passes a dedup that works, within one batch and across concurrent ones
\* (_deduplicate).
OncePerKey == \A k \in Keys : passed[k] <= 1

\* What an answer says of its alerts is true (bulk_ingest, BulkIngestResponse):
\* what is not sent is a duplicate, the anomalous ones are those that triage
\* scored, and the alerts that neither verdict counts are exactly those that a
\* failing node lost.  An answer with nothing sent calls all of them benign.
AnswersAddUp ==
  \A b \in Batches : stage[b] = "answered" =>
    LET a == answer[b]
    IN /\ a.deduplicated + a.sent = a.normalized
       /\ a.anomalous = Cardinality(Scored(b))
       /\ a.anomalous + a.benign + Cardinality(verdict[b].missed)
            = IF a.sent = 0 THEN a.normalized ELSE a.sent

\* What the verdicts of a batch are about: the positions whose chunks ended,
\* each once.
VerdictsPartition ==
  \A b \in Batches :
    LET v == verdict[b]
    IN /\ v.anomalous \cup v.benign \cup v.missed =
            IF stage[b] \in {"new", "queued", "failed"} THEN {}
            ELSE {p \in sent[b] : ChunkOf(sent[b], p) \notin out[b]}
       /\ v.anomalous \cap v.benign = {}
       /\ (v.anomalous \cup v.benign) \cap v.missed = {}
       /\ stage[b] # "detecting" => out[b] = {}

\* An anomalous position is scored or still to be, and only from triage on; an
\* entry of the queues is scored.
ScoredOnce ==
  /\ \A b \in Batches :
       /\ Scored(b) \cap todo[b] = {}
       /\ Scored(b) \cup todo[b] =
            IF stage[b] \in {"triage", "blocked", "answered"} THEN verdict[b].anomalous ELSE {}
       /\ stage[b] = "answered" => todo[b] = {}
  /\ queue \cup dropped \cup ToSet(critical) \subseteq
       {e \in Batches \X Nat : e[2] \in Scored(e[1])}

\* A batch on its way sent something, and an answer is about the request as
\* it was sent and judged.
OnItsWay == {"queued", "detecting", "triage", "blocked"}
AnswerOfBatch ==
  \A b \in Batches :
    /\ stage[b] \in OnItsWay => sent[b] # {}
    /\ stage[b] = "answered" =>
         answer[b] = IF sent[b] = {} THEN Duplicates(Readable(body[b].logs)) ELSE Response(b)

\* The inductive invariant.
IInv == TypeOK /\ VerdictsPartition /\ ScoredOnce /\ AnswerOfBatch /\ QueueAccounts /\ OncePerKey
-----------------------------------------------------------------------------
\* An accepted batch is answered, fails as a whole, or waits for a place in a
\* full queue (bulk_ingest under the timeouts of its calls).
BatchesEnd ==
  \A b \in Batches :
    stage[b] = "queued" ~> \/ stage[b] \in {"answered", "failed"}
                           \/ stage[b] = "blocked" /\ Cardinality(queue) = QueueMax

\* "Return verdict counts immediately" (bulk_ingest): a batch that reached
\* triage is answered.
VerdictsReturned == \A b \in Batches : stage[b] = "triage" ~> stage[b] = "answered"
=============================================================================
