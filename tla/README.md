# IMMUNEX: TLA+ models, checks and proofs

IMMUNEX is a five-layer incident-response platform written in Python: FastAPI
services that detect (Layer 1), correlate (2), respond (3), adapt (4) and
remember (5), an orchestrator that calls them for every alert, and a bulk
ingest in front of it.  This directory holds TLA+ modules translated from that
code, the TLC configurations that check them, and proofs checked by TLAPS.
`PROJECT.json` maps every definition to the lines it stands for and lists the
runs, the theorems, the hazards and the findings.

Some source files of the commit contain unresolved merge conflicts
(`orchestrator/server.py`, `orchestrator/ingest_api.py`, `shared/schemas.py`,
`shared/smart_normalizer.py`, Layer 3's `main.py` and `database.py`).  Where a
modelled function is affected the HEAD side is modelled.

## The system

```
 clients ──> ingest_api ──> L1 nodes            operator
   raw logs,    │  triage queue                    │ /approve /pending
   normalizers  v                                  v
           orchestrator ──> L1 /detect ──> L2 /correlate ──> L3 /respond
                │                     └──> L4 /predict        │ fire and forget
                ├──> L4 /retrain <────────────────────────────┤
                └──> Kafka, Redis, Elasticsearch              └──> PostgreSQL
                                            clients ──> L5 /predict, /explain
```

| Part | State | Operations | What is hard |
|---|---|---|---|
| Layer 3 `Response_engine/main.py` | `_pending_lookup`, `_priority_queue` (both in memory) | `/respond`, `/approve`, `/pending`, retraining task | two awaits split the handlers; resubmission of an alert id; racing approvals; an exception between execution and audit; restarts |
| Layer 3 `safety_verifier.py` | per-source rate window | `verify` | one verdict for several actions; the meaning of `requires_approval`; the window's limit |
| Layer 3 `action_executor.py`, `playbook_generator.py` | none | `execute`, `generate` | which actions of a decision run, and on what target; an answer of the LLM of the wrong shape |
| Layer 3 `audit_logger.py` | one JSONL file per day | three kinds of record | failed writes are swallowed; the file is rewritten for every record; midnight and crashes |
| Layer 3 `database.py` | pool, schema, rows | startup, inserts nobody awaits, shutdown | a pool that is published before its schema; statements that fail half way |
| Layer 4 `server.py` | model and its mode, lock, `is_retraining`, `retrain_count`, parse cache | `/predict*`, `/retrain`, `/status` | threads against an event loop; a flag checked here and set there; a blocking lock inside an async handler |
| Orchestrator `server.py` | circuit breakers, token bucket, dedup table, active URLs | `/pipeline/run`, `call_layer` | failover repeats calls that may have been executed; late answers against the breaker; failures after Layer 3 has acted; a wall clock that is set back |
| `ingest_api.py` | node liveness, semaphores, Redis dedup keys | `/ingest/batch`, health loop | alerts remembered before they are scored; nodes that fail in mid-batch |
| `priority_engine.py` | attack chain hits, triage queue, critical buffer | `put`, scoring | a bounded queue without a consumer; counts raised by concurrent batches |
| Layer 5 `server.py` | SQLite: chains, observations, predictions, profiles | `/predict` = `/explain` | five transactions per request; repeated requests |
| Layer 1 `server.py`, `relevance_analyzer.py` | results, addresses and parse cache, when a source was last seen | `/detect*`, `/ingest*` | Redis calls that raise one after the other; results that are offered and then cached |
| Layer 1 `faiss_index.py` | index, metadata, two files | `add_normal`, `bulk_add_normal`, `save`, `load` | two files written one after the other; positions of vectors and metadata |
| `normalizer.py`, `smart_normalizer.py` | Bloom filters and watermark of the latter | `normalize`, `normalize_batch` | rotation against the window; late and unbelievable times; logs that raise in mid-batch |
| Layer 2 `server.py` | none that outlives a request | `/correlate` | two opinions and a table that overrule each other |
| clients, dashboard, training code | none, or none at run time | | numeric or textual |

What makes each part correct:

* **Layer 3.** A request is executed at most once and never after it was
  rejected; a parked decision can be found and decided until it is; the fast
  path only takes what the verifier allowed; answered requests leave a complete
  trail; nothing but answered requests reaches Layer 4; a record is filed once.
* **Layer 4.** Scores come from a model in evaluation mode that no training is
  changing; the service keeps accepting trainings; predictions are answered.
* **Orchestrator.** A breaker is open exactly when it has seen enough failures
  since the last success and never stays half-open; one alert of a key passes
  per window, and a service of Layer 3 gets it at most as often as the URL list
  names the service; the burst is bounded.
* **Ingest and triage.** The counts of an answer are those of what happened,
  but for the alerts lost with a node, which it does not count; one alert of a
  key passes the dedup; the queue loses nothing it does not count.
* **Layer 5.** The counts of chains, observations and profiles agree, also
  after a crash; a profile's highest stage is the highest that was answered.
* **Layer 1.** Position i of the metadata describes vector i; everybody who
  asks for a cached alert gets one answer; an anomaly is offered to Kafka once.
* **Normalizers.** An event passes once per window and is suppressed only for
  what was let through; an event is late exactly when a newer one was returned.

## Modules

| Module | What it is |
|---|---|
| `SafetyVerifier` | the verdict of `verify()` as predicates over an action and a situation |
| `ResponseEngine` | the Layer 3 service: state, handlers, crashes, fairness, properties, inductive invariant, refinement mapping; extends `SafetyVerifier` |
| `ApprovalGate` | the abstract specification of Layer 3: a request is undecided, then run by the policy, run by a human, or closed, once and for all |
| `ResponseEngineClaims` | sentences of the documentation the code does not keep |
| `Executor`, `Playbook` | `ActionExecutor.execute` and `PlaybookGenerator.generate` as operators |
| `AuditFile` | how one audit record gets into the day's file, step by step |
| `IncidentMemory` | the database pool, its schema and the inserts nobody awaits |
| `Immunity` | the Layer 4 service |
| `Orchestrator` | `run_pipeline`, `call_layer`, the circuit breakers and the dedup filter |
| `TokenBucket` | the orchestrator's `RateLimiter` under a wall clock |
| `PriorityScore` | the triage score and its tiers as operators |
| `Ingest` | `/ingest/batch` (`bulk_ingest`), the health loop and the triage queue; extends `PriorityScore` |
| `ThreatMemory` | the Layer 5 server and its transactions |
| `FaissIndex`, `Detection` | the similarity index with its files, and the Layer 1 server over it |
| `Relevance` | the relevance analyzer of Layer 1 as operators |
| `AttackStage` | Layer 2's stage, prediction and path as operators |
| `LogNormalizer` | `shared/normalizer.py`: formats, aliases, severities, rejections, as operators |
| `SmartFormats`, `SmartNormalizer` | `shared/smart_normalizer.py`: what becomes of one log, as operators, and the state machine of its batches |
| `ResponseEngineProofs` (with `Executor`), `OrchestratorProofs`, `ImmunityProofs`, `IngestProofs` (with `PriorityScore`), `ThreatMemoryProofs`, `DetectionProofs` (with `FaissIndex`, `Relevance`, `AttackStage`), `SmartNormalizerProofs` (with `SmartFormats`), `StoresProofs` (`AuditFile`, `IncidentMemory`, `TokenBucket`) | the theorems and their proofs |
| `MC*` | the small instances for TLC |

Composition.  `Detection` extends `FaissIndex`, because a server judges by the
index it loaded.  `Ingest` extends `PriorityScore`, and its instance reads raw
logs with `LogNormalizer`; that of `SmartNormalizer` reads them with
`SmartFormats`.  `ResponseEngine` implements `ApprovalGate`, and rests on three
abstractions that other modules justify: `Executor` (`AllOrNone`: an execution
runs all actions of a decision or none), `AuditFile` (writing a record is one
step) and `Playbook` (a playbook names any set of actions, or the generator
raises).

Each specification declares its parameters as CONSTANTS with named
assumptions.  An operator marked *Seeded fault* is its successor with a
plausible bug and is not used by any specification: it documents, next to each
definition, a mistake that some property would catch.

### Layer 3 against the code

The service is one asyncio process, so a handler is atomic between two awaits.
`/respond` awaits the LLM reasoning after the verdict and before the choice of
path: `Respond` is everything before it, `AutoExecute` and `Enqueue` are what
comes after it.  `/approve` awaits the body after the 404 check: `CallApprove`,
then `Reject`, `Generate` with `Approve` or `ApproveRaises` (HTTP 500), or
`ApproveRaced` (the `KeyError` of the loser).

Synchronous calls block the loop and are part of the action, except where the
handler waits for Ollama, whose client has no timeout.  There the action is
cut, and `keeper` is the request or the approver whose handler keeps the loop
until its worker thread returns, which may be never:

* `LlmTimeout`: the 8 s of `wait_for` are over.  `TimeoutError` is caught inside
  the `with ThreadPoolExecutor` (`llm_reasoning.py:112-120`), and leaving the
  `with` waits for the worker.  `Enqueue` follows with the fallback's MEDIUM.
* `AutoExecute`, then `Generated`: the fast path has executed and generates its
  playbook.
* `Generate`, then `Approve` or `ApproveRaises`: an approval has popped its
  decision and generates its playbook.

Only steps of the keeper and a crash are possible while the loop is kept.

| Code | Model |
|---|---|
| `_pending_lookup` | `pending`: alert id to the request whose decision is parked |
| `_priority_queue` | `heap`: the requests that pushed the entries; entries are matched by alert id |
| `_rate_window` | `rateHits`: the entries of the last 60 s per source; `RateExpires` ages one |
| the JSONL files | `audit`: the set of records (event, request) |
| `create_task(trigger_l4_retrain)` | `retrain`, and `RetrainTask` for the task |
| `ActionDecision`, `VerificationResult` | `decision` |
| `ExecutionResult` | `run`, with the number of executions as a history |
| `lifespan`, process exit | `Crash` (also between `AutoExecute` and `Generated`), `CrashAfterApprove` |

Abstractions.  The features, the DQN and the LLM are nondeterministic: a
ranking, a risk and a playbook are chosen from sets.  The numeric priority only
orders the answer of `/pending` and is left out.  The `RateLimiter` of `main.py`
always answers True.  The middleware's 504 after 60 s changes the answer a client
sees, not the handler's effects.  An unreadable approval body counts as an
approval (`main.py:635`), which is one of the bodies of `CallApprove`.

`Executor` describes an alert by the kind of value under each key (absent,
empty, text, shell characters, numbers) and answers whether `execute` dispatches
and to what target; `Playbook` describes the LLM's answer by its shape.
`AuditFile` cuts `_atomic_append` at every call that may raise or during which
the process may die: `Make`, `Create`, `Copy`, `AddLine`, `Replace`, with
`Raise`, `Die` and `Midnight` between them.  `IncidentMemory` runs `init_pool`
statement by statement; a statement takes effect, raises without one, or raises
after it (`command_timeout`).

### Layer 4 against the code

`flag` is `is_retraining`, `job` the place of each thread in `_retrain`, `lock`
the `threading.Lock`, `mode` what `model.train()` and `model.eval()` set,
`loop` the handler that keeps the event loop while it blocks on the lock,
`cache` the keys of `_llm_parse_cache` in insertion order.  A thread checks
nothing: `/retrain` reads the flag on the loop (`Retrain`) and the thread sets
it (`Begin`).  `retrain_count += 1` is a read and a write (`ReadCount`,
`AddCount`), because the language does not make it atomic.  The batch
endpoints take the same lock for several samples and add no behaviour.

### The orchestrator against the code

One event loop runs all pipelines, so what is between two awaits is one action.
`stage` is the await a pipeline is at: Layer 1 ("detect"), the gather of Layers
2 and 4 ("correlate"), Layer 3 ("respond"), `/retrain`, the playbook.  Layer 3
acts on what it receives, so its `call_layer` is modelled URL by URL: `Try` is
the part of the loop from a URL to the next await or to the fallback,
`Answered`, `Failed` and `Unreadable` its ends, and `Serve` the moment the
service takes the alert, which a timeout may follow.  For the other layers only
the outcome matters.

| Code | Model |
|---|---|
| `LAYER_URLS[3]` | `Order`, which may name a service more than once: `start_immunex.sh:10` sets `LAYER3_URL` to the default of `LAYER3_FB3` |
| `_failures` | `failures`, counted up to `Threshold`: it is only compared with the threshold, so nothing is lost |
| `_state`, `_last_failure` | `circuit`, and `cooled` once `recovery_timeout` has passed; `probe` marks the calls let through half-open |
| `_seen_alerts` | `seen`, which `Expire` clears after 60 s; `passed` counts as a history |
| the result's `retrain_eligible`, `playbook_eligible` | `plan` |

`can_proceed` moves an OPEN circuit to HALF_OPEN as a side effect, which is
part of `Try`.  The circuits are those of Layer 3.  The token bucket admits any
pipeline here; `TokenBucket` is the bucket alone, in thousandths of a token and
milliseconds, with a clock that goes forward and is set back.  Left out:
metrics, the URL reported as active, the Elasticsearch log and the FAISS
feedback task.

### Ingest and triage against the code

A batch is one handler between the awaits of `bulk_ingest`: `stage` tells which
(Layer 1's chunks, a place in the full queue, the end).  `loop` is the batch
that runs without an await while it scores and puts its alerts one by one
(`PutNext`), so two batches interleave exactly where the code lets them.
Alerts are positions in the body: `verdict` sorts those of ended chunks into
anomalous, benign and missed, `todo` holds the anomalous ones not scored yet,
and `tier` is defined on the scored ones (`Scored`).
`remembered` are the dedup keys in Redis, written before any node is asked;
`sent`, `out` and `verdict` what is asked of Layer 1, outstanding, and known.
`answer` holds the counts of `BulkIngestResponse`: those of the early return
when only duplicates are left (`Duplicates`: everything benign, nothing sent)
or those after the triage (`Response`).  The code has no count of the alerts
lost with a node; `missed` is a set of the model, and `AnswersAddUp` says that
it is what an answer leaves out.
A log is what `LogNormalizer` makes of a raw one: its source, key, severity and
whether it can be read at all.  No action takes an alert out of the queue or
the critical buffer, because no code does.

### Layers 5 and 1 against the code

`ThreatMemory`: `/predict` never awaits, so one request is served at a time and
`at` is its last committed transaction: `Create`, the observation, the chain's
state, the prediction, the profile.  A failure or a crash keeps what was
committed (`cut`), and the client may repeat.  The numeric models choose any
stage the code lets them answer.

`Detection`: `/detect`, `/detect/batch` and `/ingest*` have no await and are one
action each, cut at the Redis write that raises; `/detect_raw` awaits the
language model and is two, with or without the parse cache (`use_cache`).
Results and indicator addresses expire in Redis (`Forget`, `ForgetSource`).
`offered`, `unfinished` and `told` are histories.
`FaissIndex` numbers embeddings in the order of addition, so that "metadata
describes the index" is equality of two sequences; `save` is two steps, and a
crash between them leaves the file pair `torn`.

### The normalizers against the code

`SmartNormalizer` is `normalize_batch` turn by turn: `Begin`, one of `SkipLog`,
`TakeEvent` and `RaiseAt` for the log at `position`, `Return` for the watermark
engine after the loop.  The code reads the clock in every turn, so `Tick` may
come between any two, and the filters may rotate in the middle of a batch.  The
filters have explicit bits, so false positives happen; the stable sort is the
one permutation in `InOrderOfTime`.  A severity is one of the ids 0 to 5 of
`_parse_severity`, and 0 (Unknown) is also that of a log without one.  There is
one caller at a time: the callers in the repository (`immunex_eval_runner.py`)
are sequential and `normalize_batch` has no await, so that nothing exercises
the "Thread-safe" of its docstring (`smart_normalizer.py:628`), which two
threads could break, as neither filter nor watermark has a lock.  `registered`, `lost`, `suppressed` and
`times` are histories.  `SmartFormats` and
`LogNormalizer` describe a raw log by what the detectors and parsers look at
(first character, separators, the keys found), not by its characters; regular
expressions are abstracted to whether they match.

## Runs

| Run | Instance | What it shows |
|---|---|---|
| `response_engine` | 2 requests, 2 alerts, 1 approver, 3 rankings, modified bodies, LLM playbooks | the inductive invariant of the proofs (types, rate window, retraining only from answered requests); the fast path is verified; the trail is complete |
| `resubmission` | 3 requests for 1 alert, 2 approvers, restarts, fairness | at most one execution; no parked decision lost or hidden; final outcomes; the service implements `ApprovalGate`; reasoning concludes and approvers are answered unless a call to Ollama keeps the loop for good |
| `immunity` | 2 trainings, 2 handlers, 3 logs, a cache of 2, fairness | clean scores; flag and counter; the inductive invariant with the cache's limit; predictions answered; trainings accepted again |
| `orchestrator` | 2 pipelines, 2 services in a list of 3 URLs (local, remote, local), threshold 2, 1 key, fairness | circuits match counted failures and are tested when half-open; one alert per key and window; a service takes an alert at most as often as it is listed; pipelines end; the inductive invariant |
| `ingest` | 2 batches of up to 3 logs, 2 nodes, a queue of 1, fairness | the inductive invariant; the queue loses nothing; one alert of a key passes; the counts of an answer add up; a batch ends or waits at the full queue |
| `threat_memory` | 3 requests, 2 addresses, 2 chains, 5 crash points | the inductive invariant; counts match; what profiles miss is what was cut short; a profile is the highest answered; a chain shows its last prediction |
| `detection` | 3 bodies of 1 id, 3 raw requests with and without the cache, a builder, Redis that raises and forgets | the inductive invariant; metadata is aligned; answers agree; a cached anomaly was offered once |
| `smart_normalizer` | 4 batches of up to 4 logs, 2 keys with overlapping bits, times 5 to 9 | the inductive invariant; once per window; suppressed for a cause; late is behind |
| `claim_every_action_verified`, `claim_trading_hours`, `claim_predictions_not_blocked`, `claim_verdicts_returned` | the instances above | each ends in a counterexample, see Findings |

Bounds.  Three requests for one alert are the least in which a decision is
parked, replaced and replaced again while an approver holds the id; two
approvers are the least that race.  Two alerts with different severities and
origins exercise every constraint; `RateMax = 1` (the code's limit is larger)
puts the rate window at its limit with the first block and over it with the
second.  Two trainings are the least that overlap, and the third log is the one
that overflows a cache of two.  Two pipelines are the least in which one call
was let through before another one changed its circuit; three URLs make
failover, a service that is listed again and the end of the list all happen; with a threshold of two a failure may
leave a circuit closed or open it.  Two batches fill a queue with one place and
block in it, with a repeated alert, an unreadable log and all tiers among their
logs; chunks of one log let a node fail in the middle of a batch.  Three
requests of Layer 5 let two addresses report to one chain and one of them
repeat.  `MaxCalls` and `MaxVectors` (`Detection`) bound calls and embeddings:
two of each are the least for a cached answer, an upgrade and a replaced index.
The times of `SmartNormalizer` run over two buckets and two rotations of a
window of one, which are what it takes to forget a bit, and a batch may lie
across any of them; its day of three makes times that are believed, too old and
too far ahead all occur.  Requests, approvers, trainings, pipelines and batches are
consumed or reused from finite sets; nothing is bounded by a state constraint.
`CHECK_DEADLOCK FALSE` is set because a service whose finite supply of requests
is used up rightly stops.

Symmetry is used where the permuted values are alike before they arrive
(requests of `ResponseEngine` and `ThreatMemory`, the two raw requests of one
log in `Detection`), and in no run with a liveness property.

Fairness.  Orchestrator: every await of a pipeline has an HTTP timeout, so each
stage is left (weak fairness); no service is obliged to answer.  Ingest: the
same of every batch, by the timeouts of its calls to Layer 1 and because a
semaphore serves its waiters in order; nobody is obliged to empty the queue, so
a batch blocked in it may stay there.  Layer 3: while the event loop is free,
the timer of `wait_for` fires and a handler whose request body arrived is
resumed (weak fairness of `LlmTimeout` and of the handlers' ends).  Nothing
obliges Ollama to answer or its client to return: no step that ends a wait for
it is fair, and `ReasoningConcludes` and `ApproverAnswered` except a loop that
is kept for good (`KeptForGood`).  Layer 4: threads are scheduled and
trainings end (weak fairness); an await that ended is resumed although other
handlers keep coming (the loop's queue is first in, first out), and a thread
gets a lock that is free again and again (strong fairness).  No fairness is
assumed of clients and operators.

## Proofs

`ResponseEngineProofs` proves, for all sets of requests, alerts, approvers,
sources, rankings, modifications and playbooks that satisfy the named assumptions:

* `TypeCorrect`: `Spec => []TypeOK`.
* `InductiveInvariant`: `Spec => []IInv`, and from it `NoParkedDecisionIsLost`,
  `ParkedDecisionsAreListed`, `ExecutedAtMostOnce`, `PolicyIsVerified`, `HistoryIsKept`.
* `OutcomesAreFinal`: no step changes an ended request.
* `Refinement`: `Spec => Gate!Spec`.

None of the properties is inductive alone.  `RunAtMostOnce` needs to know that
a request about to be executed has not been executed, which follows from its phase only
through `RunRecords` and `ParkedExactlyOnce` (the popped entry belongs to a
queued request).  `PolicyRunsAreVerified` speaks of the verdict's findings at
the time of execution, which `ApprovedVerdicts` carries across the LLM await.
`TrailIsComplete` needs the record written at the time of queueing
(`QueuedIsLogged`).  `KeeperWaits` says who may keep the loop: a request under
reasoning or generation, or an approver whose decision is still parked, so
that what it takes out is there when it resumes.  `IInv` is the conjunction; it is checked by TLC in
`response_engine` and proved with one step per action.  The refinement maps
"queued" to waiting, the runs by their initiator to the two executed sets, and
ended requests that never ran to closed; its steps use `IInv` for the request
that a resubmission or a restart closes as a side effect.

`OrchestratorProofs` proves, for all sets of pipelines, keys and URLs, every
list of URLs, repetitions included, and every positive threshold, `Spec =>
[]IInv` and from it `BreakersCountFailures`, `OneAlertPerWindow`,
`ServicesTakeWhatIsListed`, `HalfOpenCircuitsAreTested` and
`TwiceOnlyWhereListedTwice`: what takes an alert twice is in the list twice.  `BreakerCounts` is inductive with the
types.  `HalfOpenIsTested` is inductive on top of `IInv`: the call that turns a
circuit half-open is marked as its test (`TryTests`), and every end of a call,
a test or a late one, closes or opens its circuit, so that a circuit that is
still half-open after a step keeps its test.  `OncePerWindow` needs `WindowCounts`:
a key that is not remembered has not passed, so that `Pass` is the first.
`ServedAsListed` needs the place of a pipeline in the loop, `AskedUrl` (it
awaits one of the URLs) and `Unserved` (no service has its alert before the loop
begins), and counts the places passed: a URL left behind adds one for its
service.  The calls that end badly share one lemma,
`BadEndKeepsIInv`, and the steps away from Layer 3 another, `LeavingKeepsHands`.

`ImmunityProofs` proves `Spec => []IInv` for any threads, handlers and logs and
any size of the parse cache, and from it `PredictionsAreClean`,
`FlagNeverSticks` and `CountNeverExceeds`.  `LockIsHeld` ties scoring and
training to the lock, so that both cannot be; the mode is that of evaluation
whenever somebody scores because scoring sets it itself.  The flag is cleared
by the first thread to end although another one is active, so only "set implies
active" is invariant.  `CountIsKept` compares the counter with the trainings
that added to it through a witness set (`Counts`): a lost increment takes a
smaller set, and a read value stays below the counter's later values.

`IngestProofs` proves `Spec => []IInv` for all batches, logs, nodes, chunk sizes
and queue sizes, and from it `QueueLosesNothing`, `DedupPassesOnce` and
`AnswersAreComplete`.  `QueueAccounts` counts, so it needs to know that an entry
put into a queue was in none before: `ScoredOnce` says that entries stand for
scored positions and that the position whose turn it is has not been scored.
`AnswersAddUp` is not inductive; it follows from `AnswerOfBatch` (an answer
holds the counts of its batch) and `VerdictsPartition`, which
follows a chunk from being sent to its verdict: at every moment the three
verdicts divide the positions of the ended chunks, and an answered batch has no
chunk out.  A chunk's end leaves the others alone because a position has one
chunk (`ChunkOf`); the lemma `ToldKeeps` shows it once for the three ways a chunk
may end.

`ThreatMemoryProofs` proves `Spec => []IInv` for all requests, bodies, chains,
addresses, with and without the models, and from it `CountsNeverDrift`,
`ObservationsAreAccounted`, `ProfilesKeepTheHighest` and
`ChainsShowPredictions`.  `ObservationsAccounted` compares lengths with
cardinalities of requests, so each step moves one request from one set to
another; `OneEach` (a request has one prediction and, until the profile is
written, it is the last one) is what makes that a bijection.
`ChainShowsPrediction` speaks of chains at rest; `Stated` carries it through the
transactions in between.

`DetectionProofs` proves `Spec => []IInv` for all alerts, logs, addresses,
requests, index limits and scores, and from it `MetadataIsAligned`,
`EverybodyGetsOneAnswer` and `AnomaliesAreOffered`.  Alignment survives crashes
and restarts by `FilesAgree`: the two files on the disk agree except while a save
is between them, and then the first one is that of the index.  The two ways the
code does lose it, a crash in that gap and a bulk addition that replaces a flat
index, are the exceptions `Aligned` names.  `AnswersAgree` is
strengthened to `ToldIsCached`, since an answer is given only after its result
was written; `RawIsJudgedOnce` separates the identifiers of `/detect_raw`, whose
results nobody recalls, from those of `/detect`.

`SmartNormalizerProofs` proves `Spec => []IInv` for any logs, times, windows and
hash functions, and from it `NoRepeatInAWindow`, `SuppressionHasACause` and
`LateMeansBehind`.  `OncePerWindow` needs `FiltersRemember`: the bits of what
was let through are in the current filter, or in the previous one and were
added before the last rotation, or the last rotation came more than a window
later.  When the filters rotate, the bits leave the previous one only
because the rotation before was itself more than a window ago.  `LateIsBehind`
quantifies over all the times ever returned; `WatermarkFollows` reduces it to the
latest of them.

Operators, for every input of their types: of `Executor`
(`NothingRanUnlessTold`, `AllOrNone`, `OnlyTheBlockIsBlind`), of `PriorityScore`
(the triage score is monotonic in the hits of a source and its overrides are
critical), of `AttackStage` (Layer 2 says Benign only in full agreement, and its
second table is all but dead), of `Relevance` (the cleanup of its cache cannot
be seen, an uncertain detection silences its source, and for the anomalies of
`/ingest/batch` only the confidence decides) and of `SmartFormats` (unparsed
texts share one fingerprint; which formats lose a log).

Of `TokenBucket`, `StoresProofs` proves for every rate, capacity and clock: from any moment
on, the admitted pipelines cost no more than the capacity and the refill up to
the latest time the bucket has seen (`ClockCannotMintTokens`), by an invariant
that adds what was admitted to what is left; the debt that a clock set back
leaves (`BackwardClockLeavesDebt`); and that without one a token's time is
enough (`TimeIsEnough`).

It proves of `AuditFile`, for any number of records, days, failures
and crashes, that a day's file only grows (`FilesOnlyGrow`) and that records
lie in it in order, once, and in no earlier day (`RecordsAreFiledOnce`); the
strengthening is that the copy is of the file as it is, because one writer
works at a time, and that the record under way has the highest identifier.  Of
`IncidentMemory` it proves that a handler with a pool finds its tables and that
the log of an insert is true (`MemoryIsReadyWhenUsed`): statements passed are
carried out, and a call under way has a pool with the whole schema.

`TokenBucket`, `AuditFile`, `IncidentMemory`, `Executor`, `Playbook`,
`AttackStage` and `Relevance` are in no run: their theorems hold for every
value of the constants.

The proofs assume what the modules name: the sets of requests, chains or nodes
that are counted are finite, limits and windows are positive, the given tables
have their types.  Every safety invariant of a passing run is a theorem.  Only
model-checked: the liveness properties (the prover does not do fairness or
ENABLED); the four claims, which are refuted and not proved; and `LogNormalizer`
and `Playbook`, whose operators the instances and other models use.

## Findings

1. **The fast path executes actions nobody verified** (`EveryPolicyActionIsVerified`).
   `verify()` looks at the primary action; `execute()` dispatches up to three.
2. **Trading hours do not ask for a human** (`TradingHoursNeedHuman`).
   `predict()` sets `requires_approval=True` everywhere and `verify()` takes it
   for an approval, so constraint C1 always holds.
3. **Predictions wait for trainings** (`PredictionsNotBlocked`), and with them
   the whole event loop of Layer 4.
4. **Verdicts are not returned immediately** (`VerdictsReturned`): once the
   triage queue is full, which nobody empties, a batch with an alert of medium
   or high priority waits forever.

Seen while reading, without a run.

Layer 3:
* an operator's modified actions are overwritten by the playbook's
  (`main.py:694`), and an exception of the generator after a fast-path
  execution leaves no record (`main.py:502`);
* `Response_engine/README.md:186-187` says every action requires approval, which
  the fast path contradicts by design; `approve` "Pops from the queue safely",
  yet an exception in the generator loses the entry; `/pending` may list a
  resubmitted alert twice;
* `partial_success` is unreachable, one unsafe parameter stops every action, and
  an empty source address passes the pre-check if there is a destination;
* an LLM answer whose `executable_actions` is a text empties the action list; a
  number or a nested list fails the approval after the pop; whether Ollama is
  there is asked once, at startup, and the 30 s timeout around the generator is
  not kept, because leaving the executor waits for its thread;
* `query_by_alert_id` reads today's file only, its nested branch is dead, and a
  record dated before midnight may land in the next day's file; "power loss" is
  not covered, since nothing is flushed to the disk;
* `generate_llm_reasoning` "Never blocks indefinitely" (`llm_reasoning.py:79`),
  but with an Ollama that never answers its timeout is followed by a wait for
  the worker thread on the event loop (`Respond`, `LlmTimeout`, and nothing
  more but a crash);
* a failing statement of `init_pool` drops the pool without closing it; the
  tables of demonstrations have no callers.

Orchestrator and ingest:
* in HEAD no pipeline calls Layer 5; the half-open state lets every caller
  through although its comment allows one (`server.py:162`); the feedback task
  posts to `/feedback/attack` (`server.py:696`), which Layer 1 lacks;
* a timed-out alert may come to one Layer 3 service twice, because with
  `start_immunex.sh` the list begins and ends with `http://localhost:8003`;
* when the publication to Redis fails after Layer 3 acted, the answer is HTTP
  500, and the client's retry is a duplicate for 60 s;
* an answer of `/ingest/batch` counts alerts lost with a node nowhere: its
  `errors` stays empty, and their repeats are duplicates; a batch of duplicates
  only is answered with `sent_to_l1=0` and `benign=normalized`
  (`ingest_api.py:366-376`);
* `_node_device` is never defined, so the health loop marks every node dead;
* the weights in the docstring of the priority engine (.35, .25, .20, .15, .05)
  are not the code's (.30, .20, .20, .20, .10), and the prefix "10.0.1" of the
  critical networks also matches 10.0.12.0/24.

Layers 1, 2 and 5:
* `/detect/batch` answers 500 (a `NameError`) for every alert without a cached result;
  `server.py:427-429` says an alert without features is handled, and
  `serialize_features(None)` answers 500;
* the alert built by `/ingest` puts a number in a text field, so `/ingest`
  always answers 400 and `/ingest/batch` an error for every alert; the relevance
  analyzer behind it is never reached, and is built anew for every request;
* an empty similarity index logs that it is skipped, but its distance of 999
  makes every alert anomalous; a bulk addition replaces a flat index;
* the stage severities of Layer 2 lack Impact and Exploitation; a disagreement
  between the models of Layer 5 (stages 3 and 4) lowers the risk to MEDIUM.

Normalizers:
* a JSON list keeps its first element in one normalizer and ends the whole
  batch in the other; a severity of null becomes 0.1, a syslog priority or a
  number in a text above 10 becomes 0.5, and a number above 10 exceeds 1;
* in the other one a severity of 7 is Critical, 8 High and 1.0 Info; a repeat
  of an event without a time is a duplicate as long as its bucket lasts;
* a Snort line that begins with "[**]" is taken for JSON and dropped; a PAN-OS
  line is dropped when quoted commas leave it fewer than ten fields.

## Not modelled

* Training and dataset programs, the mutation, consolidation and blind-spot
  scripts of Layer 4: offline, numeric, one thread.
* The numeric models of Layers 1, 2, 3 and 5: their answers are chosen from the
  sets the code lets them take.
* Layer 2's `integration_pipeline.py`: its `listen()` is commented out.
* `/ingest/stream` (the same code per chunk of lines), the statistics
  endpoints, health checks and metrics; the playbook endpoint and the embeddings
  of Layer 1; the log templatizer and the request schemas.
* The composition of the orchestrator with one `ApprovalGate` per Layer 3
  service: `ServedAsListed` bounds what each service gets, and a timed-out call
  may still reach several of them, or one of them again.
* The 504 of Layer 3's 60 s middleware, which abandons the handler's answer.
* PostgreSQL, Redis, Kafka, SQLite and FAISS are external: modelled by what
  their callers can observe.
* Several worker processes of one service: the code starts each with one.
* Transport security and the dashboard.
