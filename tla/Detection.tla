------------------------------- MODULE Detection -------------------------------
(***************************************************************************)
(* The Layer 1 server (layer1_detection/server.py): /detect, /detect_raw,  *)
(* /detect/batch, /ingest and /ingest/batch over one Redis, one Kafka      *)
(* topic and the similarity index, which only a building script changes.   *)
(*                                                                         *)
(* Only the call to the language model is an await; every other handler    *)
(* runs from its first to its last call without one.  Each call to Redis   *)
(* may raise, which answers HTTP 500 and keeps what was written before; a  *)
(* message to Kafka may be dropped, which the handler does not notice.     *)
(* Probabilities and scores are in hundredths.  Of what Redis keeps, the   *)
(* embeddings and the counts of alerts are left out: nothing reads them.   *)
(***************************************************************************)
EXTENDS FaissIndex

CONSTANTS Alerts,      \* bodies for /detect: id, source, features, prob, outlier, far
          RawRequests, \* requests to /detect_raw; the uuid of one is the request
          Raw,         \* their logs
          Logs,        \* a log: how fast_precheck takes it, source, severity, prob, far
          Severities,  \* what the language model may say of a log
          Sources,
          Events,      \* raw events: the type of their source, and the address they name
          ParseMax,    \* _LLM_CACHE_MAX
          MaxCalls     \* bound: calls to /detect

Ids == {a.id : a \in Alerts} \cup RawRequests
Names == DOMAIN Logs

ASSUME AlertsAssumption ==
  \A a \in Alerts : /\ a.source \in Sources /\ {a.outlier, a.far} \subseteq BOOLEAN
                    /\ a.prob \in 0..100 /\ a.features \in {"full", "short", "none"}
                    /\ a.id \notin RawRequests
ASSUME LogsAssumption ==
  /\ Raw \in [RawRequests -> Names]
  /\ \A n \in Names :
       /\ Logs[n].source \in Sources /\ Logs[n].prob \in 0..100 /\ Logs[n].far \in BOOLEAN
       /\ Logs[n].severity \in Int
       /\ Logs[n].precheck \in {"parses", "raises", "passes on"}
\* Nothing keeps the severity that a log or the language model names in 0..100.
ASSUME SeveritiesAssumption == Severities \subseteq Int
ASSUME EventsAssumption ==
  Events \subseteq [type : {"siem", "edr", "network", "auth", "firewall", "threat_feed"},
                    source : Sources]
ASSUME BoundsAssumption == ParseMax \in Nat \ {0} /\ MaxCalls \in Nat

VARIABLES
  cache,      \* anomaly:<id>
  iocs,       \* the addresses with ioc:<ip>
  parsed,     \* _llm_parse_cache, oldest first: what a log was parsed to
  raw,        \* where a request to /detect_raw is
  offered,    \* history: how often an id went to Kafka since Redis forgot it
  unfinished, \* history: how many judgments of it ended before they were cached
  told,       \* history: the results answered for it since Redis forgot it
  calls

historyVars == <<offered, unfinished, told>>
serverVars == <<cache, iocs, parsed, raw, historyVars, calls>>
vars == <<indexVars, serverVars>>

Phases == {"new", "asking", "asking_uncached", "answered", "failed"}
NoResult == [kind |-> "none", anomalous |-> FALSE, score |-> 0, novel |-> FALSE]

Init ==
  /\ IndexInit
  /\ cache = [id \in Ids |-> NoResult]
  /\ iocs = {}
  /\ parsed = <<>>
  /\ raw = [r \in RawRequests |-> "new"]
  /\ offered = [id \in Ids |-> 0]
  /\ unfinished = [id \in Ids |-> 0]
  /\ told = [id \in Ids |-> {}]
  /\ calls = 0
-----------------------------------------------------------------------------
Highest(scores) == CHOOSE s \in scores : \A t \in scores : t <= s
Boosted(prob, boost) == IF prob + boost > 100 THEN 100 ELSE prob + boost
\* np.clip: nothing keeps the severity of a log in 0..100.
Clipped(score) == IF score < 0 THEN 0 ELSE IF score > 100 THEN 100 ELSE score

\* Decision fusion of /detect, with the boost of a known address.
Fused(a, known) ==
  LET prob == IF known THEN Boosted(a.prob, 20) ELSE a.prob
      far == FaissAnomalous(a.far)
      score == Highest({prob} \cup (IF a.outlier THEN {80} ELSE {}) \cup (IF far THEN {70} ELSE {}))
  IN [kind      |-> "full",
      anomalous |-> prob > 50 \/ a.outlier \/ far,
      score     |-> score,
      novel     |-> prob < 15 /\ score > 60]

\* Decision fusion of /detect_raw; what it caches is not an AnomalyResult.
FusedRaw(log, severity, byModel, known) ==
  LET once == IF known THEN Boosted(log.prob, 20) ELSE log.prob
      prob == IF byModel /\ severity > 70 THEN Boosted(once, 15) ELSE once
      far == FaissAnomalous(log.far)
  IN [kind      |-> "partial",
      anomalous |-> prob > 50 \/ far,
      score     |-> Clipped(Highest({prob, (severity * 6) \div 10}
                                     \cup (IF far THEN {70} ELSE {}))),
      novel     |-> FALSE]

\* A call to /detect arrives.
Called ==
  /\ role = "server"
  /\ calls < MaxCalls
  /\ calls' = calls + 1
  /\ UNCHANGED <<indexVars, iocs, parsed, raw>>

Cached(a) == cache[a.id] # NoResult

\* HTTP 500 before anything is written: Redis raises, the cached result lacks
\* fields, or the alert has no features, which serialize_features cannot take.
Refuse(a) ==
  /\ Called
  /\ UNCHANGED <<cache, historyVars>>

\* detect: the cached result, whatever the body.
Recall(a) ==
  /\ Called
  /\ cache[a.id].kind = "full"
  /\ told' = [told EXCEPT ![a.id] = @ \cup {cache[a.id]}]
  /\ UNCHANGED <<cache, offered, unfinished>>

\* Seeded fault: the result is cached before it is sent.
JudgeCachesFirst(a, writes) ==
  LET result == Fused(a, a.source \in iocs)
  IN
  /\ Called
  /\ ~Cached(a) /\ a.features # "none"
  /\ cache' = IF writes >= 1 THEN [cache EXCEPT ![a.id] = result] ELSE cache
  /\ offered' = IF result.anomalous /\ writes >= 2 THEN [offered EXCEPT ![a.id] = @ + 1] ELSE offered
  /\ unfinished' = IF writes = 0 THEN [unfinished EXCEPT ![a.id] = @ + 1] ELSE unfinished
  /\ told' = IF writes = 2 THEN [told EXCEPT ![a.id] = @ \cup {result}] ELSE told
\* Seeded fault: a result is computed although one is cached.
JudgeAgain(a, writes) ==
  LET result == Fused(a, a.source \in iocs)
  IN
  /\ Called
  /\ a.features # "none"
  /\ offered' = IF result.anomalous THEN [offered EXCEPT ![a.id] = @ + 1] ELSE offered
  /\ cache' = IF writes >= 1 THEN [cache EXCEPT ![a.id] = result] ELSE cache
  /\ unfinished' = IF writes = 0 THEN [unfinished EXCEPT ![a.id] = @ + 1] ELSE unfinished
  /\ told' = IF writes = 2 THEN [told EXCEPT ![a.id] = @ \cup {result}] ELSE told
\* detect: an anomaly goes to Kafka first; then Redis takes the result, and
\* then what nothing reads, as far as it does not raise.
Judge(a, writes) ==
  LET result == Fused(a, a.source \in iocs)
  IN
  /\ Called
  /\ ~Cached(a) /\ a.features # "none"
  /\ offered' = IF result.anomalous THEN [offered EXCEPT ![a.id] = @ + 1] ELSE offered
  /\ cache' = IF writes >= 1 THEN [cache EXCEPT ![a.id] = result] ELSE cache
  /\ unfinished' = IF writes = 0 THEN [unfinished EXCEPT ![a.id] = @ + 1] ELSE unfinished
  /\ told' = IF writes = 2 THEN [told EXCEPT ![a.id] = @ \cup {result}] ELSE told

Detect(a) == Refuse(a) \/ Recall(a) \/ \E writes \in 0..2 : Judge(a, writes)

\* /detect/batch answers when every alert is cached; any other one runs into
\* functions nobody defines, before anything is written.
DetectBatch(ids) ==
  /\ Called
  /\ \A id \in ids : cache[id].kind = "full"
  /\ told' = [id \in Ids |-> told[id] \cup (IF id \in ids THEN {cache[id]} ELSE {})]
  /\ UNCHANGED <<cache, offered, unfinished>>
-----------------------------------------------------------------------------
ParsesOf(name) == {e \in ToSet(parsed) : e.log = name}
Entry(name, severity, byModel) == [log |-> name, severity |-> severity, byModel |-> byModel]

\* Seeded fault: the cache evicts when it is over its limit.
StoredLate(entry) ==
  LET room == IF Len(parsed) > ParseMax THEN Tail(parsed) ELSE parsed
  IN IF \A i \in DOMAIN room : room[i].log # entry.log THEN Append(room, entry)
     ELSE [i \in DOMAIN room |-> IF room[i].log = entry.log THEN entry ELSE room[i]]
\* The parse cache with an entry: a full one forgets its oldest first, even
\* when the log is there already and its value replaced.
Stored(entry) ==
  LET room == IF Len(parsed) >= ParseMax THEN Tail(parsed) ELSE parsed
  IN IF \A i \in DOMAIN room : room[i].log # entry.log THEN Append(room, entry)
     ELSE [i \in DOMAIN room |-> IF room[i].log = entry.log THEN entry ELSE room[i]]

\* detect_raw after its parse: the partial result is cached, then the
\* embedding, and only then an anomaly goes to Kafka.
FinishRaw(r, entry, writes) ==
  LET log == Logs[Raw[r]]
      result == FusedRaw(log, entry.severity, entry.byModel, log.source \in iocs)
  IN
  /\ cache' = IF writes >= 1 THEN [cache EXCEPT ![r] = result] ELSE cache
  /\ offered' = IF writes = 2 /\ result.anomalous THEN [offered EXCEPT ![r] = @ + 1] ELSE offered
  /\ raw' = [raw EXCEPT ![r] = IF writes = 2 THEN "answered" ELSE "failed"]
  /\ UNCHANGED <<indexVars, iocs, unfinished, told, calls>>

\* parse_log_dynamic finds the log in its cache.
RawHit(r, writes) ==
  /\ role = "server" /\ raw[r] = "new"
  /\ \E entry \in ParsesOf(Raw[r]) : FinishRaw(r, entry, writes)
  /\ UNCHANGED parsed

\* The cache does not know the log, or the request says not to use it.
Missed(r, useCache) == useCache => ParsesOf(Raw[r]) = {}

\* fast_precheck parses it.
RawPrecheck(r, useCache, writes) ==
  LET log == Logs[Raw[r]]
      entry == Entry(Raw[r], log.severity, FALSE)
  IN
  /\ role = "server" /\ raw[r] = "new"
  /\ Missed(r, useCache) /\ log.precheck = "parses"
  /\ parsed' = IF useCache THEN Stored(entry) ELSE parsed
  /\ FinishRaw(r, entry, writes)

\* The language model is asked.
RawAsk(r, useCache) ==
  /\ role = "server" /\ raw[r] = "new"
  /\ Missed(r, useCache) /\ Logs[Raw[r]].precheck = "passes on"
  /\ raw' = [raw EXCEPT ![r] = IF useCache THEN "asking" ELSE "asking_uncached"]
  /\ UNCHANGED <<indexVars, cache, iocs, parsed, historyVars, calls>>

\* It answers, which may be after another request stored the same log.
RawParsed(r, severity, writes) ==
  /\ raw[r] \in {"asking", "asking_uncached"}
  /\ parsed' = IF raw[r] = "asking" THEN Stored(Entry(Raw[r], severity, TRUE)) ELSE parsed
  /\ FinishRaw(r, Entry(Raw[r], severity, TRUE), writes)

\* A timeout, an answer without JSON, or a value fast_precheck cannot convert.
RawFails(r) ==
  /\ \/ raw[r] \in {"asking", "asking_uncached"}
     \/ role = "server" /\ raw[r] = "new" /\ Logs[Raw[r]].precheck = "raises"
  /\ raw' = [raw EXCEPT ![r] = "failed"]
  /\ UNCHANGED <<indexVars, cache, iocs, parsed, historyVars, calls>>

RawNext(r) ==
  \/ \E writes \in 0..2 : \/ RawHit(r, writes)
                          \/ \E useCache \in BOOLEAN : RawPrecheck(r, useCache, writes)
                          \/ \E severity \in Severities : RawParsed(r, severity, writes)
  \/ (\E useCache \in BOOLEAN : RawAsk(r, useCache)) \/ RawFails(r)
-----------------------------------------------------------------------------
\* EventNormalizer.normalize: an indicator is stored before the alert is built,
\* which fails for every type of event, because its severity is a number.
Indicators(events) == {e.source : e \in {x \in events : x.type = "threat_feed"}}

\* /ingest, which answers HTTP 400.
Ingest(event) ==
  /\ role = "server"
  /\ iocs' = iocs \cup Indicators({event})
  /\ UNCHANGED <<indexVars, cache, parsed, raw, historyVars, calls>>

\* /ingest/batch: as nothing is normalized, each alert is built from its own
\* fields, whose severity is a number too, and ends as an error among the
\* results; neither the models nor the relevance check are asked.
IngestBatch(events) ==
  /\ role = "server"
  /\ iocs' = iocs \cup Indicators(events)
  /\ UNCHANGED <<indexVars, cache, parsed, raw, historyVars, calls>>

\* A result of /detect expires in Redis; the others are never asked for again.
Forget(id) ==
  /\ cache[id] # NoResult
  /\ cache' = [cache EXCEPT ![id] = NoResult]
  /\ offered' = [offered EXCEPT ![id] = 0]
  /\ unfinished' = [unfinished EXCEPT ![id] = 0]
  /\ told' = [told EXCEPT ![id] = {}]
  /\ UNCHANGED <<indexVars, iocs, parsed, raw, calls>>

\* A known address expires.
ForgetSource(source) ==
  /\ source \in iocs
  /\ iocs' = iocs \ {source}
  /\ UNCHANGED <<indexVars, cache, parsed, raw, historyVars, calls>>

\* The server or the script ends, or crashes.
Stop ==
  /\ Close
  /\ parsed' = <<>>
  /\ raw' = [r \in RawRequests |-> IF raw[r] \in {"asking", "asking_uncached"}
                                     THEN "failed" ELSE raw[r]]
  /\ UNCHANGED <<cache, iocs, historyVars, calls>>

Next ==
  \/ (BuilderNext \/ Open("server")) /\ UNCHANGED serverVars
  \/ Stop
  \/ \E a \in Alerts : Detect(a)
  \/ \E ids \in SUBSET {a.id : a \in Alerts} : DetectBatch(ids)
  \/ \E r \in RawRequests : RawNext(r)
  \/ \E e \in Events : Ingest(e)
  \/ \E events \in SUBSET Events : IngestBatch(events)
  \/ \E a \in Alerts : Forget(a.id)
  \/ \E source \in Sources : ForgetSource(source)

Spec == Init /\ [][Next]_vars
-----------------------------------------------------------------------------
Results == [kind : {"none", "full", "partial"}, anomalous : BOOLEAN,
            score : 0..100, novel : BOOLEAN]
Parses == [log : Names, severity : Int, byModel : BOOLEAN]

\* Every variable keeps its type, every score its scale, and the parse cache,
\* which holds a log once, its limit (parse_log_dynamic), however late the
\* language model answers.
TypeOK ==
  /\ IndexTypeOK
  /\ cache \in [Ids -> Results]
  /\ iocs \subseteq Sources
  /\ raw \in [RawRequests -> Phases]
  /\ offered \in [Ids -> Nat] /\ unfinished \in [Ids -> Nat]
  /\ told \in [Ids -> SUBSET Results]
  /\ parsed \in Seq(Parses) /\ Len(parsed) <= ParseMax
  /\ \A i, j \in DOMAIN parsed : parsed[i].log = parsed[j].log => i = j

\* Until Redis forgets an alert, everybody who asks for it gets the same
\* result, although the list of known addresses, the index and the body of the
\* request may change in between (detect, get_anomaly, cache_anomaly).
AnswersAgree == \A id \in Ids : told[id] \subseteq {cache[id]}

\* An anomaly whose result of /detect is cached, and so never judged again, went
\* to Kafka before; an alert goes there at most once, and once more for every
\* judgment that ended before its result was cached (detect under repeated
\* calls: the send, then cache_anomaly).
OfferedOnce ==
  \A id \in Ids :
    /\ cache[id].kind = "full" /\ cache[id].anomalous => offered[id] >= 1
    /\ offered[id] <= unfinished[id] + (IF cache[id] = NoResult THEN 0 ELSE 1)
-----------------------------------------------------------------------------
\* What was answered for an alert is in the cache.
ToldIsCached == \A id \in Ids : told[id] \subseteq {cache[id]} \ {NoResult}

\* A request to /detect_raw is judged once.  Its result is never recalled.
RawIsJudgedOnce ==
  \A r \in RawRequests :
    /\ cache[r].kind # "full" /\ told[r] = {}
    /\ offered[r] <= (IF raw[r] = "answered" THEN 1 ELSE 0)
    /\ raw[r] = "answered" => cache[r] # NoResult

\* The invariant by induction: the types, the files (IndexInv), what the cache
\* of a result says of the answers, and of the messages to Kafka.
IInv == TypeOK /\ IndexInv /\ ToldIsCached /\ RawIsJudgedOnce /\ OfferedOnce
=============================================================================
