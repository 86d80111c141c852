----------------------------- MODULE IngestProofs -----------------------------
(***************************************************************************)
(* Theorems about bulk ingest: first the priority of an alert              *)
(* (PriorityScore) for all inputs, then the batches, the dedup and the     *)
(* triage queue (Ingest) for all sets of batches, logs and nodes.          *)
(***************************************************************************)
EXTENDS Ingest, FiniteSetTheorems, TLAPS

(***************************************************************************)
(* compute_priority_score (shared/priority_engine.py).                     *)
(***************************************************************************)
\* What the function is called with: a score of Layer 1 between 0 and 1, a
\* severity, the octets of an address, a name of an attack.
Severities == [float : BOOLEAN, value : Int]
Alerts == [anomaly : 0..100, severity : Severities, dest : [1..3 -> 0..255],
           attack : STRING, ioc : BOOLEAN]

LEMMA ChainScoreGrows ==
  ASSUME NEW m \in Nat, NEW n \in Nat, m <= n
  PROVE  ChainScore(m) \in 0..100 /\ ChainScore(n) \in 0..100 /\ ChainScore(m) <= ChainScore(n)
BY DEF ChainScore

LEMMA SeverityInRange ==
  ASSUME NEW s \in Severities PROVE SeverityScore(s) \in 0..100
<1>1. s.value \in Int  BY DEF Severities
<1>2. SeverityWord(s.value) \in {10, 25, 50, 75, 100}  BY DEF SeverityWord
<1> QED BY <1>1, <1>2 DEF SeverityScore

LEMMA AssetInRange ==
  ASSUME NEW dest \in [1..3 -> 0..255] PROVE AssetCriticality(dest) \in 40..100
<1> DEFINE digit == FirstDigit(dest[3])
<1>1. digit \in 1..4 => TenScore[digit] \in 40..100  BY DEF TenScore
<1> HIDE DEF digit
<1> QED BY <1>1 DEF AssetCriticality, digit

LEMMA WeightsInRange == \A t \in DOMAIN MitreWeights : MitreWeights[t] \in 35..100
BY DEF MitreWeights

LEMMA MitreInRange == \A t : MitreScore(t) \in 35..100
<1>1. "unknown" \in DOMAIN MitreWeights  BY DEF MitreWeights
<1> QED BY <1>1, WeightsInRange DEF MitreScore

\* The components of a score, and how two scores of an alert may differ.
Scores == [anomaly : 0..100, severity : 0..100, asset : 0..100, chain : 0..100,
           mitre : 0..100, ioc : BOOLEAN]
NoHigher(c, d) ==
  /\ c.anomaly = d.anomaly /\ c.severity = d.severity /\ c.asset = d.asset
  /\ c.mitre = d.mitre /\ c.ioc = d.ioc /\ c.chain <= d.chain

LEMMA ComponentsType ==
  ASSUME NEW alert \in Alerts, NEW n \in Nat PROVE Components(alert, n) \in Scores
<1>1. alert.severity \in Severities /\ alert.dest \in [1..3 -> 0..255]  BY DEF Alerts
<1>2. SeverityScore(alert.severity) \in 0..100  BY <1>1, SeverityInRange
<1>3. AssetCriticality(alert.dest) \in 0..100  BY <1>1, AssetInRange
<1>4. ChainScore(n) \in 0..100  BY ChainScoreGrows
<1>5. MitreScore(alert.attack) \in 0..100  BY MitreInRange
<1>6. alert.anomaly \in 0..100 /\ alert.ioc \in BOOLEAN  BY DEF Alerts
<1> QED BY <1>2, <1>3, <1>4, <1>5, <1>6 DEF Components, Scores

LEMMA WeightedRange ==
  ASSUME NEW c \in Scores PROVE Weighted(c) \in Nat /\ Weighted(c) <= 10000
<1> DEFINE a == c.anomaly
           b == c.severity
           e == c.asset
           f == c.chain
           g == c.mitre
<1>1. a \in 0..100 /\ b \in 0..100 /\ e \in 0..100 /\ f \in 0..100 /\ g \in 0..100
  BY DEF Scores
<1>2. Weighted(c) = 30 * a + 20 * b + 20 * e + 20 * f + 10 * g  BY DEF Weighted
<1> HIDE DEF a, b, e, f, g
<1>3. 30 * a + 20 * b + 20 * e + 20 * f + 10 * g \in Nat  BY <1>1
<1>4. 30 * a + 20 * b + 20 * e + 20 * f + 10 * g <= 10000  BY <1>1
<1> QED BY <1>2, <1>3, <1>4

\* The score before the overrides, and what they make of it.
Doubled(ioc, n) == IF ioc THEN 2 * n ELSE n
Uncapped(c) == Doubled(c.ioc, Weighted(c))
Floored(score) == IF score < 9000 THEN 9000 ELSE score

LEMMA FinalIsFloored ==
  ASSUME NEW c
  PROVE  /\ CriticalOverride(c) => FinalScore(c) = Floored(Capped(Uncapped(c)))
         /\ ~CriticalOverride(c) => FinalScore(c) = Capped(Uncapped(c))
BY DEF FinalScore, Floored, Uncapped, Doubled

LEMMA CappedRange ==
  \A n \in Nat : /\ Capped(n) \in Nat /\ Capped(n) <= 10000
                 /\ Capped(n) >= 8500 => n >= 8500
BY DEF Capped

LEMMA CappedGrows == \A m, n \in Nat : m <= n => Capped(m) <= Capped(n)
BY DEF Capped

LEMMA FlooredRange ==
  \A n \in Nat : /\ Floored(n) \in Nat /\ Floored(n) >= 8500 /\ Floored(n) >= n
                 /\ \A m \in Nat : m <= n => Floored(m) <= Floored(n)
BY DEF Floored

LEMMA UncappedRange ==
  ASSUME NEW c \in Scores
  PROVE  /\ Uncapped(c) \in Nat
         /\ c.ioc => Uncapped(c) = 2 * Weighted(c)
         /\ ~c.ioc => Uncapped(c) = Weighted(c)
<1> DEFINE w == Weighted(c)
<1>1. w \in Nat  BY WeightedRange
<1> HIDE DEF w
<1>2. w \in Nat /\ 2 * w \in Nat  BY <1>1
<1>3. CASE c.ioc
  <2>1. Uncapped(c) = 2 * w  BY <1>3 DEF Uncapped, Doubled, w
  <2> QED BY <1>2, <1>3, <2>1 DEF w
<1>4. CASE ~c.ioc
  <2>1. Uncapped(c) = w  BY <1>4 DEF Uncapped, Doubled, w
  <2> QED BY <1>2, <1>4, <2>1 DEF w
<1> QED BY <1>3, <1>4

LEMMA FinalInRange ==
  ASSUME NEW c \in Scores
  PROVE  FinalScore(c) \in Nat /\ (CriticalOverride(c) => FinalScore(c) >= 8500)
<1>1. Uncapped(c) \in Nat  BY UncappedRange
<1>2. Capped(Uncapped(c)) \in Nat  BY <1>1, CappedRange
<1>3. Floored(Capped(Uncapped(c))) \in Nat /\ Floored(Capped(Uncapped(c))) >= 8500
  BY <1>2, FlooredRange
<1> QED BY <1>2, <1>3, FinalIsFloored

(***************************************************************************)
(* An override is a floor within CRITICAL, and there is no other way above *)
(* its threshold than the score (compute_priority_score, "Hard overrides - *)
(* certain combinations are always CRITICAL").                             *)
(***************************************************************************)
THEOREM OverridesAreCritical ==
  ASSUME NEW c \in Scores
  PROVE  /\ CriticalOverride(c) => TierOf(FinalScore(c)) = 0
         /\ TierOf(FinalScore(c)) = 0 =>
              CriticalOverride(c) \/ Weighted(c) >= 8500 \/ (c.ioc /\ 2 * Weighted(c) >= 8500)
<1>1. \A n \in Nat : TierOf(n) = 0 <=> n >= 8500  BY DEF TierOf
<1>2. FinalScore(c) \in Nat /\ (CriticalOverride(c) => FinalScore(c) >= 8500)
  BY FinalInRange
<1>3. TierOf(FinalScore(c)) = 0 <=> FinalScore(c) >= 8500  BY <1>1, <1>2
<1>4. Uncapped(c) \in Nat  BY UncappedRange
<1>5. Capped(Uncapped(c)) >= 8500 => Uncapped(c) >= 8500  BY <1>4, CappedRange
<1>6. ~CriticalOverride(c) /\ FinalScore(c) >= 8500 => Uncapped(c) >= 8500
  BY <1>5, FinalIsFloored
<1>7. Uncapped(c) >= 8500 => Weighted(c) >= 8500 \/ (c.ioc /\ 2 * Weighted(c) >= 8500)
  BY UncappedRange
<1> QED BY <1>2, <1>3, <1>6, <1>7

LEMMA OverridesGrow ==
  ASSUME NEW c \in Scores, NEW d \in Scores, NoHigher(c, d)
  PROVE  CriticalOverride(c) => CriticalOverride(d)
BY DEF Scores, NoHigher, CriticalOverride

LEMMA WeightedGrows ==
  ASSUME NEW c \in Scores, NEW d \in Scores, NoHigher(c, d)
  PROVE  Weighted(c) <= Weighted(d)
<1> DEFINE a == c.anomaly
           b == c.severity
           e == c.asset
           f == c.chain
           g == c.mitre
           h == d.chain
<1>1. a \in Int /\ b \in Int /\ e \in Int /\ f \in Int /\ g \in Int /\ h \in Int
  BY DEF Scores
<1>2. f <= h  BY DEF NoHigher
<1>3. Weighted(c) = 30 * a + 20 * b + 20 * e + 20 * f + 10 * g  BY DEF Weighted
<1>4. Weighted(d) = 30 * a + 20 * b + 20 * e + 20 * h + 10 * g  BY DEF Weighted, NoHigher
<1> HIDE DEF a, b, e, f, g, h
<1>5. 30 * a + 20 * b + 20 * e + 20 * f + 10 * g <= 30 * a + 20 * b + 20 * e + 20 * h + 10 * g
  BY <1>1, <1>2
<1> QED BY <1>3, <1>4, <1>5

LEMMA DoubledGrows ==
  ASSUME NEW ioc, NEW m \in Int, NEW n \in Int, m <= n
  PROVE  Doubled(ioc, m) <= Doubled(ioc, n)
<1>1. CASE ioc
  <2>1. Doubled(ioc, m) = 2 * m /\ Doubled(ioc, n) = 2 * n  BY <1>1 DEF Doubled
  <2>2. 2 * m <= 2 * n  OBVIOUS
  <2> QED BY <2>1, <2>2
<1>2. CASE ~ioc
  <2>1. Doubled(ioc, m) = m /\ Doubled(ioc, n) = n  BY <1>2 DEF Doubled
  <2> QED BY <2>1
<1> QED BY <1>1, <1>2

LEMMA UncappedGrows ==
  ASSUME NEW c \in Scores, NEW d \in Scores, NoHigher(c, d)
  PROVE  Uncapped(c) <= Uncapped(d)
<1>1. Weighted(c) \in Int /\ Weighted(d) \in Int
  <2>1. \A n \in Nat : n \in Int  OBVIOUS
  <2> QED BY <2>1, WeightedRange
<1>2. Weighted(c) <= Weighted(d)  BY WeightedGrows
<1>3. c.ioc = d.ioc  BY DEF NoHigher
<1>4. Doubled(c.ioc, Weighted(c)) <= Doubled(c.ioc, Weighted(d))
  BY <1>1, <1>2, DoubledGrows
<1> QED BY <1>3, <1>4 DEF Uncapped

LEMMA FinalScoreGrows ==
  ASSUME NEW c \in Scores, NEW d \in Scores, NoHigher(c, d)
  PROVE  FinalScore(c) <= FinalScore(d)
<1> DEFINE m == Capped(Uncapped(c))
           n == Capped(Uncapped(d))
<1>1. Uncapped(c) \in Nat /\ Uncapped(d) \in Nat  BY UncappedRange
<1>2. m \in Nat /\ n \in Nat  BY <1>1, CappedRange
<1>3. m <= n  BY <1>1, UncappedGrows, CappedGrows
<1>4. CriticalOverride(c) => CriticalOverride(d)  BY OverridesGrow
<1>5. Floored(m) <= Floored(n) /\ m <= Floored(n)
  <2> HIDE DEF m, n
  <2>1. Floored(m) <= Floored(n) /\ n <= Floored(n) /\ Floored(n) \in Nat
    BY <1>2, <1>3, FlooredRange
  <2> QED BY <1>2, <1>3, <2>1
<1> QED BY <1>3, <1>4, <1>5, FinalIsFloored

(***************************************************************************)
(* More hits of a source never lower the tier of its alert, so counting    *)
(* the hits before the dedup, and the ones of concurrent batches, can only *)
(* raise it (record_pre_dedup, record_and_score, compute_priority_score).  *)
(***************************************************************************)
THEOREM MoreHitsNeverLowerTier ==
  ASSUME NEW alert \in Alerts, NEW m \in Nat, NEW n \in Nat, m <= n
  PROVE  Tier(alert, n) <= Tier(alert, m)
<1> DEFINE c == Components(alert, m)
           d == Components(alert, n)
<1>1. c \in Scores /\ d \in Scores  BY ComponentsType
<1>2. NoHigher(c, d)  BY ChainScoreGrows DEF NoHigher, Components
<1> HIDE DEF c, d
<1>3. FinalScore(c) <= FinalScore(d)  BY <1>1, <1>2, FinalScoreGrows
<1>4. FinalScore(c) \in Nat /\ FinalScore(d) \in Nat  BY <1>1, FinalInRange
<1>5. \A u, v \in Nat : u <= v => TierOf(v) <= TierOf(u)  BY DEF TierOf
<1>6. TierOf(FinalScore(d)) <= TierOf(FinalScore(c))  BY <1>3, <1>4, <1>5
<1> QED BY <1>6 DEF Tier, c, d
-----------------------------------------------------------------------------
(***************************************************************************)
(* Bulk ingest.                                                            *)
(***************************************************************************)
LEMMA TierType == ASSUME NEW log, NEW n PROVE Tier(log, n) \in 0..3
BY DEF Tier, TierOf

\* What a handler can read of its request.
LEMMA BodyTypes ==
  ASSUME TypeOK, NEW b \in Batches
  PROVE  /\ \A p \in Readable(body[b].logs) : p \in Nat /\ body[b].logs[p] \in Logs
         /\ IsFiniteSet(Readable(body[b].logs))
<1>1. body[b].logs \in Seq(Logs \cup {Unreadable})
  <2>1. CASE body[b] \in Submissions
    BY <2>1, SubmissionsAssumption
  <2>2. CASE body[b] = NoBody
    <3>1. body[b].logs = <<>>
      BY <2>2 DEF NoBody
    <3> QED
      BY <3>1
  <2>3. body[b] \in Submissions \cup {NoBody}
    BY DEF TypeOK
  <2> QED
    BY <2>1, <2>2, <2>3
<1>2. Readable(body[b].logs) \subseteq 1..Len(body[b].logs) /\ Len(body[b].logs) \in Nat
  BY <1>1 DEF Readable
<1>3. IsFiniteSet(1..Len(body[b].logs))
  BY <1>2, FS_Interval
<1>4. \A p \in Readable(body[b].logs) : p \in Nat /\ body[b].logs[p] \in Logs
  BY <1>1 DEF Readable
<1> QED
  BY <1>2, <1>3, <1>4, FS_Subset

LEMMA ReadableTypes ==
  ASSUME NEW sub \in Submissions
  PROVE  /\ \A p \in Readable(sub.logs) :
              p \in Nat /\ sub.logs[p] \in Logs /\ KeyAt(sub.logs, p) \in Keys
         /\ IsFiniteSet(Readable(sub.logs))
<1>1. sub.logs \in Seq(Logs \cup {Unreadable})
  BY SubmissionsAssumption
<1>2. Readable(sub.logs) \subseteq 1..Len(sub.logs) /\ Len(sub.logs) \in Nat
  BY <1>1 DEF Readable
<1>3. IsFiniteSet(1..Len(sub.logs))
  BY <1>2, FS_Interval
<1>4. \A p \in Readable(sub.logs) : p \in Nat /\ sub.logs[p] \in Logs
  BY <1>1 DEF Readable
<1>5. \A l \in Logs : l.key \in Keys
  BY LogsAssumption
<1> QED
  BY <1>2, <1>3, <1>4, <1>5, FS_Subset DEF KeyAt

LEMMA CountedType ==
  ASSUME hits \in [Sources -> Nat], NEW sub \in Submissions
  PROVE  Counted(sub.logs) \in [Sources -> Nat]
<1>1. ASSUME NEW s \in Sources
      PROVE  hits[s] + Cardinality({p \in Readable(sub.logs) : sub.logs[p].source = s}) \in Nat
  <2>1. Cardinality({p \in Readable(sub.logs) : sub.logs[p].source = s}) \in Nat
    BY ReadableTypes, FS_Subset, FS_CardinalityType
  <2> QED
    BY <2>1
<1> QED
  BY <1>1 DEF Counted

\* The dedup: a key passes once as long as Redis remembers it.
LEMMA DedupProperties ==
  ASSUME TypeOK, OncePerKey, NEW sub \in Submissions, NEW known \in SUBSET remembered,
         NEW passes, Deduplicate(sub, known, passes)
  PROVE  /\ passes \subseteq Readable(sub.logs)
         /\ remembered' \subseteq Keys /\ passed' \in [Keys -> Nat] /\ OncePerKey'
<1> DEFINE all == Readable(sub.logs)
           fresh == Fresh(sub.logs, all, known)
           kept == [k \in Keys |-> IF k \in known THEN passed[k] ELSE 0]
<1>1. fresh \subseteq all /\ KeysOf(sub.logs, all) \subseteq Keys
  BY ReadableTypes DEF Fresh, KeysOf
<1>2. kept \in [Keys -> Nat] /\ \A k \in Keys : kept[k] <= 1 /\ (k \notin known => kept[k] = 0)
  BY DEF TypeOK, OncePerKey
<1>3. \A k \in Keys : Cardinality(Passing(sub.logs, fresh, k)) \in 0..(IF k \in known THEN 0 ELSE 1)
  <2> SUFFICES ASSUME NEW k \in Keys
               PROVE  Cardinality(Passing(sub.logs, fresh, k)) \in 0..(IF k \in known THEN 0 ELSE 1)
    OBVIOUS
  <2> DEFINE P == Passing(sub.logs, fresh, k)
  <2>1. CASE P = {}
    BY <2>1, FS_EmptySet
  <2>2. CASE P # {}
    <3>1. PICK p \in P : TRUE
      BY <2>2
    <3>2. p \in all /\ p \in Nat /\ KeyAt(sub.logs, p) = k /\ k \notin known
      BY <3>1, ReadableTypes DEF Passing, Fresh
    <3>3. \A q \in P : q = p
      <4>1. \A q \in P : /\ q \in all /\ q \in Nat /\ KeyAt(sub.logs, q) = k
                         /\ \A o \in all : o < q => KeyAt(sub.logs, o) # k
        BY ReadableTypes DEF Passing, Fresh
      <4> HIDE DEF P
      <4> QED
        BY <3>1, <3>2, <4>1
    <3>4. P = {p}
      BY <3>1, <3>3
    <3>5. Cardinality(P) = 1
      BY <3>4, FS_Singleton
    <3> QED
      BY <3>2, <3>5
  <2> QED
    BY <2>1, <2>2
<1> HIDE DEF kept, fresh, all
<1>4. CASE ~sub.dedup
  BY <1>4 DEF Deduplicate, TypeOK, OncePerKey, redisVars, all
<1>5. CASE sub.dedup
  <2>1. \/ /\ passes = fresh
           /\ remembered' = known \cup KeysOf(sub.logs, all)
           /\ passed' = [k \in Keys |-> kept[k] + Cardinality(Passing(sub.logs, fresh, k))]
        \/ /\ passes = all
           /\ remembered' \in {known, known \cup KeysOf(sub.logs, all)}
           /\ passed' = kept
    BY <1>5 DEF Deduplicate, kept, fresh, all
  <2>2. passes \subseteq Readable(sub.logs) /\ remembered' \subseteq Keys
    BY <1>1, <2>1 DEF TypeOK, all
  <2>3. passed' \in [Keys -> Nat] /\ \A k \in Keys : passed'[k] <= 1
    BY <1>2, <1>3, <2>1
  <2> QED
    BY <2>2, <2>3 DEF OncePerKey
<1> QED
  BY <1>4, <1>5
\* What a batch sends, and what it has to triage, is what its handler can read.
LEMMA SentTypes ==
  ASSUME TypeOK, VerdictsPartition, ScoredOnce, NEW b \in Batches
  PROVE  /\ sent[b] \subseteq Nat /\ IsFiniteSet(sent[b])
         /\ verdict[b].anomalous \cup verdict[b].benign \cup verdict[b].missed \subseteq sent[b]
         /\ \A p \in todo[b] : p \in Nat /\ body[b].logs[p] \in Logs
<1>1. sent[b] \subseteq Readable(body[b].logs)
  BY DEF TypeOK
<1>2. verdict[b].anomalous \cup verdict[b].benign \cup verdict[b].missed \subseteq sent[b]
  BY DEF VerdictsPartition
<1>3. todo[b] \subseteq verdict[b].anomalous
  BY DEF ScoredOnce
<1> QED
  BY <1>1, <1>2, <1>3, BodyTypes, FS_Subset DEF TypeOK

\* The counts of an answer are natural numbers, and the answered batches keep
\* theirs while nothing about them changes.
AnswerTypes == [normalized : Nat, deduplicated : Nat, sent : Nat, anomalous : Nat, benign : Nat]

LEMMA CountsType ==
  ASSUME NEW all, NEW positions, IsFiniteSet(all), positions \subseteq all,
         NEW m \in Nat, NEW n \in Nat
  PROVE  Counts(all, positions, m, n) \in AnswerTypes
<1>1. /\ Cardinality(all) \in Nat /\ Cardinality(positions) \in Nat
      /\ Cardinality(positions) <= Cardinality(all)
  BY FS_Subset, FS_CardinalityType
<1>2. Cardinality(all) - Cardinality(positions) \in Nat
  BY <1>1
<1> QED
  BY <1>1, <1>2 DEF Counts, AnswerTypes

LEMMA ResponseType ==
  ASSUME TypeOK, VerdictsPartition, ScoredOnce, NEW b \in Batches
  PROVE  Response(b) \in AnswerTypes
<1> DEFINE A == verdict[b].anomalous
           B == verdict[b].benign
<1>1. IsFiniteSet(Readable(body[b].logs)) /\ sent[b] \subseteq Readable(body[b].logs)
  BY BodyTypes DEF TypeOK
<1>2. IsFiniteSet(sent[b]) /\ A \subseteq sent[b] /\ B \subseteq sent[b]
  BY SentTypes
<1> HIDE DEF A, B
<1>3. Cardinality(A) \in Nat /\ Cardinality(B) \in Nat
  BY <1>2, FS_Subset, FS_CardinalityType
<1> QED
  BY <1>1, <1>3, CountsType DEF Response, A, B

LEMMA AnswersStay ==
  ASSUME AnswerOfBatch,
         \A b \in Batches : stage'[b] = "answered" =>
           /\ stage[b] = "answered" /\ answer'[b] = answer[b] /\ sent'[b] = sent[b]
           /\ body'[b] = body[b] /\ verdict'[b] = verdict[b],
         \A b \in Batches : stage'[b] \in OnItsWay => stage[b] \in OnItsWay /\ sent'[b] = sent[b]
  PROVE  AnswerOfBatch'
<1>1. ASSUME NEW b \in Batches, stage'[b] = "answered"
      PROVE  answer'[b] = IF sent'[b] = {} THEN Duplicates(Readable(body[b].logs)) ELSE Response(b)
  BY <1>1 DEF AnswerOfBatch
<1>2. ASSUME NEW b \in Batches, stage'[b] = "answered"
      PROVE  /\ Readable(body'[b].logs) = Readable(body[b].logs)
             /\ Response(b)' = Response(b)
  <2>1. body'[b] = body[b] /\ verdict'[b] = verdict[b] /\ sent'[b] = sent[b]
    BY <1>2
  <2>2. body'[b].logs = body[b].logs
    BY <2>1
  <2>3. Response(b)' = Counts(Readable(body'[b].logs), sent'[b],
                              Cardinality(verdict'[b].anomalous), Cardinality(verdict'[b].benign))
    BY DEF Response, Counts, Readable
  <2>4. Response(b)' = Counts(Readable(body[b].logs), sent[b],
                              Cardinality(verdict[b].anomalous), Cardinality(verdict[b].benign))
    BY <2>1, <2>2, <2>3
  <2> QED
    BY <2>2, <2>4 DEF Response
<1>3. ASSUME NEW b \in Batches, stage'[b] = "answered"
      PROVE  answer'[b] = IF sent'[b] = {} THEN Duplicates(Readable(body'[b].logs)) ELSE Response(b)'
  BY <1>1, <1>2, <1>3
<1>4. \A b \in Batches : stage'[b] \in OnItsWay => sent'[b] # {}
  BY DEF AnswerOfBatch
<1>5. \A b \in Batches : Duplicates(Readable(body[b].logs))' = Duplicates(Readable(body'[b].logs))
  BY DEF Duplicates, Counts, Readable
<1>6. OnItsWay' = OnItsWay
  BY DEF OnItsWay
<1> QED
  BY <1>3, <1>4, <1>5, <1>6 DEF AnswerOfBatch

\* The queue's accounts say nothing of a batch before its triage.
LEMMA QueueStays ==
  ASSUME TypeOK, QueueAccounts, UNCHANGED triageVars,
         \A b \in Batches : Scored(b) # {} /\ stage[b] = "blocked" => stage'[b] = "blocked"
  PROVE  QueueAccounts'
<1>1. ASSUME NEW b \in Batches, NEW p \in Scored(b) PROVE Triaged(b, p)'
  <2>1. Triaged(b, p)
    BY DEF QueueAccounts
  <2>2. stage[b] = "blocked" => stage'[b] = "blocked"
    BY <1>1
  <2> QED
    BY <2>1, <2>2 DEF Triaged, triageVars
<1> QED
  BY <1>1 DEF QueueAccounts, Scored, triageVars

\* /ingest/batch up to the gather.
LEMMA SubmitKeeps == ASSUME IInv, NEW b \in Batches, Submit(b) PROVE IInv'
<1> USE DEF IInv
<1>1. PICK sub, known, passes :
        /\ sub \in Submissions /\ known \in SUBSET remembered
        /\ body' = [body EXCEPT ![b] = sub]
        /\ hits' = Counted(sub.logs)
        /\ Deduplicate(sub, known, passes)
        /\ sent' = [sent EXCEPT ![b] = passes]
        /\ stage' = [stage EXCEPT ![b] =
             IF passes = {} THEN "answered"
             ELSE IF LiveNodesRaises THEN "failed" ELSE "queued"]
        /\ answer' = [answer EXCEPT ![b] =
             IF passes = {} THEN Duplicates(Readable(sub.logs)) ELSE answer[b]]
  <2>1. PICK sub \in Submissions :
          /\ body' = [body EXCEPT ![b] = sub]
          /\ hits' = Counted(sub.logs)
          /\ \E known \in SUBSET remembered :
             \E passes \in {Readable(sub.logs), Fresh(sub.logs, Readable(sub.logs), known)} :
               /\ Deduplicate(sub, known, passes)
               /\ sent' = [sent EXCEPT ![b] = passes]
               /\ stage' = [stage EXCEPT ![b] =
                    IF passes = {} THEN "answered"
                    ELSE IF LiveNodesRaises THEN "failed" ELSE "queued"]
               /\ answer' = [answer EXCEPT ![b] =
                    IF passes = {} THEN Duplicates(Readable(sub.logs)) ELSE answer[b]]
    BY DEF Submit
  <2> QED
    BY <2>1
<1>2. loop = Nobody /\ stage[b] = "new"
  BY DEF Submit
<1>3. UNCHANGED <<alive, out, verdict, todo, triageVars, loop, pipeVars>>
  BY DEF Submit
<1>4. stage' \in [Batches -> Stages] /\ stage'[b] \in {"answered", "failed", "queued"}
  BY <1>1 DEF TypeOK, Stages
<1>5. \A c \in Batches : c # b => stage'[c] = stage[c] /\ sent'[c] = sent[c] /\ body'[c] = body[c]
  BY <1>1 DEF TypeOK
<1>6. stage'[b] = "answered" <=> passes = {}
  BY <1>1 DEF TypeOK
<1>7. body'[b] = sub /\ sent'[b] = passes
  BY <1>1 DEF TypeOK
<1>8. passes \subseteq Readable(sub.logs) /\ remembered' \subseteq Keys /\ passed' \in [Keys -> Nat]
      /\ OncePerKey'
  BY <1>1, DedupProperties
<1>9. hits' \in [Sources -> Nat]
  BY <1>1, CountedType DEF TypeOK
<1>10. passes \subseteq Nat
  BY <1>1, <1>8, ReadableTypes
<1>11. TypeOK'
  <2>1. sent' \in [Batches -> SUBSET Nat] /\ body' \in [Batches -> Submissions \cup {NoBody}]
    BY <1>1, <1>10 DEF TypeOK
  <2>2. \A c \in Batches : sent'[c] \subseteq Readable(body'[c].logs)
    BY <1>5, <1>7, <1>8 DEF TypeOK
  <2>3. \A c \in Batches : stage'[c] = "triage" <=> loop' = c
    BY <1>2, <1>3, <1>4, <1>5 DEF TypeOK
  <2>4. Duplicates(Readable(sub.logs)) \in AnswerTypes
    <3>1. IsFiniteSet(Readable(sub.logs)) /\ Cardinality(Readable(sub.logs)) \in Nat
      BY <1>1, ReadableTypes, FS_CardinalityType
    <3> QED
      BY <3>1, CountsType DEF Duplicates
  <2>5. answer' \in [Batches -> AnswerTypes]
    BY <1>1, <2>4 DEF TypeOK, AnswerTypes
  <2> QED
    BY <1>3, <1>4, <1>8, <1>9, <2>1, <2>2, <2>3, <2>5
       DEF TypeOK, AnswerTypes, Scored, triageVars, pipeVars
<1>12. out[b] = {} /\ verdict[b].anomalous \cup verdict[b].benign \cup verdict[b].missed = {}
  BY <1>2 DEF VerdictsPartition
<1>13. VerdictsPartition'
  <2>1. ASSUME NEW c \in Batches, c # b
        PROVE  /\ stage'[c] = stage[c] /\ sent'[c] = sent[c] /\ verdict'[c] = verdict[c]
               /\ out'[c] = out[c]
    BY <1>3, <1>5, <2>1
  <2>2. verdict'[b] = verdict[b] /\ out'[b] = {}
    BY <1>3, <1>12
  <2> QED
    BY <1>4, <1>6, <1>7, <1>12, <2>1, <2>2 DEF VerdictsPartition
<1>14. Scored(b) \cup todo[b] = {}
  BY <1>2 DEF ScoredOnce
<1>15. ScoredOnce'
  BY <1>3, <1>4, <1>5, <1>12, <1>14 DEF ScoredOnce, Scored, triageVars
<1>16. QueueAccounts'
  BY <1>3, <1>5, <1>14, QueueStays
<1>17. AnswerOfBatch'
  <2>1. ASSUME NEW c \in Batches, stage'[c] = "answered", c # b
        PROVE  answer'[c] = IF sent'[c] = {} THEN Duplicates(Readable(body'[c].logs))
                            ELSE Response(c)'
    <3>1. /\ stage[c] = "answered" /\ answer'[c] = answer[c] /\ sent'[c] = sent[c]
          /\ body'[c] = body[c] /\ verdict'[c] = verdict[c]
      BY <1>1, <1>3, <1>5, <2>1 DEF TypeOK
    <3>2. Response(c)' = Response(c)
      BY <3>1 DEF Response, Counts, Readable
    <3> QED
      BY <3>1, <3>2 DEF AnswerOfBatch
  <2>2. stage'[b] = "answered" =>
          sent'[b] = {} /\ answer'[b] = Duplicates(Readable(body'[b].logs))
    BY <1>1, <1>6, <1>7 DEF TypeOK
  <2>3. \A c \in Batches : stage'[c] \in OnItsWay => sent'[c] # {}
    BY <1>4, <1>5, <1>6, <1>7 DEF AnswerOfBatch, OnItsWay
  <2> QED
    BY <2>1, <2>2, <2>3 DEF AnswerOfBatch, Duplicates, Counts, Readable
<1> QED
  BY <1>8, <1>11, <1>13, <1>15, <1>16, <1>17

\* The task of the node posts the chunks.
LEMMA SendKeeps == ASSUME IInv, NEW b \in Batches, Send(b) PROVE IInv'
<1> USE DEF IInv
<1>1. /\ loop = Nobody /\ stage[b] = "queued"
      /\ stage' = [stage EXCEPT ![b] = "detecting"]
      /\ out' = [out EXCEPT ![b] = Chunks(sent[b])]
      /\ UNCHANGED <<alive, redisVars, hits, body, sent, verdict, answer, todo, triageVars, loop,
                     pipeVars>>
  BY DEF Send
<1>2. \A c \in Batches : c # b => stage'[c] = stage[c] /\ out'[c] = out[c]
  BY <1>1 DEF TypeOK
<1>3. stage' \in [Batches -> Stages] /\ stage'[b] = "detecting" /\ out'[b] = Chunks(sent[b])
  BY <1>1 DEF TypeOK, Stages
<1>4. Chunks(sent[b]) \subseteq Int
  <2>1. sent[b] \subseteq Nat /\ IsFiniteSet(sent[b])
    BY SentTypes
  <2>2. ASSUME NEW p \in sent[b] PROVE ChunkOf(sent[b], p) \in Int
    <3>1. Cardinality({q \in sent[b] : q < p}) \in Nat
      BY <2>1, FS_Subset, FS_CardinalityType
    <3> QED
      BY <3>1, LimitsAssumption DEF ChunkOf
  <2> QED
    BY <2>2 DEF Chunks
<1>5. TypeOK'
  <2>1. out' \in [Batches -> SUBSET Int]
    BY <1>1, <1>4 DEF TypeOK
  <2>2. \A c \in Batches : stage'[c] = "triage" <=> loop' = c
    BY <1>1, <1>2, <1>3 DEF TypeOK
  <2> QED
    BY <1>1, <1>3, <2>1, <2>2 DEF TypeOK, Scored, triageVars, pipeVars, redisVars
<1>6. VerdictsPartition'
  <2>1. {p \in sent[b] : ChunkOf(sent[b], p) \notin Chunks(sent[b])} = {}
    BY DEF Chunks
  <2> QED
    BY <1>1, <1>2, <1>3, <2>1 DEF VerdictsPartition
<1>7. ScoredOnce'
  BY <1>1, <1>2, <1>3 DEF ScoredOnce, Scored, triageVars
<1>8. QueueAccounts'
  BY <1>1, <1>2, QueueStays
<1>9. OncePerKey'
  BY <1>1 DEF OncePerKey, redisVars
<1>10. AnswerOfBatch'
  BY <1>1, <1>2, <1>3, AnswersStay DEF OnItsWay
<1> QED
  BY <1>5, <1>6, <1>7, <1>8, <1>9, <1>10

\* A chunk ends: its positions get a verdict or miss theirs.
LEMMA ToldKeeps ==
  ASSUME IInv, NEW b \in Batches, NEW chunk, Outstanding(b, chunk),
         NEW anomalous, NEW benign,
         anomalous \cup benign \subseteq ChunkAt(sent[b], chunk), anomalous \cap benign = {},
         Told(b, chunk, anomalous, benign), alive' \subseteq alive
  PROVE  IInv'
<1> USE DEF IInv
<1> DEFINE C == ChunkAt(sent[b], chunk)
           missed == C \ (anomalous \cup benign)
           v == verdict[b]
<1>1. /\ out' = [out EXCEPT ![b] = @ \ {chunk}]
      /\ verdict' = [verdict EXCEPT ![b] =
           [anomalous |-> @.anomalous \cup anomalous,
            benign    |-> @.benign \cup benign,
            missed    |-> @.missed \cup missed]]
      /\ UNCHANGED <<redisVars, hits, stage, body, sent, answer, todo, triageVars, loop, pipeVars>>
  BY DEF Told
<1>2. stage[b] = "detecting" /\ chunk \in out[b]
  BY DEF Outstanding
<1>3. C \subseteq sent[b] /\ sent[b] \subseteq Nat /\ v.anomalous \cup v.benign \cup v.missed \subseteq sent[b]
  BY SentTypes DEF ChunkAt
<1>4. /\ v.anomalous \cup v.benign \cup v.missed = {p \in sent[b] : ChunkOf(sent[b], p) \notin out[b]}
      /\ v.anomalous \cap v.benign = {} /\ (v.anomalous \cup v.benign) \cap v.missed = {}
  BY <1>2 DEF VerdictsPartition
<1>5. C \cap (v.anomalous \cup v.benign \cup v.missed) = {}
  BY <1>2, <1>4 DEF ChunkAt
<1>6. out'[b] = out[b] \ {chunk} /\ \A c \in Batches : c # b => out'[c] = out[c] /\ verdict'[c] = verdict[c]
  BY <1>1 DEF TypeOK
<1>7. verdict'[b] = [anomalous |-> v.anomalous \cup anomalous, benign |-> v.benign \cup benign,
                     missed |-> v.missed \cup missed]
  BY <1>1 DEF TypeOK
<1>8. TypeOK'
  <2>1. out' \in [Batches -> SUBSET Int]
    BY <1>1, <1>6 DEF TypeOK
  <2>2. verdict' \in [Batches -> [anomalous : SUBSET Nat, benign : SUBSET Nat, missed : SUBSET Nat]]
    <3>1. v \in [anomalous : SUBSET Nat, benign : SUBSET Nat, missed : SUBSET Nat]
      BY DEF TypeOK
    <3>2. v.anomalous \cup anomalous \subseteq Nat /\ v.benign \cup benign \subseteq Nat
          /\ v.missed \cup missed \subseteq Nat
      BY <1>3
    <3> QED
      BY <1>1, <3>2 DEF TypeOK
  <2> QED
    BY <1>1, <2>1, <2>2 DEF TypeOK, Scored, triageVars, pipeVars, redisVars
<1>9. VerdictsPartition'
  <2>1. C = {p \in sent[b] : ChunkOf(sent[b], p) = chunk}
    BY DEF ChunkAt
  <2>2. {p \in sent[b] : ChunkOf(sent[b], p) \notin out[b] \ {chunk}}
          = {p \in sent[b] : ChunkOf(sent[b], p) \notin out[b]} \cup C
    BY <2>1
  <2>3. v.anomalous \cup anomalous \cup (v.benign \cup benign) \cup (v.missed \cup missed)
          = v.anomalous \cup v.benign \cup v.missed \cup C
    OBVIOUS
  <2>4. /\ (v.anomalous \cup anomalous) \cap (v.benign \cup benign) = {}
        /\ (v.anomalous \cup anomalous \cup (v.benign \cup benign)) \cap (v.missed \cup missed) = {}
    BY <1>4, <1>5
  <2> HIDE DEF v, C, missed
  <2>5. stage'[b] = "detecting" /\ sent'[b] = sent[b]
    BY <1>1, <1>2
  <2>6. ASSUME NEW c \in Batches, c # b
        PROVE  /\ verdict'[c] = verdict[c] /\ stage'[c] = stage[c] /\ sent'[c] = sent[c]
               /\ out'[c] = out[c]
    BY <1>1, <1>6, <2>6
  <2>7. /\ verdict'[b].anomalous \cup verdict'[b].benign \cup verdict'[b].missed
             = {p \in sent'[b] : ChunkOf(sent'[b], p) \notin out'[b]}
        /\ verdict'[b].anomalous \cap verdict'[b].benign = {}
        /\ (verdict'[b].anomalous \cup verdict'[b].benign) \cap verdict'[b].missed = {}
    BY <1>4, <1>6, <1>7, <2>2, <2>3, <2>4, <2>5
  <2> QED
    BY <2>5, <2>6, <2>7 DEF VerdictsPartition
<1>10. ScoredOnce'
  BY <1>1, <1>2, <1>6 DEF ScoredOnce, Scored, triageVars
<1>11. QueueAccounts'
  BY <1>1, QueueStays
<1>12. OncePerKey'
  BY <1>1 DEF OncePerKey, redisVars
<1>13. AnswerOfBatch'
  BY <1>1, <1>2, <1>6, AnswersStay DEF OnItsWay
<1> QED
  BY <1>8, <1>9, <1>10, <1>11, <1>12, <1>13

LEMMA ChunkEndsKeeps ==
  ASSUME IInv, NEW b \in Batches, NEW chunk, ChunkEnds(b, chunk) PROVE IInv'
<1>1. Outstanding(b, chunk)
  BY DEF ChunkEnds, ChunkAnswered, FellBack, ChunkFailed
<1>2. CASE ChunkAnswered(b, chunk)
  <2>1. PICK anomalous \in Verdicts(b, ChunkAt(sent[b], chunk)) :
          Told(b, chunk, anomalous, ChunkAt(sent[b], chunk) \ anomalous)
    BY <1>2 DEF ChunkAnswered
  <2>2. anomalous \subseteq ChunkAt(sent[b], chunk) /\ alive' = alive
    BY <1>2 DEF ChunkAnswered, Verdicts
  <2> QED
    BY <1>1, <2>1, <2>2, ToldKeeps
<1>3. CASE FellBack(b, chunk)
  <2>1. PICK told \in SUBSET ChunkAt(sent[b], chunk) :
          \E anomalous \in Verdicts(b, told) : Told(b, chunk, anomalous, told \ anomalous)
    BY <1>3 DEF FellBack
  <2>2. PICK anomalous \in Verdicts(b, told) : Told(b, chunk, anomalous, told \ anomalous)
    BY <2>1
  <2>3. anomalous \subseteq told /\ alive' = alive
    BY <1>3 DEF FellBack, Verdicts
  <2> QED
    BY <1>1, <2>2, <2>3, ToldKeeps
<1>4. CASE ChunkFailed(b, chunk)
  <2>1. Told(b, chunk, {}, {}) /\ alive' \subseteq alive
    BY <1>4 DEF ChunkFailed
  <2> QED
    BY <1>1, <2>1, ToldKeeps
<1> QED
  BY <1>2, <1>3, <1>4 DEF ChunkEnds

\* The gather is over and the triage begins.
LEMMA GatheredKeeps == ASSUME IInv, NEW b \in Batches, Gathered(b) PROVE IInv'
<1> USE DEF IInv
<1>1. /\ loop = Nobody /\ stage[b] = "detecting" /\ out[b] = {}
      /\ stage' = [stage EXCEPT ![b] = "triage"]
      /\ todo' = [todo EXCEPT ![b] = verdict[b].anomalous]
      /\ loop' = b
      /\ UNCHANGED <<alive, redisVars, hits, body, sent, out, verdict, answer, triageVars, pipeVars>>
  BY DEF Gathered
<1>2. \A c \in Batches : c # b => stage'[c] = stage[c] /\ todo'[c] = todo[c]
  BY <1>1 DEF TypeOK
<1>3. stage' \in [Batches -> Stages] /\ stage'[b] = "triage" /\ todo'[b] = verdict[b].anomalous
  BY <1>1 DEF TypeOK, Stages
<1>4. TypeOK'
  <2>1. verdict[b].anomalous \subseteq Nat
    BY SentTypes
  <2>2. todo' \in [Batches -> SUBSET Nat]
    BY <1>1, <2>1 DEF TypeOK
  <2>3. \A c \in Batches : stage'[c] = "triage" <=> loop' = c
    BY <1>1, <1>2, <1>3, LimitsAssumption DEF TypeOK
  <2> QED
    BY <1>1, <1>3, <2>2, <2>3 DEF TypeOK, Scored, triageVars, pipeVars, redisVars
<1>5. VerdictsPartition'
  BY <1>1, <1>2, <1>3 DEF VerdictsPartition
<1>6. Scored(b) \cup todo[b] = {}
  BY <1>1 DEF ScoredOnce
<1>7. ScoredOnce'
  BY <1>1, <1>2, <1>3, <1>6 DEF ScoredOnce, Scored, triageVars
<1>8. QueueAccounts'
  BY <1>1, <1>2, <1>6, QueueStays
<1>9. OncePerKey'
  BY <1>1 DEF OncePerKey, redisVars
<1>10. AnswerOfBatch'
  BY <1>1, <1>2, <1>3, AnswersStay DEF OnItsWay
<1> QED
  BY <1>4, <1>5, <1>7, <1>8, <1>9, <1>10

\* The response of a batch.
LEMMA AnswerKeeps == ASSUME IInv, NEW b \in Batches, Answer(b) PROVE IInv'
<1> USE DEF IInv
<1>1. /\ loop = b /\ todo[b] = {}
      /\ stage' = [stage EXCEPT ![b] = "answered"]
      /\ answer' = [answer EXCEPT ![b] = Response(b)]
      /\ loop' = Nobody
      /\ UNCHANGED <<alive, redisVars, hits, body, sent, out, verdict, todo, triageVars, running>>
  BY DEF Answer
<1>2. \A c \in Batches : c # b => stage'[c] = stage[c]
  BY <1>1 DEF TypeOK
<1>3. stage[b] = "triage" /\ stage' \in [Batches -> Stages] /\ stage'[b] = "answered"
  BY <1>1 DEF TypeOK, Stages
<1>4. TypeOK'
  <2>1. \A c \in Batches : stage'[c] = "triage" <=> loop' = c
    BY <1>1, <1>2, <1>3, LimitsAssumption DEF TypeOK
  <2>2. answer' \in [Batches -> AnswerTypes]
    BY <1>1, ResponseType DEF TypeOK, AnswerTypes
  <2> QED
    BY <1>1, <1>3, <2>1, <2>2 DEF TypeOK, AnswerTypes, Scored, triageVars, redisVars
<1>5. VerdictsPartition'
  BY <1>1, <1>2, <1>3 DEF VerdictsPartition
<1>6. ScoredOnce'
  BY <1>1, <1>2, <1>3 DEF ScoredOnce, Scored, triageVars
<1>7. QueueAccounts'
  BY <1>1, <1>2, <1>3, QueueStays
<1>8. OncePerKey'
  BY <1>1 DEF OncePerKey, redisVars
<1>9. AnswerOfBatch'
  <2>1. ASSUME NEW c \in Batches
        PROVE  /\ Response(c)' = Response(c) /\ sent'[c] = sent[c]
               /\ Duplicates(Readable(body[c].logs))' = Duplicates(Readable(body[c].logs))
    BY <1>1 DEF Response, Duplicates, Counts, Readable
  <2>2. sent[b] # {}
    BY <1>3 DEF AnswerOfBatch, OnItsWay
  <2>3. answer'[b] = Response(b) /\ \A c \in Batches : c # b => answer'[c] = answer[c]
    BY <1>1 DEF TypeOK
  <2> QED
    BY <1>2, <1>3, <2>1, <2>2, <2>3 DEF AnswerOfBatch, OnItsWay
<1> QED
  BY <1>4, <1>5, <1>6, <1>7, <1>8, <1>9

\* Nothing but the slots of the background pipelines and the flags of the nodes.
LEMMA BackgroundKeeps ==
  ASSUME IInv, UNCHANGED <<redisVars, hits, requestVars, triageVars, loop>>,
         alive' \subseteq alive, IsFiniteSet(running'), Cardinality(running') <= Slots
  PROVE  IInv'
<1> USE DEF IInv
<1>1. TypeOK'
  BY DEF TypeOK, Scored, redisVars, requestVars, triageVars
<1>2. VerdictsPartition' /\ ScoredOnce' /\ OncePerKey'
  BY DEF VerdictsPartition, ScoredOnce, OncePerKey, Scored, redisVars, requestVars, triageVars
<1>3. QueueAccounts'
  BY QueueStays DEF requestVars
<1>4. AnswerOfBatch'
  BY AnswersStay DEF requestVars
<1> QED
  BY <1>1, <1>2, <1>3, <1>4

LEMMA StartPipelineKeeps == ASSUME IInv, NEW entry, StartPipeline(entry) PROVE IInv'
<1>1. IsFiniteSet(running) /\ Cardinality(running) \in Nat /\ Cardinality(running) < Slots /\ Slots \in Nat
  BY FS_CardinalityType, LimitsAssumption DEF IInv, TypeOK, StartPipeline
<1>2. running' = running \cup {entry}
  BY DEF StartPipeline
<1>3. /\ IsFiniteSet(running \cup {entry})
      /\ Cardinality(running \cup {entry})
           = IF entry \in running THEN Cardinality(running) ELSE Cardinality(running) + 1
  BY <1>1, FS_AddElement
<1>4. Cardinality(running \cup {entry}) <= Slots
  BY <1>1, <1>3
<1> QED
  BY <1>2, <1>3, <1>4, BackgroundKeeps DEF StartPipeline

LEMMA EndPipelineKeeps == ASSUME IInv, NEW entry, EndPipeline(entry) PROVE IInv'
<1>1. IsFiniteSet(running) /\ Cardinality(running) <= Slots /\ running' \subseteq running
  BY DEF IInv, TypeOK, EndPipeline
<1>2. IsFiniteSet(running') /\ Cardinality(running') <= Cardinality(running)
      /\ Cardinality(running') \in Nat /\ Cardinality(running) \in Nat
  BY <1>1, FS_Subset, FS_CardinalityType
<1>3. Cardinality(running') <= Slots
  BY <1>1, <1>2, LimitsAssumption
<1> QED
  BY <1>2, <1>3, BackgroundKeeps DEF EndPipeline

LEMMA AppendFresh ==
  ASSUME NEW T, NEW s \in Seq(T), NEW e \in T, e \notin ToSet(s), IsInjective(s)
  PROVE  /\ Append(s, e) \in Seq(T) /\ Len(Append(s, e)) = Len(s) + 1
         /\ IsInjective(Append(s, e)) /\ ToSet(Append(s, e)) = ToSet(s) \cup {e}
<1> DEFINE t == Append(s, e)
<1>1. /\ t \in Seq(T) /\ Len(t) = Len(s) + 1 /\ Len(s) \in Nat
      /\ DOMAIN t = 1..Len(t) /\ DOMAIN s = 1..Len(s)
      /\ t[Len(s) + 1] = e /\ \A i \in 1..Len(s) : t[i] = s[i]
  OBVIOUS
<1> HIDE DEF t
<1>2. ToSet(t) = ToSet(s) \cup {e}
  <2>1. ASSUME NEW x \in ToSet(t) PROVE x \in ToSet(s) \cup {e}
    BY <1>1 DEF ToSet
  <2>2. ASSUME NEW x \in ToSet(s) PROVE x \in ToSet(t)
    BY <1>1 DEF ToSet
  <2>3. e \in ToSet(t)
    BY <1>1 DEF ToSet
  <2> QED
    BY <2>1, <2>2, <2>3
<1>3. IsInjective(t)
  <2>1. \A i \in 1..Len(s) : t[i] # e
    BY <1>1 DEF ToSet
  <2> QED
    BY <1>1, <2>1 DEF IsInjective
<1> QED
  BY <1>1, <1>2, <1>3 DEF t

\* put: the scored alert goes to the buffer, to the queue, or is dropped, or
\* its batch blocks.
LEMMA PutKeeps ==
  ASSUME IInv, NEW b \in Batches, NEW p \in todo[b], NEW rank \in 0..3, loop = b,
         tier' = [tier EXCEPT ![b] = WithTier(@, p, rank)], Put(b, p, rank)
  PROVE  /\ QueueAccounts'
         /\ critical' \in Seq(Batches \X Nat) /\ IsFiniteSet(queue') /\ IsFiniteSet(dropped')
         /\ stats' \in [enqueued : Nat, bypassed : Nat, dropped : Nat]
         /\ queue' \cup dropped' \cup ToSet(critical')
              \subseteq queue \cup dropped \cup ToSet(critical) \cup {<<b, p>>}
         /\ \/ stage' = stage /\ loop' = loop
            \/ stage' = [stage EXCEPT ![b] = "blocked"] /\ loop' = Nobody
<1> USE DEF IInv
<1> DEFINE e == <<b, p>>
           full == Cardinality(queue) >= QueueMax
<1>1. p \in Nat /\ p \notin Scored(b)
  BY SentTypes DEF ScoredOnce
<1>2. e \in Batches \X Nat /\ e \notin queue \cup dropped \cup ToSet(critical)
  BY <1>1 DEF ScoredOnce
<1>3. /\ critical \in Seq(Batches \X Nat) /\ IsFiniteSet(queue) /\ IsFiniteSet(dropped)
      /\ stats \in [enqueued : Nat, bypassed : Nat, dropped : Nat]
      /\ Cardinality(queue) \in Nat /\ Cardinality(dropped) \in Nat /\ QueueMax \in Nat
  BY FS_CardinalityType, LimitsAssumption DEF TypeOK
<1>4. stage[b] = "triage" /\ stage' \in [Batches -> Stages \cup {"blocked"}]
  <2>1. stage \in [Batches -> Stages] /\ stage[b] = "triage"
    BY DEF TypeOK
  <2>2. stage' = stage \/ stage' = [stage EXCEPT ![b] = "blocked"]
    BY DEF Put
  <2> QED
    BY <2>1, <2>2
<1>5. /\ stats.bypassed = Len(critical) /\ IsInjective(critical)
      /\ stats.enqueued = Cardinality(queue) /\ stats.enqueued <= QueueMax
      /\ stats.dropped = Cardinality(dropped)
      /\ queue \cap dropped = {} /\ (queue \cup dropped) \cap ToSet(critical) = {}
  BY DEF QueueAccounts
\* The entries that were scored before.
<1>6. ASSUME NEW c \in Batches, NEW q \in Scored(c)
      PROVE  /\ <<c, q>> # e /\ tier'[c][q] = tier[c][q]
             /\ \/ tier[c][q] = 0 /\ <<c, q>> \in ToSet(critical)
                \/ tier[c][q] = 3 /\ <<c, q>> \in queue \cup dropped
                \/ tier[c][q] \in 1..2 /\ <<c, q>> \in queue
                \/ /\ tier[c][q] \in 1..2 /\ c # b
                   /\ stage[c] = "blocked" /\ Cardinality(queue) = QueueMax
  <2>1. Triaged(c, q) /\ tier[c][q] \in 0..3
    BY DEF QueueAccounts, TypeOK
  <2>2. <<c, q>> # e /\ tier'[c][q] = tier[c][q]
    BY <1>1 DEF Scored, WithTier, TypeOK
  <2> QED
    BY <1>4, <2>1, <2>2 DEF Triaged
<1>7. /\ \A c \in Batches : Scored(c)' = IF c = b THEN Scored(c) \cup {p} ELSE Scored(c)
      /\ tier'[b][p] = rank
  BY DEF Scored, WithTier, TypeOK
<1>8. ASSUME \/ rank = 0 /\ e \in ToSet(critical')
             \/ rank = 3 /\ e \in queue' \cup dropped'
             \/ rank \in 1..2 /\ e \in queue'
             \/ rank \in 1..2 /\ stage'[b] = "blocked" /\ Cardinality(queue') = QueueMax,
             queue \subseteq queue' /\ dropped \subseteq dropped',
             ToSet(critical) \subseteq ToSet(critical'),
             queue' = queue \/ Cardinality(queue) # QueueMax,
             \A c \in Batches : c # b => stage'[c] = stage[c]
      PROVE  \A c \in Batches : \A q \in Scored(c)' : Triaged(c, q)'
  <2> SUFFICES ASSUME NEW c \in Batches, NEW q \in Scored(c)' PROVE Triaged(c, q)'
    OBVIOUS
  <2>1. CASE q \in Scored(c)
    <3>1. \/ tier'[c][q] = 0 /\ <<c, q>> \in ToSet(critical')
          \/ tier'[c][q] = 3 /\ <<c, q>> \in queue' \cup dropped'
          \/ tier'[c][q] \in 1..2 /\ <<c, q>> \in queue'
          \/ tier'[c][q] \in 1..2 /\ stage'[c] = "blocked" /\ Cardinality(queue') = QueueMax
      <4> HIDE DEF e, full
      <4> QED
        BY <1>6, <1>8, <2>1
    <3> QED
      BY <3>1 DEF Triaged
  <2>2. CASE q \notin Scored(c)
    <3>1. c = b /\ q = p
      BY <1>7, <2>2
    <3> QED
      BY <1>7, <1>8, <3>1 DEF Triaged
  <2> QED
    BY <2>1, <2>2
<1>9. CASE rank = 0
  <2>1. /\ critical' = Append(critical, e) /\ stats' = [stats EXCEPT !.bypassed = @ + 1]
        /\ UNCHANGED <<queue, dropped, stage, loop>>
    BY <1>9 DEF Put
  <2>2. /\ critical' \in Seq(Batches \X Nat) /\ Len(critical') = Len(critical) + 1
        /\ IsInjective(critical') /\ ToSet(critical') = ToSet(critical) \cup {e}
    BY <1>2, <1>3, <1>5, <2>1, AppendFresh
  <2>3. \A c \in Batches : \A q \in Scored(c)' : Triaged(c, q)'
    BY <1>8, <1>9, <2>1, <2>2
  <2>4. /\ stats' \in [enqueued : Nat, bypassed : Nat, dropped : Nat]
        /\ stats'.bypassed = stats.bypassed + 1
        /\ stats'.enqueued = stats.enqueued /\ stats'.dropped = stats.dropped
    <3>1. stats \in [enqueued : Nat, bypassed : Nat, dropped : Nat]
      BY <1>3
    <3>2. stats' = [stats EXCEPT !.bypassed = @ + 1]
      BY <2>1
    <3> QED
      BY <3>1, <3>2
  <2>5. queue' \cap dropped' = {} /\ (queue' \cup dropped') \cap ToSet(critical') = {}
    BY <1>2, <1>5, <2>1, <2>2
  <2>6. QueueAccounts'
    BY <1>5, <2>1, <2>2, <2>3, <2>4, <2>5 DEF QueueAccounts
  <2> QED
    BY <1>3, <2>1, <2>2, <2>4, <2>6
<1>10. CASE rank > 0 /\ ~full
  <2>1. /\ queue' = queue \cup {e} /\ stats' = [stats EXCEPT !.enqueued = @ + 1]
        /\ UNCHANGED <<critical, dropped, stage, loop>>
    BY <1>10 DEF Put
  <2>2. IsFiniteSet(queue') /\ Cardinality(queue') = Cardinality(queue) + 1
    BY <1>2, <1>3, <2>1, FS_AddElement
  <2>3. \A c \in Batches : \A q \in Scored(c)' : Triaged(c, q)'
    BY <1>3, <1>8, <1>10, <2>1
  <2>4. /\ stats' \in [enqueued : Nat, bypassed : Nat, dropped : Nat]
        /\ stats'.enqueued = stats.enqueued + 1
        /\ stats'.bypassed = stats.bypassed /\ stats'.dropped = stats.dropped
    <3>1. stats \in [enqueued : Nat, bypassed : Nat, dropped : Nat]
      BY <1>3
    <3>2. stats' = [stats EXCEPT !.enqueued = @ + 1]
      BY <2>1
    <3> QED
      BY <3>1, <3>2
  <2>5. queue' \cap dropped' = {} /\ (queue' \cup dropped') \cap ToSet(critical') = {}
    BY <1>2, <1>5, <2>1
  <2>6. stats'.enqueued = Cardinality(queue') /\ stats'.enqueued <= QueueMax
    BY <1>3, <1>5, <1>10, <2>2, <2>4
  <2>7. QueueAccounts'
    BY <1>5, <2>1, <2>3, <2>4, <2>5, <2>6 DEF QueueAccounts
  <2> QED
    BY <1>3, <2>1, <2>2, <2>4, <2>7
<1>11. CASE rank = 3 /\ full
  <2>1. \/ /\ dropped' = dropped \cup {e} /\ stats' = [stats EXCEPT !.dropped = @ + 1]
           /\ UNCHANGED <<critical, queue, stage, loop>>
    BY <1>11 DEF Put
  <2>2. IsFiniteSet(dropped') /\ Cardinality(dropped') = Cardinality(dropped) + 1
    <3>1. e \notin dropped /\ IsFiniteSet(dropped) /\ dropped' = dropped \cup {e}
      BY <1>2, <1>3, <2>1
    <3> HIDE DEF e
    <3> QED
      BY <3>1, FS_AddElement
  <2>3. \A c \in Batches : \A q \in Scored(c)' : Triaged(c, q)'
    BY <1>8, <1>11, <2>1
  <2>4. /\ stats' \in [enqueued : Nat, bypassed : Nat, dropped : Nat]
        /\ stats'.dropped = stats.dropped + 1
        /\ stats'.bypassed = stats.bypassed /\ stats'.enqueued = stats.enqueued
    BY <1>3, <2>1
  <2>5. queue' \cap dropped' = {} /\ (queue' \cup dropped') \cap ToSet(critical') = {}
    BY <1>2, <1>5, <2>1
  <2>6. QueueAccounts'
    BY <1>5, <2>1, <2>2, <2>3, <2>4, <2>5 DEF QueueAccounts
  <2> QED
    BY <1>3, <2>1, <2>2, <2>4, <2>6
<1>12. CASE rank \in 1..2 /\ full
  <2>1. /\ stage' = [stage EXCEPT ![b] = "blocked"] /\ loop' = Nobody
        /\ UNCHANGED <<critical, queue, dropped, stats>>
    BY <1>12 DEF Put
  <2>2. stage'[b] = "blocked" /\ \A c \in Batches : c # b => stage'[c] = stage[c]
    BY <2>1 DEF TypeOK
  <2>3. Cardinality(queue') = QueueMax
    BY <1>3, <1>5, <1>12, <2>1
  <2>4. \A c \in Batches : \A q \in Scored(c)' : Triaged(c, q)'
    BY <1>8, <1>12, <2>1, <2>2, <2>3
  <2>5. QueueAccounts'
    BY <1>5, <2>1, <2>4 DEF QueueAccounts
  <2> QED
    BY <1>3, <2>1, <2>5
<1> QED
  BY <1>9, <1>10, <1>11, <1>12

\* One alert is scored and put.
LEMMA PutNextKeeps == ASSUME IInv, NEW b \in Batches, PutNext(b) PROVE IInv'
<1> USE DEF IInv
<1>1. PICK p \in todo[b] :
        \E left \in 0..hits[body[b].logs[p].source] :
          LET rank == Tier(body[b].logs[p], Recorded(body[b].logs[p].source, left)[body[b].logs[p].source])
          IN /\ hits' = Recorded(body[b].logs[p].source, left)
             /\ tier' = [tier EXCEPT ![b] = WithTier(@, p, rank)]
             /\ Put(b, p, rank)
             /\ todo' = [todo EXCEPT ![b] = @ \ {p}]
  BY DEF PutNext
<1> DEFINE log == body[b].logs[p]
<1>2. PICK left \in 0..hits[log.source] :
          LET rank == Tier(log, Recorded(log.source, left)[log.source])
          IN /\ hits' = Recorded(log.source, left)
             /\ tier' = [tier EXCEPT ![b] = WithTier(@, p, rank)]
             /\ Put(b, p, rank)
             /\ todo' = [todo EXCEPT ![b] = @ \ {p}]
  BY <1>1
<1> DEFINE rank == Tier(log, Recorded(log.source, left)[log.source])
<1>3. /\ loop = b /\ UNCHANGED <<alive, redisVars, body, sent, out, verdict, answer, pipeVars>>
  BY DEF PutNext
<1>4. p \in Nat /\ log.source \in Sources /\ p \notin Scored(b) /\ stage[b] = "triage"
  BY <1>3, SentTypes, LogsAssumption DEF ScoredOnce, TypeOK
<1>5. hits' \in [Sources -> Nat]
  BY <1>2, <1>4 DEF Recorded, TypeOK
<1>6. rank \in 0..3
  BY TierType
<1>7. /\ tier' = [tier EXCEPT ![b] = WithTier(@, p, rank)] /\ Put(b, p, rank)
      /\ todo' = [todo EXCEPT ![b] = @ \ {p}]
  BY <1>2
<1> HIDE DEF rank, log
<1>8. /\ QueueAccounts'
      /\ critical' \in Seq(Batches \X Nat) /\ IsFiniteSet(queue') /\ IsFiniteSet(dropped')
      /\ stats' \in [enqueued : Nat, bypassed : Nat, dropped : Nat]
      /\ queue' \cup dropped' \cup ToSet(critical')
           \subseteq queue \cup dropped \cup ToSet(critical) \cup {<<b, p>>}
      /\ \/ stage' = stage /\ loop' = loop
         \/ stage' = [stage EXCEPT ![b] = "blocked"] /\ loop' = Nobody
  BY <1>3, <1>6, <1>7, PutKeeps
<1>9. /\ stage' \in [Batches -> Stages] /\ stage'[b] \in {"triage", "blocked"}
      /\ \A c \in Batches : c # b => stage'[c] = stage[c] /\ todo'[c] = todo[c]
      /\ todo'[b] = todo[b] \ {p}
  BY <1>4, <1>7, <1>8 DEF TypeOK, Stages
<1>10. /\ \A c \in Batches : Scored(c)' = IF c = b THEN Scored(c) \cup {p} ELSE Scored(c)
       /\ \A c \in Batches : \A q \in Scored(c)' :
            tier'[c][q] = IF c = b /\ q = p THEN rank ELSE tier[c][q]
       /\ DOMAIN tier' = Batches
  BY <1>7 DEF Scored, WithTier, TypeOK
<1>11. TypeOK'
  <2>1. ASSUME NEW c \in Batches
        PROVE  Scored(c)' \subseteq Nat /\ \A q \in Scored(c)' : tier'[c][q] \in 0..3
    <3>1. Scored(c) \subseteq Nat /\ \A q \in Scored(c) : tier[c][q] \in 0..3
      BY DEF TypeOK
    <3>2. ASSUME NEW q \in Scored(c)' PROVE q \in Nat /\ tier'[c][q] \in 0..3
      <4>1. tier'[c][q] = IF c = b /\ q = p THEN rank ELSE tier[c][q]
        BY <1>10
      <4>2. q \in Scored(c) \/ (c = b /\ q = p)
        BY <1>10
      <4> QED
        BY <1>4, <1>6, <3>1, <4>1, <4>2
    <3> QED
      BY <3>2
  <2>2. \A c \in Batches : stage'[c] = "triage" <=> loop' = c
    BY <1>3, <1>4, <1>7, <1>8, LimitsAssumption DEF TypeOK
  <2>3. todo' \in [Batches -> SUBSET Nat]
    BY <1>7 DEF TypeOK
  <2>4. loop' \in Batches \cup {Nobody}
    BY <1>3, <1>8
  <2> QED
    BY <1>3, <1>5, <1>8, <1>9, <1>10, <2>1, <2>2, <2>3, <2>4 DEF TypeOK, pipeVars, redisVars
<1>12. VerdictsPartition'
  BY <1>3, <1>4, <1>9 DEF VerdictsPartition
<1>13. ScoredOnce'
  <2>1. verdict[b].anomalous = Scored(b) \cup todo[b]
    BY <1>4 DEF ScoredOnce
  <2>2. \A c \in Batches :
          /\ Scored(c)' \cap todo'[c] = {}
          /\ Scored(c)' \cup todo'[c] =
               IF stage'[c] \in {"triage", "blocked", "answered"} THEN verdict'[c].anomalous ELSE {}
          /\ stage'[c] = "answered" => todo'[c] = {}
    BY <1>3, <1>4, <1>9, <1>10, <2>1 DEF ScoredOnce
  <2>3. queue' \cup dropped' \cup ToSet(critical') \subseteq
          {e \in Batches \X Nat : e[2] \in Scored(e[1])'}
    BY <1>4, <1>8, <1>10 DEF ScoredOnce
  <2> QED
    BY <2>2, <2>3 DEF ScoredOnce
<1>14. OncePerKey'
  BY <1>3 DEF OncePerKey, redisVars
<1>15. AnswerOfBatch'
  BY <1>3, <1>4, <1>9, AnswersStay DEF OnItsWay
<1> QED
  BY <1>8, <1>11, <1>12, <1>13, <1>14, <1>15

LEMMA InitKeeps == Init => IInv
<1> SUFFICES ASSUME Init PROVE IInv
  OBVIOUS
<1> USE DEF Init
<1>1. TypeOK
  <2>1. \A b \in Batches : Readable(body[b].logs) = {} /\ sent[b] = {}
    <3>1. \A b \in Batches : body[b].logs = <<>>
      BY DEF NoBody
    <3> QED
      BY <3>1 DEF Readable
  <2>2. \A b \in Batches : Scored(b) = {}
    BY DEF Scored
  <2>3. IsFiniteSet({}) /\ Cardinality({}) = 0
    BY FS_EmptySet
  <2>4. verdict \in [Batches -> [anomalous : SUBSET Nat, benign : SUBSET Nat, missed : SUBSET Nat]]
    BY DEF NoVerdict
  <2>5. stage \in [Batches -> Stages] /\ \A b \in Batches : stage[b] # "triage" /\ loop # b
    BY LimitsAssumption DEF Stages
  <2>6. alive \subseteq Nodes /\ 0 <= Slots
    BY NodesAssumption, LimitsAssumption
  <2>7. answer \in [Batches -> [normalized : Nat, deduplicated : Nat, sent : Nat,
                              anomalous : Nat, benign : Nat]]
    BY DEF NoAnswer
  <2> QED
    BY <2>1, <2>2, <2>3, <2>4, <2>5, <2>6, <2>7 DEF TypeOK
<1>2. VerdictsPartition
  BY DEF VerdictsPartition, NoVerdict
<1>3. ToSet(critical) = {} /\ IsInjective(critical) /\ Len(critical) = 0
  BY DEF ToSet, IsInjective
<1>4. \A b \in Batches : Scored(b) = {}
  BY DEF Scored
<1>5. ScoredOnce
  BY <1>3, <1>4 DEF ScoredOnce
<1>6. QueueAccounts
  BY <1>3, <1>4, FS_EmptySet, LimitsAssumption DEF QueueAccounts
<1>7. OncePerKey
  BY DEF OncePerKey
<1>8. AnswerOfBatch
  BY DEF AnswerOfBatch, OnItsWay
<1> QED
  BY <1>1, <1>2, <1>5, <1>6, <1>7, <1>8 DEF IInv

LEMMA NextKeeps == IInv /\ [Next]_vars => IInv'
<1> SUFFICES ASSUME IInv, [Next]_vars PROVE IInv'
  OBVIOUS
<1>1. ASSUME NEW b \in Batches, Submit(b) PROVE IInv'
  BY <1>1, SubmitKeeps
<1>2. ASSUME NEW b \in Batches, Advance(b) PROVE IInv'
  <2>1. \/ Send(b) \/ Gathered(b) \/ PutNext(b) \/ Answer(b)
        \/ \E chunk \in out[b] : ChunkEnds(b, chunk)
    BY <1>2 DEF Advance
  <2> QED
    BY <2>1, SendKeeps, GatheredKeeps, PutNextKeeps, AnswerKeeps, ChunkEndsKeeps
<1>3. CASE Background
  BY <1>3, StartPipelineKeeps, EndPipelineKeeps DEF Background
<1>4. ASSUME NEW node \in Nodes, Ping(node) PROVE IInv'
  <2>1. UNCHANGED <<redisVars, hits, requestVars, triageVars, loop, running>> /\ alive' \subseteq alive
    BY <1>4 DEF Ping, pipeVars
  <2>2. IsFiniteSet(running') /\ Cardinality(running') <= Slots
    BY <2>1 DEF IInv, TypeOK
  <2> QED
    BY <2>1, <2>2, BackgroundKeeps
<1>5. CASE UNCHANGED vars
  <2>1. UNCHANGED <<redisVars, hits, requestVars, triageVars, loop, running>> /\ alive' \subseteq alive
    BY <1>5 DEF vars, redisVars, requestVars, triageVars
  <2>2. IsFiniteSet(running') /\ Cardinality(running') <= Slots
    BY <2>1 DEF IInv, TypeOK
  <2> QED
    BY <2>1, <2>2, BackgroundKeeps
<1> QED
  BY <1>1, <1>2, <1>3, <1>4, <1>5 DEF Next

(***************************************************************************)
(* The inductive invariant of bulk ingest, for any number of batches, logs *)
(* and nodes and any limits: with the types, that the verdicts of a batch  *)
(* partition what its ended chunks carried, and that an anomalous alert is *)
(* scored once and only scored alerts are in the queues.                   *)
(***************************************************************************)
THEOREM InductiveInvariant == Spec => []IInv
<1>1. Init => IInv
  BY InitKeeps
<1>2. IInv /\ [Next]_vars => IInv'
  BY NextKeeps
<1> QED
  BY <1>1, <1>2, PTL DEF Spec

(***************************************************************************)
(* The triage queue loses and repeats nothing and keeps its limit, its     *)
(* counters are exact, only LOW alerts are dropped, and an alert that is   *)
(* nowhere is the one its batch waits to put (ThreatPriorityQueue.put).    *)
(***************************************************************************)
THEOREM QueueLosesNothing == Spec => []QueueAccounts
<1>1. IInv => QueueAccounts
  BY DEF IInv
<1> QED
  BY <1>1, InductiveInvariant, PTL

(***************************************************************************)
(* Between two times that Redis forgets a key, at most one alert of that   *)
(* key passes a working dedup, in whatever batches (_deduplicate).         *)
(***************************************************************************)
THEOREM DedupPassesOnce == Spec => []OncePerKey
<1>1. IInv => OncePerKey
  BY DEF IInv
<1> QED
  BY <1>1, InductiveInvariant, PTL

LEMMA DisjointUnion ==
  ASSUME NEW S, NEW T, IsFiniteSet(S), IsFiniteSet(T), S \cap T = {}
  PROVE  Cardinality(S \cup T) = Cardinality(S) + Cardinality(T)
<1> DEFINE m == Cardinality(S)
           n == Cardinality(T)
           k == Cardinality(S \cup T)
<1>1. m \in Nat /\ n \in Nat
  BY FS_CardinalityType
<1>2. Cardinality(S \cap T) = 0
  BY FS_EmptySet
<1>3. k = m + n - Cardinality(S \cap T)
  BY FS_Union
<1> HIDE DEF m, n, k
<1>4. k = m + n
  BY <1>1, <1>2, <1>3
<1> QED
  BY <1>4 DEF m, n, k

(***************************************************************************)
(* What an answer says of its alerts is true: what is not sent is a        *)
(* duplicate, the anomalous ones were all scored, and what neither verdict *)
(* counts was lost with a node.  The answer of a batch of duplicates, that *)
(* calls them benign, is its own case (bulk_ingest, BulkIngestResponse).   *)
(***************************************************************************)
THEOREM AnswersAreComplete == Spec => []AnswersAddUp
<1>1. IInv => AnswersAddUp
  <2> SUFFICES ASSUME IInv, NEW b \in Batches, stage[b] = "answered"
               PROVE  /\ answer[b].deduplicated + answer[b].sent = answer[b].normalized
                      /\ answer[b].anomalous = Cardinality(Scored(b))
                      /\ answer[b].anomalous + answer[b].benign + Cardinality(verdict[b].missed)
                           = IF answer[b].sent = 0 THEN answer[b].normalized ELSE answer[b].sent
    BY DEF AnswersAddUp
  <2> DEFINE A == verdict[b].anomalous
             B == verdict[b].benign
             M == verdict[b].missed
             R == Readable(body[b].logs)
  <2>1. /\ A \cup B \cup M = sent[b] /\ A \cap B = {} /\ (A \cup B) \cap M = {}
    BY DEF IInv, VerdictsPartition
  <2>2. IsFiniteSet(sent[b]) /\ IsFiniteSet(R) /\ sent[b] \subseteq R
    BY SentTypes, BodyTypes DEF IInv, TypeOK
  <2>3. Scored(b) = A
    <3>1. Scored(b) \cup todo[b] = A /\ todo[b] = {}
      BY DEF IInv, ScoredOnce
    <3> QED
      BY <3>1
  <2>4. answer[b] = IF sent[b] = {} THEN Counts(R, {}, 0, Cardinality(R))
                    ELSE Counts(R, sent[b], Cardinality(A), Cardinality(B))
    BY DEF IInv, AnswerOfBatch, Duplicates, Response
  <2> HIDE DEF A, B, M, R
  <2>5. IsFiniteSet(A) /\ IsFiniteSet(B) /\ IsFiniteSet(M) /\ IsFiniteSet(A \cup B)
    BY <2>1, <2>2, FS_Subset
  <2>6. /\ Cardinality(A) \in Nat /\ Cardinality(B) \in Nat /\ Cardinality(M) \in Nat
        /\ Cardinality(R) \in Nat /\ Cardinality(sent[b]) \in Nat /\ Cardinality({}) = 0
    BY <2>2, <2>5, FS_CardinalityType, FS_EmptySet
  <2>7. CASE sent[b] = {}
    <3>1. A = {} /\ M = {}
      BY <2>1, <2>7
    <3>2. /\ answer[b].normalized = Cardinality(R)
          /\ answer[b].deduplicated = Cardinality(R) - Cardinality({})
          /\ answer[b].sent = Cardinality({}) /\ answer[b].anomalous = 0
          /\ answer[b].benign = Cardinality(R)
      BY <2>4, <2>7 DEF Counts
    <3> QED
      BY <2>3, <2>6, <3>1, <3>2 DEF M
  <2>8. CASE sent[b] # {}
    <3>1. Cardinality(A \cup B) = Cardinality(A) + Cardinality(B)
      BY <2>1, <2>5, DisjointUnion
    <3>2. Cardinality((A \cup B) \cup M) = Cardinality(A \cup B) + Cardinality(M)
      BY <2>1, <2>5, DisjointUnion
    <3>3. Cardinality(sent[b]) = Cardinality(A) + Cardinality(B) + Cardinality(M)
      BY <2>1, <2>6, <3>1, <3>2
    <3>4. Cardinality(sent[b]) # 0
      BY <2>2, <2>8, FS_EmptySet
    <3>5. /\ answer[b].normalized = Cardinality(R)
          /\ answer[b].deduplicated = Cardinality(R) - Cardinality(sent[b])
          /\ answer[b].sent = Cardinality(sent[b]) /\ answer[b].anomalous = Cardinality(A)
          /\ answer[b].benign = Cardinality(B)
      BY <2>4, <2>8 DEF Counts
    <3> QED
      BY <2>3, <2>6, <3>3, <3>4, <3>5 DEF M
  <2> QED
    BY <2>7, <2>8
<1> QED
  BY <1>1, InductiveInvariant, PTL
=============================================================================
