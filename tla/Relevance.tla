------------------------------- MODULE Relevance -------------------------------
(***************************************************************************)
(* RelevanceAnalyzer of Layer 1 (layer1_detection/relevance_analyzer.py):  *)
(* which detections are worth handing on.  One analyzer keeps when it last *)
(* let a detection of a source through its first checks.                   *)
(*                                                                         *)
(* Times are in seconds since the epoch; a source without an entry in      *)
(* _dedup_cache has the time 0, which get() gives for it.  Probabilities   *)
(* and scores are in hundredths.                                           *)
(***************************************************************************)
EXTENDS Integers

CONSTANT Addresses \* source addresses

Analyzers == [seen : [Addresses -> Nat], cleaned : Nat]

\* What analyze is given, with the outcomes of its random experiments: the
\* confidence of the dropout samples and the share of flipped predictions.
Detections ==
  [anomalous : BOOLEAN, source : Addresses, named : BOOLEAN, score : 0..100,
   features : {"good", "empty", "zero", "nan or inf", "extreme"},
   confidence : 0..100, flips : 0..100]

Window == 300 \* DEDUP_WINDOW_SECONDS

\* _cleanup_dedup_cache.
Cleaned(z, now) ==
  IF now - z.cleaned < 60 THEN z
  ELSE [seen |-> [s \in Addresses |-> IF z.seen[s] < now - Window THEN 0 ELSE z.seen[s]],
        cleaned |-> now]

\* _is_duplicate, which reads the clock again after the cleanup.
Duplicate(z, source, now) == now - z.seen[source] < Window
Stamped(z, source, now) == [z EXCEPT !.seen = [@ EXCEPT ![source] = now]]

\* The first checks: they do not look at how certain the detection is.
Examined(d) == d.anomalous /\ d.features = "good"
Suppressed(z, d, now) == d.named /\ Duplicate(z, d.source, now)

\* _adversarial_robustness without a prediction function, the only way it is
\* called: an anomaly flips in between 5 and 25 of a hundred.
Simulated(d) == d.flips \in 5..25

\* _compute_relevance_score of an anomaly, in ten-thousandths.
RelevanceScore(d) == 60 * d.score + 40 * d.confidence

Confident(d) == d.confidence > 75
Relevant(d)  == RelevanceScore(d) > 5500
Robust(d)    == d.flips < 30

\* analyze, when the cleanup runs at now and the look-up at later.
Reason(z, d, now, later) ==
  IF ~d.anomalous THEN "not_anomalous"
  ELSE IF d.features # "good" THEN "features"
  ELSE IF Suppressed(Cleaned(z, now), d, later) THEN "duplicate"
  ELSE IF ~Confident(d) THEN "low_confidence"
  ELSE IF ~Relevant(d) THEN "low_relevance"
  ELSE IF ~Robust(d) THEN "high_flip_rate" ELSE "passes"

After(z, d, now, later) ==
  IF ~Examined(d) \/ ~d.named THEN z
  ELSE IF Duplicate(Cleaned(z, now), d.source, later) THEN Cleaned(z, now)
  ELSE Stamped(Cleaned(z, now), d.source, later)
-----------------------------------------------------------------------------
\* The fusion of /ingest/batch, whose anomalies the analyzer is made for.
FusedScore(prob, outlier, far) ==
  LET flagged == IF outlier THEN 80 ELSE IF far THEN 70 ELSE 0
  IN IF prob > flagged THEN prob ELSE flagged
FusedAnomaly(prob, outlier, far) == prob > 50 \/ outlier \/ far
=============================================================================
