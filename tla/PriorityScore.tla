---------------------------- MODULE PriorityScore ----------------------------
(***************************************************************************)
(* compute_priority_score of shared/priority_engine.py.  Its numbers have  *)
(* two decimals, so a component score is an integer in hundredths and the  *)
(* weighted sum of components one in ten-thousandths; the code's floats    *)
(* may differ from it by a rounding error at a tier's edge.                *)
(***************************************************************************)
EXTENDS Integers, FiniteSets

\* The kill-chain weight of an attack type; a name that contains none of
\* the others weighs like "unknown".
MitreWeights ==
  [PortScan |-> 40, Reconnaissance |-> 35, Phishing |-> 55, BruteForce |-> 60, SQLi |-> 70,
   CommandInjection |-> 75, Backdoor |-> 80, PrivEsc |-> 85, LateralMovement |-> 88,
   C2 |-> 90, Exfiltration |-> 95, DataTheft |-> 95, Ransomware |-> 100, DDoS |-> 70,
   unknown |-> 45]

MitreScore(attack) ==
  IF attack \in DOMAIN MitreWeights THEN MitreWeights[attack] ELSE MitreWeights["unknown"]

\* The first digit of an octet.  The code compares the prefixes of dotted
\* strings, so "10.0.1" is also the beginning of 10.0.12.7 and 10.0.100.7.
FirstDigit(octet) ==
  IF octet < 10 THEN octet ELSE IF octet < 100 THEN octet \div 10 ELSE octet \div 100

\* By the first digit of the third octet, within 10.0.
TenScore == <<95, 70, 60, 40>>
AssetCriticality(dest) ==
  LET digit == FirstDigit(dest[3])
  IN IF dest[1] = 10 /\ dest[2] = 0 /\ digit = 0 THEN 100
     ELSE IF dest[1] = 10 /\ dest[2] = 0 /\ digit \in 1..4 THEN TenScore[digit]
     ELSE IF dest[1] = 172 /\ (dest[2] = 16 \/ dest[2] \in 160..169) THEN 45
     ELSE IF dest[1] \in {10, 172} \/ (dest[1] = 192 /\ dest[2] = 168) THEN 50
     ELSE 85

\* A severity is a float, in hundredths, or something else, read as a word.
SeverityWord(word) ==
  IF word = "critical" THEN 100 ELSE IF word = "high" THEN 75 ELSE IF word = "medium" THEN 50
  ELSE IF word = "low" THEN 25 ELSE IF word = "info" THEN 10 ELSE 50
SeverityScore(severity) ==
  IF ~severity.float THEN SeverityWord(severity.value)
  ELSE IF severity.value > 100 THEN 100 ELSE IF severity.value < 0 THEN 0 ELSE severity.value

\* How many hits of the source are in the window of 300 s.
ChainScore(hits) ==
  IF hits >= 10 THEN 100 ELSE IF hits >= 5 THEN 80 ELSE IF hits >= 3 THEN 60
  ELSE IF hits = 2 THEN 30 ELSE 0

\* The five components of an alert whose source has this many hits.
Components(alert, hits) ==
  [anomaly  |-> alert.anomaly,
   severity |-> SeverityScore(alert.severity),
   asset    |-> AssetCriticality(alert.dest),
   chain    |-> ChainScore(hits),
   mitre    |-> MitreScore(alert.attack),
   ioc      |-> alert.ioc]

Weighted(c) ==
  30 * c.anomaly + 20 * c.severity + 20 * c.asset + 20 * c.chain + 10 * c.mitre

Capped(score) == IF score > 10000 THEN 10000 ELSE score

CriticalOverride(c) ==
  \/ c.mitre >= 90 /\ c.anomaly >= 70
  \/ c.asset >= 95 /\ c.anomaly >= 75 /\ c.severity >= 70
  \/ c.chain >= 80 /\ c.asset >= 60 /\ c.anomaly >= 65
  \/ c.ioc /\ c.anomaly >= 60
  \/ c.mitre >= 85 /\ c.severity >= 70

FinalScore(c) ==
  LET score == Capped(IF c.ioc THEN 2 * Weighted(c) ELSE Weighted(c))
  IN IF CriticalOverride(c) /\ score < 9000 THEN 9000 ELSE score

\* queue_priority: 0 CRITICAL, 1 HIGH, 2 MEDIUM, 3 LOW.
TierOf(score) ==
  IF score >= 8500 THEN 0 ELSE IF score >= 6500 THEN 1 ELSE IF score >= 4000 THEN 2 ELSE 3

Tier(alert, hits) == TierOf(FinalScore(Components(alert, hits)))
=============================================================================
