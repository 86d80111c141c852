----------------------------- MODULE MCDetection -----------------------------
\* The small instance of Detection: three bodies with one id, which a known
\* address makes anomalous or not; two raw requests with the same log, which
\* asks the language model, and one whose log needs none.
EXTENDS Detection, TLC

CONSTANTS r1, r2, r3

Body(id, source, features, prob, outlier, far) ==
  [id |-> id, source |-> source, features |-> features, prob |-> prob,
   outlier |-> outlier, far |-> far]
MCAlerts ==
  {Body("i1", "s1", "full", 40, FALSE, FALSE), Body("i1", "s1", "short", 10, TRUE, TRUE),
   Body("i1", "s1", "none", 90, FALSE, FALSE)}

MCLogs ==
  ("prose" :> [precheck |-> "passes on", source |-> "s1", severity |-> 50, prob |-> 90, far |-> FALSE]) @@
  ("pairs" :> [precheck |-> "parses", source |-> "s1", severity |-> 90, prob |-> 0, far |-> TRUE])
MCRaw == (r1 :> "prose") @@ (r2 :> "prose") @@ (r3 :> "pairs")
MCEvents == [type : {"threat_feed"}, source : Sources]
Identical == Permutations({r1, r2})
=============================================================================
