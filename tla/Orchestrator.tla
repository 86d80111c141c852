---------------------------- MODULE Orchestrator ----------------------------
(***************************************************************************)
(* The orchestrator (orchestrator/server.py): run_pipeline takes an alert  *)
(* through the layers, and call_layer reaches a layer through its URLs in  *)
(* turn, past a circuit breaker for each.                                  *)
(*                                                                         *)
(* The process is one event loop: a pipeline runs without interruption     *)
(* between two awaits, so each await of a layer is a stage and the action  *)
(* named for the stage is everything up to the next one.  Layer 3 acts on  *)
(* what it receives, so call_layer is modelled in full for it; of the      *)
(* other layers only the outcome matters here.                             *)
(*                                                                         *)
(* Definitions marked "Seeded fault" are the next definition with a        *)
(* plausible bug; nothing uses them.                                       *)
(***************************************************************************)
EXTENDS Integers, Sequences, FiniteSets

CONSTANTS Pipelines,  \* the runs of run_pipeline that may be active at once
          Keys,       \* source address and attack type of an alert
          NoKey,
          Urls,
          Order,      \* LAYER_URLS[3]: the URLs, the primary one first; with
                      \* LAYER3_URL at its fallback's default, that one twice
          Threshold   \* failure_threshold

ASSUME KeyAssumption       == NoKey \notin Keys
ASSUME OrderAssumption     == Order \in Seq(Urls)
ASSUME ThresholdAssumption == Threshold \in Nat \ {0}

VARIABLES
  stage,     \* what a pipeline awaits
  key,       \* the key of its alert
  plan,      \* what the relevance filter and Layer 4 allow: retraining, a playbook
  at,        \* the position in Order of the URL it awaits, 0 for none
  probe,     \* its call was let through by a breaker in HALF_OPEN
  taken,     \* the service at that URL has taken the alert
  served,    \* how often the service behind a URL took its alert
  failures,  \* _failures, counted up to Threshold
  circuit,   \* _state
  cooled,    \* recovery_timeout has passed since an OPEN circuit's last failure
  seen,      \* _seen_alerts holds the key, less than 60 s old
  passed     \* how many alerts of the key passed the filter in this window

breakerVars  == <<failures, circuit, cooled>>
filterVars   == <<seen, passed>>
pipelineVars == <<stage, key, plan, at, probe, taken, served>>
vars == <<pipelineVars, breakerVars, filterVars>>

Stages == {"idle", "detect", "correlate", "respond", "retrain", "playbook"}
Plans  == [retrain : BOOLEAN, playbook : BOOLEAN]
NoPlan == [retrain |-> FALSE, playbook |-> FALSE]

TypeOK ==
  /\ stage    \in [Pipelines -> Stages]
  /\ key      \in [Pipelines -> Keys \cup {NoKey}]
  /\ plan     \in [Pipelines -> Plans]
  /\ at       \in [Pipelines -> 0..Len(Order)]
  /\ probe    \in [Pipelines -> BOOLEAN]
  /\ taken    \in [Pipelines -> BOOLEAN]
  /\ served   \in [Pipelines -> [Urls -> Nat]]
  /\ failures \in [Urls -> 0..Threshold]
  /\ circuit  \in [Urls -> {"CLOSED", "OPEN", "HALF_OPEN"}]
  /\ cooled   \in [Urls -> BOOLEAN]
  /\ seen     \in [Keys -> BOOLEAN]
  /\ passed   \in [Keys -> Nat]

Init ==
  /\ stage    = [p \in Pipelines |-> "idle"]
  /\ key      = [p \in Pipelines |-> NoKey]
  /\ plan     = [p \in Pipelines |-> NoPlan]
  /\ at       = [p \in Pipelines |-> 0]
  /\ probe    = [p \in Pipelines |-> FALSE]
  /\ taken    = [p \in Pipelines |-> FALSE]
  /\ served   = [p \in Pipelines |-> [u \in Urls |-> 0]]
  /\ failures = [u \in Urls |-> 0]
  /\ circuit  = [u \in Urls |-> "CLOSED"]
  /\ cooled   = [u \in Urls |-> FALSE]
  /\ seen     = [k \in Keys |-> FALSE]
  /\ passed   = [k \in Keys |-> 0]

\* run_pipeline returns or raises.
End(p) ==
  /\ stage' = [stage EXCEPT ![p] = "idle"]
  /\ key'   = [key EXCEPT ![p] = NoKey]
  /\ plan'  = [plan EXCEPT ![p] = NoPlan]
  /\ served' = [served EXCEPT ![p] = [u \in Urls |-> 0]]
-----------------------------------------------------------------------------
\* POST /pipeline/run, when the token bucket has a token for it.
Start(p) ==
  /\ stage[p] = "idle"
  /\ \E k \in Keys : key' = [key EXCEPT ![p] = k]
  /\ stage' = [stage EXCEPT ![p] = "detect"]
  /\ UNCHANGED <<plan, at, probe, taken, served, breakerVars, filterVars>>

(***************************************************************************)
(* Layer 1 is offline, the alert is benign or noise, or the filter saw its *)
(* key in the last 60 s.                                                   *)
(***************************************************************************)
Dismiss(p) ==
  /\ stage[p] = "detect"
  /\ End(p)
  /\ UNCHANGED <<at, probe, taken, breakerVars, filterVars>>

\* Seeded fault: a novel attack is let through before the key is remembered.
PassNovelFirst(p) ==
  /\ stage[p] = "detect" /\ ~seen[key[p]]
  /\ \E quality \in {"novel", "high", "medium", "low"} :
       /\ plan' = [plan EXCEPT ![p] = [retrain  |-> quality = "high",
                                       playbook |-> quality # "low"]]
       /\ seen' = [seen EXCEPT ![key[p]] = quality # "novel"]
  /\ passed' = [passed EXCEPT ![key[p]] = @ + 1]
  /\ stage' = [stage EXCEPT ![p] = "correlate"]
  /\ UNCHANGED <<key, at, probe, taken, served, breakerVars>>

\* relevance_filter lets an alert of some quality through and remembers its key.
Pass(p) ==
  /\ stage[p] = "detect" /\ ~seen[key[p]]
  /\ \E quality \in {"novel", "high", "medium", "low"} :
       plan' = [plan EXCEPT ![p] = [retrain  |-> quality = "high",
                                    playbook |-> quality # "low"]]
  /\ seen' = [seen EXCEPT ![key[p]] = TRUE]
  /\ passed' = [passed EXCEPT ![key[p]] = @ + 1]
  /\ stage' = [stage EXCEPT ![p] = "correlate"]
  /\ UNCHANGED <<key, at, probe, taken, served, breakerVars>>

Expire(k) ==
  /\ seen[k]
  /\ seen' = [seen EXCEPT ![k] = FALSE]
  /\ passed' = [passed EXCEPT ![k] = 0]
  /\ UNCHANGED <<pipelineVars, breakerVars>>
-----------------------------------------------------------------------------
\* can_proceed, for the circuits as c has them.
CanProceed(c, u) == c[u] = "OPEN" => cooled[u]

\* The positions from i on that a call may still go to.
Permitted(c, i) == {j \in i..Len(Order) : CanProceed(c, Order[j])}

Go(p, next, wanted) ==
  /\ stage' = [stage EXCEPT ![p] = next]
  /\ plan'  = [plan EXCEPT ![p] = wanted]
  /\ UNCHANGED <<key, served>>

\* After Layer 3: the retraining gate, then the playbook gate.
Proceed(p, wanted) ==
  \/ wanted.retrain /\ Go(p, "retrain", wanted)
  \/ ~wanted.retrain /\ wanted.playbook /\ Go(p, "playbook", wanted)
  \/ ~wanted.retrain /\ ~wanted.playbook /\ End(p)

(***************************************************************************)
(* call_layer from position i on, the circuits being c: the first URL      *)
(* whose breaker lets the call through, which takes an OPEN circuit to     *)
(* HALF_OPEN; when there is none, the pipeline falls back to "monitor".    *)
(***************************************************************************)
Try(p, i, c, wanted) ==
  /\ taken' = [taken EXCEPT ![p] = FALSE]
  /\ \/ /\ Permitted(c, i) = {}
        /\ Proceed(p, wanted)
        /\ at' = [at EXCEPT ![p] = 0]
        /\ probe' = [probe EXCEPT ![p] = FALSE]
        /\ circuit' = c
     \/ \E j \in Permitted(c, i) :
        /\ \A k \in Permitted(c, i) : j <= k
        /\ Go(p, "respond", wanted)
        /\ at' = [at EXCEPT ![p] = j]
        /\ probe' = [probe EXCEPT ![p] = c[Order[j]] # "CLOSED"]
        /\ circuit' = [c EXCEPT ![Order[j]] = IF @ = "OPEN" THEN "HALF_OPEN" ELSE @]

(***************************************************************************)
(* Layers 2 and 4 have answered or failed.  Without Layer 2 there is no    *)
(* call of Layer 3; without Layer 4 there is no retraining.                *)
(***************************************************************************)
Correlate(p) ==
  /\ stage[p] = "correlate"
  /\ \E wanted \in {plan[p], [plan[p] EXCEPT !.retrain = FALSE]} :
       \/ Try(p, 1, circuit, wanted)
       \/ Proceed(p, wanted) /\ UNCHANGED <<at, probe, taken, circuit>>
  /\ UNCHANGED <<failures, cooled, filterVars>>

\* The service takes the alert: from here on it may act on it.
Serve(p) ==
  /\ stage[p] = "respond" /\ ~taken[p]
  /\ taken' = [taken EXCEPT ![p] = TRUE]
  /\ served' = [served EXCEPT ![p][Order[at[p]]] = @ + 1]
  /\ UNCHANGED <<stage, key, plan, at, probe, breakerVars, filterVars>>

\* Seeded fault: a success takes back one failure.
SuccessDecays(u) == [failures EXCEPT ![u] = @ - 1]

\* record_success
Success(u) == [failures EXCEPT ![u] = 0]

\* Layer 3 answers.
Answered(p) ==
  LET u == Order[at[p]] IN
  /\ stage[p] = "respond" /\ taken[p]
  /\ failures' = Success(u)
  /\ circuit' = [circuit EXCEPT ![u] = "CLOSED"]
  /\ Proceed(p, plan[p])
  /\ at' = [at EXCEPT ![p] = 0]
  /\ probe' = [probe EXCEPT ![p] = FALSE]
  /\ taken' = [taken EXCEPT ![p] = FALSE]
  /\ UNCHANGED <<cooled, filterVars>>

\* record_failure: the counts and the circuits after a failure of u.
OneMore(u) == IF failures[u] < Threshold THEN failures[u] + 1 ELSE Threshold
Failure(u) == [failures EXCEPT ![u] = OneMore(u)]

\* Seeded fault: the circuit opens one failure late.
TrippedLate(u) == [circuit EXCEPT ![u] = IF failures[u] >= Threshold THEN "OPEN" ELSE @]

\* Seeded fault: only a closed circuit is opened.
TrippedClosed(u) ==
  [circuit EXCEPT ![u] = IF @ = "CLOSED" /\ OneMore(u) >= Threshold THEN "OPEN" ELSE @]

Tripped(u) == [circuit EXCEPT ![u] = IF OneMore(u) >= Threshold THEN "OPEN" ELSE @]

\* Seeded fault: the loop asks the URL that failed once more.
FailedAgain(p) ==
  LET u == Order[at[p]] IN
  /\ stage[p] = "respond"
  /\ failures' = Failure(u)
  /\ cooled' = [cooled EXCEPT ![u] = FALSE]
  /\ Try(p, at[p], Tripped(u), plan[p])
  /\ UNCHANGED filterVars

(***************************************************************************)
(* Connection refused, an HTTP error or a timeout, the last also after the *)
(* service took the alert: the next URL is tried.                          *)
(***************************************************************************)
Failed(p) ==
  LET u == Order[at[p]] IN
  /\ stage[p] = "respond"
  /\ failures' = Failure(u)
  /\ cooled' = [cooled EXCEPT ![u] = FALSE]
  /\ Try(p, at[p] + 1, Tripped(u), plan[p])
  /\ UNCHANGED filterVars

\* An answer whose body is no JSON: a success is recorded, then a failure.
Unreadable(p) ==
  LET u == Order[at[p]]
      state == IF Threshold = 1 THEN "OPEN" ELSE "CLOSED"
  IN
  /\ stage[p] = "respond" /\ taken[p]
  /\ failures' = [failures EXCEPT ![u] = 1]
  /\ cooled' = [cooled EXCEPT ![u] = FALSE]
  /\ Try(p, at[p] + 1, [circuit EXCEPT ![u] = state], plan[p])
  /\ UNCHANGED filterVars

\* More than recovery_timeout has passed since the last failure.
Cool(u) ==
  /\ circuit[u] = "OPEN" /\ ~cooled[u]
  /\ cooled' = [cooled EXCEPT ![u] = TRUE]
  /\ UNCHANGED <<pipelineVars, failures, circuit, filterVars>>
-----------------------------------------------------------------------------
\* Layer 4's /retrain has answered or failed.
Retrained(p) ==
  /\ stage[p] = "retrain"
  /\ Proceed(p, [plan[p] EXCEPT !.retrain = FALSE])
  /\ UNCHANGED <<at, probe, taken, breakerVars, filterVars>>

\* The playbook is written or its default taken, and the result is published:
\* run_pipeline returns, or Redis is down and it raises.
Publish(p) ==
  /\ stage[p] = "playbook"
  /\ End(p)
  /\ UNCHANGED <<at, probe, taken, breakerVars, filterVars>>
-----------------------------------------------------------------------------
Step(p) == \/ Dismiss(p) \/ Pass(p) \/ Correlate(p) \/ Answered(p) \/ Failed(p)
           \/ Unreadable(p) \/ Retrained(p) \/ Publish(p)

Next == \/ \E p \in Pipelines : Start(p) \/ Serve(p) \/ Step(p)
        \/ \E u \in Urls : Cool(u)
        \/ \E k \in Keys : Expire(k)

Spec == Init /\ [][Next]_vars

(***************************************************************************)
(* Every await of a pipeline has a timeout, and the event loop resumes the *)
(* pipeline.  Nobody is obliged to start one, nor a service to answer.     *)
(***************************************************************************)
FairSpec == Spec /\ \A p \in Pipelines : WF_vars(Step(p))
-----------------------------------------------------------------------------
(***************************************************************************)
(* A circuit is closed exactly while fewer than Threshold failures have    *)
(* been recorded since the last success, whatever calls were under way     *)
(* when it changed and however late they end.                              *)
(***************************************************************************)
BreakerCounts == \A u \in Urls : circuit[u] = "CLOSED" <=> failures[u] < Threshold

(***************************************************************************)
(* A half-open circuit always has a test under way that was let through    *)
(* for it, whose end closes or opens it: however calls that were let       *)
(* through earlier end, no circuit stays half-open (can_proceed).          *)
(***************************************************************************)
Tests(p, u) == stage[p] = "respond" /\ probe[p] /\ at[p] # 0 /\ Order[at[p]] = u

HalfOpenIsTested == \A u \in Urls : circuit[u] = "HALF_OPEN" => \E p \in Pipelines : Tests(p, u)

(***************************************************************************)
(* Of all the alerts with one key, one goes on to Layer 2 in a window of   *)
(* 60 s, however many pipelines await Layer 1 at the same time.            *)
(***************************************************************************)
OncePerWindow == \A k \in Keys : passed[k] <= 1

(***************************************************************************)
(* Failover hands an alert to a Layer 3 service at most once for each      *)
(* place the service has in the list, and only once call_layer has come to *)
(* that place: one that took the alert and was slow is asked again where   *)
(* the list names it again, as it does when LAYER3_URL is localhost:8003,  *)
(* and nowhere else.                                                       *)
(***************************************************************************)
Listed(u, n) == Cardinality({i \in 1..n : Order[i] = u})

Allowed(p, u) ==
  IF stage[p] # "respond" THEN Listed(u, Len(Order))
  ELSE Listed(u, at[p] - 1) + IF taken[p] /\ Order[at[p]] = u THEN 1 ELSE 0

ServedAsListed == \A p \in Pipelines, u \in Urls : served[p][u] <= Allowed(p, u)

(***************************************************************************)
(* The invariant that the proofs are by induction on: the breaker counts;  *)
(* a key that is not remembered has not passed; a pipeline that awaits     *)
(* Layer 3 awaits one of its URLs; no service has the alert of a pipeline  *)
(* that has not come that far, and none more often than it is listed.      *)
(***************************************************************************)
WindowCounts == \A k \in Keys : passed[k] <= (IF seen[k] THEN 1 ELSE 0)
AskedUrl     == \A p \in Pipelines : stage[p] = "respond" => at[p] # 0
Unserved     == \A p \in Pipelines : stage[p] \in {"idle", "detect", "correlate"} =>
                                        served[p] = [u \in Urls |-> 0]
IInv == TypeOK /\ BreakerCounts /\ WindowCounts /\ AskedUrl /\ Unserved /\ ServedAsListed

\* A pipeline ends, also when services stop answering and circuits open under it.
PipelinesEnd == \A p \in Pipelines : stage[p] # "idle" ~> stage[p] = "idle"
=============================================================================
