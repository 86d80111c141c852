-------------------------- MODULE ThreatMemoryProofs --------------------------
(***************************************************************************)
(* Theorems about ThreatMemory, for all sets of requests, chains and       *)
(* addresses and whatever the models answer.  The five conjuncts of the    *)
(* invariant are kept by one lemma each, with a step per transaction.      *)
(***************************************************************************)
EXTENDS ThreatMemory, FiniteSetTheorems, TLAPS

LEMMA ObservationType ==
  ASSUME NEW b
  PROVE  Observation(b) \in Observations
BY DEF Observation, Observations

LEMMA LastObserved ==
  ASSUME NEW c, observed[c] \in Seq(Observations), observed[c] # <<>>
  PROVE  Last(Recent(c)) \in Observations
<1> DEFINE s == observed[c]
           first == IF Len(s) > Limit THEN Len(s) - Limit + 1 ELSE 1
<1>1. Len(s) \in Nat \ {0} /\ first \in 1..Len(s)
  BY LimitAssumption
<1>2. Recent(c) = SubSeq(s, first, Len(s))
  BY DEF Recent
<1> HIDE DEF first
<1>3. Len(Recent(c)) = Len(s) - first + 1 /\ Recent(c)[Len(s) - first + 1] = s[Len(s)]
  BY <1>1, <1>2
<1> QED
  BY <1>1, <1>3 DEF Last

LEMMA OpinionTypes ==
  ASSUME NEW c, observed[c] \in Seq(Observations), observed[c] # <<>>
  PROVE  LstmStages \subseteq Stages /\ HmmStages(c) \subseteq Stages
<1>1. LstmStages \subseteq Stages
  BY DEF LstmStages, Stages
<1> DEFINE half == Last(Recent(c)) \div 2
<1>2. half \in 0..4
  BY LastObserved DEF Observations
<1>3. HmmStages(c) \subseteq Stages
  <2> HIDE DEF half
  <2>1. (IF half > 4 THEN 4 ELSE half) \in 0..4
    BY <1>2
  <2> QED
    BY <2>1 DEF HmmStages, Stages, half
<1> QED
  BY <1>1, <1>3

LEMMA FindingType ==
  ASSUME NEW lstm \in Stages, NEW hmm \in Stages
  PROVE  Finding(lstm, hmm) \in [state : Stages, risk : Risks]
<1>1. \A stage \in Stages : StateRisk(stage) \in Risks
  BY DEF StateRisk, Stages, Risks
<1> QED
  BY <1>1 DEF Finding, Stages, Risks

(***************************************************************************)
(* The histories the counts speak of are finite.                           *)
(***************************************************************************)
LEMMA FiniteHistories ==
  ASSUME TypeOK
  PROVE  /\ IsFiniteSet(Range(predictions))
         /\ \A T : T \subseteq Range(predictions) => IsFiniteSet(T) /\ Cardinality(T) \in Nat
         /\ \A c : IsFiniteSet(CutOn(c)) /\ Cardinality(CutOn(c)) \in Nat
<1>1. Len(predictions) \in Nat /\ predictions \in [1..Len(predictions) -> Range(predictions)]
  BY DEF TypeOK, Range
<1>2. predictions \in Surjection(1..Len(predictions), Range(predictions))
  BY <1>1 DEF Surjection, Range
<1>3. IsFiniteSet(Range(predictions))
  BY <1>1, <1>2, FS_Interval, FS_Surjection
<1>4. \A T : T \subseteq Range(predictions) => IsFiniteSet(T) /\ Cardinality(T) \in Nat
  BY <1>3, FS_Subset, FS_CardinalityType
<1>5. \A c : IsFiniteSet(CutOn(c)) /\ Cardinality(CutOn(c)) \in Nat
  BY FS_Subset, FS_CardinalityType DEF TypeOK, CutOn
<1> QED
  BY <1>3, <1>4, <1>5

LEMMA LoggedRange ==
  ASSUME TypeOK, NEW p \in Predictions, predictions' = Append(predictions, p)
  PROVE  /\ Range(predictions)' = Range(predictions) \cup {p}
         /\ Len(predictions)' = Len(predictions) + 1
         /\ \A i \in 1..Len(predictions) : predictions'[i] = predictions[i]
         /\ predictions'[Len(predictions) + 1] = p
<1>1. predictions \in Seq(Predictions)
  BY DEF TypeOK
<1>2. /\ Len(predictions') = Len(predictions) + 1
      /\ DOMAIN predictions' = 1..Len(predictions) + 1
      /\ \A i \in 1..Len(predictions) : predictions'[i] = predictions[i]
      /\ predictions'[Len(predictions) + 1] = p
  BY <1>1
<1> QED
  BY <1>1, <1>2 DEF Range

(***************************************************************************)
(* TypeOK.                                                                 *)
(***************************************************************************)
Counted(row) == [row EXCEPT !.count = @ + 1]

LEMMA NewTypes ==
  ASSUME NEW ip \in Ips
  PROVE  NewChain(ip) \in Rows /\ NewChain(ip).known /\ NewChain(ip).count = 0
BY DEF Rows, NewChain, Stages, Risks

LEMMA CountedTypes ==
  ASSUME NEW row \in Rows
  PROVE  /\ Counted(row) \in Rows
         /\ Counted(row).known = row.known
         /\ Counted(row).count = row.count + 1
         /\ Counted(row).state = row.state
         /\ Counted(row).risk = row.risk
<1>1. Counted(row) \in Rows
  BY DEF Counted, Rows
<1> QED
  BY <1>1 DEF Counted, Rows

LEMMA ShowingTypes ==
  ASSUME NEW row \in Rows, NEW finding \in [state : Stages, risk : Risks]
  PROVE  /\ Showing(row, finding) \in Rows
         /\ Showing(row, finding).known = row.known
         /\ Showing(row, finding).count = row.count
         /\ Showing(row, finding).state = finding.state
         /\ Showing(row, finding).risk = finding.risk
<1>1. Showing(row, finding) \in Rows
  BY DEF Showing, Rows
<1> QED
  BY <1>1 DEF Showing, Rows

LEMMA ArrivalTypes ==
  ASSUME TypeOK, NEW r \in Requests, Receive(r)
  PROVE  /\ body'.chain \in Chains /\ body'.ip \in Ips
         /\ chains' = IF chains[body'.chain].known THEN chains
                      ELSE [chains EXCEPT ![body'.chain] = NewChain(body'.ip)]
         /\ Known' = Known \cup {body'.chain}
<1>1. PICK b \in Bodies, c \in Chains :
        /\ body' = [b EXCEPT !.chain = c]
        /\ chains' = IF chains[c].known THEN chains ELSE [chains EXCEPT ![c] = NewChain(b.ip)]
  BY BodiesAssumption, AutoAssumption DEF Receive
<1>2. body'.chain = c /\ body'.ip = b.ip /\ b.ip \in Ips
  BY <1>1, BodiesAssumption
<1>3. Known' = Known \cup {c}
  BY <1>1 DEF TypeOK, Known, NewChain
<1> QED
  BY <1>1, <1>2, <1>3

LEMMA TypeStep ==
  ASSUME TypeOK, Stated, [Next]_vars
  PROVE  TypeOK'
<1>1. ASSUME NEW r \in Requests, Receive(r)
      PROVE  TypeOK'
  <2>1. chains' \in [Chains -> Rows]
    BY <1>1, ArrivalTypes, NewTypes DEF TypeOK
  <2>2. Known \subseteq Known' /\ body'.chain \in Known' /\ body'.ip \in Ips
    BY <1>1, ArrivalTypes
  <2> QED
    BY <1>1, <2>1, <2>2 DEF TypeOK, Receive, Steps
<1>2. CASE Observe
  <2>1. body.chain \in Known /\ Observation(body) \in Observations
    BY <1>2, ObservationType DEF TypeOK, Observe
  <2>2. /\ chains' \in [Chains -> Rows]
        /\ Known' = Known
    <3>1. body.chain \in Chains /\ chains[body.chain] \in Rows
      BY <2>1 DEF TypeOK, Known
    <3>2. chains' = [chains EXCEPT ![body.chain] = Counted(chains[body.chain])]
      BY <1>2 DEF Observe, Counted
    <3> QED
      BY <3>1, <3>2, CountedTypes DEF TypeOK, Known
  <2>3. /\ observed' \in [Chains -> Seq(Observations)]
        /\ \A c \in Chains : observed'[c] # <<>> => c \in Known
    <3>1. body.chain \in Chains
      BY <2>1 DEF Known
    <3>2. Append(observed[body.chain], Observation(body)) \in Seq(Observations)
      BY <2>1, <3>1 DEF TypeOK
    <3> QED
      BY <1>2, <2>1, <3>1, <3>2 DEF TypeOK, Observe
  <2> QED
    BY <1>2, <2>2, <2>3 DEF TypeOK, Observe, Steps
<1>3. CASE Predict
  <2>1. PICK lstm \in LstmStages, hmm \in HmmStages(body.chain) :
          /\ found' = Finding(lstm, hmm)
          /\ chains' = [chains EXCEPT ![body.chain] = Showing(chains[body.chain], found')]
    BY <1>3 DEF Predict
  <2>2. body.chain \in Chains /\ observed[body.chain] # <<>>
    BY <1>3 DEF Predict, TypeOK, Stated, Serving, Known
  <2>3. lstm \in Stages /\ hmm \in Stages
    BY <2>1, <2>2, OpinionTypes DEF TypeOK
  <2>4. Finding(lstm, hmm) \in [state : Stages, risk : Risks]
    BY <2>3, FindingType
  <2>5. /\ chains' \in [Chains -> Rows]
        /\ Known' = Known
    BY <2>1, <2>2, <2>4, ShowingTypes DEF TypeOK, Known
  <2> QED
    BY <1>3, <2>1, <2>4, <2>5 DEF TypeOK, Predict, Steps
<1>4. CASE LogPrediction
  <2>1. Known' = Known
    BY <1>4 DEF LogPrediction, Known
  <2> DEFINE p == [request |-> request, chain |-> body.chain, ip |-> body.ip,
                   state |-> found.state, risk |-> found.risk]
  <2>2. p \in Predictions /\ p.chain \in Known
    BY <1>4 DEF TypeOK, LogPrediction, Predictions, Known
  <2>3. predictions' \in Seq(Predictions)
    BY <1>4, <2>2 DEF TypeOK, LogPrediction
  <2>4. \A i \in DOMAIN predictions' : predictions'[i].chain \in Known
    <3> HIDE DEF p
    <3> QED
      BY <1>4, <2>2, LoggedRange DEF TypeOK, LogPrediction, p
  <2> QED
    BY <1>4, <2>1, <2>3, <2>4 DEF TypeOK, LogPrediction, Steps
<1>5. CASE UpdateProfile
  <2>1. Known' = Known
    BY <1>5 DEF UpdateProfile, Known
  <2>2. /\ profiles' \in [Ips -> Profiles]
        /\ \A ip \in Ips : profiles'[ip].chains \subseteq Known
    BY <1>5 DEF TypeOK, UpdateProfile, Updated, Known, Profiles
  <2>3. found' \in [state : Stages, risk : Risks]
    BY <1>5 DEF UpdateProfile, NoFinding, Stages, Risks
  <2> QED
    BY <1>5, <2>1, <2>2, <2>3 DEF TypeOK, UpdateProfile, Steps
<1>6. CASE Abandon
  <2>1. Known' = Known
    BY <1>6 DEF Abandon, tables, Known
  <2>2. cut' \subseteq [request : Requests, chain : Chains] /\ IsFiniteSet(cut')
    <3>1. [request |-> request, chain |-> body.chain] \in [request : Requests, chain : Chains]
      BY <1>6 DEF TypeOK, Abandon, Known
    <3>2. IsFiniteSet(cut \cup {[request |-> request, chain |-> body.chain]})
      BY FS_AddElement DEF TypeOK
    <3> QED
      BY <1>6, <3>1, <3>2 DEF TypeOK, Abandon
  <2>3. found' \in [state : Stages, risk : Risks]
    BY <1>6 DEF Abandon, NoFinding, Stages, Risks
  <2> QED
    BY <1>6, <2>1, <2>2, <2>3 DEF TypeOK, Abandon, tables, Steps
<1>7. CASE UNCHANGED vars
  BY <1>7 DEF TypeOK, vars, Known
<1> QED
  BY <1>1, <1>2, <1>3, <1>4, <1>5, <1>6, <1>7 DEF Next

(***************************************************************************)
(* CountsMatch.                                                            *)
(***************************************************************************)
LEMMA CountsStep ==
  ASSUME TypeOK, Stated, CountsMatch, [Next]_vars
  PROVE  CountsMatch'
<1>1. ASSUME NEW r \in Requests, Receive(r)
      PROVE  CountsMatch'
  <2>1. observed' = observed
    BY <1>1 DEF Receive
  <2>2. \A c \in Chains : ~chains[c].known => Len(observed[c]) = 0
    BY DEF TypeOK, Known
  <2> QED
    BY <1>1, <2>1, <2>2, ArrivalTypes, NewTypes DEF TypeOK, CountsMatch
<1>2. CASE Observe
  <2>1. body.chain \in Chains /\ chains[body.chain] \in Rows
    BY <1>2 DEF TypeOK, Observe, Known
  <2>2. chains' = [chains EXCEPT ![body.chain] = Counted(chains[body.chain])]
    BY <1>2 DEF Observe, Counted
  <2>3. Len(Append(observed[body.chain], Observation(body))) = Len(observed[body.chain]) + 1
    BY <2>1, ObservationType DEF TypeOK
  <2> QED
    BY <1>2, <2>1, <2>2, <2>3, CountedTypes DEF TypeOK, CountsMatch, Observe
<1>3. CASE Predict
  <2>1. body.chain \in Chains /\ chains[body.chain] \in Rows
    BY <1>3 DEF TypeOK, Predict, Known
  <2>2. TypeOK'
    BY TypeStep
  <2>3. chains' = [chains EXCEPT ![body.chain] = Showing(@, found')] /\ observed' = observed
    BY <1>3 DEF Predict
  <2>4. found' \in [state : Stages, risk : Risks]
    BY <2>2 DEF TypeOK
  <2> QED
    BY <2>1, <2>3, <2>4, ShowingTypes DEF TypeOK, CountsMatch
<1>4. CASE LogPrediction \/ UpdateProfile \/ Abandon \/ UNCHANGED vars
  BY <1>4 DEF CountsMatch, LogPrediction, UpdateProfile, Abandon, tables, vars
<1> QED
  BY <1>1, <1>2, <1>3, <1>4 DEF Next

(***************************************************************************)
(* OneEach.                                                                *)
(***************************************************************************)
LEMMA LoggedType ==
  ASSUME TypeOK, LogPrediction
  PROVE  LET p == [request |-> request, chain |-> body.chain, ip |-> body.ip,
                   state |-> found.state, risk |-> found.risk]
         IN p \in Predictions /\ predictions' = Append(predictions, p)
BY DEF TypeOK, LogPrediction, Predictions, Known

LEMMA OneEachStep ==
  ASSUME TypeOK, OneEach, [Next]_vars
  PROVE  OneEach'
<1>0. Len(predictions) \in Nat /\ DOMAIN predictions = 1..Len(predictions)
  BY DEF TypeOK
<1>1. ASSUME NEW r \in Requests, Receive(r)
      PROVE  OneEach'
  BY <1>1 DEF OneEach, Receive
<1>2. CASE Observe \/ Predict
  BY <1>2 DEF OneEach, Observe, Predict
<1>3. CASE LogPrediction
  <2> DEFINE p == [request |-> request, chain |-> body.chain, ip |-> body.ip,
                   state |-> found.state, risk |-> found.risk]
  <2>1. p \in Predictions /\ predictions' = Append(predictions, p)
    BY <1>3, LoggedType
  <2>2. p.request = request /\ outcome[request] = "new" /\ at = "stated"
    BY <1>3 DEF TypeOK, LogPrediction
  <2>3. /\ Len(predictions') = Len(predictions) + 1
        /\ DOMAIN predictions' = 1..Len(predictions) + 1
        /\ \A i \in 1..Len(predictions) : predictions'[i] = predictions[i]
        /\ predictions'[Len(predictions) + 1] = p
    BY <2>1, LoggedRange DEF TypeOK
  <2>4. \A i \in DOMAIN predictions : predictions[i].request # request
    BY <2>2 DEF OneEach
  <2>5. /\ UNCHANGED <<outcome, cut, request, body, found>> /\ at' = "logged"
        /\ p = [request |-> request, chain |-> body.chain, ip |-> body.ip,
                state |-> found.state, risk |-> found.risk]
    BY <1>3 DEF LogPrediction
  <2> HIDE DEF p
  <2>6. \A i, j \in DOMAIN predictions' :
          predictions'[i].request = predictions'[j].request => i = j
    BY <1>0, <2>2, <2>3, <2>4 DEF OneEach
  <2>7. \A i \in DOMAIN predictions' :
          outcome[predictions'[i].request] = "new" =>
            i = Len(predictions') /\ predictions'[i].request = request
    BY <1>0, <2>2, <2>3 DEF OneEach
  <2>8. predictions' # <<>> /\ predictions'[Len(predictions')] = p
    BY <1>0, <2>3
  <2> QED
    BY <2>5, <2>6, <2>7, <2>8 DEF OneEach
<1>4. CASE UpdateProfile \/ Abandon
  <2>1. /\ request \in Requests /\ outcome[request] = "new"
        /\ \/ outcome' = [outcome EXCEPT ![request] = "answered"] /\ cut' = cut
           \/ /\ outcome' = [outcome EXCEPT ![request] = "failed"]
              /\ \A x \in cut' : x \in cut \/ x.request = request
        /\ predictions' = predictions /\ at' = "idle"
    BY <1>4 DEF TypeOK, UpdateProfile, Abandon, tables
  <2>2. \A i \in DOMAIN predictions : predictions[i].request \in Requests
    <3>1. \A i \in DOMAIN predictions : predictions[i] \in Predictions
      BY DEF TypeOK
    <3> QED
      BY <3>1 DEF Predictions
  <2>3. \A i \in DOMAIN predictions : outcome'[predictions[i].request] # "new"
    BY <2>1, <2>2 DEF OneEach, TypeOK
  <2>4. \A x \in cut' : outcome'[x.request] = "failed"
    BY <2>1 DEF OneEach, TypeOK
  <2> QED
    BY <2>1, <2>3, <2>4 DEF OneEach
<1>5. CASE UNCHANGED vars
  BY <1>5 DEF OneEach, vars
<1> QED
  BY <1>1, <1>2, <1>3, <1>4, <1>5 DEF Next

(***************************************************************************)
(* Stated.                                                                 *)
(***************************************************************************)
LEMMA StatedStep ==
  ASSUME TypeOK, OneEach, Stated, [Next]_vars
  PROVE  Stated'
<1>0. Len(predictions) \in Nat /\ DOMAIN predictions = 1..Len(predictions)
  BY DEF TypeOK
<1>1. ASSUME NEW r \in Requests, Receive(r)
      PROVE  Stated'
  <2>1. /\ UNCHANGED <<observed, predictions, cut>>
        /\ at = "idle" /\ at' = "created"
    BY <1>1 DEF Receive
  <2>2. \A c \in Known : chains'[c] = chains[c]
    BY <1>1, ArrivalTypes DEF TypeOK, Known
  <2>3. \A i \in DOMAIN predictions : predictions[i].chain \in Known
    BY DEF TypeOK
  <2> QED
    BY <2>1, <2>2, <2>3 DEF Stated, Serving, CutOn, History
<1>2. CASE Observe
  <2>1. body.chain \in Chains /\ chains[body.chain] \in Rows
    BY <1>2 DEF TypeOK, Observe, Known
  <2>2. chains' = [chains EXCEPT ![body.chain] = Counted(chains[body.chain])]
    BY <1>2 DEF Observe, Counted
  <2>3. \A c \in Chains : chains'[c].state = chains[c].state /\ chains'[c].risk = chains[c].risk
    BY <2>1, <2>2, CountedTypes DEF TypeOK
  <2>4. \A i \in DOMAIN predictions : predictions[i].chain \in Chains
    BY DEF TypeOK, Known
  <2>5. observed'[body.chain] # <<>>
    <3>1. Len(Append(observed[body.chain], Observation(body))) = Len(observed[body.chain]) + 1
      BY <2>1, ObservationType DEF TypeOK
    <3>2. Len(observed[body.chain]) \in Nat /\ Len(<<>>) = 0
      BY <2>1 DEF TypeOK
    <3>3. Append(observed[body.chain], Observation(body)) # <<>>
      <4> DEFINE longer == Append(observed[body.chain], Observation(body))
      <4>1. Len(longer) = Len(observed[body.chain]) + 1
        BY <3>1
      <4> HIDE DEF longer
      <4>2. longer # <<>>
        BY <3>2, <4>1
      <4> QED
        BY <4>2 DEF longer
    <3> QED
      BY <1>2, <2>1, <3>3 DEF Observe, TypeOK
  <2>6. UNCHANGED <<predictions, cut, body>> /\ at = "created" /\ at' = "observed"
    BY <1>2 DEF Observe
  <2>7. \A c \in Chains : Serving(c)' => observed'[c] # <<>>
    BY <2>5, <2>6 DEF Serving
  <2> QED
    BY <2>3, <2>4, <2>6, <2>7 DEF Stated, CutOn, History
<1>3. CASE Predict
  <2>1. body.chain \in Chains /\ chains[body.chain] \in Rows
    BY <1>3 DEF TypeOK, Predict, Known
  <2>2. found' \in [state : Stages, risk : Risks]
    BY TypeStep DEF TypeOK
  <2>3. /\ chains' = [chains EXCEPT ![body.chain] = Showing(@, found')]
        /\ UNCHANGED <<observed, predictions, cut, body>>
        /\ at = "observed" /\ at' = "stated"
    BY <1>3 DEF Predict
  <2>4. chains'[body.chain].state = found'.state /\ chains'[body.chain].risk = found'.risk
    BY <2>1, <2>2, <2>3, ShowingTypes DEF TypeOK
  <2>5. \A c \in Chains : c # body.chain => chains'[c] = chains[c]
    BY <2>3 DEF TypeOK
  <2>6. \A i \in DOMAIN predictions : predictions[i].chain \in Chains
    BY DEF TypeOK, Known
  <2> QED
    BY <2>3, <2>4, <2>5, <2>6 DEF Stated, Serving, CutOn, History
<1>4. CASE LogPrediction
  <2> DEFINE p == [request |-> request, chain |-> body.chain, ip |-> body.ip,
                   state |-> found.state, risk |-> found.risk]
             n == Len(predictions) + 1
  <2>1. p \in Predictions /\ predictions' = Append(predictions, p)
    BY <1>4, LoggedType
  <2>2. /\ DOMAIN predictions' = 1..n /\ predictions'[n] = p
        /\ \A i \in 1..Len(predictions) : predictions'[i] = predictions[i]
    BY <2>1, LoggedRange DEF TypeOK
  <2>3. p.chain = body.chain /\ p.state = found.state /\ p.risk = found.risk
    OBVIOUS
  <2>4. /\ UNCHANGED <<chains, observed, cut, body, found>>
        /\ at = "stated" /\ at' = "logged"
    BY <1>4 DEF LogPrediction
  <2> HIDE DEF p
  <2>5. ASSUME NEW i \in 1..n, {x \in cut' : x.chain = predictions'[i].chain} = {},
               \A j \in 1..n : predictions'[j].chain = predictions'[i].chain => j <= i
        PROVE  /\ chains[predictions'[i].chain].state = predictions'[i].state
               /\ chains[predictions'[i].chain].risk = predictions'[i].risk
    <3>1. CASE i = n
      BY <2>2, <2>3, <2>4, <3>1 DEF Stated
    <3>2. CASE i # n
      <4>1. i \in 1..Len(predictions) /\ predictions'[i] = predictions[i]
        BY <1>0, <2>2, <3>2
      <4>2. predictions[i].chain # body.chain
        BY <1>0, <2>2, <2>3, <2>5, <3>2, <4>1
      <4>3. \A j \in History(predictions[i].chain) : j <= i
        BY <1>0, <2>2, <2>5, <4>1 DEF History
      <4>4. CutOn(predictions[i].chain) = {}
        BY <2>4, <2>5, <4>1 DEF CutOn
      <4> QED
        BY <1>0, <4>1, <4>2, <4>3, <4>4 DEF Stated
    <3> QED
      BY <3>1, <3>2
  <2>6. \A c \in Chains : Serving(c)' => observed'[c] # <<>>
    BY <2>4 DEF Stated, Serving
  <2>7. ASSUME NEW i \in 1..n, {x \in cut' : x.chain = predictions'[i].chain} = {},
               \A j \in {k \in DOMAIN predictions' : predictions'[k].chain = predictions'[i].chain} : j <= i
        PROVE  /\ chains'[predictions'[i].chain].state = predictions'[i].state
               /\ chains'[predictions'[i].chain].risk = predictions'[i].risk
    <3>1. \A j \in 1..n : predictions'[j].chain = predictions'[i].chain => j <= i
      BY <2>2, <2>7
    <3> QED
      BY <2>4, <2>5, <2>7, <3>1
  <2> QED
    BY <2>2, <2>4, <2>6, <2>7 DEF Stated, CutOn, History
<1>5. CASE UpdateProfile
  BY <1>5 DEF Stated, UpdateProfile, Serving, CutOn, History
<1>6. CASE Abandon
  <2>1. /\ UNCHANGED <<chains, observed, predictions>> /\ at' = "idle"
        /\ at \in {"created", "observed", "stated", "logged"}
        /\ cut' = IF at = "created" THEN cut
                  ELSE cut \cup {[request |-> request, chain |-> body.chain]}
    BY <1>6 DEF Abandon, tables, TypeOK, Steps
  <2>2. \A c : CutOn(c)' = {} => CutOn(c) = {} /\ ~(at = "stated" /\ body.chain = c)
    <3> DEFINE x == [request |-> request, chain |-> body.chain]
    <3>1. x.chain = body.chain
      OBVIOUS
    <3> HIDE DEF x
    <3> QED
      BY <2>1, <3>1 DEF CutOn, x
  <2> QED
    BY <2>1, <2>2 DEF Stated, Serving, History
<1>7. CASE UNCHANGED vars
  BY <1>7 DEF Stated, vars, Serving, CutOn, History
<1> QED
  BY <1>1, <1>2, <1>3, <1>4, <1>5, <1>6, <1>7 DEF Next

(***************************************************************************)
(* Only the end of a request changes what was answered, by one prediction. *)
(***************************************************************************)
LEMMA AnsweredKept ==
  ASSUME TypeOK, OneEach, [Next]_vars, ~UpdateProfile
  PROVE  Answered' = Answered
<1>0. \A q \in Range(predictions) : q.request \in Requests
  <2>1. \A i \in DOMAIN predictions : predictions[i] \in Predictions
    BY DEF TypeOK
  <2> QED
    BY <2>1 DEF Range, Predictions
<1>1. CASE \/ \E r \in Requests : Receive(r)
           \/ Observe \/ Predict \/ UNCHANGED vars
  BY <1>1 DEF Receive, Observe, Predict, vars, Answered, Range
<1>2. CASE LogPrediction
  <2> DEFINE p == [request |-> request, chain |-> body.chain, ip |-> body.ip,
                   state |-> found.state, risk |-> found.risk]
  <2>1. p \in Predictions /\ predictions' = Append(predictions, p)
    BY <1>2, LoggedType
  <2>2. Range(predictions)' = Range(predictions) \cup {p}
    BY <2>1, LoggedRange
  <2>3. outcome' = outcome /\ outcome[p.request] = "new"
    BY <1>2 DEF LogPrediction, TypeOK
  <2> HIDE DEF p
  <2> QED
    BY <2>2, <2>3 DEF Answered
<1>3. CASE Abandon
  <2>1. outcome[request] = "new" /\ outcome' = [outcome EXCEPT ![request] = "failed"]
    BY <1>3 DEF Abandon, TypeOK
  <2>2. \A q \in Range(predictions) :
          (outcome'[q.request] = "answered") = (outcome[q.request] = "answered")
    BY <1>0, <2>1 DEF TypeOK
  <2>3. Range(predictions)' = Range(predictions)
    BY <1>3 DEF Abandon, tables, Range
  <2> QED
    BY <2>2, <2>3 DEF Answered
<1> QED
  BY <1>1, <1>2, <1>3 DEF Next

LEMMA AnsweredAdded ==
  ASSUME TypeOK, OneEach, UpdateProfile
  PROVE  \E p \in Predictions :
           /\ Answered' = Answered \cup {p} /\ p \notin Answered
           /\ p.chain = body.chain /\ p.ip = body.ip /\ p.state = found.state
<1> DEFINE n == Len(predictions)
           p == predictions[n]
<1>1. n \in Nat \ {0} /\ DOMAIN predictions = 1..n /\ \A i \in 1..n : predictions[i] \in Predictions
  BY DEF TypeOK, OneEach, UpdateProfile
<1>2. p = [request |-> request, chain |-> body.chain, ip |-> body.ip,
           state |-> found.state, risk |-> found.risk]
  BY DEF OneEach, UpdateProfile
<1>3. p \in Predictions /\ p.chain = body.chain /\ p.ip = body.ip /\ p.state = found.state /\ p.request = request
  BY <1>1, <1>2
<1>4. /\ outcome[request] = "new" /\ request \in Requests
      /\ outcome' = [outcome EXCEPT ![request] = "answered"] /\ predictions' = predictions
  BY DEF UpdateProfile, TypeOK
<1>5. Range(predictions)' = Range(predictions) /\ p \in Range(predictions)
  BY <1>1, <1>4 DEF Range
<1>6. \A q \in Range(predictions) : q = p \/ q.request # request
  BY <1>1, <1>3 DEF Range, OneEach
<1>7. \A q \in Range(predictions) : q.request \in Requests
  BY <1>1 DEF Range, Predictions
<1> HIDE DEF p
<1>8. outcome'[p.request] = "answered" /\ outcome[p.request] # "answered"
  BY <1>3, <1>4 DEF TypeOK
<1>9. \A q \in Range(predictions) :
        q # p => (outcome'[q.request] = "answered") = (outcome[q.request] = "answered")
  BY <1>4, <1>6, <1>7 DEF TypeOK
<1>10. Answered' = Answered \cup {p} /\ p \notin Answered
  BY <1>5, <1>8, <1>9 DEF Answered
<1> QED
  BY <1>3, <1>10

LEMMA AnsweredFinite ==
  ASSUME TypeOK
  PROVE  /\ \A c : IsFiniteSet(AnsweredOn(c)) /\ Cardinality(AnsweredOn(c)) \in Nat
         /\ \A ip : IsFiniteSet(AnsweredFor(ip)) /\ Cardinality(AnsweredFor(ip)) \in Nat
<1>1. \A c : AnsweredOn(c) \subseteq Range(predictions)
  BY DEF AnsweredOn, Answered
<1>2. \A ip : AnsweredFor(ip) \subseteq Range(predictions)
  BY DEF AnsweredFor, Answered
<1> QED
  BY <1>1, <1>2, FiniteHistories

(***************************************************************************)
(* ObservationsAccounted.                                                  *)
(***************************************************************************)
LEMMA AccountedStep ==
  ASSUME TypeOK, OneEach, Stated, ObservationsAccounted, [Next]_vars
  PROVE  ObservationsAccounted'
<1>1. CASE ~UpdateProfile
  <2>1. /\ \A c : AnsweredOn(c)' = AnsweredOn(c)
        /\ \A ip : AnsweredFor(ip)' = AnsweredFor(ip)
    BY <1>1, AnsweredKept DEF AnsweredOn, AnsweredFor
  <2>2. profiles' = profiles
    BY <1>1 DEF Next, Receive, Observe, Predict, LogPrediction, Abandon, tables, vars
  <2>3. \A ip \in Ips : profiles'[ip].total = Cardinality(AnsweredFor(ip)')
    BY <2>1, <2>2 DEF ObservationsAccounted
  <2>4. ASSUME NEW c \in Chains
        PROVE  Len(observed'[c]) = Cardinality(AnsweredOn(c)') + Cardinality(CutOn(c)')
                                     + (IF Serving(c)' THEN 1 ELSE 0)
    <3> DEFINE answered == Cardinality(AnsweredOn(c))
               wasCut == Cardinality(CutOn(c))
    <3>0. answered \in Nat /\ wasCut \in Nat
      BY AnsweredFinite, FiniteHistories
    <3>1. Len(observed[c]) = answered + wasCut + (IF Serving(c) THEN 1 ELSE 0)
      BY DEF ObservationsAccounted
    <3>2. AnsweredOn(c)' = AnsweredOn(c)
      BY <2>1
    <3>3. CASE \E r \in Requests : Receive(r)
      <4>1. observed' = observed /\ CutOn(c)' = CutOn(c) /\ ~Serving(c) /\ ~Serving(c)'
        BY <3>3 DEF Receive, CutOn, Serving
      <4> QED
        BY <3>1, <3>2, <4>1
    <3>4. CASE Observe
      <4>1. CutOn(c)' = CutOn(c) /\ ~Serving(c)
        BY <3>4 DEF Observe, CutOn, Serving
      <4>2. Serving(c)' <=> c = body.chain
        BY <3>4 DEF Observe, Serving
      <4>3. c = body.chain => Len(observed'[c]) = Len(observed[c]) + 1
        <5> SUFFICES ASSUME c = body.chain PROVE Len(observed'[c]) = Len(observed[c]) + 1
          OBVIOUS
        <5>1. observed'[c] = Append(observed[c], Observation(body))
          BY <3>4 DEF Observe, TypeOK
        <5> QED
          BY <5>1, ObservationType DEF TypeOK
      <4>4. c # body.chain => observed'[c] = observed[c]
        BY <3>4 DEF Observe, TypeOK
      <4> HIDE DEF answered, wasCut
      <4>5. Len(observed'[c]) = answered + wasCut + (IF Serving(c)' THEN 1 ELSE 0)
        BY <3>0, <3>1, <4>1, <4>2, <4>3, <4>4
      <4> QED
        BY <3>2, <4>1, <4>5 DEF answered, wasCut
    <3>5. CASE Predict \/ LogPrediction \/ UNCHANGED vars
      <4>1. observed' = observed /\ CutOn(c)' = CutOn(c) /\ (Serving(c)' <=> Serving(c))
        BY <3>5 DEF Predict, LogPrediction, vars, CutOn, Serving
      <4> QED
        BY <3>1, <3>2, <4>1
    <3>6. CASE Abandon
      <4> DEFINE x == [request |-> request, chain |-> body.chain]
      <4>1. observed' = observed /\ ~Serving(c)'
        BY <3>6 DEF Abandon, tables, Serving
      <4>2. CASE Serving(c)
        <5>1. c = body.chain /\ at # "created" /\ cut' = cut \cup {x} /\ outcome[request] = "new"
          BY <3>6, <4>2 DEF Abandon, Serving, TypeOK
        <5>2. x.request = request /\ x.chain = body.chain
          OBVIOUS
        <5>3. x \notin cut
          BY <5>1, <5>2 DEF OneEach
        <5> HIDE DEF x
        <5>4. CutOn(c)' = CutOn(c) \cup {x} /\ x \notin CutOn(c)
          BY <5>1, <5>2, <5>3 DEF CutOn
        <5>5. Cardinality(CutOn(c)') = wasCut + 1
          BY <5>4, FiniteHistories, FS_AddElement
        <5> HIDE DEF answered, wasCut
        <5>6. Len(observed'[c]) = answered + (wasCut + 1)
          BY <3>0, <3>1, <4>1, <4>2
        <5> QED
          BY <3>0, <3>2, <4>1, <5>5, <5>6 DEF answered
      <4>3. CASE ~Serving(c)
        <5>1. x.chain = body.chain /\ (cut' = cut \/ (body.chain # c /\ cut' = cut \cup {x}))
          BY <3>6, <4>3 DEF Abandon, Serving, TypeOK, Steps
        <5> HIDE DEF x
        <5>2. CutOn(c)' = CutOn(c)
          BY <5>1 DEF CutOn
        <5> QED
          BY <3>1, <3>2, <4>1, <4>3, <5>2
      <4> QED
        BY <4>2, <4>3
    <3> QED
      BY <1>1, <3>3, <3>4, <3>5, <3>6 DEF Next
  <2> QED
    BY <2>3, <2>4 DEF ObservationsAccounted
<1>2. CASE UpdateProfile
  <2>1. PICK p \in Predictions :
          /\ Answered' = Answered \cup {p} /\ p \notin Answered
          /\ p.chain = body.chain /\ p.ip = body.ip
    BY <1>2, AnsweredAdded
  <2>2. body.ip \in Ips /\ at = "logged" /\ at' = "idle" /\ observed' = observed /\ cut' = cut
    BY <1>2 DEF UpdateProfile, TypeOK
  <2>3. ASSUME NEW c \in Chains
        PROVE  Len(observed'[c]) = Cardinality(AnsweredOn(c)') + Cardinality(CutOn(c)')
                                     + (IF Serving(c)' THEN 1 ELSE 0)
    <3> DEFINE answered == Cardinality(AnsweredOn(c))
               wasCut == Cardinality(CutOn(c))
    <3>0. answered \in Nat /\ wasCut \in Nat
      BY AnsweredFinite, FiniteHistories
    <3>1. Len(observed[c]) = answered + wasCut + (IF Serving(c) THEN 1 ELSE 0)
      BY DEF ObservationsAccounted
    <3>2. CutOn(c)' = CutOn(c) /\ ~Serving(c)' /\ (Serving(c) <=> body.chain = c)
      BY <2>2 DEF CutOn, Serving
    <3>3. Cardinality(AnsweredOn(c)') = IF body.chain = c THEN answered + 1 ELSE answered
      <4>1. body.chain = c => AnsweredOn(c)' = AnsweredOn(c) \cup {p} /\ p \notin AnsweredOn(c)
        BY <2>1 DEF AnsweredOn
      <4>2. body.chain # c => AnsweredOn(c)' = AnsweredOn(c)
        BY <2>1 DEF AnsweredOn
      <4> QED
        BY <4>1, <4>2, AnsweredFinite, FS_AddElement
    <3> HIDE DEF answered, wasCut
    <3>4. Len(observed'[c]) = (IF body.chain = c THEN answered + 1 ELSE answered) + wasCut
      BY <2>2, <3>0, <3>1, <3>2
    <3>5. Cardinality(CutOn(c)') = wasCut
      BY <3>2 DEF wasCut
    <3> QED
      BY <3>0, <3>2, <3>3, <3>4, <3>5
  <2>4. ASSUME NEW ip \in Ips
        PROVE  profiles'[ip].total = Cardinality(AnsweredFor(ip)')
    <3>1. profiles[ip].total = Cardinality(AnsweredFor(ip))
      BY DEF ObservationsAccounted
    <3>2. CASE ip = body.ip
      <4>1. AnsweredFor(ip)' = AnsweredFor(ip) \cup {p} /\ p \notin AnsweredFor(ip)
        BY <2>1, <3>2 DEF AnsweredFor
      <4>2. Cardinality(AnsweredFor(ip)') = Cardinality(AnsweredFor(ip)) + 1
        BY <4>1, AnsweredFinite, FS_AddElement
      <4>3. profiles'[ip].total = profiles[ip].total + 1
        BY <1>2, <2>2, <3>2 DEF UpdateProfile, Updated, TypeOK
      <4> QED
        BY <3>1, <4>2, <4>3
    <3>3. CASE ip # body.ip
      <4>1. AnsweredFor(ip)' = AnsweredFor(ip)
        BY <2>1, <3>3 DEF AnsweredFor
      <4>2. profiles'[ip] = profiles[ip]
        BY <1>2, <3>3 DEF UpdateProfile, TypeOK
      <4> QED
        BY <3>1, <4>1, <4>2
    <3> QED
      BY <3>2, <3>3
  <2> QED
    BY <2>3, <2>4 DEF ObservationsAccounted
<1> QED
  BY <1>1, <1>2

(***************************************************************************)
(* ProfileIsHighest.                                                       *)
(***************************************************************************)
LEMMA ProfileStep ==
  ASSUME TypeOK, OneEach, ProfileIsHighest, [Next]_vars
  PROVE  ProfileIsHighest'
<1>1. CASE ~UpdateProfile
  <2>1. \A ip : AnsweredFor(ip)' = AnsweredFor(ip)
    BY <1>1, AnsweredKept DEF AnsweredFor
  <2>2. profiles' = profiles
    BY <1>1 DEF Next, Receive, Observe, Predict, LogPrediction, Abandon, tables, vars
  <2> QED
    BY <2>1, <2>2 DEF ProfileIsHighest
<1>2. CASE UpdateProfile
  <2>1. PICK p \in Predictions :
          /\ Answered' = Answered \cup {p}
          /\ p.ip = body.ip /\ p.state = found.state
    BY <1>2, AnsweredAdded
  <2>2. body.ip \in Ips /\ found.state \in Stages
    BY <1>2 DEF UpdateProfile, TypeOK
  <2>3. profiles' = [profiles EXCEPT ![body.ip] = Updated(profiles[body.ip])]
    BY <1>2 DEF UpdateProfile
  <2> SUFFICES ASSUME NEW ip \in Ips
               PROVE  LET answered == {q.state : q \in AnsweredFor(ip)'}
                      IN /\ profiles'[ip].known = (answered # {})
                         /\ profiles'[ip].known =>
                              /\ profiles'[ip].highest \in answered
                              /\ \A s \in answered : s <= profiles'[ip].highest
    BY DEF ProfileIsHighest
  <2> DEFINE before == {q.state : q \in AnsweredFor(ip)}
             after == {q.state : q \in AnsweredFor(ip)'}
  <2>4. /\ profiles[ip].known = (before # {})
        /\ profiles[ip].known =>
             /\ profiles[ip].highest \in before
             /\ \A s \in before : s <= profiles[ip].highest
    BY DEF ProfileIsHighest
  <2>5. CASE ip # body.ip
    <3>1. AnsweredFor(ip)' = AnsweredFor(ip) /\ profiles'[ip] = profiles[ip]
      BY <2>1, <2>3, <2>5 DEF AnsweredFor, TypeOK
    <3> QED
      BY <2>4, <3>1
  <2>6. CASE ip = body.ip
    <3>1. AnsweredFor(ip)' = AnsweredFor(ip) \cup {p}
      BY <2>1, <2>6 DEF AnsweredFor
    <3>2. after = before \cup {found.state}
      BY <2>1, <3>1
    <3> DEFINE h == profiles[ip].highest
               known == profiles[ip].known
    <3>3. /\ profiles'[ip].known = TRUE
          /\ profiles'[ip].highest = IF known /\ h > found.state THEN h ELSE found.state
      BY <2>2, <2>3, <2>6 DEF Updated, TypeOK
    <3>4. before \subseteq Int
      <4>1. AnsweredFor(ip) \subseteq Range(predictions)
        BY DEF AnsweredFor, Answered
      <4>2. \A i \in DOMAIN predictions : predictions[i] \in Predictions
        BY DEF TypeOK
      <4>3. \A q \in Range(predictions) : q.state \in Int
        BY <4>2 DEF Range, Predictions, Stages
      <4> QED
        BY <4>1, <4>3
    <3>5. h \in Int /\ found.state \in Int
      <4>1. profiles[ip] \in Profiles
        BY DEF TypeOK
      <4> QED
        BY <2>2, <4>1 DEF Profiles, Stages
    <3>6. (before # {}) <=> known
      BY <2>4
    <3>7. known => h \in before /\ \A s \in before : s <= h
      BY <2>4
    <3> HIDE DEF before, after, h, known
    <3> DEFINE new == profiles'[ip].highest
    <3>8. new \in after /\ \A s \in after : s <= new
      <4>1. CASE known /\ h > found.state
        BY <3>2, <3>3, <3>4, <3>5, <3>7, <4>1
      <4>2. CASE ~(known /\ h > found.state)
        <5>1. \A s \in before : s <= found.state
          BY <3>4, <3>5, <3>6, <3>7, <4>2
        <5>2. new = found.state
          BY <3>3, <4>2
        <5> QED
          BY <3>2, <3>5, <5>1, <5>2
      <4> QED
        BY <4>1, <4>2
    <3>9. after # {}
      BY <3>8
    <3>10. (after # {}) = TRUE
      BY <3>9
    <3> QED
      BY <3>3, <3>8, <3>10, Zenon DEF after
  <2> QED
    BY <2>5, <2>6
<1> QED
  BY <1>1, <1>2
-----------------------------------------------------------------------------
LEMMA InitInvariant == Init => IInv
<1> SUFFICES ASSUME Init
             PROVE  IInv
  OBVIOUS
<1>1. predictions = <<>> /\ Range(predictions) = {} /\ cut = {}
  BY DEF Init, Range
<1>2. TypeOK
  <2>1. NoRow \in Rows
    <3>1. NewChain(NoIp) \in Rows
      BY DEF NewChain, Rows, Stages, Risks
    <3> QED
      BY <3>1 DEF NoRow, Rows
  <2>2. NoProfile \in Profiles /\ NoProfile.chains = {}
    BY DEF NoProfile, Profiles, Stages
  <2>3. NoFinding \in [state : Stages, risk : Risks] /\ IsFiniteSet(cut)
    BY <1>1, FS_EmptySet DEF NoFinding, Stages, Risks
  <2>4. observed \in [Chains -> Seq(Observations)] /\ \A c \in Chains : observed[c] = <<>>
    BY DEF Init
  <2>5. predictions \in Seq(Predictions) /\ DOMAIN predictions = {}
    BY <1>1
  <2> QED
    BY <1>1, <2>1, <2>2, <2>3, <2>4, <2>5 DEF Init, TypeOK, Steps
<1>3. CountsMatch
  BY DEF Init, CountsMatch, NoRow, NewChain
<1>4. /\ \A c : AnsweredOn(c) = {} /\ CutOn(c) = {} /\ ~Serving(c)
      /\ \A ip : AnsweredFor(ip) = {}
  BY <1>1 DEF AnsweredOn, AnsweredFor, Answered, CutOn, Init, Serving
<1>5. ObservationsAccounted
  <2>1. \A c \in Chains : Len(observed[c]) = 0
    BY DEF Init
  <2>2. \A ip \in Ips : profiles[ip].total = 0
    BY DEF Init, NoProfile
  <2>3. Cardinality({}) = 0
    BY FS_EmptySet
  <2>4. /\ \A c \in Chains :
             Cardinality(AnsweredOn(c)) = 0 /\ Cardinality(CutOn(c)) = 0 /\ ~Serving(c)
        /\ \A ip \in Ips : Cardinality(AnsweredFor(ip)) = 0
    BY <1>4, <2>3
  <2> QED
    BY <2>1, <2>2, <2>4 DEF ObservationsAccounted
<1>6. ProfileIsHighest
  BY <1>4 DEF Init, ProfileIsHighest, NoProfile
<1>7. OneEach /\ Stated
  BY <1>1, <1>4 DEF OneEach, Stated, Init
<1> QED
  BY <1>2, <1>3, <1>5, <1>6, <1>7 DEF IInv

\* The invariant holds in every state: the tables have their types and refer to
\* chains that exist, and what each transaction leaves to the next is as it says
\* (predict with its five transactions, cut short anywhere).
THEOREM InductiveInvariant == Spec => []IInv
<1>1. Init => IInv
  BY InitInvariant
<1>2. IInv /\ [Next]_vars => IInv'
  BY TypeStep, CountsStep, AccountedStep, ProfileStep, OneEachStep, StatedStep DEF IInv
<1> QED
  BY <1>1, <1>2, PTL DEF Spec

\* For every set of requests, the count of a chain is the number of its
\* observations, whichever transaction fails (add_observation).
THEOREM CountsNeverDrift == Spec => []CountsMatch
<1>1. IInv => CountsMatch
  BY DEF IInv
<1> QED
  BY <1>1, InductiveInvariant, PTL

\* Every observation is that of a request that was answered, is served or was cut
\* short, and the profiles count the answered ones (add_observation,
\* update_attacker_profile).
THEOREM ObservationsAreAccounted == Spec => []ObservationsAccounted
<1>1. IInv => ObservationsAccounted
  BY DEF IInv
<1> QED
  BY <1>1, InductiveInvariant, PTL

\* A profile keeps the highest stage that was answered for its attacker
\* (update_attacker_profile).
THEOREM ProfilesKeepTheHighest == Spec => []ProfileIsHighest
<1>1. IInv => ProfileIsHighest
  BY DEF IInv
<1> QED
  BY <1>1, InductiveInvariant, PTL

\* A chain none of whose requests was cut short shows its last prediction
\* (update_chain_state, log_prediction).
THEOREM ChainsShowPredictions == Spec => []ChainShowsPrediction
<1>1. IInv => ChainShowsPrediction
  <2> SUFFICES ASSUME IInv, NEW c \in Known, NEW i \in History(c), CutOn(c) = {},
                      ~Serving(c), \A j \in History(c) : j <= i
               PROVE  chains[c].state = predictions[i].state /\ chains[c].risk = predictions[i].risk
    BY DEF ChainShowsPrediction
  <2>1. i \in DOMAIN predictions /\ predictions[i].chain = c
    BY DEF History
  <2>2. ~(at = "stated" /\ body.chain = c)
    BY DEF Serving
  <2> QED
    BY <2>1, <2>2 DEF IInv, Stated
<1> QED
  BY <1>1, InductiveInvariant, PTL
=============================================================================
