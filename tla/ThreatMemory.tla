----------------------------- MODULE ThreatMemory -----------------------------
(***************************************************************************)
(* The Layer 5 server (Layer5_Threat Memory/server.py): a SQLite memory of *)
(* attack chains and attackers, and two models that name the kill-chain    *)
(* stage of a chain.                                                       *)
(*                                                                         *)
(* /predict (and its alias /explain) never awaits, so requests are served  *)
(* one after the other; but each of its five calls to the database is a    *)
(* transaction of its own.  A failing transaction answers HTTP 500, a      *)
(* crash answers nothing, and both keep what was committed before.  A      *)
(* client may repeat a request that was not answered.  Stages are numbered *)
(* along HMM_STATES, risks along LOW, MEDIUM, HIGH, CRITICAL.              *)
(***************************************************************************)
EXTENDS Integers, FiniteSets, SequencesExt, Functions

CONSTANTS Requests,  \* the requests that are ever sent
          Bodies,    \* chain_id, target_ip, attack_type, mitre_stage
          Chains,    \* chain ids
          Ips,       \* target_ip, the key of the profiles too
          AutoChains,\* the chain ids that an address and a second give
          NoChain,   \* chain_id is left out
          NoRequest,
          NoIp,
          NoBody,
          LstmLoaded,\* models.lstm_ok: the files of the models were there at startup
          HmmLoaded, \* models.hmm_ok
          Limit      \* the observations a prediction looks at

ASSUME BodiesAssumption ==
  Bodies \subseteq [chain : Chains \cup {NoChain}, ip : Ips, attack : STRING, stage : STRING]
ASSUME AutoAssumption == AutoChains \in [Ips -> SUBSET Chains]
ASSUME NoneAssumption ==
  /\ NoChain \notin Chains /\ NoRequest \notin Requests /\ NoIp \notin Ips /\ NoBody \notin Bodies
  /\ {LstmLoaded, HmmLoaded} \subseteq BOOLEAN
ASSUME LimitAssumption == Limit \in Nat \ {0}
ASSUME FiniteAssumption == IsFiniteSet(Requests) /\ IsFiniteSet(Chains) /\ IsFiniteSet(Ips)

VARIABLES
  chains,      \* table attack_chains: the chains known, with count, state and risk
  observed,    \* table observations: what each chain saw, oldest first
  predictions, \* table predictions, oldest first
  profiles,    \* table attacker_profiles
  at,          \* what the handler has committed
  request,     \* the request it serves
  body,        \* with its chain id made up if it was left out
  found,       \* current_state and risk_level of the result
  outcome,     \* history: what became of a request
  cut          \* history: the requests that ended after their observation was
               \* committed and before their profile was, and their chains

vars == <<chains, observed, predictions, profiles, at, request, body, found, outcome, cut>>
tables == <<chains, observed, predictions, profiles>>

Stages == 0..4
Risks == 0..3
Steps == {"idle", "created", "observed", "stated", "logged"}
NoFinding == [state |-> 0, risk |-> 0]
NoProfile == [known |-> FALSE, total |-> 0, highest |-> 0, chains |-> {}]
NewChain(ip) == [known |-> TRUE, ip |-> ip, count |-> 0, state |-> 0, risk |-> 0]
NoRow == [NewChain(NoIp) EXCEPT !.known = FALSE]

Init ==
  /\ chains = [c \in Chains |-> NoRow]
  /\ observed = [c \in Chains |-> <<>>]
  /\ predictions = <<>>
  /\ profiles = [ip \in Ips |-> NoProfile]
  /\ at = "idle"
  /\ request = NoRequest
  /\ body = NoBody
  /\ found = NoFinding
  /\ outcome = [r \in Requests |-> "new"]
  /\ cut = {}
-----------------------------------------------------------------------------
\* ATTACK_TO_OBS and stage_obs_map, by the number of the observation plus one.
AttacksOf ==
  <<{"PortScan", "Reconnaissance", "Fuzzers"}, {}, {},
    {"FTP-Patator", "SSH-Patator", "Web Attack - Brute Force"}, {"Bot"},
    {"Backdoor", "Heartbleed"}, {"Worms", "Zeus Banking Trojan", "Banking Trojan"},
    {"Web Attack - XSS", "Web Attack - Sql Injection"},
    {"DDoS", "DoS Hulk", "DoS GoldenEye", "DoS slowloris", "Infiltration"}, {}>>
StagesOf ==
  <<{"Reconnaissance"}, {}, {}, {"Initial_Access", "Initial Access"}, {}, {"Exploitation"},
    {"Execution"}, {}, {"Impact", "Exfiltration"}, {}>>
Observations == 0..9

\* By the attack type, by the MITRE stage of one that is unknown, or port_scan.
Observation(b) ==
  LET byAttack == {o \in Observations : b.attack \in AttacksOf[o + 1]}
      byStage == {o \in Observations : b.stage \in StagesOf[o + 1]}
  IN IF byAttack # {} THEN CHOOSE o \in byAttack : TRUE
     ELSE IF byStage # {} THEN CHOOSE o \in byStage : TRUE ELSE 0

\* get_observation_sequence: the last Limit observations of a chain.
Recent(c) ==
  SubSeq(observed[c], IF Len(observed[c]) > Limit THEN Len(observed[c]) - Limit + 1 ELSE 1,
         Len(observed[c]))

\* The stages a model may name.  Without its file the HMM halves the last
\* observation, and the LSTM says Reconnaissance.  What is put before a short
\* sequence changes what a model answers, not its last observation.
HmmStages(c) ==
  IF HmmLoaded THEN Stages
  ELSE LET half == Last(Recent(c)) \div 2 IN {IF half > 4 THEN 4 ELSE half}
LstmStages == IF LstmLoaded THEN Stages ELSE {0}

\* STATE_RISK.
StateRisk(stage) == CASE stage = 0 -> 0 [] stage = 1 -> 1 [] stage \in 2..3 -> 2 [] stage = 4 -> 3

\* The stage and the risk of the two opinions: the more advanced stage, and
\* when they differ a risk by how much they do.
Finding(lstm, hmm) ==
  LET ahead == IF lstm > hmm THEN lstm ELSE hmm
      behind == IF lstm > hmm THEN hmm ELSE lstm
  IN [state |-> ahead,
      risk  |-> CASE ahead = behind -> StateRisk(ahead)
                  [] ahead - behind = 1 -> 1
                  [] ahead - behind > 1 -> 2]
-----------------------------------------------------------------------------
\* Seeded fault: a chain is created only when the client named it.
ReceiveNamed(r) ==
  /\ at = "idle"
  /\ outcome[r] = "new"
  /\ \E b \in Bodies : \E c \in IF b.chain = NoChain THEN AutoChains[b.ip] ELSE {b.chain} :
       /\ body' = [b EXCEPT !.chain = c]
       /\ chains' = IF chains[c].known \/ b.chain = NoChain THEN chains
                    ELSE [chains EXCEPT ![c] = NewChain(b.ip)]
  /\ at' = "created"
  /\ request' = r
  /\ UNCHANGED <<observed, predictions, profiles, found, outcome, cut>>
\* A request arrives; get_or_create_chain.
Receive(r) ==
  /\ at = "idle"
  /\ outcome[r] = "new"
  /\ \E b \in Bodies : \E c \in IF b.chain = NoChain THEN AutoChains[b.ip] ELSE {b.chain} :
       /\ body' = [b EXCEPT !.chain = c]
       /\ chains' = IF chains[c].known THEN chains ELSE [chains EXCEPT ![c] = NewChain(b.ip)]
  /\ at' = "created"
  /\ request' = r
  /\ UNCHANGED <<observed, predictions, profiles, found, outcome, cut>>

\* Seeded fault: the row is inserted, and the count is left to another statement.
ObserveOnly ==
  /\ at = "created"
  /\ observed' = [observed EXCEPT ![body.chain] = Append(@, Observation(body))]
  /\ at' = "observed"
  /\ UNCHANGED <<chains, predictions, profiles, request, body, found, outcome, cut>>
\* add_observation: the row and the count in one transaction.
Observe ==
  /\ at = "created"
  /\ observed' = [observed EXCEPT ![body.chain] = Append(@, Observation(body))]
  /\ chains' = [chains EXCEPT ![body.chain].count = @ + 1]
  /\ at' = "observed"
  /\ UNCHANGED <<predictions, profiles, request, body, found, outcome, cut>>

\* update_chain_state.
Showing(row, finding) == [row EXCEPT !.state = finding.state, !.risk = finding.risk]

\* Seeded fault: the chain keeps its most advanced stage.
PredictAdvances ==
  /\ at = "observed"
  /\ \E lstm \in LstmStages, hmm \in HmmStages(body.chain) :
       /\ found' = Finding(lstm, hmm)
       /\ chains' = IF Finding(lstm, hmm).state < chains[body.chain].state THEN chains
                    ELSE [chains EXCEPT ![body.chain] = Showing(@, Finding(lstm, hmm))]
  /\ at' = "stated"
  /\ UNCHANGED <<observed, predictions, profiles, request, body, outcome, cut>>
\* The models' opinions, and the chain that shows what they come to.
Predict ==
  /\ at = "observed"
  /\ \E lstm \in LstmStages, hmm \in HmmStages(body.chain) :
       /\ found' = Finding(lstm, hmm)
       /\ chains' = [chains EXCEPT ![body.chain] = Showing(@, Finding(lstm, hmm))]
  /\ at' = "stated"
  /\ UNCHANGED <<observed, predictions, profiles, request, body, outcome, cut>>

\* log_prediction.
LogPrediction ==
  /\ at = "stated"
  /\ predictions' = Append(predictions,
       [request |-> request, chain |-> body.chain, ip |-> body.ip,
        state |-> found.state, risk |-> found.risk])
  /\ at' = "logged"
  /\ UNCHANGED <<chains, observed, profiles, request, body, found, outcome, cut>>

\* Seeded fault: an observation counts when its chain is new to the profile.
UpdatedPerChain(profile) ==
  [known |-> TRUE, chains |-> profile.chains \cup {body.chain},
   total |-> IF body.chain \in profile.chains THEN profile.total ELSE profile.total + 1,
   highest |-> IF profile.known /\ profile.highest > found.state
               THEN profile.highest ELSE found.state]
\* Seeded fault: the highest stage is the latest one.
UpdatedLatest(profile) ==
  [known |-> TRUE, total |-> profile.total + 1, chains |-> profile.chains \cup {body.chain},
   highest |-> found.state]
\* update_attacker_profile: one more observation, the highest stage ever.
Updated(profile) ==
  [known |-> TRUE, total |-> profile.total + 1, chains |-> profile.chains \cup {body.chain},
   highest |-> IF profile.known /\ profile.highest > found.state
               THEN profile.highest ELSE found.state]

UpdateProfile ==
  /\ at = "logged"
  /\ profiles' = [profiles EXCEPT ![body.ip] = Updated(@)]
  /\ at' = "idle"
  /\ request' = NoRequest
  /\ outcome' = [outcome EXCEPT ![request] = "answered"]
  /\ body' = NoBody /\ found' = NoFinding
  /\ UNCHANGED <<chains, observed, predictions, cut>>

\* The handler ends before its next transaction is committed: an exception,
\* which answers HTTP 500, or a crash and the next startup.
Abandon ==
  /\ at # "idle"
  /\ at' = "idle"
  /\ request' = NoRequest
  /\ body' = NoBody /\ found' = NoFinding
  /\ outcome' = [outcome EXCEPT ![request] = "failed"]
  /\ cut' = IF at = "created" THEN cut
            ELSE cut \cup {[request |-> request, chain |-> body.chain]}
  /\ UNCHANGED tables

Next ==
  \/ \E r \in Requests : Receive(r)
  \/ Observe \/ Predict \/ LogPrediction \/ UpdateProfile
  \/ Abandon

Spec == Init /\ [][Next]_vars
-----------------------------------------------------------------------------
\* get_active_chains.
Known == {c \in Chains : chains[c].known}

\* get_chain_history: the predictions of a chain.
History(c) == {i \in DOMAIN predictions : predictions[i].chain = c}

\* The predictions that were answered.
Answered == {p \in Range(predictions) : outcome[p.request] = "answered"}
AnsweredOn(c) == {p \in Answered : p.chain = c}
AnsweredFor(ip) == {p \in Answered : p.ip = ip}

\* A request of the chain is served whose observation is committed.
Serving(c) == at \in {"observed", "stated", "logged"} /\ body.chain = c
CutOn(c) == {x \in cut : x.chain = c}

Rows == [known : BOOLEAN, ip : Ips \cup {NoIp}, count : Nat, state : Stages, risk : Risks]
Profiles == [known : BOOLEAN, total : Nat, highest : Stages, chains : SUBSET Chains]
Predictions == [request : Requests, chain : Chains, ip : Ips, state : Stages, risk : Risks]

\* Every variable keeps its type (ThreatMemoryDB._init_db); the tables refer to
\* chains that exist, and a request is served while it is not answered.
TypeOK ==
  /\ chains \in [Chains -> Rows]
  /\ observed \in [Chains -> Seq(Observations)]
  /\ profiles \in [Ips -> Profiles]
  /\ \A ip \in Ips : profiles[ip].chains \subseteq Known
  /\ predictions \in Seq(Predictions)
  /\ \A i \in DOMAIN predictions : predictions[i].chain \in Known
  /\ \A c \in Chains : observed[c] # <<>> => c \in Known
  /\ outcome \in [Requests -> {"new", "answered", "failed"}]
  /\ cut \subseteq [request : Requests, chain : Chains] /\ IsFiniteSet(cut)
  /\ found \in [state : Stages, risk : Risks]
  /\ at \in Steps
  /\ at = "idle" => request = NoRequest /\ body = NoBody
  /\ at # "idle" => /\ request \in Requests /\ outcome[request] = "new"
                    /\ body.chain \in Known /\ body.ip \in Ips

\* The count of a chain is the number of its observations, after every crash
\* and every failed transaction (add_observation, get_observation_sequence).
CountsMatch == \A c \in Chains : chains[c].count = Len(observed[c])

\* Every observation of a chain is that of an answered request, of the one that
\* is served, or of one cut short, and the profile of an attacker counts the
\* answered ones: only those cut short are missing there, and a repeated request
\* is counted again in both (add_observation, update_attacker_profile).
ObservationsAccounted ==
  /\ \A c \in Chains :
       Len(observed[c]) =
         Cardinality(AnsweredOn(c)) + Cardinality(CutOn(c)) + (IF Serving(c) THEN 1 ELSE 0)
  /\ \A ip \in Ips : profiles[ip].total = Cardinality(AnsweredFor(ip))

\* The highest stage of a profile is the highest one that was answered for the
\* attacker, never that of a request cut short and never a later, lower one
\* (update_attacker_profile).
ProfileIsHighest ==
  \A ip \in Ips :
    LET answered == {p.state : p \in AnsweredFor(ip)}
    IN /\ profiles[ip].known = (answered # {})
       /\ profiles[ip].known =>
            profiles[ip].highest \in answered /\ \A s \in answered : s <= profiles[ip].highest

\* As long as none of its requests was cut short, a chain shows the stage and
\* the risk of its last logged prediction (update_chain_state, log_prediction).
ChainShowsPrediction ==
  \A c \in Known : \A i \in History(c) :
    (CutOn(c) = {} /\ ~Serving(c) /\ \A j \in History(c) : j <= i) =>
      chains[c].state = predictions[i].state /\ chains[c].risk = predictions[i].risk
-----------------------------------------------------------------------------
\* A request has one prediction, which stands while it is served only when the
\* profile is all that is left to do.
OneEach ==
  /\ \A i, j \in DOMAIN predictions : predictions[i].request = predictions[j].request => i = j
  /\ \A i \in DOMAIN predictions :
       outcome[predictions[i].request] = "new" =>
         /\ at = "logged" /\ i = Len(predictions)
         /\ predictions[i].request = request
  /\ at = "logged" => /\ predictions # <<>>
                      /\ predictions[Len(predictions)] =
                           [request |-> request, chain |-> body.chain, ip |-> body.ip,
                            state |-> found.state, risk |-> found.risk]
  /\ \A x \in cut : outcome[x.request] = "failed"

\* From the observation on there is one, and from update_chain_state on the chain
\* shows what was found; its last prediction differs only before the next is logged.
Stated ==
  /\ \A c \in Chains : Serving(c) => observed[c] # <<>>
  /\ at \in {"stated", "logged"} =>
       chains[body.chain].state = found.state /\ chains[body.chain].risk = found.risk
  /\ \A i \in DOMAIN predictions :
       LET c == predictions[i].chain
       IN (CutOn(c) = {} /\ ~(at = "stated" /\ body.chain = c) /\ \A j \in History(c) : j <= i) =>
            chains[c].state = predictions[i].state /\ chains[c].risk = predictions[i].risk

\* The inductive invariant.
IInv == TypeOK /\ CountsMatch /\ ObservationsAccounted /\ ProfileIsHighest /\ OneEach /\ Stated
=============================================================================
