------------------------------ MODULE AttackStage ------------------------------
(***************************************************************************)
(* POST /correlate of Layer 2 (layer2_correlation/server.py): the stage of *)
(* the kill chain, the next one and the probability that it answers for an *)
(* alert, from the opinions of its two models and the attack type, and the *)
(* severities it gives the three nodes of the attack's path.               *)
(*                                                                         *)
(* Probabilities are in hundredths and severities in thousandths.  An      *)
(* opinion is what the networks say when their files could be loaded.      *)
(***************************************************************************)
EXTENDS Integers

\* MITRE_TO_ID.
Stages == {"Benign", "Reconnaissance", "Initial_Access", "Execution", "Impact",
           "Exfiltration", "Exploitation"}

\* ATTACK_TYPE_TO_MITRE, by stage.
ReconnaissanceAttacks == {"PortScan", "Reconnaissance", "Fuzzers", "Analysis"}
AccessAttacks ==
  {"FTP-Patator", "SSH-Patator", "Exploits", "Shellcode", "Web Attack - Brute Force",
   "Web Attack - XSS", "Web Attack - Sql Injection"}
ExecutionAttacks ==
  {"Bot", "Backdoor", "Worms", "Zeus Banking Trojan", "Zeus_Banking_Trojan",
   "Banking Trojan", "Banking_Trojan"}
ImpactAttacks ==
  {"DDoS", "DoS Hulk", "DoS GoldenEye", "DoS slowloris", "DoS Slowhttptest", "Generic", "DoS"}
Known == ReconnaissanceAttacks \cup AccessAttacks \cup ExecutionAttacks \cup ImpactAttacks
           \cup {"Infiltration", "Heartbleed"}

StageOf(attack) ==
  IF attack \in ReconnaissanceAttacks THEN "Reconnaissance"
  ELSE IF attack \in AccessAttacks THEN "Initial_Access"
  ELSE IF attack \in ExecutionAttacks THEN "Execution"
  ELSE IF attack \in ImpactAttacks THEN "Impact"
  ELSE IF attack = "Infiltration" THEN "Exfiltration" ELSE "Exploitation"

\* NEXT_STAGE_MAP.
NextStage(stage) ==
  IF stage = "Benign" THEN "Reconnaissance"
  ELSE IF stage = "Reconnaissance" THEN "Initial_Access"
  ELSE IF stage \in {"Initial_Access", "Exploitation"} THEN "Execution" ELSE "Exfiltration"

\* predict_gatv2 and predict_bilstm, with what they say without their files.
Opinions == [graphLoaded : BOOLEAN, prob : 0..100,
             sequenceLoaded : BOOLEAN, stage : Stages, next : Stages]
GraphOpinion(o) == IF o.graphLoaded THEN o.prob ELSE 85
SequenceOpinion(o) ==
  IF o.sequenceLoaded THEN [stage |-> o.stage, next |-> o.next]
  ELSE [stage |-> "Execution", next |-> "Exfiltration"]

Opinion(o) ==
  [stage |-> SequenceOpinion(o).stage, next |-> SequenceOpinion(o).next,
   prob  |-> GraphOpinion(o)]

\* A known attack that a model takes for benign: its label is believed.
Relabelled(attack, x) ==
  IF attack \in Known /\ (x.stage = "Benign" \/ x.prob < 10)
  THEN [stage |-> StageOf(attack), next |-> NextStage(StageOf(attack)),
        prob  |-> IF x.prob < 10 THEN 87 ELSE x.prob]
  ELSE x

\* The second table, for a benign stage with a high probability.
InferredStage(attack) ==
  IF attack \in {"PortScan", "FTP-Patator", "SSH-Patator"} THEN "Reconnaissance"
  ELSE IF attack \in {"Backdoor", "Bot", "Infiltration"} THEN "Initial_Access"
  ELSE IF attack \in {"Zeus_Banking_Trojan", "Banking Trojan", "Heartbleed"} THEN "Execution"
  ELSE IF attack \in {"Web Attack", "DoS", "DDoS", "DoS Hulk", "DoS GoldenEye"} THEN "Impact"
  ELSE "Initial_Access"
Inferred(attack, x) ==
  IF x.prob > 50 /\ x.stage = "Benign"
  THEN [x EXCEPT !.stage = InferredStage(attack), !.next = NextStage(InferredStage(attack))]
  ELSE x

Correlated(attack, o) == Inferred(attack, Relabelled(attack, Opinion(o)))
-----------------------------------------------------------------------------
\* STAGE_SEVERITY, which lacks Impact and Exploitation.
StageSeverity(stage) ==
  IF stage = "Benign" THEN 50 ELSE IF stage = "Reconnaissance" THEN 200
  ELSE IF stage = "Initial_Access" THEN 400 ELSE IF stage = "Execution" THEN 800
  ELSE IF stage = "Exfiltration" THEN 950 ELSE 500

\* build_nodes: the attacker, the gateway and the target.
NodeSeverities(stage) ==
  LET base == StageSeverity(stage) IN
  <<IF base + 100 > 1000 THEN 1000 ELSE base + 100, (base * 6) \div 10, (base * 9) \div 10>>

\* build_edges: the sum of which a weight is the third, and its colour.
EdgeSum(i, stage, prob) == 10 * prob + NodeSeverities(stage)[i] + NodeSeverities(stage)[i + 1]
EdgeColour(i, stage, prob) ==
  IF EdgeSum(i, stage, prob) > 2100 THEN "red"
  ELSE IF EdgeSum(i, stage, prob) > 1200 THEN "orange" ELSE "yellow"
=============================================================================
