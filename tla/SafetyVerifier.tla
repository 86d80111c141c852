--------------------------- MODULE SafetyVerifier ---------------------------
(***************************************************************************)
(* The verdict of Layer 3's Z3 safety verifier                             *)
(* (Response_engine/safety_verifier.py).  The solver is handed six         *)
(* Booleans that Python has already computed and their conjunction, so its *)
(* answer, when it gives one, is the conjunction of the constraints below; *)
(* when it does not answer within 500 ms the verdict is a denial.          *)
(*                                                                         *)
(* Actions are the registry indices 0..49.  The verdict looks at ONE       *)
(* action, the decision's primary one.                                     *)
(***************************************************************************)
EXTENDS Integers, FiniteSets

Registry             == 0..49
TradingWindowActions == {13, 14, 46}
IpBlockActions       == {10, 11, 12, 13, 18}
NetworkBlockActions  == 10..19
RestoreActions       == {33, 34}
BackupCriticalData   == 47

Severities == {"low", "medium", "high", "critical"}

(***************************************************************************)
(* A situation is what verify() knows besides the action: the alert's      *)
(* severity, whether either address is the management IP, whether it is    *)
(* trading time in Mumbai, whether the source still has room in its rate   *)
(* window, whether the backup registry lists a snapshot, and the           *)
(* requires_approval flag of the decision.                                 *)
(***************************************************************************)
Situations == [severity : Severities, mgmt : BOOLEAN, trading : BOOLEAN,
               rateOk : BOOLEAN, backup : BOOLEAN, requiresApproval : BOOLEAN]

TradingWindow(p, s)  == s.trading /\ p \in TradingWindowActions => s.requiresApproval
SeverityFloor(p, sv) == p >= 10 => sv \in {"high", "critical"}
SelfIp(p, mgmt)      == ~(mgmt /\ p \in IpBlockActions)
\* Seeded fault: the rate limit exempts severe alerts.
RateLimitUnlessSevere(p, s) ==
  p \in NetworkBlockActions /\ s.severity \in {"low", "medium"} => s.rateOk

RateLimit(p, s)      == p \in NetworkBlockActions => s.rateOk
BackupExists(p, s)   == p \in RestoreActions => s.backup

Satisfied(p, s) == /\ TradingWindow(p, s)
                   /\ SeverityFloor(p, s.severity)
                   /\ SelfIp(p, s.mgmt)
                   /\ RateLimit(p, s)
                   /\ BackupExists(p, s)

\* solver.check(): sat or unsat by the constraints, or "unknown" on its timeout.
SolverAnswers(p, s) == {IF Satisfied(p, s) THEN "sat" ELSE "unsat", "unknown"}

\* An unsatisfied backup constraint swaps the decision for action 47.
Substitutes(p, s, answer) == answer = "unsat" /\ ~BackupExists(p, s)
=============================================================================
