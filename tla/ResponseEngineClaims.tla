------------------------ MODULE ResponseEngineClaims ------------------------
(***************************************************************************)
(* Sentences of the documentation and of messages and docstrings of Layer  *)
(* 3, as properties of ResponseEngine.  The code does not keep them: the   *)
(* run of each one ends in a counterexample, and README.md discusses it.   *)
(***************************************************************************)
EXTENDS ResponseEngine

(***************************************************************************)
(* "Every proposed action is formally verified by a Z3 theorem prover      *)
(* before execution" (README.md).  verify() looks at the primary action;   *)
(* the fast path executes up to three.                                     *)
(***************************************************************************)
EveryPolicyActionIsVerified ==
  \A r \in Requests : run[r].by = "policy" =>
    \A x \in run[r].actions : SeverityFloor(x, AlertFor(r).severity) /\ SelfIp(x, AlertFor(r).mgmt)

(***************************************************************************)
(* A guarded action in trading hours "requires explicit human approval"    *)
(* (the reason C1 gives in safety_verifier.py).  predict() sets            *)
(* requires_approval on every decision, which verify() takes for an        *)
(* approval already given.                                                 *)
(***************************************************************************)
TradingHoursNeedHuman == \A r \in Requests : run[r].by = "policy" => ~decision[r].guarded
=============================================================================
