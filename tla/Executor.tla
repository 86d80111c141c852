------------------------------- MODULE Executor -------------------------------
(***************************************************************************)
(* ActionExecutor.execute of Layer 3 (Response_engine/action_executor.py): *)
(* whether the actions of a decision are dispatched, and to what target.   *)
(* The handlers are stubs that name a field of the alert, or "unknown"     *)
(* when the alert lacks it, and never raise.                               *)
(*                                                                         *)
(* An alert maps its keys to the kind of value they hold: nothing, the     *)
(* empty string, a text, a text with a shell character, a number, a        *)
(* negative number, or "indefinite".                                       *)
(***************************************************************************)
EXTENDS Integers, Sequences, FiniteSets

Keys  == {"alert_id", "timestamp", "severity", "attack_type", "source_ip", "destination_ip",
          "source_port", "destination_port", "protocol", "mitre_stage", "user",
          "process_name", "block_duration"}
Kinds == {"absent", "empty", "text", "shell", "number", "negative", "indefinite"}
AlertBodies == [Keys -> Kinds]

\* The decision: its actions in order, and whether a human has to agree.
Orders == [actions : Seq(Nat), requiresApproval : BOOLEAN]

\* _dispatch.
Dispatched == 0..49

\* _extract_params_for_action: the same for every action.
Params(alert) ==
  {k \in Keys \ {"alert_id", "timestamp", "severity", "attack_type"} : alert[k] # "absent"}

\* validate_action_params.
ValidParam(key, kind) ==
  /\ key = "block_duration" => kind \in {"number", "indefinite"}
  /\ kind # "shell"
ParamsValid(alert) == \A k \in Params(alert) : ValidParam(k, alert[k])

\* The check before the execution: some target entity is there.
HasTarget(alert) ==
  \E k \in {"source_ip", "destination_ip", "user", "process_name"} :
    alert[k] \notin {"absent", "empty"}

\* What the model of the service keeps of all that (ResponseEngine!Execute).
Safe(alert) == HasTarget(alert) /\ ParamsValid(alert)

Gated(order, granted) == order.requiresApproval /\ ~granted

\* The positions that end in an error, and those whose handler runs.
Errors(order, alert) ==
  {i \in DOMAIN order.actions : ~ParamsValid(alert) \/ order.actions[i] \notin Dispatched}
Ran(order, alert, granted) ==
  IF Gated(order, granted) \/ ~HasTarget(alert) THEN {}
  ELSE DOMAIN order.actions \ Errors(order, alert)

Outcome(errors, total, dryRun) ==
  IF errors = total THEN "failed"
  ELSE IF errors > 0 THEN "partial_success"
  ELSE IF dryRun THEN "simulated" ELSE "executed"

Status(order, alert, granted, dryRun) ==
  IF Gated(order, granted) THEN "pending_approval"
  ELSE IF ~HasTarget(alert) THEN "failed"
  ELSE Outcome(Cardinality(Errors(order, alert)), Len(order.actions), dryRun)
-----------------------------------------------------------------------------
\* The fields of the alert that the handler of an action names.
MonitoringReads == [a \in 0..9 |-> IF a = 4 THEN {"source_ip", "destination_ip"}
                                  ELSE IF a \in {1, 3, 5} THEN {"source_ip"} ELSE {}]
NetworkReads ==
  [a \in 10..19 |-> IF a = 10 THEN {"source_ip", "block_duration"}
                   ELSE IF a = 11 THEN {"destination_ip"}
                   ELSE IF a = 15 THEN {"destination_port", "protocol"}
                   ELSE IF a \in {14, 19} THEN {} ELSE {"source_ip"}]
CredentialReads ==
  [a \in 20..29 |-> IF a = 27 THEN {"source_ip", "destination_ip"}
                   ELSE IF a \in {23, 24, 26, 29} THEN {} ELSE {"source_ip"}]
ProcessReads == [a \in 30..39 |-> {"source_ip"}]
DataReads == [a \in 40..49 |-> IF a \in {41, 42, 49} THEN {"source_ip"} ELSE {}]

Reads(a) ==
  IF a \in 0..9 THEN MonitoringReads[a] ELSE IF a \in 10..19 THEN NetworkReads[a]
  ELSE IF a \in 20..29 THEN CredentialReads[a] ELSE IF a \in 30..39 THEN ProcessReads[a]
  ELSE DataReads[a]

\* A handler acts on a default because the alert lacks a field.
ActsBlindly(a, alert) == \E k \in Reads(a) : alert[k] = "absent"

\* What /respond hands over: AlertRequest has these fields and drops every
\* other one, so the duration of a block is never given.
FromRequest(alert) ==
  /\ \A k \in {"source_ip", "destination_ip", "source_port", "destination_port", "protocol"} :
       alert[k] # "absent"
  /\ \A k \in {"user", "process_name", "block_duration"} : alert[k] = "absent"
=============================================================================
