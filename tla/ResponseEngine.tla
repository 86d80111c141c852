--------------------------- MODULE ResponseEngine ---------------------------
(***************************************************************************)
(* The Layer 3 service (Response_engine/main.py): /respond decides on an   *)
(* alert and either executes at once or parks the decision for a human;    *)
(* /approve executes or rejects a parked decision; /pending lists them.    *)
(*                                                                         *)
(* The service is one asyncio process.  A handler runs without             *)
(* interruption between two awaits, and there are two awaits that matter:  *)
(* the LLM reasoning call in /respond, between the safety verdict and the  *)
(* decision to execute, and the reading of the request body in /approve,   *)
(* between the 404 check and the pop.  The steps of different handlers     *)
(* interleave there.  All state but the audit log is in memory, so a       *)
(* restart empties it.                                                     *)
(*                                                                         *)
(* Both calls of Ollama run in `with ThreadPoolExecutor(...)`, whose end   *)
(* waits for the worker thread, on the event loop: the one in the coroutine*)
(* after its 8 s timeout, and the one of the playbook generator always, as *)
(* generate() is an ordinary function.  The Ollama client has no timeout   *)
(* of its own.  While a handler waits there, it keeps the loop, and no     *)
(* other handler runs.                                                     *)
(*                                                                         *)
(* A request is one call of /respond.  Several requests may carry the same *)
(* alert_id: the orchestrator and its clients retry.                       *)
(*                                                                         *)
(* A definition marked "Seeded fault" is the next one with a plausible     *)
(* bug.  Nothing here uses it: put in the place of the right one, it has   *)
(* to break a property.                                                    *)
(***************************************************************************)
EXTENDS SafetyVerifier

CONSTANTS Requests,      \* the calls of /respond
          AlertIds,      \* the alert_id values they carry
          Approvers,     \* the /approve handlers that may be active at once
          NoRequest,     \* no request, no alert
          Sources,       \* source addresses
          Alert,         \* what an alert id stands for
          Rankings,      \* the top_indices the DQN may produce
          Modifications, \* values of modified_actions in approval bodies
          LlmPlaybooks,  \* executable_actions the LLM may return
          RateMax,       \* _RATE_MAX_HITS
          AuditFails     \* whether writes of the audit log may fail

Alerts == [severity : Severities, source : Sources, mgmt : BOOLEAN,
           confident : BOOLEAN, safe : BOOLEAN, novel : BOOLEAN]

ASSUME AlertAssumption    == Alert \in [AlertIds -> Alerts]
ASSUME RankingAssumption  == \A top \in Rankings :
                                1 \in DOMAIN top /\ \A i \in DOMAIN top : top[i] \in Registry
ASSUME RequestAssumption  == NoRequest \notin Requests \cup AlertIds \cup Approvers
ASSUME HandlerAssumption  == Requests \cap Approvers = {}
ASSUME ModsAssumption     == Modifications \subseteq SUBSET Int /\ LlmPlaybooks \subseteq SUBSET Int
ASSUME RateAssumption     == RateMax \in Nat \ {0}
ASSUME AuditAssumption    == AuditFails \in BOOLEAN

VARIABLES
  alertOf,    \* the alert_id of a request
  phase,      \* where a request is in its life
  decision,   \* its ActionDecision and the verdict on it
  run,        \* what execute() did for it
  pending,    \* _pending_lookup: alert_id -> the request whose decision is parked
  heap,       \* _priority_queue: the requests that pushed the entries
  rateHits,   \* _rate_window: entries of the last 60 s, per source
  call,       \* the /approve handlers
  audit,      \* the audit log
  retrain,    \* the fire-and-forget POST to Layer 4's /retrain
  keeper      \* who keeps the event loop until Ollama returns, or NoRequest

vars == <<alertOf, phase, decision, run, pending, heap, rateHits, call, audit, retrain, keeper>>
-----------------------------------------------------------------------------
(***************************************************************************)
(* A request is "new", then "reasoning" (awaiting the LLM).  Then it is    *)
(* "generating" (executed at once, its playbook being written), or one of  *)
(*   auto        executed at once, answered "responded"                    *)
(*   autofailed  executed at once, then the playbook raised: "failed"      *)
(*   failed      inference raised: "failed"                                *)
(*   queued      parked, answered "pending_approval"                       *)
(* and a parked one ends as                                                *)
(*   approved    executed by /approve                                      *)
(*   rejected    refused by /approve                                       *)
(*   aborted     popped by /approve, whose playbook raised: HTTP 500       *)
(*   superseded  overwritten by a later request with the same alert_id     *)
(* A restart turns reasoning, generating and queued requests into "gone".  *)
(***************************************************************************)
Open   == {"new", "reasoning", "queued"}
Live   == Open \cup {"generating"}
Ended  == {"auto", "autofailed", "failed", "approved", "rejected", "aborted",
           "superseded", "gone"}
Answered == {"auto", "approved"}

Decisions == [primary : Registry, actions : SUBSET Registry, approved : BOOLEAN,
              backup : BOOLEAN, guarded : BOOLEAN]
Runs      == [times : Nat, by : {"nobody", "policy", "human"},
              ordered : SUBSET Registry, actions : SUBSET Registry]
Records   == [event : {"approval_request", "approval_decision", "incident_decision"},
              request : Requests]

NotRun    == [times |-> 0, by |-> "nobody", ordered |-> {}, actions |-> {}]
NoCall    == [alert |-> NoRequest, reject |-> FALSE, mods |-> {}]
Calls     == {NoCall} \cup [alert : AlertIds, reject : BOOLEAN, mods : SUBSET Int]
Undecided == [primary |-> 0, actions |-> {}, approved |-> FALSE, backup |-> FALSE,
              guarded |-> FALSE]

TypeOK ==
  /\ alertOf  \in [Requests -> AlertIds]
  /\ phase    \in [Requests -> Live \cup Ended]
  /\ decision \in [Requests -> Decisions]
  /\ run      \in [Requests -> Runs]
  /\ pending  \in [AlertIds -> Requests \cup {NoRequest}]
  /\ heap     \subseteq Requests
  /\ rateHits \in [Sources -> 0..RateMax]
  /\ call     \in [Approvers -> Calls]
  /\ audit    \subseteq Records
  /\ retrain  \in [Requests -> {"none", "scheduled", "posted", "lost"}]
  /\ keeper   \in Requests \cup Approvers \cup {NoRequest}

Init ==
  /\ alertOf  \in [Requests -> AlertIds]
  /\ phase    = [r \in Requests |-> "new"]
  /\ decision = [r \in Requests |-> Undecided]
  /\ run      = [r \in Requests |-> NotRun]
  /\ pending  = [a \in AlertIds |-> NoRequest]
  /\ heap     = {}
  /\ rateHits = [s \in Sources |-> 0]
  /\ call     = [o \in Approvers |-> NoCall]
  /\ audit    = {}
  /\ retrain  = [r \in Requests |-> "none"]
  /\ keeper   = NoRequest

AlertFor(r) == Alert[alertOf[r]]
LoopFree    == keeper = NoRequest
-----------------------------------------------------------------------------
(***************************************************************************)
(* filter_conflicting_actions on the distinct actions of a ranking:        *)
(* do_nothing (0) stands alone or not at all.                              *)
(***************************************************************************)
Chosen(top) == IF top[1] = 0 THEN {0} ELSE {top[i] : i \in DOMAIN top} \ {0}

(***************************************************************************)
(* The decision after predict(), verify() and the swap.  predict() sets    *)
(* requires_approval to True on every decision.                            *)
(***************************************************************************)
Decide(top, s, answer) ==
  LET swap == Substitutes(top[1], s, answer)
  IN [primary  |-> IF swap THEN BackupCriticalData ELSE top[1],
      actions  |-> IF swap THEN {BackupCriticalData} ELSE Chosen(top),
      approved |-> answer = "sat",
      backup   |-> s.backup,
      guarded  |-> s.trading /\ top[1] \in TradingWindowActions]

(***************************************************************************)
(* execute(): the pre-check and the parameter validation look at the alert *)
(* alone, so either every action is dispatched or none is.                 *)
(***************************************************************************)
Execute(r, who, actions) ==
  [times   |-> run[r].times + 1,
   by      |-> who,
   ordered |-> actions,
   actions |-> IF AlertFor(r).safe THEN actions ELSE {}]

\* Seeded fault: a handler writes one of its records only.
LoggedOneOf(records) == {audit \cup {x} : x \in records}

\* Records written by a handler; a failed write is printed and swallowed.
Logged(records) == IF AuditFails THEN {audit \cup S : S \in SUBSET records}
                                 ELSE {audit \cup records}
Record(event, r) == [event |-> event, request |-> r]

\* trigger_l4_retrain starts as a task and returns at once unless the alert qualifies.
Retrains(r) == AlertFor(r).novel \/ AlertFor(r).severity \in {"critical", "high"}
ScheduleRetrain(r) == [retrain EXCEPT ![r] = IF Retrains(r) THEN "scheduled" ELSE @]
-----------------------------------------------------------------------------
(***************************************************************************)
(* POST /respond up to its await: inference, the safety verdict (which     *)
(* records an allowed network block in the rate window) and the swap.      *)
(***************************************************************************)
Respond(r) ==
  /\ LoopFree
  /\ phase[r] = "new"
  /\ \E top \in Rankings, trading \in BOOLEAN, snapshot \in BOOLEAN :
       LET src == AlertFor(r).source
           s   == [severity |-> AlertFor(r).severity, mgmt |-> AlertFor(r).mgmt,
                   trading |-> trading, rateOk |-> rateHits[src] < RateMax,
                   backup |-> top[1] \in RestoreActions => snapshot,
                   requiresApproval |-> TRUE]
       IN \E answer \in SolverAnswers(top[1], s) :
            /\ decision' = [decision EXCEPT ![r] = Decide(top, s, answer)]
            /\ rateHits' = IF answer = "sat" /\ top[1] \in NetworkBlockActions
                           THEN [rateHits EXCEPT ![src] = @ + 1] ELSE rateHits
  /\ phase' = [phase EXCEPT ![r] = "reasoning"]
  /\ UNCHANGED <<alertOf, run, pending, heap, call, audit, retrain, keeper>>

\* A component is missing or predict() raises (NaN in the features): answered "failed".
RespondRaises(r) ==
  /\ LoopFree
  /\ phase[r] = "new"
  /\ phase' = [phase EXCEPT ![r] = "failed"]
  /\ UNCHANGED <<alertOf, decision, run, pending, heap, rateHits, call, audit, retrain, keeper>>

\* Seeded fault: the executor's future is awaited without wait_for.
LlmTimeoutNever(r) == FALSE

(***************************************************************************)
(* The 8 s of wait_for are over.  Its TimeoutError is caught inside the    *)
(* `with`, whose end then waits for the worker.                            *)
(***************************************************************************)
LlmTimeout(r) ==
  /\ LoopFree
  /\ phase[r] = "reasoning"
  /\ keeper' = r
  /\ UNCHANGED <<alertOf, phase, decision, run, pending, heap, rateHits, call, audit, retrain>>

\* Seeded fault: the verdict is not consulted.
MayAutoExecuteUnverified(r) == AlertFor(r).confident

\* The gate of the fast path, for a request the LLM called LOW risk.
MayAutoExecute(r) == AlertFor(r).confident /\ decision[r].approved

(***************************************************************************)
(* /respond after its await, fast path, for an answer that came in time:   *)
(* execute() comes first, then the playbook is generated.                  *)
(***************************************************************************)
AutoExecute(r) ==
  /\ LoopFree
  /\ phase[r] = "reasoning"
  /\ MayAutoExecute(r)
  /\ run' = [run EXCEPT ![r] = Execute(r, "policy", decision[r].actions)]
  /\ phase' = [phase EXCEPT ![r] = "generating"]
  /\ keeper' = r
  /\ UNCHANGED <<alertOf, decision, pending, heap, rateHits, call, audit, retrain>>

(***************************************************************************)
(* generate() returns, or raises (the LLM returned a JSON list): then      *)
(* neither the audit record is written nor the retraining scheduled.       *)
(***************************************************************************)
Generated(r) ==
  /\ phase[r] = "generating"
  /\ keeper = r
  /\ keeper' = NoRequest
  /\ \/ /\ phase' = [phase EXCEPT ![r] = "auto"]
        /\ audit' \in Logged({Record("incident_decision", r)})
        /\ retrain' = ScheduleRetrain(r)
     \/ /\ phase' = [phase EXCEPT ![r] = "autofailed"]
        /\ UNCHANGED <<audit, retrain>>
  /\ UNCHANGED <<alertOf, decision, run, pending, heap, rateHits, call>>

\* Seeded fault: a resubmitted alert keeps its first decision (setdefault).
EnqueueKeepsFirst(r) ==
  LET a == alertOf[r] IN
  /\ LoopFree \/ keeper = r
  /\ phase[r] = "reasoning"
  /\ pending' = [pending EXCEPT ![a] = IF @ = NoRequest THEN r ELSE @]
  /\ heap' = heap \cup {r}
  /\ phase' = [phase EXCEPT ![r] = "queued"]
  /\ audit' \in Logged({Record("approval_request", r)})
  /\ keeper' = NoRequest
  /\ UNCHANGED <<alertOf, decision, run, rateHits, call, retrain>>

(***************************************************************************)
(* /respond after its await, slow path: the decision is parked under its   *)
(* alert_id, in place of an earlier one.  Whatever the gate, the LLM may   *)
(* have answered MEDIUM or HIGH, or nothing; after a timeout the fallback  *)
(* says MEDIUM.                                                            *)
(***************************************************************************)
Enqueue(r) ==
  LET a == alertOf[r] IN
  /\ LoopFree \/ keeper = r
  /\ phase[r] = "reasoning"
  /\ pending' = [pending EXCEPT ![a] = r]
  /\ heap' = heap \cup {r}
  /\ phase' = [q \in Requests |-> IF q = r THEN "queued"
                                  ELSE IF q = pending[a] THEN "superseded"
                                  ELSE phase[q]]
  /\ audit' \in Logged({Record("approval_request", r)})
  /\ keeper' = NoRequest
  /\ UNCHANGED <<alertOf, decision, run, rateHits, call, retrain>>
-----------------------------------------------------------------------------
(***************************************************************************)
(* POST /approve up to its await: the 404 check.  What the operator means  *)
(* (reject or approve, with which modified_actions) is in the body still   *)
(* to be read.                                                             *)
(***************************************************************************)
CallApprove(o) ==
  /\ LoopFree
  /\ call[o] = NoCall
  /\ \E a \in AlertIds, reject \in BOOLEAN, mods \in Modifications :
       /\ pending[a] # NoRequest
       /\ call' = [call EXCEPT ![o] = [alert |-> a, reject |-> reject, mods |-> mods]]
  /\ UNCHANGED <<alertOf, phase, decision, run, pending, heap, rateHits, audit, retrain, keeper>>

\* Seeded fault: the decision comes from the priority queue, not from the lookup.
PoppedFromHeap(o) ==
  LET held == {r \in heap : alertOf[r] = call[o].alert}
  IN IF held = {} THEN NoRequest ELSE CHOOSE r \in held : TRUE

\* Seeded fault: the entry is read with get() and stays.
PopNothing(o) == pending

Popped(o)  == pending[call[o].alert]
Reading(o) == call[o] # NoCall
Return(o)  == [call EXCEPT ![o] = NoCall]
Pop(o)     == [pending EXCEPT ![call[o].alert] = NoRequest]

\* Seeded fault: a handler that lost the race waits for another entry.
ApproveRacedWaits(o) == Reading(o) /\ Popped(o) = NoRequest /\ UNCHANGED vars

\* Another handler popped the entry meanwhile: KeyError, HTTP 500.
ApproveRaced(o) ==
  /\ LoopFree
  /\ Reading(o)
  /\ Popped(o) = NoRequest
  /\ call' = Return(o)
  /\ UNCHANGED <<alertOf, phase, decision, run, pending, heap, rateHits, audit, retrain, keeper>>

Reject(o) ==
  LET r == Popped(o) IN
  /\ LoopFree
  /\ Reading(o)
  /\ r # NoRequest
  /\ call[o].reject
  /\ pending' = Pop(o)
  /\ phase' = [phase EXCEPT ![r] = "rejected"]
  /\ audit' \in Logged({Record("approval_decision", r), Record("incident_decision", r)})
  /\ call' = Return(o)
  /\ UNCHANGED <<alertOf, decision, run, heap, rateHits, retrain, keeper>>

(***************************************************************************)
(* The body counts as approved=True without modifications when it cannot   *)
(* be read or parsed.  modified_actions, cut down to registered actions,   *)
(* replace the decision's actions, but not its primary one.                *)
(***************************************************************************)
Ordered(r, mods) == IF mods \cap Registry # {} THEN mods \cap Registry ELSE decision[r].actions

\* What each way of reading the body makes of the parked decision.
OrderedActions(o) ==
  {decision[Popped(o)].actions} \cup
  (IF call[o].reject THEN {} ELSE {Ordered(Popped(o), call[o].mods)})

(***************************************************************************)
(* An approval pops its decision and has the playbook generated, on the    *)
(* loop.  What it takes out is seen by nobody before the loop is free, so  *)
(* the pop is left to the steps that end the wait.                         *)
(***************************************************************************)
Generate(o) ==
  /\ LoopFree
  /\ Reading(o)
  /\ Popped(o) # NoRequest
  /\ keeper' = o
  /\ UNCHANGED <<alertOf, phase, decision, run, pending, heap, rateHits, call, audit, retrain>>

(***************************************************************************)
(* generate() runs before execute(), and the actions it names, when it     *)
(* names any, replace the ordered ones.  The rule-based fallback names the *)
(* primary action; the LLM names what it likes.                            *)
(***************************************************************************)
PlaybookActions(r) == {{decision[r].primary}} \cup LlmPlaybooks
Overridden(ordered, playbook) == IF playbook = {} THEN ordered ELSE playbook \cap Registry

RunOf(r, ordered, playbook) ==
  [Execute(r, "human", Overridden(ordered, playbook)) EXCEPT !.ordered = ordered]

Approve(o) ==
  LET r == Popped(o) IN
  /\ keeper = o
  /\ \E ordered \in OrderedActions(o), playbook \in PlaybookActions(r) :
       run' = [run EXCEPT ![r] = RunOf(r, ordered, playbook)]
  /\ pending' = Pop(o)
  /\ phase' = [phase EXCEPT ![r] = "approved"]
  /\ audit' \in Logged({Record("approval_decision", r), Record("incident_decision", r)})
  /\ retrain' = ScheduleRetrain(r)
  /\ call' = Return(o)
  /\ keeper' = NoRequest
  /\ UNCHANGED <<alertOf, decision, heap, rateHits>>

\* generate() raises: the entry is popped already, HTTP 500.
ApproveRaises(o) ==
  LET r == Popped(o) IN
  /\ keeper = o
  /\ pending' = Pop(o)
  /\ phase' = [phase EXCEPT ![r] = "aborted"]
  /\ call' = Return(o)
  /\ keeper' = NoRequest
  /\ UNCHANGED <<alertOf, decision, run, heap, rateHits, audit, retrain>>
-----------------------------------------------------------------------------
\* Seeded fault: listing the queue consumes it.
GetPendingConsumes ==
  /\ LoopFree
  /\ heap' = {}
  /\ UNCHANGED <<alertOf, phase, decision, run, pending, rateHits, call, audit, retrain, keeper>>

\* GET /pending drops the entries whose alert_id is no longer pending.
GetPending ==
  /\ LoopFree
  /\ heap' = {r \in heap : pending[alertOf[r]] # NoRequest}
  /\ UNCHANGED <<alertOf, phase, decision, run, pending, rateHits, call, audit, retrain, keeper>>

\* An entry of the rate window becomes older than 60 s.
RateExpires(s) ==
  /\ rateHits[s] > 0
  /\ rateHits' = [rateHits EXCEPT ![s] = @ - 1]
  /\ UNCHANGED <<alertOf, phase, decision, run, pending, heap, call, audit, retrain, keeper>>

\* The retraining task: one POST with a 5 s timeout, never repeated.
RetrainTask(r) ==
  /\ LoopFree
  /\ retrain[r] = "scheduled"
  /\ \E outcome \in {"posted", "lost"} : retrain' = [retrain EXCEPT ![r] = outcome]
  /\ UNCHANGED <<alertOf, phase, decision, run, pending, heap, rateHits, call, audit, keeper>>

\* Seeded fault: the requests in flight are taken up again from the start.
RestartReplays ==
  /\ phase'    = [r \in Requests |-> IF phase[r] \in {"reasoning", "generating"} THEN "new"
                                     ELSE IF phase[r] = "queued" THEN "gone" ELSE phase[r]]
  /\ pending'  = [a \in AlertIds |-> NoRequest]
  /\ heap'     = {}
  /\ rateHits' = [s \in Sources |-> 0]
  /\ call'     = [o \in Approvers |-> NoCall]
  /\ retrain'  = [r \in Requests |-> IF retrain[r] = "scheduled" THEN "lost" ELSE retrain[r]]
  /\ keeper'   = NoRequest

(***************************************************************************)
(* The process dies and is started again; all but the audit log is lost.   *)
(***************************************************************************)
Restart ==
  /\ phase'    = [r \in Requests |-> IF phase[r] \in Live \ {"new"} THEN "gone" ELSE phase[r]]
  /\ pending'  = [a \in AlertIds |-> NoRequest]
  /\ heap'     = {}
  /\ rateHits' = [s \in Sources |-> 0]
  /\ call'     = [o \in Approvers |-> NoCall]
  /\ retrain'  = [r \in Requests |-> IF retrain[r] = "scheduled" THEN "lost" ELSE retrain[r]]
  /\ keeper'   = NoRequest

Crash == Restart /\ UNCHANGED <<alertOf, decision, run, audit>>

\* The process dies between the execution of an approval and its first audit record.
CrashAfterApprove(o) ==
  LET r == Popped(o) IN
  /\ keeper = o
  /\ \E ordered \in OrderedActions(o), playbook \in PlaybookActions(r) :
       run' = [run EXCEPT ![r] = RunOf(r, ordered, playbook)]
  /\ Restart
  /\ UNCHANGED <<alertOf, decision, audit>>
-----------------------------------------------------------------------------
Conclude(r) == LlmTimeout(r) \/ AutoExecute(r) \/ Generated(r) \/ Enqueue(r)
Finish(o)   == ApproveRaced(o) \/ Reject(o) \/ Generate(o) \/ Approve(o) \/ ApproveRaises(o)

Next ==
  \/ \E r \in Requests : Respond(r) \/ RespondRaises(r) \/ Conclude(r) \/ RetrainTask(r)
  \/ \E o \in Approvers : CallApprove(o) \/ Finish(o) \/ CrashAfterApprove(o)
  \/ \E s \in Sources : RateExpires(s)
  \/ GetPending
  \/ Crash

Spec == Init /\ [][Next]_vars

(***************************************************************************)
(* Fairness for the liveness properties: while the loop is free, the timer *)
(* of wait_for fires, and a handler whose request body arrived, or whose   *)
(* connection broke, is resumed.  Nothing obliges Ollama to answer or to   *)
(* return, so no step that ends a wait for it is fair; nor does anything   *)
(* oblige a client or an operator to call.                                 *)
(***************************************************************************)
FairSpec == /\ Spec
            /\ \A r \in Requests : WF_vars(LlmTimeout(r))
            /\ \A o \in Approvers : WF_vars(ApproveRaced(o) \/ Reject(o) \/ Generate(o))
-----------------------------------------------------------------------------
(***************************************************************************)
(* A decision is in _pending_lookup exactly while its request is queued:   *)
(* no parked decision is orphaned by a resubmission, an approval race or a *)
(* restart, and none stays behind once it is decided.                      *)
(***************************************************************************)
ParkedExactlyOnce ==
  /\ \A r \in Requests : phase[r] = "queued" <=> pending[alertOf[r]] = r
  /\ \A a \in AlertIds : pending[a] # NoRequest => alertOf[pending[a]] = a

(***************************************************************************)
(* execute() runs at most once for a request, never for one that was       *)
(* rejected, superseded or answered "failed" by inference, and always for  *)
(* one answered "responded", however two approvals and a resubmission race.*)
(***************************************************************************)
RunAtMostOnce ==
  \A r \in Requests :
    /\ run[r].times <= 1
    /\ run[r].times = 1 => phase[r] \in {"generating", "auto", "autofailed", "approved", "gone"}
    /\ phase[r] \in {"generating", "auto", "autofailed", "approved"} => run[r].times = 1

(***************************************************************************)
(* A parked decision has its own entry in the priority queue, so /pending  *)
(* shows it, although entries are dropped lazily and by alert_id only.     *)
(***************************************************************************)
ParkedIsListed == \A a \in AlertIds : pending[a] # NoRequest => pending[a] \in heap

(***************************************************************************)
(* What the policy executed without a human had an allowed PRIMARY action: *)
(* severity floor, management IP and backup constraints held for it when   *)
(* it was verified, and a swapped decision never takes the fast path.      *)
(***************************************************************************)
PolicyRunsAreVerified ==
  \A r \in Requests : run[r].by = "policy" =>
    LET d == decision[r] IN
    /\ AlertFor(r).confident
    /\ SeverityFloor(d.primary, AlertFor(r).severity)
    /\ SelfIp(d.primary, AlertFor(r).mgmt)
    /\ d.primary \in RestoreActions => d.backup

(***************************************************************************)
(* When the log can be written, an answered or rejected request left the   *)
(* records that make up its history, across restarts.                      *)
(***************************************************************************)
TrailIsComplete ==
  ~AuditFails => \A r \in Requests :
    /\ phase[r] \in Answered \cup {"rejected"} => Record("incident_decision", r) \in audit
    /\ phase[r] \in {"approved", "rejected"} =>
         {Record("approval_request", r), Record("approval_decision", r)} \subseteq audit

(***************************************************************************)
(* Layer 4 is retrained only from incidents answered "responded": never    *)
(* from a rejected, superseded, aborted or failed one.                     *)
(***************************************************************************)
RetrainsFromAnswered == \A r \in Requests : retrain[r] # "none" => phase[r] \in Answered

(***************************************************************************)
(* An ended request stays as it is: no handler that started earlier, and   *)
(* no restart, changes its outcome or executes for it again.               *)
(***************************************************************************)
OutcomeIsFinal ==
  [][\A r \in Requests : phase[r] \in Ended => phase'[r] = phase[r] /\ run'[r] = run[r]]_vars

(***************************************************************************)
(* The inductive invariant: the properties above, and what they lean on.   *)
(* RunRecords ties who executed a request to its phase, ApprovedVerdicts   *)
(* carries the verifier's findings from the verdict to the execution,      *)
(* QueuedIsLogged carries the first record from the queue to the decision, *)
(* and KeeperWaits says who keeps the loop: a handler whose wait can end,  *)
(* and always the one between execute() and its records.                   *)
(***************************************************************************)
RunRecords ==
  \A r \in Requests :
    /\ run[r].times = 0 <=> run[r].by = "nobody"
    /\ phase[r] \in {"generating", "auto", "autofailed"} => run[r].by = "policy"
    /\ phase[r] = "approved" => run[r].by = "human"

ApprovedVerdicts ==
  \A r \in Requests :
    LET d == decision[r] IN
    /\ run[r].by = "policy" => d.approved /\ AlertFor(r).confident
    /\ d.approved => /\ SeverityFloor(d.primary, AlertFor(r).severity)
                     /\ SelfIp(d.primary, AlertFor(r).mgmt)
                     /\ d.primary \in RestoreActions => d.backup

QueuedIsLogged ==
  ~AuditFails => \A r \in Requests :
    phase[r] = "queued" => Record("approval_request", r) \in audit

KeeperWaits ==
  /\ \A r \in Requests : /\ phase[r] = "generating" => keeper = r
                         /\ keeper = r => phase[r] \in {"reasoning", "generating"}
  /\ \A o \in Approvers : keeper = o => Reading(o) /\ Popped(o) # NoRequest

IInv == /\ TypeOK
        /\ ParkedExactlyOnce
        /\ RunAtMostOnce
        /\ RunRecords
        /\ ParkedIsListed
        /\ ApprovedVerdicts
        /\ QueuedIsLogged
        /\ TrailIsComplete
        /\ RetrainsFromAnswered
        /\ KeeperWaits

(***************************************************************************)
(* A request that reached the LLM gets an answer, unless a restart takes   *)
(* it, or a handler (its own, or any other) keeps the loop for good,       *)
(* because Ollama never returns to it.                                     *)
(***************************************************************************)
KeptForGood == [](~LoopFree)

ReasoningConcludes ==
  \A r \in Requests :
    [](phase[r] \in {"reasoning", "generating"}
         => <>(phase[r] \notin {"reasoning", "generating"} \/ KeptForGood))

(***************************************************************************)
(* A call of /approve that passed its 404 check returns, also when it lost *)
(* the race, unless the loop is kept for good.                             *)
(***************************************************************************)
ApproverAnswered ==
  \A o \in Approvers : [](Reading(o) => <>(~Reading(o) \/ KeptForGood))
-----------------------------------------------------------------------------
(***************************************************************************)
(* The service implements the approval gate: seen from outside, every      *)
(* request is decided once, and a human's approval runs only what was      *)
(* parked.                                                                 *)
(***************************************************************************)
Gate == INSTANCE ApprovalGate WITH
          waiting  <- {r \in Requests : phase[r] = "queued"},
          byPolicy <- {r \in Requests : run[r].by = "policy"},
          byHuman  <- {r \in Requests : run[r].by = "human"},
          closed   <- {r \in Requests : phase[r] \in Ended /\ run[r].by = "nobody"}

\* Refinement: the steps of /respond, /approve and a restart are steps of the gate.
ImplementsGate == Gate!Spec
=============================================================================
