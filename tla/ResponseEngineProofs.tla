------------------------ MODULE ResponseEngineProofs ------------------------
(***************************************************************************)
(* Proofs about ResponseEngine, for every set of requests, alerts,         *)
(* approvers and sources: type correctness, the inductive invariant and    *)
(* the properties it carries, finality of outcomes, and the refinement of  *)
(* ApprovalGate.                                                           *)
(***************************************************************************)
EXTENDS ResponseEngine, Executor, FiniteSetTheorems, TLAPS

(***************************************************************************)
(* What the DQN's ranking yields is a set of registered actions.           *)
(***************************************************************************)
LEMMA ChosenType ==
  ASSUME NEW top \in Rankings
  PROVE  top[1] \in Registry /\ Chosen(top) \in SUBSET Registry
<1>1. 1 \in DOMAIN top /\ \A i \in DOMAIN top : top[i] \in Registry
  BY RankingAssumption
<1>2. 0 \in Registry
  BY DEF Registry
<1> QED
  BY <1>1, <1>2 DEF Chosen

(***************************************************************************)
(* A decision of the pipeline is a Decision, and an allowed one satisfies  *)
(* the constraints on its primary action.                                  *)
(***************************************************************************)
LEMMA DecideProperties ==
  ASSUME NEW top \in Rankings, NEW s \in Situations, NEW answer \in SolverAnswers(top[1], s)
  PROVE  LET d == Decide(top, s, answer) IN
         /\ d \in Decisions
         /\ d.approved => /\ SeverityFloor(d.primary, s.severity)
                          /\ SelfIp(d.primary, s.mgmt)
                          /\ d.primary \in RestoreActions => d.backup
<1> DEFINE d == Decide(top, s, answer)
<1>1. top[1] \in Registry /\ Chosen(top) \in SUBSET Registry /\ 47 \in Registry
  BY ChosenType DEF Registry
<1>2. s.backup \in BOOLEAN /\ s.trading \in BOOLEAN
  BY DEF Situations
<1>3. d \in Decisions
  BY <1>1, <1>2 DEF Decide, Decisions, BackupCriticalData
<1>4. ASSUME d.approved
      PROVE  /\ SeverityFloor(d.primary, s.severity)
             /\ SelfIp(d.primary, s.mgmt)
             /\ d.primary \in RestoreActions => d.backup
  <2>1. answer = "sat"
    BY <1>4 DEF Decide
  <2>2. Satisfied(top[1], s)
    BY <2>1 DEF SolverAnswers
  <2>3. d.primary = top[1] /\ d.backup = s.backup
    BY <2>1 DEF Decide, Substitutes
  <2> QED
    BY <2>2, <2>3 DEF Satisfied, BackupExists
<1> QED
  BY <1>3, <1>4

(***************************************************************************)
(* execute() counts one more run by who, of at most the given actions.     *)
(***************************************************************************)
LEMMA ExecuteProperties ==
  ASSUME TypeOK, NEW r \in Requests, NEW who \in {"policy", "human"},
         NEW actions \in SUBSET Registry
  PROVE  /\ Execute(r, who, actions) \in Runs
         /\ Execute(r, who, actions).times = run[r].times + 1
         /\ Execute(r, who, actions).by = who
<1>1. run[r].times \in Nat
  BY DEF TypeOK, Runs
<1> QED
  BY <1>1 DEF Execute, Runs

LEMMA LoggedProperties ==
  ASSUME NEW records \in SUBSET Records, audit \subseteq Records, NEW log \in Logged(records)
  PROVE  /\ log \subseteq Records
         /\ audit \subseteq log
         /\ ~AuditFails => records \subseteq log
BY DEF Logged

LEMMA RecordType ==
  ASSUME NEW r \in Requests
  PROVE  /\ Record("approval_request", r) \in Records
         /\ Record("approval_decision", r) \in Records
         /\ Record("incident_decision", r) \in Records
BY DEF Record, Records

LEMMA AlertType ==
  ASSUME TypeOK, NEW r \in Requests
  PROVE  AlertFor(r) \in Alerts
BY AlertAssumption DEF TypeOK, AlertFor

(***************************************************************************)
(* What an approval executes is a run by a human, whatever was ordered and *)
(* whatever the playbook names.                                            *)
(***************************************************************************)
LEMMA HumanRunProperties ==
  ASSUME TypeOK, NEW o \in Approvers, Popped(o) \in Requests,
         NEW ordered \in OrderedActions(o), NEW playbook \in PlaybookActions(Popped(o))
  PROVE  LET x == RunOf(Popped(o), ordered, playbook) IN
         /\ x \in Runs
         /\ x.times = run[Popped(o)].times + 1
         /\ x.by = "human"
<1> DEFINE r == Popped(o)
<1>1. decision[r].actions \in SUBSET Registry
  BY DEF TypeOK, Decisions
<1>2. ordered \in SUBSET Registry
  BY <1>1 DEF OrderedActions, Ordered
<1>3. Overridden(ordered, playbook) \in SUBSET Registry
  BY <1>2 DEF Overridden
<1>4. Execute(r, "human", Overridden(ordered, playbook)) \in Runs
  BY <1>3, ExecuteProperties
<1>5. /\ Execute(r, "human", Overridden(ordered, playbook)).times = run[r].times + 1
      /\ Execute(r, "human", Overridden(ordered, playbook)).by = "human"
  BY <1>3, ExecuteProperties
<1> QED
  BY <1>2, <1>4, <1>5 DEF RunOf, Runs

(***************************************************************************)
(* What a handler of /approve pops, when it pops anything, is a request.   *)
(***************************************************************************)
LEMMA PoppedType ==
  ASSUME TypeOK, NEW o \in Approvers, Reading(o), Popped(o) # NoRequest
  PROVE  call[o].alert \in AlertIds /\ Popped(o) \in Requests
<1>1. call[o] \in [alert : AlertIds, reject : BOOLEAN, mods : SUBSET Int]
  BY DEF TypeOK, Calls, Reading
<1> QED
  BY <1>1 DEF TypeOK, Popped
-----------------------------------------------------------------------------
(***************************************************************************)
(* Type correctness, one lemma for the steps of each kind of handler.      *)
(***************************************************************************)
LEMMA TypeInit == Init => TypeOK
<1> SUFFICES ASSUME Init PROVE TypeOK
  OBVIOUS
<1>1. 0 \in Registry /\ 0 \in 0..RateMax
  BY RateAssumption DEF Registry
<1>2. Undecided \in Decisions /\ NotRun \in Runs /\ NoCall \in Calls
  BY <1>1 DEF Undecided, Decisions, NotRun, Runs, Calls
<1> QED
  BY <1>1, <1>2 DEF Init, TypeOK, Live, Open

\* What verify() looks at is a Situation that agrees with the alert and the rate window.
LEMMA RespondSituation ==
  ASSUME TypeOK, NEW r \in Requests, Respond(r)
  PROVE  \E top \in Rankings, s \in Situations :
           /\ s.severity = AlertFor(r).severity
           /\ s.mgmt = AlertFor(r).mgmt
           /\ s.rateOk <=> rateHits[AlertFor(r).source] < RateMax
           /\ \E answer \in SolverAnswers(top[1], s) :
                /\ decision' = [decision EXCEPT ![r] = Decide(top, s, answer)]
                /\ rateHits' = IF answer = "sat" /\ top[1] \in NetworkBlockActions
                               THEN [rateHits EXCEPT ![AlertFor(r).source] = @ + 1] ELSE rateHits
<1> DEFINE S(top, trading, snapshot) ==
             [severity |-> AlertFor(r).severity, mgmt |-> AlertFor(r).mgmt,
              trading |-> trading, rateOk |-> rateHits[AlertFor(r).source] < RateMax,
              backup |-> top[1] \in RestoreActions => snapshot,
              requiresApproval |-> TRUE]
<1>1. PICK top \in Rankings, trading \in BOOLEAN, snapshot \in BOOLEAN :
        \E answer \in SolverAnswers(top[1], S(top, trading, snapshot)) :
          /\ decision' = [decision EXCEPT ![r] = Decide(top, S(top, trading, snapshot), answer)]
          /\ rateHits' = IF answer = "sat" /\ top[1] \in NetworkBlockActions
                         THEN [rateHits EXCEPT ![AlertFor(r).source] = @ + 1] ELSE rateHits
  BY DEF Respond
<1> DEFINE s == S(top, trading, snapshot)
<1>2. s \in Situations
  BY AlertType DEF Alerts, Situations, Severities
<1>3. /\ s.severity = AlertFor(r).severity
      /\ s.mgmt = AlertFor(r).mgmt
      /\ s.rateOk <=> rateHits[AlertFor(r).source] < RateMax
  OBVIOUS
<1> HIDE DEF s
<1> QED
  BY <1>1, <1>2, <1>3 DEF s

LEMMA TypeRespond ==
  ASSUME TypeOK, NEW r \in Requests, Respond(r)
  PROVE  TypeOK'
<1> DEFINE src == AlertFor(r).source
<1>1. PICK top \in Rankings, s \in Situations :
        /\ s.rateOk <=> rateHits[src] < RateMax
        /\ \E answer \in SolverAnswers(top[1], s) :
             /\ decision' = [decision EXCEPT ![r] = Decide(top, s, answer)]
             /\ rateHits' = IF answer = "sat" /\ top[1] \in NetworkBlockActions
                            THEN [rateHits EXCEPT ![src] = @ + 1] ELSE rateHits
  BY RespondSituation
<1>2. PICK answer \in SolverAnswers(top[1], s) :
        /\ decision' = [decision EXCEPT ![r] = Decide(top, s, answer)]
        /\ rateHits' = IF answer = "sat" /\ top[1] \in NetworkBlockActions
                       THEN [rateHits EXCEPT ![src] = @ + 1] ELSE rateHits
  BY <1>1
<1>3. src \in Sources
  BY AlertType DEF Alerts
<1>4. Decide(top, s, answer) \in Decisions
  BY DecideProperties
<1>5. decision' \in [Requests -> Decisions]
  BY <1>2, <1>4 DEF TypeOK
<1>6. rateHits' \in [Sources -> 0..RateMax]
  <2>1. CASE answer = "sat" /\ top[1] \in NetworkBlockActions
    <3>1. rateHits[src] < RateMax
      BY <1>1, <2>1 DEF SolverAnswers, Satisfied, RateLimit
    <3>2. rateHits[src] + 1 \in 0..RateMax
      BY <1>3, <3>1, RateAssumption DEF TypeOK
    <3> HIDE DEF src
    <3> QED
      BY <1>2, <1>3, <2>1, <3>2 DEF TypeOK
  <2>2. CASE ~(answer = "sat" /\ top[1] \in NetworkBlockActions)
    BY <1>2, <2>2 DEF TypeOK
  <2> QED
    BY <2>1, <2>2
<1>7. phase' \in [Requests -> Live \cup Ended]
  BY DEF Respond, TypeOK, Live, Open
<1> QED
  BY <1>5, <1>6, <1>7 DEF TypeOK, Respond

LEMMA TypeConclude ==
  ASSUME TypeOK, NEW r \in Requests, Conclude(r)
  PROVE  TypeOK'
<1>1. CASE LlmTimeout(r)
  BY <1>1 DEF LlmTimeout, TypeOK
<1>2. CASE AutoExecute(r)
  <2>1. run' \in [Requests -> Runs]
    <3>1. decision[r].actions \in SUBSET Registry
      BY DEF TypeOK, Decisions
    <3>2. Execute(r, "policy", decision[r].actions) \in Runs
      BY <3>1, ExecuteProperties
    <3> QED
      BY <1>2, <3>2 DEF AutoExecute, TypeOK
  <2>2. phase' \in [Requests -> Live \cup Ended]
    BY <1>2 DEF AutoExecute, TypeOK, Live
  <2> QED
    BY <1>2, <2>1, <2>2 DEF AutoExecute, TypeOK
<1>3. CASE Generated(r)
  <2>1. phase' \in [Requests -> Live \cup Ended]
    BY <1>3 DEF Generated, TypeOK, Ended
  <2>2. audit' \subseteq Records
    BY <1>3, RecordType, LoggedProperties DEF Generated, TypeOK
  <2>3. retrain' \in [Requests -> {"none", "scheduled", "posted", "lost"}]
    BY <1>3 DEF Generated, ScheduleRetrain, TypeOK
  <2> QED
    BY <1>3, <2>1, <2>2, <2>3 DEF Generated, TypeOK
<1>4. CASE Enqueue(r)
  <2>1. phase' \in [Requests -> Live \cup Ended]
    BY <1>4 DEF Enqueue, TypeOK, Live, Open, Ended
  <2>2. audit' \subseteq Records
    BY <1>4, RecordType, LoggedProperties DEF Enqueue, TypeOK
  <2> QED
    BY <1>4, <2>1, <2>2 DEF Enqueue, TypeOK
<1> QED
  BY <1>1, <1>2, <1>3, <1>4 DEF Conclude

LEMMA TypeApproval ==
  ASSUME TypeOK, KeeperWaits, NEW o \in Approvers, CallApprove(o) \/ Finish(o)
  PROVE  TypeOK'
<1> USE DEF Ended
<1>1. CASE CallApprove(o)
  <2>1. call' \in [Approvers -> Calls]
    BY <1>1, ModsAssumption DEF CallApprove, TypeOK, Calls
  <2> QED
    BY <1>1, <2>1 DEF CallApprove, TypeOK
<1> DEFINE r == Popped(o)
<1>2. Return(o) \in [Approvers -> Calls]
  BY DEF Return, TypeOK, Calls
<1>3. CASE ApproveRaced(o)
  BY <1>2, <1>3 DEF ApproveRaced, TypeOK
<1>4. ASSUME r # NoRequest, Reading(o)
      PROVE  r \in Requests /\ Pop(o) \in [AlertIds -> Requests \cup {NoRequest}]
  BY <1>4, PoppedType DEF Pop, TypeOK
<1>5. CASE Reject(o)
  <2>1. audit' \subseteq Records
    BY <1>4, <1>5, RecordType, LoggedProperties DEF Reject, TypeOK
  <2> QED
    BY <1>2, <1>4, <1>5, <2>1 DEF Reject, TypeOK
<1>6. CASE Approve(o)
  <2> Reading(o) /\ r # NoRequest
    BY <1>6 DEF Approve, KeeperWaits
  <2>1. audit' \subseteq Records
    BY <1>4, <1>6, RecordType, LoggedProperties DEF Approve, TypeOK
  <2>2. run' \in [Requests -> Runs]
    <3>1. PICK ordered \in OrderedActions(o), playbook \in PlaybookActions(r) :
            run' = [run EXCEPT ![r] = RunOf(r, ordered, playbook)]
      BY <1>6 DEF Approve
    <3>2. RunOf(r, ordered, playbook) \in Runs
      BY <1>4, <1>6, HumanRunProperties DEF Approve
    <3> QED
      BY <3>1, <3>2 DEF TypeOK
  <2>3. retrain' \in [Requests -> {"none", "scheduled", "posted", "lost"}]
    BY <1>6 DEF Approve, ScheduleRetrain, TypeOK
  <2> QED
    BY <1>2, <1>4, <1>6, <2>1, <2>2, <2>3 DEF Approve, TypeOK
<1>7. CASE ApproveRaises(o)
  <2> Reading(o) /\ r # NoRequest
    BY <1>7 DEF ApproveRaises, KeeperWaits
  <2> QED
    BY <1>2, <1>4, <1>7 DEF ApproveRaises, TypeOK
<1>8. CASE Generate(o)
  BY <1>8 DEF Generate, TypeOK
<1> QED
  BY <1>1, <1>3, <1>5, <1>6, <1>7, <1>8 DEF Finish

LEMMA TypeRestart ==
  ASSUME TypeOK, Restart, UNCHANGED <<alertOf, decision, audit>>, run' \in [Requests -> Runs]
  PROVE  TypeOK'
<1>1. NoCall \in Calls /\ 0 \in 0..RateMax
  BY RateAssumption DEF Calls
<1>2. phase' \in [Requests -> Live \cup Ended]
  BY DEF Restart, TypeOK, Ended
<1>3. retrain' \in [Requests -> {"none", "scheduled", "posted", "lost"}]
  BY DEF Restart, TypeOK
<1> QED
  BY <1>1, <1>2, <1>3 DEF Restart, TypeOK

LEMMA TypeCrashes ==
  ASSUME TypeOK, KeeperWaits, Crash \/ \E o \in Approvers : CrashAfterApprove(o)
  PROVE  TypeOK'
<1>1. CASE Crash
  BY <1>1, TypeRestart DEF Crash, TypeOK
<1>2. ASSUME NEW o \in Approvers, CrashAfterApprove(o) PROVE TypeOK'
  <2>1. PICK ordered \in OrderedActions(o), playbook \in PlaybookActions(Popped(o)) :
          run' = [run EXCEPT ![Popped(o)] = RunOf(Popped(o), ordered, playbook)]
    BY <1>2 DEF CrashAfterApprove
  <2>2. RunOf(Popped(o), ordered, playbook) \in Runs
    BY <1>2, PoppedType, HumanRunProperties DEF CrashAfterApprove, KeeperWaits
  <2>3. run' \in [Requests -> Runs]
    BY <2>1, <2>2 DEF TypeOK
  <2> QED
    BY <1>2, <2>3, TypeRestart DEF CrashAfterApprove
<1> QED
  BY <1>1, <1>2

LEMMA TypeEnvironment ==
  ASSUME TypeOK,
         \/ \E r \in Requests : RespondRaises(r) \/ RetrainTask(r)
         \/ \E s \in Sources : RateExpires(s)
         \/ GetPending
         \/ UNCHANGED vars
  PROVE  TypeOK'
<1>1. ASSUME NEW r \in Requests, RespondRaises(r) PROVE TypeOK'
  BY <1>1 DEF RespondRaises, TypeOK, Ended
<1>2. ASSUME NEW r \in Requests, RetrainTask(r) PROVE TypeOK'
  BY <1>2 DEF RetrainTask, TypeOK
<1>3. ASSUME NEW s \in Sources, RateExpires(s) PROVE TypeOK'
  <2>1. rateHits[s] - 1 \in 0..RateMax
    BY <1>3, RateAssumption DEF RateExpires, TypeOK
  <2> QED
    BY <1>3, <2>1 DEF RateExpires, TypeOK
<1>4. CASE GetPending
  BY <1>4 DEF GetPending, TypeOK
<1>5. CASE UNCHANGED vars
  BY <1>5 DEF vars, TypeOK
<1> QED
  BY <1>1, <1>2, <1>3, <1>4, <1>5

LEMMA TypeNext == TypeOK /\ KeeperWaits /\ [Next]_vars => TypeOK'
BY TypeRespond, TypeConclude, TypeApproval, TypeCrashes, TypeEnvironment DEF Next
-----------------------------------------------------------------------------
(***************************************************************************)
(* Who keeps the loop.  While nobody does, no request is between execute() *)
(* and its playbook.                                                       *)
(***************************************************************************)
LEMMA FreeLoop ==
  ASSUME KeeperWaits, LoopFree, NEW q \in Requests
  PROVE  phase[q] # "generating"
BY RequestAssumption DEF KeeperWaits, LoopFree

LEMMA KeeperReleased ==
  ASSUME keeper' = NoRequest, \A q \in Requests : phase'[q] # "generating"
  PROVE  KeeperWaits'
BY RequestAssumption DEF KeeperWaits

LEMMA KeeperNext == TypeOK /\ KeeperWaits /\ [Next]_vars => KeeperWaits'
<1> SUFFICES ASSUME TypeOK, KeeperWaits, [Next]_vars PROVE KeeperWaits'
  OBVIOUS
<1>1. ASSUME NEW r \in Requests, Respond(r) \/ RespondRaises(r) \/ RetrainTask(r)
      PROVE  KeeperWaits'
  <2>1. LoopFree /\ keeper' = NoRequest
    BY <1>1 DEF Respond, RespondRaises, RetrainTask, LoopFree
  <2>2. \A q \in Requests : phase'[q] # "generating"
    BY <1>1, <2>1, FreeLoop DEF Respond, RespondRaises, RetrainTask, TypeOK
  <2> QED
    BY <2>1, <2>2, KeeperReleased
<1>2. ASSUME NEW r \in Requests, LlmTimeout(r) PROVE KeeperWaits'
  BY <1>2, FreeLoop, HandlerAssumption DEF LlmTimeout, KeeperWaits
<1>3. ASSUME NEW r \in Requests, AutoExecute(r) PROVE KeeperWaits'
  <2>1. phase'[r] = "generating" /\ keeper' = r
        /\ \A q \in Requests : q # r => phase'[q] # "generating"
    BY <1>3, FreeLoop DEF AutoExecute, TypeOK
  <2> QED
    BY <2>1, HandlerAssumption DEF KeeperWaits
<1>4. ASSUME NEW r \in Requests, Generated(r) PROVE KeeperWaits'
  <2>1. keeper' = NoRequest /\ \A q \in Requests : phase'[q] # "generating"
    BY <1>4 DEF Generated, TypeOK, KeeperWaits
  <2> QED
    BY <2>1, KeeperReleased
<1>5. ASSUME NEW r \in Requests, Enqueue(r) PROVE KeeperWaits'
  <2>1. \A q \in Requests : phase[q] # "generating"
    BY <1>5, FreeLoop DEF Enqueue, KeeperWaits
  <2>2. keeper' = NoRequest /\ \A q \in Requests : phase'[q] # "generating"
    BY <1>5, <2>1 DEF Enqueue
  <2> QED
    BY <2>2, KeeperReleased
<1>6. ASSUME NEW o \in Approvers, CallApprove(o) \/ ApproveRaced(o) PROVE KeeperWaits'
  <2>1. LoopFree /\ keeper' = NoRequest /\ phase' = phase
    BY <1>6 DEF CallApprove, ApproveRaced, LoopFree
  <2> QED
    BY <2>1, FreeLoop, KeeperReleased
<1>7. ASSUME NEW o \in Approvers, Generate(o) PROVE KeeperWaits'
  <2>1. /\ keeper' = o /\ UNCHANGED <<phase, pending, call>>
        /\ Reading(o) /\ Popped(o) # NoRequest
        /\ \A q \in Requests : phase[q] # "generating"
    BY <1>7, FreeLoop DEF Generate
  <2> QED
    BY <2>1, HandlerAssumption DEF KeeperWaits, Reading, Popped
<1>8. ASSUME NEW o \in Approvers, Reject(o) \/ Approve(o) \/ ApproveRaises(o)
      PROVE  KeeperWaits'
  <2>1. keeper' = NoRequest
    BY <1>8 DEF Reject, Approve, ApproveRaises, LoopFree
  <2>2. \A q \in Requests : phase[q] # "generating"
    BY <1>8, FreeLoop, HandlerAssumption DEF Reject, Approve, ApproveRaises, KeeperWaits
  <2>3. \E e \in Ended \ {"superseded"} : phase' = [phase EXCEPT ![Popped(o)] = e]
    BY <1>8 DEF Reject, Approve, ApproveRaises, Ended
  <2>4. \A q \in Requests : phase'[q] # "generating"
    BY <2>2, <2>3 DEF TypeOK, Ended
  <2> QED
    BY <2>1, <2>4, KeeperReleased
<1>9. ASSUME Restart PROVE KeeperWaits'
  <2>1. keeper' = NoRequest /\ \A q \in Requests : phase'[q] # "generating"
    BY <1>9 DEF Restart, Live
  <2> QED
    BY <2>1, KeeperReleased
<1>10. CASE GetPending \/ UNCHANGED vars \/ \E s \in Sources : RateExpires(s)
  BY <1>10 DEF GetPending, RateExpires, vars, KeeperWaits, Reading, Popped
<1> QED
  BY <1>1, <1>2, <1>3, <1>4, <1>5, <1>6, <1>7, <1>8, <1>9, <1>10
  DEF Next, Conclude, Finish, Crash, CrashAfterApprove
-----------------------------------------------------------------------------
(***************************************************************************)
(* The inductive invariant.                                                *)
(***************************************************************************)
LEMMA IInvInit == Init => IInv
<1> SUFFICES ASSUME Init PROVE IInv
  OBVIOUS
<1>1. TypeOK
  BY TypeInit
<1>2. ParkedExactlyOnce
  BY RequestAssumption DEF Init, ParkedExactlyOnce
<1>3. RunAtMostOnce /\ RunRecords
  BY DEF Init, RunAtMostOnce, RunRecords, NotRun
<1>4. ApprovedVerdicts
  BY DEF Init, ApprovedVerdicts, NotRun, Undecided
<1> QED
  BY <1>1, <1>2, <1>3, <1>4, RequestAssumption
  DEF IInv, Init, ParkedIsListed, QueuedIsLogged, TrailIsComplete, RetrainsFromAnswered, Answered,
      KeeperWaits

(***************************************************************************)
(* A request that has not been executed, nor lost in a restart, has no run.*)
(***************************************************************************)
LEMMA NotRunYet ==
  ASSUME IInv, NEW r \in Requests, 
         phase[r] \notin {"generating", "auto", "autofailed", "approved", "gone"}
  PROVE  run[r].times = 0 /\ run[r].by = "nobody"
<1>1. run[r].times \in Nat
  BY DEF IInv, TypeOK, Runs
<1>2. run[r].times = 0
  BY <1>1 DEF IInv, RunAtMostOnce
<1> QED
  BY <1>2 DEF IInv, RunRecords

\* The verdict that Respond records satisfies ApprovedVerdicts.
LEMMA RespondVerdict ==
  ASSUME TypeOK, NEW r \in Requests, Respond(r)
  PROVE  /\ \A q \in Requests : q # r => decision'[q] = decision[q]
         /\ LET d == decision'[r] IN
            d.approved => /\ SeverityFloor(d.primary, AlertFor(r).severity)
                          /\ SelfIp(d.primary, AlertFor(r).mgmt)
                          /\ d.primary \in RestoreActions => d.backup
<1>1. PICK top \in Rankings, s \in Situations :
        /\ s.severity = AlertFor(r).severity
        /\ s.mgmt = AlertFor(r).mgmt
        /\ \E answer \in SolverAnswers(top[1], s) :
             decision' = [decision EXCEPT ![r] = Decide(top, s, answer)]
  BY RespondSituation
<1>2. PICK answer \in SolverAnswers(top[1], s) :
        decision' = [decision EXCEPT ![r] = Decide(top, s, answer)]
  BY <1>1
<1>3. decision'[r] = Decide(top, s, answer) /\ \A q \in Requests : q # r => decision'[q] = decision[q]
  BY <1>2 DEF TypeOK
<1> QED
  BY <1>1, <1>3, DecideProperties

LEMMA IInvRespond ==
  ASSUME IInv, KeeperWaits', NEW r \in Requests, Respond(r)
  PROVE  IInv'
<1>0. TypeOK /\ TypeOK'
  BY TypeRespond DEF IInv
<1>1. /\ phase[r] = "new" /\ phase'[r] = "reasoning"
      /\ \A q \in Requests : q # r => phase'[q] = phase[q]
      /\ UNCHANGED <<alertOf, run, pending, heap, call, audit, retrain>>
  BY <1>0 DEF Respond, TypeOK
<1>2. run[r].times = 0 /\ run[r].by = "nobody"
  BY <1>1, NotRunYet
<1>3. ParkedExactlyOnce'
  BY <1>1 DEF IInv, ParkedExactlyOnce
<1>4. RunAtMostOnce' /\ RunRecords'
  BY <1>1, <1>2 DEF IInv, RunAtMostOnce, RunRecords
<1>5. ParkedIsListed'
  BY <1>1 DEF IInv, ParkedIsListed
<1>6. ApprovedVerdicts'
  BY <1>0, <1>1, <1>2, RespondVerdict DEF IInv, ApprovedVerdicts, AlertFor
<1>7. QueuedIsLogged' /\ TrailIsComplete' /\ RetrainsFromAnswered'
  BY <1>1 DEF IInv, QueuedIsLogged, TrailIsComplete, RetrainsFromAnswered, Answered
<1> QED
  BY <1>0, <1>3, <1>4, <1>5, <1>6, <1>7 DEF IInv

LEMMA IInvAutoExecute ==
  ASSUME IInv, KeeperWaits', NEW r \in Requests, AutoExecute(r)
  PROVE  IInv'
<1>0. TypeOK /\ TypeOK'
  BY TypeConclude DEF IInv, Conclude
<1>1. /\ phase[r] = "reasoning" /\ phase'[r] = "generating"
      /\ \A q \in Requests : q # r => phase'[q] = phase[q] /\ run'[q] = run[q]
      /\ UNCHANGED <<alertOf, decision, pending, heap, rateHits, call, audit, retrain>>
  BY <1>0 DEF AutoExecute, TypeOK
<1>2. run[r].times = 0 /\ run'[r].times = 1 /\ run'[r].by = "policy"
  <2>1. run[r].times = 0
    BY <1>1, NotRunYet
  <2>2. decision[r].actions \in SUBSET Registry
    BY <1>0 DEF TypeOK, Decisions
  <2>3. run'[r] = Execute(r, "policy", decision[r].actions)
    BY <1>0 DEF AutoExecute, TypeOK
  <2> QED
    BY <1>0, <2>1, <2>2, <2>3, ExecuteProperties
<1>3. ParkedExactlyOnce' /\ ParkedIsListed'
  BY <1>1 DEF IInv, ParkedExactlyOnce, ParkedIsListed
<1>4. RunAtMostOnce' /\ RunRecords'
  BY <1>1, <1>2 DEF IInv, RunAtMostOnce, RunRecords
<1>5. ApprovedVerdicts'
  BY <1>1 DEF IInv, ApprovedVerdicts, AlertFor, AutoExecute, MayAutoExecute
<1>6. QueuedIsLogged' /\ TrailIsComplete'
  BY <1>1 DEF IInv, QueuedIsLogged, TrailIsComplete, Answered
<1>7. RetrainsFromAnswered'
  BY <1>1 DEF IInv, RetrainsFromAnswered, Answered
<1> QED
  BY <1>0, <1>3, <1>4, <1>5, <1>6, <1>7 DEF IInv

LEMMA IInvGenerated ==
  ASSUME IInv, KeeperWaits', NEW r \in Requests, Generated(r)
  PROVE  IInv'
<1>0. TypeOK /\ TypeOK'
  BY TypeConclude DEF IInv, Conclude
<1>1. /\ phase[r] = "generating" /\ phase'[r] \in {"auto", "autofailed"}
      /\ \A q \in Requests : q # r => phase'[q] = phase[q] /\ retrain'[q] = retrain[q]
      /\ phase'[r] = "autofailed" => retrain'[r] = retrain[r]
      /\ UNCHANGED <<alertOf, decision, run, pending, heap, rateHits, call>>
  BY <1>0 DEF Generated, TypeOK, ScheduleRetrain
<1>2. /\ audit \subseteq audit'
      /\ ~AuditFails /\ phase'[r] = "auto" => Record("incident_decision", r) \in audit'
  BY <1>0, <1>1, RecordType, LoggedProperties DEF Generated, TypeOK
<1>3. ParkedExactlyOnce' /\ ParkedIsListed'
  BY <1>1 DEF IInv, ParkedExactlyOnce, ParkedIsListed
<1>4. RunAtMostOnce' /\ RunRecords'
  BY <1>1 DEF IInv, RunAtMostOnce, RunRecords
<1>5. ApprovedVerdicts'
  BY <1>1 DEF IInv, ApprovedVerdicts, AlertFor
<1>6. QueuedIsLogged' /\ TrailIsComplete'
  BY <1>1, <1>2 DEF IInv, QueuedIsLogged, TrailIsComplete, Answered
<1>7. RetrainsFromAnswered'
  BY <1>1 DEF IInv, RetrainsFromAnswered, Answered
<1> QED
  BY <1>0, <1>3, <1>4, <1>5, <1>6, <1>7 DEF IInv

LEMMA IInvEnqueue ==
  ASSUME IInv, KeeperWaits', NEW r \in Requests, Enqueue(r)
  PROVE  IInv'
<1> DEFINE a == alertOf[r]
<1>0. TypeOK /\ TypeOK'
  BY TypeConclude DEF IInv, Conclude
<1>1. /\ phase[r] = "reasoning" /\ phase'[r] = "queued"
      /\ \A q \in Requests : q # r => phase'[q] = IF q = pending[a] THEN "superseded" ELSE phase[q]
      /\ pending' = [pending EXCEPT ![a] = r]
      /\ heap' = heap \cup {r}
      /\ UNCHANGED <<alertOf, decision, run, rateHits, call, retrain>>
  BY <1>0 DEF Enqueue, TypeOK
<1>2. /\ audit \subseteq audit'
      /\ ~AuditFails => Record("approval_request", r) \in audit'
  BY <1>0, RecordType, LoggedProperties DEF Enqueue, TypeOK
<1>3. a \in AlertIds /\ pending'[a] = r /\ \A b \in AlertIds \ {a} : pending'[b] = pending[b]
  BY <1>0, <1>1 DEF TypeOK
<1>4. \A q \in Requests : q # r /\ q = pending[a] => phase[q] = "queued" /\ alertOf[q] = a
  BY <1>0, <1>3, RequestAssumption DEF IInv, ParkedExactlyOnce, TypeOK
<1>5. ParkedExactlyOnce'
  <2>1. ASSUME NEW q \in Requests PROVE (phase[q] = "queued" <=> pending[alertOf[q]] = q)'
    <3>1. CASE q = r
      BY <1>1, <1>3, <3>1
    <3>2. CASE q # r /\ alertOf[q] = a
      BY <1>1, <1>3, <3>2 DEF IInv, ParkedExactlyOnce
    <3>3. CASE q # r /\ alertOf[q] # a
      <4>1. alertOf[q] \in AlertIds \ {a}
        BY <1>0, <3>3 DEF TypeOK
      <4> QED
        BY <1>1, <1>3, <1>4, <3>3, <4>1 DEF IInv, ParkedExactlyOnce
    <3> QED
      BY <3>1, <3>2, <3>3
  <2>2. ASSUME NEW b \in AlertIds PROVE (pending[b] # NoRequest => alertOf[pending[b]] = b)'
    BY <1>1, <1>3 DEF IInv, ParkedExactlyOnce
  <2> QED
    BY <2>1, <2>2 DEF ParkedExactlyOnce
<1>6. RunAtMostOnce' /\ RunRecords'
  <2>1. run[r].times = 0 /\ run[r].by = "nobody"
    BY <1>1, NotRunYet
  <2>2. ASSUME NEW q \in Requests, q # r, q = pending[a]
        PROVE  run[q].times = 0 /\ run[q].by = "nobody"
    BY <1>4, <2>2, NotRunYet
  <2>3. ASSUME NEW q \in Requests
        PROVE  \/ phase'[q] \in {"queued", "superseded"} /\ run[q].times = 0 /\ run[q].by = "nobody"
               \/ phase'[q] = phase[q]
    BY <1>1, <2>1, <2>2
  <2> QED
    BY <1>1, <2>3 DEF IInv, RunAtMostOnce, RunRecords
<1>7. ParkedIsListed'
  BY <1>1, <1>3 DEF IInv, ParkedIsListed
<1>8. ApprovedVerdicts'
  BY <1>1 DEF IInv, ApprovedVerdicts, AlertFor
<1>9. QueuedIsLogged' /\ TrailIsComplete'
  BY <1>1, <1>2 DEF IInv, QueuedIsLogged, TrailIsComplete, Answered
<1>10. RetrainsFromAnswered'
  BY <1>1, <1>4 DEF IInv, RetrainsFromAnswered, Answered
<1> QED
  BY <1>0, <1>5, <1>6, <1>7, <1>8, <1>9, <1>10 DEF IInv

(***************************************************************************)
(* The decision a handler pops is the parked one of its alert.             *)
(***************************************************************************)
LEMMA PoppedIsQueued ==
  ASSUME IInv, NEW o \in Approvers, Reading(o), Popped(o) # NoRequest
  PROVE  /\ call[o].alert \in AlertIds
         /\ Popped(o) \in Requests
         /\ alertOf[Popped(o)] = call[o].alert
         /\ phase[Popped(o)] = "queued"
<1>1. call[o].alert \in AlertIds /\ Popped(o) \in Requests
  BY PoppedType DEF IInv
<1>2. alertOf[Popped(o)] = call[o].alert
  BY <1>1 DEF IInv, ParkedExactlyOnce, Popped
<1> QED
  BY <1>1, <1>2 DEF IInv, ParkedExactlyOnce, Popped

(***************************************************************************)
(* Popping the entry and ending its request as e keeps the parked          *)
(* decisions and the requests in step.                                     *)
(***************************************************************************)
LEMMA PopPreserves ==
  ASSUME IInv, NEW o \in Approvers, Reading(o), Popped(o) # NoRequest,
         NEW e \in Ended, phase' = [phase EXCEPT ![Popped(o)] = e],
         pending' = Pop(o), UNCHANGED <<alertOf, heap>>
  PROVE  ParkedExactlyOnce' /\ ParkedIsListed'
<1> DEFINE r == Popped(o)
           a == call[o].alert
<1>1. a \in AlertIds /\ r \in Requests /\ alertOf[r] = a /\ pending[a] = r
  BY PoppedIsQueued DEF Popped
<1>2. /\ pending'[a] = NoRequest
      /\ \A b \in AlertIds \ {a} : pending'[b] = pending[b]
  BY <1>1 DEF IInv, TypeOK, Pop
<1>3. /\ phase'[r] # "queued"
      /\ \A q \in Requests \ {r} : phase'[q] = phase[q]
  BY <1>1 DEF IInv, TypeOK, Ended
<1>4. ASSUME NEW q \in Requests PROVE (phase[q] = "queued" <=> pending[alertOf[q]] = q)'
  <2>1. CASE q = r
    BY <1>1, <1>2, <1>3, <2>1, RequestAssumption
  <2>2. CASE q # r /\ alertOf[q] = a
    <3>1. phase[q] # "queued"
      BY <1>1, <2>2 DEF IInv, ParkedExactlyOnce
    <3> QED
      BY <1>2, <1>3, <2>2, <3>1, RequestAssumption
  <2>3. CASE q # r /\ alertOf[q] # a
    <3>1. alertOf[q] \in AlertIds \ {a}
      BY <2>3 DEF IInv, TypeOK
    <3> QED
      BY <1>2, <1>3, <2>3, <3>1 DEF IInv, ParkedExactlyOnce
  <2> QED
    BY <2>1, <2>2, <2>3
<1>5. ASSUME NEW b \in AlertIds
      PROVE  /\ (pending[b] # NoRequest => alertOf[pending[b]] = b)'
             /\ (pending[b] # NoRequest => pending[b] \in heap)'
  BY <1>2 DEF IInv, ParkedExactlyOnce, ParkedIsListed
<1> QED
  BY <1>4, <1>5 DEF ParkedExactlyOnce, ParkedIsListed

LEMMA IInvApprove ==
  ASSUME IInv, KeeperWaits', NEW o \in Approvers, Approve(o)
  PROVE  IInv'
<1> DEFINE r == Popped(o)
<1>0. TypeOK /\ TypeOK'
  BY TypeApproval DEF IInv, Finish
<1>1. r \in Requests /\ phase[r] = "queued" /\ Reading(o) /\ r # NoRequest
  BY PoppedIsQueued DEF Approve, IInv, KeeperWaits
<1>2. /\ phase'[r] = "approved"
      /\ \A q \in Requests : q # r => phase'[q] = phase[q] /\ run'[q] = run[q] /\ retrain'[q] = retrain[q]
      /\ UNCHANGED <<alertOf, decision, heap, rateHits>>
  BY <1>0, <1>1 DEF Approve, TypeOK, ScheduleRetrain
<1>3. /\ audit \subseteq audit'
      /\ ~AuditFails => {Record("approval_decision", r), Record("incident_decision", r)} \subseteq audit'
  BY <1>0, <1>1, RecordType, LoggedProperties DEF Approve, TypeOK
<1>4. run'[r].times = 1 /\ run'[r].by = "human"
  <2>1. PICK ordered \in OrderedActions(o), playbook \in PlaybookActions(r) :
          run' = [run EXCEPT ![r] = RunOf(r, ordered, playbook)]
    BY DEF Approve
  <2>2. run'[r] = RunOf(r, ordered, playbook)
    BY <1>0, <1>1, <2>1 DEF TypeOK
  <2>3. run[r].times = 0
    BY <1>1, NotRunYet
  <2> QED
    BY <1>0, <1>1, <2>2, <2>3, HumanRunProperties
<1>5. ParkedExactlyOnce' /\ ParkedIsListed'
  BY <1>1, PopPreserves DEF Approve, Ended
<1>6. RunAtMostOnce' /\ RunRecords'
  BY <1>2, <1>4 DEF IInv, RunAtMostOnce, RunRecords
<1>7. ApprovedVerdicts'
  BY <1>2, <1>4 DEF IInv, ApprovedVerdicts, AlertFor
<1>8. QueuedIsLogged' /\ TrailIsComplete'
  BY <1>1, <1>2, <1>3 DEF IInv, QueuedIsLogged, TrailIsComplete, Answered
<1>9. RetrainsFromAnswered'
  BY <1>2 DEF IInv, RetrainsFromAnswered, Answered
<1> QED
  BY <1>0, <1>5, <1>6, <1>7, <1>8, <1>9 DEF IInv

LEMMA IInvDiscard ==
  ASSUME IInv, KeeperWaits', NEW o \in Approvers, Reject(o) \/ ApproveRaises(o)
  PROVE  IInv'
<1> DEFINE r == Popped(o)
<1>0. TypeOK /\ TypeOK'
  BY TypeApproval DEF IInv, Finish
<1>1. r \in Requests /\ phase[r] = "queued" /\ Reading(o) /\ r # NoRequest
  BY PoppedIsQueued DEF Reject, ApproveRaises, IInv, KeeperWaits
<1>2. /\ phase'[r] \in {"rejected", "aborted"}
      /\ \A q \in Requests : q # r => phase'[q] = phase[q]
      /\ UNCHANGED <<alertOf, decision, run, heap, rateHits, retrain>>
  BY <1>0, <1>1 DEF Reject, ApproveRaises, TypeOK
<1>3. /\ audit \subseteq audit'
      /\ ~AuditFails /\ phase'[r] = "rejected" =>
           {Record("approval_decision", r), Record("incident_decision", r)} \subseteq audit'
  <2>1. CASE Reject(o)
    BY <1>0, <1>1, <2>1, RecordType, LoggedProperties DEF Reject, TypeOK
  <2>2. CASE ApproveRaises(o)
    BY <1>0, <1>1, <2>2 DEF ApproveRaises, TypeOK
  <2> QED
    BY <2>1, <2>2
<1>4. ParkedExactlyOnce' /\ ParkedIsListed'
  <2>1. \E e \in Ended : phase' = [phase EXCEPT ![r] = e]
    BY DEF Reject, ApproveRaises, Ended
  <2> QED
    BY <1>1, <2>1, PopPreserves DEF Reject, ApproveRaises
<1>5. RunAtMostOnce' /\ RunRecords'
  BY <1>1, <1>2, NotRunYet DEF IInv, RunAtMostOnce, RunRecords
<1>6. ApprovedVerdicts'
  BY <1>2 DEF IInv, ApprovedVerdicts, AlertFor
<1>7. QueuedIsLogged' /\ TrailIsComplete'
  BY <1>1, <1>2, <1>3 DEF IInv, QueuedIsLogged, TrailIsComplete, Answered
<1>8. RetrainsFromAnswered'
  BY <1>1, <1>2 DEF IInv, RetrainsFromAnswered, Answered
<1> QED
  BY <1>0, <1>4, <1>5, <1>6, <1>7, <1>8 DEF IInv

(***************************************************************************)
(* A restart, which may hit a request right after its execution.           *)
(***************************************************************************)
LEMMA IInvRestart ==
  ASSUME IInv, TypeOK', KeeperWaits', Restart, UNCHANGED <<alertOf, decision, audit>>,
         \A q \in Requests :
            \/ run'[q] = run[q]
            \/ phase[q] = "queued" /\ run'[q].times = 1 /\ run'[q].by = "human"
  PROVE  IInv'
<1>1. /\ \A q \in Requests : phase'[q] = IF phase[q] \in Live \ {"new"} THEN "gone" ELSE phase[q]
      /\ \A a \in AlertIds : pending'[a] = NoRequest
      /\ \A q \in Requests : retrain'[q] = IF retrain[q] = "scheduled" THEN "lost" ELSE retrain[q]
  BY DEF Restart
<1>2. ParkedExactlyOnce' /\ ParkedIsListed'
  <2>1. \A q \in Requests : alertOf[q] \in AlertIds /\ phase'[q] # "queued"
    BY <1>1 DEF IInv, TypeOK, Live, Open
  <2> QED
    BY <1>1, <2>1, RequestAssumption DEF ParkedExactlyOnce, ParkedIsListed
<1>3. RunAtMostOnce' /\ RunRecords'
  <2>1. ASSUME NEW q \in Requests, run'[q] = run[q]
        PROVE  /\ run'[q].times <= 1
               /\ run'[q].times = 1 => phase'[q] \in {"generating", "auto", "autofailed", "approved", "gone"}
               /\ phase'[q] \in {"generating", "auto", "autofailed", "approved"} => run'[q].times = 1
               /\ run'[q].times = 0 <=> run'[q].by = "nobody"
               /\ phase'[q] \in {"generating", "auto", "autofailed"} => run'[q].by = "policy"
               /\ phase'[q] = "approved" => run'[q].by = "human"
    BY <1>1, <2>1 DEF IInv, RunAtMostOnce, RunRecords, Live, Open
  <2>2. ASSUME NEW q \in Requests, phase[q] = "queued",
               run'[q].times = 1, run'[q].by = "human"
        PROVE  /\ run'[q].times <= 1
               /\ run'[q].times = 1 => phase'[q] \in {"generating", "auto", "autofailed", "approved", "gone"}
               /\ phase'[q] \in {"generating", "auto", "autofailed", "approved"} => run'[q].times = 1
               /\ run'[q].times = 0 <=> run'[q].by = "nobody"
               /\ phase'[q] \in {"generating", "auto", "autofailed"} => run'[q].by = "policy"
               /\ phase'[q] = "approved" => run'[q].by = "human"
    BY <1>1, <2>2 DEF Live, Open
  <2> QED
    BY <2>1, <2>2 DEF RunAtMostOnce, RunRecords
<1>4. ApprovedVerdicts'
  BY DEF IInv, ApprovedVerdicts, AlertFor
<1>5. QueuedIsLogged' /\ TrailIsComplete'
  BY <1>1 DEF IInv, QueuedIsLogged, TrailIsComplete, Answered, Live, Open
<1>6. RetrainsFromAnswered'
  BY <1>1 DEF IInv, RetrainsFromAnswered, Answered, Live, Open
<1> QED
  BY <1>2, <1>3, <1>4, <1>5, <1>6 DEF IInv

\* What a crash in the middle of an approval leaves of the runs.
LEMMA CrashedApproval ==
  ASSUME IInv, NEW o \in Approvers, CrashAfterApprove(o)
  PROVE  /\ Popped(o) \in Requests /\ phase[Popped(o)] = "queued"
         /\ run'[Popped(o)].times = 1 /\ run'[Popped(o)].by = "human"
         /\ \A q \in Requests : q # Popped(o) => run'[q] = run[q]
<1> DEFINE r == Popped(o)
<1>1. r \in Requests /\ phase[r] = "queued"
  BY PoppedIsQueued DEF CrashAfterApprove, IInv, KeeperWaits
<1>2. PICK ordered \in OrderedActions(o), playbook \in PlaybookActions(r) :
        run' = [run EXCEPT ![r] = RunOf(r, ordered, playbook)]
  BY DEF CrashAfterApprove
<1>3. run'[r] = RunOf(r, ordered, playbook) /\ \A q \in Requests : q # r => run'[q] = run[q]
  BY <1>1, <1>2 DEF IInv, TypeOK
<1>4. run[r].times = 0
  BY <1>1, NotRunYet
<1> QED
  BY <1>1, <1>3, <1>4, HumanRunProperties DEF IInv

LEMMA IInvCrashes ==
  ASSUME IInv, KeeperWaits', Crash \/ \E o \in Approvers : CrashAfterApprove(o)
  PROVE  IInv'
<1>0. TypeOK'
  BY TypeCrashes DEF IInv
<1>1. CASE Crash
  BY <1>0, <1>1, IInvRestart DEF Crash
<1>2. ASSUME NEW o \in Approvers, CrashAfterApprove(o) PROVE IInv'
  <2>1. Restart /\ UNCHANGED <<alertOf, decision, audit>>
    BY <1>2 DEF CrashAfterApprove
  <2> QED
    BY <1>0, <1>2, <2>1, CrashedApproval, IInvRestart
<1> QED
  BY <1>1, <1>2

LEMMA IInvEnvironment ==
  ASSUME IInv, KeeperWaits',
         \/ \E r \in Requests : RespondRaises(r) \/ RetrainTask(r) \/ LlmTimeout(r)
         \/ \E o \in Approvers : CallApprove(o) \/ ApproveRaced(o) \/ Generate(o)
         \/ \E s \in Sources : RateExpires(s)
         \/ GetPending
         \/ UNCHANGED vars
  PROVE  IInv'
<1> USE DEF ParkedExactlyOnce, RunAtMostOnce, RunRecords, ParkedIsListed, ApprovedVerdicts,
            QueuedIsLogged, TrailIsComplete, RetrainsFromAnswered, Answered, AlertFor
<1>0. TypeOK /\ TypeOK'
  BY TypeEnvironment, TypeApproval, TypeConclude DEF IInv, Finish, Conclude
<1>1. ASSUME NEW r \in Requests, RespondRaises(r) PROVE IInv'
  <2>1. /\ phase[r] = "new" /\ phase'[r] = "failed"
        /\ \A q \in Requests : q # r => phase'[q] = phase[q]
        /\ UNCHANGED <<alertOf, decision, run, pending, heap, rateHits, call, audit, retrain>>
    BY <1>0, <1>1 DEF RespondRaises, TypeOK
  <2>2. run[r].times = 0 /\ run[r].by = "nobody"
    BY <2>1, NotRunYet
  <2>3. ParkedExactlyOnce' /\ ParkedIsListed'
    BY <2>1 DEF IInv
  <2>4. RunAtMostOnce' /\ RunRecords' /\ ApprovedVerdicts'
    BY <2>1, <2>2 DEF IInv
  <2>5. QueuedIsLogged' /\ TrailIsComplete' /\ RetrainsFromAnswered'
    BY <2>1 DEF IInv
  <2> QED
    BY <1>0, <2>3, <2>4, <2>5 DEF IInv
<1>2. ASSUME NEW r \in Requests, RetrainTask(r) PROVE IInv'
  <2>1. RetrainsFromAnswered'
    BY <1>0, <1>2 DEF RetrainTask, IInv, TypeOK
  <2> QED
    BY <1>0, <1>2, <2>1 DEF RetrainTask, IInv
<1>3. ASSUME NEW o \in Approvers, CallApprove(o) \/ ApproveRaced(o) \/ Generate(o) PROVE IInv'
  BY <1>0, <1>3 DEF CallApprove, ApproveRaced, Generate, IInv
<1>4. ASSUME NEW s \in Sources, RateExpires(s) PROVE IInv'
  BY <1>0, <1>4 DEF RateExpires, IInv
<1>5. CASE GetPending
  <2>1. ParkedIsListed'
    BY <1>0, <1>5 DEF GetPending, IInv, TypeOK
  <2> QED
    BY <1>0, <1>5, <2>1 DEF GetPending, IInv
<1>6. CASE UNCHANGED vars
  BY <1>0, <1>6 DEF vars, IInv
<1>7. ASSUME NEW r \in Requests, LlmTimeout(r) PROVE IInv'
  BY <1>0, <1>7 DEF LlmTimeout, IInv
<1> QED
  BY <1>1, <1>2, <1>3, <1>4, <1>5, <1>6, <1>7

LEMMA IInvNext == IInv /\ [Next]_vars => IInv'
<1> SUFFICES ASSUME IInv, [Next]_vars PROVE IInv'
  OBVIOUS
<1>1. KeeperWaits'
  BY KeeperNext DEF IInv
<1> QED
  BY <1>1, IInvRespond, IInvAutoExecute, IInvGenerated, IInvEnqueue, IInvApprove, IInvDiscard,
     IInvCrashes, IInvEnvironment
  DEF Next, Conclude, Finish

(***************************************************************************)
(* The properties of Layer 3 and what they lean on hold in every state,    *)
(* for every interleaving of its handlers, every loop kept by a call of    *)
(* Ollama and every restart.                                               *)
(***************************************************************************)
THEOREM InductiveInvariant == Spec => []IInv
BY IInvInit, IInvNext, PTL DEF Spec

(***************************************************************************)
(* Every variable keeps its type; the number of entries in a source's rate *)
(* window, which verify() checks before it adds one, never exceeds the     *)
(* limit.                                                                  *)
(***************************************************************************)
THEOREM TypeCorrect == Spec => []TypeOK
<1>1. IInv => TypeOK
  BY DEF IInv
<1> QED
  BY <1>1, InductiveInvariant, PTL
-----------------------------------------------------------------------------
(***************************************************************************)
(* A decision is in _pending_lookup exactly while its request is queued,   *)
(* under its own alert.                                                    *)
(***************************************************************************)
THEOREM NoParkedDecisionIsLost == Spec => []ParkedExactlyOnce
<1>1. IInv => ParkedExactlyOnce
  BY DEF IInv
<1> QED
  BY <1>1, InductiveInvariant, PTL

(***************************************************************************)
(* A parked decision has its own entry in the priority queue: none becomes *)
(* invisible to /pending when entries of its alert are dropped.            *)
(***************************************************************************)
THEOREM ParkedDecisionsAreListed == Spec => []ParkedIsListed
<1>1. IInv => ParkedIsListed
  BY DEF IInv
<1> QED
  BY <1>1, InductiveInvariant, PTL

(***************************************************************************)
(* execute() runs at most once for each request, under every interleaving  *)
(* of submissions, resubmissions, approvals and restarts.                  *)
(***************************************************************************)
THEOREM ExecutedAtMostOnce == Spec => []RunAtMostOnce
<1>1. IInv => RunAtMostOnce
  BY DEF IInv
<1> QED
  BY <1>1, InductiveInvariant, PTL

(***************************************************************************)
(* The fast path executes only decisions whose primary action passed the   *)
(* severity floor, the management IP and the backup constraints.           *)
(***************************************************************************)
THEOREM PolicyIsVerified == Spec => []PolicyRunsAreVerified
<1>1. IInv => PolicyRunsAreVerified
  BY DEF IInv, ApprovedVerdicts, PolicyRunsAreVerified
<1> QED
  BY <1>1, InductiveInvariant, PTL

(***************************************************************************)
(* The audit log holds the history of every answered or rejected request,  *)
(* and Layer 4 is retrained from answered requests only.                   *)
(***************************************************************************)
THEOREM HistoryIsKept == Spec => [](TrailIsComplete /\ RetrainsFromAnswered)
<1>1. IInv => TrailIsComplete /\ RetrainsFromAnswered
  BY DEF IInv
<1> QED
  BY <1>1, InductiveInvariant, PTL
-----------------------------------------------------------------------------
(***************************************************************************)
(* Which requests a step can touch: whoever it decides was not decided.    *)
(***************************************************************************)
LEMMA StepKeepsOutcomes ==
  ASSUME IInv, Next, NEW q \in Requests, phase[q] \in Ended
  PROVE  phase'[q] = phase[q] /\ run'[q] = run[q]
<1> USE DEF Ended
<1>0. TypeOK
  BY DEF IInv
<1>1. ASSUME NEW r \in Requests, Respond(r) \/ RespondRaises(r) \/ LlmTimeout(r) \/ AutoExecute(r)
                                 \/ Generated(r) \/ RetrainTask(r)
      PROVE  phase'[q] = phase[q] /\ run'[q] = run[q]
  BY <1>0, <1>1 DEF Respond, RespondRaises, LlmTimeout, AutoExecute, Generated, RetrainTask, TypeOK
<1>2. ASSUME NEW r \in Requests, Enqueue(r)
      PROVE  phase'[q] = phase[q] /\ run'[q] = run[q]
  <2>1. alertOf[r] \in AlertIds
    BY <1>0 DEF TypeOK
  <2>2. q # pending[alertOf[r]]
    BY <2>1, RequestAssumption DEF IInv, ParkedExactlyOnce
  <2> QED
    BY <1>2, <2>2 DEF Enqueue
<1>3. ASSUME NEW o \in Approvers, Reject(o) \/ Approve(o) \/ ApproveRaises(o)
      PROVE  phase'[q] = phase[q] /\ run'[q] = run[q]
  <2>1. Popped(o) # q
    BY <1>3, PoppedIsQueued DEF Reject, Approve, ApproveRaises, IInv, KeeperWaits
  <2> QED
    BY <1>0, <1>3, <2>1 DEF Reject, Approve, ApproveRaises, TypeOK
<1>4. ASSUME NEW o \in Approvers, CallApprove(o) \/ ApproveRaced(o) \/ Generate(o)
      PROVE  phase'[q] = phase[q] /\ run'[q] = run[q]
  BY <1>4 DEF CallApprove, ApproveRaced, Generate
<1>5. ASSUME Restart PROVE phase'[q] = phase[q]
  BY <1>5 DEF Restart, Live, Open
<1>6. ASSUME NEW o \in Approvers, CrashAfterApprove(o)
      PROVE  phase'[q] = phase[q] /\ run'[q] = run[q]
  BY <1>5, <1>6, CrashedApproval DEF CrashAfterApprove
<1>7. CASE GetPending \/ Crash \/ \E s \in Sources : RateExpires(s)
  BY <1>5, <1>7 DEF GetPending, Crash, RateExpires
<1> QED
  BY <1>1, <1>2, <1>3, <1>4, <1>6, <1>7 DEF Next, Conclude, Finish

(***************************************************************************)
(* What was decided about a request is never decided again.                *)
(***************************************************************************)
THEOREM OutcomesAreFinal == Spec => OutcomeIsFinal
<1>1. IInv /\ [Next]_vars =>
        [\A r \in Requests : phase[r] \in Ended => phase'[r] = phase[r] /\ run'[r] = run[r]]_vars
  BY StepKeepsOutcomes
<1> QED
  BY <1>1, InductiveInvariant, PTL DEF Spec, OutcomeIsFinal
-----------------------------------------------------------------------------
(***************************************************************************)
(* The refinement of ApprovalGate.  The sets of the gate, and the facts a  *)
(* step is mapped from: who is decided, and that nobody is decided twice.  *)
(***************************************************************************)
Waiting  == {r \in Requests : phase[r] = "queued"}
ByPolicy == {r \in Requests : run[r].by = "policy"}
ByHuman  == {r \in Requests : run[r].by = "human"}
Closed   == {r \in Requests : phase[r] \in Ended /\ run[r].by = "nobody"}

LEMMA GateInit == Init => Gate!Init
BY DEF Init, Gate!Init, NotRun, Ended

\* A request in one of its open phases is not decided, and one that is not waiting is fresh.
LEMMA OpenIsUndecided ==
  ASSUME IInv, NEW r \in Requests, phase[r] \in Open
  PROVE  /\ r \notin ByPolicy \cup ByHuman \cup Closed
         /\ run[r].by = "nobody"
BY NotRunYet DEF Open, Ended, ByPolicy, ByHuman, Closed

\* A request whose execution was decided may end, or lose its process, unseen by the gate.
Unseen(q) ==
  phase'[q] = phase[q] \/ (phase[q] = "generating" /\ phase'[q] \in Ended /\ run'[q] = run[q])

LEMMA UnseenStep ==
  ASSUME IInv, NEW q \in Requests, Unseen(q), run'[q] = run[q]
  PROVE  (q \in Waiting' <=> q \in Waiting) /\ (q \in Closed' <=> q \in Closed)
<1>1. phase[q] = "generating" => run[q].by = "policy"
  BY DEF IInv, RunRecords
<1> QED
  BY <1>1 DEF Unseen, Waiting, Closed, Ended

\* A step that runs nothing and ends the requests of dropped is a Drop of the gate.
LEMMA DropStep ==
  ASSUME IInv, NEW dropped \in SUBSET Requests, run' = run,
         \A q \in dropped : phase[q] \in Open /\ phase'[q] \in Ended,
         \A q \in Requests \ dropped : Unseen(q)
  PROVE  Gate!Next
<1>1. dropped \cap (ByPolicy \cup ByHuman \cup Closed) = {}
  BY OpenIsUndecided
<1>2. ByPolicy' = ByPolicy /\ ByHuman' = ByHuman
  BY DEF ByPolicy, ByHuman
<1>3. Waiting' = Waiting \ dropped
  <2>1. \A q \in dropped : q \notin Waiting'
    BY DEF Waiting, Ended
  <2> QED
    BY <2>1, UnseenStep DEF Waiting
<1>4. Closed' = Closed \cup dropped
  <2>1. \A q \in dropped : q \in Closed'
    BY OpenIsUndecided DEF Closed
  <2> QED
    BY <2>1, UnseenStep DEF Closed
<1>5. Gate!Drop(dropped)
  BY <1>1, <1>2, <1>3, <1>4
  DEF Gate!Drop, Gate!Close, Gate!Decided, Waiting, ByPolicy, ByHuman, Closed
<1> QED
  BY <1>5 DEF Gate!Next

\* A step that runs r and ends the requests of dropped is a run of the gate.
LEMMA RunStep ==
  ASSUME IInv, NEW r \in Requests, NEW dropped \in SUBSET (Requests \ {r}),
         \/ phase[r] = "reasoning" /\ run'[r].by = "policy"
         \/ phase[r] = "queued" /\ run'[r].by = "human",
         phase'[r] \in Ended \cup {"generating"},
         \A q \in Requests \ {r} : run'[q] = run[q],
         \A q \in dropped : phase[q] \in Open /\ phase'[q] \in Ended,
         \A q \in Requests \ (dropped \cup {r}) : Unseen(q)
  PROVE  Gate!Next
<1>0. phase[r] \in Open /\ run[r].by = "nobody"
  BY OpenIsUndecided DEF Open
<1>1. /\ dropped \cap (ByPolicy \cup ByHuman \cup Closed) = {}
      /\ r \notin ByPolicy \cup ByHuman \cup Closed
  BY <1>0, OpenIsUndecided
<1>2. Waiting' = Waiting \ ({r} \cup dropped)
  <2>1. \A q \in {r} \cup dropped : q \notin Waiting'
    BY DEF Waiting, Ended
  <2> QED
    BY <2>1, UnseenStep DEF Waiting
<1>3. Closed' = Closed \cup dropped
  <2>1. \A q \in dropped : q \in Closed'
    BY OpenIsUndecided DEF Closed
  <2>2. r \notin Closed /\ r \notin Closed'
    BY <1>1 DEF Closed
  <2> QED
    BY <2>1, <2>2, UnseenStep DEF Closed
<1>4. CASE phase[r] = "reasoning" /\ run'[r].by = "policy"
  <2>1. ByPolicy' = ByPolicy \cup {r} /\ ByHuman' = ByHuman /\ r \notin Waiting
    BY <1>0, <1>4 DEF ByPolicy, ByHuman, Waiting
  <2>2. Waiting' = Waiting \ dropped
    BY <1>2, <2>1
  <2>3. Gate!PolicyRun(r, dropped)
    BY <1>1, <1>3, <2>1, <2>2
    DEF Gate!PolicyRun, Gate!Close, Gate!Decided, Gate!Fresh, Waiting, ByPolicy, ByHuman, Closed
  <2> QED
    BY <2>3 DEF Gate!Next
<1>5. CASE phase[r] = "queued" /\ run'[r].by = "human"
  <2>1. ByHuman' = ByHuman \cup {r} /\ ByPolicy' = ByPolicy /\ r \in Waiting
    BY <1>0, <1>5 DEF ByPolicy, ByHuman, Waiting
  <2>2. Gate!HumanRun(r, dropped)
    BY <1>1, <1>2, <1>3, <2>1
    DEF Gate!HumanRun, Gate!Close, Gate!Decided, Waiting, ByPolicy, ByHuman, Closed
  <2> QED
    BY <2>2 DEF Gate!Next
<1> QED
  BY <1>4, <1>5

\* A step that parks r and closes the waiting requests of dropped is a Park of the gate.
LEMMA ParkStep ==
  ASSUME IInv, NEW r \in Requests, NEW dropped \in SUBSET (Requests \ {r}),
         phase[r] = "reasoning", phase'[r] = "queued", run' = run,
         \A q \in dropped : phase[q] = "queued" /\ phase'[q] \in Ended,
         \A q \in Requests \ (dropped \cup {r}) : phase'[q] = phase[q]
  PROVE  Gate!Next
<1>1. r \notin ByPolicy \cup ByHuman \cup Closed /\ r \notin Waiting
  BY OpenIsUndecided DEF Open, Waiting
<1>2. dropped \cap (ByPolicy \cup ByHuman \cup Closed) = {} /\ dropped \subseteq Waiting
  BY OpenIsUndecided DEF Open, Waiting
<1>3. ByPolicy' = ByPolicy /\ ByHuman' = ByHuman
  BY DEF ByPolicy, ByHuman
<1>4. Waiting' = (Waiting \ dropped) \cup {r}
  BY DEF Waiting, Ended
<1>5. Closed' = Closed \cup dropped
  <2>1. \A q \in dropped : run[q].by = "nobody"
    BY OpenIsUndecided DEF Open
  <2> QED
    BY <1>1, <2>1 DEF Closed, Ended
<1>6. Gate!Park(r, dropped)
  BY <1>1, <1>2, <1>3, <1>4, <1>5
  DEF Gate!Park, Gate!Close, Gate!Decided, Gate!Fresh, Waiting, ByPolicy, ByHuman, Closed
<1> QED
  BY <1>6 DEF Gate!Next

LEMMA EnqueueStep ==
  ASSUME IInv, NEW r \in Requests, Enqueue(r)
  PROVE  Gate!Next
<1> DEFINE dropped == {q \in Requests : q # r /\ q = pending[alertOf[r]]}
<1>1. /\ phase[r] = "reasoning" /\ phase'[r] = "queued" /\ run' = run
      /\ \A q \in dropped : phase'[q] \in Ended
      /\ \A q \in Requests \ (dropped \cup {r}) : phase'[q] = phase[q]
  BY DEF Enqueue, IInv, TypeOK, Ended
<1>2. \A q \in dropped : phase[q] = "queued"
  <2>1. alertOf[r] \in AlertIds
    BY DEF IInv, TypeOK
  <2> QED
    BY <2>1, RequestAssumption DEF IInv, ParkedExactlyOnce
<1>3. dropped \in SUBSET (Requests \ {r})
  OBVIOUS
<1> HIDE DEF dropped
<1> QED
  BY <1>1, <1>2, <1>3, ParkStep

LEMMA CrashStep ==
  ASSUME IInv, Crash \/ \E o \in Approvers : CrashAfterApprove(o)
  PROVE  Gate!Next
<1> DEFINE lost == {q \in Requests : phase[q] \in {"reasoning", "queued"}}
<1>1. ASSUME Restart
      PROVE  /\ \A q \in lost : phase[q] \in Open /\ phase'[q] \in Ended
             /\ \A q \in Requests \ lost : run'[q] = run[q] => Unseen(q)
  BY <1>1 DEF Restart, Ended, Live, Open, Unseen
<1>2. CASE Crash
  <2>1. lost \in SUBSET Requests /\ run' = run /\ Restart
    BY <1>2 DEF Crash
  <2> HIDE DEF lost
  <2> QED
    BY <1>1, <2>1, DropStep
<1>3. ASSUME NEW o \in Approvers, CrashAfterApprove(o) PROVE Gate!Next
  <2>1. Popped(o) \in lost /\ Restart
    BY <1>3, CrashedApproval DEF CrashAfterApprove
  <2>2. /\ phase[Popped(o)] = "queued" /\ run'[Popped(o)].by = "human"
        /\ \A q \in Requests \ {Popped(o)} : run'[q] = run[q]
    BY <1>3, CrashedApproval
  <2>3. lost \ {Popped(o)} \in SUBSET (Requests \ {Popped(o)}) /\ Popped(o) \in Requests
    BY <2>1
  <2> HIDE DEF lost
  <2>4. /\ phase'[Popped(o)] \in Ended
        /\ \A q \in lost \ {Popped(o)} : phase[q] \in Open /\ phase'[q] \in Ended
        /\ \A q \in Requests \ ((lost \ {Popped(o)}) \cup {Popped(o)}) : Unseen(q)
    BY <1>1, <2>1, <2>2
  <2> QED
    BY <2>2, <2>3, <2>4, RunStep
<1> QED
  BY <1>2, <1>3

LEMMA GateNext == IInv /\ [Next]_vars => [Gate!Next]_(Gate!gateVars)
<1> SUFFICES ASSUME IInv, Next PROVE Gate!Next \/ UNCHANGED Gate!gateVars
  BY DEF vars, Gate!gateVars
<1>0. TypeOK
  BY DEF IInv
<1>1. ASSUME NEW r \in Requests, Respond(r) PROVE UNCHANGED Gate!gateVars
  <2>1. phase[r] = "new" /\ phase'[r] = "reasoning" /\ run' = run
        /\ \A q \in Requests : q # r => phase'[q] = phase[q]
    BY <1>0, <1>1 DEF Respond, TypeOK
  <2> QED
    BY <2>1 DEF Gate!gateVars, Ended
<1>2. ASSUME NEW r \in Requests, RespondRaises(r) PROVE Gate!Next
  <2>1. {r} \in SUBSET Requests /\ run' = run
        /\ phase[r] \in Open /\ phase'[r] \in Ended
        /\ \A q \in Requests \ {r} : Unseen(q)
    BY <1>0, <1>2 DEF RespondRaises, TypeOK, Ended, Open, Unseen
  <2> QED
    BY <2>1, DropStep
<1>3. ASSUME NEW r \in Requests, AutoExecute(r) PROVE Gate!Next
  <2>1. /\ phase[r] = "reasoning" /\ phase'[r] \in Ended \cup {"generating"}
        /\ \A q \in Requests \ {r} : Unseen(q) /\ run'[q] = run[q]
    BY <1>0, <1>3 DEF AutoExecute, TypeOK, Unseen
  <2>2. decision[r].actions \in SUBSET Registry
    BY <1>0 DEF TypeOK, Decisions
  <2>3. run'[r].by = "policy"
    BY <1>0, <1>3, <2>2, ExecuteProperties DEF AutoExecute, TypeOK
  <2>4. {} \in SUBSET (Requests \ {r})
    OBVIOUS
  <2> QED
    BY <2>1, <2>3, <2>4, RunStep
<1>4. ASSUME NEW o \in Approvers, Approve(o) PROVE Gate!Next
  <2>1. Popped(o) \in Requests /\ phase[Popped(o)] = "queued"
    BY <1>4, PoppedIsQueued DEF Approve, IInv, KeeperWaits
  <2>2. /\ phase'[Popped(o)] \in Ended
        /\ \A q \in Requests \ {Popped(o)} : Unseen(q) /\ run'[q] = run[q]
    BY <1>0, <1>4, <2>1 DEF Approve, TypeOK, Ended, Unseen
  <2>3. run'[Popped(o)].by = "human"
    <3>1. PICK ordered \in OrderedActions(o), playbook \in PlaybookActions(Popped(o)) :
            run' = [run EXCEPT ![Popped(o)] = RunOf(Popped(o), ordered, playbook)]
      BY <1>4 DEF Approve
    <3> QED
      BY <1>0, <2>1, <3>1, HumanRunProperties DEF TypeOK
  <2>4. {} \in SUBSET (Requests \ {Popped(o)})
    OBVIOUS
  <2> QED
    BY <2>1, <2>2, <2>3, <2>4, RunStep
<1>5. ASSUME NEW o \in Approvers, Reject(o) \/ ApproveRaises(o) PROVE Gate!Next
  <2>1. Popped(o) \in Requests /\ phase[Popped(o)] = "queued"
    BY <1>5, PoppedIsQueued DEF Reject, ApproveRaises, IInv, KeeperWaits
  <2>2. /\ {Popped(o)} \in SUBSET Requests /\ run' = run
        /\ phase[Popped(o)] \in Open /\ phase'[Popped(o)] \in Ended
        /\ \A q \in Requests \ {Popped(o)} : Unseen(q)
    BY <1>0, <1>5, <2>1 DEF Reject, ApproveRaises, TypeOK, Ended, Open, Unseen
  <2> QED
    BY <2>2, DropStep
<1>6. CASE \/ \E r \in Requests : RetrainTask(r) \/ LlmTimeout(r)
           \/ \E o \in Approvers : CallApprove(o) \/ ApproveRaced(o) \/ Generate(o)
           \/ \E s \in Sources : RateExpires(s)
           \/ GetPending
  BY <1>6 DEF RetrainTask, LlmTimeout, CallApprove, ApproveRaced, Generate, RateExpires, GetPending,
     Gate!gateVars
<1>7. ASSUME NEW r \in Requests, Generated(r) PROVE UNCHANGED Gate!gateVars
  <2>1. run' = run /\ \A q \in Requests : Unseen(q)
    BY <1>0, <1>7 DEF Generated, TypeOK, Unseen, Ended
  <2>2. Waiting' = Waiting /\ Closed' = Closed
    BY <2>1, UnseenStep DEF Waiting, Closed
  <2>3. ByPolicy' = ByPolicy /\ ByHuman' = ByHuman
    BY <2>1 DEF ByPolicy, ByHuman
  <2> QED
    BY <2>2, <2>3 DEF Gate!gateVars, Waiting, ByPolicy, ByHuman, Closed
<1> QED
  BY <1>1, <1>2, <1>3, <1>4, <1>5, <1>6, <1>7, EnqueueStep, CrashStep DEF Next, Conclude, Finish

(***************************************************************************)
(* Layer 3 implements the approval gate: whatever its handlers do in       *)
(* between, a request is parked and decided once, and a human runs only    *)
(* what was parked.                                                        *)
(***************************************************************************)
THEOREM Refinement == Spec => ImplementsGate
<1>1. IInv /\ [Next]_vars => [Gate!Next]_(Gate!gateVars)
  BY GateNext
<1> QED
  BY <1>1, GateInit, InductiveInvariant, PTL DEF Spec, ImplementsGate, Gate!Spec
-----------------------------------------------------------------------------
(***************************************************************************)
(* What execute() promises, for every list of actions and every alert:     *)
(* the abstraction of the executor that ResponseEngine rests on.           *)
(***************************************************************************)
\* The errors are positions of the list, so there are at most as many.
LEMMA ErrorsAreFinite ==
  ASSUME NEW order \in Orders, NEW alert \in AlertBodies
  PROVE  /\ IsFiniteSet(Errors(order, alert))
         /\ Cardinality(Errors(order, alert)) \in 0..Len(order.actions)
         /\ Cardinality(Errors(order, alert)) = Len(order.actions)
              <=> Errors(order, alert) = DOMAIN order.actions
         /\ Cardinality(Errors(order, alert)) = 0 <=> Errors(order, alert) = {}
<1> DEFINE positions == DOMAIN order.actions
           errors == Errors(order, alert)
<1>1. order.actions \in Seq(Nat)  BY DEF Orders
<1>2. positions = 1..Len(order.actions) /\ Len(order.actions) \in Nat  BY <1>1
<1>3. IsFiniteSet(positions) /\ Cardinality(positions) = Len(order.actions)
  <2>1. IsFiniteSet(1..Len(order.actions))
        /\ Cardinality(1..Len(order.actions)) =
             IF 1 > Len(order.actions) THEN 0 ELSE Len(order.actions) - 1 + 1
    BY <1>2, FS_Interval, 1 \in Int, Len(order.actions) \in Int
  <2> QED BY <1>2, <2>1
<1>4. errors \subseteq positions  BY DEF Errors
<1>5. /\ IsFiniteSet(errors) /\ Cardinality(errors) <= Cardinality(positions)
      /\ Cardinality(errors) = Cardinality(positions) => errors = positions
  BY <1>3, <1>4, FS_Subset
<1>6. Cardinality(errors) \in Nat  BY <1>5, FS_CardinalityType
<1>7. Cardinality(errors) = 0 <=> errors = {}  BY <1>5, FS_EmptySet
<1> QED BY <1>2, <1>3, <1>5, <1>6, <1>7

(***************************************************************************)
(* A decision that waits for a human has run nothing, and one that failed  *)
(* has run nothing either: its caller may try again (execute).             *)
(***************************************************************************)
THEOREM NothingRanUnlessTold ==
  ASSUME NEW order \in Orders, NEW alert \in AlertBodies, NEW granted \in BOOLEAN,
         NEW dryRun \in BOOLEAN
  PROVE  Status(order, alert, granted, dryRun) \in {"pending_approval", "failed"}
           <=> Ran(order, alert, granted) = {}
<1> DEFINE errors == Cardinality(Errors(order, alert))
           total  == Len(order.actions)
<1>1. Outcome(errors, total, dryRun) = "failed" <=> errors = total  BY DEF Outcome
<1>2. Outcome(errors, total, dryRun) # "pending_approval"  BY DEF Outcome
<1>3. errors = total <=> Errors(order, alert) = DOMAIN order.actions  BY ErrorsAreFinite
<1>4. Errors(order, alert) \subseteq DOMAIN order.actions  BY DEF Errors
<1>5. errors = total <=> DOMAIN order.actions \ Errors(order, alert) = {}  BY <1>3, <1>4
<1> QED BY <1>1, <1>2, <1>5 DEF Status, Ran

(***************************************************************************)
(* The parameters are those of the alert, not of an action, so one that is *)
(* not accepted stops every action of the registry and none is stopped     *)
(* alone: "partial_success" is never answered, and the service's model may *)
(* take the executor for one that runs all or nothing (execute,            *)
(* _extract_params_for_action, validate_action_params).                    *)
(***************************************************************************)
THEOREM AllOrNone ==
  ASSUME NEW order \in Orders, NEW alert \in AlertBodies, NEW granted \in BOOLEAN,
         NEW dryRun \in BOOLEAN,
         \A i \in DOMAIN order.actions : order.actions[i] \in Dispatched
  PROVE  /\ Ran(order, alert, granted) =
              IF ~Gated(order, granted) /\ Safe(alert) THEN DOMAIN order.actions ELSE {}
         /\ Status(order, alert, granted, dryRun) # "partial_success"
<1>1. Errors(order, alert) = IF ParamsValid(alert) THEN {} ELSE DOMAIN order.actions
  BY DEF Errors
<1>2. Ran(order, alert, granted) =
        IF ~Gated(order, granted) /\ Safe(alert) THEN DOMAIN order.actions ELSE {}
  BY <1>1 DEF Ran, Safe
<1> DEFINE errors == Cardinality(Errors(order, alert))
           total  == Len(order.actions)
<1>3. errors = total \/ errors = 0
  <2>1. CASE ParamsValid(alert)  BY <1>1, <2>1, ErrorsAreFinite
  <2>2. CASE ~ParamsValid(alert)  BY <1>1, <2>2, ErrorsAreFinite
  <2> QED BY <2>1, <2>2
<1>4. Outcome(errors, total, dryRun) # "partial_success"  BY <1>3 DEF Outcome
<1>5. Status(order, alert, granted, dryRun) # "partial_success"  BY <1>4 DEF Status
<1> QED BY <1>2, <1>5

(***************************************************************************)
(* An alert that came through /respond gives every handler the addresses,  *)
(* port and protocol it names; the block of a source address alone acts on *)
(* a default, its duration, which AlertRequest drops                       *)
(* (_handle_block_source_ip and the other handlers).                       *)
(***************************************************************************)
THEOREM OnlyTheBlockIsBlind ==
  ASSUME NEW alert \in AlertBodies, FromRequest(alert), NEW a \in Dispatched
  PROVE  ActsBlindly(a, alert) <=> a = 10
<1> DEFINE given == {"source_ip", "destination_ip", "destination_port", "protocol"}
<1>1. a \in Nat /\ a \in 0..49  BY DEF Dispatched
<1>2. CASE a = 10
  <2>1. Reads(a) = {"source_ip", "block_duration"}  BY <1>2 DEF Reads, NetworkReads
  <2>2. alert["block_duration"] = "absent"  BY DEF FromRequest
  <2> QED BY <1>2, <2>1, <2>2 DEF ActsBlindly
<1>3. CASE a # 10
  <2>1. Reads(a) \subseteq given
    <3>1. CASE a \in 0..9    BY <3>1 DEF Reads, MonitoringReads
    <3>2. CASE a \in 10..19  BY <1>3, <3>2 DEF Reads, NetworkReads
    <3>3. CASE a \in 20..29  BY <3>3 DEF Reads, CredentialReads
    <3>4. CASE a \in 30..39  BY <3>4 DEF Reads, ProcessReads
    <3>5. CASE a \in 40..49  BY <3>5 DEF Reads, DataReads
    <3> QED BY <1>1, <3>1, <3>2, <3>3, <3>4, <3>5
  <2>2. \A k \in given : alert[k] # "absent"  BY DEF FromRequest
  <2>3. ~ActsBlindly(a, alert)  BY <2>1, <2>2 DEF ActsBlindly
  <2> QED BY <1>3, <2>3
<1> QED BY <1>2, <1>3
================================================================================
