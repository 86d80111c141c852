---------------------------- MODULE ApprovalGate ----------------------------
(***************************************************************************)
(* What Layer 3 promises about a request, whatever its handlers do in      *)
(* between: a request is undecided, then decided once and for all.  It is  *)
(* run by the policy straight away, or parked and later run by a human, or *)
(* closed without being run.  A restart, or a resubmission that takes the  *)
(* place of a parked request, closes requests as a side effect.            *)
(***************************************************************************)
CONSTANT Requests

VARIABLES waiting,   \* parked for a human
          byPolicy,  \* executed without a human
          byHuman,   \* executed after an approval
          closed     \* never to be executed

gateVars == <<waiting, byPolicy, byHuman, closed>>

Decided == byPolicy \cup byHuman \cup closed
Fresh   == Requests \ (waiting \cup Decided)

Init == waiting = {} /\ byPolicy = {} /\ byHuman = {} /\ closed = {}

\* The requests of dropped are closed by this step.
Close(dropped) == dropped \cap Decided = {} /\ closed' = closed \cup dropped

Park(r, dropped) == /\ r \in Fresh
                    /\ dropped \subseteq waiting
                    /\ Close(dropped)
                    /\ waiting' = (waiting \ dropped) \cup {r}
                    /\ UNCHANGED <<byPolicy, byHuman>>

PolicyRun(r, dropped) == /\ r \in Fresh \ dropped
                         /\ Close(dropped)
                         /\ byPolicy' = byPolicy \cup {r}
                         /\ waiting' = waiting \ dropped
                         /\ UNCHANGED byHuman

HumanRun(r, dropped) == /\ r \in waiting \ dropped
                        /\ Close(dropped)
                        /\ byHuman' = byHuman \cup {r}
                        /\ waiting' = waiting \ ({r} \cup dropped)
                        /\ UNCHANGED byPolicy

Drop(dropped) == /\ Close(dropped)
                 /\ waiting' = waiting \ dropped
                 /\ UNCHANGED <<byPolicy, byHuman>>

Next == \E dropped \in SUBSET Requests :
           \/ \E r \in Requests : Park(r, dropped) \/ PolicyRun(r, dropped) \/ HumanRun(r, dropped)
           \/ Drop(dropped)

Spec == Init /\ [][Next]_gateVars
=============================================================================
