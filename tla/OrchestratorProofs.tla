------------------------- MODULE OrchestratorProofs -------------------------
(***************************************************************************)
(* Theorems about Orchestrator, for all sets of pipelines, keys and URLs   *)
(* and every threshold that satisfy its assumptions, and for all lists of  *)
(* URLs, with and without repetitions.  Most of the steps end a call or    *)
(* begin one: what they share is in the lemmas on End, Go, Proceed and     *)
(* Try.                                                                    *)
(***************************************************************************)
EXTENDS Orchestrator, FiniteSetTheorems, TLAPS

Zero     == [u \in Urls |-> 0]
Circuits == [Urls -> {"CLOSED", "OPEN", "HALF_OPEN"}]

LEMMA ZeroType == Zero \in [Urls -> Nat] /\ \A u \in Urls : Zero[u] = 0
BY DEF Zero

LEMMA OrderProperties ==
  /\ Len(Order) \in Nat
  /\ \A i \in 1..Len(Order) : Order[i] \in Urls
BY OrderAssumption

(***************************************************************************)
(* How often a service is listed up to a position.                         *)
(***************************************************************************)
Places(u, n) == {i \in 1..n : Order[i] = u}

LEMMA PlacesFinite ==
  ASSUME NEW u, NEW n \in Nat
  PROVE  /\ IsFiniteSet(Places(u, n))
         /\ Listed(u, n) = Cardinality(Places(u, n))
         /\ Listed(u, n) \in Nat
<1>1. IsFiniteSet(1..n)
  BY FS_Interval
<1>2. Places(u, n) \subseteq 1..n
  BY DEF Places
<1>3. IsFiniteSet(Places(u, n))
  BY <1>1, <1>2, FS_Subset
<1> QED
  BY <1>3, FS_CardinalityType DEF Listed, Places

\* A longer part of the list names a service at least as often.
LEMMA ListedGrows ==
  ASSUME NEW u, NEW m \in Nat, NEW n \in Nat, m <= n
  PROVE  Listed(u, m) <= Listed(u, n)
<1>1. Places(u, m) \subseteq Places(u, n)
  BY DEF Places
<1> QED
  BY <1>1, PlacesFinite, FS_Subset

\* A position counts for the service that it names.
LEMMA ListedOnceMore ==
  ASSUME NEW n \in Nat \ {0}
  PROVE  Listed(Order[n], n) = Listed(Order[n], n - 1) + 1
<1> DEFINE u == Order[n]
<1>1. n - 1 \in Nat
  OBVIOUS
<1>2. Places(u, n) = Places(u, n - 1) \cup {n}
  BY DEF Places
<1>3. n \notin Places(u, n - 1)
  BY DEF Places
<1> HIDE DEF u
<1>4. Cardinality(Places(u, n)) = Cardinality(Places(u, n - 1)) + 1
  BY <1>1, <1>2, <1>3, PlacesFinite, FS_AddElement
<1> QED
  BY <1>1, <1>4, PlacesFinite DEF u

(***************************************************************************)
(* The part of the state that one pipeline owns and that a stage change    *)
(* touches, before and after the step.                                     *)
(***************************************************************************)
Moved(p, next) ==
  /\ stage' = [stage EXCEPT ![p] = next]
  /\ key'  \in [Pipelines -> Keys \cup {NoKey}]
  /\ plan' \in [Pipelines -> Plans]
  /\ \/ served' = served /\ next \in {"respond", "retrain", "playbook"}
     \/ served' = [served EXCEPT ![p] = Zero] /\ next = "idle"

LEMMA EndMoves ==
  ASSUME TypeOK, NEW p \in Pipelines, End(p)
  PROVE  Moved(p, "idle")
BY DEF TypeOK, End, Moved, NoPlan, Plans, Zero

LEMMA GoMoves ==
  ASSUME TypeOK, NEW p \in Pipelines, NEW wanted \in Plans,
         NEW next \in {"respond", "retrain", "playbook"}, Go(p, next, wanted)
  PROVE  Moved(p, next)
BY DEF TypeOK, Go, Moved

LEMMA ProceedMoves ==
  ASSUME TypeOK, NEW p \in Pipelines, NEW wanted \in Plans, Proceed(p, wanted)
  PROVE  \E next \in {"idle", "retrain", "playbook"} : Moved(p, next)
BY EndMoves, GoMoves DEF Proceed

(***************************************************************************)
(* Where Try leads: away from Layer 3, or to a position from i on that the *)
(* service behind it has yet to take the alert at.                         *)
(***************************************************************************)
LEMMA TryMoves ==
  ASSUME TypeOK, NEW p \in Pipelines, NEW wanted \in Plans, NEW i \in Nat \ {0},
         NEW c \in Circuits, Try(p, i, c, wanted)
  PROVE  /\ taken' = [taken EXCEPT ![p] = FALSE]
         /\ probe' \in [Pipelines -> BOOLEAN]
         /\ \/ /\ \E next \in {"idle", "retrain", "playbook"} : Moved(p, next)
               /\ at' = [at EXCEPT ![p] = 0]
            \/ \E j \in i..Len(Order) :
                 /\ Moved(p, "respond")
                 /\ at' = [at EXCEPT ![p] = j]
                 /\ served' = served
<1>1. CASE Permitted(c, i) = {}
  BY <1>1, ProceedMoves DEF Try, TypeOK
<1>2. ASSUME NEW j \in Permitted(c, i),
             Go(p, "respond", wanted),
             at' = [at EXCEPT ![p] = j],
             probe' = [probe EXCEPT ![p] = c[Order[j]] # "CLOSED"]
      PROVE  /\ j \in i..Len(Order)
             /\ Moved(p, "respond")
             /\ served' = served
             /\ probe' \in [Pipelines -> BOOLEAN]
  <2>1. j \in i..Len(Order)
    BY DEF Permitted
  <2>2. Moved(p, "respond") /\ served' = served
    BY <1>2, GoMoves DEF Go
  <2>3. probe' \in [Pipelines -> BOOLEAN]
    BY <1>2 DEF TypeOK
  <2> QED
    BY <2>1, <2>2, <2>3
<1> QED
  BY <1>1, <1>2 DEF Try

\* Try keeps the closed circuits closed and the others not.
LEMMA TryKeepsClosed ==
  ASSUME NEW p, NEW wanted, NEW i, NEW c \in Circuits, Try(p, i, c, wanted)
  PROVE  /\ circuit' \in Circuits
         /\ \A u \in Urls : circuit'[u] = "CLOSED" <=> c[u] = "CLOSED"
BY DEF Try, Circuits

LEMMA FailureType ==
  ASSUME TypeOK, NEW u \in Urls
  PROVE  /\ OneMore(u) \in 0..Threshold
         /\ Failure(u) \in [Urls -> 0..Threshold]
         /\ Tripped(u) \in Circuits
         /\ [circuit EXCEPT ![u] = "CLOSED"] \in Circuits
         /\ [circuit EXCEPT ![u] = "OPEN"] \in Circuits
BY ThresholdAssumption DEF TypeOK, OneMore, Failure, Tripped, Circuits
-----------------------------------------------------------------------------
\* What IInv says of the pipelines, apart from the breakers and the filter.
Hands == AskedUrl /\ Unserved /\ ServedAsListed

\* The pipeline's own variables keep their types when it moves.
PipelineTypes ==
  /\ stage  \in [Pipelines -> Stages]
  /\ key    \in [Pipelines -> Keys \cup {NoKey}]
  /\ plan   \in [Pipelines -> Plans]
  /\ at     \in [Pipelines -> 0..Len(Order)]
  /\ probe  \in [Pipelines -> BOOLEAN]
  /\ taken  \in [Pipelines -> BOOLEAN]
  /\ served \in [Pipelines -> [Urls -> Nat]]

LEMMA MoveTypes ==
  ASSUME TypeOK, NEW p \in Pipelines, NEW next \in Stages, Moved(p, next)
  PROVE  /\ stage' \in [Pipelines -> Stages]
         /\ key'   \in [Pipelines -> Keys \cup {NoKey}]
         /\ plan'  \in [Pipelines -> Plans]
         /\ served' \in [Pipelines -> [Urls -> Nat]]
BY ZeroType DEF TypeOK, Moved

(***************************************************************************)
(* What a service may have taken of a pipeline's alert: never more often   *)
(* than it is listed, and only at positions that were asked.               *)
(***************************************************************************)
LEMMA AllowedBound ==
  ASSUME TypeOK, AskedUrl, NEW p \in Pipelines, NEW u \in Urls
  PROVE  Allowed(p, u) <= Listed(u, Len(Order))
<1>0. Listed(u, Len(Order)) \in Nat
  BY PlacesFinite, OrderProperties
<1>1. CASE stage[p] # "respond"
  BY <1>0, <1>1 DEF Allowed
<1>2. CASE stage[p] = "respond"
  <2>1. at[p] \in 1..Len(Order) /\ at[p] \in Nat \ {0} /\ at[p] - 1 \in Nat
    BY <1>2, OrderProperties DEF TypeOK, AskedUrl
  <2>2. /\ Listed(u, at[p] - 1) \in Nat
        /\ Listed(u, at[p]) \in Nat
        /\ Listed(u, at[p]) <= Listed(u, Len(Order))
        /\ Listed(u, at[p] - 1) <= Listed(u, at[p])
    BY <2>1, PlacesFinite, ListedGrows, OrderProperties
  <2>3. CASE taken[p] /\ Order[at[p]] = u
    <3>1. Listed(u, at[p]) = Listed(u, at[p] - 1) + 1
      BY <2>1, <2>3, ListedOnceMore
    <3> QED
      BY <1>2, <2>2, <2>3, <3>1 DEF Allowed
  <2>4. CASE ~(taken[p] /\ Order[at[p]] = u)
    BY <1>0, <1>2, <2>2, <2>4 DEF Allowed
  <2> QED
    BY <2>3, <2>4
<1> QED
  BY <1>1, <1>2

LEMMA AllowedType ==
  ASSUME TypeOK, AskedUrl, NEW p \in Pipelines, NEW u \in Urls
  PROVE  Allowed(p, u) \in Nat
<1>1. Listed(u, Len(Order)) \in Nat
  BY PlacesFinite, OrderProperties
<1>2. stage[p] = "respond" => Listed(u, at[p] - 1) \in Nat
  <2>1. stage[p] = "respond" => at[p] - 1 \in Nat
    BY OrderProperties DEF TypeOK, AskedUrl
  <2> QED
    BY <2>1, PlacesFinite
<1> QED
  BY <1>1, <1>2 DEF Allowed

\* What the others may have taken stays as it is.
LEMMA AllowedKept ==
  ASSUME NEW q, NEW u, stage'[q] = stage[q], at'[q] = at[q], taken'[q] = taken[q]
  PROVE  Allowed(q, u)' = Allowed(q, u)
BY DEF Allowed

(***************************************************************************)
(* A pipeline that moves past Layer 3, or never gets there, takes along    *)
(* what the services have served.                                          *)
(***************************************************************************)
LEMMA LeavingKeepsHands ==
  ASSUME TypeOK, Hands, NEW p \in Pipelines, NEW next \in {"idle", "retrain", "playbook"},
         Moved(p, next),
         \A q \in Pipelines \ {p} : at'[q] = at[q] /\ taken'[q] = taken[q]
  PROVE  Hands'
<1>1. stage'[p] = next /\ \A q \in Pipelines \ {p} : stage'[q] = stage[q]
  BY DEF Moved, TypeOK
<1>2. /\ \A q \in Pipelines \ {p} : served'[q] = served[q]
      /\ served'[p] = served[p] \/ served'[p] = Zero
      /\ next = "idle" => served'[p] = Zero
  BY DEF Moved, TypeOK
<1>3. AskedUrl'
  BY <1>1 DEF Hands, AskedUrl
<1>4. Unserved'
  BY <1>1, <1>2 DEF Hands, Unserved, Zero
<1>5. ServedAsListed'
  <2> SUFFICES ASSUME NEW q \in Pipelines, NEW u \in Urls
               PROVE  served'[q][u] <= Allowed(q, u)'
    BY DEF ServedAsListed
  <2>1. CASE q # p
    <3>1. Allowed(q, u)' = Allowed(q, u)
      BY <1>1, <2>1, AllowedKept
    <3> QED
      BY <1>2, <2>1, <3>1 DEF Hands, ServedAsListed
  <2>2. CASE q = p
    <3>1. Allowed(p, u)' = Listed(u, Len(Order))
      BY <1>1 DEF Allowed, Listed
    <3>2. /\ served[p][u] <= Allowed(p, u)
          /\ Allowed(p, u) <= Listed(u, Len(Order))
      BY AllowedBound DEF Hands, ServedAsListed
    <3>3. Listed(u, Len(Order)) \in Nat /\ served[p][u] \in Nat
      BY PlacesFinite, OrderProperties DEF TypeOK
    <3>4. Allowed(p, u) \in Nat
      BY AllowedType DEF Hands
    <3>5. served[p][u] <= Listed(u, Len(Order))
      BY <3>2, <3>3, <3>4
    <3> QED
      BY <1>2, <2>2, <3>1, <3>3, <3>5, ZeroType
  <2> QED
    BY <2>1, <2>2
<1> QED
  BY <1>3, <1>4, <1>5 DEF Hands

(***************************************************************************)
(* A pipeline goes on to a position from i on, when its alert was taken    *)
(* only at positions before i.                                             *)
(***************************************************************************)
LEMMA AskingKeepsHands ==
  ASSUME TypeOK, Hands, NEW p \in Pipelines, NEW i \in Nat \ {0}, NEW j \in i..Len(Order),
         \A u \in Urls : served[p][u] <= Listed(u, i - 1),
         Moved(p, "respond"), served' = served,
         at' = [at EXCEPT ![p] = j],
         taken' = [taken EXCEPT ![p] = FALSE]
  PROVE  Hands'
<1>1. stage'[p] = "respond" /\ \A q \in Pipelines \ {p} : stage'[q] = stage[q]
  BY DEF Moved, TypeOK
<1>2. /\ at'[p] = j /\ ~taken'[p]
      /\ \A q \in Pipelines \ {p} : at'[q] = at[q] /\ taken'[q] = taken[q]
  BY DEF TypeOK
<1>3. AskedUrl'
  BY <1>1, <1>2 DEF Hands, AskedUrl
<1>4. Unserved'
  BY <1>1 DEF Hands, Unserved
<1>5. ServedAsListed'
  <2> SUFFICES ASSUME NEW q \in Pipelines, NEW u \in Urls
               PROVE  served[q][u] <= Allowed(q, u)'
    BY DEF ServedAsListed
  <2>1. CASE q # p
    <3>1. Allowed(q, u)' = Allowed(q, u)
      BY <1>1, <1>2, <2>1, AllowedKept
    <3> QED
      BY <3>1 DEF Hands, ServedAsListed
  <2>2. CASE q = p
    <3>1. i - 1 \in Nat /\ j - 1 \in Nat /\ i - 1 <= j - 1
      BY OrderProperties
    <3>2. /\ Listed(u, i - 1) \in Nat
          /\ Listed(u, j - 1) \in Nat
          /\ Listed(u, i - 1) <= Listed(u, j - 1)
      BY <3>1, PlacesFinite, ListedGrows
    <3>3. Allowed(p, u)' = Listed(u, j - 1) + 0
      BY <1>1, <1>2 DEF Allowed, Listed
    <3>4. served[p][u] \in Nat /\ served[p][u] <= Listed(u, i - 1)
      BY DEF TypeOK
    <3>5. served[p][u] <= Listed(u, j - 1) + 0
      BY <3>2, <3>4
    <3> QED
      BY <2>2, <3>3, <3>5
  <2> QED
    BY <2>1, <2>2
<1> QED
  BY <1>3, <1>4, <1>5 DEF Hands

LEMMA TryKeepsHands ==
  ASSUME TypeOK, Hands, NEW p \in Pipelines, NEW wanted \in Plans, NEW i \in Nat \ {0},
         NEW c \in Circuits, Try(p, i, c, wanted),
         \A u \in Urls : served[p][u] <= Listed(u, i - 1)
  PROVE  PipelineTypes' /\ Hands'
<1>1. CASE /\ \E next \in {"idle", "retrain", "playbook"} : Moved(p, next)
           /\ at' = [at EXCEPT ![p] = 0]
  <2>1. PICK next \in {"idle", "retrain", "playbook"} : Moved(p, next)
    BY <1>1
  <2>2. taken' = [taken EXCEPT ![p] = FALSE] /\ probe' \in [Pipelines -> BOOLEAN]
    BY TryMoves
  <2>3. \A q \in Pipelines \ {p} : at'[q] = at[q] /\ taken'[q] = taken[q]
    BY <1>1, <2>2 DEF TypeOK
  <2>4. Hands'
    BY <2>1, <2>3, LeavingKeepsHands
  <2>5. PipelineTypes'
    BY <1>1, <2>1, <2>2, MoveTypes, OrderProperties DEF TypeOK, PipelineTypes, Stages
  <2> QED
    BY <2>4, <2>5
<1>2. CASE \E j \in i..Len(Order) : /\ Moved(p, "respond")
                                    /\ at' = [at EXCEPT ![p] = j]
                                    /\ served' = served
  <2>1. PICK j \in i..Len(Order) : /\ Moved(p, "respond")
                                   /\ at' = [at EXCEPT ![p] = j]
                                   /\ served' = served
    BY <1>2
  <2>2. taken' = [taken EXCEPT ![p] = FALSE] /\ probe' \in [Pipelines -> BOOLEAN]
    BY TryMoves
  <2>3. Hands'
    BY <2>1, <2>2, AskingKeepsHands
  <2>4. PipelineTypes'
    BY <2>1, <2>2, MoveTypes, OrderProperties DEF TypeOK, PipelineTypes, Stages
  <2> QED
    BY <2>3, <2>4
<1> QED
  BY <1>1, <1>2, TryMoves
-----------------------------------------------------------------------------
\* The two other parts of IInv: the breakers' and the filter's.
Breakers ==
  /\ failures \in [Urls -> 0..Threshold]
  /\ circuit  \in Circuits
  /\ cooled   \in [Urls -> BOOLEAN]
  /\ BreakerCounts

Filter ==
  /\ seen   \in [Keys -> BOOLEAN]
  /\ passed \in [Keys -> Nat]
  /\ WindowCounts

LEMMA Parts == IInv <=> PipelineTypes /\ Hands /\ Breakers /\ Filter
BY DEF IInv, TypeOK, PipelineTypes, Hands, Breakers, Filter, Circuits

LEMMA PartsAfter == IInv' <=> PipelineTypes' /\ Hands' /\ Breakers' /\ Filter'
BY DEF IInv, TypeOK, PipelineTypes, Hands, Breakers, Filter, Circuits

LEMMA FilterKept == Filter /\ UNCHANGED filterVars => Filter'
BY DEF Filter, filterVars, WindowCounts

LEMMA BreakersKept == Breakers /\ UNCHANGED breakerVars => Breakers'
BY DEF Breakers, breakerVars, BreakerCounts, Circuits

LEMMA PipelinesKept == PipelineTypes /\ Hands /\ UNCHANGED pipelineVars => PipelineTypes' /\ Hands'
<1> SUFFICES ASSUME PipelineTypes, Hands, UNCHANGED pipelineVars
             PROVE  PipelineTypes' /\ Hands'
  OBVIOUS
<1>1. UNCHANGED <<stage, key, plan, at, probe, taken, served>>
  BY DEF pipelineVars
<1>2. PipelineTypes' /\ AskedUrl' /\ Unserved'
  BY <1>1 DEF PipelineTypes, Hands, AskedUrl, Unserved
<1>3. ServedAsListed'
  BY <1>1, AllowedKept DEF Hands, ServedAsListed
<1> QED
  BY <1>2, <1>3 DEF Hands

\* A step from one stage before Layer 3 to another.
LEMMA WaitingKeepsHands ==
  ASSUME PipelineTypes, Hands, NEW p \in Pipelines, NEW next \in {"detect", "correlate"},
         stage[p] \in {"idle", "detect"},
         stage' = [stage EXCEPT ![p] = next],
         UNCHANGED <<at, taken, served>>
  PROVE  Hands'
<1>1. /\ \A q \in Pipelines \ {p} : stage'[q] = stage[q]
      /\ stage'[p] = next
  BY DEF PipelineTypes
<1>2. AskedUrl' /\ Unserved'
  BY <1>1 DEF Hands, AskedUrl, Unserved
<1>3. ASSUME NEW q \in Pipelines, NEW u \in Urls
      PROVE  Allowed(q, u)' = Allowed(q, u)
  <2>1. CASE q # p
    BY <1>1, <2>1, AllowedKept
  <2>2. CASE q = p
    BY <1>1, <2>2 DEF Allowed, Listed
  <2> QED
    BY <2>1, <2>2
<1>4. ServedAsListed'
  BY <1>3 DEF Hands, ServedAsListed
<1> QED
  BY <1>2, <1>4 DEF Hands

\* A step away from Layer 3 that leaves the calls of the others alone.
LEMMA LeavingKeepsPipelines ==
  ASSUME IInv, NEW p \in Pipelines, NEW next \in {"idle", "retrain", "playbook"},
         Moved(p, next), UNCHANGED <<at, probe, taken>>
  PROVE  PipelineTypes' /\ Hands'
<1>1. TypeOK /\ Hands
  BY DEF IInv, Hands
<1>2. Hands'
  BY <1>1, LeavingKeepsHands
<1>3. PipelineTypes'
  BY <1>1, MoveTypes DEF TypeOK, PipelineTypes, Stages
<1> QED
  BY <1>2, <1>3

(***************************************************************************)
(* A pipeline that awaits Layer 3 awaits one of its URLs, and its alert    *)
(* was taken only at the positions up to that one.                         *)
(***************************************************************************)
LEMMA Asked ==
  ASSUME IInv, NEW p \in Pipelines, stage[p] = "respond"
  PROVE  /\ at[p] \in 1..Len(Order)
         /\ Order[at[p]] \in Urls
         /\ at[p] + 1 \in Nat \ {0}
         /\ \A u \in Urls : served[p][u] <= Listed(u, (at[p] + 1) - 1)
<1>1. at[p] \in 0..Len(Order) /\ at[p] # 0
  BY DEF IInv, TypeOK, AskedUrl
<1>2. /\ at[p] \in 1..Len(Order) /\ at[p] \in Nat \ {0}
      /\ at[p] - 1 \in Nat /\ (at[p] + 1) - 1 = at[p]
  BY <1>1, OrderProperties
<1>3. ASSUME NEW u \in Urls
      PROVE  served[p][u] <= Listed(u, at[p])
  <2>1. /\ Listed(u, at[p] - 1) \in Nat /\ Listed(u, at[p]) \in Nat
        /\ Listed(u, at[p] - 1) <= Listed(u, at[p])
    BY <1>2, PlacesFinite, ListedGrows
  <2>2. /\ served[p][u] \in Nat
        /\ served[p][u] <= Listed(u, at[p] - 1) + IF taken[p] /\ Order[at[p]] = u THEN 1 ELSE 0
    BY DEF IInv, TypeOK, ServedAsListed, Allowed
  <2>3. CASE taken[p] /\ Order[at[p]] = u
    <3>1. Listed(u, at[p]) = Listed(u, at[p] - 1) + 1
      BY <1>2, <2>3, ListedOnceMore
    <3> QED
      BY <2>1, <2>2, <2>3, <3>1
  <2>4. CASE ~(taken[p] /\ Order[at[p]] = u)
    <3>1. served[p][u] <= Listed(u, at[p] - 1) + 0
      BY <2>2, <2>4
    <3> QED
      BY <2>1, <2>2, <3>1
  <2> QED
    BY <2>3, <2>4
<1> QED
  BY <1>1, <1>2, <1>3, OrderProperties

LEMMA StartKeepsIInv ==
  ASSUME IInv, NEW p \in Pipelines, Start(p)
  PROVE  IInv'
<1>1. /\ PipelineTypes /\ Hands /\ Breakers /\ Filter
      /\ UNCHANGED breakerVars /\ UNCHANGED filterVars
  BY Parts DEF Start
<1>2. PipelineTypes'
  BY <1>1 DEF PipelineTypes, Start, Stages
<1>3. Hands'
  BY <1>1, WaitingKeepsHands DEF Start
<1> QED
  BY <1>1, <1>2, <1>3, BreakersKept, FilterKept, PartsAfter

LEMMA DismissKeepsIInv ==
  ASSUME IInv, NEW p \in Pipelines, Dismiss(p)
  PROVE  IInv'
<1>1. /\ TypeOK /\ Breakers /\ Filter
      /\ UNCHANGED breakerVars /\ UNCHANGED filterVars
  BY Parts DEF IInv, Dismiss
<1>2. PipelineTypes' /\ Hands'
  BY <1>1, EndMoves, LeavingKeepsPipelines DEF Dismiss
<1> QED
  BY <1>1, <1>2, BreakersKept, FilterKept, PartsAfter

LEMMA PassKeepsIInv ==
  ASSUME IInv, NEW p \in Pipelines, Pass(p)
  PROVE  IInv'
<1>1. PipelineTypes /\ Hands /\ Breakers /\ Filter /\ UNCHANGED breakerVars
  BY Parts DEF Pass
<1>2. PipelineTypes'
  BY <1>1 DEF PipelineTypes, Pass, Stages, Plans
<1>3. Hands'
  BY <1>1, WaitingKeepsHands DEF Pass
<1>4. Filter'
  <2>1. /\ seen' = [seen EXCEPT ![key[p]] = TRUE]
        /\ passed' = [passed EXCEPT ![key[p]] = passed[key[p]] + 1]
        /\ ~seen[key[p]]
    BY DEF Pass
  <2>2. \A k \in Keys : passed[k] \in Nat /\ seen[k] \in BOOLEAN
    BY <1>1 DEF Filter
  <2>3. seen' \in [Keys -> BOOLEAN] /\ passed' \in [Keys -> Nat]
    <3>1. seen' \in [Keys -> BOOLEAN]
      BY <1>1, <2>1 DEF Filter
    <3>2. passed' \in [Keys -> Nat]
      <4>1. CASE key[p] \in Keys
        <5>1. passed[key[p]] + 1 \in Nat
          BY <2>2, <4>1
        <5> QED
          BY <1>1, <2>1, <5>1 DEF Filter
      <4>2. CASE key[p] \notin Keys
        BY <1>1, <2>1, <4>2 DEF Filter
      <4> QED
        BY <4>1, <4>2
    <3> QED
      BY <3>1, <3>2
  <2>4. ASSUME NEW k \in Keys
        PROVE  passed'[k] <= (IF seen'[k] THEN 1 ELSE 0)
    <3>1. passed[k] <= (IF seen[k] THEN 1 ELSE 0)
      BY <1>1 DEF Filter, WindowCounts
    <3>2. CASE k = key[p]
      BY <1>1, <2>1, <2>2, <3>1, <3>2 DEF Filter
    <3>3. CASE k # key[p]
      BY <1>1, <2>1, <3>1, <3>3 DEF Filter
    <3> QED
      BY <3>2, <3>3
  <2> QED
    BY <2>3, <2>4 DEF Filter, WindowCounts
<1> QED
  BY <1>1, <1>2, <1>3, <1>4, BreakersKept, PartsAfter

LEMMA ExpireKeepsIInv ==
  ASSUME IInv, NEW k \in Keys, Expire(k)
  PROVE  IInv'
<1>1. /\ PipelineTypes /\ Hands /\ Breakers /\ Filter
      /\ UNCHANGED pipelineVars /\ UNCHANGED breakerVars
  BY Parts DEF Expire
<1>2. Filter'
  BY <1>1 DEF Filter, WindowCounts, Expire
<1> QED
  BY <1>1, <1>2, PipelinesKept, BreakersKept, PartsAfter

LEMMA WithoutRetraining ==
  ASSUME NEW wanted \in Plans
  PROVE  [wanted EXCEPT !.retrain = FALSE] \in Plans
BY DEF Plans

LEMMA CorrelateKeepsIInv ==
  ASSUME IInv, NEW p \in Pipelines, Correlate(p)
  PROVE  IInv'
<1>1. /\ TypeOK /\ PipelineTypes /\ Hands /\ Breakers /\ Filter
      /\ UNCHANGED <<failures, cooled>> /\ UNCHANGED filterVars
  BY Parts DEF IInv, Correlate
<1>2. PICK wanted \in {plan[p], [plan[p] EXCEPT !.retrain = FALSE]} :
        \/ Try(p, 1, circuit, wanted)
        \/ Proceed(p, wanted) /\ UNCHANGED <<at, probe, taken, circuit>>
  BY DEF Correlate
<1>3. wanted \in Plans
  BY <1>1, WithoutRetraining DEF PipelineTypes
<1>4. PipelineTypes' /\ Hands' /\ Breakers'
  <2>1. CASE Try(p, 1, circuit, wanted)
    <3>1. \A u \in Urls : served[p][u] <= Listed(u, 1 - 1)
      <4>1. \A u \in Urls : served[p][u] = 0
        BY <1>1 DEF Correlate, Hands, Unserved
      <4>2. \A u \in Urls : Listed(u, 1 - 1) \in Nat
        BY PlacesFinite
      <4> QED
        BY <4>1, <4>2
    <3>2. circuit \in Circuits
      BY <1>1 DEF Breakers
    <3>3. PipelineTypes' /\ Hands'
      BY <1>1, <1>3, <2>1, <3>1, <3>2, TryKeepsHands
    <3>4. circuit' \in Circuits /\ \A u \in Urls : circuit'[u] = "CLOSED" <=> circuit[u] = "CLOSED"
      BY <2>1, <3>2 DEF Try, Circuits
    <3>5. Breakers'
      BY <1>1, <3>4 DEF Breakers, BreakerCounts
    <3> QED
      BY <3>3, <3>5
  <2>2. CASE Proceed(p, wanted) /\ UNCHANGED <<at, probe, taken, circuit>>
    <3>1. PipelineTypes' /\ Hands'
      BY <1>1, <1>3, <2>2, ProceedMoves, LeavingKeepsPipelines
    <3>2. Breakers'
      BY <1>1, <2>2, BreakersKept DEF breakerVars
    <3> QED
      BY <3>1, <3>2
  <2> QED
    BY <1>2, <2>1, <2>2
<1> QED
  BY <1>1, <1>4, FilterKept, PartsAfter

LEMMA ServeKeepsIInv ==
  ASSUME IInv, NEW p \in Pipelines, Serve(p)
  PROVE  IInv'
<1> DEFINE u == Order[at[p]]
<1>1. /\ PipelineTypes /\ Hands /\ Breakers /\ Filter
      /\ UNCHANGED breakerVars /\ UNCHANGED filterVars
      /\ stage[p] = "respond" /\ ~taken[p] /\ UNCHANGED <<stage, at>>
  BY Parts DEF Serve
<1>2. at[p] \in 1..Len(Order) /\ u \in Urls
  BY <1>1, Asked
<1>3. served[p] \in [Urls -> Nat]
  BY <1>1 DEF PipelineTypes
<1>4. /\ \A q \in Pipelines \ {p} : served'[q] = served[q] /\ taken'[q] = taken[q]
      /\ taken'[p]
      /\ served'[p] = [served[p] EXCEPT ![u] = served[p][u] + 1]
  BY <1>1 DEF PipelineTypes, Serve
<1>5. PipelineTypes'
  BY <1>1, <1>2, <1>3 DEF PipelineTypes, Serve
<1>6. AskedUrl' /\ Unserved'
  BY <1>1, <1>4 DEF Hands, AskedUrl, Unserved
<1>7. ServedAsListed'
  <2> SUFFICES ASSUME NEW q \in Pipelines, NEW v \in Urls
               PROVE  served'[q][v] <= Allowed(q, v)'
    BY DEF ServedAsListed
  <2>1. CASE q # p
    <3>1. Allowed(q, v)' = Allowed(q, v)
      BY <1>1, <1>4, <2>1, AllowedKept
    <3> QED
      BY <1>1, <1>4, <2>1, <3>1 DEF Hands, ServedAsListed
  <2>2. CASE q = p
    <3>1. Allowed(p, v) = Listed(v, at[p] - 1) + 0
      BY <1>1 DEF Allowed
    <3>2. Allowed(p, v)' = Listed(v, at[p] - 1) + (IF u = v THEN 1 ELSE 0)
      BY <1>1, <1>4 DEF Allowed, Listed
    <3>3. Listed(v, at[p] - 1) \in Nat
      <4>1. at[p] - 1 \in Nat
        BY <1>2, OrderProperties
      <4> QED
        BY <4>1, PlacesFinite
    <3>4. served[p][v] \in Nat /\ served[p][v] <= Listed(v, at[p] - 1) + 0
      BY <1>1, <1>3, <3>1 DEF Hands, ServedAsListed
    <3>5. served'[p][v] = IF u = v THEN served[p][v] + 1 ELSE served[p][v]
      BY <1>2, <1>3, <1>4
    <3> HIDE DEF u
    <3>6. served'[p][v] <= Listed(v, at[p] - 1) + (IF u = v THEN 1 ELSE 0)
      BY <3>3, <3>4, <3>5
    <3> QED
      BY <2>2, <3>2, <3>6
  <2> QED
    BY <2>1, <2>2
<1> QED
  BY <1>1, <1>5, <1>6, <1>7, BreakersKept, FilterKept, PartsAfter DEF Hands

LEMMA AnsweredKeepsIInv ==
  ASSUME IInv, NEW p \in Pipelines, Answered(p)
  PROVE  IInv'
<1> DEFINE u == Order[at[p]]
<1>1. /\ TypeOK /\ PipelineTypes /\ Hands /\ Breakers /\ Filter
      /\ UNCHANGED filterVars /\ stage[p] = "respond"
      /\ at' = [at EXCEPT ![p] = 0]
      /\ probe' = [probe EXCEPT ![p] = FALSE]
      /\ taken' = [taken EXCEPT ![p] = FALSE]
  BY Parts DEF IInv, Answered
<1>2. u \in Urls
  BY <1>1, Asked
<1>3. plan[p] \in Plans
  BY <1>1 DEF TypeOK
<1>4. PICK next \in {"idle", "retrain", "playbook"} : Moved(p, next)
  BY <1>1, <1>3, ProceedMoves DEF Answered
<1>5. PipelineTypes'
  BY <1>1, <1>4, MoveTypes, OrderProperties DEF TypeOK, PipelineTypes, Stages
<1>6. Hands'
  <2>1. \A q \in Pipelines \ {p} : at'[q] = at[q] /\ taken'[q] = taken[q]
    BY <1>1 DEF TypeOK
  <2> QED
    BY <1>1, <1>4, <2>1, LeavingKeepsHands
<1>7. Breakers'
  <2>1. /\ failures' = [failures EXCEPT ![u] = 0]
        /\ circuit' = [circuit EXCEPT ![u] = "CLOSED"]
        /\ cooled' = cooled
    BY DEF Answered, Success
  <2> QED
    BY <1>1, <1>2, <2>1, ThresholdAssumption DEF Breakers, BreakerCounts, Circuits
<1> QED
  BY <1>1, <1>5, <1>6, <1>7, FilterKept, PartsAfter

(***************************************************************************)
(* A call of u that ends badly: the counts become fs and the circuits c,   *)
(* and the next URL is tried.                                              *)
(***************************************************************************)
LEMMA BadEndKeepsIInv ==
  ASSUME IInv, NEW p \in Pipelines, stage[p] = "respond",
         NEW u \in Urls, NEW c \in Circuits,
         failures' \in [Urls -> 0..Threshold],
         \A v \in Urls : c[v] = "CLOSED" <=> failures'[v] < Threshold,
         cooled' = [cooled EXCEPT ![u] = FALSE],
         Try(p, at[p] + 1, c, plan[p]),
         UNCHANGED filterVars
  PROVE  IInv'
<1>1. TypeOK /\ Hands /\ Breakers /\ Filter
  BY Parts DEF IInv
<1>2. plan[p] \in Plans
  BY <1>1 DEF TypeOK
<1>3. PipelineTypes' /\ Hands'
  BY <1>1, <1>2, Asked, TryKeepsHands
<1>4. Breakers'
  <2>1. /\ circuit' \in Circuits
        /\ \A v \in Urls : circuit'[v] = "CLOSED" <=> c[v] = "CLOSED"
    BY TryKeepsClosed, Zenon
  <2>2. cooled' \in [Urls -> BOOLEAN]
    BY <1>1 DEF Breakers
  <2> QED
    BY <2>1, <2>2 DEF Breakers, BreakerCounts, Circuits
<1> QED
  BY <1>1, <1>3, <1>4, FilterKept, PartsAfter

LEMMA FailedKeepsIInv ==
  ASSUME IInv, NEW p \in Pipelines, Failed(p)
  PROVE  IInv'
<1> DEFINE u == Order[at[p]]
<1>1. /\ stage[p] = "respond"
      /\ failures' = Failure(u)
      /\ cooled' = [cooled EXCEPT ![u] = FALSE]
      /\ Try(p, at[p] + 1, Tripped(u), plan[p])
      /\ UNCHANGED filterVars
  BY DEF Failed
<1>2. u \in Urls
  BY <1>1, Asked
<1>3. Failure(u) \in [Urls -> 0..Threshold] /\ Tripped(u) \in Circuits
  BY <1>2, FailureType DEF IInv
<1>4. \A v \in Urls : Tripped(u)[v] = "CLOSED" <=> Failure(u)[v] < Threshold
  BY <1>2, ThresholdAssumption DEF IInv, TypeOK, BreakerCounts, Tripped, Failure, OneMore
<1> QED
  BY <1>1, <1>2, <1>3, <1>4, BadEndKeepsIInv

LEMMA UnreadableKeepsIInv ==
  ASSUME IInv, NEW p \in Pipelines, Unreadable(p)
  PROVE  IInv'
<1> DEFINE u == Order[at[p]]
           c == [circuit EXCEPT ![u] = IF Threshold = 1 THEN "OPEN" ELSE "CLOSED"]
<1>1. /\ stage[p] = "respond"
      /\ failures' = [failures EXCEPT ![u] = 1]
      /\ cooled' = [cooled EXCEPT ![u] = FALSE]
      /\ Try(p, at[p] + 1, c, plan[p])
      /\ UNCHANGED filterVars
  BY DEF Unreadable
<1>2. u \in Urls
  BY <1>1, Asked
<1>3. c \in Circuits
  BY <1>2 DEF IInv, TypeOK, Circuits
<1>4. failures' \in [Urls -> 0..Threshold]
  BY <1>1, <1>2, ThresholdAssumption DEF IInv, TypeOK
<1>5. \A v \in Urls : c[v] = "CLOSED" <=> failures'[v] < Threshold
  BY <1>1, <1>2, ThresholdAssumption DEF IInv, TypeOK, BreakerCounts
<1> HIDE DEF u, c
<1> QED
  BY <1>1, <1>2, <1>3, <1>4, <1>5, BadEndKeepsIInv

LEMMA CoolKeepsIInv ==
  ASSUME IInv, NEW u \in Urls, Cool(u)
  PROVE  IInv'
<1>1. /\ PipelineTypes /\ Hands /\ Breakers /\ Filter
      /\ UNCHANGED pipelineVars /\ UNCHANGED filterVars
      /\ UNCHANGED <<failures, circuit>>
      /\ cooled' = [cooled EXCEPT ![u] = TRUE]
  BY Parts DEF Cool
<1>2. Breakers'
  BY <1>1 DEF Breakers, BreakerCounts, Circuits
<1> QED
  BY <1>1, <1>2, PipelinesKept, FilterKept, PartsAfter

LEMMA RetrainedKeepsIInv ==
  ASSUME IInv, NEW p \in Pipelines, Retrained(p)
  PROVE  IInv'
<1>1. /\ TypeOK /\ Breakers /\ Filter
      /\ UNCHANGED breakerVars /\ UNCHANGED filterVars
      /\ Proceed(p, [plan[p] EXCEPT !.retrain = FALSE])
      /\ UNCHANGED <<at, probe, taken>>
  BY Parts DEF IInv, Retrained
<1>2. [plan[p] EXCEPT !.retrain = FALSE] \in Plans
  BY <1>1, WithoutRetraining DEF TypeOK
<1>3. PipelineTypes' /\ Hands'
  BY <1>1, <1>2, ProceedMoves, LeavingKeepsPipelines
<1> QED
  BY <1>1, <1>3, BreakersKept, FilterKept, PartsAfter

LEMMA PublishKeepsIInv ==
  ASSUME IInv, NEW p \in Pipelines, Publish(p)
  PROVE  IInv'
<1>1. /\ TypeOK /\ Breakers /\ Filter
      /\ UNCHANGED breakerVars /\ UNCHANGED filterVars
  BY Parts DEF IInv, Publish
<1>2. PipelineTypes' /\ Hands'
  BY <1>1, EndMoves, LeavingKeepsPipelines DEF Publish
<1> QED
  BY <1>1, <1>2, BreakersKept, FilterKept, PartsAfter
-----------------------------------------------------------------------------
LEMMA InitEstablishes == Init => IInv
<1> SUFFICES ASSUME Init PROVE IInv
  OBVIOUS
<1>1. TypeOK
  BY ThresholdAssumption, OrderProperties, ZeroType
     DEF Init, TypeOK, Stages, Plans, NoPlan, Zero
<1>2. BreakerCounts
  BY ThresholdAssumption DEF Init, BreakerCounts
<1>3. WindowCounts /\ AskedUrl
  BY DEF Init, WindowCounts, AskedUrl
<1>4. Unserved
  BY DEF Init, Unserved
<1>5. ServedAsListed
  BY PlacesFinite, OrderProperties DEF Init, ServedAsListed, Allowed
<1> QED
  BY <1>1, <1>2, <1>3, <1>4, <1>5 DEF IInv

LEMMA StepPreserves == IInv /\ [Next]_vars => IInv'
<1> SUFFICES ASSUME IInv, [Next]_vars PROVE IInv'
  OBVIOUS
<1>1. CASE \E p \in Pipelines : Start(p) \/ Serve(p)
  BY <1>1, StartKeepsIInv, ServeKeepsIInv
<1>2. CASE \E p \in Pipelines : Step(p)
  BY <1>2, DismissKeepsIInv, PassKeepsIInv, CorrelateKeepsIInv, AnsweredKeepsIInv,
     FailedKeepsIInv, UnreadableKeepsIInv, RetrainedKeepsIInv, PublishKeepsIInv DEF Step
<1>3. CASE \E u \in Urls : Cool(u)
  BY <1>3, CoolKeepsIInv
<1>4. CASE \E k \in Keys : Expire(k)
  BY <1>4, ExpireKeepsIInv
<1>5. CASE UNCHANGED vars
  BY <1>5, Parts, PartsAfter, PipelinesKept, BreakersKept, FilterKept DEF vars
<1> QED
  BY <1>1, <1>2, <1>3, <1>4, <1>5 DEF Next

\* The inductive invariant holds in every reachable state of the orchestrator.
THEOREM InductiveInvariant == Spec => []IInv
BY InitEstablishes, StepPreserves, PTL DEF Spec

(***************************************************************************)
(* A circuit is closed exactly while its failures stay below the           *)
(* threshold, for every number of pipelines, URLs and failures.            *)
(***************************************************************************)
THEOREM BreakersCountFailures == Spec => []BreakerCounts
<1>1. IInv => BreakerCounts
  BY DEF IInv
<1> QED
  BY <1>1, InductiveInvariant, PTL

\* One alert of a key passes the filter in a window.
THEOREM OneAlertPerWindow == Spec => []OncePerWindow
<1>1. IInv => OncePerWindow
  BY DEF IInv, TypeOK, WindowCounts, OncePerWindow
<1> QED
  BY <1>1, InductiveInvariant, PTL

(***************************************************************************)
(* A service takes the alert of a pipeline at most as often as the list    *)
(* names it up to the place that is asked, for every list and any number   *)
(* of pipelines, failures and late answers.                                *)
(***************************************************************************)
THEOREM ServicesTakeWhatIsListed == Spec => []ServedAsListed
<1>1. IInv => ServedAsListed
  BY DEF IInv
<1> QED
  BY <1>1, InductiveInvariant, PTL

(***************************************************************************)
(* So failover repeats an alert to a service only when the list repeats    *)
(* the service: one service is repeated when LAYER3_URL equals the default *)
(* of a fallback of Layer 3, and none when all the URLs are different.     *)
(***************************************************************************)
ListedTwice(u) == \E i, j \in 1..Len(Order) : i # j /\ Order[i] = u /\ Order[j] = u

TwiceOnlyIfListedTwice ==
  \A p \in Pipelines, u \in Urls : served[p][u] > 1 => ListedTwice(u)

LEMMA ListedOnce ==
  ASSUME NEW u \in Urls, ~ListedTwice(u)
  PROVE  Listed(u, Len(Order)) <= 1
<1> DEFINE P == Places(u, Len(Order))
<1>0. Len(Order) \in Nat
  BY OrderProperties
<1>1. IsFiniteSet(P) /\ Listed(u, Len(Order)) = Cardinality(P)
  BY <1>0, PlacesFinite
<1>2. CASE P = {}
  BY <1>1, <1>2, FS_EmptySet
<1>3. ASSUME NEW i \in P
      PROVE  Listed(u, Len(Order)) <= 1
  <2>1. P = {i}
    BY DEF Places, ListedTwice
  <2>2. Cardinality({i}) = 1
    BY FS_Singleton
  <2> QED
    BY <1>1, <2>1, <2>2
<1> QED
  BY <1>2, <1>3

THEOREM TwiceOnlyWhereListedTwice == Spec => []TwiceOnlyIfListedTwice
<1>1. IInv => TwiceOnlyIfListedTwice
  <2> SUFFICES ASSUME IInv, NEW p \in Pipelines, NEW u \in Urls,
                      served[p][u] > 1, ~ListedTwice(u)
               PROVE  FALSE
    BY DEF TwiceOnlyIfListedTwice
  <2>1. Listed(u, Len(Order)) \in Nat /\ Listed(u, Len(Order)) <= 1
    BY ListedOnce, PlacesFinite, OrderProperties
  <2>2. served[p][u] \in Nat /\ served[p][u] <= Allowed(p, u)
    BY DEF IInv, TypeOK, ServedAsListed
  <2>3. Allowed(p, u) <= Listed(u, Len(Order))
    BY AllowedBound DEF IInv
  <2>4. Allowed(p, u) \in Nat
    BY AllowedType DEF IInv
  <2> QED
    BY <2>1, <2>2, <2>3, <2>4
<1> QED
  BY <1>1, InductiveInvariant, PTL
-----------------------------------------------------------------------------
(***************************************************************************)
(* A step of p that leaves half-open only circuits another pipeline tests, *)
(* and then goes on with Try, which tests the circuit it takes.            *)
(***************************************************************************)
LEMMA TryTests ==
  ASSUME TypeOK, NEW p \in Pipelines, NEW wanted \in Plans, NEW i \in Nat \ {0},
         NEW c \in Circuits, Try(p, i, c, wanted),
         \A v \in Urls : c[v] = "HALF_OPEN" => \E q \in Pipelines \ {p} : Tests(q, v)
  PROVE  HalfOpenIsTested'
<1> SUFFICES ASSUME NEW v \in Urls, circuit'[v] = "HALF_OPEN"
             PROVE  \E q \in Pipelines : Tests(q, v)'
  BY DEF HalfOpenIsTested
<1>1. ASSUME NEW q \in Pipelines \ {p}
      PROVE  stage'[q] = stage[q] /\ at'[q] = at[q] /\ probe'[q] = probe[q]
  BY DEF Try, Proceed, Go, End, TypeOK
<1>2. CASE c[v] = "HALF_OPEN"
  BY <1>1, <1>2 DEF Tests
<1>3. CASE c[v] # "HALF_OPEN"
  <2>1. circuit' # c
    BY <1>3
  <2>2. PICK j \in Permitted(c, i) :
          /\ Go(p, "respond", wanted)
          /\ at' = [at EXCEPT ![p] = j]
          /\ probe' = [probe EXCEPT ![p] = c[Order[j]] # "CLOSED"]
          /\ circuit' = [c EXCEPT ![Order[j]] =
                           IF c[Order[j]] = "OPEN" THEN "HALF_OPEN" ELSE c[Order[j]]]
    BY <2>1 DEF Try
  <2>3. j \in i..Len(Order)
    BY DEF Permitted
  <2>4. Order[j] \in Urls
    BY <2>3, OrderProperties
  <2>5. v = Order[j] /\ c[v] = "OPEN"
    BY <1>3, <2>2, <2>4 DEF Circuits
  <2>6. stage'[p] = "respond" /\ at'[p] = j /\ probe'[p] = TRUE
    BY <2>2, <2>5 DEF Go, TypeOK
  <2>7. j # 0
    BY <2>3, OrderProperties
  <2> QED
    BY <2>5, <2>6, <2>7 DEF Tests
<1> QED
  BY <1>2, <1>3

\* The circuits stay, and so does every pipeline that awaits Layer 3.
LEMMA StillTested ==
  ASSUME HalfOpenIsTested, UNCHANGED circuit,
         \A q \in Pipelines : stage[q] = "respond" =>
           stage'[q] = "respond" /\ at'[q] = at[q] /\ probe'[q] = probe[q]
  PROVE  HalfOpenIsTested'
BY DEF HalfOpenIsTested, Tests

\* The call that ends was about u, so who tests another URL is another pipeline.
LEMMA TestedByOthers ==
  ASSUME IInv, HalfOpenIsTested, NEW p \in Pipelines, NEW v \in Urls,
         circuit[v] = "HALF_OPEN", stage[p] = "respond" => v # Order[at[p]]
  PROVE  \E q \in Pipelines \ {p} : Tests(q, v)
BY DEF HalfOpenIsTested, Tests

LEMMA QuietKeepsTested ==
  ASSUME IInv, HalfOpenIsTested, NEW p \in Pipelines,
         Start(p) \/ Dismiss(p) \/ Pass(p) \/ Serve(p) \/ Retrained(p) \/ Publish(p)
  PROVE  HalfOpenIsTested'
<1>1. UNCHANGED <<circuit, at, probe>>
  BY DEF Start, Dismiss, Pass, Serve, Retrained, Publish, breakerVars
<1>2. ASSUME NEW q \in Pipelines, stage[q] = "respond" PROVE stage'[q] = "respond"
  BY <1>2 DEF IInv, TypeOK, Start, Dismiss, Pass, Serve, Retrained, Publish, Proceed, Go, End
<1> QED
  BY <1>1, <1>2, StillTested

LEMMA CorrelateKeepsTested ==
  ASSUME IInv, HalfOpenIsTested, NEW p \in Pipelines, Correlate(p)
  PROVE  HalfOpenIsTested'
<1>1. TypeOK /\ stage[p] = "correlate" /\ circuit \in Circuits
  BY DEF IInv, TypeOK, Correlate, Circuits
<1>2. PICK wanted \in {plan[p], [plan[p] EXCEPT !.retrain = FALSE]} :
        \/ Try(p, 1, circuit, wanted)
        \/ Proceed(p, wanted) /\ UNCHANGED <<at, probe, taken, circuit>>
  BY DEF Correlate
<1>3. wanted \in Plans
  BY <1>1, WithoutRetraining DEF TypeOK
<1>4. CASE Try(p, 1, circuit, wanted)
  BY <1>1, <1>3, <1>4, TestedByOthers, TryTests
<1>5. CASE Proceed(p, wanted) /\ UNCHANGED <<at, probe, taken, circuit>>
  <2>1. ASSUME NEW q \in Pipelines, stage[q] = "respond" PROVE stage'[q] = "respond"
    BY <1>1, <1>5, <2>1 DEF TypeOK, Proceed, Go, End
  <2> QED
    BY <1>5, <2>1, StillTested
<1> QED
  BY <1>2, <1>4, <1>5

LEMMA AnsweredKeepsTested ==
  ASSUME IInv, HalfOpenIsTested, NEW p \in Pipelines, Answered(p)
  PROVE  HalfOpenIsTested'
<1> DEFINE u == Order[at[p]]
<1>1. TypeOK /\ stage[p] = "respond" /\ u \in Urls
  BY Asked DEF IInv, Answered
<1>2. /\ circuit' = [circuit EXCEPT ![u] = "CLOSED"]
      /\ at' = [at EXCEPT ![p] = 0]
      /\ probe' = [probe EXCEPT ![p] = FALSE]
  BY DEF Answered
<1>3. \A q \in Pipelines \ {p} : stage'[q] = stage[q] /\ at'[q] = at[q] /\ probe'[q] = probe[q]
  BY <1>1, <1>2 DEF Answered, Proceed, Go, End, TypeOK
<1>4. ASSUME NEW v \in Urls, circuit'[v] = "HALF_OPEN"
      PROVE  \E q \in Pipelines : Tests(q, v)'
  <2>1. v # u /\ circuit[v] = "HALF_OPEN"
    BY <1>1, <1>2, <1>4 DEF TypeOK
  <2>2. PICK q \in Pipelines \ {p} : Tests(q, v)
    BY <2>1, TestedByOthers
  <2> QED
    BY <1>3, <2>2 DEF Tests
<1> QED
  BY <1>4 DEF HalfOpenIsTested

\* A call that ends badly does not leave its own circuit half-open.
LEMMA BadEndKeepsTested ==
  ASSUME IInv, HalfOpenIsTested, NEW p \in Pipelines, stage[p] = "respond", NEW c \in Circuits,
         c[Order[at[p]]] # "HALF_OPEN",
         \A v \in Urls \ {Order[at[p]]} : c[v] = circuit[v],
         Try(p, at[p] + 1, c, plan[p])
  PROVE  HalfOpenIsTested'
<1>1. TypeOK /\ plan[p] \in Plans
  BY DEF IInv, TypeOK
<1>2. ASSUME NEW v \in Urls, c[v] = "HALF_OPEN"
      PROVE  \E q \in Pipelines \ {p} : Tests(q, v)
  <2>1. v # Order[at[p]] /\ circuit[v] = "HALF_OPEN"
    BY <1>2
  <2> QED
    BY <2>1, TestedByOthers
<1> QED
  BY <1>1, <1>2, Asked, TryTests

LEMMA FailedKeepsTested ==
  ASSUME IInv, HalfOpenIsTested, NEW p \in Pipelines, Failed(p)
  PROVE  HalfOpenIsTested'
<1> DEFINE u == Order[at[p]]
<1>1. stage[p] = "respond" /\ Try(p, at[p] + 1, Tripped(u), plan[p])
  BY DEF Failed
<1>2. u \in Urls
  BY <1>1, Asked
<1>3. Tripped(u) \in Circuits
  BY <1>2, FailureType DEF IInv
<1>4. Tripped(u)[u] # "HALF_OPEN" /\ \A v \in Urls \ {u} : Tripped(u)[v] = circuit[v]
  <2>1. circuit[u] = "CLOSED" \/ OneMore(u) >= Threshold
    BY <1>2, ThresholdAssumption DEF IInv, TypeOK, BreakerCounts, OneMore
  <2> QED
    BY <1>2, <2>1 DEF IInv, TypeOK, Tripped
<1> HIDE DEF u
<1> QED
  BY <1>1, <1>3, <1>4, BadEndKeepsTested DEF u

LEMMA UnreadableKeepsTested ==
  ASSUME IInv, HalfOpenIsTested, NEW p \in Pipelines, Unreadable(p)
  PROVE  HalfOpenIsTested'
<1> DEFINE u == Order[at[p]]
           c == [circuit EXCEPT ![u] = IF Threshold = 1 THEN "OPEN" ELSE "CLOSED"]
<1>1. stage[p] = "respond" /\ Try(p, at[p] + 1, c, plan[p])
  BY DEF Unreadable
<1>2. u \in Urls
  BY <1>1, Asked
<1>3. c \in Circuits /\ c[u] # "HALF_OPEN" /\ \A v \in Urls \ {u} : c[v] = circuit[v]
  BY <1>2 DEF IInv, TypeOK, Circuits
<1> HIDE DEF c
<1> QED
  BY <1>1, <1>3, BadEndKeepsTested

LEMMA StepKeepsTested == IInv /\ HalfOpenIsTested /\ [Next]_vars => HalfOpenIsTested'
<1> SUFFICES ASSUME IInv, HalfOpenIsTested, [Next]_vars PROVE HalfOpenIsTested'
  OBVIOUS
<1>1. CASE \E p \in Pipelines : Start(p) \/ Serve(p) \/ Step(p)
  BY <1>1, QuietKeepsTested, CorrelateKeepsTested, AnsweredKeepsTested, FailedKeepsTested,
     UnreadableKeepsTested DEF Step
<1>2. CASE \E u \in Urls : Cool(u)
  BY <1>2, StillTested DEF Cool, pipelineVars
<1>3. CASE \E k \in Keys : Expire(k)
  BY <1>3, StillTested DEF Expire, pipelineVars, breakerVars
<1>4. CASE UNCHANGED vars
  BY <1>4, StillTested DEF vars, pipelineVars, breakerVars
<1> QED
  BY <1>1, <1>2, <1>3, <1>4 DEF Next

(***************************************************************************)
(* A half-open circuit has a test under way, for any number of pipelines   *)
(* that were let through before it opened and report after.                *)
(***************************************************************************)
THEOREM HalfOpenCircuitsAreTested == Spec => []HalfOpenIsTested
<1>1. Init => HalfOpenIsTested
  BY DEF Init, HalfOpenIsTested
<1> QED
  BY <1>1, InductiveInvariant, StepKeepsTested, PTL DEF Spec
=============================================================================
