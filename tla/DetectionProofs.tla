---------------------------- MODULE DetectionProofs ----------------------------
(***************************************************************************)
(* Theorems about the similarity index (FaissIndex) and the Layer 1 server *)
(* (Detection), for all bodies, logs, events and sizes, and, for all their *)
(* inputs, about the relevance analyzer of Layer 1 (Relevance) and the     *)
(* stage and the path that Layer 2 answers (AttackStage).                  *)
(***************************************************************************)
EXTENDS Detection, Relevance, AttackStage, TLAPS

(***************************************************************************)
(* The index and its two files.                                            *)
(***************************************************************************)
LEMMA FileTypes ==
  /\ Missing \in Files
  /\ \A f \in BOOLEAN, v \in Vectors, r \in BOOLEAN : Written(f, v, r) \in Files
  /\ <<>> \in Vectors
BY DEF Missing, Written, Files, Vectors

LEMMA IndexInitInv == IndexInit => IndexTypeOK /\ IndexInv
<1> SUFFICES ASSUME IndexInit PROVE IndexTypeOK /\ IndexInv
  OBVIOUS
<1>1. 0 \in 0..MaxVectors
  BY SizesAssumption
<1>2. IndexTypeOK
  BY <1>1, FileTypes DEF IndexInit, IndexTypeOK
<1> QED BY <1>2 DEF IndexInit, IndexInv, Aligned, FilesAgree, Missing

LEMMA OpenInv ==
  ASSUME IndexTypeOK, IndexInv, NEW who \in {"builder", "server"}, Open(who)
  PROVE  IndexTypeOK' /\ IndexInv'
<1>1. IndexTypeOK'
  <2>1. flat' \in BOOLEAN /\ replaced' \in BOOLEAN
    BY DEF IndexTypeOK, Open, Files
  <2>2. index' \in Vectors /\ metadata' \in Vectors
    BY FileTypes DEF IndexTypeOK, Open, Files
  <2> QED BY <2>1, <2>2 DEF IndexTypeOK, Open
<1>2. ~saving
  BY DEF IndexTypeOK, Open
<1>3. FilesAgree'
  BY <1>2 DEF IndexInv, FilesAgree, Open
<1>4. Aligned'
  BY <1>2 DEF IndexInv, Aligned, FilesAgree, Open
<1> QED BY <1>1, <1>3, <1>4 DEF IndexInv

LEMMA AddNormalInv ==
  ASSUME IndexTypeOK, IndexInv, AddNormal
  PROVE  IndexTypeOK' /\ IndexInv'
<1>1. added \in 0..(MaxVectors - 1) /\ added' \in 0..MaxVectors
  BY SizesAssumption DEF IndexTypeOK, AddNormal
<1>2. index' \in Vectors /\ metadata' \in Vectors
  BY <1>1 DEF IndexTypeOK, AddNormal, Vectors
<1>3. IndexTypeOK'
  BY <1>1, <1>2 DEF IndexTypeOK, AddNormal
<1>4. Aligned' /\ FilesAgree'
  BY DEF IndexInv, Aligned, FilesAgree, AddNormal
<1> QED BY <1>3, <1>4 DEF IndexInv

LEMMA BulkAddInv ==
  ASSUME IndexTypeOK, IndexInv, NEW n \in BulkSizes, BulkAddNormal(n)
  PROVE  IndexTypeOK' /\ IndexInv'
<1> DEFINE new == [i \in 1..n |-> added + i - 1]
           upgrade == n >= NList /\ flat
<1>1. n \in Nat /\ added \in Nat /\ added + n <= MaxVectors /\ MaxVectors \in Nat
  BY SizesAssumption DEF IndexTypeOK, BulkAddNormal
<1>2. new \in Vectors
  BY <1>1 DEF Vectors
<1>3. /\ added' = added + n
      /\ index' = IF upgrade THEN new ELSE index \o new
      /\ metadata' = metadata \o new
      /\ replaced' = (replaced \/ (upgrade /\ index # <<>>))
      /\ ~saving
      /\ UNCHANGED <<role, indexFile, metaFile, saving, torn>>
  BY DEF BulkAddNormal
<1> HIDE DEF new, upgrade
<1>4. /\ index \o new \in Vectors /\ metadata \o new \in Vectors
      /\ <<>> \o new = new
  BY <1>2 DEF IndexTypeOK, Vectors
<1>5. IndexTypeOK'
  <2>1. flat' \in BOOLEAN /\ replaced' \in BOOLEAN
    BY <1>3 DEF BulkAddNormal
  <2>2. added' \in 0..MaxVectors
    BY <1>1, <1>3
  <2> QED BY <1>2, <1>3, <1>4, <2>1, <2>2 DEF IndexTypeOK
<1>6. Aligned'
  <2> SUFFICES ASSUME ~torn', ~replaced' PROVE metadata' = index'
    BY DEF Aligned
  <2>1. metadata = index /\ (upgrade => index = <<>>)
    BY <1>3 DEF IndexInv, Aligned
  <2> QED BY <1>3, <1>4, <2>1
<1>7. FilesAgree'
  BY <1>3 DEF IndexInv, FilesAgree
<1> QED BY <1>5, <1>6, <1>7 DEF IndexInv

LEMMA SaveInv ==
  ASSUME IndexTypeOK, IndexInv, SaveIndex \/ SaveMetadata
  PROVE  IndexTypeOK' /\ IndexInv'
<1>1. CASE SaveIndex
  BY <1>1, FileTypes DEF IndexTypeOK, IndexInv, Aligned, FilesAgree, SaveIndex, Written, Files
<1>2. CASE SaveMetadata
  BY <1>2, FileTypes DEF IndexTypeOK, IndexInv, Aligned, FilesAgree, SaveMetadata, Written, Files
<1> QED BY <1>1, <1>2

LEMMA CloseInv ==
  ASSUME IndexTypeOK, IndexInv, Close
  PROVE  IndexTypeOK' /\ IndexInv'
BY FileTypes DEF IndexTypeOK, IndexInv, Aligned, FilesAgree, Close

LEMMA IndexKept ==
  ASSUME IndexTypeOK, IndexInv, UNCHANGED indexVars
  PROVE  IndexTypeOK' /\ IndexInv'
BY DEF indexVars, IndexTypeOK, IndexInv, Aligned, FilesAgree

LEMMA IndexStep ==
  ASSUME IndexTypeOK, IndexInv, BuilderNext \/ Open("server") \/ Close
  PROVE  IndexTypeOK' /\ IndexInv'
BY OpenInv, AddNormalInv, BulkAddInv, SaveInv, CloseInv DEF BuilderNext

-----------------------------------------------------------------------------
(***************************************************************************)
(* The results of /detect and /detect_raw.                                 *)
(***************************************************************************)
\* A fused score is the largest of those that are there.
LEMMA HighestIsLargest ==
  ASSUME NEW x \in Int, NEW A \in SUBSET Int, NEW B \in SUBSET Int,
         \A s, t \in A : s = t, \A s, t \in B : s = t
  PROVE  /\ Highest({x} \cup A \cup B) \in {x} \cup A \cup B
         /\ \A t \in {x} \cup A \cup B : t <= Highest({x} \cup A \cup B)
<1> DEFINE scores == {x} \cup A \cup B
<1>1. \E s \in scores : \A t \in scores : t <= s
  <2>1. PICK s \in {x} \cup A : \A t \in {x} \cup A : t <= s
    <3>1. CASE \A t \in A : t <= x BY <3>1
    <3>2. CASE \E t \in A : ~(t <= x) BY <3>2
    <3> QED BY <3>1, <3>2
  <2>2. CASE \A t \in B : t <= s BY <2>1, <2>2
  <2>3. CASE \E t \in B : ~(t <= s) BY <2>1, <2>3
  <2> QED BY <2>2, <2>3
<1> HIDE DEF scores
<1>2. Highest(scores) \in scores /\ \A t \in scores : t <= Highest(scores)
  BY <1>1 DEF Highest
<1> QED BY <1>2 DEF scores

LEMMA FusedType ==
  ASSUME NEW a \in Alerts, NEW known \in BOOLEAN
  PROVE  LET result == Fused(a, known)
         IN result \in Results /\ result.kind = "full"
<1> DEFINE prob == IF known THEN Boosted(a.prob, 20) ELSE a.prob
           far == FaissAnomalous(a.far)
           A == IF a.outlier THEN {80} ELSE {}
           B == IF far THEN {70} ELSE {}
           score == Highest({prob} \cup A \cup B)
<1>1. prob \in 0..100
  BY AlertsAssumption DEF Boosted
<1>2. (\A t \in A : t = 80) /\ (\A t \in B : t = 70)
  OBVIOUS
<1> HIDE DEF prob, A, B, far
<1>3. score \in {prob} \cup A \cup B
  BY <1>1, <1>2, HighestIsLargest
<1>4. score \in 0..100
  BY <1>1, <1>2, <1>3
<1> HIDE DEF score
<1>5. Fused(a, known) = [kind |-> "full", anomalous |-> prob > 50 \/ a.outlier \/ far,
                         score |-> score, novel |-> prob < 15 /\ score > 60]
  BY DEF Fused, prob, far, A, B, score
<1>6. (prob > 50 \/ a.outlier \/ far) \in BOOLEAN /\ (prob < 15 /\ score > 60) \in BOOLEAN
  OBVIOUS
<1> QED BY <1>4, <1>5, <1>6 DEF Results

LEMMA LogTypes ==
  ASSUME NEW name \in Names PROVE Logs[name].prob \in Int /\ Logs[name].severity \in Int
<1>1. Logs[name].prob \in 0..100 /\ Logs[name].severity \in Int
  BY LogsAssumption, Zenon
<1> QED BY <1>1

LEMMA FusedRawType ==
  ASSUME NEW name \in Names, NEW severity \in Int, NEW byModel \in BOOLEAN, NEW known \in BOOLEAN
  PROVE  LET result == FusedRaw(Logs[name], severity, byModel, known)
         IN result \in Results /\ result.kind = "partial"
<1> DEFINE log == Logs[name]
           once == IF known THEN Boosted(log.prob, 20) ELSE log.prob
           prob == IF byModel /\ severity > 70 THEN Boosted(once, 15) ELSE once
           far == FaissAnomalous(log.far)
           risk == (severity * 6) \div 10
           B == IF far THEN {70} ELSE {}
           highest == Highest({prob, risk} \cup B)
           score == Clipped(highest)
<1>1. once \in Int
  <2>1. log.prob \in Int
    BY LogTypes
  <2> HIDE DEF log
  <2> QED BY <2>1 DEF Boosted
<1>2. prob \in Int
  BY <1>1 DEF Boosted
<1>3. risk \in Int
  OBVIOUS
<1>4. \A t \in B : t = 70
  OBVIOUS
<1> HIDE DEF once, prob, risk, B, far
<1>5. /\ {prob, risk} \cup B = {prob} \cup {risk} \cup B
      /\ {risk} \in SUBSET Int /\ B \in SUBSET Int
      /\ (\A s, t \in {risk} : s = t) /\ \A s, t \in B : s = t
  BY <1>3, <1>4
<1>6. highest \in {prob} \cup {risk} \cup B
  BY <1>2, <1>5, HighestIsLargest
<1>7. score \in 0..100
  <2>1. highest \in Int
    BY <1>2, <1>3, <1>4, <1>6
  <2> HIDE DEF highest
  <2> QED BY <2>1 DEF Clipped
<1> HIDE DEF score
<1>8. FusedRaw(log, severity, byModel, known) =
        [kind |-> "partial", anomalous |-> prob > 50 \/ far, score |-> score, novel |-> FALSE]
  BY DEF FusedRaw, once, prob, risk, far, B, score, highest
<1>9. (prob > 50 \/ far) \in BOOLEAN
  OBVIOUS
<1> QED BY <1>7, <1>8, <1>9 DEF Results

LEMMA NoResultType == NoResult \in Results /\ NoResult.kind = "none"
BY DEF NoResult, Results

-----------------------------------------------------------------------------
(***************************************************************************)
(* The parts of the invariant under the server's steps.                    *)
(***************************************************************************)
Cache == [Ids -> Results]

LEMMA InitInv == Init => IInv
<1> SUFFICES ASSUME Init PROVE IInv
  OBVIOUS
<1>1. IndexTypeOK /\ IndexInv
  BY IndexInitInv DEF Init
<1>2. TypeOK
  <2>1. cache \in [Ids -> Results] /\ \A id \in Ids : cache[id] = NoResult
    BY NoResultType DEF Init
  <2>2. parsed \in Seq(Parses) /\ Len(parsed) <= ParseMax /\ DOMAIN parsed = {}
    BY BoundsAssumption DEF Init
  <2>3. /\ offered \in [Ids -> Nat] /\ unfinished \in [Ids -> Nat]
        /\ told \in [Ids -> SUBSET Results]
        /\ raw \in [RawRequests -> Phases]
        /\ iocs \subseteq Sources
    BY DEF Init, Phases
  <2> QED BY <1>1, <2>1, <2>2, <2>3, NoResultType DEF TypeOK
<1>3. ToldIsCached /\ OfferedOnce
  BY NoResultType DEF Init, ToldIsCached, OfferedOnce
<1>4. RawIsJudgedOnce
  BY NoResultType DEF Init, RawIsJudgedOnce, Ids
<1> QED BY <1>1, <1>2, <1>3, <1>4 DEF IInv

\* The id of a body is not that of a raw request.
LEMMA AlertIds ==
  ASSUME NEW a \in Alerts PROVE a.id \in Ids /\ a.id \notin RawRequests
BY AlertsAssumption DEF Ids

\* What a call of /detect has to keep.
LEMMA CalledInv ==
  ASSUME IInv, Called,
         cache' \in [Ids -> Results],
         offered' \in [Ids -> Nat], unfinished' \in [Ids -> Nat],
         told' \in [Ids -> SUBSET Results],
         ToldIsCached', RawIsJudgedOnce', OfferedOnce'
  PROVE  IInv'
<1>1. IndexTypeOK' /\ IndexInv'
  BY IndexKept DEF IInv, TypeOK, Called
<1>2. UNCHANGED <<iocs, parsed, raw>>
  BY DEF Called
<1>3. TypeOK'
  BY <1>1, <1>2 DEF IInv, TypeOK
<1> QED BY <1>1, <1>3 DEF IInv

LEMMA RefuseInv == ASSUME IInv, NEW a \in Alerts, Refuse(a) PROVE IInv'
<1>1. UNCHANGED <<cache, offered, unfinished, told, raw>> /\ Called
  BY DEF Refuse, Called, historyVars
<1>2. ToldIsCached' /\ RawIsJudgedOnce' /\ OfferedOnce'
  BY <1>1 DEF IInv, ToldIsCached, RawIsJudgedOnce, OfferedOnce
<1> QED BY <1>1, <1>2, CalledInv DEF IInv, TypeOK

LEMMA RecallInv == ASSUME IInv, NEW a \in Alerts, Recall(a) PROVE IInv'
<1>1. /\ Called /\ UNCHANGED <<cache, offered, unfinished, raw>>
      /\ told' = [told EXCEPT ![a.id] = @ \cup {cache[a.id]}]
      /\ cache[a.id].kind = "full"
  BY DEF Recall, Called
<1>2. a.id \in Ids /\ a.id \notin RawRequests
  BY AlertIds
<1>3. told' \in [Ids -> SUBSET Results]
  BY <1>1, <1>2 DEF IInv, TypeOK
<1>4. ToldIsCached'
  BY <1>1, <1>2, NoResultType DEF IInv, TypeOK, ToldIsCached
<1>5. RawIsJudgedOnce'
  <2>1. RawRequests \subseteq Ids
    BY DEF Ids
  <2> QED BY <1>1, <1>2, <2>1 DEF IInv, TypeOK, RawIsJudgedOnce
<1>6. OfferedOnce'
  BY <1>1 DEF IInv, OfferedOnce
<1> QED BY <1>1, <1>3, <1>4, <1>5, <1>6, CalledInv DEF IInv, TypeOK

LEMMA BatchInv ==
  ASSUME IInv, NEW ids \in SUBSET {a.id : a \in Alerts}, DetectBatch(ids) PROVE IInv'
<1>1. /\ Called /\ UNCHANGED <<cache, offered, unfinished, raw>>
      /\ told' = [id \in Ids |-> told[id] \cup (IF id \in ids THEN {cache[id]} ELSE {})]
      /\ \A id \in ids : cache[id].kind = "full"
  BY DEF DetectBatch, Called
<1>2. \A id \in ids : id \in Ids /\ id \notin RawRequests
  BY AlertIds
<1>3. told' \in [Ids -> SUBSET Results]
  BY <1>1, <1>2 DEF IInv, TypeOK
<1>4. ToldIsCached'
  BY <1>1, <1>2, NoResultType DEF IInv, TypeOK, ToldIsCached
<1>5. RawIsJudgedOnce'
  <2>1. RawRequests \subseteq Ids
    BY DEF Ids
  <2> QED BY <1>1, <1>2, <2>1 DEF IInv, TypeOK, RawIsJudgedOnce
<1>6. OfferedOnce'
  BY <1>1 DEF IInv, OfferedOnce
<1> QED BY <1>1, <1>3, <1>4, <1>5, <1>6, CalledInv DEF IInv, TypeOK

LEMMA JudgeInv ==
  ASSUME IInv, NEW a \in Alerts, NEW writes \in 0..2, Judge(a, writes) PROVE IInv'
<1> DEFINE id == a.id
           result == Fused(a, a.source \in iocs)
<1>1. /\ Called /\ raw' = raw /\ cache[id] = NoResult
      /\ offered' = IF result.anomalous THEN [offered EXCEPT ![id] = @ + 1] ELSE offered
      /\ cache' = IF writes >= 1 THEN [cache EXCEPT ![id] = result] ELSE cache
      /\ unfinished' = IF writes = 0 THEN [unfinished EXCEPT ![id] = @ + 1] ELSE unfinished
      /\ told' = IF writes = 2 THEN [told EXCEPT ![id] = @ \cup {result}] ELSE told
  BY DEF Judge, Called, Cached
<1>2. id \in Ids /\ id \notin RawRequests
  BY AlertIds
<1>3. result \in Results /\ result.kind = "full" /\ result # NoResult
  <2>1. result \in Results /\ result.kind = "full"
    BY FusedType, (a.source \in iocs) \in BOOLEAN
  <2> QED BY <2>1, NoResultType
<1> HIDE DEF id, result
<1>4. /\ cache \in [Ids -> Results] /\ told \in [Ids -> SUBSET Results]
      /\ offered \in [Ids -> Nat] /\ unfinished \in [Ids -> Nat]
      /\ told[id] = {} /\ offered[id] <= unfinished[id]
  BY <1>1, <1>2 DEF IInv, TypeOK, ToldIsCached, OfferedOnce
<1>5. /\ cache' \in [Ids -> Results] /\ told' \in [Ids -> SUBSET Results]
      /\ \A i \in Ids : i # id => cache'[i] = cache[i] /\ told'[i] = told[i]
      /\ cache'[id] = IF writes >= 1 THEN result ELSE NoResult
      /\ told'[id] = IF writes = 2 THEN {result} ELSE {}
  BY <1>1, <1>2, <1>3, <1>4
<1>6. /\ offered' \in [Ids -> Nat] /\ unfinished' \in [Ids -> Nat]
      /\ \A i \in Ids : i # id => offered'[i] = offered[i] /\ unfinished'[i] = unfinished[i]
      /\ offered'[id] = IF result.anomalous THEN offered[id] + 1 ELSE offered[id]
      /\ unfinished'[id] = IF writes = 0 THEN unfinished[id] + 1 ELSE unfinished[id]
  BY <1>1, <1>2, <1>4
<1>8. ToldIsCached'
  BY <1>3, <1>5 DEF IInv, ToldIsCached
<1>9. RawIsJudgedOnce'
  <2>1. RawRequests \subseteq Ids
    BY DEF Ids
  <2> QED BY <1>1, <1>2, <1>5, <1>6, <2>1 DEF IInv, RawIsJudgedOnce
<1>10. OfferedOnce'
  <2> SUFFICES ASSUME NEW i \in Ids
               PROVE  /\ cache'[i].kind = "full" /\ cache'[i].anomalous => offered'[i] >= 1
                      /\ offered'[i] <= unfinished'[i] + (IF cache'[i] = NoResult THEN 0 ELSE 1)
    BY DEF OfferedOnce
  <2>1. CASE i # id
    BY <1>5, <1>6, <2>1 DEF IInv, OfferedOnce
  <2>2. CASE i = id
    <3>1. offered[id] \in Nat /\ unfinished[id] \in Nat
      BY <1>2, <1>4
    <3>2. CASE writes >= 1
      BY <1>3, <1>4, <1>5, <1>6, <2>2, <3>1, <3>2
    <3>3. CASE writes = 0
      BY <1>4, <1>5, <1>6, <2>2, <3>1, <3>3, NoResultType
    <3> QED BY <3>2, <3>3
  <2> QED BY <2>1, <2>2
<1> QED BY <1>1, <1>5, <1>6, <1>8, <1>9, <1>10, CalledInv

-----------------------------------------------------------------------------
(***************************************************************************)
(* /detect_raw.                                                            *)
(***************************************************************************)
Distinct(parses) == \A i, j \in DOMAIN parses : parses[i].log = parses[j].log => i = j

\* Without its oldest entry the parse cache has room, and still a log once.
LEMMA RoomIsMade ==
  ASSUME NEW s \in Seq(Parses), Distinct(s), Len(s) <= ParseMax,
         NEW room, room = IF Len(s) >= ParseMax THEN Tail(s) ELSE s
  PROVE  room \in Seq(Parses) /\ Distinct(room) /\ Len(room) < ParseMax
<1>1. Len(s) \in Nat /\ ParseMax \in Nat /\ ParseMax > 0
  BY BoundsAssumption
<1>2. CASE Len(s) >= ParseMax
  <2>1. s # <<>>
    BY <1>1, <1>2
  <2>2. /\ Tail(s) \in Seq(Parses) /\ Len(Tail(s)) = Len(s) - 1
        /\ DOMAIN Tail(s) = 1..(Len(s) - 1) /\ DOMAIN s = 1..Len(s)
        /\ \A i \in 1..(Len(s) - 1) : Tail(s)[i] = s[i + 1]
    BY <2>1
  <2>3. ASSUME NEW i \in 1..(Len(s) - 1), NEW j \in 1..(Len(s) - 1),
               Tail(s)[i].log = Tail(s)[j].log
        PROVE  i = j
    <3>1. i + 1 \in DOMAIN s /\ j + 1 \in DOMAIN s /\ s[i + 1].log = s[j + 1].log
      BY <1>1, <2>2, <2>3
    <3>2. i + 1 = j + 1
      BY <3>1 DEF Distinct
    <3> QED BY <3>2
  <2> QED BY <1>1, <1>2, <2>2, <2>3 DEF Distinct
<1>3. CASE ~(Len(s) >= ParseMax)
  BY <1>1, <1>3
<1> QED BY <1>2, <1>3

LEMMA StoredInv ==
  ASSUME TypeOK, NEW entry \in Parses
  PROVE  /\ Stored(entry) \in Seq(Parses) /\ Len(Stored(entry)) <= ParseMax
         /\ Distinct(Stored(entry))
<1> DEFINE room == IF Len(parsed) >= ParseMax THEN Tail(parsed) ELSE parsed
           fresh == \A i \in DOMAIN room : room[i].log # entry.log
<1>1. room \in Seq(Parses) /\ Distinct(room) /\ Len(room) < ParseMax
  BY RoomIsMade DEF TypeOK, Distinct
<1>2. Stored(entry) = IF fresh THEN Append(room, entry)
                      ELSE [i \in DOMAIN room |-> IF room[i].log = entry.log THEN entry ELSE room[i]]
  BY DEF Stored
<1> HIDE DEF room
<1>3. Len(room) \in Nat /\ DOMAIN room = 1..Len(room) /\ ParseMax \in Nat
  BY <1>1, BoundsAssumption
<1>4. CASE fresh
  <2>1. /\ Stored(entry) = Append(room, entry) /\ Append(room, entry) \in Seq(Parses)
        /\ DOMAIN Append(room, entry) = 1..(Len(room) + 1)
        /\ Len(Append(room, entry)) = Len(room) + 1
        /\ Append(room, entry)[Len(room) + 1] = entry
        /\ \A i \in 1..Len(room) : Append(room, entry)[i] = room[i]
    <3>1. Stored(entry) = Append(room, entry)
      BY <1>2, <1>4
    <3> QED BY <1>1, <1>3, <3>1
  <2>2. ASSUME NEW i \in 1..(Len(room) + 1), NEW j \in 1..(Len(room) + 1),
               Append(room, entry)[i].log = Append(room, entry)[j].log
        PROVE  i = j
    <3>1. CASE i \in 1..Len(room) /\ j \in 1..Len(room)
      BY <1>1, <1>3, <2>1, <2>2, <3>1 DEF Distinct
    <3>2. CASE i = Len(room) + 1 /\ j \in 1..Len(room)
      BY <1>3, <1>4, <2>1, <2>2, <3>2
    <3>3. CASE j = Len(room) + 1 /\ i \in 1..Len(room)
      BY <1>3, <1>4, <2>1, <2>2, <3>3
    <3>4. CASE i = Len(room) + 1 /\ j = Len(room) + 1
      BY <3>4
    <3> QED BY <1>3, <3>1, <3>2, <3>3, <3>4
  <2> QED BY <1>1, <1>3, <2>1, <2>2 DEF Distinct
<1>5. CASE ~fresh
  <2> DEFINE kept == [i \in DOMAIN room |-> IF room[i].log = entry.log THEN entry ELSE room[i]]
  <2>1. Stored(entry) = kept
    BY <1>2, <1>5
  <2>2. kept \in [1..Len(room) -> Parses]
    BY <1>1, <1>3
  <2>3. kept \in Seq(Parses) /\ Len(kept) = Len(room) /\ DOMAIN kept = DOMAIN room
    BY <1>3, <2>2
  <2>4. \A i \in DOMAIN room : kept[i].log = room[i].log
    OBVIOUS
  <2> HIDE DEF kept
  <2> QED BY <1>1, <1>3, <2>1, <2>3, <2>4 DEF Distinct
<1> QED BY <1>4, <1>5

\* The end of a request to /detect_raw, with what its log was parsed to.
LEMMA FinishRawInv ==
  ASSUME IInv, NEW r \in RawRequests, raw[r] \in {"new", "asking", "asking_uncached"}, NEW entry \in Parses,
         NEW writes \in 0..2, FinishRaw(r, entry, writes),
         parsed' \in Seq(Parses), Len(parsed') <= ParseMax, Distinct(parsed')
  PROVE  IInv'
<1> DEFINE result == FusedRaw(Logs[Raw[r]], entry.severity, entry.byModel,
                              Logs[Raw[r]].source \in iocs)
<1>1. /\ UNCHANGED <<indexVars, iocs, unfinished, told>>
      /\ cache' = IF writes >= 1 THEN [cache EXCEPT ![r] = result] ELSE cache
      /\ offered' = IF writes = 2 /\ result.anomalous THEN [offered EXCEPT ![r] = @ + 1] ELSE offered
      /\ raw' = [raw EXCEPT ![r] = IF writes = 2 THEN "answered" ELSE "failed"]
  BY DEF FinishRaw
<1>2. result \in Results /\ result.kind = "partial"
  <2>1. Raw[r] \in Names /\ entry.severity \in Int /\ entry.byModel \in BOOLEAN
    BY LogsAssumption DEF Parses
  <2> DEFINE known == Logs[Raw[r]].source \in iocs
  <2>2. known \in BOOLEAN
    OBVIOUS
  <2>3. result = FusedRaw(Logs[Raw[r]], entry.severity, entry.byModel, known)
    OBVIOUS
  <2> HIDE DEF known, result
  <2> QED BY <2>1, <2>2, <2>3, FusedRawType
<1> HIDE DEF result
<1>3. r \in Ids
  BY DEF Ids
<1>4. /\ cache \in [Ids -> Results] /\ offered \in [Ids -> Nat] /\ unfinished \in [Ids -> Nat]
      /\ raw \in [RawRequests -> Phases]
      /\ offered[r] = 0 /\ told[r] = {}
  <2>1. /\ cache \in [Ids -> Results] /\ offered \in [Ids -> Nat] /\ unfinished \in [Ids -> Nat]
        /\ raw \in [RawRequests -> Phases]
    BY DEF IInv, TypeOK
  <2>2. offered[r] <= 0 /\ told[r] = {}
    BY DEF IInv, RawIsJudgedOnce
  <2>3. offered[r] \in Nat
    BY <1>3, <2>1
  <2> QED BY <2>1, <2>2, <2>3
<1>5. /\ cache' \in [Ids -> Results]
      /\ \A i \in Ids : i # r => cache'[i] = cache[i]
      /\ cache'[r] = IF writes >= 1 THEN result ELSE cache[r]
  BY <1>1, <1>2, <1>3, <1>4
<1>6. /\ offered' \in [Ids -> Nat]
      /\ \A i \in Ids : i # r => offered'[i] = offered[i]
      /\ offered'[r] = IF writes = 2 /\ result.anomalous THEN 1 ELSE 0
  BY <1>1, <1>3, <1>4
<1>7. /\ raw' \in [RawRequests -> Phases]
      /\ \A i \in RawRequests : i # r => raw'[i] = raw[i]
      /\ raw'[r] = IF writes = 2 THEN "answered" ELSE "failed"
  BY <1>1, <1>4 DEF Phases
<1>8. cache'[r].kind # "full" /\ (writes = 2 => cache'[r] # NoResult)
  BY <1>2, <1>5, NoResultType DEF IInv, RawIsJudgedOnce
<1>9. TypeOK' /\ IndexInv'
  <2>1. IndexTypeOK' /\ IndexInv'
    BY <1>1, IndexKept DEF IInv, TypeOK
  <2> QED BY <1>1, <1>5, <1>6, <1>7, <2>1 DEF IInv, TypeOK, Distinct
<1>10. ToldIsCached'
  BY <1>1, <1>4, <1>5 DEF IInv, ToldIsCached
<1>11. RawIsJudgedOnce'
  <2>1. RawRequests \subseteq Ids
    BY DEF Ids
  <2> QED BY <1>1, <1>4, <1>5, <1>6, <1>7, <1>8, <2>1 DEF IInv, RawIsJudgedOnce
<1>12. OfferedOnce'
  <2> SUFFICES ASSUME NEW i \in Ids
               PROVE  /\ cache'[i].kind = "full" /\ cache'[i].anomalous => offered'[i] >= 1
                      /\ offered'[i] <= unfinished'[i] + (IF cache'[i] = NoResult THEN 0 ELSE 1)
    BY DEF OfferedOnce
  <2>1. CASE i # r
    BY <1>1, <1>5, <1>6, <2>1 DEF IInv, OfferedOnce
  <2>2. CASE i = r
    BY <1>1, <1>3, <1>4, <1>6, <1>8, <2>2
  <2> QED BY <2>1, <2>2
<1> QED BY <1>9, <1>10, <1>11, <1>12 DEF IInv

\* What an entry of the parse cache is.
LEMMA ParsesAreParses ==
  ASSUME TypeOK, NEW name PROVE ParsesOf(name) \subseteq Parses
BY DEF TypeOK, ParsesOf, ToSet

LEMMA RawStepInv ==
  ASSUME IInv, NEW r \in RawRequests, RawNext(r) PROVE IInv'
<1>1. CASE \E writes \in 0..2 : RawHit(r, writes)
  <2>1. PICK writes \in 0..2, entry \in ParsesOf(Raw[r]) :
          raw[r] = "new" /\ parsed' = parsed /\ FinishRaw(r, entry, writes)
    BY <1>1 DEF RawHit
  <2>2. entry \in Parses
    BY ParsesAreParses DEF IInv
  <2>3. parsed' \in Seq(Parses) /\ Len(parsed') <= ParseMax /\ Distinct(parsed')
    BY <2>1 DEF IInv, TypeOK, Distinct
  <2> QED BY <2>1, <2>2, <2>3, FinishRawInv
<1>2. CASE \E writes \in 0..2, useCache \in BOOLEAN : RawPrecheck(r, useCache, writes)
  <2> DEFINE entry == Entry(Raw[r], Logs[Raw[r]].severity, FALSE)
  <2>1. PICK writes \in 0..2 :
          /\ raw[r] = "new" /\ parsed' \in {parsed, Stored(entry)}
          /\ FinishRaw(r, entry, writes)
    BY <1>2 DEF RawPrecheck
  <2>2. entry \in Parses
    <3>1. Raw[r] \in Names
      BY LogsAssumption
    <3> QED BY <3>1, LogTypes DEF Entry, Parses
  <2> HIDE DEF entry
  <2>3. parsed' \in Seq(Parses) /\ Len(parsed') <= ParseMax /\ Distinct(parsed')
    <3>1. Stored(entry) \in Seq(Parses) /\ Len(Stored(entry)) <= ParseMax /\ Distinct(Stored(entry))
      BY <2>2, StoredInv DEF IInv
    <3>2. parsed \in Seq(Parses) /\ Len(parsed) <= ParseMax /\ Distinct(parsed)
      BY DEF IInv, TypeOK, Distinct
    <3> QED BY <2>1, <3>1, <3>2
  <2> QED BY <2>1, <2>2, <2>3, FinishRawInv
<1>3. CASE \E writes \in 0..2, severity \in Severities : RawParsed(r, severity, writes)
  <2>1. PICK writes \in 0..2, severity \in Severities : RawParsed(r, severity, writes)
    BY <1>3
  <2> DEFINE entry == Entry(Raw[r], severity, TRUE)
  <2>2. /\ raw[r] \in {"asking", "asking_uncached"} /\ parsed' \in {parsed, Stored(entry)}
        /\ FinishRaw(r, entry, writes)
    BY <2>1 DEF RawParsed
  <2>3. entry \in Parses
    <3>1. Raw[r] \in Names /\ severity \in Int
      BY LogsAssumption, SeveritiesAssumption
    <3> QED BY <3>1 DEF Entry, Parses
  <2> HIDE DEF entry
  <2>4. parsed' \in Seq(Parses) /\ Len(parsed') <= ParseMax /\ Distinct(parsed')
    <3>1. Stored(entry) \in Seq(Parses) /\ Len(Stored(entry)) <= ParseMax /\ Distinct(Stored(entry))
      BY <2>3, StoredInv DEF IInv
    <3>2. parsed \in Seq(Parses) /\ Len(parsed) <= ParseMax /\ Distinct(parsed)
      BY DEF IInv, TypeOK, Distinct
    <3> QED BY <2>2, <3>1, <3>2
  <2> QED BY <2>2, <2>3, <2>4, FinishRawInv
<1>4. CASE (\E useCache \in BOOLEAN : RawAsk(r, useCache)) \/ RawFails(r)
  <2>1. PICK where \in {"asking", "asking_uncached", "failed"} : raw' = [raw EXCEPT ![r] = where]
    BY <1>4 DEF RawAsk, RawFails
  <2>2. raw[r] # "answered" /\ UNCHANGED <<indexVars, cache, iocs, parsed, offered, unfinished, told>>
    BY <1>4 DEF RawAsk, RawFails, historyVars
  <2>3. IndexTypeOK' /\ IndexInv'
    BY <2>2, IndexKept DEF IInv, TypeOK
  <2>4. TypeOK'
    BY <2>1, <2>2, <2>3 DEF IInv, TypeOK, Phases
  <2>5. ToldIsCached' /\ OfferedOnce'
    BY <2>2 DEF IInv, ToldIsCached, OfferedOnce
  <2>6. RawIsJudgedOnce'
    <3>1. /\ \A i \in RawRequests : i # r => raw'[i] = raw[i]
          /\ raw'[r] # "answered"
      BY <2>1 DEF IInv, TypeOK
    <3> QED BY <2>2, <3>1 DEF IInv, RawIsJudgedOnce
  <2> QED BY <2>3, <2>4, <2>5, <2>6 DEF IInv
<1> QED BY <1>1, <1>2, <1>3, <1>4 DEF RawNext

-----------------------------------------------------------------------------
(***************************************************************************)
(* The other steps, and the theorems.                                      *)
(***************************************************************************)
LEMMA IngestInv ==
  ASSUME IInv, (\E e \in Events : Ingest(e)) \/ (\E events \in SUBSET Events : IngestBatch(events))
  PROVE  IInv'
<1>1. PICK events \in SUBSET Events :
        /\ iocs' = iocs \cup Indicators(events)
        /\ UNCHANGED <<indexVars, cache, parsed, raw, offered, unfinished, told>>
  <2>1. CASE \E e \in Events : Ingest(e)
    <3>1. PICK e \in Events : Ingest(e)
      BY <2>1
    <3> QED BY <3>1, {e} \in SUBSET Events DEF Ingest, historyVars
  <2>2. CASE \E events \in SUBSET Events : IngestBatch(events)
    BY <2>2 DEF IngestBatch, historyVars
  <2> QED BY <2>1, <2>2
<1>2. \A e \in Events : e.source \in Sources
  BY EventsAssumption
<1>3. iocs' \subseteq Sources
  BY <1>1, <1>2 DEF IInv, TypeOK, Indicators
<1>4. IndexTypeOK' /\ IndexInv'
  BY <1>1, IndexKept DEF IInv, TypeOK
<1>5. TypeOK'
  BY <1>1, <1>3, <1>4 DEF IInv, TypeOK
<1>6. ToldIsCached' /\ OfferedOnce' /\ RawIsJudgedOnce'
  BY <1>1 DEF IInv, ToldIsCached, OfferedOnce, RawIsJudgedOnce
<1> QED BY <1>4, <1>5, <1>6 DEF IInv

LEMMA ForgetInv == ASSUME IInv, NEW a \in Alerts, Forget(a.id) PROVE IInv'
<1> DEFINE id == a.id
<1>1. /\ UNCHANGED <<indexVars, iocs, parsed, raw>>
      /\ cache' = [cache EXCEPT ![id] = NoResult]
      /\ offered' = [offered EXCEPT ![id] = 0]
      /\ unfinished' = [unfinished EXCEPT ![id] = 0]
      /\ told' = [told EXCEPT ![id] = {}]
  BY DEF Forget
<1>2. id \in Ids /\ id \notin RawRequests
  BY AlertIds
<1> HIDE DEF id
<1>3. /\ cache' \in [Ids -> Results] /\ offered' \in [Ids -> Nat] /\ unfinished' \in [Ids -> Nat]
      /\ told' \in [Ids -> SUBSET Results]
      /\ cache'[id] = NoResult /\ offered'[id] = 0 /\ unfinished'[id] = 0 /\ told'[id] = {}
      /\ \A i \in Ids : i # id => /\ cache'[i] = cache[i] /\ offered'[i] = offered[i]
                                  /\ unfinished'[i] = unfinished[i] /\ told'[i] = told[i]
  BY <1>1, <1>2, NoResultType DEF IInv, TypeOK
<1>4. IndexTypeOK' /\ IndexInv'
  BY <1>1, IndexKept DEF IInv, TypeOK
<1>5. TypeOK'
  BY <1>1, <1>3, <1>4, NoResultType DEF IInv, TypeOK
<1>6. ToldIsCached' /\ OfferedOnce'
  BY <1>3, NoResultType DEF IInv, ToldIsCached, OfferedOnce
<1>7. RawIsJudgedOnce'
  <2>1. RawRequests \subseteq Ids
    BY DEF Ids
  <2> QED BY <1>1, <1>2, <1>3, <2>1 DEF IInv, RawIsJudgedOnce
<1> QED BY <1>4, <1>5, <1>6, <1>7 DEF IInv

LEMMA ForgetSourceInv == ASSUME IInv, NEW source, ForgetSource(source) PROVE IInv'
<1>1. /\ iocs' \subseteq iocs
      /\ UNCHANGED <<indexVars, cache, parsed, raw, offered, unfinished, told>>
  BY DEF ForgetSource, historyVars
<1>2. IndexTypeOK' /\ IndexInv'
  BY <1>1, IndexKept DEF IInv, TypeOK
<1>3. TypeOK'
  BY <1>1, <1>2 DEF IInv, TypeOK
<1>4. ToldIsCached' /\ OfferedOnce' /\ RawIsJudgedOnce'
  BY <1>1 DEF IInv, ToldIsCached, OfferedOnce, RawIsJudgedOnce
<1> QED BY <1>2, <1>3, <1>4 DEF IInv

LEMMA StopInv == ASSUME IInv, Stop PROVE IInv'
<1>1. /\ Close /\ parsed' = <<>> /\ UNCHANGED <<cache, iocs, offered, unfinished, told>>
      /\ raw' = [r \in RawRequests |-> IF raw[r] \in {"asking", "asking_uncached"}
                                        THEN "failed" ELSE raw[r]]
  BY DEF Stop, historyVars
<1>2. IndexTypeOK' /\ IndexInv'
  BY <1>1, CloseInv DEF IInv, TypeOK
<1>3. TypeOK'
  <2>1. raw' \in [RawRequests -> Phases]
    BY <1>1 DEF IInv, TypeOK, Phases
  <2>2. parsed' \in Seq(Parses) /\ Len(parsed') <= ParseMax /\ DOMAIN parsed' = {}
    BY <1>1, BoundsAssumption
  <2> QED BY <1>1, <1>2, <2>1, <2>2 DEF IInv, TypeOK
<1>4. ToldIsCached' /\ OfferedOnce' /\ RawIsJudgedOnce'
  BY <1>1 DEF IInv, ToldIsCached, OfferedOnce, RawIsJudgedOnce
<1> QED BY <1>2, <1>3, <1>4 DEF IInv

LEMMA StepInv == IInv /\ [Next]_vars => IInv'
<1> SUFFICES ASSUME IInv, [Next]_vars PROVE IInv'
  OBVIOUS
<1>1. CASE (BuilderNext \/ Open("server")) /\ UNCHANGED serverVars
  <2>1. IndexTypeOK' /\ IndexInv'
    BY <1>1, IndexStep DEF IInv, TypeOK
  <2>2. UNCHANGED serverVars
    BY <1>1
  <2>3. TypeOK'
    BY <2>1, <2>2 DEF IInv, TypeOK, serverVars, historyVars
  <2>4. ToldIsCached' /\ OfferedOnce' /\ RawIsJudgedOnce'
    BY <2>2 DEF IInv, ToldIsCached, OfferedOnce, RawIsJudgedOnce, serverVars, historyVars
  <2> QED BY <2>1, <2>3, <2>4 DEF IInv
<1>2. CASE UNCHANGED vars
  <2>1. IndexTypeOK' /\ IndexInv'
    BY <1>2, IndexKept DEF IInv, TypeOK, vars
  <2>2. UNCHANGED serverVars
    BY <1>2 DEF vars
  <2>3. TypeOK'
    BY <2>1, <2>2 DEF IInv, TypeOK, serverVars, historyVars
  <2>4. ToldIsCached' /\ OfferedOnce' /\ RawIsJudgedOnce'
    BY <2>2 DEF IInv, ToldIsCached, OfferedOnce, RawIsJudgedOnce, serverVars, historyVars
  <2> QED BY <2>1, <2>3, <2>4 DEF IInv
<1>3. CASE \E a \in Alerts : Detect(a)
  BY <1>3, RefuseInv, RecallInv, JudgeInv DEF Detect
<1>4. CASE \E ids \in SUBSET {a.id : a \in Alerts} : DetectBatch(ids)
  BY <1>4, BatchInv
<1>5. CASE \E r \in RawRequests : RawNext(r)
  BY <1>5, RawStepInv
<1>6. CASE (\E e \in Events : Ingest(e)) \/ (\E events \in SUBSET Events : IngestBatch(events))
  BY <1>6, IngestInv
<1>7. CASE \/ Stop \/ \E a \in Alerts : Forget(a.id)
           \/ \E source \in Sources : ForgetSource(source)
  BY <1>7, StopInv, ForgetInv, ForgetSourceInv
<1> QED BY <1>1, <1>2, <1>3, <1>4, <1>5, <1>6, <1>7 DEF Next

(***************************************************************************)
(* The invariant of Layer 1 by induction, from which the three below       *)
(* follow: types, the limit of the parse cache and its entries, the two    *)
(* files, and what the cache of a result says of answers and messages.     *)
(***************************************************************************)
THEOREM InductiveInvariant == Spec => []IInv
<1> QED BY InitInv, StepInv, PTL DEF Spec

(***************************************************************************)
(* A position of the metadata describes the embedding of that position     *)
(* after every sequence of additions, upgrades, saves and crashes, unless  *)
(* a crash came between the two files of a save or a bulk addition         *)
(* replaced the embeddings (FAISSIndex.save, load, bulk_add_normal).       *)
(***************************************************************************)
THEOREM MetadataIsAligned == Spec => []Aligned
<1>1. IInv => Aligned
  BY DEF IInv, IndexInv
<1> QED BY <1>1, InductiveInvariant, PTL

(***************************************************************************)
(* Until Redis forgets an alert, everybody who asks gets the same result,  *)
(* whatever bodies come with its id and whatever indicators arrive in      *)
(* between (detect, detect_batch).                                         *)
(***************************************************************************)
THEOREM EverybodyGetsOneAnswer == Spec => []AnswersAgree
<1>1. IInv => AnswersAgree
  BY DEF IInv, ToldIsCached, AnswersAgree
<1> QED BY <1>1, InductiveInvariant, PTL

(***************************************************************************)
(* An anomaly that is cached was sent to Kafka before, and an alert is     *)
(* sent once and once more for every judgment that ended before its result *)
(* was cached (detect, detect_raw).                                        *)
(***************************************************************************)
THEOREM AnomaliesAreOffered == Spec => []OfferedOnce
<1>1. IInv => OfferedOnce
  BY DEF IInv
<1> QED BY <1>1, InductiveInvariant, PTL
-----------------------------------------------------------------------------
(***************************************************************************)
(* The relevance analyzer (layer1_detection/relevance_analyzer.py).        *)
(***************************************************************************)
\* Dropping the stale entries of the cache (_cleanup_dedup_cache) changes no
\* later verdict of _is_duplicate, however much later it is asked for.
THEOREM CleanupIsInvisible ==
  ASSUME NEW z \in Analyzers, NEW source \in Addresses, NEW now \in Nat,
         NEW later \in Nat, now <= later
  PROVE  Duplicate(Cleaned(z, now), source, later) <=> Duplicate(z, source, later)
<1>1. z.seen[source] \in Nat /\ z.cleaned \in Nat
  BY DEF Analyzers
<1>2. CASE now - z.cleaned < 60
  BY <1>2 DEF Cleaned
<1>3. CASE ~(now - z.cleaned < 60)
  <2>1. Cleaned(z, now).seen[source]
          = IF z.seen[source] < now - Window THEN 0 ELSE z.seen[source]
    BY <1>3 DEF Cleaned
  <2>2. QED
    BY <1>1, <2>1 DEF Duplicate, Window
<1>4. QED
  BY <1>2, <1>3

\* A detection that is turned away as too uncertain or too easily flipped
\* counts as seen all the same: it keeps every detection of its source from
\* passing for the window, however certain that one is (analyze stamps the
\* cache before it looks at the confidence).
THEOREM UncertainDetectionsSilence ==
  ASSUME NEW z \in Analyzers, NEW d \in Detections, NEW e \in Detections,
         NEW now \in Nat, NEW later \in Nat, NEW again \in Nat, NEW last \in Nat,
         now <= later, later <= again, again <= last, last - later < Window,
         Examined(d), d.named, e.named, e.source = d.source,
         Reason(z, d, now, later) \in {"low_confidence", "low_relevance", "high_flip_rate"}
  PROVE  Reason(After(z, d, now, later), e, again, last) # "passes"
<1> DEFINE y == Cleaned(z, now)
           x == Stamped(y, d.source, later)
<1>1. y \in Analyzers
  BY DEF Analyzers, Cleaned
<1>2. ~Duplicate(y, d.source, later)
  BY DEF Reason, Suppressed, Examined
<1>3. After(z, d, now, later) = x
  BY <1>2 DEF After
<1>4. d.source \in Addresses
  BY DEF Detections
<1>5. x \in Analyzers /\ x.seen[d.source] = later
  BY <1>1, <1>4 DEF Stamped, Analyzers
<1>6. Duplicate(x, e.source, last)
  BY <1>5 DEF Duplicate
<1>7. Duplicate(Cleaned(x, again), e.source, last)
  BY <1>4, <1>5, <1>6, CleanupIsInvisible
<1>8. QED
  BY <1>3, <1>7 DEF Reason, Suppressed

\* For the anomalies /ingest/batch makes, the thresholds on relevance and
\* robustness never decide: a confident one passes both (_process_single_ingest
\* hands no prediction function to analyze).
THEOREM OnlyConfidenceDecides ==
  ASSUME NEW z \in Analyzers, NEW d \in Detections, NEW now \in Nat, NEW later \in Nat,
         NEW prob \in 0..100, NEW outlier \in BOOLEAN, NEW far \in BOOLEAN,
         d.anomalous = FusedAnomaly(prob, outlier, far),
         d.score = FusedScore(prob, outlier, far), Simulated(d)
  PROVE  Reason(z, d, now, later) \notin {"low_relevance", "high_flip_rate"}
<1>1. d.confidence \in 0..100 /\ d.flips \in 0..100
  BY DEF Detections
<1>2. Robust(d)
  BY <1>1 DEF Simulated, Robust
<1>3. d.anomalous => d.score \in Nat /\ d.score > 50
  BY DEF FusedAnomaly, FusedScore
<1>4. d.anomalous /\ Confident(d) => Relevant(d)
  BY <1>1, <1>3 DEF Confident, Relevant, RelevanceScore
<1>5. QED
  BY <1>2, <1>4 DEF Reason
-----------------------------------------------------------------------------
(***************************************************************************)
(* POST /correlate (layer2_correlation/server.py).                         *)
(***************************************************************************)
LEMMA LabelsAreAttacks == \A attack : StageOf(attack) \in Stages \ {"Benign"}
BY DEF StageOf, Stages

LEMMA InferredIsAttack == \A attack : InferredStage(attack) \in Stages \ {"Benign"}
BY DEF InferredStage, Stages

LEMMA OpinionType ==
  ASSUME NEW o \in Opinions
  PROVE  /\ Opinion(o) \in [stage : Stages, next : Stages, prob : 0..100]
         /\ Opinion(o).stage = SequenceOpinion(o).stage
         /\ Opinion(o).prob = GraphOpinion(o)
<1>1. SequenceOpinion(o) \in [stage : Stages, next : Stages]
  BY DEF SequenceOpinion, Opinions, Stages
<1>2. GraphOpinion(o) \in 0..100  BY DEF GraphOpinion, Opinions
<1> QED BY <1>1, <1>2 DEF Opinion

(***************************************************************************)
(* "If graph says high attack probability, MITRE stage should never be     *)
(* Benign", and neither is a known attack's: the answer is Benign exactly  *)
(* when the sequence model says so, the graph model gives at most one half *)
(* and the attack type is not in the table (correlate, both overrides).    *)
(***************************************************************************)
THEOREM BenignWhenAllAgree ==
  ASSUME NEW attack, NEW o \in Opinions
  PROVE  Correlated(attack, o).stage = "Benign"
           <=> /\ attack \notin Known
               /\ SequenceOpinion(o).stage = "Benign" /\ GraphOpinion(o) <= 50
<1> DEFINE x == Opinion(o)
           y == Relabelled(attack, x)
<1>1. x \in [stage : Stages, next : Stages, prob : 0..100]  BY OpinionType
<1>2. x.stage = SequenceOpinion(o).stage /\ x.prob = GraphOpinion(o)  BY OpinionType
<1>3. y.prob \in 0..100 /\ (y.stage = "Benign" <=> attack \notin Known /\ x.stage = "Benign")
  <2>1. CASE attack \in Known /\ (x.stage = "Benign" \/ x.prob < 10)
    <3>1. y.stage = StageOf(attack) /\ y.prob = IF x.prob < 10 THEN 87 ELSE x.prob
      BY <2>1 DEF Relabelled
    <3> QED BY <1>1, <2>1, <3>1, LabelsAreAttacks
  <2>2. CASE ~(attack \in Known /\ (x.stage = "Benign" \/ x.prob < 10))
    <3>1. y = x  BY <2>2 DEF Relabelled
    <3> QED BY <1>1, <2>2, <3>1
  <2> QED BY <2>1, <2>2
<1>4. y \in [stage : Stages, next : Stages, prob : 0..100]
  BY <1>1, LabelsAreAttacks DEF Relabelled, NextStage, Stages
<1>5. attack \notin Known => y.prob = x.prob  BY DEF Relabelled
<1>6. Correlated(attack, o) = Inferred(attack, y)  BY DEF Correlated
<1>7. Inferred(attack, y).stage = "Benign" <=> y.stage = "Benign" /\ y.prob <= 50
  <2>1. CASE y.prob > 50 /\ y.stage = "Benign"
    <3>1. Inferred(attack, y).stage = InferredStage(attack)  BY <1>4, <2>1 DEF Inferred
    <3> QED BY <1>4, <2>1, <3>1, InferredIsAttack
  <2>2. CASE ~(y.prob > 50 /\ y.stage = "Benign")
    <3>1. Inferred(attack, y) = y  BY <2>2 DEF Inferred
    <3> QED BY <1>4, <2>2, <3>1
  <2> QED BY <2>1, <2>2
<1> HIDE DEF x, y
<1> QED BY <1>2, <1>3, <1>5, <1>6, <1>7

(***************************************************************************)
(* The second table is dead but for its last entries: every other attack   *)
(* type in it is in the first table, whose override has come before, so    *)
(* what it infers is Impact for "Web Attack" and Initial_Access otherwise  *)
(* (correlate).                                                            *)
(***************************************************************************)
THEOREM SecondTableIsDead ==
  ASSUME NEW attack, NEW o \in Opinions,
         Relabelled(attack, Opinion(o)).stage = "Benign",
         Relabelled(attack, Opinion(o)).prob > 50
  PROVE  Correlated(attack, o).stage =
           IF attack = "Web Attack" THEN "Impact" ELSE "Initial_Access"
<1> DEFINE y == Relabelled(attack, Opinion(o))
<1>1. attack \notin Known
  <2>1. SUFFICES ASSUME attack \in Known PROVE FALSE  OBVIOUS
  <2>2. CASE Opinion(o).stage = "Benign" \/ Opinion(o).prob < 10
    <3>1. y.stage = StageOf(attack)  BY <2>1, <2>2 DEF Relabelled
    <3> QED BY <3>1, LabelsAreAttacks
  <2>3. CASE ~(Opinion(o).stage = "Benign" \/ Opinion(o).prob < 10)
    <3>1. y = Opinion(o)  BY <2>3 DEF Relabelled
    <3> QED BY <2>3, <3>1
  <2> QED BY <2>2, <2>3
<1>2. InferredStage(attack) = IF attack = "Web Attack" THEN "Impact" ELSE "Initial_Access"
  BY <1>1 DEF InferredStage, Known, ReconnaissanceAttacks, AccessAttacks, ExecutionAttacks,
              ImpactAttacks
<1>3. y = Opinion(o)  BY <1>1 DEF Relabelled
<1>4. y \in [stage : Stages, next : Stages, prob : 0..100]  BY <1>3, OpinionType
<1>5. Inferred(attack, y).stage = InferredStage(attack)  BY <1>4 DEF Inferred
<1> QED BY <1>2, <1>5 DEF Correlated

(***************************************************************************)
(* A path is drawn red only for a stage of execution, impact, exfiltration *)
(* or exploitation: no probability makes an earlier one red (build_nodes,  *)
(* build_edges).                                                           *)
(***************************************************************************)
THEOREM RedPathsAreLate ==
  ASSUME NEW stage \in Stages, NEW prob \in 0..100, NEW i \in 1..2,
         EdgeColour(i, stage, prob) = "red"
  PROVE  stage \in {"Execution", "Impact", "Exfiltration", "Exploitation"}
<1>1. EdgeSum(i, stage, prob) > 2100  BY DEF EdgeColour
<1>2. SUFFICES ASSUME stage \in {"Benign", "Reconnaissance", "Initial_Access"}
               PROVE  ~(EdgeSum(i, stage, prob) > 2100)
  BY <1>1 DEF Stages
<1> DEFINE base == StageSeverity(stage)
<1>3. base \in {50, 200, 400}  BY <1>2 DEF StageSeverity
<1>4. NodeSeverities(stage) = <<base + 100, (base * 6) \div 10, (base * 9) \div 10>>
  BY <1>3 DEF NodeSeverities
<1> DEFINE n == NodeSeverities(stage)
<1> HIDE DEF base
<1>5. n[1] \in 0..500 /\ n[2] \in 0..240 /\ n[3] \in 0..360  BY <1>3, <1>4
<1>6. EdgeSum(i, stage, prob) = 10 * prob + n[i] + n[i + 1]  BY DEF EdgeSum
<1> HIDE DEF n
<1>7. n[i] \in 0..500 /\ n[i + 1] \in 0..360
  <2>1. CASE i = 1
    <3>1. i + 1 = 2  BY <2>1
    <3>2. n[i] = n[1] /\ n[i + 1] = n[2]  BY <2>1, <3>1, Zenon
    <3> QED BY <1>5, <3>2
  <2>2. CASE i = 2
    <3>1. i + 1 = 3  BY <2>2
    <3>2. n[i] = n[2] /\ n[i + 1] = n[3]  BY <2>2, <3>1, Zenon
    <3> QED BY <1>5, <3>2
  <2> QED BY <2>1, <2>2
<1>8. 10 * prob \in 0..1000  OBVIOUS
<1> DEFINE p == 10 * prob
           u == n[i]
           v == n[i + 1]
<1>9. EdgeSum(i, stage, prob) = p + u + v  BY <1>6
<1>10. p \in 0..1000 /\ u \in 0..500 /\ v \in 0..360  BY <1>7, <1>8
<1> HIDE DEF p, u, v
<1>11. ~(p + u + v > 2100)  BY <1>10
<1> QED BY <1>9, <1>11
================================================================================
