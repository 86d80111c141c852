----------------------------- MODULE StoresProofs -----------------------------
(***************************************************************************)
(* Theorems about what Layer 3 keeps: the audit files (AuditFile), for any *)
(* number of records, days and crashes, and the incident memory            *)
(* (IncidentMemory), for any number of inserts and connections; and about  *)
(* what the orchestrator keeps of a clock: its token bucket (TokenBucket), *)
(* for every rate, every capacity and every behaviour of the clock.        *)
(***************************************************************************)
EXTENDS AuditFile, IncidentMemory, TokenBucket, TLAPS

LEMMA NoEntryIsNone == NoEntry \notin Entries
<1> SUFFICES ASSUME NoEntry \in Entries PROVE FALSE
  OBVIOUS
<1>1. NoEntry.id \in Nat BY DEF Entries
<1>2. NoEntry.id = -1 BY DEF NoEntry
<1> QED BY <1>1, <1>2

LEMMA Appended ==
  ASSUME NEW S, NEW s \in Seq(S), NEW e \in S
  PROVE  /\ Append(s, e) \in Seq(S)
         /\ Len(s) \in Nat /\ DOMAIN s = 1..Len(s) /\ DOMAIN Append(s, e) = 1..(Len(s) + 1)
         /\ Append(s, e)[Len(s) + 1] = e
         /\ \A i \in 1..Len(s) : Append(s, e)[i] = s[i]
OBVIOUS

LEMMA Filed ==
  ASSUME AuditTypeOK, NEW d \in Nat, NEW i \in DOMAIN files[d]
  PROVE  files[d][i] \in Entries /\ files[d][i].id \in Nat /\ files[d][i].at \in Nat
<1>1. files[d] \in Seq(Entries)
  BY DEF AuditTypeOK
<1>2. files[d][i] \in Entries
  BY <1>1
<1> QED BY <1>2 DEF Entries

LEMMA AuditInitInv == AuditInit => AuditInv
<1> SUFFICES ASSUME AuditInit PROVE AuditInv
  OBVIOUS
<1>1. \A d \in Nat : files[d] = <<>> /\ DOMAIN files[d] = {}
  BY DEF AuditInit
<1>2. files \in [Nat -> Seq(Entries)] /\ tmp \in Seq(Entries)
  BY DEF AuditInit
<1>3. AuditTypeOK
  BY <1>2 DEF AuditInit, AuditTypeOK, Places
<1>4. InOrder /\ FiledOnce
  BY <1>1 DEF InOrder, FiledOnce
<1>5. CopyIsCurrent
  BY <1>1 DEF CopyIsCurrent, AuditInit
<1> QED BY <1>3, <1>4, <1>5 DEF AuditInv

\* What a step keeps that leaves the files alone.
LEMMA FilesKept ==
  ASSUME AuditInv, files' = files PROVE InOrder' /\ FiledOnce'
BY DEF AuditInv, InOrder, FiledOnce

\* The end of a writing without a record in the file.
LEMMA Abandoned ==
  ASSUME AuditInv, UNCHANGED <<day, files, path, issued>>, writer' = "idle",
         entry' = NoEntry, tmp' = <<>>, litter' \in Nat, told' \subseteq Nat
  PROVE  AuditInv'
<1>1. AuditTypeOK'
  <2>1. tmp' \in Seq(Entries) OBVIOUS
  <2> QED BY <2>1 DEF AuditInv, AuditTypeOK, Places
<1>2. CopyIsCurrent'
  BY DEF AuditInv, CopyIsCurrent
<1> QED BY <1>1, <1>2, FilesKept DEF AuditInv

LEMMA MakeInv ==
  ASSUME AuditInv, NEW kind \in Kinds, NEW alert \in AlertIds, Make(kind, alert)
  PROVE  AuditInv'
<1>1. entry' \in Entries /\ entry'.id = issued /\ entry'.at = day
  BY DEF AuditInv, AuditTypeOK, Make, Entries
<1>2. AuditTypeOK'
  BY <1>1 DEF AuditInv, AuditTypeOK, Make, Places
<1>3. \A d \in Nat : \A i \in DOMAIN files[d] : files[d][i].id < issued
  BY DEF AuditInv, CopyIsCurrent
<1>4. \A d \in Nat : \A i \in DOMAIN files[d] : files[d][i].id \in Nat
  BY Filed DEF AuditInv
<1>5. \A d \in Nat : \A i \in DOMAIN files[d] : files[d][i].id < issued + 1
  <2>1. issued \in Nat
    BY DEF AuditInv, AuditTypeOK
  <2> QED BY <1>3, <1>4, <2>1
<1>6. CopyIsCurrent'
  <2>1. writer' = "made" /\ files' = files /\ issued' = issued + 1 /\ day' = day
    BY DEF Make
  <2>2. issued \in Nat /\ day \in Nat
    BY DEF AuditInv, AuditTypeOK
  <2>3. entry'.id < issued' /\ entry'.at <= day'
    BY <1>1, <2>1, <2>2
  <2>4. \A d \in Nat : \A i \in DOMAIN files'[d] :
          files'[d][i].id < issued' /\ files'[d][i].id < entry'.id
    BY <1>1, <1>3, <1>5, <2>1
  <2> QED BY <1>1, <2>1, <2>3, <2>4 DEF CopyIsCurrent
<1> QED BY <1>2, <1>6, FilesKept DEF AuditInv, Make

LEMMA WriterInv ==
  ASSUME AuditInv, Create \/ Copy \/ AddLine PROVE AuditInv'
<1>1. CASE Create
  <2>1. AuditTypeOK' BY <1>1 DEF AuditInv, AuditTypeOK, Create, Places
  <2>2. CopyIsCurrent' BY <1>1 DEF AuditInv, CopyIsCurrent, Create
  <2> QED BY <1>1, <2>1, <2>2, FilesKept DEF AuditInv, Create
<1>2. CASE Copy
  <2>1. AuditTypeOK' BY <1>2 DEF AuditInv, AuditTypeOK, Copy, Places
  <2>2. CopyIsCurrent' BY <1>2 DEF AuditInv, CopyIsCurrent, Copy
  <2> QED BY <1>2, <2>1, <2>2, FilesKept DEF AuditInv, Copy
<1>3. CASE AddLine
  <2>1. entry \in Entries /\ tmp \in Seq(Entries)
    BY <1>3 DEF AuditInv, AuditTypeOK, CopyIsCurrent, AddLine
  <2>2. AuditTypeOK' BY <1>3, <2>1 DEF AuditInv, AuditTypeOK, AddLine, Places
  <2>3. CopyIsCurrent' BY <1>3 DEF AuditInv, CopyIsCurrent, AddLine
  <2> QED BY <1>3, <2>2, <2>3, FilesKept DEF AuditInv, AddLine
<1> QED BY <1>1, <1>2, <1>3

\* What replacing does: the day's file has one record more, with the highest
\* identifier of all.
LEMMA Replaced ==
  ASSUME AuditInv, Replace
  PROVE  /\ entry \in Entries /\ path \in Nat /\ entry.at <= path /\ entry.id < issued
         /\ files'[path] = Append(files[path], entry)
         /\ \A d \in Nat : d # path => files'[d] = files[d]
         /\ \A d \in Nat : \A i \in DOMAIN files[d] : files[d][i].id < entry.id
BY DEF AuditInv, AuditTypeOK, CopyIsCurrent, Replace

LEMMA ReplaceInv == ASSUME AuditInv, Replace PROVE AuditInv'
<1> DEFINE n == Len(files[path])
<1>1. /\ entry \in Entries /\ path \in Nat /\ entry.at <= path /\ entry.id < issued
      /\ files'[path] = Append(files[path], entry)
      /\ \A d \in Nat : d # path => files'[d] = files[d]
      /\ \A d \in Nat : \A i \in DOMAIN files[d] : files[d][i].id < entry.id
  BY Replaced
<1>2. files \in [Nat -> Seq(Entries)] /\ issued \in Nat
  BY DEF AuditInv, AuditTypeOK
<1>3. /\ n \in Nat /\ DOMAIN files[path] = 1..n /\ DOMAIN files'[path] = 1..(n + 1)
      /\ files'[path][n + 1] = entry
      /\ \A i \in 1..n : files'[path][i] = files[path][i]
  <2>1. files[path] \in Seq(Entries)
    BY <1>1, <1>2
  <2> QED BY <1>1, <2>1, Appended
<1> HIDE DEF n
<1>4. entry.id \in Nat /\ entry.at \in Nat
  BY <1>1 DEF Entries
<1>5. \A d \in Nat : \A i \in DOMAIN files[d] :
        files[d][i].id \in Nat /\ files[d][i].at \in Nat
  BY Filed DEF AuditInv
<1>6. AuditTypeOK'
  <2>1. files' \in [Nat -> Seq(Entries)]
    <3>1. files[path] \in Seq(Entries)
      BY <1>1, <1>2
    <3>2. Append(files[path], entry) \in Seq(Entries)
      BY <1>1, <3>1, Appended
    <3>3. files' = [files EXCEPT ![path] = tmp] /\ tmp = Append(files[path], entry)
      BY DEF AuditInv, CopyIsCurrent, Replace
    <3>4. files' = [files EXCEPT ![path] = Append(files[path], entry)]
      BY <3>3
    <3> QED BY <1>1, <1>2, <3>2, <3>4
  <2>2. told \subseteq Nat /\ told' = told \cup {entry.id} /\ tmp' = <<>>
    BY DEF AuditInv, AuditTypeOK, Replace, Return
  <2>3. told' \subseteq Nat
    BY <1>4, <2>2
  <2>4. tmp' \in Seq(Entries)
    BY <2>2
  <2> QED BY <2>1, <2>3, <2>4 DEF AuditInv, AuditTypeOK, Replace, Return, Places
<1>7. ASSUME NEW d \in Nat, NEW i \in DOMAIN files'[d]
      PROVE  \/ i \in DOMAIN files[d] /\ files'[d][i] = files[d][i]
             \/ d = path /\ i = n + 1 /\ files'[d][i] = entry
  <2>1. CASE d = path /\ i = n + 1 BY <1>3, <2>1
  <2>2. CASE d = path /\ i # n + 1
    <3>1. i \in 1..n BY <1>3, <1>7, <2>2
    <3> QED BY <1>3, <2>2, <3>1
  <2>3. CASE d # path BY <1>1, <1>7, <2>3
  <2> QED BY <2>1, <2>2, <2>3
<1>8. InOrder'
  <2> SUFFICES ASSUME NEW d \in Nat, NEW i \in DOMAIN files'[d], NEW j \in DOMAIN files'[d], i < j
               PROVE  files'[d][i].id < files'[d][j].id
    BY DEF InOrder
  <2>1. CASE j \in DOMAIN files[d] /\ files'[d][j] = files[d][j]
               /\ i \in DOMAIN files[d] /\ files'[d][i] = files[d][i]
    BY <2>1 DEF AuditInv, InOrder
  <2>2. CASE d = path /\ j = n + 1 /\ files'[d][j] = entry
               /\ i \in DOMAIN files[d] /\ files'[d][i] = files[d][i]
    BY <1>1, <2>2
  <2>3. CASE d = path /\ i = n + 1
    BY <1>3, <2>3
  <2> QED BY <1>7, <2>1, <2>2, <2>3
<1>9. FiledOnce'
  <2>1. ASSUME NEW d \in Nat, NEW i \in DOMAIN files'[d] PROVE files'[d][i].at <= d
    BY <1>1, <1>7 DEF AuditInv, FiledOnce
  <2>2. ASSUME NEW d \in Nat, NEW e \in Nat, NEW i \in DOMAIN files'[d], NEW j \in DOMAIN files'[e],
               files'[d][i].id = files'[e][j].id
        PROVE  d = e /\ i = j
    <3>1. \/ i \in DOMAIN files[d] /\ files'[d][i] = files[d][i]
          \/ d = path /\ i = n + 1 /\ files'[d][i] = entry
      BY <1>7
    <3>2. \/ j \in DOMAIN files[e] /\ files'[e][j] = files[e][j]
          \/ e = path /\ j = n + 1 /\ files'[e][j] = entry
      BY <1>7
    <3>3. CASE /\ i \in DOMAIN files[d] /\ files'[d][i] = files[d][i]
               /\ j \in DOMAIN files[e] /\ files'[e][j] = files[e][j]
      BY <2>2, <3>3 DEF AuditInv, FiledOnce
    <3>4. CASE /\ i \in DOMAIN files[d] /\ files'[d][i] = files[d][i]
               /\ files'[e][j] = entry
      BY <1>1, <1>4, <1>5, <2>2, <3>4
    <3>5. CASE /\ j \in DOMAIN files[e] /\ files'[e][j] = files[e][j]
               /\ files'[d][i] = entry
      BY <1>1, <1>4, <1>5, <2>2, <3>5
    <3> QED BY <3>1, <3>2, <3>3, <3>4, <3>5
  <2> QED BY <2>1, <2>2 DEF FiledOnce
<1>10. CopyIsCurrent'
  <2>1. issued' = issued /\ writer' = "idle"
    BY DEF Replace, Return
  <2>2. ASSUME NEW d \in Nat, NEW i \in DOMAIN files'[d] PROVE files'[d][i].id < issued
    BY <1>1, <1>7 DEF AuditInv, CopyIsCurrent
  <2> QED BY <2>1, <2>2 DEF CopyIsCurrent
<1> QED BY <1>6, <1>8, <1>9, <1>10 DEF AuditInv

LEMMA AuditStepInv == AuditInv /\ [AuditNext]_auditVars => AuditInv'
<1> SUFFICES ASSUME AuditInv, [AuditNext]_auditVars PROVE AuditInv'
  OBVIOUS
<1>1. ASSUME NEW kind \in Kinds, NEW alert \in AlertIds, Make(kind, alert) PROVE AuditInv'
  BY <1>1, MakeInv
<1>2. CASE Create \/ Copy \/ AddLine BY <1>2, WriterInv
<1>3. CASE Replace BY <1>3, ReplaceInv
<1>4. CASE Raise
  <2>1. entry.id \in Nat
    BY <1>4 DEF Raise, AuditInv, CopyIsCurrent, Entries
  <2>2. told \subseteq Nat /\ litter \in Nat
    BY DEF AuditInv, AuditTypeOK
  <2>3. litter' \in {litter, litter + 1} /\ told' = told \cup {entry.id}
    BY <1>4 DEF Raise, Return
  <2>4. litter' \in Nat
    BY <2>2, <2>3
  <2>5. told' \subseteq Nat
    BY <2>1, <2>2, <2>3
  <2> QED BY <1>4, <2>4, <2>5, Abandoned DEF Raise, Return
<1>5. CASE Die
  <2>1. told' \subseteq Nat /\ litter' \in Nat
    BY <1>5 DEF Die, AuditInv, AuditTypeOK
  <2> QED BY <1>5, <2>1, Abandoned DEF Die
<1>6. CASE Midnight
  <2>1. AuditTypeOK' BY <1>6 DEF Midnight, AuditInv, AuditTypeOK
  <2>2. writer # "idle" => entry.at \in Nat /\ entry.at <= day
    BY DEF AuditInv, CopyIsCurrent, Entries
  <2>3. day \in Nat BY DEF AuditInv, AuditTypeOK
  <2>4. writer # "idle" => entry.at <= day + 1
    BY <2>2, <2>3
  <2>5. /\ UNCHANGED <<files, writer, entry, path, tmp, issued>> /\ day' = day + 1
    BY <1>6 DEF Midnight
  <2>6. CopyIsCurrent BY DEF AuditInv
  <2>7. CopyIsCurrent'
    <3>1. writer' = writer /\ entry' = entry /\ files' = files /\ path' = path
          /\ tmp' = tmp /\ issued' = issued
      BY <2>5
    <3> QED BY <2>4, <2>5, <2>6, <3>1 DEF CopyIsCurrent
  <2> QED BY <1>6, <2>1, <2>7, FilesKept DEF Midnight, AuditInv
<1>7. CASE UNCHANGED auditVars
  <2>1. AuditTypeOK' BY <1>7 DEF auditVars, AuditInv, AuditTypeOK
  <2>2. CopyIsCurrent' BY <1>7 DEF auditVars, AuditInv, CopyIsCurrent
  <2> QED BY <1>7, <2>1, <2>2, FilesKept DEF auditVars, AuditInv
<1> QED BY <1>1, <1>2, <1>3, <1>4, <1>5, <1>6, <1>7 DEF AuditNext

(***************************************************************************)
(* The files hold whole records in the order they were made, each in one   *)
(* file, wherever the process dies and whatever raises (_atomic_append,    *)
(* "preventing corruption on crash").                                      *)
(***************************************************************************)
THEOREM RecordsAreFiledOnce == AuditSpec => [](InOrder /\ FiledOnce)
<1>1. AuditInv => InOrder /\ FiledOnce BY DEF AuditInv
<1> QED BY <1>1, AuditInitInv, AuditStepInv, PTL DEF AuditSpec

(***************************************************************************)
(* No step takes a record out of a file or changes one, and none adds more *)
(* than one record: the handlers may take the writing of a record for one  *)
(* step ("Immutable JSON Lines compliance audit trail").                   *)
(***************************************************************************)
THEOREM FilesOnlyGrow == AuditSpec => OnlyAppends
<1>1. AuditInv /\ [AuditNext]_auditVars => [\A d \in Nat : Grows(d)]_auditVars
  <2> SUFFICES ASSUME AuditInv, AuditNext PROVE \A d \in Nat : Grows(d)
    OBVIOUS
  <2>1. CASE Replace BY <2>1, Replaced DEF Grows
  <2>2. CASE ~Replace
    <3>1. files' = files
      BY <2>2 DEF AuditNext, Make, Create, Copy, AddLine, Raise, Die, Midnight
    <3> QED BY <3>1 DEF Grows
  <2> QED BY <2>1, <2>2
<1> QED BY <1>1, AuditInitInv, AuditStepInv, PTL DEF AuditSpec, OnlyAppends
-----------------------------------------------------------------------------
LEMMA StatementNames ==
  /\ \A k \in 1..5 : Statements[k] \in Needed
  /\ Tables \subseteq Needed
  /\ \A x \in Needed : \E k \in 1..5 : x = Statements[k]
BY DEF Needed, Tables

LEMMA MemoryInitInv == MemoryInit => MemoryInv
<1> SUFFICES ASSUME MemoryInit PROVE MemoryInv
  OBVIOUS
<1>1. \A i \in Inserts : insert[i] = "none" /\ i \notin rows
  BY DEF MemoryInit
<1>2. MemoryTypeOK
  <2>1. leaked \in BOOLEAN
    BY DEF MemoryInit
  <2>2. step \in 1..8 /\ rows \subseteq Inserts /\ insert \in [Inserts -> Outcomes]
    BY DEF MemoryInit, Outcomes
  <2> QED BY <2>1, <2>2 DEF MemoryInit, MemoryTypeOK
<1>3. SchemaBeforeService /\ LoggedIsStored /\ Passed
  BY <1>1 DEF MemoryInit, SchemaBeforeService, LoggedIsStored, Passed
<1> QED BY <1>2, <1>3 DEF MemoryInv

LEMMA LifespanInv ==
  ASSUME MemoryInv, Start \/ NoPool \/ CreatePool \/ Stop \/ ClosePool
  PROVE  MemoryInv'
<1>1. MemoryTypeOK'
  BY DEF MemoryInv, MemoryTypeOK, Start, NoPool, CreatePool, Stop, ClosePool
<1>2. SchemaBeforeService'
  BY DEF MemoryInv, SchemaBeforeService, Start, NoPool, CreatePool, Stop, ClosePool
<1>3. LoggedIsStored'
  BY DEF MemoryInv, LoggedIsStored, Start, NoPool, CreatePool, Stop, ClosePool
<1>4. Passed'
  <2>1. CASE Start
    BY <2>1 DEF MemoryInv, Passed, Start
  <2>2. CASE NoPool \/ Stop
    BY <2>2 DEF MemoryInv, Passed, NoPool, Stop
  <2>3. CASE CreatePool
    BY <2>3 DEF MemoryInv, Passed, CreatePool
  <2>4. CASE ClosePool
    BY <2>4 DEF MemoryInv, Passed, ClosePool, Executing
  <2> QED BY <2>1, <2>2, <2>3, <2>4
<1> QED BY <1>1, <1>2, <1>3, <1>4 DEF MemoryInv

LEMMA StatementInv ==
  ASSUME MemoryInv, Execute \/ StatementFails \/ Initialised PROVE MemoryInv'
<1> DEFINE Old == Statements[step]
<1>1. step \in Nat /\ server = "starting" /\ pool = "open"
  BY DEF MemoryInv, MemoryTypeOK, Execute, StatementFails, Initialised
<1>2. schema \subseteq schema' /\ insert' = insert /\ rows' = rows
  BY DEF Execute, StatementFails, Initialised
<1>3. \A k \in 1..5 : k < step => Statements[k] \in schema'
  BY <1>1, <1>2 DEF MemoryInv, Passed
<1>4. MemoryTypeOK'
  <2>1. leaked' = leaked \/ leaked' = TRUE
    BY DEF Execute, StatementFails, Initialised
  <2>2. leaked' \in BOOLEAN
    BY <2>1 DEF MemoryInv, MemoryTypeOK
  <2>3. /\ step' \in 1..8 /\ pool' \in {"none", "open"}
        /\ server' \in {"down", "starting", "serving", "stopping"}
    BY <1>1 DEF MemoryInv, MemoryTypeOK, Execute, StatementFails, Initialised
  <2> QED BY <1>2, <2>2, <2>3 DEF MemoryInv, MemoryTypeOK
<1>5. LoggedIsStored'
  BY <1>2 DEF MemoryInv, LoggedIsStored
<1>6. \A i \in Inserts : insert[i] \notin {"scheduled", "executing"}
  BY <1>1 DEF MemoryInv, Passed
<1>7. CASE Initialised
  <2>1. step = 8 /\ server' = "serving" /\ pool' = "open"
    BY <1>1, <1>7 DEF Initialised
  <2>2. \A k \in 1..5 : Statements[k] \in schema'
    BY <1>3, <2>1
  <2>3. SchemaBeforeService'
    BY <2>2, StatementNames DEF SchemaBeforeService
  <2>4. Passed'
    BY <1>2, <1>6, <2>1 DEF Passed
  <2> QED BY <1>4, <1>5, <2>3, <2>4 DEF MemoryInv
<1>8. CASE step' = step + 1 /\ server' = "starting" /\ pool' = "open"
           /\ (Old \in schema' \/ step > 5)
  <2> HIDE DEF Old
  <2>1. ASSUME NEW k \in 1..5, k < step' PROVE Statements[k] \in schema'
    <3>1. CASE k < step BY <1>3, <3>1
    <3>2. CASE k = step BY <1>8, <3>2 DEF Old
    <3> QED BY <1>1, <1>8, <2>1, <3>1, <3>2
  <2>2. SchemaBeforeService'
    BY <1>8 DEF SchemaBeforeService
  <2>3. Passed'
    BY <1>2, <1>6, <1>8, <2>1 DEF Passed
  <2> QED BY <1>4, <1>5, <2>2, <2>3 DEF MemoryInv
<1>9. CASE server' = "serving" /\ pool' = "none"
  <2>1. SchemaBeforeService' BY <1>9 DEF SchemaBeforeService
  <2>2. Passed' BY <1>2, <1>6, <1>9 DEF Passed
  <2> QED BY <1>4, <1>5, <2>1, <2>2 DEF MemoryInv
<1> QED BY <1>1, <1>7, <1>8, <1>9 DEF Execute, StatementFails, Old

LEMMA CallInv ==
  ASSUME MemoryInv, TablesGiven, NEW i \in Inserts,
         Schedule(i) \/ Skip(i) \/ AcquireConnection(i) \/ Insert(i) \/ InsertFails(i)
  PROVE  MemoryInv'
<1>1. /\ UNCHANGED <<server, pool, leaked, step, schema>>
      /\ rows' \in {rows, rows \cup {i}} /\ insert \in [Inserts -> Outcomes]
      /\ insert' \in [Inserts -> Outcomes]
      /\ \A j \in Inserts : j # i => insert'[j] = insert[j]
  BY DEF MemoryInv, MemoryTypeOK, Outcomes, Schedule, Skip, AcquireConnection, Insert, InsertFails
<1>2. MemoryTypeOK'
  BY <1>1 DEF MemoryInv, MemoryTypeOK
<1>3. SchemaBeforeService'
  BY <1>1 DEF MemoryInv, SchemaBeforeService
<1>4. insert[i] = "executing" => TableOf[i] \in schema
  BY StatementNames DEF MemoryInv, Passed, SchemaBeforeService, TablesGiven
<1>5. LoggedIsStored'
  <2>1. i \in rows' => TableOf[i] \in schema
    BY <1>4 DEF MemoryInv, LoggedIsStored, Schedule, Skip, AcquireConnection, Insert, InsertFails
  <2>2. insert'[i] = "inserted" => i \in rows'
    BY <1>1 DEF MemoryInv, LoggedIsStored, Schedule, Skip, AcquireConnection, Insert, InsertFails
  <2>3. insert'[i] \in {"none", "scheduled", "executing", "skipped"} => i \notin rows'
    BY <1>1 DEF MemoryInv, LoggedIsStored, Schedule, Skip, AcquireConnection, Insert, InsertFails
  <2>4. ASSUME NEW j \in Inserts, j # i
        PROVE  /\ j \in rows' => TableOf[j] \in schema
               /\ insert'[j] = "inserted" => j \in rows'
               /\ insert'[j] \in {"none", "scheduled", "executing", "skipped"} => j \notin rows'
    <3>1. (j \in rows' <=> j \in rows) /\ insert'[j] = insert[j]
      BY <1>1, <2>4
    <3> QED BY <3>1 DEF MemoryInv, LoggedIsStored
  <2> QED BY <1>1, <2>1, <2>2, <2>3, <2>4 DEF LoggedIsStored
<1>6. Passed'
  <2>1. insert'[i] = "executing" => pool = "open" /\ server \in {"serving", "stopping"}
    BY <1>1 DEF MemoryInv, Passed, Schedule, Skip, AcquireConnection, Insert, InsertFails
  <2>2. insert'[i] = "scheduled" => server \in {"serving", "stopping"}
    BY <1>1 DEF MemoryInv, Passed, Schedule, Skip, AcquireConnection, Insert, InsertFails
  <2> QED BY <1>1, <2>1, <2>2 DEF MemoryInv, Passed
<1> QED BY <1>2, <1>3, <1>5, <1>6 DEF MemoryInv

LEMMA EndInv == ASSUME MemoryInv, TablesGiven, End PROVE MemoryInv'
<1> DEFINE Ended(j) == IF insert[j] \in {"scheduled", "executing"} THEN "failed" ELSE insert[j]
<1>1. PICK done \in SUBSET Executing : rows' = rows \cup done
  BY DEF End
<1>2. /\ server' = "down" /\ pool' = "none" /\ leaked' = FALSE
      /\ UNCHANGED <<step, schema>>
      /\ insert' = [j \in Inserts |-> Ended(j)]
  BY DEF End
<1>3. \A j \in Inserts : insert'[j] = Ended(j)
  BY <1>2
<1>4. \A j \in Inserts : Ended(j) \in Outcomes /\ Ended(j) \notin {"scheduled", "executing"}
  BY DEF MemoryInv, MemoryTypeOK, Outcomes
<1>5. done \subseteq Inserts /\ \A j \in done : insert[j] = "executing"
  BY DEF Executing
<1>6. MemoryTypeOK'
  <2>1. insert' \in [Inserts -> Outcomes]
    BY <1>2, <1>4
  <2>2. rows' \subseteq Inserts
    BY <1>1, <1>5 DEF MemoryInv, MemoryTypeOK
  <2> QED BY <1>2, <2>1, <2>2 DEF MemoryInv, MemoryTypeOK
<1>7. LoggedIsStored'
  <2> SUFFICES ASSUME NEW j \in Inserts
               PROVE  /\ j \in rows' => TableOf[j] \in schema
                      /\ Ended(j) = "inserted" => j \in rows'
                      /\ Ended(j) \in {"none", "scheduled", "executing", "skipped"} => j \notin rows'
    BY <1>2, <1>3 DEF LoggedIsStored
  <2>1. j \in done => TableOf[j] \in schema
    BY <1>5, StatementNames DEF MemoryInv, Passed, SchemaBeforeService, TablesGiven
  <2>2. j \in done => Ended(j) = "failed"
    BY <1>5
  <2> QED BY <1>1, <2>1, <2>2 DEF MemoryInv, LoggedIsStored
<1> HIDE DEF Ended
<1>8. SchemaBeforeService' /\ Passed'
  BY <1>2, <1>3, <1>4 DEF SchemaBeforeService, Passed
<1> QED BY <1>6, <1>7, <1>8 DEF MemoryInv

LEMMA MemoryStepInv ==
  ASSUME TablesGiven PROVE MemoryInv /\ [MemoryNext]_memoryVars => MemoryInv'
<1> SUFFICES ASSUME MemoryInv, [MemoryNext]_memoryVars PROVE MemoryInv'
  OBVIOUS
<1>1. CASE UNCHANGED memoryVars
  BY <1>1 DEF memoryVars, MemoryInv, MemoryTypeOK, SchemaBeforeService, LoggedIsStored, Passed
<1>2. CASE \E i \in Inserts : Schedule(i) \/ Skip(i) \/ AcquireConnection(i) \/ Insert(i) \/ InsertFails(i)
  BY <1>2, CallInv
<1> QED BY <1>1, <1>2, LifespanInv, StatementInv, EndInv DEF MemoryNext

(***************************************************************************)
(* A handler that gets a pool finds the tables it writes, although         *)
(* init_pool publishes the pool before it creates the first, drops it when *)
(* a statement fails, and may die in between; and a row is there exactly   *)
(* for the calls logged as inserted and some of those logged as failed     *)
(* (init_pool, insert_incident_memory).                                    *)
(***************************************************************************)
THEOREM MemoryIsReadyWhenUsed ==
  ASSUME TablesGiven PROVE MemorySpec => [](SchemaBeforeService /\ LoggedIsStored)
<1>1. MemoryInv => SchemaBeforeService /\ LoggedIsStored BY DEF MemoryInv
<1> QED BY <1>1, MemoryInitInv, MemoryStepInv, PTL DEF MemorySpec
-----------------------------------------------------------------------------
(***************************************************************************)
(* The token bucket of the orchestrator (RateLimiter).                     *)
(***************************************************************************)
\* The products of the bound, which the provers cannot expand by themselves.
LEMMA RateSplits ==
  ASSUME NEW r \in Nat, NEW s \in Int, NEW t \in Int, NEW u \in Int
  PROVE  r * (t - s) + r * (u - t) = r * (u - s)
  BY SMT

LEMMA RateGrows ==
  ASSUME NEW r \in Nat, NEW s \in Int, NEW t \in Int, s <= t
  PROVE  r * s <= r * t
  BY SMT

LEMMA ProductIsInt ==
  ASSUME NEW r \in Nat, NEW t \in Int PROVE r * t \in Int
  BY SMT

LEMMA RefilledIsInt ==
  ASSUME Configured, TypeOK
  PROVE  /\ Refilled \in Int
         /\ Refilled <= Capacity
         /\ Refilled <= tokens + Rate * (now - last)
  <1> DEFINE gain == Rate * (now - last)
  <1>1. gain \in Int BY ProductIsInt DEF TypeOK, Configured
  <1> HIDE DEF gain
  <1>2. Refilled = IF tokens + gain > Capacity THEN Capacity ELSE tokens + gain
    BY DEF Refilled, gain
  <1>3. /\ Refilled \in Int /\ Refilled <= Capacity /\ Refilled <= tokens + gain
    BY <1>1, <1>2, SMT DEF TypeOK, Configured
  <1>. QED BY <1>3 DEF gain

LEMMA InitBInv == ASSUME Configured, Init PROVE BInv
  BY SMT DEF Configured, Init, BInv, TypeOK, Balance, BurstBound, Observing

\* The arithmetic of a request: what is spent and what is left stay below the
\* bound at the clock of the request, hence at the latest clock.
LEMMA RequestBalance ==
  ASSUME Configured, BInv, NEW spent \in Nat, NEW left \in Int,
         left + 1000 * spent = Refilled, left >= 0 \/ spent = 0,
         Acquire, tokens' = left, admitted' = admitted + spent
  PROVE  Balance' /\ BurstBound'
  <1> USE DEF BInv
  <1>1. left <= Capacity BY RefilledIsInt, SMT DEF Configured, TypeOK
  <1>2. CASE ~Observing
    <2>1. base' = now /\ peak' = now /\ last' = now /\ admitted = 0
      BY <1>2 DEF Acquire, BurstBound
    <2>2. Rate * (now - now) = 0 BY SMT DEF Configured, TypeOK
    <2>3. Rate * (last' - base') = 0 /\ Rate * (peak' - base') = 0 BY <2>1, <2>2
    <2>. QED BY <1>1, <2>1, <2>3, RefilledIsInt, SMT
         DEF Configured, TypeOK, Balance, BurstBound, Observing
  <1>3. CASE Observing
    <2> DEFINE a == Rate * (last - base)
               b == Rate * (now - last)
               c == Rate * (now - base)
               d == Rate * (LaterOf(peak, now) - base)
    <2>1. /\ base \in Nat /\ peak \in Nat /\ LaterOf(peak, now) \in Nat
          /\ now <= LaterOf(peak, now) /\ base <= LaterOf(peak, now)
      BY <1>3, SMT DEF TypeOK, Observing, Balance, LaterOf
    <2>2. a \in Int /\ b \in Int /\ c \in Int /\ d \in Int
      BY <2>1, ProductIsInt, SMT DEF TypeOK, Configured
    <2>3. a + b = c BY <2>1, RateSplits DEF TypeOK, Configured
    <2>4. c <= d
      <3>1. now - base \in Int /\ LaterOf(peak, now) - base \in Int
            /\ now - base <= LaterOf(peak, now) - base
        BY <2>1, SMT DEF TypeOK
      <3>. QED BY <3>1, RateGrows DEF Configured
    <2>5. Refilled <= tokens + b BY RefilledIsInt
    <2>6. 1000 * admitted + tokens <= Capacity + a BY <1>3 DEF Balance
    <2>7. /\ base' = base /\ last' = now /\ peak' = LaterOf(peak, now)
      BY <1>3 DEF Acquire
    <2>8. Rate * (last' - base') = c /\ Rate * (peak' - base') = d BY <2>7
    <2> DEFINE e == Rate * (peak - base)
    <2>p. e \in Int /\ e <= d
      <3>1. peak - base \in Int /\ LaterOf(peak, now) - base \in Int
            /\ peak - base <= LaterOf(peak, now) - base
        BY <2>1, SMT DEF TypeOK, LaterOf
      <3>. QED BY <3>1, RateGrows, ProductIsInt DEF Configured
    <2>q. 1000 * admitted <= Capacity + e BY <1>3 DEF BurstBound
    <2> HIDE DEF a, b, c, d, e
    <2>9. 1000 * (admitted + spent) + left <= Capacity + c
      BY <2>2, <2>3, <2>5, <2>6, RefilledIsInt, SMT DEF TypeOK, Configured
    <2>10. 1000 * (admitted + spent) <= Capacity + d
      <3>1. CASE left >= 0 BY <3>1, <2>2, <2>4, <2>9, SMT DEF TypeOK, Configured
      <3>2. CASE spent = 0 BY <3>2, <2>2, <2>p, <2>q, SMT DEF TypeOK, Configured
      <3>. QED BY <3>1, <3>2
    <2>11. Observing' BY <2>1, <2>7, SMT DEF Observing
    <2>. QED BY <1>1, <2>1, <2>7, <2>8, <2>9, <2>10, <2>11 DEF Balance, BurstBound
  <1>. QED BY <1>2, <1>3

LEMMA AdmitBInv == ASSUME Configured, BInv, Admit PROVE BInv'
  <1>1. Refilled \in Int BY RefilledIsInt DEF BInv
  <1>2. Refilled - 1000 \in Int /\ Refilled - 1000 >= 0
        /\ (Refilled - 1000) + 1000 * 1 = Refilled
    BY <1>1, SMT DEF Admit
  <1>3. Balance' /\ BurstBound' BY <1>2, RequestBalance DEF Admit
  <1>4. TypeOK'
    BY <1>2, SMT DEF BInv, TypeOK, Admit, Acquire, Observing, LaterOf
  <1>. QED BY <1>3, <1>4 DEF BInv

LEMMA RejectBInv == ASSUME Configured, BInv, Reject PROVE BInv'
  <1>1. Refilled \in Int BY RefilledIsInt DEF BInv
  <1>2. Refilled + 1000 * 0 = Refilled BY <1>1, SMT
  <1>3. admitted' = admitted + 0 BY SMT DEF Reject, BInv, TypeOK
  <1>4. Balance' /\ BurstBound' BY <1>1, <1>2, <1>3, RequestBalance DEF Reject
  <1>5. TypeOK'
    BY <1>1, SMT DEF BInv, TypeOK, Reject, Acquire, Observing, LaterOf
  <1>. QED BY <1>4, <1>5 DEF BInv

LEMMA NextBInv == ASSUME Configured, BInv, [Next]_vars PROVE BInv'
  <1>1. CASE Admit BY <1>1, AdmitBInv
  <1>2. CASE Reject BY <1>2, RejectBInv
  <1>3. CASE Clock
    BY <1>3 DEF Clock, historyVars, BInv, TypeOK, Balance, BurstBound, Observing
  <1>4. CASE Observe
    <2>1. base' = -1 /\ peak' = -1 /\ admitted' = 0 /\ tokens' = tokens
      BY <1>4 DEF Observe
    <2>2. TypeOK' BY <1>4, <2>1, SMT DEF Observe, BInv, TypeOK
    <2>3. ~Observing' BY <2>1 DEF Observing
    <2>. QED BY <2>1, <2>2, <2>3 DEF BInv, Balance, BurstBound
  <1>5. CASE UNCHANGED vars
    BY <1>5 DEF vars, historyVars, BInv, TypeOK, Balance, BurstBound, Observing
  <1>. QED BY <1>1, <1>2, <1>3, <1>4, <1>5 DEF Next

(***************************************************************************)
(* From whatever moment one counts, the pipelines let in are at most the   *)
(* burst and the refill up to the latest clock seen, also when the clock   *)
(* is set back and forward again in between (RateLimiter.acquire): no span *)
(* is refilled twice.                                                      *)
(***************************************************************************)
THEOREM ClockCannotMintTokens ==
  ASSUME Configured PROVE Spec => []BurstBound
  <1>1. Init => BInv BY InitBInv
  <1>2. BInv /\ [Next]_vars => BInv' BY NextBInv
  <1>3. BInv => BurstBound BY DEF BInv
  <1>. QED BY <1>1, <1>2, <1>3, PTL DEF Spec

(***************************************************************************)
(* A request that comes after time enough for one token is admitted,       *)
(* unless an earlier step back of the clock left the bucket in debt        *)
(* (acquire adds the elapsed time before it looks).                        *)
(***************************************************************************)
THEOREM TimeIsEnough ==
  ASSUME Configured, TypeOK, Refills PROVE Refilled >= 1000 /\ ~Reject
  <1> DEFINE gain == Rate * (now - last)
  <1>1. gain \in Int /\ gain >= 1000 BY ProductIsInt DEF TypeOK, Configured, Refills
  <1> HIDE DEF gain
  <1>2. Refilled = IF tokens + gain > Capacity THEN Capacity ELSE tokens + gain
    BY DEF Refilled, gain
  <1>3. Refilled >= 1000
    BY <1>1, <1>2, SMT DEF TypeOK, Configured, Refills
  <1>. QED BY <1>3, RefilledIsInt, SMT DEF Reject

(***************************************************************************)
(* A clock set back further than the bucket is deep turns the refill into  *)
(* a debt: the next request is rejected although the bucket was full, and  *)
(* the debt stays (acquire subtracts the negative elapsed time).           *)
(***************************************************************************)
THEOREM BackwardClockLeavesDebt ==
  ASSUME Configured, BInv, SetBack
  PROVE  /\ ~Admit
         /\ Reject => tokens' < 0 /\ last' = now
  <1> DEFINE loss == Rate * (last - now)
             gain == Rate * (now - last)
  <1>1. loss \in Int /\ gain \in Int
    BY ProductIsInt DEF BInv, TypeOK, Configured
  <1>2. gain + loss = 0
    <2>1. gain + loss = Rate * (now - now)
      BY RateSplits DEF BInv, TypeOK, Configured
    <2>. QED BY <2>1, SMT DEF BInv, TypeOK, Configured
  <1>3. loss > Capacity BY DEF SetBack
  <1>4. Refilled <= tokens + gain BY RefilledIsInt DEF BInv
  <1> HIDE DEF loss, gain
  <1>5. Refilled < 0
    BY <1>1, <1>2, <1>3, <1>4, RefilledIsInt, SMT DEF BInv, TypeOK, Configured, Balance
  <1>. QED BY <1>5, RefilledIsInt, SMT DEF BInv, Admit, Reject, Acquire
================================================================================
