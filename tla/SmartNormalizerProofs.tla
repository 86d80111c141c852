------------------------- MODULE SmartNormalizerProofs -------------------------
(***************************************************************************)
(* Theorems about the batch normalizer, and about the logs that its        *)
(* parsers cannot read (SmartFormats).                                     *)
(***************************************************************************)
EXTENDS SmartFormats, SmartNormalizer, FiniteSetTheorems, SequenceTheorems, TLAPS

\* A text that no parser knows, which becomes {"_raw": ...} (_parse_raw).
Unread(raw) ==
  Unparsed(raw) /\ raw.json = "nothing" /\ ~raw.pairs /\ ~(raw.type = "text" /\ raw.snort)

LEMMA UnreadHasNoFields ==
  ASSUME NEW raw \in RawLogs, Unread(raw) PROVE Fields(raw) = {}
<1>1. Format(raw) \in {"unknown", "pipe_delimited"}  BY DEF Unread, Unparsed
<1>2. Fields(raw) = UnparsedFields(raw)  BY <1>1 DEF Fields
<1> QED BY <1>2 DEF UnparsedFields, Unread

(***************************************************************************)
(* All texts that no parser knows are events without a field or a time, so *)
(* they have one fingerprint: the dedup keeps one per window and drops the *)
(* others as duplicates, whatever they say (_parse_raw, _fingerprint).     *)
(***************************************************************************)
THEOREM UnreadTextsAreOneEvent ==
  ASSUME NEW r \in RawLogs, NEW s \in RawLogs, Unread(r), Unread(s)
  PROVE  /\ Kind(r) = "event" /\ Kind(s) = "event"
         /\ Key(r) = Key(s)
         /\ ~Dated(r) /\ ~Dated(s)
<1>1. Fields(r) = {} /\ Fields(s) = {}  BY UnreadHasNoFields
<1>2. Format(r) \in {"unknown", "pipe_delimited"} /\ r.json = "nothing"
  BY DEF Unread, Unparsed
<1>3. Format(s) \in {"unknown", "pipe_delimited"} /\ s.json = "nothing"
  BY DEF Unread, Unparsed
<1>4. Kind(r) = "event"  BY <1>2 DEF Kind
<1>5. Kind(s) = "event"  BY <1>3 DEF Kind
<1>6. Key(r) = Key(s)  BY <1>1 DEF Key, Value
<1> QED BY <1>1, <1>4, <1>5, <1>6 DEF Dated

(***************************************************************************)
(* A log is dropped without a trace only in a format whose parser may give *)
(* nothing.  A line of Snort that begins with its mark is, since "[" is    *)
(* taken for JSON; so is a line of PAN-OS whose quoted commas leave fewer  *)
(* than ten fields (_detect_format, _parse_panos_csv, normalize_batch).    *)
(***************************************************************************)
THEOREM DroppedFormats ==
  ASSUME NEW raw \in RawLogs
  PROVE  /\ Kind(raw) = "nothing" =>
              Format(raw) \in {"dict", "json", "cef", "leef", "cef_variant",
                               "zeek_tsv", "panos_csv"}
         /\ raw.type = "text" /\ raw.start = "[" /\ raw.json = "nothing" => Kind(raw) = "nothing"
         /\ Format(raw) = "panos_csv" => (Kind(raw) = "nothing" <=> raw.cells < 10)
<1>1. Kind(raw) = "nothing" =>
        Format(raw) \in {"dict", "json", "cef", "leef", "cef_variant", "zeek_tsv", "panos_csv"}
  BY DEF Kind
<1>2. ASSUME raw.type = "text", raw.start = "[", raw.json = "nothing"
      PROVE  Kind(raw) = "nothing"
  <2>1. Format(raw) = "json"  BY <1>2 DEF Format
  <2> QED BY <1>2, <2>1 DEF Kind, Unparsed
<1>3. Format(raw) = "panos_csv" => (Kind(raw) = "nothing" <=> raw.cells < 10)
  BY DEF Kind, Unparsed
<1> QED BY <1>1, <1>2, <1>3
-----------------------------------------------------------------------------
(***************************************************************************)
(* The batch normalizer.                                                   *)
(***************************************************************************)
LEMMA NumberRange == ASSUME NEW v \in Int PROVE NumberId(v) \in 1..5
<1>1. CASE v % 100 = 0 /\ v \in 100..700
  <2>1. v \div 100 \in 1..7
    BY <1>1
  <2>2. \A n \in 1..7 : <<1, 2, 3, 3, 4, 5, 5>>[n] \in 1..5
    OBVIOUS
  <2>3. NumberId(v) = <<1, 2, 3, 3, 4, 5, 5>>[v \div 100]
    BY <1>1 DEF NumberId
  <2> QED
    BY <2>1, <2>2, <2>3
<1>2. CASE ~(v % 100 = 0 /\ v \in 100..700)
  BY <1>2 DEF NumberId
<1> QED
  BY <1>1, <1>2

LEMMA SeverityRange == ASSUME NEW s \in Severities PROVE SeverityId(s) \in 0..5
<1>1. s.value \in Int
  BY DEF Severities
<1>2. NumberId(s.value) \in 0..5
  BY <1>1, NumberRange
<1>3. s.label \in {"missing", "number", "critical", "high", "medium", "low", "info", "unknown"}
  BY DEF Severities
<1> QED
  BY <1>2, <1>3 DEF SeverityId

\* A bucket of times does not leave the range of the times.
LEMMA BucketInRange ==
  ASSUME NEW t \in 0..MaxTime PROVE t \div Bucket \in 0..(MaxTime \div Bucket)
<1>1. Bucket \in Nat /\ Bucket > 0 /\ MaxTime \in Nat /\ t \in Nat /\ t <= MaxTime
  BY TimesAssumption
<1> DEFINE q == t \div Bucket
           m == MaxTime \div Bucket
<1>2. q \in Int /\ m \in Int /\ Bucket * q <= t /\ t < Bucket * q + Bucket
      /\ Bucket * m <= MaxTime /\ MaxTime < Bucket * m + Bucket
  BY <1>1
<1>3. q >= 0 /\ q <= m
  <2> HIDE DEF q, m
  <2>1. CASE q > m
    <3>1. q >= m + 1
      BY <1>2, <2>1
    <3>2. Bucket * q >= Bucket * (m + 1)
      BY <1>1, <1>2, <3>1
    <3>3. Bucket * (m + 1) = Bucket * m + Bucket
      BY <1>1, <1>2
    <3> QED
      BY <1>1, <1>2, <3>2, <3>3
  <2>2. CASE q < 0
    <3>1. Bucket * q <= Bucket * (-1)
      BY <1>1, <1>2, <2>2
    <3>2. Bucket * (-1) = -Bucket
      BY <1>1
    <3> QED
      BY <1>1, <1>2, <3>1, <3>2
  <2> QED
    BY <1>2, <2>1, <2>2
<1> QED
  BY <1>2, <1>3

Logs == [kind : {"event", "nothing", "no keys"}, key : Keys,
         stamp : {"given", "absent", "unreadable"}, at : 1..MaxTime, severity : Severities]

LEMMA MappedType ==
  ASSUME now \in 0..MaxTime, NEW log \in Logs
  PROVE  /\ Mapped(log) \in Events /\ Fingerprint(Mapped(log)) \in Fingerprints
         /\ ~Mapped(log).corrected /\ ~Mapped(log).late
<1>1. log.key \in Keys /\ log.severity \in Severities /\ log.at \in 1..MaxTime
      /\ log.stamp \in {"given", "absent", "unreadable"}
  BY DEF Logs
<1>2. EventTime(log) \in 0..MaxTime
  BY <1>1, TimesAssumption DEF EventTime
<1>3. SeverityId(log.severity) \in 0..5
  BY <1>1, SeverityRange
<1>4. Mapped(log) \in Events /\ ~Mapped(log).corrected /\ ~Mapped(log).late
  BY <1>1, <1>2, <1>3 DEF Mapped, Events
<1>5. EventTime(log) \div Bucket \in 0..(MaxTime \div Bucket)
  BY <1>2, BucketInRange
<1>6. Fingerprint(Mapped(log)) \in Fingerprints
  BY <1>1, <1>5 DEF Fingerprint, Mapped, Fingerprints
<1> QED
  BY <1>4, <1>6

LEMMA SaneType ==
  ASSUME now \in 1..MaxTime, NEW event \in Events, ~event.corrected
  PROVE  /\ Sane(event) \in Events /\ Sane(event).time >= 1
         /\ Sane(event).corrected => Sane(event).time = now
<1>1. event.time \in 0..MaxTime
  BY DEF Events
<1>2. CASE event.time # 0 /\ Believed(event)
  BY <1>1, <1>2 DEF Sane
<1>3. CASE ~(event.time # 0 /\ Believed(event))
  <2>1. Sane(event) = [event EXCEPT !.time = now, !.corrected = (event.time # 0)]
    BY <1>3 DEF Sane
  <2> DEFINE b == event.time # 0
  <2>2. b \in BOOLEAN /\ Sane(event) = [event EXCEPT !.time = now, !.corrected = b]
    BY <2>1
  <2> HIDE DEF b
  <2>3. Sane(event) = [key |-> event.key, time |-> now, severity |-> event.severity,
                       corrected |-> b, late |-> event.late]
    BY <2>2 DEF Events
  <2>4. event.key \in Keys /\ event.severity \in 0..5 /\ event.late \in BOOLEAN /\ now \in 0..MaxTime
    BY TimesAssumption DEF Events
  <2> QED
    BY <2>2, <2>3, <2>4 DEF Events
<1> QED
  BY <1>2, <1>3

LEMMA FlaggedType ==
  ASSUME NEW event \in Events, NEW mark
  PROVE  /\ Flagged(event, mark) \in Events /\ Flagged(event, mark).time = event.time
         /\ Flagged(event, mark).corrected = event.corrected
         /\ Flagged(event, mark).late <=> (event.time <= now + Skew /\ event.time < mark)
<1>1. (event.time <= now + Skew /\ event.time < mark) \in BOOLEAN
  OBVIOUS
<1> QED
  BY <1>1 DEF Flagged, Events

\* A larger range of times keeps the history's type.
LEMMA LaterType ==
  ASSUME NEW m \in Nat, NEW n \in Nat, m <= n, NEW s \in Seq([fp : Fingerprints, at : 0..m])
  PROVE  s \in Seq([fp : Fingerprints, at : 0..n])
<1>1. [fp : Fingerprints, at : 0..m] \subseteq [fp : Fingerprints, at : 0..n]
  OBVIOUS
<1> QED
  BY <1>1, SeqMonotonic

\* The numbers among the variables and the constants.
LEMMA Clocks ==
  ASSUME TypeOK
  PROVE  /\ now \in Nat /\ now \in 1..MaxTime /\ now \in Start..MaxTime
         /\ Start \in Nat /\ MaxTime \in Nat
         /\ Disorder \in Nat /\ Disorder > 0 /\ Skew \in Nat
         /\ rotated \in Start..now /\ newest \in 0..now
         /\ watermark \in Int /\ watermark <= newest /\ times \subseteq 1..now
<1>1. /\ Start \in Nat /\ Start > 0 /\ MaxTime \in Nat
      /\ Disorder \in Nat /\ Disorder > 0 /\ Skew \in Nat
  BY TimesAssumption
<1>2. /\ now \in Start..MaxTime /\ rotated \in Start..now /\ newest \in 0..now
      /\ watermark \in Int /\ watermark <= newest /\ times \subseteq 1..now
  BY DEF TypeOK
<1>3. now \in Nat /\ now \in 1..MaxTime
  BY <1>1, <1>2
<1> QED
  BY <1>1, <1>2, <1>3

\* The log whose turn it is.
LEMMA LogType ==
  ASSUME TypeOK, position \in DOMAIN batch
  PROVE  /\ batch[position] \in Logs /\ now \in 1..MaxTime
         /\ position + 1 \in 0..(Len(batch) + 1)
<1>1. batch \in Batches
  <2>1. batch # <<>>
    OBVIOUS
  <2> QED
    BY <2>1 DEF TypeOK
<1>2. batch \in Seq(Logs)
  BY <1>1, BatchesAssumption DEF Logs
<1>3. now \in 1..MaxTime
  BY TimesAssumption DEF TypeOK
<1> QED
  BY <1>2, <1>3

LEMMA InitKeeps == Init => IInv
<1> SUFFICES ASSUME Init PROVE IInv
  OBVIOUS
<1> USE DEF Init
<1>1. TypeOK
  BY TimesAssumption DEF TypeOK
<1>2. FiltersRemember /\ OncePerWindow
  BY DEF FiltersRemember, OncePerWindow
<1>3. WatermarkFollows /\ SuppressedForACause /\ LateIsBehind
  BY DEF WatermarkFollows, SuppressedForACause, LateIsBehind
<1> QED
  BY <1>1, <1>2, <1>3 DEF IInv

\* Steps that neither ask the filters nor return.
LEMMA QuietKeeps ==
  ASSUME IInv, UNCHANGED <<filters, marks, out, history>>,
         now' \in now..MaxTime,
         batch' \in Batches \cup {<<>>}, position' \in 0..(Len(batch') + 1),
         events' = events \/ events' = <<>>
  PROVE  IInv'
<1> USE DEF IInv, filters, marks, history
<1>1. /\ now \in Nat /\ now' \in Nat /\ now <= now'
      /\ now' \in Start..MaxTime /\ rotated' \in Start..now' /\ newest' \in 0..now'
      /\ times' \subseteq 1..now'
  <2>1. rotated' = rotated /\ newest' = newest /\ times' = times
    OBVIOUS
  <2>2. /\ now \in Nat /\ Start \in Nat /\ now \in Start..MaxTime /\ MaxTime \in Nat
        /\ rotated \in Start..now /\ newest \in 0..now /\ times \subseteq 1..now
    BY Clocks
  <2>3. now' \in Nat /\ now <= now' /\ now' \in Start..MaxTime
    BY <2>2
  <2>4. rotated' \in Start..now' /\ newest' \in 0..now'
    BY <2>1, <2>2, <2>3
  <2>5. times' \subseteq 1..now'
    BY <2>1, <2>2, <2>3
  <2> QED
    BY <2>2, <2>3, <2>4, <2>5
<1>2. registered' \in Seq([fp : Fingerprints, at : 0..now'])
  BY <1>1, LaterType DEF TypeOK
<1>3. events' \in Seq(Events)
  <2>1. <<>> \in Seq(Events) /\ events \in Seq(Events)
    BY DEF TypeOK
  <2> QED
    BY <2>1
<1>4. TypeOK'
  BY <1>1, <1>2, <1>3 DEF TypeOK
<1>5. {Fingerprint(events[i]) : i \in DOMAIN events}' \subseteq {Fingerprint(events[i]) : i \in DOMAIN events}
  BY DEF Fingerprint
<1>6. FiltersRemember'
  BY <1>5 DEF FiltersRemember, Told
<1>7. WatermarkFollows'
  BY DEF WatermarkFollows
<1>8. OncePerWindow' /\ LateIsBehind'
  BY DEF OncePerWindow, LateIsBehind
<1>9. SuppressedForACause'
  BY DEF SuppressedForACause, Told
<1> QED
  BY <1>4, <1>6, <1>7, <1>8, <1>9

LEMMA BeginKeeps == ASSUME IInv, NEW logs \in Batches, Begin(logs) PROVE IInv'
<1>1. UNCHANGED <<now, filters, marks, out, history>> /\ batch' = logs /\ position' = 1 /\ events' = <<>>
  BY DEF Begin
<1>2. now' \in now..MaxTime
  BY <1>1, TimesAssumption DEF IInv, TypeOK
<1>3. Len(logs) \in Nat
  <2>1. logs \in Seq(Logs)
    BY BatchesAssumption DEF Logs
  <2> QED
    BY <2>1
<1> QED
  BY <1>1, <1>2, <1>3, QuietKeeps

LEMMA SkipLogKeeps == ASSUME IInv, SkipLog PROVE IInv'
<1>1. UNCHANGED <<now, filters, marks, batch, events, out, history>> /\ position' = position + 1
      /\ position \in DOMAIN batch
  BY DEF SkipLog
<1>2. now' \in now..MaxTime /\ batch' \in Batches \cup {<<>>}
  BY <1>1, TimesAssumption DEF IInv, TypeOK
<1>3. position' \in 0..(Len(batch') + 1)
  BY <1>1, LogType DEF IInv
<1> QED
  BY <1>1, <1>2, <1>3, QuietKeeps

LEMMA TickKeeps == ASSUME IInv, Tick PROVE IInv'
<1>1. UNCHANGED <<filters, marks, batch, position, events, out, history>> /\ now < MaxTime /\ now' = now + 1
  BY DEF Tick, reading
<1>2. now' \in now..MaxTime
  BY <1>1, TimesAssumption DEF IInv, TypeOK
<1>3. batch' \in Batches \cup {<<>>} /\ position' \in 0..(Len(batch') + 1)
  BY <1>1 DEF IInv, TypeOK
<1> QED
  BY <1>1, <1>2, <1>3, QuietKeeps

\* A batch that raised returns nothing.
LEMMA RaiseKeeps == ASSUME IInv, RaiseAt PROVE IInv'
<1> USE DEF IInv, filters, marks
<1>1. /\ lost' = lost \cup {Fingerprint(events[i]) : i \in DOMAIN events}
      /\ position' = 0 /\ batch' = <<>> /\ events' = <<>> /\ out' = <<>>
      /\ UNCHANGED <<now, filters, marks, registered, suppressed, times>>
  BY DEF RaiseAt
<1>2. TypeOK'
  BY <1>1 DEF TypeOK
<1>3. FiltersRemember'
  BY <1>1 DEF FiltersRemember, Told
<1>4. WatermarkFollows' /\ LateIsBehind'
  BY <1>1 DEF WatermarkFollows, LateIsBehind
<1>5. OncePerWindow'
  BY <1>1 DEF OncePerWindow
<1>6. SuppressedForACause'
  BY <1>1 DEF SuppressedForACause, FiltersRemember, Told
<1> QED
  BY <1>2, <1>3, <1>4, <1>5, <1>6

\* Asking the filters: a rotation forgets only what is too old, and moves the
\* rest to the previous filter.
Rotated == IF Due THEN now ELSE rotated

LEMMA RotationForgets ==
  ASSUME TypeOK, FiltersRemember
  PROVE  /\ \A i \in DOMAIN registered :
              \/ Hashes[registered[i].fp] \subseteq Current
              \/ Hashes[registered[i].fp] \subseteq Previous /\ registered[i].at <= Rotated
              \/ Rotated - registered[i].at > Window
         /\ Current \cup Previous \subseteq Told
         /\ Rotated \in Start..now /\ Current \subseteq Bits /\ Previous \subseteq Bits
<1>1. now \in Nat /\ rotated \in Nat /\ Window \in Nat /\ rotated \in Start..now /\ Start \in Nat
  <2>1. Window \in Nat
    BY TimesAssumption
  <2> QED
    BY <2>1, Clocks
<1>2. \A i \in DOMAIN registered : registered[i].at \in 0..now
  <2>1. registered \in Seq([fp : Fingerprints, at : 0..now])
    BY DEF TypeOK
  <2>2. \A i \in DOMAIN registered : registered[i] \in [fp : Fingerprints, at : 0..now]
    BY <2>1, ElementOfSeq, LenProperties
  <2> QED
    BY <2>2
<1>3. Rotated \in Start..now /\ (Due => Rotated = now /\ now - rotated > Window) /\ (~Due => Rotated = rotated)
  BY <1>1 DEF Rotated, Due
<1>4. ASSUME NEW i \in DOMAIN registered
      PROVE  \/ Hashes[registered[i].fp] \subseteq Current
             \/ Hashes[registered[i].fp] \subseteq Previous /\ registered[i].at <= Rotated
             \/ Rotated - registered[i].at > Window
  <2> DEFINE H == Hashes[registered[i].fp]
             at == registered[i].at
  <2>1. /\ at \in 0..now
        /\ H \subseteq current \/ (H \subseteq previous /\ at <= rotated) \/ rotated - at > Window
    BY <1>2 DEF FiltersRemember
  <2>2. (Due => Previous = current) /\ (~Due => Current = current /\ Previous = previous)
    BY DEF Current, Previous
  <2> HIDE DEF H, at
  <2>3. H \subseteq Current \/ (H \subseteq Previous /\ at <= Rotated) \/ Rotated - at > Window
    BY <1>1, <1>3, <2>1, <2>2
  <2> QED
    BY <2>3 DEF H, at
<1>5. Current \cup Previous \subseteq current \cup previous
  BY DEF Current, Previous
<1> QED
  BY <1>3, <1>4, <1>5 DEF FiltersRemember, TypeOK

\* An event is asked for: it is a duplicate, or it is registered.
LEMMA TakeEventKeeps == ASSUME IInv, TakeEvent PROVE IInv'
<1> USE DEF IInv
<1> DEFINE event == Mapped(batch[position])
           fp == Fingerprint(event)
           entry == [fp |-> fp, at |-> now]
<1>1. /\ position \in DOMAIN batch
      /\ previous' = Previous /\ rotated' = Rotated
      /\ \/ /\ Seen(fp) /\ current' = Current /\ suppressed' = suppressed \cup {fp}
            /\ UNCHANGED <<events, registered>>
         \/ /\ ~Seen(fp) /\ current' = Current \cup Hashes[fp]
            /\ registered' = Append(registered, entry) /\ events' = Append(events, event)
            /\ UNCHANGED suppressed
      /\ position' = position + 1
      /\ UNCHANGED <<now, marks, batch, out, lost, times>>
  BY DEF TakeEvent, Rotated
<1>2. batch[position] \in Logs /\ now \in 1..MaxTime /\ position + 1 \in 0..(Len(batch) + 1)
  BY <1>1, LogType
<1>3. event \in Events /\ fp \in Fingerprints /\ ~event.corrected /\ ~event.late
  <2>1. now \in 0..MaxTime
    BY <1>2, TimesAssumption
  <2> QED
    BY <1>2, <2>1, MappedType
<1>4. /\ \A i \in DOMAIN registered :
           \/ Hashes[registered[i].fp] \subseteq Current
           \/ Hashes[registered[i].fp] \subseteq Previous /\ registered[i].at <= Rotated
           \/ Rotated - registered[i].at > Window
      /\ Current \cup Previous \subseteq Told
      /\ Rotated \in Start..now /\ Current \subseteq Bits /\ Previous \subseteq Bits
  BY RotationForgets
<1>5. Hashes[fp] \subseteq Bits /\ entry \in [fp : Fingerprints, at : 0..now]
  BY <1>2, <1>3, HashesAssumption, TimesAssumption
<1>6. /\ registered \in Seq([fp : Fingerprints, at : 0..now]) /\ events \in Seq(Events)
      /\ Len(registered) \in Nat /\ DOMAIN registered = 1..Len(registered)
  BY DEF TypeOK
<1>7. WatermarkFollows /\ LateIsBehind /\ UNCHANGED <<newest, watermark, out, times>>
  BY <1>1 DEF marks
<1>8. LateIsBehind'
  BY <1>7 DEF LateIsBehind
<1>9. fp = Fingerprint(event)
  OBVIOUS
<1> HIDE DEF event, fp
<1>10. CASE Seen(fp) /\ current' = Current /\ suppressed' = suppressed \cup {fp}
            /\ UNCHANGED <<events, registered>>
  <2>1. TypeOK'
    BY <1>1, <1>2, <1>3, <1>4, <1>7, <1>10 DEF TypeOK
  <2>2. FiltersRemember'
    <3>1. Told' = Told
      BY <1>10 DEF Told
    <3>2. {Fingerprint(events[i]) : i \in DOMAIN events}' = {Fingerprint(events[i]) : i \in DOMAIN events}
      BY <1>10 DEF Fingerprint
    <3> QED
      BY <1>1, <1>4, <1>10, <3>1, <3>2 DEF FiltersRemember
  <2>3. WatermarkFollows' /\ OncePerWindow'
    BY <1>7, <1>10 DEF WatermarkFollows, OncePerWindow
  <2>4. SuppressedForACause'
    <3>1. Hashes[fp] \subseteq Told /\ Told' = Told
      BY <1>4, <1>10 DEF Seen, Told
    <3> QED
      BY <1>1, <1>10, <3>1 DEF SuppressedForACause
  <2> QED
    BY <1>8, <2>1, <2>2, <2>3, <2>4
<1>11. CASE /\ ~Seen(fp) /\ current' = Current \cup Hashes[fp]
            /\ registered' = Append(registered, entry) /\ events' = Append(events, event)
            /\ UNCHANGED suppressed
  <2> DEFINE n == Len(registered)
             m == Len(events)
  <2>1. /\ registered' \in Seq([fp : Fingerprints, at : 0..now])
        /\ DOMAIN registered' = 1..(n + 1) /\ n \in Nat
        /\ registered'[n + 1] = entry /\ \A i \in 1..n : registered'[i] = registered[i]
    BY <1>5, <1>6, <1>11
  <2>2. /\ events' \in Seq(Events) /\ DOMAIN events' = 1..(m + 1) /\ m \in Nat /\ DOMAIN events = 1..m
        /\ events'[m + 1] = event /\ \A i \in 1..m : events'[i] = events[i]
    BY <1>3, <1>6, <1>11
  <2>3. TypeOK'
    BY <1>1, <1>2, <1>4, <1>5, <1>7, <1>11, <2>1, <2>2 DEF TypeOK
  <2>4. Told' = Told \cup Hashes[fp]
    <3>1. \A i \in 1..(n + 1) : i \in 1..n \/ i = n + 1
      BY <2>1
    <3>2. entry.fp = fp
      OBVIOUS
    <3> HIDE DEF n, entry
    <3>3. Told' \subseteq Told \cup Hashes[fp]
      <4> SUFFICES ASSUME NEW bit \in Told' PROVE bit \in Told \cup Hashes[fp]
        OBVIOUS
      <4>1. PICK i \in 1..(n + 1) : bit \in Hashes[registered'[i].fp]
        BY <2>1 DEF Told
      <4>2. CASE i \in 1..n
        BY <1>6, <2>1, <4>1, <4>2 DEF Told, n
      <4>3. CASE i = n + 1
        BY <2>1, <3>2, <4>1, <4>3
      <4> QED
        BY <3>1, <4>2, <4>3
    <3>4. Told \subseteq Told'
      BY <1>6, <2>1 DEF Told, n
    <3>5. Hashes[fp] \subseteq Told'
      BY <2>1, <3>2 DEF Told
    <3> QED
      BY <3>3, <3>4, <3>5
  <2>5. {registered'[i].fp : i \in DOMAIN registered'} = {registered[i].fp : i \in DOMAIN registered} \cup {fp}
    <3>1. \A i \in 1..(n + 1) : i \in 1..n \/ i = n + 1
      BY <2>1
    <3>2. entry.fp = fp
      OBVIOUS
    <3> HIDE DEF n, entry
    <3>3. ASSUME NEW x \in {registered'[i].fp : i \in DOMAIN registered'}
          PROVE  x \in {registered[i].fp : i \in DOMAIN registered} \cup {fp}
      BY <1>6, <2>1, <3>1, <3>2 DEF n
    <3>4. ASSUME NEW x \in {registered[i].fp : i \in DOMAIN registered}
          PROVE  x \in {registered'[i].fp : i \in DOMAIN registered'}
      BY <1>6, <2>1 DEF n
    <3>5. fp \in {registered'[i].fp : i \in DOMAIN registered'}
      BY <2>1, <3>2
    <3> QED
      BY <3>3, <3>4, <3>5
  <2>6. FiltersRemember'
    <3>1. ASSUME NEW i \in DOMAIN registered'
          PROVE  \/ Hashes[registered'[i].fp] \subseteq current'
                 \/ Hashes[registered'[i].fp] \subseteq previous' /\ registered'[i].at <= rotated'
                 \/ rotated' - registered'[i].at > Window
      <4>1. CASE i \in 1..n
        BY <1>1, <1>4, <1>6, <1>11, <2>1, <4>1
      <4>2. CASE i = n + 1
        BY <1>11, <2>1, <4>2
      <4> QED
        BY <2>1, <4>1, <4>2
    <3>2. current' \cup previous' \subseteq Told'
      BY <1>1, <1>4, <1>11, <2>4
    <3>3. {Fingerprint(events'[i]) : i \in DOMAIN events'}
            \subseteq {registered'[i].fp : i \in DOMAIN registered'}
      <4>1. ASSUME NEW i \in DOMAIN events'
            PROVE  Fingerprint(events'[i]) \in {registered'[k].fp : k \in DOMAIN registered'}
        <5>1. CASE i \in 1..m
          BY <2>2, <2>5, <5>1 DEF FiltersRemember
        <5>2. CASE i = m + 1
          BY <1>9, <2>2, <2>5, <5>2
        <5> QED
          BY <2>2, <5>1, <5>2
      <4> QED
        BY <4>1
    <3>4. {Fingerprint(events[i]) : i \in DOMAIN events}' = {Fingerprint(events'[i]) : i \in DOMAIN events'}
      BY DEF Fingerprint
    <3> QED
      BY <3>1, <3>2, <3>3, <3>4 DEF FiltersRemember
  <2>7. OncePerWindow'
    <3> SUFFICES ASSUME NEW i \in 1..(n + 1), NEW j \in 1..(n + 1), i < j,
                        registered'[i].fp = registered'[j].fp
                 PROVE  registered'[j].at - registered'[i].at > Window
      BY <2>1 DEF OncePerWindow
    <3>1. CASE j \in 1..n
      <4>1. i \in 1..n
        BY <2>1, <3>1
      <4> QED
        BY <1>6, <2>1, <3>1, <4>1 DEF OncePerWindow
    <3>2. CASE j = n + 1
      <4>1. i \in 1..n /\ registered'[i] = registered[i] /\ registered[i].fp = fp /\ registered'[j].at = now
        BY <2>1, <3>2
      <4>2. ~(Hashes[fp] \subseteq Current) /\ ~(Hashes[fp] \subseteq Previous)
        BY <1>11 DEF Seen
      <4>3. Rotated - registered[i].at > Window
        BY <1>4, <1>6, <4>1, <4>2
      <4>4. registered[i].at \in 0..now
        <5>1. registered[i] \in [fp : Fingerprints, at : 0..now]
          BY <1>6, <4>1, ElementOfSeq
        <5> QED
          BY <5>1
      <4>5. now - registered[i].at > Window
        <5> DEFINE at == registered[i].at
        <5>1. Rotated \in Start..now /\ Start \in Nat /\ now \in Nat /\ Window \in Nat
          BY <1>2, <1>4, TimesAssumption
        <5>2. at \in 0..now /\ Rotated - at > Window
          BY <4>3, <4>4
        <5> HIDE DEF at
        <5>3. now - at > Window
          BY <5>1, <5>2
        <5> QED
          BY <5>3 DEF at
      <4> QED
        BY <4>1, <4>5
    <3> QED
      BY <2>1, <3>1, <3>2
  <2>8. WatermarkFollows'
    <3>1. \A i \in DOMAIN events' : ~events'[i].corrected /\ ~events'[i].late
      <4>1. ASSUME NEW i \in 1..(m + 1) PROVE ~events'[i].corrected /\ ~events'[i].late
        <5>1. CASE i \in 1..m
          BY <2>2, <5>1 DEF WatermarkFollows
        <5>2. CASE i = m + 1
          BY <1>3, <2>2, <5>2
        <5> QED
          BY <2>2, <5>1, <5>2
      <4> QED
        BY <2>2, <4>1
    <3> QED
      BY <1>7, <3>1 DEF WatermarkFollows
  <2>9. SuppressedForACause'
    BY <1>1, <1>11, <2>4, <2>5 DEF SuppressedForACause
  <2> QED
    BY <1>8, <2>3, <2>6, <2>7, <2>8, <2>9
<1> QED
  BY <1>1, <1>10, <1>11

\* A batch returns: its events are dated, ordered and flagged.
LEMMA ReturnKeeps == ASSUME IInv, Return PROVE IInv'
<1> USE DEF IInv
<1> DEFINE sane == [i \in DOMAIN events |-> Sane(events[i])]
           anchors == Anchors(sane)
           n == Len(events)
<1>1. /\ Watermarked /\ position' = 0 /\ batch' = <<>> /\ events' = <<>>
      /\ UNCHANGED <<now, current, previous, rotated, registered, lost, suppressed>>
  BY DEF Return, filters
<1>2. /\ times' = times \cup anchors
      /\ \E latest \in anchors \cup {newest} :
           /\ \A t \in anchors \cup {newest} : t <= latest
           /\ Returned(sane, latest, IF anchors = {} THEN watermark ELSE latest - Disorder)
  BY <1>1 DEF Watermarked
<1>3. /\ now \in Nat /\ now \in 1..MaxTime /\ Disorder \in Nat /\ Disorder > 0 /\ Skew \in Nat
      /\ newest \in 0..now /\ watermark \in Int /\ watermark <= newest /\ times \subseteq 1..now
  BY Clocks
<1>4. /\ n \in Nat /\ DOMAIN events = 1..n /\ DOMAIN sane = 1..n
      /\ \A i \in 1..n : events[i] \in Events
  <2>1. events \in Seq(Events)
    BY DEF TypeOK
  <2> QED
    BY <2>1
<1>5. \A i \in 1..n : /\ sane[i] \in Events /\ sane[i].time \in 1..MaxTime
                      /\ sane[i].corrected => sane[i].time = now
  <2> SUFFICES ASSUME NEW i \in 1..n
               PROVE  /\ sane[i] \in Events /\ sane[i].time \in 1..MaxTime
                      /\ sane[i].corrected => sane[i].time = now
    OBVIOUS
  <2>1. sane[i] = Sane(events[i]) /\ events[i] \in Events /\ ~events[i].corrected
    BY <1>4 DEF WatermarkFollows
  <2>2. Sane(events[i]) \in Events /\ Sane(events[i]).time >= 1
        /\ (Sane(events[i]).corrected => Sane(events[i]).time = now)
    BY <1>3, <2>1, SaneType
  <2>3. Sane(events[i]).time \in 0..MaxTime
    BY <2>2 DEF Events
  <2> QED
    BY <2>1, <2>2, <2>3, TimesAssumption
<1> HIDE DEF sane
<1>6. anchors \subseteq 1..now
  BY <1>3, <1>4, <1>5, TimesAssumption DEF Anchors
<1> HIDE DEF anchors
<1>7. PICK latest \in anchors \cup {newest} :
        /\ \A t \in anchors \cup {newest} : t <= latest
        /\ Returned(sane, latest, IF anchors = {} THEN watermark ELSE latest - Disorder)
  BY <1>2
<1> DEFINE mark == IF anchors = {} THEN watermark ELSE latest - Disorder
<1>8. PICK from \in InOrderOfTime(sane) :
        /\ newest' = latest /\ watermark' = mark
        /\ out' = [i \in DOMAIN sane |-> Flagged(sane[from[i]], mark)]
  BY <1>7 DEF Returned
<1>9. /\ \A i \in 1..n : from[i] \in 1..n
      /\ \A i, j \in 1..n : i < j => sane[from[i]].time <= sane[from[j]].time
  <2>1. from \in [1..n -> 1..n]
    BY <1>4 DEF InOrderOfTime
  <2>2. \A i, j \in 1..n : i < j => \/ sane[from[i]].time < sane[from[j]].time
                                     \/ sane[from[i]].time = sane[from[j]].time
    BY <1>4 DEF InOrderOfTime
  <2>3. \A i \in 1..n : sane[from[i]].time \in 1..MaxTime
    BY <1>5, <2>1
  <2>4. ASSUME NEW i \in 1..n, NEW j \in 1..n, i < j
        PROVE  sane[from[i]].time <= sane[from[j]].time
    <3> DEFINE a == sane[from[i]].time
               c == sane[from[j]].time
    <3>1. a \in Int /\ c \in Int /\ (a < c \/ a = c)
      BY <2>2, <2>3, <2>4
    <3> HIDE DEF a, c
    <3>2. a <= c
      BY <3>1
    <3> QED
      BY <3>2 DEF a, c
  <2> QED
    BY <2>1, <2>4
\* What the watermark is after the batch.
<1>10. /\ newest' \in 0..now /\ watermark' \in Int /\ watermark' <= newest'
       /\ times' \subseteq 1..now /\ \A t \in times' : t <= newest'
       /\ \/ times' = {} /\ newest' = 0 /\ watermark' = 0
          \/ newest' \in times' /\ watermark' = newest' - Disorder
  <2>1. /\ \A t \in times : t <= newest
        /\ \/ times = {} /\ newest = 0 /\ watermark = 0
           \/ newest \in times /\ watermark = newest - Disorder
    BY DEF WatermarkFollows
  <2>2. latest \in 0..now /\ newest <= latest
    BY <1>3, <1>6, <1>7
  <2>3. CASE anchors = {}
    <3>1. latest = newest /\ times' = times /\ mark = watermark
      BY <1>2, <1>7, <2>3
    <3> QED
      BY <1>3, <1>8, <2>1, <3>1
  <2>4. CASE anchors # {}
    <3>1. mark = latest - Disorder
      BY <2>4
    <3>2. times' \subseteq 1..now /\ \A t \in times' : t <= latest
      BY <1>2, <1>3, <1>6, <1>7, <2>1, <2>2
    <3>3. latest \in times'
      <4>1. CASE latest \in anchors
        BY <1>2, <4>1
      <4>2. CASE latest = newest
        <5>1. PICK t \in anchors : t \in 1..now /\ t <= newest
          BY <1>6, <1>7, <2>4, <4>2
        <5>2. newest # 0
          BY <1>3, <5>1
        <5> QED
          BY <1>2, <2>1, <4>2, <5>2
      <4> QED
        BY <1>7, <4>1, <4>2
    <3> QED
      BY <1>3, <1>8, <2>2, <3>1, <3>2, <3>3
  <2> QED
    BY <2>3, <2>4
<1> HIDE DEF mark
\* What is returned.
<1>11. /\ DOMAIN out' = 1..n /\ out' \in Seq(Events)
       /\ \A i \in 1..n :
            /\ out'[i].time = sane[from[i]].time /\ out'[i].time \in 1..MaxTime
            /\ out'[i].corrected => out'[i].time = now
            /\ out'[i].late <=> (out'[i].time <= now + Skew /\ out'[i].time < mark)
  <2>1. ASSUME NEW i \in 1..n
        PROVE  /\ out'[i] = Flagged(sane[from[i]], mark) /\ sane[from[i]] \in Events
               /\ sane[from[i]].time \in 1..MaxTime
               /\ sane[from[i]].corrected => sane[from[i]].time = now
    BY <1>4, <1>5, <1>8, <1>9
  <2>2. ASSUME NEW i \in 1..n
        PROVE  /\ out'[i] \in Events
               /\ out'[i].time = sane[from[i]].time /\ out'[i].time \in 1..MaxTime
               /\ out'[i].corrected => out'[i].time = now
               /\ out'[i].late <=> (out'[i].time <= now + Skew /\ out'[i].time < mark)
    BY <2>1, FlaggedType
  <2>3. out' = [i \in 1..n |-> Flagged(sane[from[i]], mark)]
    BY <1>4, <1>8
  <2>4. out' \in [1..n -> Events]
    BY <2>1, <2>2, <2>3
  <2>5. out' \in Seq(Events)
    BY <1>4, <2>4
  <2> QED
    BY <2>2, <2>3, <2>5
<1>12. TypeOK'
  <2>1. \A i, j \in DOMAIN out' : i < j => out'[i].time <= out'[j].time
    BY <1>9, <1>11
  <2>2. batch' \in Batches \cup {<<>>} /\ position' \in 0..(Len(batch') + 1) /\ events' \in Seq(Events)
    BY <1>1
  <2>3. UNCHANGED <<now, current, previous, rotated, registered, suppressed>>
    BY <1>1
  <2> QED
    BY <1>10, <1>11, <2>1, <2>2, <2>3 DEF TypeOK
<1>13. FiltersRemember' /\ OncePerWindow' /\ SuppressedForACause'
  BY <1>1 DEF FiltersRemember, OncePerWindow, SuppressedForACause, Told
<1>14. WatermarkFollows'
  BY <1>1, <1>10 DEF WatermarkFollows
<1>15. LateIsBehind'
  <2> SUFFICES ASSUME NEW i \in 1..n
               PROVE  /\ out'[i].late <=> \E t \in times' : t - out'[i].time > Disorder
                      /\ out'[i].corrected => ~out'[i].late
    BY <1>11 DEF LateIsBehind
  <2> DEFINE e == out'[i].time
  <2>1. /\ e \in 1..MaxTime /\ (out'[i].corrected => e = now)
        /\ out'[i].late <=> (e <= now + Skew /\ e < mark)
    BY <1>11
  <2>2. watermark' = mark
    BY <1>8
  <2> HIDE DEF e
  <2>3. CASE times' = {} /\ newest' = 0 /\ watermark' = 0
    <3>1. ~(e < mark)
      BY <2>1, <2>2, <2>3
    <3> QED
      BY <2>1, <2>3, <3>1
  <2>4. CASE newest' \in times' /\ watermark' = newest' - Disorder
    <3> DEFINE x == newest'
    <3>1. x \in Int /\ x <= now /\ mark = x - Disorder
      BY <1>3, <1>10, <2>2, <2>4
    <3>2. e \in Int /\ now \in Int /\ Disorder \in Int /\ Disorder > 0 /\ Skew \in Nat
      BY <1>3, <2>1
    <3> HIDE DEF x
    <3>3. (e < mark <=> x - e > Disorder) /\ (e < mark => e <= now + Skew /\ e # now)
      BY <3>1, <3>2
    <3>4. (\E t \in times' : t - e > Disorder) <=> x - e > Disorder
      <4>1. x \in times' /\ \A t \in times' : t \in Int /\ t <= x
        BY <1>3, <1>10, <2>4 DEF x
      <4>2. ASSUME NEW t \in times', t - e > Disorder PROVE x - e > Disorder
        <5>1. t \in Int /\ t <= x
          BY <4>1
        <5> QED
          BY <3>1, <3>2, <4>2, <5>1
      <4> QED
        BY <4>1, <4>2
    <3>5. out'[i].late <=> \E t \in times' : t - e > Disorder
      BY <2>1, <3>3, <3>4
    <3>6. out'[i].corrected => ~out'[i].late
      BY <2>1, <3>3
    <3> QED
      BY <3>5, <3>6 DEF e
  <2> QED
    BY <1>10, <2>3, <2>4
<1> QED
  BY <1>12, <1>13, <1>14, <1>15

LEMMA NextKeeps == IInv /\ [Next]_vars => IInv'
<1> SUFFICES ASSUME IInv, [Next]_vars PROVE IInv'
  OBVIOUS
<1>1. ASSUME NEW logs \in Batches, Begin(logs) PROVE IInv'
  BY <1>1, BeginKeeps
<1>2. CASE SkipLog
  BY <1>2, SkipLogKeeps
<1>3. CASE TakeEvent
  BY <1>3, TakeEventKeeps
<1>4. CASE RaiseAt
  BY <1>4, RaiseKeeps
<1>5. CASE Return
  BY <1>5, ReturnKeeps
<1>6. CASE Tick
  BY <1>6, TickKeeps
<1>7. CASE UNCHANGED vars
  <2>1. UNCHANGED <<now, filters, marks, batch, position, events, out, history>>
    BY <1>7 DEF vars, reading
  <2>2. now' \in now..MaxTime /\ batch' \in Batches \cup {<<>>} /\ position' \in 0..(Len(batch') + 1)
    BY <2>1, TimesAssumption DEF IInv, TypeOK
  <2> QED
    BY <2>1, <2>2, QuietKeeps
<1> QED
  BY <1>1, <1>2, <1>3, <1>4, <1>5, <1>6, <1>7 DEF Next

(***************************************************************************)
(* The inductive invariant of the batch normalizer, for every set of       *)
(* batches, all windows and any hash functions: with the types, that the   *)
(* filters hold what is not too old and nothing else, and that the         *)
(* watermark follows the latest time.                                      *)
(***************************************************************************)
THEOREM InductiveInvariant == Spec => []IInv
<1>1. Init => IInv
  BY InitKeeps
<1>2. IInv /\ [Next]_vars => IInv'
  BY NextKeeps
<1> QED
  BY <1>1, <1>2, PTL DEF Spec

(***************************************************************************)
(* Two events of one fingerprint are let through only more than a window   *)
(* apart, whenever the filters rotate and whatever raises in between       *)
(* (BloomFilter.add_and_check, _maybe_rotate).                             *)
(***************************************************************************)
THEOREM NoRepeatInAWindow == Spec => []OncePerWindow
<1>1. IInv => OncePerWindow
  BY DEF IInv
<1> QED
  BY <1>1, InductiveInvariant, PTL

(***************************************************************************)
(* Every bit that suppresses an event is one of an event let through, and  *)
(* the fingerprints of the batches that raised are among those             *)
(* (normalize_batch).                                                      *)
(***************************************************************************)
THEOREM SuppressionHasACause == Spec => []SuppressedForACause
<1>1. IInv => SuppressedForACause
  BY DEF IInv
<1> QED
  BY <1>1, InductiveInvariant, PTL

(***************************************************************************)
(* An event is flagged as late exactly when an event returned with it or   *)
(* before is more recent by more than the disorder window, and never when  *)
(* its time was corrected (WatermarkEngine.process_batch).                 *)
(***************************************************************************)
THEOREM LateMeansBehind == Spec => []LateIsBehind
<1>1. IInv => LateIsBehind
  BY DEF IInv
<1> QED
  BY <1>1, InductiveInvariant, PTL
=============================================================================
