--------------------------- MODULE SmartNormalizer ---------------------------
(***************************************************************************)
(* The batch normalizer of shared/smart_normalizer.py: a pair of Bloom     *)
(* filters that suppresses repeated events, and a watermark over the event *)
(* times that flags late ones.  Both outlive a batch.  The clock is read   *)
(* for every log and once more when the batch ends, so time may pass       *)
(* between the turns of the loop.                                          *)
(*                                                                         *)
(* What the parsers and the alias table make of a log is given: an event,  *)
(* nothing, or a JSON value without keys, which raises and ends the batch. *)
(* Times are in seconds; a time of 0 means that there is none.             *)
(***************************************************************************)
EXTENDS Integers, FiniteSets, Sequences, Functions

CONSTANTS Batches,   \* sequences of logs: kind, key, stamp, at, severity
          Keys,      \* endpoints, ports, protocol and title of an event
          Hashes,    \* the bits of a fingerprint, by key and bucket
          Bits,
          Bucket,    \* the bucket of times that one fingerprint covers
          Window,    \* window_seconds
          Disorder,  \* disorder_window_s
          Skew,      \* how far ahead a clock is not only skewed
          Day,       \* how far from the arrival a time is believed
          Start,     \* the time of the first batch
          MaxTime    \* bound: the time of the last one

Fingerprints == Keys \X (0..(MaxTime \div Bucket))

ASSUME HashesAssumption == Hashes \in [Fingerprints -> SUBSET Bits]
ASSUME TimesAssumption ==
  /\ {Bucket, Window, Disorder, Skew, Day, Start} \subseteq Nat \ {0}
  /\ MaxTime \in Nat /\ Start <= MaxTime

\* What a log says of its severity: nothing, a number, or the first label of
\* the table of _parse_severity that its text is or contains, by the one that
\* stands for it ("unknown" if there is none).
Severities ==
  [label : {"missing", "number", "critical", "high", "medium", "low", "info", "unknown"},
   value : Int]

ASSUME BatchesAssumption ==
  \A logs \in Batches :
    logs \in Seq([kind : {"event", "nothing", "no keys"}, key : Keys,
                  stamp : {"given", "absent", "unreadable"}, at : 1..MaxTime, severity : Severities])

VARIABLES
  now,
  current, previous, \* the bits of the two filters
  rotated,           \* _last_rotate
  newest,            \* _max_event_time
  watermark,
  batch,             \* the logs being normalized
  position,          \* the log whose turn it is; 0 between two batches
  events,            \* the events of the batch so far
  out,               \* what the last batch returned
  registered,        \* history: the fingerprints added to the filter, and when
  lost,              \* history: those of batches that raised
  suppressed,        \* history: the fingerprints taken for duplicates
  times              \* history: the believed times of the events returned,
                     \* none of them after its arrival

filters  == <<current, previous, rotated>>
marks    == <<newest, watermark>>
reading  == <<batch, position, events>>
history  == <<registered, lost, suppressed, times>>
vars == <<now, filters, marks, reading, out, history>>

Init ==
  /\ now = Start
  /\ current = {} /\ previous = {} /\ rotated = Start
  /\ newest = 0 /\ watermark = 0
  /\ batch = <<>> /\ position = 0 /\ events = <<>>
  /\ out = <<>>
  /\ registered = <<>> /\ lost = {} /\ suppressed = {} /\ times = {}
-----------------------------------------------------------------------------
\* _parse_severity of a number, in hundredths: whole numbers up to 7 are ECS
\* levels, other ones above 1 CVSS, the rest a probability.
NumberId(v) ==
  LET ecs == v % 100 = 0 /\ v \in 100..700
      cvss == v > 100 /\ ~ecs
  IN CASE ecs -> <<1, 2, 3, 3, 4, 5, 5>>[v \div 100]
       [] cvss /\ v >= 900 -> 5
       [] cvss /\ v \in 700..899 -> 4
       [] cvss /\ v \in 400..699 -> 3
       [] cvss /\ v < 400 -> 2
       [] v \in 75..100 /\ ~ecs -> 5
       [] v \in 50..74 -> 4
       [] v \in 30..49 -> 3
       [] v \in 10..29 -> 2
       [] v < 10 -> 1

\* _parse_severity; a log that has none keeps OCSF_DEFAULTS' 0, "Unknown".
SeverityId(severity) ==
  CASE severity.label = "number" -> NumberId(severity.value)
    [] severity.label = "critical" -> 5
    [] severity.label = "high" -> 4
    [] severity.label = "medium" -> 3
    [] severity.label = "low" -> 2
    [] severity.label = "info" -> 1
    [] severity.label \in {"missing", "unknown"} -> 0

\* _parse_timestamp: one that cannot be read is the time of arrival; an event
\* that has none keeps the default.
EventTime(log) ==
  CASE log.stamp = "given" -> log.at
    [] log.stamp = "unreadable" -> now
    [] log.stamp = "absent" -> 0

\* _map_to_ocsf.
Mapped(log) ==
  [key |-> log.key, time |-> EventTime(log), severity |-> SeverityId(log.severity),
   corrected |-> FALSE, late |-> FALSE]

\* _fingerprint, of the time the log gives.
Fingerprint(event) == <<event.key, event.time \div Bucket>>

\* _maybe_rotate: once, however long ago the last time is.
Due == now - rotated > Window
Current  == IF Due THEN {} ELSE current
Previous == IF Due THEN current ELSE previous

\* Seeded fault: one common bit is enough.
SeenInPart(fp) == Hashes[fp] \cap Current # {} \/ Hashes[fp] \cap Previous # {}
\* Seeded fault: only the current filter is asked.
SeenNow(fp) == Hashes[fp] \subseteq Current
\* add_and_check: all bits are in one of the filters.
Seen(fp) == Hashes[fp] \subseteq Current \/ Hashes[fp] \subseteq Previous

\* normalize_batch: a call.  No two overlap: everything that calls it does so
\* from one thread, one batch after the other, and the class has no lock.
Begin(logs) ==
  /\ position = 0
  /\ batch' = logs /\ position' = 1 /\ events' = <<>>
  /\ UNCHANGED <<now, filters, marks, out, history>>

\* A log that no parser makes an event of.
SkipLog ==
  /\ position \in DOMAIN batch
  /\ batch[position].kind = "nothing"
  /\ position' = position + 1
  /\ UNCHANGED <<now, filters, marks, batch, events, out, history>>

\* An event: the filters rotate if it is time, and tell whether it was seen.
TakeEvent ==
  /\ position \in DOMAIN batch
  /\ batch[position].kind = "event"
  /\ LET event == Mapped(batch[position])
         fp == Fingerprint(event)
     IN
     /\ previous' = Previous
     /\ rotated' = IF Due THEN now ELSE rotated
     /\ \/ /\ Seen(fp)
           /\ current' = Current
           /\ suppressed' = suppressed \cup {fp}
           /\ UNCHANGED <<events, registered>>
        \/ /\ ~Seen(fp)
           /\ current' = Current \cup Hashes[fp]
           /\ registered' = Append(registered, [fp |-> fp, at |-> now])
           /\ events' = Append(events, event)
           /\ UNCHANGED suppressed
  /\ position' = position + 1
  /\ UNCHANGED <<now, marks, batch, out, lost, times>>

\* A JSON value without keys raises: the batch returns nothing, and what it
\* added to the filter stays there.
RaiseAt ==
  /\ position \in DOMAIN batch
  /\ batch[position].kind = "no keys"
  /\ lost' = lost \cup {Fingerprint(events[i]) : i \in DOMAIN events}
  /\ position' = 0 /\ batch' = <<>> /\ events' = <<>>
  /\ out' = <<>>
  /\ UNCHANGED <<now, filters, marks, registered, suppressed, times>>

\* A time that is missing, or more than a day off, becomes the arrival's.
Believed(event) == event.time - now <= Day /\ now - event.time <= Day
Sane(event) ==
  IF event.time # 0 /\ Believed(event) THEN event
  ELSE [event EXCEPT !.time = now, !.corrected = (event.time # 0)]

\* The times that move the watermark: those believed, and none after now.
Anchors(sane) ==
  {IF sane[i].time > now THEN now ELSE sane[i].time :
     i \in {j \in DOMAIN sane : ~sane[j].corrected}}

Flagged(event, mark) ==
  [event EXCEPT !.late = (event.time <= now + Skew /\ event.time < mark)]

\* The stable order of the times: where each position's event comes from.
InOrderOfTime(sane) ==
  {from \in [DOMAIN sane -> DOMAIN sane] :
     \A i, j \in DOMAIN sane : i < j =>
       \/ sane[from[i]].time < sane[from[j]].time
       \/ sane[from[i]].time = sane[from[j]].time /\ from[i] < from[j]}

\* What process_batch returns, when the latest time it knows of is given.
Returned(sane, latest, mark) ==
  \E from \in InOrderOfTime(sane) :
    /\ newest' = latest
    /\ watermark' = mark
    /\ out' = [i \in DOMAIN sane |-> Flagged(sane[from[i]], mark)]

\* Seeded fault: the watermark follows the batch alone.
WatermarkedAlone ==
  LET sane == [i \in DOMAIN events |-> Sane(events[i])]
      anchors == Anchors(sane)
  IN
  /\ \/ anchors = {} /\ Returned(sane, newest, watermark)
     \/ \E latest \in anchors :
          /\ \A t \in anchors : t <= latest
          /\ Returned(sane, latest, latest - Disorder)
  /\ times' = times \cup anchors

\* Seeded fault: the events stay in the order of arrival.
WatermarkedUnsorted ==
  LET sane == [i \in DOMAIN events |-> Sane(events[i])]
      anchors == Anchors(sane)
  IN
  /\ \E latest \in anchors \cup {newest} :
       /\ \A t \in anchors \cup {newest} : t <= latest
       /\ newest' = latest
       /\ watermark' = IF anchors = {} THEN watermark ELSE latest - Disorder
       /\ out' = [i \in DOMAIN sane |-> Flagged(sane[i], watermark')]
  /\ times' = times \cup anchors

\* WatermarkEngine.process_batch.
Watermarked ==
  LET sane == [i \in DOMAIN events |-> Sane(events[i])]
      anchors == Anchors(sane)
  IN
  /\ \E latest \in anchors \cup {newest} :
       /\ \A t \in anchors \cup {newest} : t <= latest
       /\ Returned(sane, latest, IF anchors = {} THEN watermark ELSE latest - Disorder)
  /\ times' = times \cup anchors

\* The loop is over: the watermark, and the batch returns.
Return ==
  /\ position = Len(batch) + 1
  /\ Watermarked
  /\ position' = 0 /\ batch' = <<>> /\ events' = <<>>
  /\ UNCHANGED <<now, filters, registered, lost, suppressed>>

Tick ==
  /\ now < MaxTime
  /\ now' = now + 1
  /\ UNCHANGED <<filters, marks, reading, out, history>>

Next ==
  \/ \E logs \in Batches : Begin(logs)
  \/ SkipLog \/ TakeEvent \/ RaiseAt \/ Return
  \/ Tick

Spec == Init /\ [][Next]_vars
-----------------------------------------------------------------------------
Events ==
  [key : Keys, time : 0..MaxTime, severity : 0..5, corrected : BOOLEAN, late : BOOLEAN]

\* Every variable keeps its type; a batch's output is in the order of time
\* (process_batch).
TypeOK ==
  /\ now \in Start..MaxTime /\ rotated \in Start..now
  /\ current \subseteq Bits /\ previous \subseteq Bits
  /\ newest \in 0..now /\ watermark \in Int /\ watermark <= newest
  /\ batch \in Batches \cup {<<>>} /\ position \in 0..(Len(batch) + 1)
  /\ events \in Seq(Events) /\ out \in Seq(Events)
  /\ registered \in Seq([fp : Fingerprints, at : 0..now])
  /\ suppressed \subseteq Fingerprints /\ times \subseteq 1..now
  /\ \A i, j \in DOMAIN out : i < j => out[i].time <= out[j].time

\* The filters let an event through twice only if more than a window is
\* between, whenever they rotate (BloomFilter.add_and_check, _maybe_rotate).
OncePerWindow ==
  \A i, j \in DOMAIN registered :
    i < j /\ registered[i].fp = registered[j].fp =>
      registered[j].at - registered[i].at > Window

\* What the filters were told.
Told == UNION {Hashes[registered[i].fp] : i \in DOMAIN registered}

\* An event is suppressed only for events that were let through: its own bits
\* or, by a false positive, the bits of others.  Those of a batch that raised
\* are among them although nobody got them (normalize_batch).
SuppressedForACause ==
  /\ lost \subseteq {registered[i].fp : i \in DOMAIN registered}
  /\ \A fp \in suppressed : Hashes[fp] \subseteq Told

\* An event is flagged exactly when some event that was returned, now or ever
\* before, is more recent by more than the disorder window; one whose time was
\* missing or not believed never is (WatermarkEngine.process_batch).
LateIsBehind ==
  \A i \in DOMAIN out :
    /\ out[i].late <=> \E t \in times : t - out[i].time > Disorder
    /\ out[i].corrected => ~out[i].late

\* The bits of an event that was let through are in the current filter, or in
\* the previous one since the last rotation, or it is too old for both; no
\* other bits are there.
FiltersRemember ==
  /\ \A i \in DOMAIN registered :
       \/ Hashes[registered[i].fp] \subseteq current
       \/ Hashes[registered[i].fp] \subseteq previous /\ registered[i].at <= rotated
       \/ rotated - registered[i].at > Window
  /\ current \cup previous \subseteq Told
  /\ {Fingerprint(events[i]) : i \in DOMAIN events}
       \subseteq {registered[i].fp : i \in DOMAIN registered}

\* The watermark is behind the latest time of all the events returned, and
\* what an event in the making says of itself is not decided yet.
WatermarkFollows ==
  /\ \/ times = {} /\ newest = 0 /\ watermark = 0
     \/ newest \in times /\ watermark = newest - Disorder
  /\ \A t \in times : t <= newest
  /\ \A i \in DOMAIN events : ~events[i].corrected /\ ~events[i].late

\* The inductive invariant.
IInv ==
  /\ TypeOK /\ FiltersRemember /\ WatermarkFollows
  /\ OncePerWindow /\ SuppressedForACause /\ LateIsBehind
=============================================================================
