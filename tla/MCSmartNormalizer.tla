-------------------------- MODULE MCSmartNormalizer --------------------------
\* The small instance of SmartNormalizer: two kinds of events whose bits
\* overlap, with early, future, missing and unbelievable times.  The logs are
\* raw ones, read by SmartFormats.
EXTENDS SmartNormalizer

F == INSTANCE SmartFormats

Text == [type |-> "text", start |-> "", leef |-> FALSE, tabs |-> 0, commas |-> 0,
         oneLine |-> TRUE, panos |-> FALSE, panosType |-> "other",
         cells |-> 0, bars |-> 0, words |-> 3, eni |-> FALSE,
         srcOrDst |-> FALSE, pairs |-> FALSE, snort |-> FALSE, rejected |-> FALSE,
         json |-> "nothing", internal |-> FALSE, holds |-> {},
         values |-> [f \in F!FieldNames |-> "v"]]
Json(holds) == [Text EXCEPT !.start = "{", !.json = "keys", !.holds = holds]
Flow == {"src_ip", "dst_ip", "signature", "severity"}

Dated == Json(Flow \cup {"timestamp"})
Undated == Json(Flow)
\* A text that no parser knows: the other kind of event.
Unknown == Text
Zeek == [Text EXCEPT !.tabs = 13, !.holds = {"timestamp", "duration"}]
\* A line of Snort that begins with its mark, and a JSON list.
Snort == [Text EXCEPT !.start = "[", !.snort = TRUE, !.holds = Flow]
List == [Text EXCEPT !.start = "[", !.json = "no keys"]

\* The two keys of the instance: with an address, and without a field of the
\* connection.
KeyOf(raw) == IF F!Key(raw)[1] = "0.0.0.0" THEN 2 ELSE 1
StampOf(raw, readable) ==
  IF ~F!Dated(raw) THEN "absent" ELSE IF readable THEN "given" ELSE "unreadable"
Number(v) == [label |-> "number", value |-> v]
Label(l) == [label |-> l, value |-> 0]
\* A log whose fields have no severity keeps the default.
SeverityOf(raw, severity) ==
  IF "severity" \in F!Fields(raw) THEN severity ELSE Label("missing")
Log(raw, readable, at, severity) ==
  [kind |-> F!Kind(raw), key |-> KeyOf(raw), stamp |-> StampOf(raw, readable),
   at |-> at, severity |-> SeverityOf(raw, severity)]

MCBatches ==
  {<<Log(Dated, TRUE, 6, Number(750)), Log(Zeek, TRUE, 4, Label("missing"))>>,
   <<Log(Zeek, TRUE, 4, Label("missing")), Log(List, TRUE, 1, Label("missing"))>>,
   <<Log(Snort, TRUE, 1, Label("high")), Log(Undated, TRUE, 1, Label("unknown")),
     Log(Unknown, TRUE, 1, Label("missing")), Log(Dated, FALSE, 1, Number(100))>>,
   <<Log(Dated, TRUE, 9, Label("critical")), Log(Zeek, TRUE, 1, Label("missing"))>>}
MCHashes ==
  [fp \in {1, 2} \X (0..(MaxTime \div Bucket)) |-> {(fp[1] + fp[2]) % 4, (2 * fp[1] + fp[2]) % 4}]
=============================================================================
