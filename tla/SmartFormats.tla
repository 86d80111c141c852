----------------------------- MODULE SmartFormats -----------------------------
(***************************************************************************)
(* What shared/smart_normalizer.py makes of one raw log: the format it     *)
(* detects, the fields the parser of that format takes, and what of them   *)
(* identifies the event (SmartNormalizer!Keys) and dates it.               *)
(*                                                                         *)
(* A raw log is described by what _detect_format and the parsers look at,  *)
(* and by the canonical fields it holds with their values: the positions   *)
(* of a positional format, the pairs of the others as the alias table      *)
(* (SchemaFingerprinter) names them.                                       *)
(***************************************************************************)
EXTENDS Integers

FieldNames == {"src_ip", "dst_ip", "src_port", "dst_port", "protocol", "severity", "timestamp",
               "signature", "action", "bytes_in", "bytes_out", "duration", "src_hostname"}

\* The text is the one without blanks around it.  json is what json.loads makes
\* of it, or of a dict what it is: an object with keys, a true value without
\* keys, or nothing.  panos tells that the fourth of the parts between commas
\* names a PAN-OS log; panosType and cells are the fourth field and the number
\* of fields that csv.reader gives, for which a quoted comma separates nothing.
\* internal tells that a line of Zeek has one of the fields only kept as such.
RawLogs ==
  [type : {"dict", "text", "other"}, start : {"CEF:", "CEF", "{", "[", "<n>", ""},
   leef : BOOLEAN, tabs : Nat, commas : Nat, oneLine : BOOLEAN,
   panos : BOOLEAN, panosType : {"TRAFFIC", "THREAT", "other"}, cells : Nat,
   bars : Nat, words : Nat, eni : BOOLEAN,
   srcOrDst : BOOLEAN, pairs : BOOLEAN, snort : BOOLEAN, rejected : BOOLEAN,
   json : {"keys", "no keys", "nothing"}, internal : BOOLEAN,
   holds : SUBSET FieldNames, values : [FieldNames -> STRING]]

\* _detect_format.
Format(raw) ==
  IF raw.type = "dict" THEN "dict"
  ELSE IF raw.type = "other" THEN "unknown"
  ELSE IF raw.start = "CEF:" THEN "cef"
  ELSE IF raw.start \in {"{", "["} THEN "json"
  ELSE IF raw.leef THEN "leef"
  ELSE IF raw.start = "<n>" THEN "syslog"
  ELSE IF raw.tabs > 3 THEN "zeek_tsv"
  ELSE IF raw.commas > 10 THEN IF raw.panos THEN "panos_csv" ELSE "csv"
  ELSE IF raw.commas > 2 /\ raw.oneLine THEN "csv"
  ELSE IF raw.bars > 3 THEN "pipe_delimited"
  ELSE IF raw.words >= 14 /\ raw.eni THEN "aws_vpc"
  ELSE IF raw.start = "CEF" \/ raw.srcOrDst THEN "cef_variant" ELSE "unknown"

\* There is no parser for pipes.
Unparsed(raw) == Format(raw) \in {"unknown", "pipe_delimited"}

Connection == {"src_ip", "dst_ip", "src_port", "dst_port", "protocol"}

\* The parsers: the fields they give.
CefFields(raw) ==
  {"severity", "signature"} \cup IF raw.bars >= 7 THEN raw.holds ELSE {}
SyslogFields(raw) == raw.holds
PanosFields(raw) ==
  {"timestamp", "src_ip", "dst_ip", "signature", "protocol", "action"}
    \cup IF raw.panosType = "other" THEN {} ELSE {"src_port", "dst_port", "bytes_in", "severity"}
    \cup IF raw.panosType = "TRAFFIC" THEN {"bytes_out", "duration"} ELSE {}
ZeekFields(raw) ==
  raw.holds \cap (Connection \cup {"timestamp", "duration", "bytes_in", "bytes_out"})
AwsFields(raw) ==
  Connection \cup {"bytes_in", "timestamp", "action"}
    \cup IF raw.rejected THEN {"severity", "signature"} ELSE {}
LeefFields(raw) == {"signature"} \cup raw.holds
CsvFields(raw) == raw.holds \cap (Connection \ {"protocol"})
SnortFields(raw) ==
  raw.holds \cap (Connection \cup {"signature", "severity", "timestamp"})

\* A text of no format: JSON, the pairs of a CEF variant, and Snort at last.
UnparsedFields(raw) ==
  IF raw.json = "keys" \/ raw.pairs THEN raw.holds
  ELSE IF raw.type = "text" /\ raw.snort THEN SnortFields(raw) ELSE {}

\* _parse_raw.
Fields(raw) ==
  LET format == Format(raw) IN
  IF format \in {"dict", "json", "cef_variant"} THEN raw.holds
  ELSE IF format = "cef" THEN CefFields(raw)
  ELSE IF format = "syslog" THEN SyslogFields(raw)
  ELSE IF format = "leef" THEN LeefFields(raw)
  ELSE IF format = "aws_vpc" THEN AwsFields(raw)
  ELSE IF format = "panos_csv" THEN PanosFields(raw)
  ELSE IF format = "zeek_tsv" THEN ZeekFields(raw)
  ELSE IF format = "csv" THEN CsvFields(raw) ELSE UnparsedFields(raw)

\* What normalize_batch has then: an event, nothing, or a value without keys.
Kind(raw) ==
  LET format == Format(raw) IN
  IF (format = "json" \/ Unparsed(raw)) /\ raw.json = "no keys" THEN "no keys"
  ELSE IF \/ format \in {"dict", "json"} /\ raw.json # "keys"
          \/ format = "cef" /\ raw.bars < 6
          \/ format = "leef" /\ raw.bars < 4
          \/ format = "cef_variant" /\ ~raw.pairs
          \/ format = "panos_csv" /\ raw.cells < 10
          \/ format = "zeek_tsv" /\ ZeekFields(raw) = {} /\ ~raw.internal
  THEN "nothing" ELSE "event"

\* _map_to_ocsf and _fingerprint, without the time.
Value(raw, name, default) == IF name \in Fields(raw) THEN raw.values[name] ELSE default
Key(raw) ==
  <<Value(raw, "src_ip", "0.0.0.0"), Value(raw, "dst_ip", "0.0.0.0"),
    Value(raw, "src_port", "0"), Value(raw, "dst_port", "0"),
    Value(raw, "protocol", "Unknown"), Value(raw, "signature", "Unknown")>>
Dated(raw) == "timestamp" \in Fields(raw)
=============================================================================
