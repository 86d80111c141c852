---------------------------- MODULE LogNormalizer ----------------------------
(***************************************************************************)
(* normalize of shared/normalizer.py, which makes an alert of a raw log in *)
(* any format: what bulk ingest knows of a log.                            *)
(*                                                                         *)
(* A raw log is described by what the format detector looks at and by what *)
(* the parser of its format finds in it: whether it matches the format,    *)
(* and its records of <<key, value>> pairs, a repeated key being one pair. *)
(* A value is a number or a text: its word is what str() makes of it, its  *)
(* number, in hundredths, what float() does, or 0, and "reads" is whether  *)
(* int() accepts it.  A missing value (null) is the text "none".           *)
(***************************************************************************)
EXTENDS Integers, Sequences

Values == [text : BOOLEAN, word : STRING, number : Int, reads : BOOLEAN]
RawLogs == [dict : BOOLEAN, start : {"blank", "bracket", "CEF:", "<n>", "other"},
            commas : Nat, equals : Nat, wellFormed : BOOLEAN,
            header : Seq(STRING \X Values), records : Seq(Seq(STRING \X Values))]

\* detect_format.
Format(raw) ==
  IF raw.dict THEN "dict"
  ELSE IF raw.start = "blank" THEN "unknown"
  ELSE IF raw.start = "bracket" THEN "json"
  ELSE IF raw.start = "CEF:" THEN "cef"
  ELSE IF raw.start = "<n>" THEN "syslog"
  ELSE IF raw.commas > 2 /\ raw.equals < raw.commas \div 2 THEN "csv"
  ELSE IF raw.equals >= 2 THEN "kv" ELSE "unknown"

\* Of the elements of a JSON list and the rows of a CSV text only the first.
FirstRecord(raw) == IF raw.records = <<>> THEN <<>> ELSE raw.records[1]

\* The parsers.  The header of a syslog line is its priority, time, host and
\* message, and of a line that is no format the message and its addresses; a
\* CSV line without a header line gives the features by position.
Parsed(raw) ==
  IF Format(raw) \in {"json", "cef"} /\ ~raw.wellFormed THEN <<>>
  ELSE IF Format(raw) \in {"syslog", "unknown"} THEN raw.header \o FirstRecord(raw)
  ELSE FirstRecord(raw)

\* _build_alias_map, without the features.
SourceKeys == {"src_ip", "source_ip", "srcip", "sourceaddress", "src", "client_ip",
               "endpoint_ip", "hostname", "host", "deviceaddress"}
DestKeys == {"dst_ip", "dest_ip", "dstip", "destinationaddress", "dst", "remote_ip",
             "server_ip", "destinationhostname"}
TypeKeys == {"alert_type", "signature", "event_type", "type", "process_name", "threat_name",
             "category", "classification", "rulename", "rule_name", "msg", "message", "name"}
SeverityKeys == {"severity", "priority", "risk_score", "criticality", "threat_level", "level",
                 "deviceseverity"}
ActionKeys == {"action", "disposition"}
FailKeys == {"failed_attempts", "failcount"}

\* _map_fields: the positions of a field's aliases, of which the last one wins.
Places(pairs, keys) == {i \in DOMAIN pairs : pairs[i][1] \in keys}
Field(pairs, keys) ==
  pairs[CHOOSE i \in Places(pairs, keys) : \A j \in Places(pairs, keys) : j <= i][2]

\* _SEVERITY_MAP.
SeverityWords ==
  [critical |-> 95, high |-> 75, medium |-> 50, low |-> 25, info |-> 10, informational |-> 10,
   warning |-> 40, warn |-> 40, error |-> 70, alert |-> 80, emergency |-> 100, notice |-> 20,
   unknown |-> 50, none |-> 10]
SeverityDigits == <<"1", "2", "3", "4", "5", "6", "7", "8", "9", "10">>
FirewallSeverity == [block |-> 70, deny |-> 70, drop |-> 60, allow |-> 10, reject |-> 65]

\* The severity of a log that states none that is known.
Fails(pairs) ==
  IF Places(pairs, FailKeys) # {} /\ Field(pairs, FailKeys).reads
  THEN Field(pairs, FailKeys).number \div 100 ELSE 0
ImpliedSeverity(pairs) ==
  IF Places(pairs, ActionKeys) # {} /\ Field(pairs, ActionKeys).word \in DOMAIN FirewallSeverity
  THEN FirewallSeverity[Field(pairs, ActionKeys).word]
  ELSE IF Fails(pairs) <= 0 THEN 50
  ELSE IF Fails(pairs) <= 3 THEN 30
  ELSE IF Fails(pairs) > 20 THEN 100 ELSE 5 * Fails(pairs)

\* _extract_severity.
StatedSeverity(value) ==
  IF value.number > 100 THEN value.number \div 10 ELSE value.number
Severity(pairs) ==
  IF Places(pairs, SeverityKeys) = {} THEN ImpliedSeverity(pairs)
  ELSE LET value == Field(pairs, SeverityKeys) IN
       IF ~value.text THEN StatedSeverity(value)
       ELSE IF value.word \in DOMAIN SeverityWords THEN SeverityWords[value.word]
       ELSE IF \E i \in 1..10 : value.word = SeverityDigits[i]
       THEN 10 * (CHOOSE i \in 1..10 : value.word = SeverityDigits[i])
       ELSE ImpliedSeverity(pairs)

\* _extract_alert_type.
AlertType(pairs) ==
  IF Places(pairs, TypeKeys) # {} /\ Field(pairs, TypeKeys).word # ""
  THEN <<Field(pairs, TypeKeys).word>>
  ELSE IF Places(pairs, ActionKeys) # {} /\ Field(pairs, ActionKeys).word # ""
  THEN <<"firewall", Field(pairs, ActionKeys).word>>
  ELSE IF Places(pairs, FailKeys) # {} /\ Field(pairs, FailKeys).number > 300
  THEN <<"auth_failure">> ELSE <<"unknown">>

Address(pairs, keys) ==
  IF Places(pairs, keys) # {} /\ Field(pairs, keys).word # "" THEN Field(pairs, keys).word
  ELSE "0.0.0.0"

\* normalize, for a log that is not rejected.
Rejected(raw) == Parsed(raw) = <<>>
Normalize(raw) ==
  [source   |-> Address(Parsed(raw), SourceKeys),
   dest     |-> Address(Parsed(raw), DestKeys),
   type     |-> AlertType(Parsed(raw)),
   severity |-> Severity(Parsed(raw)),
   format   |-> Format(raw)]
=============================================================================
