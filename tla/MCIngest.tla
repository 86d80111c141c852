------------------------------- MODULE MCIngest -------------------------------
\* The small instance of Ingest: one source scans and moves laterally, another
\* one probes a development host.  The logs are raw ones, a JSON record, key
\* and value pairs and a syslog line, read by LogNormalizer.
EXTENDS Ingest

N == INSTANCE LogNormalizer

Text(word) == [text |-> TRUE, word |-> word, number |-> 0, reads |-> FALSE]
Number(word, value) == [text |-> FALSE, word |-> word, number |-> value, reads |-> TRUE]
Raw(start, equals, ok, header, record) ==
  [dict |-> FALSE, start |-> start, commas |-> 0, equals |-> equals, wellFormed |-> ok,
   header |-> header, records |-> <<record>>]

\* A severity of 5 on a scale of 10.
ScanLog == Raw("bracket", 0, TRUE, <<>>,
  <<<<"src_ip", Text("s1")>>, <<"dest_ip", Text("10.0.12.7")>>,
    <<"alert_type", Text("PortScan")>>, <<"severity", Number("5", 500)>>>>)
\* Two names of the source, of which the later one counts.
MoveLog == Raw("other", 5, TRUE, <<>>,
  <<<<"host", Text("s2")>>, <<"src", Text("s1")>>, <<"dst", Text("10.0.0.9")>>,
    <<"level", Text("high")>>, <<"name", Text("LateralMovement")>>>>)
\* The priority of a syslog line is no severity that is known.
ProbeLog == Raw("<n>", 3, TRUE,
  <<<<"priority", Text("134")>>, <<"hostname", Text("s2")>>>>,
  <<<<"dst", Text("10.0.4.2")>>, <<"action", Text("allow")>>, <<"failcount", Text("x")>>>>)
BrokenLog == Raw("bracket", 0, FALSE, <<>>, <<>>)

Octets == [s \in {"10.0.12.7", "10.0.0.9", "10.0.4.2"} |->
             IF s = "10.0.12.7" THEN <<10, 0, 12>>
             ELSE IF s = "10.0.0.9" THEN <<10, 0, 0>> ELSE <<10, 0, 4>>]

Log(raw, anomaly, attack, verdicts) ==
  IF N!Rejected(raw) THEN Unreadable
  ELSE LET alert == N!Normalize(raw)
       IN [key |-> <<alert.source, alert.type>>, source |-> alert.source, anomaly |-> anomaly,
           severity |-> [float |-> TRUE, value |-> alert.severity],
           dest |-> Octets[alert.dest], attack |-> attack, ioc |-> FALSE, verdicts |-> verdicts]

\* MEDIUM at first, HIGH when the source was seen before; CRITICAL by an
\* override; LOW; and none.
Scan   == Log(ScanLog, 70, "PortScan", {TRUE})
Move   == Log(MoveLog, 80, "LateralMovement", {TRUE})
Probe  == Log(ProbeLog, 30, "unknown", BOOLEAN)
Broken == Log(BrokenLog, 0, "unknown", BOOLEAN)

MCLogs == {Scan, Move, Probe}
MCKeys == {l.key : l \in MCLogs}
Body(logs, dedup, full) == [logs |-> logs, dedup |-> dedup, full |-> full]
MCSubmissions ==
  {Body(<<Scan, Scan>>, TRUE, TRUE), Body(<<Probe, Broken, Move>>, FALSE, TRUE)}
=============================================================================
