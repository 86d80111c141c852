------------------------------- MODULE AuditFile -------------------------------
(***************************************************************************)
(* How Layer 3's audit logger (Response_engine/audit_logger.py) writes a   *)
(* record: it copies the day's file into a temporary one, adds the line    *)
(* and puts the copy in the file's place.  The handlers call it without an *)
(* await, so one record is written at a time, but the process may die      *)
(* between any two steps, a step may raise, and midnight may pass.         *)
(*                                                                         *)
(* ResponseEngine takes a record for written or not written, in one step:  *)
(* this module is why it may.                                              *)
(***************************************************************************)
EXTENDS Integers, Sequences

CONSTANTS Kinds,   \* incident_decision, approval_request, approval_decision
          AlertIds

VARIABLES
  day,    \* the date of the UTC clock
  files,  \* the records of audit_<day>.jsonl, in order; none when it does not exist
  writer, \* where _atomic_append is
  entry,  \* the record it writes
  path,   \* the day whose file it writes
  tmp,    \* the lines of its temporary file
  litter, \* the temporary files nobody will remove
  issued, \* history: how many records were made, each with an identifier of its own
  told    \* history: the identifiers given back to the handlers

auditVars == <<day, files, writer, entry, path, tmp, litter, issued, told>>

Entries == [id : Nat, kind : Kinds, alert : AlertIds, at : Nat]
NoEntry == [id |-> -1]
Places  == {"idle", "made", "opened", "copied", "added"}

AuditInit ==
  /\ day \in Nat
  /\ files = [d \in Nat |-> <<>>]
  /\ writer = "idle" /\ entry = NoEntry /\ path = 0 /\ tmp = <<>>
  /\ litter = 0 /\ issued = 0 /\ told = {}

\* log_incident, log_approval_request, log_approval_decision: the record is
\* made, and dated, before its file is chosen.
Make(kind, alert) ==
  /\ writer = "idle"
  /\ entry' = [id |-> issued, kind |-> kind, alert |-> alert, at |-> day]
  /\ issued' = issued + 1
  /\ writer' = "made"
  /\ UNCHANGED <<day, files, path, tmp, litter, told>>

\* _daily_path and mkstemp.
Create ==
  /\ writer = "made"
  /\ path' = day
  /\ tmp' = <<>>
  /\ writer' = "opened"
  /\ UNCHANGED <<day, files, entry, litter, issued, told>>

Copy ==
  /\ writer = "opened"
  /\ tmp' = files[path]
  /\ writer' = "copied"
  /\ UNCHANGED <<day, files, entry, path, litter, issued, told>>

AddLine ==
  /\ writer = "copied"
  /\ tmp' = Append(tmp, entry)
  /\ writer' = "added"
  /\ UNCHANGED <<day, files, entry, path, litter, issued, told>>

\* The handler gets the identifier back, whatever became of the record.
Return ==
  /\ told' = told \cup {entry.id}
  /\ writer' = "idle" /\ entry' = NoEntry /\ tmp' = <<>>
  /\ UNCHANGED <<day, path, issued>>

\* os.replace.
Replace ==
  /\ writer = "added"
  /\ files' = [files EXCEPT ![path] = tmp]
  /\ Return
  /\ UNCHANGED litter

\* A step raises.  The temporary file is removed, which may raise as well.
Raise ==
  /\ writer # "idle"
  /\ litter' \in IF writer = "made" THEN {litter} ELSE {litter, litter + 1}
  /\ Return
  /\ UNCHANGED files

\* The process dies and is started again.
Die ==
  /\ litter' = IF writer \in {"opened", "copied", "added"} THEN litter + 1 ELSE litter
  /\ writer' = "idle" /\ entry' = NoEntry /\ tmp' = <<>>
  /\ UNCHANGED <<day, files, path, issued, told>>

Midnight ==
  /\ day' = day + 1
  /\ UNCHANGED <<files, writer, entry, path, tmp, litter, issued, told>>

AuditNext ==
  \/ \E kind \in Kinds, alert \in AlertIds : Make(kind, alert)
  \/ Create \/ Copy \/ AddLine \/ Replace \/ Raise \/ Die \/ Midnight

AuditSpec == AuditInit /\ [][AuditNext]_auditVars

\* query_by_alert_id reads today's file, whatever day the alert came.  Every
\* record has the alert's identifier at its top, so the nested one is never read.
Query(alert) == {r \in {files[day][i] : i \in DOMAIN files[day]} : r.alert = alert}
-----------------------------------------------------------------------------
AuditTypeOK ==
  /\ day \in Nat /\ path \in Nat /\ litter \in Nat /\ issued \in Nat
  /\ files \in [Nat -> Seq(Entries)]
  /\ writer \in Places
  /\ entry \in Entries \cup {NoEntry}
  /\ tmp \in Seq(Entries)
  /\ told \subseteq Nat

\* A line of a file is a whole record, and the records of a file stand in the
\* order they were made, each once (_atomic_append).
InOrder ==
  \A d \in Nat : \A i, j \in DOMAIN files[d] : i < j => files[d][i].id < files[d][j].id

\* Nothing but appending happens to a day's file ("Immutable JSON Lines").
Grows(d) == \/ files'[d] = files[d]
            \/ \E r \in Entries : files'[d] = Append(files[d], r)
OnlyAppends == [][\A d \in Nat : Grows(d)]_auditVars

\* A record lies in the file of a day on which it was on its way, never of an
\* earlier one, and in no second file.
FiledOnce ==
  \A d, e \in Nat : \A i \in DOMAIN files[d], j \in DOMAIN files[e] :
    /\ files[d][i].at <= d
    /\ files[d][i].id = files[e][j].id => d = e /\ i = j

\* What makes them inductive: only records made before are in the files, the
\* one that is being written is not, and its copy is of the file as it is.
CopyIsCurrent ==
  /\ \A d \in Nat : \A i \in DOMAIN files[d] : files[d][i].id < issued
  /\ writer # "idle" =>
       /\ entry \in Entries /\ entry.id < issued /\ entry.at <= day
       /\ \A d \in Nat : \A i \in DOMAIN files[d] : files[d][i].id < entry.id
  /\ writer \in {"opened", "copied", "added"} => entry.at <= path
  /\ writer = "copied" => tmp = files[path]
  /\ writer = "added" => tmp = Append(files[path], entry)

AuditInv == AuditTypeOK /\ InOrder /\ FiledOnce /\ CopyIsCurrent
=============================================================================
