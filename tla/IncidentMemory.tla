---------------------------- MODULE IncidentMemory ----------------------------
(***************************************************************************)
(* Layer 3's incident memory (Response_engine/database.py): the pool of    *)
(* connections to PostgreSQL, the schema it creates when the service       *)
(* starts, and the rows that tasks nobody waits for add.  ResponseEngine   *)
(* leaves these out, because no handler reads them back.                   *)
(*                                                                         *)
(* PostgreSQL and asyncpg are external: a statement takes effect, or       *)
(* raises without one, or raises after it (command_timeout).               *)
(***************************************************************************)
EXTENDS Integers, Sequences, FiniteSets

CONSTANTS Inserts,  \* the calls of the insert_* helpers, each a task of its own
          TableOf,  \* the table each of them writes
          MaxSize   \* connections in a pool (max_size)

VARIABLES
  server, \* the process: down, starting, serving, or in the lifespan's last part
  pool,   \* _pool
  leaked, \* a pool was opened and dropped without being closed
  step,   \* the next statement of init_pool
  schema, \* the objects of the database
  insert, \* what became of each call
  rows    \* the calls whose row is in its table

memoryVars == <<server, pool, leaked, step, schema, insert, rows>>

\* The statements of init_pool in their order, named for what they create.
Statements == <<"vector", "expert_demonstrations", "rejected_demonstrations",
                "idx_rejected_demos_vector", "incident_memory",
                "idx_incident_memory_128d", "idx_incident_memory_768d">>
Needed   == {Statements[k] : k \in 1..5}
Tables   == {Statements[k] : k \in {2, 3, 5}}
Outcomes == {"none", "scheduled", "executing", "inserted", "skipped", "failed"}

MemoryInit ==
  /\ server = "down" /\ pool = "none" /\ leaked = FALSE /\ step = 1
  /\ schema = {} /\ rows = {}
  /\ insert = [i \in Inserts |-> "none"]

Start ==
  /\ server = "down"
  /\ server' = "starting" /\ step' = 1
  /\ UNCHANGED <<pool, leaked, schema, insert, rows>>

\* No asyncpg, no DATABASE_URL, or no database: the service runs without memory.
NoPool ==
  /\ server = "starting" /\ pool = "none"
  /\ server' = "serving"
  /\ UNCHANGED <<pool, leaked, step, schema, insert, rows>>

\* The pool is published before its schema is there; no handler runs yet.
CreatePool ==
  /\ server = "starting" /\ pool = "none"
  /\ pool' = "open"
  /\ UNCHANGED <<server, leaked, step, schema, insert, rows>>

Execute ==
  /\ server = "starting" /\ pool = "open" /\ step <= 7
  /\ schema' = schema \cup {Statements[step]}
  /\ step' = step + 1
  /\ UNCHANGED <<server, pool, leaked, insert, rows>>

\* A failed index of incident_memory is passed over; any other failure drops
\* the pool, which stays open.
StatementFails ==
  /\ server = "starting" /\ pool = "open" /\ step <= 7
  /\ schema' \in {schema, schema \cup {Statements[step]}}
  /\ \/ /\ step > 5
        /\ step' = step + 1
        /\ UNCHANGED <<server, pool, leaked>>
     \/ /\ step <= 5
        /\ pool' = "none" /\ leaked' = TRUE /\ server' = "serving"
        /\ UNCHANGED step
  /\ UNCHANGED <<insert, rows>>

Initialised ==
  /\ server = "starting" /\ pool = "open" /\ step = 8
  /\ server' = "serving"
  /\ UNCHANGED <<pool, leaked, step, schema, insert, rows>>

\* asyncio.create_task after an execution.  Only incident_memory has callers;
\* the two helpers of the RLHF tables are never called.
Schedule(i) ==
  /\ server = "serving" /\ insert[i] = "none"
  /\ insert' = [insert EXCEPT ![i] = "scheduled"]
  /\ UNCHANGED <<server, pool, leaked, step, schema, rows>>

Skip(i) ==
  /\ server \in {"serving", "stopping"} /\ insert[i] = "scheduled" /\ pool = "none"
  /\ insert' = [insert EXCEPT ![i] = "skipped"]
  /\ UNCHANGED <<server, pool, leaked, step, schema, rows>>

Executing == {i \in Inserts : insert[i] = "executing"}

AcquireConnection(i) ==
  /\ insert[i] = "scheduled" /\ pool = "open" /\ Cardinality(Executing) < MaxSize
  /\ insert' = [insert EXCEPT ![i] = "executing"]
  /\ UNCHANGED <<server, pool, leaked, step, schema, rows>>

Insert(i) ==
  /\ insert[i] = "executing"
  /\ insert' = [insert EXCEPT ![i] = "inserted"]
  /\ rows' = rows \cup {i}
  /\ UNCHANGED <<server, pool, leaked, step, schema>>

\* The pool is closing, or the statement raises: logged and forgotten.
InsertFails(i) ==
  /\ insert[i] \in {"scheduled", "executing"} /\ pool = "open"
  /\ insert' = [insert EXCEPT ![i] = "failed"]
  /\ rows' \in IF insert[i] = "executing" THEN {rows, rows \cup {i}} ELSE {rows}
  /\ UNCHANGED <<server, pool, leaked, step, schema>>

\* The end of the lifespan: close_pool waits for the connections in use.
Stop ==
  /\ server = "serving"
  /\ server' = "stopping"
  /\ UNCHANGED <<pool, leaked, step, schema, insert, rows>>

ClosePool ==
  /\ server = "stopping" /\ pool = "open" /\ Executing = {}
  /\ pool' = "none"
  /\ UNCHANGED <<server, leaked, step, schema, insert, rows>>

\* The process ends, after ClosePool or in the middle of anything: the tasks
\* still under way are lost, and PostgreSQL may have carried out what they sent.
End ==
  /\ server # "down"
  /\ server' = "down" /\ pool' = "none" /\ leaked' = FALSE
  /\ insert' = [i \in Inserts |->
                 IF insert[i] \in {"scheduled", "executing"} THEN "failed" ELSE insert[i]]
  /\ \E done \in SUBSET Executing : rows' = rows \cup done
  /\ UNCHANGED <<step, schema>>

MemoryNext ==
  \/ Start \/ NoPool \/ CreatePool \/ Execute \/ StatementFails \/ Initialised
  \/ \E i \in Inserts : Schedule(i) \/ Skip(i) \/ AcquireConnection(i) \/ Insert(i) \/ InsertFails(i)
  \/ Stop \/ ClosePool \/ End

MemorySpec == MemoryInit /\ [][MemoryNext]_memoryVars

\* The answers is_action_rejected may give when the rejections of the calls in
\* similar match: without a pool, and when the query fails, it is FALSE.
\* Nothing calls it.
IsActionRejected(similar) ==
  {FALSE, pool = "open" /\ \E i \in rows \cap similar : TableOf[i] = "rejected_demonstrations"}
-----------------------------------------------------------------------------
TablesGiven == TableOf \in [Inserts -> Tables]

MemoryTypeOK ==
  /\ server \in {"down", "starting", "serving", "stopping"}
  /\ pool \in {"none", "open"} /\ leaked \in BOOLEAN /\ step \in 1..8
  /\ insert \in [Inserts -> Outcomes]
  /\ rows \subseteq Inserts

\* Whoever gets a pool from get_pool finds every table it writes, although the
\* pool is published before the first of them exists (init_pool).
SchemaBeforeService == pool = "open" /\ server # "starting" => Needed \subseteq schema

\* A row lies in a table that exists; a call that is logged as inserted left
\* one, and one that was skipped, or that never got a connection, left none.
LoggedIsStored ==
  \A i \in Inserts :
    /\ i \in rows => TableOf[i] \in schema
    /\ insert[i] = "inserted" => i \in rows
    /\ insert[i] \in {"none", "scheduled", "executing", "skipped"} => i \notin rows

\* What makes them inductive: the statements passed so far are carried out, and
\* a call under way has a pool with the whole schema.
Passed ==
  /\ server = "down" => pool = "none"
  /\ server = "starting" /\ pool = "none" => step = 1
  /\ server = "starting" /\ pool = "open" =>
       \A k \in 1..5 : k < step => Statements[k] \in schema
  /\ \A i \in Inserts : insert[i] = "executing" =>
       pool = "open" /\ server \in {"serving", "stopping"}
  /\ \A i \in Inserts : insert[i] = "scheduled" => server \in {"serving", "stopping"}

MemoryInv == MemoryTypeOK /\ SchemaBeforeService /\ LoggedIsStored /\ Passed
=============================================================================
