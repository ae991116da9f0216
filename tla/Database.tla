------------------------------- MODULE Database -------------------------------
(***************************************************************************)
(* The workspace database file (src/workspace/database.py) and the         *)
(* migrations that bring it to the current schema (migrations.py): threads *)
(* of one process share a receipt that says which file was validated,      *)
(* processes share only the file, a process may die between two            *)
(* transactions, and the file may be an older one, a foreign one, or be    *)
(* replaced while processes run.                                           *)
(*                                                                         *)
(* A table is the set of its rows; a row that belongs to a job is named    *)
(* after it.  Columns and indexes are counted, not listed.                 *)
(***************************************************************************)
EXTENDS Naturals, FiniteSets, Sequences, SequencesExt, TLC

VARIABLES
  file,      \* the database on disk
  opener,    \* opener[t]: a thread in ensure_initialized
  readiness,  \* readiness[p]: _InitializationState of a process: its lock, ready
  disturbed  \* history: the threads whose validation saw a second process, or another file
             \* (file.suspect: the file came while a thread was validating)
dbVars == <<file, opener, readiness, disturbed>>

Openers == {"a1", "a2", "b1"}
Processes == {"a", "b"}
ProcessOf(t) == IF t = "b1" THEN "b" ELSE "a"
MaxFiles == 2                          \* bound: the file is replaced once
Latest == 7
NoOpener == "nobody"
NotReady == [id |-> 0, version |-> 0]

(***************************************************************************)
(* The migrations, as statements on tables.                                *)
(***************************************************************************)
CreateTable(t) == [op |-> "create", table |-> t, from |-> ""]
CreateAs(t, from) == [op |-> "create", table |-> t, from |-> from]
AddColumn(t) == [op |-> "column", table |-> t, from |-> ""]
InsertAll(t, from) == [op |-> "insert", table |-> t, from |-> from]
Drop(t) == [op |-> "drop", table |-> t, from |-> ""]
Rename(from, t) == [op |-> "rename", table |-> t, from |-> from]
Each(op(_), tables) == [n \in DOMAIN tables |-> op(tables[n])]

JobTables == <<"job_steps", "job_events", "evaluation_attempts", "evaluation_case_results", "evaluation_reports">>
Saved(t) == t \o "_v7"
SaveAll == [n \in DOMAIN JobTables |-> CreateAs(Saved(JobTables[n]), JobTables[n])]
Rebuild == [n \in 1..2 * Len(JobTables) |->
              LET t == JobTables[(n + 1) \div 2] IN IF n % 2 = 1 THEN CreateTable(t) ELSE InsertAll(t, Saved(t))]
Replaced == <<CreateTable("jobs_v7"), InsertAll("jobs_v7", "jobs"), Drop("jobs"), Rename("jobs_v7", "jobs")>>
\* Mutant: the jobs are replaced while their children still refer to them.
RebuiltInPlace == Replaced \o SaveAll \o Each(Drop, JobTables) \o Rebuild
                    \o [n \in DOMAIN JobTables |-> Drop(Saved(JobTables[n]))]
Rebuilt == SaveAll \o Each(Drop, JobTables) \o Replaced \o Rebuild
             \o [n \in DOMAIN JobTables |-> Drop(Saved(JobTables[n]))]
CoreFoundation == Each(CreateTable, <<"workspace_records", "tombstones", "workspace_imports", "workspace_settings">>)
ResearchDomains == Each(CreateTable, <<"conversations", "collections", "collection_items", "notes", "activity_events">>)
OperationsFoundation == Each(CreateTable, <<"jobs", "job_steps", "job_events", "telemetry_events">>)
DurableJobContract == Each(AddColumn, <<"jobs", "job_events">>)
FrozenEvaluationJobs ==
  Each(CreateTable, <<"evaluation_artifacts", "evaluation_attempts", "evaluation_case_results", "evaluation_reports">>)
TerminalTelemetry == Each(AddColumn, <<"telemetry_events">>)
Migrations == <<CoreFoundation, ResearchDomains, OperationsFoundation, DurableJobContract,
                FrozenEvaluationJobs, TerminalTelemetry, Rebuilt>>
Expected ==
  {"workspace_records", "tombstones", "workspace_imports", "workspace_settings", "conversations", "collections",
   "collection_items", "notes", "activity_events", "jobs", "telemetry_events", "evaluation_artifacts"} \cup ToSet(JobTables)

(* A statement, with foreign keys on: dropping a table deletes its rows    *)
(* first, and with them the rows that refer to them.                       *)
Without(f, t) == [x \in DOMAIN f \ {t} |-> f[x]]
Failing(db) == [db EXCEPT !.ok = FALSE]
Cascaded(db, t) ==
  IF t # "jobs" THEN db.tables ELSE [x \in DOMAIN db.tables |-> IF x \in ToSet(JobTables) THEN {} ELSE db.tables[x]]
Execute(db, s) ==
  LET has == s.table \in DOMAIN db.tables
  IN  IF ~db.ok THEN db
      ELSE CASE s.op = "create" ->
                  IF has \/ (s.from # "" /\ s.from \notin DOMAIN db.tables) THEN Failing(db)
                  ELSE [db EXCEPT !.tables = @ @@ s.table :> IF s.from = "" THEN {} ELSE @[s.from]]
             [] s.op = "column" ->
                  IF ~has \/ s.table \in db.widened THEN Failing(db) ELSE [db EXCEPT !.widened = @ \cup {s.table}]
             [] s.op = "insert" ->
                  IF ~has THEN Failing(db) ELSE [db EXCEPT !.tables[s.table] = @ \cup db.tables[s.from]]
             [] s.op = "drop" -> IF ~has THEN Failing(db) ELSE [db EXCEPT !.tables = Without(Cascaded(db, s.table), s.table)]
             [] s.op = "rename" -> [db EXCEPT !.tables = Without(@, s.from) @@ s.table :> @[s.from]]
Migrated(db, version) ==
  LET done == FoldLeft(Execute, db, Migrations[version])
  IN  [db EXCEPT !.tables = done.tables, !.widened = done.widened, !.applied = Append(@, version),
                 !.ok = done.ok /\ version \notin ToSet(db.applied)]

(***************************************************************************)
(* The files that may be found: none, those of every version with rows, a  *)
(* foreign one, one of a newer program, a damaged one, one lacking a table.*)
(***************************************************************************)
EmptyDb == [id |-> 1, tables |-> << >>, widened |-> {}, applied |-> << >>, meta |-> FALSE, sound |-> TRUE,
            ok |-> TRUE, suspect |-> FALSE]
AtVersion[v \in 0..Latest] ==
  IF v = 0 THEN [EmptyDb EXCEPT !.meta = TRUE] ELSE Migrated(AtVersion[v - 1], v)
Rows(v) == IF v < 3 THEN << >> ELSE "jobs" :> {1, 2} @@ "job_steps" :> {1, 2} @@ "job_events" :> {1}
             @@ "telemetry_events" :> {3} @@ IF v < 5 THEN << >> ELSE "evaluation_reports" :> {2}
Used(v) == [AtVersion[v] EXCEPT !.tables = Rows(v) @@ @]
Files == {EmptyDb, [EmptyDb EXCEPT !.tables = "other" :> {1}], [Used(7) EXCEPT !.sound = FALSE],
          [Used(7) EXCEPT !.applied = Append(@, 8)], [Used(7) EXCEPT !.applied = <<1, 2, 4>>],
          [Used(7) EXCEPT !.tables = Without(@, "notes")]} \cup {Used(v) : v \in {0, 3, 5, 7}}
Replacements == {EmptyDb, Used(5)}
Prefix(n) == [v \in 1..n |-> v]

(***************************************************************************)
(* ensure_initialized.                                                     *)
(***************************************************************************)
Idle == [at |-> "idle", version |-> 0, told |-> 0, error |-> "none"]
Inside == {t \in Openers : opener[t].at \notin {"idle", "waiting", "revalidating"}}
Moves(t, at) == opener' = [opener EXCEPT ![t].at = at]
Releases(t) == readiness' = [readiness EXCEPT ![ProcessOf(t)].lock = NoOpener]
Raise(t, error) ==
  /\ opener' = [opener EXCEPT ![t] = [Idle EXCEPT !.error = error]]
  /\ Releases(t) /\ UNCHANGED <<file, disturbed>>
Told(t) == opener' = [opener EXCEPT ![t] = [Idle EXCEPT !.told = file.id]]
IsReady(p) == readiness[p].ready.id = file.id
(* initialize asks for a validation whatever the receipt says.             *)
Initialize(t) ==
  /\ opener[t].at = "idle" /\ readiness[ProcessOf(t)].ready # NotReady
  /\ opener' = [opener EXCEPT ![t] = [Idle EXCEPT !.at = "revalidating"]]
  /\ UNCHANGED <<file, readiness, disturbed>>
(* The warm path, without a lock.                                          *)
EnsureInitialized(t) ==
  /\ opener[t].at = "idle"
  /\ IF IsReady(ProcessOf(t)) THEN Told(t)
     ELSE opener' = [opener EXCEPT ![t] = [Idle EXCEPT !.at = "waiting"]]
  /\ UNCHANGED <<file, readiness, disturbed>>
MayEnter(t) == readiness[ProcessOf(t)].lock = NoOpener
Acquire(t) ==
  /\ opener[t].at \in {"waiting", "revalidating"} /\ MayEnter(t)
  /\ IF opener[t].at = "waiting" /\ IsReady(ProcessOf(t)) THEN Told(t) /\ UNCHANGED <<readiness, disturbed>>
     ELSE /\ Moves(t, "integrity")
          /\ readiness' = [readiness EXCEPT ![ProcessOf(t)] = [lock |-> t, ready |-> NotReady]]
          /\ disturbed' = (disturbed \ {t}) \cup
               {o \in Openers : \E x, y \in {t} \cup Inside :
                                  o \in {x, y} /\ ProcessOf(x) # ProcessOf(y)}
  /\ UNCHANGED file
CheckIntegrity(t) ==
  /\ opener[t].at = "integrity"
  /\ IF file.sound THEN Moves(t, "table") /\ UNCHANGED <<file, readiness, disturbed>> ELSE Raise(t, "state")
EnsureMigrationTable(t) ==
  /\ opener[t].at = "table"
  /\ IF file.meta \/ DOMAIN file.tables = {}
     THEN Moves(t, IF file.meta THEN "receipts" ELSE "create") /\ UNCHANGED <<file, readiness, disturbed>>
     ELSE Raise(t, "state")
CreateMigrationTable(t) ==
  /\ opener[t].at = "create" /\ file' = [file EXCEPT !.meta = TRUE]
  /\ Moves(t, "receipts") /\ UNCHANGED <<readiness, disturbed>>
ReadReceipts(t) ==
  /\ opener[t].at = "receipts"
  /\ IF file.meta /\ file.applied = Prefix(Len(file.applied)) /\ Len(file.applied) <= Latest
     THEN /\ opener' = [opener EXCEPT ![t].at = "apply", ![t].version = Len(file.applied)]
          /\ UNCHANGED <<file, readiness, disturbed>>
     ELSE Raise(t, "state")
(* One transaction: the statements and the receipt, or nothing.            *)
ApplyMigration(t) ==
  /\ opener[t].at = "apply" /\ opener[t].version < Latest
  /\ LET next == opener[t].version + 1
     IN  IF file.meta /\ Migrated(file, next).ok
         THEN /\ file' = Migrated(file, next) /\ opener' = [opener EXCEPT ![t].version = next]
              /\ UNCHANGED <<readiness, disturbed>>
         ELSE Raise(t, "migration")
ValidateShape(t) ==
  /\ opener[t].at = "apply" /\ opener[t].version = Latest
  /\ IF Expected \subseteq DOMAIN file.tables THEN Moves(t, "publish") /\ UNCHANGED <<file, readiness, disturbed>>
     ELSE Raise(t, "state")
Publish(t) ==
  /\ opener[t].at = "publish"
  /\ opener' = [opener EXCEPT ![t] = [Idle EXCEPT !.told = file.id]]
  /\ readiness' = [readiness EXCEPT ![ProcessOf(t)] = [lock |-> NoOpener, ready |-> [id |-> file.id, version |-> Latest]]]
  /\ UNCHANGED <<file, disturbed>>
(* Another process holds the write lock for longer than the busy timeout.  *)
Busy(t) ==
  /\ opener[t].at \in {"create", "apply"}
  /\ \E o \in Openers : ProcessOf(o) # ProcessOf(t) /\ opener[o].at \in {"create", "apply"}
  /\ Raise(t, "busy")
Dies(p) ==
  /\ \E t \in Openers : ProcessOf(t) = p /\ opener[t].at # "idle"
  /\ opener' = [t \in Openers |-> IF ProcessOf(t) = p THEN Idle ELSE opener[t]]
  /\ readiness' = [readiness EXCEPT ![p] = [lock |-> NoOpener, ready |-> NotReady]]
  /\ UNCHANGED <<file, disturbed>>
ReplaceFile ==
  /\ file.id < MaxFiles
  /\ \E f \in Replacements : file' = [f EXCEPT !.id = file.id + 1, !.suspect = Inside # {}]
  /\ disturbed' = disturbed \cup Inside
  /\ UNCHANGED <<opener, readiness>>

FoundOnDisk(files) ==
  /\ file \in files
  /\ opener = [t \in Openers |-> Idle]
  /\ readiness = [p \in Processes |-> [lock |-> NoOpener, ready |-> NotReady]]
  /\ disturbed = {}
DbInit == FoundOnDisk(Files)
DbNext ==
  \/ \E t \in Openers :
       \/ EnsureInitialized(t) \/ Initialize(t) \/ Acquire(t) \/ CheckIntegrity(t) \/ EnsureMigrationTable(t)
       \/ CreateMigrationTable(t) \/ ReadReceipts(t) \/ ApplyMigration(t) \/ ValidateShape(t)
       \/ Publish(t) \/ Busy(t)
  \/ Dies("a")                         \* bound: the process with two threads; the other goes on
  \/ ReplaceFile

DbSpec == DbInit /\ [][DbNext]_dbVars

(* Every row that a file of an older version holds is there in each        *)
(* version it is migrated to, a row that belongs to a job never outlives   *)
(* it, and no copy is left behind, wherever a process dies (migrations.py, *)
(* AGENT_DURABLE_JOBS: "Preserve every dependent row").                    *)
RowsSurvive ==
  \A v \in 3..Latest : file.meta /\ file.applied = Prefix(v) /\ DOMAIN file.tables # {} /\ file.tables["jobs"] # {} =>
    /\ \A t \in DOMAIN Rows(3) : file.tables[t] = Rows(3)[t]
    /\ \A t \in ToSet(JobTables) \cap DOMAIN file.tables : file.tables[t] \subseteq file.tables["jobs"]
    /\ \A t \in ToSet(JobTables) : Saved(t) \notin DOMAIN file.tables

(* A thread that was told that the database is ready, and whose file is    *)
(* still there, works on a sound file of the current version with every    *)
(* table, unless the file was replaced while it was being validated        *)
(* (database.py, ensure_initialized).                                      *)
ReadyIsCurrent ==
  \A t \in Openers : opener[t].told = file.id /\ ~file.suspect =>
    file.sound /\ file.applied = Prefix(Latest) /\ Expected \subseteq DOMAIN file.tables

(* A migration fails only where a second process, or another file, came in *)
(* between: the threads of one process never apply a migration twice, nor  *)
(* one on top of the other (database.py, initialize).                      *)
MigrationsDoNotRace ==
  \A t \in Openers : opener[t].error = "migration" => t \in disturbed
=============================================================================
