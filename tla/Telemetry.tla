------------------------------ MODULE Telemetry ------------------------------
(***************************************************************************)
(* The durable operational telemetry (src/workspace/telemetry.py): the     *)
(* immutable rows of terminal requests with their retention, the terminal  *)
(* jobs projected at read time, the log pages a client follows with a      *)
(* cursor over a sliding window, the summary and the time series.          *)
(*                                                                         *)
(* A record is stamped before its transaction waits for the write lock,    *)
(* and a page is read in two connections: records may arrive with an old   *)
(* stamp, and between the reads of one page.  Time is coarse, so that      *)
(* several records share a stamp.  A record's identity is a number that    *)
(* orders as its name does: every "job:..." before every "tel_...".        *)
(***************************************************************************)
EXTENDS Naturals, FiniteSets, Sequences, SequencesExt, FiniteSetsExt

CONSTANTS
  EndedRequests, EndedJobs,  \* the requests and the jobs that end while telemetry is watched
  Failing,                   \* bound: those that may fail; a request among them is repeated
  PerformanceId,             \* a performance summary
  Limits,                    \* rows per page
  Retention, LogWindow,      \* TELEMETRY_RETENTION_DAYS, LOG_RETENTION_DAYS
  MaxClock                   \* bound

ASSUME TelemetryAssumption ==
  /\ EndedRequests \cup EndedJobs \cup {PerformanceId, Retention, LogWindow, MaxClock} \subseteq Nat
  /\ EndedRequests \cap EndedJobs = {} /\ PerformanceId \notin EndedRequests
  /\ Limits \subseteq Nat \ {0}

VARIABLES
  clock,
  table,   \* telemetry_events
  ended,   \* the rows of jobs in a terminal state, with finished_at
  writer,  \* writer[r]: _persist_terminal_request for a request, or its repetition
  reader   \* a client that follows the pages of /logs
tmVars == <<clock, table, ended, writer, reader>>

Levels == {"any", "error"}
AnyLevel == "any"
NoCursor == [at |-> MaxClock + 1, id |-> 0]

(***************************************************************************)
(* Records.                                                                *)
(***************************************************************************)
SeverityOf(outcome) ==
  CASE outcome = "failed" -> "error" [] outcome = "interrupted" -> "warning" [] OTHER -> "info"
Row(id, event, outcome, at) == [id |-> id, event |-> event, outcome |-> outcome, at |-> at]
Until(row) == row.at + Retention
Pruned(rows, at) == {x \in rows : Until(x) > at}
\* Mutant: the insertion replaces the row of that identity.
InsertedReplacing(rows, row) == {x \in rows : x.id # row.id} \cup {row}
Inserted(rows, row) == IF \E x \in rows : x.id = row.id THEN rows ELSE rows \cup {row}

Running == [at |-> "running", outcome |-> "none", stamp |-> 0]
Lost == [Running EXCEPT !.at = "gone"]
Walking == reader.at # "done"          \* bound: nothing begins after the client's walk
(* The middleware measures the request and stamps its record.              *)
Ends(r) ==
  /\ Walking /\ writer[r].at = "running"
  /\ \E outcome \in {"succeeded"} \cup IF r \in Failing THEN {"failed"} ELSE {} :
       writer' = [writer EXCEPT ![r] = [at |-> "stamped", outcome |-> outcome, stamp |-> clock]]
  /\ UNCHANGED <<clock, table, ended, reader>>
Records(row) == table' = Inserted(Pruned(table, row.at), row)
RecordRequestTerminal(r) ==
  /\ writer[r].at = "stamped"
  /\ Records(Row(r, "request", writer[r].outcome, writer[r].stamp))
  /\ writer' = [writer EXCEPT ![r] = Lost]
  /\ UNCHANGED <<clock, ended, reader>>
(* The repository is called again for that identity, with other facts: it  *)
(* answers a conflict.                                                     *)
RecordAgain(r) ==
  /\ Walking /\ writer[r].at = "gone" /\ \E x \in table : x.id = r
  /\ r \in Failing                     \* bound
  /\ Records(Row(r, "request", "interrupted", clock))
  /\ UNCHANGED <<clock, ended, writer, reader>>
(* The database is busy: the request keeps its outcome, the fact is lost.  *)
WriteFails(r) ==
  /\ writer[r].at = "stamped"
  /\ writer' = [writer EXCEPT ![r] = Lost]
  /\ UNCHANGED <<clock, table, ended, reader>>
RecordPerformanceTerminal ==
  /\ \A x \in table : x.id # PerformanceId
  /\ clock = 0 /\ ended = {}           \* bound: one summary, early
  /\ table' = Pruned(table, clock) \cup {Row(PerformanceId, "performance", "succeeded", clock)}
  /\ UNCHANGED <<clock, ended, writer, reader>>
JobEnds(j) ==
  /\ Walking /\ \A x \in ended : x.id # j
  /\ ended' = ended \cup {Row(j, "job", IF j \in Failing THEN "failed" ELSE "interrupted", clock)}
  /\ UNCHANGED <<clock, table, writer, reader>>
Passes == Walking /\ clock < MaxClock /\ clock' = clock + 1 /\ UNCHANGED <<table, ended, writer, reader>>

(***************************************************************************)
(* The log: newest first, one page per call.                               *)
(***************************************************************************)
Later(x, y) == x.at > y.at \/ (x.at = y.at /\ x.id > y.id)
\* Mutant: the cursor compares the time only.
AfterTime(rows, cursor) == {x \in rows : cursor.at > x.at}
After(rows, cursor) == {x \in rows : Later(cursor, x)}
NewerThan(x, rows) == {y \in rows : Later(y, x)}
Newest(rows, limit) ==
  [n \in 1..(IF Cardinality(rows) < limit THEN Cardinality(rows) ELSE limit) |->
     CHOOSE x \in rows : Cardinality(NewerThan(x, rows)) = n - 1]
InWindow(rows, from, to) == {x \in rows : x.at >= from /\ x.at < to}
OfLevel(rows, level) == {x \in rows : level = AnyLevel \/ SeverityOf(x.outcome) = level}
TerminalRows(rows, from, to) == {x \in InWindow(rows, from, to) : x.event = "request" /\ Until(x) > to}

From(to, window) == IF to < window THEN 0 ELSE to - window
Asked(r) == r.limit + 1
(* The client asks for its first page, or follows next_cursor.             *)
AskLogs ==
  /\ reader.at = "idle" /\ reader.cursor = NoCursor
  /\ \E level \in Levels, limit \in Limits :
       LET window(rows) == OfLevel(InWindow(rows, From(clock, LogWindow), clock), level)
           seen == window({x \in table : x.event = "request"}) \cup window(ended)
       IN  /\ Cardinality(seen) >= 2   \* bound: a log of some length
           /\ reader' = [reader EXCEPT !.at = "requests", !.level = level, !.limit = limit, !.to = clock, !.seen = seen]
  /\ UNCHANGED <<clock, table, ended, writer>>
AskNext ==
  /\ reader.at = "idle" /\ reader.cursor # NoCursor
  /\ reader' = [reader EXCEPT !.at = "requests", !.to = clock]
  /\ UNCHANGED <<clock, table, ended, writer>>
RequestLogCandidates ==
  /\ reader.at = "requests"
  /\ table' = Pruned(table, reader.to)
  /\ reader' = [reader EXCEPT !.at = "jobs",
       !.found = Newest(After(OfLevel(TerminalRows(table', From(reader.to, LogWindow), reader.to), reader.level),
                              reader.cursor), Asked(reader))]
  /\ UNCHANGED <<clock, ended, writer>>
JobLogCandidates ==
  /\ reader.at = "jobs"
  /\ LET jobs == Newest(After(OfLevel(InWindow(ended, From(reader.to, LogWindow), reader.to), reader.level),
                              reader.cursor), Asked(reader))
         combined == ToSet(reader.found) \cup ToSet(jobs)
         items == Newest(combined, reader.limit)
         more == Cardinality(combined) > reader.limit
     IN  reader' = [reader EXCEPT !.at = IF more THEN "idle" ELSE "done", !.found = << >>, !.items = @ \o items,
                      !.cursor = IF more THEN [at |-> Last(items).at, id |-> Last(items).id] ELSE NoCursor]
  /\ UNCHANGED <<clock, table, ended, writer>>

(***************************************************************************)
(* The summary and the time series over [to - range, to).                  *)
(***************************************************************************)
Ranges == {2, 4}
Widths == {1, 2}
Buckets(range, width) == 0..((range + width - 1) \div width) - 1
RequestRecords(range, to) == TerminalRows(Pruned(table, to), From(to, range), to)
TerminalJobs(range, to) == InWindow(ended, From(to, range), to)
Bucket(rows, index, range, width, to) == {x \in rows : (x.at + range - to) \div width = index}
Series(rows, range, width, to) == [index \in Buckets(range, width) |-> Cardinality(Bucket(rows, index, range, width, to))]
SummaryOf(rows) == [count |-> Cardinality(rows), failed |-> Cardinality({x \in rows : x.outcome = "failed"})]

TmInit ==
  /\ clock = 0 /\ table = {} /\ ended = {}
  /\ writer = [r \in EndedRequests |-> Running]
  /\ reader = [at |-> "idle", level |-> AnyLevel, limit |-> 1, to |-> 0, cursor |-> NoCursor,
               found |-> << >>, items |-> << >>, seen |-> {}]
TmNext ==
  \/ \E r \in EndedRequests : Ends(r) \/ RecordRequestTerminal(r) \/ RecordAgain(r) \/ WriteFails(r)
  \/ \E j \in EndedJobs : JobEnds(j)
  \/ RecordPerformanceTerminal \/ Passes
  \/ AskLogs \/ AskNext \/ RequestLogCandidates \/ JobLogCandidates
TmSpec == TmInit /\ [][TmNext]_tmVars

(* A client that follows the cursor to the end sees every record that was  *)
(* there when it asked for the first page and is still in the window of    *)
(* the last one, once, newest first, however the clock and the writers     *)
(* moved between the pages (telemetry.py, logs).                           *)
PagesAreComplete ==
  /\ \A m, n \in DOMAIN reader.items : m < n => Later(reader.items[m], reader.items[n])
  /\ reader.at = "done" => {x \in reader.seen : x.at >= From(reader.to, LogWindow) /\ Until(x) > clock} \subseteq ToSet(reader.items)

(* A terminal fact never changes, and leaves the table only when its       *)
(* retention has passed, whoever prunes and with whatever stamp            *)
(* (telemetry.py, record_request_terminal, prune_expired).                 *)
FactsAreImmutable == [][\A x \in table : x \in table' \/ Until(x) <= clock]_tmVars

(* The series of a range adds up to its summary, for requests, failures    *)
(* and jobs and at every width (telemetry.py, summary and timeseries).     *)
SeriesAddUp ==
  \A range \in Ranges, width \in Widths :
    \A rows \in {RequestRecords(range, clock), TerminalJobs(range, clock)} :
      LET total(which) == MapThenSumSet(LAMBDA n : Series(which, range, width, clock)[n], Buckets(range, width))
      IN  total(rows) = SummaryOf(rows).count /\ total({x \in rows : x.outcome = "failed"}) = SummaryOf(rows).failed
=============================================================================
