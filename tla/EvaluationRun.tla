--------------------------- MODULE EvaluationRun ----------------------------
(***************************************************************************)
(* Budgeted native evaluation jobs: src/evaluation/job_service.py over the *)
(* tables of src/evaluation/job_store.py and the job repository.           *)
(*                                                                         *)
(* POST /evaluation/jobs freezes a plan, creates a queued row and starts   *)
(* EvaluationJobService.run in a thread of the server; a repeated POST     *)
(* starts another thread while the row is still queued.  Every provider    *)
(* call is paid for first: reserve_attempt commits a slot of the frozen    *)
(* budget before the request leaves the process.  Clients cancel at any    *)
(* moment, the process may die between any two commits, and storage calls  *)
(* may fail.                                                               *)
(*                                                                         *)
(* Prompts, answers, scores and reports are abstracted away; a request is  *)
(* identified with its budget.                                             *)
(***************************************************************************)
EXTENDS JobStore

CONSTANTS
    Runners,         \* background threads that may execute EvaluationJobService.run
    NCases,          \* cases of the frozen artifact
    FinishTries,     \* range(3) of _finish_failure
    MaxCrashes,      \* bound: deaths of the process
    MaxFaults        \* bound: failing storage calls

Cases == 1..NCases
Phases == {"generation", "correction", "judging"}

ASSUME EvaluationAssumption ==
    /\ NCases \in Nat \ {0}
    /\ FinishTries \in Nat \ {0}
    /\ Steps = {"execute_cases", "aggregate_report"}
    /\ Requests \subseteq Nat
    /\ MaxCrashes \in Nat /\ MaxFaults \in Nat

VARIABLES
    attempts,        \* attempts[j]: rows of evaluation_attempts
    cases,           \* cases[j]: rows of evaluation_case_results
    report,          \* report[j]: the job has a row in evaluation_reports
    progress,        \* progress[j]: progress_current of the job
    run,             \* run[r]: the local state of a runner
    calls,           \* history: calls[j][c, p], provider requests sent
    process,         \* "up", "down" or "recovering"
    crashes, faults

tables == <<attempts, cases, report, progress>>
env == <<process, crashes, faults>>
vars == <<job, log, attempts, cases, report, progress, run, calls, process, crashes, faults>>

PCs == {"off", "start", "claim", "prepare", "beginCases", "resetProgress", "check",
        "reserve", "call", "commitCase", "checkCase", "reread", "progress", "endCases",
        "beginReport", "commitReport", "checkReport", "endReport", "succeed",
        "handler", "finish", "acknowledge", "fail"}

Idle == [pc |-> "off", id |-> NoRow, row |-> NoRow, case |-> 1,
         phase |-> "generation", tries |-> 0, refused |-> FALSE]

TypeOK ==
    /\ StoreTypeOK
    /\ attempts \in [Jobs -> SUBSET (Cases \X Phases)]
    /\ cases \in [Jobs -> SUBSET Cases]
    /\ report \in [Jobs -> BOOLEAN]
    /\ progress \in [Jobs -> 0..NCases]
    /\ run \in [Runners -> [pc : PCs, id : Jobs \cup {NoRow}, row : JobRow \cup {NoRow},
                            case : Cases, phase : Phases, tries : 0..FinishTries,
                            refused : BOOLEAN]]
    /\ calls \in [Jobs -> [Cases \X Phases -> Nat]]
    /\ process \in {"up", "down", "recovering"}
    /\ crashes \in 0..MaxCrashes /\ faults \in 0..MaxFaults

Init ==
    /\ StoreInit
    /\ attempts = [j \in Jobs |-> {}]
    /\ cases = [j \in Jobs |-> {}]
    /\ report = [j \in Jobs |-> FALSE]
    /\ progress = [j \in Jobs |-> 0]
    /\ run = [r \in Runners |-> Idle]
    /\ calls = [j \in Jobs |-> [x \in Cases \X Phases |-> 0]]
    /\ process = "up" /\ crashes = 0 /\ faults = 0

-----------------------------------------------------------------------------
(* Creation, dispatch and cancellation by clients. *)

Start(r, j) == run' = [run EXCEPT ![r] = [Idle EXCEPT !.pc = "start", !.id = j]]

\* freeze_plan accepts a budget of at least three calls per case.
CanFreeze(budget) == budget >= 3 * NCases

CreateEvaluation(j, k, budget) ==
    /\ process = "up"
    /\ CanFreeze(budget)
    /\ CanCreateJob(j, "evaluation", k)
    /\ CreateJob(j, "evaluation", k, budget)
    /\ \E r \in Runners : run[r].pc = "off" /\ Start(r, j)
    /\ UNCHANGED <<tables, calls, env>>

\* The same request again: the stored job, dispatched once more while queued.
CreateAgain(j, k, budget) ==
    /\ process = "up"
    /\ j \in StoredUnder("evaluation", k)
    /\ job[j].request = budget
    /\ job[j].state = "queued"
    /\ \E r \in Runners : run[r].pc = "off" /\ Start(r, j)
    /\ UNCHANGED <<storeVars, tables, calls, env>>

CancelEvaluation(j) ==
    /\ process = "up"
    /\ Exists(j) /\ CanRequestCancellation(j, job[j].revision)
    /\ RequestCancellation(j)
    /\ UNCHANGED <<tables, run, calls, env>>

-----------------------------------------------------------------------------
(* Steps of a runner. *)

At(r, pc) == run[r].pc = pc
Job(r) == run[r].id
Row(r) == run[r].row
Go(r, pc) == run' = [run EXCEPT ![r].pc = pc]
Leave(r) == run' = [run EXCEPT ![r] = Idle]

\* job = self.repository....: the returned row replaces the snapshot.
GoWith(r, pc) == run' = [run EXCEPT ![r].pc = pc, ![r].row = job'[Job(r)]]

\* An exception other than _Cancelled reaches the handler of run.
Raise(r) == run' = [run EXCEPT ![r].pc = "handler"]

ReadQueued(r) ==
    /\ At(r, "start")
    /\ \/ /\ job[Job(r)].state = "queued"
          /\ run' = [run EXCEPT ![r].pc = "claim", ![r].row = job[Job(r)]]
       \/ /\ job[Job(r)].state # "queued"
          /\ Leave(r)
    /\ UNCHANGED <<storeVars, tables, calls, env>>

Claim(r) ==
    /\ At(r, "claim")
    /\ LET can == CanTransitionJob(Job(r), Row(r).revision, "running", "none", "none") IN
       \/ /\ can
          /\ TransitionJob(Job(r), "running", "none", "none")
          /\ GoWith(r, "prepare")
       \/ ~can /\ Leave(r) /\ UNCHANGED storeVars
    /\ UNCHANGED <<tables, calls, env>>

\* The binding, the artifact and the provider are checked: any may fail.
Prepare(r) ==
    /\ At(r, "prepare")
    /\ Go(r, "beginCases") \/ Raise(r)
    /\ UNCHANGED <<storeVars, tables, calls, env>>

\* transition_step of the two steps of the job.
MoveStep(r, at, s, target, next) ==
    /\ At(r, at)
    /\ LET can == CanTransitionStep(Job(r), s, Row(r).revision,
                                    Row(r).steps[s].revision, target) IN
       \/ can /\ TransitionStep(Job(r), s, target) /\ GoWith(r, next)
       \/ ~can /\ Raise(r) /\ UNCHANGED storeVars
    /\ UNCHANGED <<tables, calls, env>>

BeginCases(r)  == MoveStep(r, "beginCases", "execute_cases", "running", "resetProgress")
EndCases(r)    == MoveStep(r, "endCases", "execute_cases", "succeeded", "beginReport")
BeginReport(r) == MoveStep(r, "beginReport", "aggregate_report", "running", "commitReport")
EndReport(r)   == MoveStep(r, "endReport", "aggregate_report", "succeeded", "succeed")

\* report_progress with the revision of the snapshot.
Report(r, at, current, next) ==
    /\ At(r, at)
    /\ LET can == CanReportProgress(Job(r), Row(r).revision) IN
       \/ /\ can
          /\ ReportProgress(Job(r))
          /\ progress' = [progress EXCEPT ![Job(r)] = current]
          /\ run' = [run EXCEPT ![r] = [next EXCEPT !.row = job'[Job(r)]]]
       \/ ~can /\ Raise(r) /\ UNCHANGED <<storeVars, progress>>
    /\ UNCHANGED <<attempts, cases, report, calls, env>>

ResetProgress(r) == Report(r, "resetProgress", 0, [run[r] EXCEPT !.pc = "check"])

\* _check_cancel: the exception _Cancelled goes straight to _finish_failure.
CheckCancel(r, at, next) ==
    /\ At(r, at)
    /\ Go(r, IF job[Job(r)].state = "cancelling" THEN "finish" ELSE next)
    /\ UNCHANGED <<storeVars, tables, calls, env>>

\* The check of the loop head and the one of _attempt follow each other.
CheckAttempt(r) == CheckCancel(r, "check", "reserve")
CheckCase(r)    == CheckCancel(r, "checkCase", "reread")
CheckReport(r)  == CheckCancel(r, "checkReport", "endReport")

-----------------------------------------------------------------------------
(* Provider attempts. *)

Slot(r) == <<run[r].case, run[r].phase>>

\* Mutant: the state of the job is not read in the reserving transaction.
CanReserveAnyState(j, slot) ==
    /\ Cardinality(attempts[j]) < job[j].request
    /\ slot \notin attempts[j]

CanReserve(j, slot) ==
    /\ job[j].state = "running"
    /\ Cardinality(attempts[j]) < job[j].request
    /\ slot \notin attempts[j]

\* "refused" remembers that a slot of an executing job was denied.
ReserveAttempt(r) ==
    /\ At(r, "reserve")
    /\ \/ /\ CanReserve(Job(r), Slot(r))
          /\ attempts' = [attempts EXCEPT ![Job(r)] = @ \cup {Slot(r)}]
          /\ Go(r, "call")
       \/ /\ ~CanReserve(Job(r), Slot(r))
          /\ run' = [run EXCEPT ![r].pc = "handler",
                                ![r].refused = job[Job(r)].state = "running"]
          /\ UNCHANGED attempts
    /\ UNCHANGED <<storeVars, cases, report, progress, calls, env>>

\* What follows a call: the optional correction, the judge, the evaluated case.
NextPhases(phase) == IF phase = "generation" THEN {"correction", "judging"} ELSE {"judging"}

Send(r) == calls' = [calls EXCEPT ![Job(r)][Slot(r)] = @ + 1]

\* Mutant: the client repeats a failed request.
InvokeRetry(r) ==
    /\ At(r, "call")
    /\ \A x \in Cases \X Phases : calls[Job(r)][x] < 2
    /\ Send(r)
    /\ \/ run[r].phase # "judging" /\ \E p \in NextPhases(run[r].phase) :
            run' = [run EXCEPT ![r].pc = "check", ![r].phase = p]
       \/ run[r].phase = "judging" /\ Go(r, "commitCase")
       \/ UNCHANGED run
    /\ UNCHANGED <<storeVars, tables, env>>

\* Mutant: a case goes on to its progress report without being stored.
InvokeUnstored(r) ==
    /\ At(r, "call")
    /\ Send(r)
    /\ \/ run[r].phase # "judging" /\ \E p \in NextPhases(run[r].phase) :
            run' = [run EXCEPT ![r].pc = "check", ![r].phase = p]
       \/ run[r].phase = "judging" /\ Go(r, "checkCase")
       \/ Raise(r)
    /\ UNCHANGED <<storeVars, tables, env>>

\* One request; it fails, or its answer is used; evaluate_case may refuse it.
Invoke(r) ==
    /\ At(r, "call")
    /\ Send(r)
    /\ \/ run[r].phase # "judging" /\ \E p \in NextPhases(run[r].phase) :
            run' = [run EXCEPT ![r].pc = "check", ![r].phase = p]
       \/ run[r].phase = "judging" /\ Go(r, "commitCase")
       \/ Raise(r)
    /\ UNCHANGED <<storeVars, tables, env>>

-----------------------------------------------------------------------------
(* Results. *)

CommitCase(r) ==
    /\ At(r, "commitCase")
    /\ \/ /\ job[Job(r)].state \in ActiveJobStates
          /\ cases' = [cases EXCEPT ![Job(r)] = @ \cup {run[r].case}]
          /\ Go(r, "checkCase")
       \/ /\ job[Job(r)].state \notin ActiveJobStates
          /\ Raise(r) /\ UNCHANGED cases
    /\ UNCHANGED <<storeVars, attempts, report, progress, calls, env>>

RereadJob(r) ==
    /\ At(r, "reread")
    /\ run' = [run EXCEPT ![r].pc = "progress", ![r].row = job[Job(r)]]
    /\ UNCHANGED <<storeVars, tables, calls, env>>

ReportCase(r) ==
    Report(r, "progress", run[r].case,
           IF run[r].case < NCases
           THEN [run[r] EXCEPT !.pc = "check", !.case = @ + 1, !.phase = "generation"]
           ELSE [run[r] EXCEPT !.pc = "endCases"])

\* all_cases, build_native_report (which may find a case incomplete) and
\* commit_report.
CommitReport(r) ==
    /\ At(r, "commitReport")
    /\ \/ /\ cases[Job(r)] = Cases
          /\ job[Job(r)].state \in ActiveJobStates
          /\ report' = [report EXCEPT ![Job(r)] = TRUE]
          /\ Go(r, "checkReport")
       \/ Raise(r) /\ UNCHANGED report
    /\ UNCHANGED <<storeVars, attempts, cases, progress, calls, env>>

Succeed(r) ==
    /\ At(r, "succeed")
    /\ LET can == CanTransitionJob(Job(r), Row(r).revision, "succeeded", "value", "none") IN
       \/ can /\ TransitionJob(Job(r), "succeeded", "value", "none") /\ Leave(r)
       \/ ~can /\ Raise(r) /\ UNCHANGED storeVars
    /\ UNCHANGED <<tables, calls, env>>

-----------------------------------------------------------------------------
(* The handler of run, and _finish_failure. *)

Handle(r) ==
    /\ At(r, "handler")
    /\ IF job[Job(r)].state \in ActiveJobStates THEN Go(r, "finish") ELSE Leave(r)
    /\ UNCHANGED <<storeVars, tables, calls, env>>

FinishRead(r) ==
    /\ At(r, "finish")
    /\ LET st == job[Job(r)].state IN
       IF run[r].tries = FinishTries \/ st \notin ActiveJobStates
       THEN Leave(r)
       ELSE run' = [run EXCEPT ![r].row = job[Job(r)],
                               ![r].pc = IF st = "cancelling" THEN "acknowledge" ELSE "fail"]
    /\ UNCHANGED <<storeVars, tables, calls, env>>

Again(r) == run' = [run EXCEPT ![r].pc = "finish", ![r].tries = @ + 1]

FinishFail(r) ==
    /\ At(r, "fail")
    /\ LET can == CanTransitionJob(Job(r), Row(r).revision, "failed", "none", "reported") IN
       \/ can /\ TransitionJob(Job(r), "failed", "none", "reported") /\ Leave(r)
       \/ ~can /\ Again(r) /\ UNCHANGED storeVars
    /\ UNCHANGED <<tables, calls, env>>

FinishAcknowledge(r) ==
    /\ At(r, "acknowledge")
    /\ LET can == CanAcknowledgeCancellation(Job(r), Row(r).revision, "none") IN
       \/ can /\ AcknowledgeCancellation(Job(r), "none") /\ Leave(r)
       \/ ~can /\ Again(r) /\ UNCHANGED storeVars
    /\ UNCHANGED <<tables, calls, env>>

\* A storage call fails.  Before the claim, in the handler and in
\* _finish_failure nothing catches the error: the thread ends.
StorageFault(r) ==
    /\ run[r].pc \notin {"off", "call"}
    /\ faults < MaxFaults
    /\ faults' = faults + 1
    /\ IF run[r].pc \in {"start", "claim", "handler", "finish", "acknowledge", "fail"}
       THEN Leave(r) ELSE Raise(r)
    /\ UNCHANGED <<storeVars, tables, calls, process, crashes>>

-----------------------------------------------------------------------------
(* The process. *)

Crash ==
    /\ process = "up" /\ crashes < MaxCrashes
    /\ process' = "down" /\ crashes' = crashes + 1
    /\ run' = [r \in Runners |-> Idle]
    /\ UNCHANGED <<storeVars, tables, calls, faults>>

Restart ==
    /\ process = "down"
    /\ process' = "recovering"
    /\ UNCHANGED <<storeVars, tables, run, calls, crashes, faults>>

\* recover_interrupted_jobs is repeated until it returns no job.
RecoverBatch ==
    /\ process = "recovering"
    /\ \/ /\ ActiveJobs # {}
          /\ \E batch \in SUBSET ActiveJobs :
               IsRecoveryBatch(batch) /\ RecoverInterruptedJobs(batch)
          /\ UNCHANGED process
       \/ /\ ActiveJobs = {}
          /\ process' = "up"
          /\ UNCHANGED storeVars
    /\ UNCHANGED <<tables, run, calls, crashes, faults>>

RunnerStep(r) ==
    \/ ReadQueued(r) \/ Claim(r) \/ Prepare(r) \/ BeginCases(r) \/ ResetProgress(r)
    \/ CheckAttempt(r) \/ ReserveAttempt(r) \/ Invoke(r) \/ CommitCase(r) \/ CheckCase(r)
    \/ RereadJob(r) \/ ReportCase(r) \/ EndCases(r) \/ BeginReport(r) \/ CommitReport(r)
    \/ CheckReport(r) \/ EndReport(r) \/ Succeed(r)
    \/ Handle(r) \/ FinishRead(r) \/ FinishFail(r) \/ FinishAcknowledge(r)

Next ==
    \/ \E j \in Jobs, k \in Keys, b \in Requests : CreateEvaluation(j, k, b) \/ CreateAgain(j, k, b)
    \/ \E j \in Jobs : CancelEvaluation(j)
    \/ \E r \in Runners : RunnerStep(r) \/ StorageFault(r)
    \/ Crash \/ Restart \/ RecoverBatch

Spec == Init /\ [][Next]_vars

-----------------------------------------------------------------------------
(* Properties. *)

\* The runners that have claimed the job and have not left run.
RunnersOf(j) == {r \in Runners : Job(r) = j /\ run[r].pc \notin {"off", "start", "claim"}}

\* However often a creation is repeated, one thread executes the job.
OneRunner == \A j \in Jobs : Cardinality(RunnersOf(j)) <= 1

\* No provider request leaves the process without a committed slot of its own:
\* each phase of a case is requested at most once in the life of the database,
\* and a job never sends more requests than its frozen budget, whatever is
\* dispatched twice, fails, crashes or is recovered.
CallsArePaid ==
    \A j \in Jobs :
        /\ \A x \in Cases \X Phases : calls[j][x] <= 1 /\ (calls[j][x] = 1 => x \in attempts[j])
        /\ Exists(j) => Cardinality(attempts[j]) <= job[j].request

\* The budget that freeze_plan demands is enough: an executing job is never
\* denied a slot, so no run ends as budget_exhausted or as reserved before.
BudgetSuffices == \A r \in Runners : ~run[r].refused

\* Each request is sent by one runner, once, and within the budget;
\* the state is well formed throughout.
SpendingIsExact == TypeOK /\ OneRunner /\ CallsArePaid /\ BudgetSuffices

\* What a reader sees of a job agrees with what is stored: the progress counts
\* stored cases only, cases are stored in order, a report covers all cases, and
\* a succeeded job has its report and has judged every case.
ResultsAreStored ==
    \A j \in Jobs :
        /\ cases[j] = 1..Cardinality(cases[j])
        /\ progress[j] <= Cardinality(cases[j])
        /\ \A c \in cases[j] : <<c, "judging">> \in attempts[j]
        /\ report[j] => cases[j] = Cases
        /\ Exists(j) /\ job[j].state = "succeeded" => report[j] /\ progress[j] = NCases

\* Once a cancellation is stored (and after any end) no further slot is taken,
\* also when the cancellation falls between the check and the reservation.
CancelStopsSpending ==
    [][\A j \in Jobs : Exists(j) /\ job[j].state # "running" => attempts'[j] = attempts[j]]_vars

\* A claimed evaluation ends: by its thread, or by recovery after a crash.  (A
\* storage error inside the handler leaves it running until the next restart,
\* which may never come.)
ClaimedEvaluationsEnd ==
    \A j \in Jobs : (Exists(j) /\ job[j].state \in ActiveJobStates)
                      ~> (faults > 0 \/ (Exists(j) /\ job[j].state \in TerminalJobStates))
=============================================================================
