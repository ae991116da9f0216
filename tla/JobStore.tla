------------------------------ MODULE JobStore ------------------------------
(***************************************************************************)
(* The durable job repository of src/workspace/jobs.py (DATA-004): one row *)
(* per job with its steps, a revision that every write increases, and one  *)
(* ordered event log per job.                                              *)
(*                                                                         *)
(* Every repository method that writes runs in one BEGIN IMMEDIATE         *)
(* transaction under the process-wide write lock, so a method is one       *)
(* atomic action here.  A method that raises rolls its transaction back:   *)
(* it is a step that leaves this state unchanged.  Each method is given by *)
(* the condition under which it does not raise (CanX) and by its effect    *)
(* (X).  The modules that use the repository (DurableJobs, AgentWorkers,   *)
(* EvaluationRun) decide what a caller does when the condition is false.   *)
(*                                                                         *)
(* Abstracted data: payloads, fingerprints and artifact references are one *)
(* "request" value; a result is present or not; timestamps are left out    *)
(* except created_at, which orders claims; progress counters are the       *)
(* business of EvaluationRun.                                              *)
(***************************************************************************)
EXTENDS Naturals, Sequences, FiniteSets

CONSTANTS
    Jobs,            \* identities the id factory may produce
    Keys,            \* idempotency keys
    Requests,        \* frozen job requests (type, payload, artifacts, steps)
    Steps,           \* the step names of a job in this instance
    Payloads,        \* contents of an Agent decision event
    MaxDecisions,    \* MAX_AGENT_DECISION_EVENTS
    RecoveryLimit,   \* the limit argument of recover_interrupted_jobs
    NoRow,           \* the job id has no row
    NoPayload        \* the event is not an Agent decision

VARIABLES
    job,             \* job[j]: the row of table jobs with its job_steps, or NoRow
    log              \* log[j]: the rows of table job_events, by sequence

storeVars == <<job, log>>

-----------------------------------------------------------------------------
(* The state machines. *)

JobStates == {"queued", "running", "cancelling", "cancelled", "succeeded",
              "failed", "interrupted"}
TerminalJobStates == {"cancelled", "succeeded", "failed", "interrupted"}
ActiveJobStates == {"running", "cancelling"}

JobTransitions ==
    [st \in JobStates |->
        CASE st = "queued"     -> {"running", "cancelled"}
          [] st = "running"    -> {"cancelling", "succeeded", "failed", "interrupted"}
          [] st = "cancelling" -> {"cancelled", "interrupted"}
          [] OTHER             -> {}]

StepStates == {"pending", "running", "cancelled", "succeeded", "failed",
               "skipped", "interrupted"}

StepTransitions ==
    [st \in StepStates |->
        CASE st = "pending" -> {"running", "cancelled", "skipped"}
          [] st = "running" -> {"cancelled", "succeeded", "failed", "interrupted"}
          [] OTHER          -> {}]

-----------------------------------------------------------------------------
(* Rows. *)

Namespaces == {"agent", "evaluation"}
Results == {"none", "value"}
Failures == {"none", "reported", "process_interrupted"}
EventTypes == {"created", "state_changed", "progress", "step_changed",
               "cancellation_requested", "cancelled", "interrupted", "agent_decision"}

StepRow == [state : StepStates, revision : Nat]

JobRow == [namespace : Namespaces, key : Keys, request : Requests,
           state : JobStates, revision : Nat, created_at : Nat,
           result : Results, failure : Failures, steps : [Steps -> StepRow]]

EventRow == [type : EventTypes, state : JobStates, decision : Nat,
             payload : Payloads \cup {NoPayload}]

ASSUME StoreAssumption ==
    /\ IsFiniteSet(Jobs)
    /\ NoRow \notin JobRow
    /\ NoPayload \notin Payloads
    /\ MaxDecisions \in Nat
    /\ RecoveryLimit \in Nat \ {0}

StoreTypeOK ==
    /\ job \in [Jobs -> JobRow \cup {NoRow}]
    /\ log \in [Jobs -> Seq(EventRow)]

StoreInit ==
    /\ job = [j \in Jobs |-> NoRow]
    /\ log = [j \in Jobs |-> <<>>]

-----------------------------------------------------------------------------
(* Helpers shared by the methods. *)

Exists(j) == job[j] # NoRow

\* The rows of a namespace: claim_next_job and create_job select on it.
RowsOf(ns) == {j \in Jobs : Exists(j) /\ job[j].namespace = ns}

\* _assert_revision, and the WHERE revision = ? of each UPDATE.
Fresh(j, expected) == Exists(j) /\ job[j].revision = expected

\* UPDATE job_steps SET state = to, revision = revision + 1 WHERE state IN from.
Settle(steps, from, to) ==
    [s \in Steps |-> IF steps[s].state \in from
                     THEN [state |-> to, revision |-> steps[s].revision + 1]
                     ELSE steps[s]]

\* _append_event_in: the next sequence number of the job's log.
AppendEvent(j, type, st, decision, payload) ==
    log' = [log EXCEPT ![j] =
              Append(@, [type |-> type, state |-> st, decision |-> decision,
                         payload |-> payload])]

\* UPDATE jobs SET ..., revision = revision + 1, and the event of the change.
Commit(j, row, type) ==
    /\ job' = [job EXCEPT ![j] = [row EXCEPT !.revision = @ + 1]]
    /\ AppendEvent(j, type, row.state, 0, NoPayload)

\* The decision events of a job (agent_event_key IS NOT NULL).
DecisionCount(j) == Cardinality({i \in DOMAIN log[j] : log[j][i].type = "agent_decision"})

-----------------------------------------------------------------------------
(* create_job.  A namespace and an idempotency key name at most one row: a  *)
(* repeated request returns it, a different request under the key raises    *)
(* JobConflictError.                                                        *)

StoredUnder(ns, k) == {j \in RowsOf(ns) : job[j].key = k}

CanCreateJob(j, ns, k) == ~Exists(j) /\ StoredUnder(ns, k) = {}

CreateJob(j, ns, k, r) ==
    /\ job' = [job EXCEPT ![j] =
         [namespace |-> ns, key |-> k, request |-> r, state |-> "queued",
          revision |-> 1, created_at |-> Cardinality({i \in Jobs : Exists(i)}),
          result |-> "none", failure |-> "none",
          steps |-> [s \in Steps |-> [state |-> "pending", revision |-> 1]]]]
    /\ AppendEvent(j, "created", "queued", 0, NoPayload)

-----------------------------------------------------------------------------
(* transition_job and _transition_job_in. *)

\* Mutant: success does not wait for the steps.
CanTransitionJobEarly(j, expected, target, result, failure) ==
    /\ Fresh(j, expected)
    /\ target \in {"running", "succeeded", "failed", "interrupted"}
    /\ target \in JobTransitions[job[j].state]
    /\ target \in {"failed", "interrupted"} =>
         /\ failure # "none"
         /\ result # "none" => job[j].namespace = "agent"
    /\ target = "running" => result = "none" /\ failure = "none"

CanTransitionJob(j, expected, target, result, failure) ==
    /\ Fresh(j, expected)
    /\ target \in {"running", "succeeded", "failed", "interrupted"}
    /\ target \in JobTransitions[job[j].state]
    /\ target = "succeeded" =>
         \A s \in Steps : job[j].steps[s].state \in {"succeeded", "skipped"}
    /\ target \in {"failed", "interrupted"} =>
         /\ failure # "none"
         /\ result # "none" => job[j].namespace = "agent"
    /\ target = "running" => result = "none" /\ failure = "none"

TransitionJob(j, target, result, failure) ==
    Commit(j,
      [job[j] EXCEPT
         !.state   = target,
         !.result  = IF target = "succeeded" THEN "value" ELSE result,
         !.failure = IF target = "succeeded" THEN "none" ELSE failure,
         !.steps   = IF target \in {"failed", "interrupted"}
                     THEN Settle(@, {"running"}, target) ELSE @],
      "state_changed")

-----------------------------------------------------------------------------
(* claim_next_job: the oldest queued row of the eligible namespaces. *)

\* Mutant: a running job may be claimed again.
ClaimableAgain(eligible) ==
    {j \in Jobs : Exists(j) /\ job[j].namespace \in eligible
                             /\ job[j].state \in {"queued", "running"}}

Claimable(eligible) ==
    {j \in Jobs : Exists(j) /\ job[j].namespace \in eligible /\ job[j].state = "queued"}

IsOldest(j, eligible) ==
    /\ j \in Claimable(eligible)
    /\ \A i \in Claimable(eligible) : job[j].created_at <= job[i].created_at

ClaimJob(j) == TransitionJob(j, "running", "none", "none")

-----------------------------------------------------------------------------
(* report_progress. *)

CanReportProgress(j, expected) == Fresh(j, expected) /\ job[j].state = "running"

ReportProgress(j) == Commit(j, job[j], "progress")

-----------------------------------------------------------------------------
(* transition_step: the targets a job state permits, and the two revisions. *)

StepTargets(st) ==
    CASE st = "running"    -> {"running", "succeeded", "failed", "skipped", "interrupted"}
      [] st = "cancelling" -> {"cancelled", "interrupted"}
      [] OTHER             -> {}

CanTransitionStep(j, s, expected, expectedStep, target) ==
    /\ Fresh(j, expected)
    /\ job[j].steps[s].revision = expectedStep
    /\ target \in StepTransitions[job[j].steps[s].state]
    /\ target \in StepTargets(job[j].state)

\* Mutant: the step changes without a new revision of its job.
TransitionStepQuietly(j, s, target) ==
    /\ job' = [job EXCEPT ![j].steps[s] = [state |-> target, revision |-> @.revision + 1]]
    /\ AppendEvent(j, "step_changed", job[j].state, 0, NoPayload)

TransitionStep(j, s, target) ==
    Commit(j,
      [job[j] EXCEPT !.steps[s] = [state |-> target, revision |-> @.revision + 1]],
      "step_changed")

-----------------------------------------------------------------------------
(* request_cancellation: repeated requests return the row unchanged. *)

\* Mutant: the check for terminal jobs is missing.
CanRequestCancellationLate(j, expected) ==
    Fresh(j, expected) /\ job[j].state \notin {"cancelling", "cancelled"}

CanRequestCancellation(j, expected) ==
    Fresh(j, expected) /\ job[j].state \in {"queued", "running"}

RequestCancellation(j) ==
    LET target == IF job[j].state = "queued" THEN "cancelled" ELSE "cancelling"
    IN  Commit(j,
          [job[j] EXCEPT
             !.state = target,
             !.steps = IF target = "cancelled"
                       THEN Settle(@, {"pending"}, "cancelled") ELSE @],
          "cancellation_requested")

(* acknowledge_cancellation: only an Agent run may keep a terminal result. *)

CanAcknowledgeCancellation(j, expected, result) ==
    /\ Fresh(j, expected)
    /\ "cancelled" \in JobTransitions[job[j].state]
    /\ result # "none" => job[j].namespace = "agent"

AcknowledgeCancellation(j, result) ==
    Commit(j,
      [job[j] EXCEPT !.state  = "cancelled",
                     !.result = result,
                     !.steps  = Settle(@, {"pending", "running"}, "cancelled")],
      "cancelled")

-----------------------------------------------------------------------------
(* recover_interrupted_jobs: one transaction over at most RecoveryLimit     *)
(* active rows; the caller repeats it until it returns none.                *)

\* Mutant: recovery forgets the runs that were being cancelled.
ActiveJobsRunning == {j \in Jobs : Exists(j) /\ job[j].state = "running"}

\* Mutant: recovery also ends jobs that nobody has claimed.
ActiveJobsAll == {j \in Jobs : Exists(j) /\ job[j].state \notin TerminalJobStates}

ActiveJobs == {j \in Jobs : Exists(j) /\ job[j].state \in ActiveJobStates}

IsRecoveryBatch(batch) ==
    /\ batch \subseteq ActiveJobs
    /\ Cardinality(batch) <= RecoveryLimit
    /\ batch # ActiveJobs => Cardinality(batch) = RecoveryLimit

Interrupted(row) ==
    [row EXCEPT !.state    = "interrupted",
                !.revision = @ + 1,
                !.failure  = "process_interrupted",
                !.steps    = Settle(@, {"running"}, "interrupted")]

RecoverInterruptedJobs(batch) ==
    /\ job' = [j \in Jobs |-> IF j \in batch THEN Interrupted(job[j]) ELSE job[j]]
    /\ log' = [j \in Jobs |->
                 IF j \in batch
                 THEN Append(log[j], [type |-> "interrupted", state |-> "interrupted",
                                      decision |-> 0, payload |-> NoPayload])
                 ELSE log[j]]

-----------------------------------------------------------------------------
(* append_agent_decision_event: no caller revision; the key decision_<n> is *)
(* idempotent and must be the next one.                                     *)

KeyUsed(j, n) == \E i \in DOMAIN log[j] : log[j][i].decision = n

CanAppendDecision(j, n) ==
    /\ Exists(j)
    /\ job[j].namespace = "agent"
    /\ ~KeyUsed(j, n)
    /\ job[j].state \in ActiveJobStates
    /\ DecisionCount(j) < MaxDecisions
    /\ n = DecisionCount(j) + 1

AppendDecision(j, n, payload) ==
    /\ job' = [job EXCEPT ![j].revision = @ + 1]
    /\ AppendEvent(j, "agent_decision", job[j].state, n, payload)

-----------------------------------------------------------------------------
(* Properties of the store, whoever calls it. *)

\* Every committed method bumps the revision once and appends one event, so a
\* reader that has followed the log to sequence n knows the row at revision n:
\* the log never lags behind, skips or repeats a change of the row.
LogMirrorsRow ==
    \A j \in Jobs : Exists(j) =>
        /\ Len(log[j]) = job[j].revision
        /\ log[j][Len(log[j])].state = job[j].state

\* The states of a log are a walk of the life cycle from queued, and no event
\* follows a terminal one.
LegalWalk(events) ==
    \A i \in 1..Len(events) :
        /\ i = 1 => events[i].state = "queued"
        /\ i > 1 => /\ events[i-1].state \notin TerminalJobStates
                    /\ \/ events[i].state = events[i-1].state
                       \/ events[i].state \in JobTransitions[events[i-1].state]

\* Whichever callers raced to write it, the log of a job is a legal walk: also
\* no late Agent decision of a thread that outlived its run gets into it.
LogIsLegalWalk == \A j \in Jobs : LegalWalk(log[j])

\* A row's state, its steps and its outcome agree.
RowConsistent(row) ==
    /\ row.state = "succeeded" =>
         /\ \A s \in Steps : row.steps[s].state \in {"succeeded", "skipped"}
         /\ row.result = "value"
    /\ row.state \in TerminalJobStates => \A s \in Steps : row.steps[s].state # "running"
    /\ row.state = "cancelled" => \A s \in Steps : row.steps[s].state # "pending"
    /\ row.state = "queued" => \A s \in Steps : row.steps[s].state = "pending"
    /\ row.failure # "none" <=> row.state \in {"failed", "interrupted"}
    /\ row.result # "none" => /\ row.state \in TerminalJobStates
                              /\ row.namespace = "agent" \/ row.state = "succeeded"

\* However a job ended: success means every step succeeded or was skipped and
\* a result is stored; no terminal job has a running step; a cancelled job has
\* no step left to run; a queued job has started nothing; a failure is stored
\* exactly for failed and interrupted jobs; only an Agent keeps a result of a
\* run that did not succeed.
OutcomeConsistent == \A j \in Jobs : Exists(j) => RowConsistent(job[j])
=============================================================================
