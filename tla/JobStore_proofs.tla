-------------------------- MODULE JobStore_proofs ---------------------------
(***************************************************************************)
(* What every committed repository method does to the store, for all sets  *)
(* of jobs, steps, keys and requests.                                      *)
(*                                                                         *)
(* Each method is shown to be a StoreStep: every job is left alone,        *)
(* created, or written once along the state machines.  StoreStep preserves *)
(* StoreInv, so any specification whose steps are methods of JobStore      *)
(* inherits the invariant from these lemmas.                               *)
(***************************************************************************)
EXTENDS JobStore, FiniteSetTheorems, TLAPS

\* The inductive invariant of the store.
StoreInv ==
    /\ StoreTypeOK
    /\ OutcomeConsistent
    /\ LogMirrorsRow
    /\ LogIsLegalWalk
    /\ \A j \in Jobs : IF Exists(j) THEN job[j].revision > 0 ELSE log[j] = <<>>

\* A step of a job moves along _STEP_TRANSITIONS and gains a revision.
LegalStepMove(old, new) ==
    old # new => /\ new.state \in StepTransitions[old.state]
                 /\ new.revision = old.revision + 1

\* The row old may become the row new in one committed write.
LegalWrite(old, new) ==
    /\ old.state \notin TerminalJobStates
    /\ new \in JobRow
    /\ RowConsistent(new)
    /\ new.revision = old.revision + 1
    /\ new.namespace = old.namespace /\ new.key = old.key /\ new.request = old.request
    /\ new.state = old.state \/ new.state \in JobTransitions[old.state]
    /\ \A s \in Steps : LegalStepMove(old.steps[s], new.steps[s])

Logged(j) == \E e \in EventRow :
                /\ e.state = job'[j].state
                /\ log'[j] = Append(log[j], e)

Untouched(j) == job'[j] = job[j] /\ log'[j] = log[j]
Written(j) == Exists(j) /\ LegalWrite(job[j], job'[j]) /\ Logged(j)

\* A row may be created only under a namespace and key that no row has.
Created(j) ==
    /\ ~Exists(j)
    /\ \A i \in Jobs : Exists(i) => \/ job[i].namespace # job'[j].namespace
                                    \/ job[i].key # job'[j].key
    /\ job'[j] \in JobRow
    /\ RowConsistent(job'[j])
    /\ job'[j].revision = 1 /\ job'[j].state = "queued"
    /\ Logged(j)

StoreStep ==
    /\ job' \in [Jobs -> JobRow \cup {NoRow}]
    /\ log' \in [Jobs -> Seq(EventRow)]
    /\ \A j \in Jobs : Untouched(j) \/ Written(j) \/ Created(j)

-----------------------------------------------------------------------------
\* One UPDATE of jobs with its event is a store step when the new row is legal.
LEMMA CommitIsStep ==
    ASSUME StoreInv, NEW j \in Jobs, Exists(j), NEW row, NEW type \in EventTypes,
           LegalWrite(job[j], [row EXCEPT !.revision = @ + 1]),
           row \in JobRow,
           Commit(j, row, type)
    PROVE  StoreStep
<1> DEFINE new == [row EXCEPT !.revision = @ + 1]
           e == [type |-> type, state |-> row.state, decision |-> 0, payload |-> NoPayload]
<1>1. job' = [job EXCEPT ![j] = new] /\ log' = [log EXCEPT ![j] = Append(@, e)]
  BY DEF Commit, AppendEvent
<1>2. new \in JobRow /\ new.state = row.state
  BY DEF LegalWrite, JobRow
<1>3. e \in EventRow
  BY <1>2 DEF EventRow, JobRow
<1> HIDE DEF new, e
<1>4. job' \in [Jobs -> JobRow \cup {NoRow}]
  BY <1>1, <1>2 DEF StoreInv, StoreTypeOK
<1>5. log' \in [Jobs -> Seq(EventRow)]
  BY <1>1, <1>3 DEF StoreInv, StoreTypeOK
<1>6. ASSUME NEW i \in Jobs PROVE Untouched(i) \/ Written(i)
  <2>1. CASE i = j
    <3>1. job'[j] = new /\ log'[j] = Append(log[j], e)
      BY <1>1 DEF StoreInv, StoreTypeOK
    <3>2. e.state = new.state
      BY <1>2 DEF e
    <3> QED BY <2>1, <3>1, <3>2, <1>3 DEF Written, Logged, new
  <2>2. CASE i # j
    BY <2>2, <1>1 DEF Untouched, StoreInv, StoreTypeOK
  <2> QED BY <2>1, <2>2
<1> QED BY <1>4, <1>5, <1>6 DEF StoreStep

\* SET revision = revision + 1 changes nothing else of a row.
LEMMA BumpedRow ==
    ASSUME NEW row \in JobRow
    PROVE  LET new == [row EXCEPT !.revision = @ + 1] IN
           /\ new \in JobRow
           /\ new.revision = row.revision + 1
           /\ new.namespace = row.namespace /\ new.key = row.key /\ new.request = row.request
           /\ new.state = row.state /\ new.steps = row.steps
           /\ new.result = row.result /\ new.failure = row.failure
  BY DEF JobRow

\* Facts about a stored row that every method below uses.
LEMMA StoredRow ==
    ASSUME StoreInv, NEW j \in Jobs, Exists(j)
    PROVE  /\ job[j] \in JobRow
           /\ RowConsistent(job[j])
           /\ job[j].revision \in Nat
           /\ job[j].steps \in [Steps -> StepRow]
           /\ job[j].state \in JobStates
  BY DEF StoreInv, StoreTypeOK, OutcomeConsistent, Exists, JobRow

\* The bulk UPDATE of job_steps keeps the steps well typed, and moves them
\* legally when the target is legal for every state it selects.
LEMMA SettleMovesLegally ==
    ASSUME NEW steps \in [Steps -> StepRow], NEW to \in StepStates,
           NEW from \in SUBSET StepStates,
           \A st \in from : to \in StepTransitions[st]
    PROVE  /\ Settle(steps, from, to) \in [Steps -> StepRow]
           /\ \A s \in Steps :
                /\ LegalStepMove(steps[s], Settle(steps, from, to)[s])
                /\ steps[s].state \in from => Settle(steps, from, to)[s].state = to
                /\ steps[s].state \notin from => Settle(steps, from, to)[s] = steps[s]
  BY DEF Settle, StepRow, LegalStepMove

-----------------------------------------------------------------------------
\* create_job adds a consistent row at revision 1 and its first event.
LEMMA CreateIsStep ==
    ASSUME StoreInv, NEW j \in Jobs, NEW ns \in Namespaces, NEW k \in Keys,
           NEW r \in Requests, CanCreateJob(j, ns, k), CreateJob(j, ns, k, r)
    PROVE  StoreStep /\ Exists(j)'
<1> DEFINE stamp == Cardinality({i \in Jobs : Exists(i)})
           row == [namespace |-> ns, key |-> k, request |-> r, state |-> "queued",
                   revision |-> 1, created_at |-> stamp,
                   result |-> "none", failure |-> "none",
                   steps |-> [s \in Steps |-> [state |-> "pending", revision |-> 1]]]
           e == [type |-> "created", state |-> "queued", decision |-> 0,
                 payload |-> NoPayload]
<1>1. job' = [job EXCEPT ![j] = row] /\ log' = [log EXCEPT ![j] = Append(@, e)]
  BY DEF CreateJob, AppendEvent
<1>2. stamp \in Nat
  BY StoreAssumption, FS_Subset, FS_CardinalityType
<1> HIDE DEF stamp
<1>3. row \in JobRow
  BY <1>2 DEF JobRow, StepRow, StepStates, JobStates, Results, Failures
<1>4. RowConsistent(row)
  BY DEF RowConsistent, TerminalJobStates
<1>5. row.revision = 1 /\ row.state = "queued" /\ e.state = "queued"
  OBVIOUS
<1>6. e \in EventRow
  BY DEF EventRow, EventTypes, JobStates
<1> HIDE DEF row, e
<1>7. job' \in [Jobs -> JobRow \cup {NoRow}]
  BY <1>1, <1>3 DEF StoreInv, StoreTypeOK
<1>8. log' \in [Jobs -> Seq(EventRow)]
  BY <1>1, <1>6 DEF StoreInv, StoreTypeOK
<1>9. ASSUME NEW i \in Jobs PROVE Untouched(i) \/ Created(i)
  <2>1. CASE i = j
    <3>1. job'[j] = row /\ log'[j] = Append(log[j], e)
      BY <1>1 DEF StoreInv, StoreTypeOK
    <3>2. ASSUME NEW o \in Jobs, Exists(o)
          PROVE  job[o].namespace # job'[j].namespace \/ job[o].key # job'[j].key
      <4>1. job'[j].namespace = ns /\ job'[j].key = k
        BY <3>1 DEF row
      <4> QED BY <3>2, <4>1 DEF CanCreateJob, StoredUnder, RowsOf
    <3> QED BY <2>1, <3>1, <3>2, <1>3, <1>4, <1>5, <1>6 DEF Created, Logged, CanCreateJob
  <2>2. CASE i # j
    BY <2>2, <1>1 DEF Untouched, StoreInv, StoreTypeOK
  <2> QED BY <2>1, <2>2
<1>10. Exists(j)'
  BY <1>1, <1>3, StoreAssumption DEF Exists, StoreInv, StoreTypeOK
<1> QED BY <1>7, <1>8, <1>9, <1>10 DEF StoreStep

\* transition_job and claim_next_job: guarded moves from running or queued.
LEMMA TransitionIsStep ==
    ASSUME StoreInv, NEW j \in Jobs, NEW expected, NEW target, NEW result \in Results,
           NEW failure \in Failures,
           CanTransitionJob(j, expected, target, result, failure),
           TransitionJob(j, target, result, failure)
    PROVE  StoreStep
<1> DEFINE old == job[j]
           row == [old EXCEPT
                     !.state   = target,
                     !.result  = IF target = "succeeded" THEN "value" ELSE result,
                     !.failure = IF target = "succeeded" THEN "none" ELSE failure,
                     !.steps   = IF target \in {"failed", "interrupted"}
                                 THEN Settle(@, {"running"}, target) ELSE @]
           new == [row EXCEPT !.revision = @ + 1]
<1>1. Exists(j)
  BY DEF CanTransitionJob, Fresh
<1>2. /\ old \in JobRow /\ RowConsistent(old) /\ old.revision \in Nat
      /\ old.steps \in [Steps -> StepRow] /\ old.state \in JobStates
  BY <1>1, StoredRow
<1>3. /\ target \in {"running", "succeeded", "failed", "interrupted"}
      /\ target \in JobTransitions[old.state]
      /\ target = "succeeded" =>
           \A s \in Steps : old.steps[s].state \in {"succeeded", "skipped"}
      /\ target \in {"failed", "interrupted"} =>
           /\ failure # "none"
           /\ result # "none" => old.namespace = "agent"
      /\ target = "running" => result = "none" /\ failure = "none"
  BY DEF CanTransitionJob
<1>4. old.state \in {"queued", "running", "cancelling"}
  BY <1>2, <1>3 DEF JobTransitions, JobStates
<1>5. target \in {"failed", "interrupted"} =>
        LET s1 == Settle(old.steps, {"running"}, target) IN
        /\ s1 \in [Steps -> StepRow]
        /\ \A s \in Steps : LegalStepMove(old.steps[s], s1[s]) /\ s1[s].state # "running"
  <2> SUFFICES ASSUME target \in {"failed", "interrupted"}
               PROVE  LET s1 == Settle(old.steps, {"running"}, target) IN
                      /\ s1 \in [Steps -> StepRow]
                      /\ \A s \in Steps : LegalStepMove(old.steps[s], s1[s]) /\ s1[s].state # "running"
    OBVIOUS
  <2>1. /\ target \in StepStates /\ {"running"} \in SUBSET StepStates
        /\ \A st \in {"running"} : target \in StepTransitions[st]
    BY DEF StepStates, StepTransitions
  <2> QED BY <1>2, <2>1, SettleMovesLegally
<1>6. row \in JobRow
  BY <1>2, <1>3, <1>5 DEF JobRow, JobStates, Results, Failures
<1>7. /\ row.namespace = old.namespace /\ row.key = old.key /\ row.request = old.request /\ row.state = target
      /\ row.revision = old.revision
      /\ row.result = IF target = "succeeded" THEN "value" ELSE result
      /\ row.failure = IF target = "succeeded" THEN "none" ELSE failure
      /\ row.steps = IF target \in {"failed", "interrupted"}
                     THEN Settle(old.steps, {"running"}, target) ELSE old.steps
  BY <1>2 DEF JobRow
<1> HIDE DEF row
<1>8. /\ new \in JobRow /\ new.revision = old.revision + 1
      /\ new.namespace = old.namespace /\ new.key = old.key /\ new.request = old.request /\ new.state = target
      /\ new.result = IF target = "succeeded" THEN "value" ELSE result
      /\ new.failure = IF target = "succeeded" THEN "none" ELSE failure
      /\ new.steps = IF target \in {"failed", "interrupted"}
                     THEN Settle(old.steps, {"running"}, target) ELSE old.steps
  BY <1>6, <1>7, BumpedRow
<1> HIDE DEF new
<1>9. \A s \in Steps : LegalStepMove(old.steps[s], new.steps[s])
  BY <1>5, <1>8 DEF LegalStepMove
<1>10. RowConsistent(new)
  <2>1. CASE target = "running"
    <3>1. old.state = "queued"
      BY <1>3, <1>4, <2>1 DEF JobTransitions, JobStates
    <3> QED BY <2>1, <1>3, <1>8 DEF RowConsistent, TerminalJobStates
  <2>2. CASE target = "succeeded"
    <3>1. old.state = "running"
      BY <1>3, <1>4, <2>2 DEF JobTransitions, JobStates
    <3> QED BY <2>2, <1>3, <1>8 DEF RowConsistent, TerminalJobStates
  <2>3. CASE target \in {"failed", "interrupted"}
    BY <2>3, <1>3, <1>5, <1>8 DEF RowConsistent, TerminalJobStates
  <2> QED BY <1>3, <2>1, <2>2, <2>3
<1>11. LegalWrite(old, new)
  BY <1>3, <1>4, <1>8, <1>9, <1>10 DEF LegalWrite, TerminalJobStates
<1>12. Commit(j, row, "state_changed")
  BY DEF TransitionJob, row
<1>13. "state_changed" \in EventTypes
  BY DEF EventTypes
<1> QED BY <1>1, <1>6, <1>11, <1>12, <1>13, CommitIsStep DEF new

\* report_progress only moves the revision.
LEMMA ProgressIsStep ==
    ASSUME StoreInv, NEW j \in Jobs, NEW expected,
           CanReportProgress(j, expected), ReportProgress(j)
    PROVE  StoreStep
<1> DEFINE new == [job[j] EXCEPT !.revision = @ + 1]
<1>1. Exists(j) /\ job[j].state = "running"
  BY DEF CanReportProgress, Fresh
<1>2. job[j] \in JobRow /\ RowConsistent(job[j])
  BY <1>1, StoredRow
<1>3. LegalWrite(job[j], new)
  BY <1>1, <1>2 DEF LegalWrite, LegalStepMove, RowConsistent, JobRow, TerminalJobStates
<1>4. "progress" \in EventTypes
  BY DEF EventTypes
<1> QED BY <1>1, <1>2, <1>3, <1>4, CommitIsStep DEF ReportProgress

\* transition_step moves one step of an active job.
LEMMA StepIsStep ==
    ASSUME StoreInv, NEW j \in Jobs, NEW s \in Steps, NEW expected, NEW expectedStep,
           NEW target \in StepStates,
           CanTransitionStep(j, s, expected, expectedStep, target),
           TransitionStep(j, s, target)
    PROVE  StoreStep
<1> DEFINE old == job[j]
           row == [old EXCEPT !.steps[s] = [state |-> target, revision |-> @.revision + 1]]
           new == [row EXCEPT !.revision = @ + 1]
<1>1. Exists(j)
  BY DEF CanTransitionStep, Fresh
<1>2. /\ old \in JobRow /\ RowConsistent(old) /\ old.revision \in Nat
      /\ old.steps \in [Steps -> StepRow] /\ old.state \in JobStates
  BY <1>1, StoredRow
<1>3. old.state \in {"running", "cancelling"} /\ target \in StepTransitions[old.steps[s].state]
  BY DEF CanTransitionStep, StepTargets
<1>4. row.steps = [old.steps EXCEPT ![s] = [state |-> target, revision |-> @.revision + 1]]
  BY <1>2 DEF JobRow
<1>5. row.steps \in [Steps -> StepRow]
  BY <1>2, <1>4 DEF StepRow
<1>6. /\ row \in JobRow /\ row.revision = old.revision
      /\ row.namespace = old.namespace /\ row.key = old.key /\ row.request = old.request /\ row.state = old.state
      /\ row.result = old.result /\ row.failure = old.failure
  BY <1>2, <1>5 DEF JobRow
<1> HIDE DEF row
<1>7. /\ new \in JobRow /\ new.revision = old.revision + 1 /\ new.steps = row.steps
      /\ new.namespace = old.namespace /\ new.key = old.key /\ new.request = old.request /\ new.state = old.state
      /\ new.result = old.result /\ new.failure = old.failure
  BY <1>6, BumpedRow
<1> HIDE DEF new
<1>8. \A i \in Steps : LegalStepMove(old.steps[i], new.steps[i])
  BY <1>2, <1>3, <1>4, <1>7 DEF LegalStepMove, StepRow
<1>9. RowConsistent(new)
  BY <1>2, <1>3, <1>7 DEF RowConsistent, TerminalJobStates
<1>10. LegalWrite(old, new)
  BY <1>3, <1>7, <1>8, <1>9 DEF LegalWrite, TerminalJobStates
<1>11. Commit(j, row, "step_changed")
  BY DEF TransitionStep, row
<1>12. "step_changed" \in EventTypes
  BY DEF EventTypes
<1> QED BY <1>1, <1>6, <1>10, <1>11, <1>12, CommitIsStep DEF new

\* request_cancellation ends a queued job and marks a running one.
LEMMA CancelIsStep ==
    ASSUME StoreInv, NEW j \in Jobs, NEW expected,
           CanRequestCancellation(j, expected), RequestCancellation(j)
    PROVE  StoreStep
<1> DEFINE old == job[j]
           target == IF old.state = "queued" THEN "cancelled" ELSE "cancelling"
           row == [old EXCEPT !.state = target,
                              !.steps = IF target = "cancelled"
                                        THEN Settle(@, {"pending"}, "cancelled") ELSE @]
           new == [row EXCEPT !.revision = @ + 1]
<1>1. Exists(j) /\ old.state \in {"queued", "running"}
  BY DEF CanRequestCancellation, Fresh
<1>2. /\ old \in JobRow /\ RowConsistent(old) /\ old.revision \in Nat
      /\ old.steps \in [Steps -> StepRow] /\ old.state \in JobStates
  BY <1>1, StoredRow
<1>3. LET s1 == Settle(old.steps, {"pending"}, "cancelled") IN
      /\ s1 \in [Steps -> StepRow]
      /\ \A s \in Steps : LegalStepMove(old.steps[s], s1[s])
      /\ old.state = "queued" => \A s \in Steps : s1[s].state = "cancelled"
  <2>1. /\ "cancelled" \in StepStates /\ {"pending"} \in SUBSET StepStates
        /\ \A st \in {"pending"} : "cancelled" \in StepTransitions[st]
    BY DEF StepStates, StepTransitions
  <2>2. old.state = "queued" => \A s \in Steps : old.steps[s].state = "pending"
    BY <1>2 DEF RowConsistent
  <2> QED BY <1>2, <2>1, <2>2, SettleMovesLegally
<1>4. target \in JobTransitions[old.state] /\ target \in JobStates
  BY <1>1 DEF JobTransitions, JobStates
<1>5. /\ row \in JobRow /\ row.revision = old.revision /\ row.state = target
      /\ row.namespace = old.namespace /\ row.key = old.key /\ row.request = old.request
      /\ row.result = old.result /\ row.failure = old.failure
      /\ row.steps = IF target = "cancelled"
                     THEN Settle(old.steps, {"pending"}, "cancelled") ELSE old.steps
  BY <1>2, <1>3, <1>4 DEF JobRow
<1> HIDE DEF row
<1>6. /\ new \in JobRow /\ new.revision = old.revision + 1 /\ new.state = target
      /\ new.namespace = old.namespace /\ new.key = old.key /\ new.request = old.request
      /\ new.result = old.result /\ new.failure = old.failure /\ new.steps = row.steps
  BY <1>5, BumpedRow
<1> HIDE DEF new
<1>7. RowConsistent(new)
  BY <1>1, <1>2, <1>3, <1>5, <1>6 DEF RowConsistent, TerminalJobStates
<1>8. LegalWrite(old, new)
  BY <1>1, <1>3, <1>4, <1>5, <1>6, <1>7 DEF LegalWrite, LegalStepMove, TerminalJobStates
<1>9. Commit(j, row, "cancellation_requested")
  BY DEF RequestCancellation, row
<1>10. "cancellation_requested" \in EventTypes
  BY DEF EventTypes
<1> QED BY <1>1, <1>5, <1>8, <1>9, <1>10, CommitIsStep DEF new

\* acknowledge_cancellation ends the job and every step that is left.
LEMMA AcknowledgeIsStep ==
    ASSUME StoreInv, NEW j \in Jobs, NEW expected, NEW result \in Results,
           CanAcknowledgeCancellation(j, expected, result),
           AcknowledgeCancellation(j, result)
    PROVE  StoreStep
<1> DEFINE old == job[j]
           s1 == Settle(old.steps, {"pending", "running"}, "cancelled")
           row == [old EXCEPT !.state = "cancelled", !.result = result,
                              !.steps = Settle(@, {"pending", "running"}, "cancelled")]
           new == [row EXCEPT !.revision = @ + 1]
<1>1. /\ Exists(j) /\ "cancelled" \in JobTransitions[old.state]
      /\ result # "none" => old.namespace = "agent"
  BY DEF CanAcknowledgeCancellation, Fresh
<1>2. /\ old \in JobRow /\ RowConsistent(old) /\ old.revision \in Nat
      /\ old.steps \in [Steps -> StepRow] /\ old.state \in JobStates
  BY <1>1, StoredRow
<1>3. old.state \in {"queued", "cancelling"}
  BY <1>1, <1>2 DEF JobTransitions, JobStates
<1>4. /\ s1 \in [Steps -> StepRow]
      /\ \A s \in Steps : /\ LegalStepMove(old.steps[s], s1[s])
                          /\ s1[s].state \notin {"pending", "running"}
  <2>1. /\ "cancelled" \in StepStates /\ {"pending", "running"} \in SUBSET StepStates
        /\ \A st \in {"pending", "running"} : "cancelled" \in StepTransitions[st]
    BY DEF StepStates, StepTransitions
  <2> QED BY <1>2, <2>1, SettleMovesLegally
<1>5. /\ row \in JobRow /\ row.revision = old.revision /\ row.state = "cancelled"
      /\ row.namespace = old.namespace /\ row.key = old.key /\ row.request = old.request
      /\ row.result = result /\ row.failure = old.failure /\ row.steps = s1
  BY <1>2, <1>4 DEF JobRow, JobStates
<1> HIDE DEF row
<1>6. /\ new \in JobRow /\ new.revision = old.revision + 1 /\ new.state = "cancelled"
      /\ new.namespace = old.namespace /\ new.key = old.key /\ new.request = old.request
      /\ new.result = result /\ new.failure = old.failure /\ new.steps = s1
  BY <1>5, BumpedRow
<1> HIDE DEF new
<1>7. RowConsistent(new)
  BY <1>1, <1>2, <1>3, <1>4, <1>6 DEF RowConsistent, TerminalJobStates
<1>8. LegalWrite(old, new)
  BY <1>1, <1>3, <1>4, <1>6, <1>7 DEF LegalWrite, TerminalJobStates
<1>9. Commit(j, row, "cancelled")
  BY DEF AcknowledgeCancellation, row
<1>10. "cancelled" \in EventTypes
  BY DEF EventTypes
<1> QED BY <1>1, <1>5, <1>8, <1>9, <1>10, CommitIsStep DEF new

\* The row that startup recovery writes.
LEMMA InterruptedIsLegal ==
    ASSUME NEW row \in JobRow, RowConsistent(row), row.state \in ActiveJobStates
    PROVE  LegalWrite(row, Interrupted(row)) /\ Interrupted(row).state = "interrupted"
<1> DEFINE s1 == Settle(row.steps, {"running"}, "interrupted")
           new == Interrupted(row)
<1>1. row.steps \in [Steps -> StepRow] /\ row.revision \in Nat
  BY DEF JobRow
<1>2. /\ s1 \in [Steps -> StepRow]
      /\ \A s \in Steps : LegalStepMove(row.steps[s], s1[s]) /\ s1[s].state # "running"
  <2>1. /\ "interrupted" \in StepStates /\ {"running"} \in SUBSET StepStates
        /\ \A st \in {"running"} : "interrupted" \in StepTransitions[st]
    BY DEF StepStates, StepTransitions
  <2> QED BY <1>1, <2>1, SettleMovesLegally
<1>a. new = [row EXCEPT !.state = "interrupted", !.revision = row.revision + 1,
                        !.failure = "process_interrupted", !.steps = s1]
  BY DEF Interrupted
<1> HIDE DEF s1, new
<1>3. /\ new \in JobRow /\ new.revision = row.revision + 1 /\ new.state = "interrupted"
      /\ new.namespace = row.namespace /\ new.key = row.key /\ new.request = row.request
      /\ new.result = row.result /\ new.failure = "process_interrupted" /\ new.steps = s1
  <2>1. /\ "interrupted" \in JobStates /\ "process_interrupted" \in Failures
        /\ row.revision + 1 \in Nat
    BY <1>1 DEF JobStates, Failures
  <2>2. new = [namespace |-> row.namespace, key |-> row.key, request |-> row.request,
               state |-> "interrupted", revision |-> row.revision + 1,
               created_at |-> row.created_at, result |-> row.result,
               failure |-> "process_interrupted", steps |-> s1]
    BY <1>a DEF JobRow
  <2>3. /\ row.namespace \in Namespaces /\ row.key \in Keys /\ row.request \in Requests
        /\ row.created_at \in Nat /\ row.result \in Results
    BY DEF JobRow
  <2> QED BY <1>2, <2>1, <2>2, <2>3 DEF JobRow
<1> HIDE DEF new
<1>4. RowConsistent(new)
  BY <1>2, <1>3 DEF RowConsistent, TerminalJobStates, ActiveJobStates
<1>5. row.state \notin TerminalJobStates /\ "interrupted" \in JobTransitions[row.state]
  BY DEF ActiveJobStates, TerminalJobStates, JobTransitions, JobStates
<1>6. LegalWrite(row, new) /\ new.state = "interrupted"
  BY <1>2, <1>3, <1>4, <1>5 DEF LegalWrite
<1> QED BY <1>6 DEF new

\* recover_interrupted_jobs writes every row of its batch once.
LEMMA RecoverIsStep ==
    ASSUME StoreInv, NEW batch, IsRecoveryBatch(batch), RecoverInterruptedJobs(batch)
    PROVE  StoreStep
<1> DEFINE e == [type |-> "interrupted", state |-> "interrupted",
                 decision |-> 0, payload |-> NoPayload]
<1>1. e \in EventRow /\ e.state = "interrupted"
  BY DEF EventRow, EventTypes, JobStates
<1>2. /\ job' = [j \in Jobs |-> IF j \in batch THEN Interrupted(job[j]) ELSE job[j]]
      /\ log' = [j \in Jobs |-> IF j \in batch THEN Append(log[j], e) ELSE log[j]]
  BY DEF RecoverInterruptedJobs
<1> HIDE DEF e
<1>3. ASSUME NEW j \in Jobs, j \in batch
      PROVE  /\ Exists(j)
             /\ LegalWrite(job[j], Interrupted(job[j]))
             /\ Interrupted(job[j]).state = "interrupted"
             /\ Interrupted(job[j]) \in JobRow
  <2>1. Exists(j) /\ job[j].state \in ActiveJobStates
    BY <1>3 DEF IsRecoveryBatch, ActiveJobs
  <2>2. job[j] \in JobRow /\ RowConsistent(job[j])
    BY <2>1, StoredRow
  <2> QED BY <2>1, <2>2, InterruptedIsLegal DEF LegalWrite
<1>4. job' \in [Jobs -> JobRow \cup {NoRow}]
  BY <1>2, <1>3 DEF StoreInv, StoreTypeOK
<1>5. log' \in [Jobs -> Seq(EventRow)]
  BY <1>1, <1>2 DEF StoreInv, StoreTypeOK
<1>6. ASSUME NEW j \in Jobs PROVE Untouched(j) \/ Written(j)
  <2>1. CASE j \in batch
    <3>1. job'[j] = Interrupted(job[j]) /\ log'[j] = Append(log[j], e)
      BY <2>1, <1>2
    <3> QED BY <2>1, <3>1, <1>1, <1>3 DEF Written, Logged
  <2>2. CASE j \notin batch
    BY <2>2, <1>2 DEF Untouched
  <2> QED BY <2>1, <2>2
<1> QED BY <1>4, <1>5, <1>6 DEF StoreStep

\* append_agent_decision_event moves the revision of an active job.
LEMMA DecisionIsStep ==
    ASSUME StoreInv, NEW j \in Jobs, NEW n \in Nat, NEW p \in Payloads,
           CanAppendDecision(j, n), AppendDecision(j, n, p)
    PROVE  StoreStep
<1> DEFINE new == [job[j] EXCEPT !.revision = @ + 1]
           e == [type |-> "agent_decision", state |-> job[j].state, decision |-> n,
                 payload |-> p]
<1>1. Exists(j) /\ job[j].state \in ActiveJobStates
  BY DEF CanAppendDecision
<1>2. /\ job[j] \in JobRow /\ RowConsistent(job[j]) /\ job[j].revision \in Nat
      /\ job[j].state \in JobStates
  BY <1>1, StoredRow
<1>3. job' = [job EXCEPT ![j] = new] /\ log' = [log EXCEPT ![j] = Append(@, e)]
  BY <1>2 DEF AppendDecision, AppendEvent
<1>4. /\ new \in JobRow /\ new.revision = job[j].revision + 1
      /\ new.namespace = job[j].namespace /\ new.key = job[j].key /\ new.request = job[j].request
      /\ new.state = job[j].state /\ new.steps = job[j].steps
      /\ new.result = job[j].result /\ new.failure = job[j].failure
  BY <1>2, BumpedRow
<1>5. e \in EventRow /\ e.state = job[j].state
  BY <1>2 DEF EventRow, EventTypes
<1> HIDE DEF new, e
<1>6. LegalWrite(job[j], new)
  BY <1>1, <1>2, <1>4
  DEF LegalWrite, LegalStepMove, RowConsistent, ActiveJobStates, TerminalJobStates
<1>7. job' \in [Jobs -> JobRow \cup {NoRow}]
  BY <1>3, <1>4 DEF StoreInv, StoreTypeOK
<1>8. log' \in [Jobs -> Seq(EventRow)]
  BY <1>3, <1>5 DEF StoreInv, StoreTypeOK
<1>9. ASSUME NEW i \in Jobs PROVE Untouched(i) \/ Written(i)
  <2>1. CASE i = j
    <3>1. job'[j] = new /\ log'[j] = Append(log[j], e)
      BY <1>3 DEF StoreInv, StoreTypeOK
    <3> QED BY <2>1, <3>1, <1>1, <1>4, <1>5, <1>6 DEF Written, Logged
  <2>2. CASE i # j
    BY <2>2, <1>3 DEF Untouched, StoreInv, StoreTypeOK
  <2> QED BY <2>1, <2>2
<1> QED BY <1>7, <1>8, <1>9 DEF StoreStep

-----------------------------------------------------------------------------
\* One more event keeps a log a legal walk, if the last event was not terminal
\* and the new state is reachable from it.
LEMMA AppendedWalk ==
    ASSUME NEW l \in Seq(EventRow), LegalWalk(l), NEW e \in EventRow,
           Len(l) = 0 => e.state = "queued",
           Len(l) > 0 => /\ l[Len(l)].state \notin TerminalJobStates
                         /\ \/ e.state = l[Len(l)].state
                            \/ e.state \in JobTransitions[l[Len(l)].state]
    PROVE  /\ LegalWalk(Append(l, e))
           /\ Len(Append(l, e)) = Len(l) + 1
           /\ Append(l, e)[Len(Append(l, e))] = e
<1> DEFINE m == Append(l, e)
<1>1. /\ Len(m) = Len(l) + 1 /\ Len(l) \in Nat
      /\ m[Len(m)] = e
      /\ \A i \in 1..Len(l) : m[i] = l[i]
  OBVIOUS
<1> HIDE DEF m
<1>2. ASSUME NEW i \in 1..Len(m)
      PROVE  /\ i = 1 => m[i].state = "queued"
             /\ i > 1 => /\ m[i-1].state \notin TerminalJobStates
                         /\ \/ m[i].state = m[i-1].state
                            \/ m[i].state \in JobTransitions[m[i-1].state]
  <2>1. CASE i = Len(m)
    <3>1. CASE Len(l) = 0
      BY <1>1, <2>1, <3>1
    <3>2. CASE Len(l) > 0
      <4>1. i > 1 /\ i - 1 = Len(l) /\ m[i-1] = l[Len(l)] /\ m[i] = e
        BY <1>1, <2>1, <3>2
      <4> QED BY <4>1, <3>2
    <3> QED BY <1>1, <3>1, <3>2
  <2>2. CASE i # Len(m)
    <3>1. i \in 1..Len(l) /\ m[i] = l[i] /\ (i > 1 => m[i-1] = l[i-1])
      BY <1>1, <2>2
    <3> QED BY <3>1 DEF LegalWalk
  <2> QED BY <2>1, <2>2
<1>3. LegalWalk(m)
  BY <1>2 DEF LegalWalk
<1> QED BY <1>1, <1>3 DEF m

\* The invariant of the store holds initially.
LEMMA StoreInitInv == StoreInit => StoreInv
  BY DEF StoreInit, StoreInv, StoreTypeOK, OutcomeConsistent, LogMirrorsRow,
         LogIsLegalWalk, LegalWalk, Exists

\* Every repository method preserves the invariant of the store.
LEMMA StoreStepInv == StoreInv /\ StoreStep => StoreInv'
<1> SUFFICES ASSUME StoreInv, StoreStep PROVE StoreInv'
  OBVIOUS
<1>1. StoreTypeOK'
  BY DEF StoreStep, StoreTypeOK
<1>2. ASSUME NEW j \in Jobs
      PROVE  /\ Exists(j)' => RowConsistent(job[j])'
             /\ Exists(j)' => /\ Len(log'[j]) = job'[j].revision
                              /\ log'[j][Len(log'[j])].state = job'[j].state
             /\ LegalWalk(log'[j])
             /\ IF Exists(j)' THEN job'[j].revision > 0 ELSE log'[j] = <<>>
  <2>0. log[j] \in Seq(EventRow) /\ LegalWalk(log[j])
    BY DEF StoreInv, StoreTypeOK, LogIsLegalWalk
  <2>1. CASE Untouched(j)
    <3>1. Exists(j)' <=> Exists(j)
      BY <2>1 DEF Untouched, Exists
    <3> QED BY <2>1, <3>1 DEF Untouched, StoreInv, OutcomeConsistent, LogMirrorsRow,
                              LogIsLegalWalk, RowConsistent
  <2>2. CASE Written(j)
    <3>1. PICK e \in EventRow : e.state = job'[j].state /\ log'[j] = Append(log[j], e)
      BY <2>2 DEF Written, Logged
    <3>2. /\ job[j] \in JobRow /\ job[j].revision \in Nat
          /\ Len(log[j]) = job[j].revision
          /\ log[j][Len(log[j])].state = job[j].state
      BY <2>2, StoredRow DEF Written, StoreInv, LogMirrorsRow
    <3>3. LegalWrite(job[j], job'[j]) /\ job'[j] \in JobRow /\ job'[j] # NoRow
      BY <2>2, StoreAssumption DEF Written, LegalWrite
    <3>4. Len(log[j]) > 0
      BY <2>0, <2>2, <3>2 DEF Written, StoreInv
    <3>5. /\ LegalWalk(log'[j])
          /\ Len(log'[j]) = Len(log[j]) + 1 /\ log'[j][Len(log'[j])] = e
      BY <2>0, <3>1, <3>2, <3>3, <3>4, AppendedWalk DEF LegalWrite
    <3>6. Exists(j)' /\ RowConsistent(job[j])'
      BY <3>3 DEF LegalWrite, Exists, RowConsistent
    <3> QED BY <3>1, <3>2, <3>3, <3>5, <3>6 DEF LegalWrite
  <2>3. CASE Created(j)
    <3>1. PICK e \in EventRow : e.state = job'[j].state /\ log'[j] = Append(log[j], e)
      BY <2>3 DEF Created, Logged
    <3>2. log[j] = <<>> /\ Len(log[j]) = 0
      BY <2>3 DEF Created, StoreInv
    <3>3. /\ job'[j].state = "queued" /\ job'[j].revision = 1
          /\ job'[j] \in JobRow /\ job'[j] # NoRow
      BY <2>3, StoreAssumption DEF Created
    <3>4. /\ LegalWalk(log'[j])
          /\ Len(log'[j]) = Len(log[j]) + 1 /\ log'[j][Len(log'[j])] = e
      <4>1. ~(Len(log[j]) > 0) /\ e.state = "queued"
        BY <3>1, <3>2, <3>3
      <4> QED BY <2>0, <3>1, <4>1, AppendedWalk
    <3>5. Exists(j)' /\ RowConsistent(job[j])'
      BY <2>3, <3>3 DEF Created, Exists, RowConsistent
    <3> QED BY <3>1, <3>2, <3>3, <3>4, <3>5
  <2> QED BY <2>1, <2>2, <2>3 DEF StoreStep
<1>3. OutcomeConsistent' /\ LogMirrorsRow' /\ LogIsLegalWalk'
  BY <1>2 DEF OutcomeConsistent, LogMirrorsRow, LogIsLegalWalk
<1>4. \A j \in Jobs : IF Exists(j)' THEN job'[j].revision > 0 ELSE log'[j] = <<>>
  BY <1>2
<1> QED BY <1>1, <1>3, <1>4 DEF StoreInv, Exists
-----------------------------------------------------------------------------
(* What a step does to the rows. *)

StoreKept == StoreStep \/ UNCHANGED storeVars

Waiting(j) == ~Exists(j) \/ job[j].state = "queued"

\* Rows stay under their namespace with their request, and are claimed at most
\* once: no method makes a row queued again.
LEMMA KeptRows ==
    ASSUME StoreInv, StoreKept
    PROVE  /\ StoreInv'
           /\ \A j \in Jobs : Exists(j) => /\ Exists(j)'
                                           /\ job'[j].request = job[j].request
                                           /\ job'[j].namespace = job[j].namespace
           /\ \A j \in Jobs : Waiting(j)' => Waiting(j)
<1>1. CASE UNCHANGED storeVars
  <2>1. job' = job /\ log' = log
    BY <1>1 DEF storeVars
  <2> QED
    BY <2>1 DEF StoreInv, StoreTypeOK, OutcomeConsistent, LogMirrorsRow, LogIsLegalWalk, Exists, Waiting
<1>2. CASE StoreStep
  <2>1. StoreInv'
    BY <1>2, StoreStepInv
  <2>2. ASSUME NEW j \in Jobs
        PROVE  /\ Exists(j) => /\ Exists(j)'
                               /\ job'[j].request = job[j].request
                               /\ job'[j].namespace = job[j].namespace
               /\ Waiting(j)' => Waiting(j)
    <3>1. CASE Untouched(j)
      BY <3>1 DEF Untouched, Exists, Waiting
    <3>2. CASE Written(j)
      <4>1. job[j].state \in JobStates /\ Exists(j) /\ LegalWrite(job[j], job'[j])
        BY <3>2, StoredRow DEF Written
      <4>2. /\ job'[j] \in JobRow /\ job'[j].request = job[j].request
            /\ job'[j].namespace = job[j].namespace
        BY <4>1 DEF LegalWrite
      <4>3. Exists(j)'
        BY <4>2, StoreAssumption DEF Exists
      <4>4. "queued" \notin JobTransitions[job[j].state]
        BY <4>1 DEF JobTransitions, JobStates
      <4> QED
        BY <4>1, <4>2, <4>3, <4>4 DEF LegalWrite, Waiting
    <3>3. CASE Created(j)
      BY <3>3 DEF Created, Waiting
    <3> QED
      BY <1>2, <3>1, <3>2, <3>3 DEF StoreStep
  <2> QED
    BY <2>1, <2>2
<1> QED
  BY <1>1, <1>2 DEF StoreKept

-----------------------------------------------------------------------------
(* The row a method leaves behind; it leaves every other row alone. *)

OnlyRowOf(j) == \A i \in Jobs : i # j => job'[i] = job[i]

LEMMA CommittedRow ==
    ASSUME StoreInv, NEW j \in Jobs, Exists(j), NEW row \in JobRow, NEW type, Commit(j, row, type)
    PROVE  /\ job'[j].state = row.state /\ job'[j].steps = row.steps
           /\ job'[j].result = row.result /\ job'[j].namespace = row.namespace
           /\ OnlyRowOf(j)
<1>1. job' = [job EXCEPT ![j] = [row EXCEPT !.revision = @ + 1]]
  BY DEF Commit
<1>2. job'[j] = [row EXCEPT !.revision = @ + 1] /\ OnlyRowOf(j)
  BY <1>1 DEF StoreInv, StoreTypeOK, OnlyRowOf
<1> QED
  BY <1>2, BumpedRow

LEMMA TransitionedRow ==
    ASSUME StoreInv, NEW j \in Jobs, NEW expected,
           NEW target, NEW result \in Results, NEW failure \in Failures,
           CanTransitionJob(j, expected, target, result, failure),
           TransitionJob(j, target, result, failure)
    PROVE  /\ job'[j].state = target
           /\ job'[j].result = IF target = "succeeded" THEN "value" ELSE result
           /\ target \in {"running", "succeeded"} => job'[j].steps = job[j].steps
           /\ OnlyRowOf(j)
<1> DEFINE row == [job[j] EXCEPT
                     !.state   = target,
                     !.result  = IF target = "succeeded" THEN "value" ELSE result,
                     !.failure = IF target = "succeeded" THEN "none" ELSE failure,
                     !.steps   = IF target \in {"failed", "interrupted"}
                                 THEN Settle(@, {"running"}, target) ELSE @]
<1>1. Exists(j) /\ target \in {"running", "succeeded", "failed", "interrupted"}
  BY DEF CanTransitionJob, Fresh
<1>2. job[j] \in JobRow /\ job[j].steps \in [Steps -> StepRow]
  BY <1>1, StoredRow
<1>3. target \in {"failed", "interrupted"} => Settle(job[j].steps, {"running"}, target) \in [Steps -> StepRow]
  <2>1. target \in {"failed", "interrupted"} =>
          /\ target \in StepStates /\ {"running"} \in SUBSET StepStates
          /\ \A st \in {"running"} : target \in StepTransitions[st]
    BY DEF StepStates, StepTransitions
  <2> QED
    BY <1>2, <2>1, SettleMovesLegally
<1>4. /\ row \in JobRow /\ row.state = target
      /\ row.result = IF target = "succeeded" THEN "value" ELSE result
      /\ target \in {"running", "succeeded"} => row.steps = job[j].steps
  BY <1>1, <1>2, <1>3 DEF JobRow, JobStates, Results, Failures
<1>5. Commit(j, row, "state_changed")
  BY DEF TransitionJob
<1> HIDE DEF row
<1> QED
  BY <1>1, <1>4, <1>5, CommittedRow

LEMMA SteppedRow ==
    ASSUME StoreInv, NEW j \in Jobs, Exists(j), NEW s \in Steps, NEW target \in StepStates,
           TransitionStep(j, s, target)
    PROVE  /\ job'[j].state = job[j].state /\ job'[j].result = job[j].result
           /\ job'[j].steps[s].state = target
           /\ OnlyRowOf(j)
<1> DEFINE row == [job[j] EXCEPT !.steps[s] = [state |-> target, revision |-> @.revision + 1]]
<1>1. job[j] \in JobRow /\ job[j].steps \in [Steps -> StepRow]
  BY StoredRow
<1>2. row.steps = [job[j].steps EXCEPT ![s] = [state |-> target, revision |-> @.revision + 1]]
  BY <1>1 DEF JobRow
<1>3. row.steps \in [Steps -> StepRow] /\ row.steps[s].state = target
  BY <1>1, <1>2 DEF StepRow
<1>4. row \in JobRow /\ row.state = job[j].state /\ row.result = job[j].result
  BY <1>1, <1>3 DEF JobRow
<1>5. Commit(j, row, "step_changed")
  BY DEF TransitionStep
<1> HIDE DEF row
<1> QED
  BY <1>3, <1>4, <1>5, CommittedRow

LEMMA CancelledRow ==
    ASSUME StoreInv, NEW j \in Jobs, Exists(j), RequestCancellation(j)
    PROVE  /\ job'[j].state = IF job[j].state = "queued" THEN "cancelled" ELSE "cancelling"
           /\ job'[j].result = job[j].result
           /\ OnlyRowOf(j)
<1> DEFINE target == IF job[j].state = "queued" THEN "cancelled" ELSE "cancelling"
           row == [job[j] EXCEPT !.state = target,
                                 !.steps = IF target = "cancelled"
                                           THEN Settle(@, {"pending"}, "cancelled") ELSE @]
<1>1. job[j] \in JobRow /\ job[j].steps \in [Steps -> StepRow]
  BY StoredRow
<1>2. Settle(job[j].steps, {"pending"}, "cancelled") \in [Steps -> StepRow]
  <2>1. /\ "cancelled" \in StepStates /\ {"pending"} \in SUBSET StepStates
        /\ \A st \in {"pending"} : "cancelled" \in StepTransitions[st]
    BY DEF StepStates, StepTransitions
  <2> QED
    BY <1>1, <2>1, SettleMovesLegally
<1>3. row \in JobRow /\ row.state = target /\ row.result = job[j].result
  BY <1>1, <1>2 DEF JobRow, JobStates
<1>4. Commit(j, row, "cancellation_requested")
  BY DEF RequestCancellation
<1> HIDE DEF row
<1> QED
  BY <1>3, <1>4, CommittedRow

LEMMA AcknowledgedRow ==
    ASSUME StoreInv, NEW j \in Jobs, Exists(j), NEW result \in Results,
           AcknowledgeCancellation(j, result)
    PROVE  /\ job'[j].state = "cancelled" /\ job'[j].result = result
           /\ OnlyRowOf(j)
<1> DEFINE row == [job[j] EXCEPT !.state  = "cancelled",
                                 !.result = result,
                                 !.steps  = Settle(@, {"pending", "running"}, "cancelled")]
<1>1. job[j] \in JobRow /\ job[j].steps \in [Steps -> StepRow]
  BY StoredRow
<1>2. Settle(job[j].steps, {"pending", "running"}, "cancelled") \in [Steps -> StepRow]
  <2>1. /\ "cancelled" \in StepStates /\ {"pending", "running"} \in SUBSET StepStates
        /\ \A st \in {"pending", "running"} : "cancelled" \in StepTransitions[st]
    BY DEF StepStates, StepTransitions
  <2> QED
    BY <1>1, <2>1, SettleMovesLegally
<1>3. row \in JobRow /\ row.state = "cancelled" /\ row.result = result
  BY <1>1, <1>2 DEF JobRow, JobStates
<1>4. Commit(j, row, "cancelled")
  BY DEF AcknowledgeCancellation
<1> HIDE DEF row
<1> QED
  BY <1>3, <1>4, CommittedRow

LEMMA DecidedRow ==
    ASSUME StoreInv, NEW j \in Jobs, Exists(j), NEW n, NEW p, AppendDecision(j, n, p)
    PROVE  /\ job'[j].state = job[j].state /\ job'[j].result = job[j].result
           /\ job'[j].steps = job[j].steps
           /\ OnlyRowOf(j)
<1>1. job[j] \in JobRow
  BY StoredRow
<1>2. job' = [job EXCEPT ![j].revision = @ + 1]
  BY DEF AppendDecision
<1>3. job'[j] = [job[j] EXCEPT !.revision = @ + 1] /\ OnlyRowOf(j)
  BY <1>2 DEF StoreInv, StoreTypeOK, OnlyRowOf
<1> QED
  BY <1>1, <1>3, BumpedRow

\* Recovery ends the rows of its batch, which were active, and keeps their results.
LEMMA RecoveredRows ==
    ASSUME StoreInv, NEW batch, IsRecoveryBatch(batch), RecoverInterruptedJobs(batch)
    PROVE  \A j \in Jobs : \/ job'[j] = job[j]
                           \/ /\ Exists(j) /\ job[j].state \in ActiveJobStates
                              /\ job'[j].state = "interrupted" /\ job'[j].result = job[j].result
<1> SUFFICES ASSUME NEW j \in Jobs, j \in batch
             PROVE  /\ Exists(j) /\ job[j].state \in ActiveJobStates
                    /\ job'[j].state = "interrupted" /\ job'[j].result = job[j].result
  BY DEF RecoverInterruptedJobs
<1>1. Exists(j) /\ job[j].state \in ActiveJobStates
  BY DEF IsRecoveryBatch, ActiveJobs
<1>2. job'[j] = Interrupted(job[j]) /\ job[j] \in JobRow
  BY <1>1, StoredRow DEF RecoverInterruptedJobs
<1> QED
  BY <1>1, <1>2 DEF Interrupted, JobRow
=============================================================================
