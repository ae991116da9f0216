---------------------------- MODULE DurableJobs -----------------------------
(***************************************************************************)
(* The durable job repository under concurrent callers.  A caller reads a  *)
(* job, keeps the snapshot while others write, and later calls a method    *)
(* with the revision of its snapshot: the optimistic concurrency contract  *)
(* every service in src/ relies on.  A call whose condition is false       *)
(* raises and changes nothing, so only the calls that commit are actions.  *)
(***************************************************************************)
EXTENDS JobStore

CONSTANTS
    Clients,         \* callers: API handlers, services, workers
    MaxRevision      \* bound: progress is reported only below this revision

ASSUME RevisionBound == MaxRevision \in Nat

VARIABLE seen        \* seen[c]: the DurableJob snapshot the caller holds

vars == <<job, log, seen>>

NoSnapshot == [id |-> NoRow, row |-> NoRow]
Snapshot == [id : Jobs, row : JobRow] \cup {NoSnapshot}
Holds(c) == seen[c] # NoSnapshot

TypeOK == StoreTypeOK /\ seen \in [Clients -> Snapshot]

Init == StoreInit /\ seen = [c \in Clients |-> NoSnapshot]

\* Every method returns the row it has just written.
Returns(c, j) == seen' = [seen EXCEPT ![c] = [id |-> j, row |-> job'[j]]]

-----------------------------------------------------------------------------
GetJob(c, j) ==
    /\ Exists(j)
    /\ seen' = [seen EXCEPT ![c] = [id |-> j, row |-> job[j]]]
    /\ UNCHANGED storeVars

Create(c, j, ns, k, r) ==
    /\ CanCreateJob(j, ns, k)
    /\ CreateJob(j, ns, k, r)
    /\ Returns(c, j)

\* The same request under a used key: the stored row is returned.
CreateAgain(c, j, ns, k, r) ==
    /\ j \in StoredUnder(ns, k)
    /\ job[j].request = r
    /\ seen' = [seen EXCEPT ![c] = [id |-> j, row |-> job[j]]]
    /\ UNCHANGED storeVars

Transition(c, target, result, failure) ==
    /\ Holds(c)
    /\ LET j == seen[c].id IN
         /\ CanTransitionJob(j, seen[c].row.revision, target, result, failure)
         /\ TransitionJob(j, target, result, failure)
         /\ Returns(c, j)

Claim(c, eligible) ==
    \E j \in Jobs :
        /\ IsOldest(j, eligible)
        /\ ClaimJob(j)
        /\ Returns(c, j)

Progress(c) ==
    /\ Holds(c)
    /\ LET j == seen[c].id IN
         /\ CanReportProgress(j, seen[c].row.revision)
         /\ job[j].revision < MaxRevision
         /\ ReportProgress(j)
         /\ Returns(c, j)

Step(c, s, target) ==
    /\ Holds(c)
    /\ LET j == seen[c].id IN
         /\ CanTransitionStep(j, s, seen[c].row.revision,
                              seen[c].row.steps[s].revision, target)
         /\ TransitionStep(j, s, target)
         /\ Returns(c, j)

Cancel(c) ==
    /\ Holds(c)
    /\ LET j == seen[c].id IN
         /\ CanRequestCancellation(j, seen[c].row.revision)
         /\ RequestCancellation(j)
         /\ Returns(c, j)

Acknowledge(c, result) ==
    /\ Holds(c)
    /\ LET j == seen[c].id IN
         /\ CanAcknowledgeCancellation(j, seen[c].row.revision, result)
         /\ AcknowledgeCancellation(j, result)
         /\ Returns(c, j)

\* Called at startup, with callers of the previous process gone.
Recover(batch) ==
    /\ batch # {}
    /\ IsRecoveryBatch(batch)
    /\ RecoverInterruptedJobs(batch)
    /\ seen' = [c \in Clients |-> NoSnapshot]

\* The trace sink writes without a snapshot.
Decide(j, n, payload) ==
    /\ CanAppendDecision(j, n)
    /\ AppendDecision(j, n, payload)
    /\ UNCHANGED seen

ClientStep(c) ==
    \/ \E j \in Jobs : GetJob(c, j)
    \/ \E j \in Jobs, ns \in Namespaces, k \in Keys, r \in Requests :
         Create(c, j, ns, k, r) \/ CreateAgain(c, j, ns, k, r)
    \/ \E target \in JobStates, result \in Results, failure \in Failures :
         Transition(c, target, result, failure)
    \/ \E eligible \in SUBSET Namespaces : Claim(c, eligible)
    \/ Progress(c)
    \/ \E s \in Steps, target \in StepStates : Step(c, s, target)
    \/ Cancel(c)
    \/ \E result \in Results : Acknowledge(c, result)

Next ==
    \/ \E c \in Clients : ClientStep(c)
    \/ \E batch \in SUBSET Jobs : Recover(batch)
    \/ \E j \in Jobs, n \in 1..MaxDecisions, p \in Payloads : Decide(j, n, p)

Spec == Init /\ [][Next]_vars

-----------------------------------------------------------------------------
(* Properties of the callers and of the log, besides those of JobStore. *)

\* One namespace and idempotency key never name two jobs, so a client that
\* repeats a lost create call cannot start the work twice.
OneJobPerKey ==
    \A i, j \in Jobs :
        /\ Exists(i) /\ Exists(j)
        /\ job[i].namespace = job[j].namespace
        /\ job[i].key = job[j].key
        => i = j

\* A revision identifies the contents of a row: a caller whose snapshot has
\* the current revision has the current row, steps included.  This is what
\* makes a compare-and-set on the revision alone (and the decision a caller
\* took from its snapshot) safe against lost updates.
SnapshotIsCurrent ==
    \A c \in Clients : Holds(c) =>
        LET row == seen[c].row
            now == job[seen[c].id]
        IN  /\ now # NoRow
            /\ row.revision <= now.revision
            /\ row.revision = now.revision => row = now

\* A row, its steps and its log tell one story, that of a legal life: each
\* revision has its event, the events walk the state machine to the state of
\* the row, and result, failure and steps fit that state.
RowsAreConsistent == TypeOK /\ LogMirrorsRow /\ LogIsLegalWalk /\ OutcomeConsistent

-----------------------------------------------------------------------------
(* Action properties. *)

\* A terminal job never changes again: neither its row, nor a step, nor its
\* log, whatever a late caller, a recovery or a decision event does.
TerminalIsFinal ==
    [][\A j \in Jobs : Exists(j) /\ job[j].state \in TerminalJobStates
           => job'[j] = job[j] /\ log'[j] = log[j]]_vars

\* A step only moves along _STEP_TRANSITIONS and gains a revision when it
\* does, also when a bulk UPDATE of its job moves it without passing
\* validate_step_transition.
StepsMoveLegally ==
    [][\A j \in Jobs, s \in Steps : Exists(j) =>
         LET old == job[j].steps[s]
             new == job'[j].steps[s]
         IN  old # new => /\ new.state \in StepTransitions[old.state]
                          /\ new.revision = old.revision + 1]_vars

\* Jobs and steps never move back, and a terminal job not at all.
JobsMoveForward == TerminalIsFinal /\ StepsMoveLegally

-----------------------------------------------------------------------------
(* Refinement: the rows implement the abstract life cycle. *)

StatusOf(row) == IF row = NoRow THEN "absent" ELSE row.state

Status == [j \in Jobs |-> StatusOf(job[j])]

Lifecycle == INSTANCE JobLifecycle WITH status <- Status

\* Readers of the job states see the abstract life cycle of JobLifecycle.
ImplementsLifecycle == Lifecycle!Spec
=============================================================================
