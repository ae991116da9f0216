------------------------- MODULE DurableJobs_proofs -------------------------
(***************************************************************************)
(* Theorems about the repository under concurrent callers, for any sets of *)
(* jobs, steps, keys, requests and callers.  IInv is the inductive         *)
(* invariant: the store's own invariant, the types of the snapshots and    *)
(* the fact that a revision identifies the contents of a row.              *)
(*                                                                         *)
(* The second part is about the telemetry that is kept beside it, the      *)
(* third about the trace of a request; the last puts them together.        *)
(***************************************************************************)
EXTENDS ObservedJobs, JobStore_proofs, SequenceTheorems, NaturalsInduction, WellFoundedInduction

IInv == StoreInv /\ TypeOK /\ SnapshotIsCurrent

\* The caller's snapshot of a stored row.
LEMMA HeldRow ==
    ASSUME TypeOK, NEW c \in Clients, Holds(c)
    PROVE  seen[c].id \in Jobs /\ seen[c].row \in JobRow
  BY DEF TypeOK, Snapshot, Holds

\* Every step of a caller is a repository method or a read, and the caller
\* then holds the row as it stands.
LEMMA ClientStepIsStoreStep ==
    ASSUME IInv, NEW c \in Clients, ClientStep(c)
    PROVE  /\ StoreStep \/ UNCHANGED storeVars
           /\ \E j \in Jobs : /\ seen' = [seen EXCEPT ![c] = [id |-> j, row |-> job'[j]]]
                              /\ job'[j] \in JobRow
<1> USE DEF IInv
<1> DEFINE Done(j) == /\ seen' = [seen EXCEPT ![c] = [id |-> j, row |-> job'[j]]]
                      /\ job'[j] \in JobRow
           Goal == (StoreStep \/ UNCHANGED storeVars) /\ \E j \in Jobs : Done(j)
<1>0. ASSUME NEW j \in Jobs, StoreStep, Exists(j) \/ Exists(j)', Returns(c, j)
      PROVE  Goal
  <2>1. job'[j] \in JobRow
    BY <1>0 DEF StoreStep, Untouched, Written, Created, LegalWrite, Exists, StoreInv, StoreTypeOK
  <2> QED BY <1>0, <2>1 DEF Returns
<1>1. ASSUME NEW j \in Jobs, GetJob(c, j) PROVE Goal
  BY <1>1, StoredRow DEF GetJob, storeVars
<1>2. ASSUME NEW j \in Jobs, NEW ns \in Namespaces, NEW k \in Keys, NEW r \in Requests,
             Create(c, j, ns, k, r)
      PROVE  Goal
  <2>1. StoreStep /\ Exists(j)'
    BY <1>2, CreateIsStep DEF Create
  <2> QED BY <1>0, <1>2, <2>1 DEF Create
<1>3. ASSUME NEW j \in Jobs, NEW ns \in Namespaces, NEW k \in Keys, NEW r \in Requests,
             CreateAgain(c, j, ns, k, r)
      PROVE  Goal
  BY <1>3, StoredRow DEF CreateAgain, StoredUnder, RowsOf, storeVars
<1>4. ASSUME NEW target \in JobStates, NEW result \in Results, NEW failure \in Failures,
             Transition(c, target, result, failure)
      PROVE  Goal
  <2> DEFINE j == seen[c].id
  <2>1. /\ CanTransitionJob(j, seen[c].row.revision, target, result, failure)
        /\ TransitionJob(j, target, result, failure) /\ Returns(c, j) /\ j \in Jobs
    BY <1>4, HeldRow DEF Transition
  <2>2. Exists(j)
    BY <2>1 DEF CanTransitionJob, Fresh
  <2> HIDE DEF j
  <2>3. StoreStep
    BY <2>1, TransitionIsStep
  <2> QED BY <1>0, <2>1, <2>2, <2>3
<1>5. ASSUME NEW eligible \in SUBSET Namespaces, Claim(c, eligible) PROVE Goal
  <2>1. PICK j \in Jobs : IsOldest(j, eligible) /\ ClaimJob(j) /\ Returns(c, j)
    BY <1>5 DEF Claim
  <2>2. Exists(j) /\ job[j].state = "queued"
    BY <2>1 DEF IsOldest, Claimable
  <2>3. CanTransitionJob(j, job[j].revision, "running", "none", "none")
    BY <2>2 DEF CanTransitionJob, Fresh, JobTransitions, JobStates
  <2>4. "none" \in Results /\ "none" \in Failures
    BY DEF Results, Failures
  <2>5. StoreStep
    BY <2>1, <2>3, <2>4, TransitionIsStep DEF ClaimJob
  <2> QED BY <1>0, <2>1, <2>2, <2>5
<1>6. ASSUME Progress(c) PROVE Goal
  <2> DEFINE j == seen[c].id
  <2>1. CanReportProgress(j, seen[c].row.revision) /\ ReportProgress(j) /\ Returns(c, j) /\ j \in Jobs
    BY <1>6, HeldRow DEF Progress
  <2>2. Exists(j)
    BY <2>1 DEF CanReportProgress, Fresh
  <2> HIDE DEF j
  <2>3. StoreStep
    BY <2>1, ProgressIsStep
  <2> QED BY <1>0, <2>1, <2>2, <2>3
<1>7. ASSUME NEW s \in Steps, NEW target \in StepStates, Step(c, s, target) PROVE Goal
  <2> DEFINE j == seen[c].id
  <2>1. /\ CanTransitionStep(j, s, seen[c].row.revision, seen[c].row.steps[s].revision, target)
        /\ TransitionStep(j, s, target) /\ Returns(c, j) /\ j \in Jobs
    BY <1>7, HeldRow DEF Step
  <2>2. Exists(j)
    BY <2>1 DEF CanTransitionStep, Fresh
  <2> HIDE DEF j
  <2>3. StoreStep
    BY <2>1, StepIsStep
  <2> QED BY <1>0, <2>1, <2>2, <2>3
<1>8. ASSUME Cancel(c) PROVE Goal
  <2> DEFINE j == seen[c].id
  <2>1. /\ CanRequestCancellation(j, seen[c].row.revision) /\ RequestCancellation(j)
        /\ Returns(c, j) /\ j \in Jobs
    BY <1>8, HeldRow DEF Cancel
  <2>2. Exists(j)
    BY <2>1 DEF CanRequestCancellation, Fresh
  <2> HIDE DEF j
  <2>3. StoreStep
    BY <2>1, CancelIsStep
  <2> QED BY <1>0, <2>1, <2>2, <2>3
<1>9. ASSUME NEW result \in Results, Acknowledge(c, result) PROVE Goal
  <2> DEFINE j == seen[c].id
  <2>1. /\ CanAcknowledgeCancellation(j, seen[c].row.revision, result)
        /\ AcknowledgeCancellation(j, result) /\ Returns(c, j) /\ j \in Jobs
    BY <1>9, HeldRow DEF Acknowledge
  <2>2. Exists(j)
    BY <2>1 DEF CanAcknowledgeCancellation, Fresh
  <2> HIDE DEF j
  <2>3. StoreStep
    BY <2>1, AcknowledgeIsStep
  <2> QED BY <1>0, <2>1, <2>2, <2>3
<1> QED BY <1>1, <1>2, <1>3, <1>4, <1>5, <1>6, <1>7, <1>8, <1>9 DEF ClientStep

\* A row that is written gets a larger revision, so an old snapshot that is
\* not current stays distinguishable.
LEMMA OldSnapshots ==
    ASSUME IInv, StoreStep \/ UNCHANGED storeVars, NEW c \in Clients, Holds(c)
    PROVE  LET row == seen[c].row
               now == job'[seen[c].id]
           IN  /\ now # NoRow
               /\ row.revision <= now.revision
               /\ row.revision = now.revision => row = now
<1> DEFINE j == seen[c].id
           row == seen[c].row
<1>1. /\ j \in Jobs /\ row \in JobRow /\ Exists(j)
      /\ row.revision <= job[j].revision
      /\ row.revision = job[j].revision => row = job[j]
  BY HeldRow DEF IInv, SnapshotIsCurrent, Exists
<1>2. job[j].revision \in Nat /\ row.revision \in Nat
  BY <1>1, StoredRow DEF IInv, JobRow
<1> HIDE DEF j, row
<1>3. job'[j] = job[j] \/ LegalWrite(job[j], job'[j])
  BY <1>1 DEF StoreStep, Untouched, Written, Created, storeVars
<1>4. job'[j] # NoRow
  BY <1>1, <1>3, StoreAssumption DEF LegalWrite, Exists
<1>5. row.revision <= job'[j].revision /\ (row.revision = job'[j].revision => row = job'[j])
  BY <1>1, <1>2, <1>3 DEF LegalWrite
<1> QED BY <1>4, <1>5 DEF j, row

\* Each step of the specification is a store step, and preserves IInv.
LEMMA NextPreserves == IInv /\ [Next]_vars => IInv' /\ (StoreStep \/ UNCHANGED storeVars)
<1> SUFFICES ASSUME IInv, [Next]_vars PROVE IInv' /\ (StoreStep \/ UNCHANGED storeVars)
  OBVIOUS
<1>0. ASSUME UNCHANGED storeVars PROVE StoreInv'
  BY <1>0 DEF IInv, StoreInv, storeVars, StoreTypeOK, OutcomeConsistent, LogMirrorsRow,
     LogIsLegalWalk, Exists
<1>1. StoreStep => StoreInv' /\ StoreTypeOK'
  BY StoreStepInv DEF IInv, StoreInv
<1>2. ASSUME NEW c \in Clients, ClientStep(c)
      PROVE  IInv' /\ (StoreStep \/ UNCHANGED storeVars)
  <2>1. StoreStep \/ UNCHANGED storeVars
    BY <1>2, ClientStepIsStoreStep
  <2>2. PICK j \in Jobs : /\ seen' = [seen EXCEPT ![c] = [id |-> j, row |-> job'[j]]]
                          /\ job'[j] \in JobRow
    BY <1>2, ClientStepIsStoreStep
  <2>3. StoreInv' /\ StoreTypeOK'
    BY <2>1, <1>0, <1>1 DEF StoreInv
  <2>4. seen' \in [Clients -> Snapshot]
    BY <2>2 DEF IInv, TypeOK, Snapshot
  <2>5. SnapshotIsCurrent'
    <3> SUFFICES ASSUME NEW d \in Clients, Holds(d)'
                 PROVE  LET row == seen'[d].row
                            now == job'[seen'[d].id]
                        IN  /\ now # NoRow
                            /\ row.revision <= now.revision
                            /\ row.revision = now.revision => row = now
      BY DEF SnapshotIsCurrent
    <3>1. CASE d = c
      <4>1. seen'[d].id = j /\ seen'[d].row = job'[j]
        BY <3>1, <2>2 DEF IInv, TypeOK
      <4>2. job'[j] # NoRow /\ job'[j].revision \in Nat
        BY <2>2, StoreAssumption DEF JobRow
      <4> QED BY <4>1, <4>2
    <3>2. CASE d # c
      <4>1. seen'[d] = seen[d]
        BY <3>2, <2>2 DEF IInv, TypeOK
      <4>2. Holds(d)
        BY <4>1 DEF Holds
      <4> QED BY <4>1, <4>2, <2>1, OldSnapshots
    <3> QED BY <3>1, <3>2
  <2> QED BY <2>1, <2>3, <2>4, <2>5 DEF IInv, TypeOK
<1>3. ASSUME NEW batch \in SUBSET Jobs, Recover(batch) PROVE IInv' /\ StoreStep
  <2>1. StoreStep
    BY <1>3, RecoverIsStep DEF Recover, IInv
  <2>2. seen' = [c \in Clients |-> NoSnapshot]
    BY <1>3 DEF Recover
  <2>3. seen' \in [Clients -> Snapshot] /\ \A c \in Clients : ~Holds(c)'
    BY <2>2 DEF Snapshot, Holds
  <2> QED BY <2>1, <2>3, <1>1 DEF IInv, TypeOK, SnapshotIsCurrent
<1>4. ASSUME NEW j \in Jobs, NEW n \in 1..MaxDecisions, NEW p \in Payloads, Decide(j, n, p)
      PROVE  IInv' /\ StoreStep
  <2>1. StoreStep
    <3>1. n \in Nat
      BY StoreAssumption
    <3> QED BY <1>4, <3>1, DecisionIsStep DEF Decide, IInv
  <2>2. UNCHANGED seen
    BY <1>4 DEF Decide
  <2>3. SnapshotIsCurrent'
    <3> SUFFICES ASSUME NEW d \in Clients, Holds(d)'
                 PROVE  LET row == seen'[d].row
                            now == job'[seen'[d].id]
                        IN  /\ now # NoRow
                            /\ row.revision <= now.revision
                            /\ row.revision = now.revision => row = now
      BY DEF SnapshotIsCurrent
    <3> QED BY <2>1, <2>2, OldSnapshots DEF Holds
  <2> QED BY <2>1, <2>2, <2>3, <1>1 DEF IInv, TypeOK
<1>5. ASSUME UNCHANGED vars PROVE IInv' /\ UNCHANGED storeVars
  <2>1. UNCHANGED storeVars /\ UNCHANGED seen
    BY <1>5 DEF vars, storeVars
  <2>2. StoreInv'
    BY <2>1, <1>0
  <2>3. SnapshotIsCurrent'
    BY <2>1 DEF IInv, SnapshotIsCurrent, Holds, storeVars
  <2> QED BY <2>1, <2>2, <2>3 DEF IInv, TypeOK, StoreInv
<1> QED BY <1>2, <1>3, <1>4, <1>5 DEF Next

(* The empty database, and callers that hold nothing, satisfy IInv. *)
LEMMA InitIInv == Init => IInv
<1> SUFFICES ASSUME Init PROVE IInv
  OBVIOUS
<1>1. StoreInv
  BY StoreInitInv DEF Init
<1>2. seen \in [Clients -> Snapshot] /\ \A c \in Clients : ~Holds(c)
  BY DEF Init, Snapshot, Holds
<1> QED BY <1>1, <1>2 DEF IInv, TypeOK, StoreInv, SnapshotIsCurrent

-----------------------------------------------------------------------------
(* IInv holds in every reachable state, whatever the methods of             *)
(* SQLiteJobRepository are called with and in whichever order.              *)
THEOREM Invariance == Spec => []IInv
<1>1. IInv /\ [Next]_vars => IInv'
  BY NextPreserves
<1> QED BY <1>1, InitIInv, PTL DEF Spec

\* Rows, events and snapshots always have the documented types.
THEOREM TypeCorrect == Spec => []TypeOK
<1>1. IInv => TypeOK
  BY DEF IInv
<1> QED BY <1>1, Invariance, PTL

\* The revision of a row identifies its contents, for any number of callers:
\* the compare-and-set on revisions admits no lost update.
THEOREM SnapshotSafety == Spec => []SnapshotIsCurrent
<1>1. IInv => SnapshotIsCurrent
  BY DEF IInv
<1> QED BY <1>1, Invariance, PTL

\* The outcome of a job agrees with its steps, its result and its failure.
THEOREM OutcomeSafety == Spec => []OutcomeConsistent
<1>1. IInv => OutcomeConsistent
  BY DEF IInv, StoreInv
<1> QED BY <1>1, Invariance, PTL

\* The event log is as long as the revision and ends in the state of the row.
THEOREM LogSafety == Spec => []LogMirrorsRow
<1>1. IInv => LogMirrorsRow
  BY DEF IInv, StoreInv
<1> QED BY <1>1, Invariance, PTL

\* Every log is a walk of the life cycle that ends at its first terminal state.
THEOREM WalkSafety == Spec => []LogIsLegalWalk
<1>1. IInv => LogIsLegalWalk
  BY DEF IInv, StoreInv
<1> QED BY <1>1, Invariance, PTL

\* No step changes a terminal job or its log.
THEOREM TerminalFinality == Spec => TerminalIsFinal
<1>1. IInv /\ [Next]_vars =>
        [\A j \in Jobs : Exists(j) /\ job[j].state \in TerminalJobStates
             => job'[j] = job[j] /\ log'[j] = log[j]]_vars
  <2> SUFFICES ASSUME IInv, [Next]_vars, NEW j \in Jobs, Exists(j),
                      job[j].state \in TerminalJobStates
               PROVE  job'[j] = job[j] /\ log'[j] = log[j]
    OBVIOUS
  <2>1. StoreStep \/ UNCHANGED storeVars
    BY NextPreserves
  <2> QED BY <2>1 DEF StoreStep, Untouched, Written, Created, LegalWrite, storeVars
<1> QED BY <1>1, Invariance, PTL DEF Spec, TerminalIsFinal

\* Steps move along their state machine only, bulk updates included.
THEOREM StepLegality == Spec => StepsMoveLegally
<1>1. IInv /\ [Next]_vars =>
        [\A j \in Jobs, s \in Steps : Exists(j) =>
           LET old == job[j].steps[s]
               new == job'[j].steps[s]
           IN  old # new => /\ new.state \in StepTransitions[old.state]
                            /\ new.revision = old.revision + 1]_vars
  <2> SUFFICES ASSUME IInv, [Next]_vars, NEW j \in Jobs, NEW s \in Steps, Exists(j)
               PROVE  LegalStepMove(job[j].steps[s], job'[j].steps[s])
    BY DEF LegalStepMove
  <2>1. StoreStep \/ UNCHANGED storeVars
    BY NextPreserves
  <2> QED BY <2>1 DEF StoreStep, Untouched, Written, Created, LegalWrite, LegalStepMove, storeVars
<1> QED BY <1>1, Invariance, PTL DEF Spec, StepsMoveLegally

-----------------------------------------------------------------------------
(* The rows implement JobLifecycle. *)

\* At most the row of j changes.
OnlyRow(j) == \A i \in Jobs : i # j => job'[i] = job[i]

\* A caller's step changes at most one row.
LEMMA ClientStepOneRow ==
    ASSUME IInv, NEW c \in Clients, ClientStep(c)
    PROVE  \E j \in Jobs : OnlyRow(j)
<1> USE DEF IInv, StoreInv, StoreTypeOK, OnlyRow
<1>0. ASSUME NEW j \in Jobs, NEW x, job' = [job EXCEPT ![j] = x] PROVE OnlyRow(j)
  BY <1>0
<1>1. ASSUME NEW j \in Jobs, GetJob(c, j) PROVE OnlyRow(j)
  BY <1>1 DEF GetJob, storeVars
<1>2. ASSUME NEW j \in Jobs, NEW ns, NEW k, NEW r, Create(c, j, ns, k, r) PROVE OnlyRow(j)
  BY <1>0, <1>2 DEF Create, CreateJob
<1>3. ASSUME NEW j \in Jobs, NEW ns, NEW k, NEW r, CreateAgain(c, j, ns, k, r) PROVE OnlyRow(j)
  BY <1>3 DEF CreateAgain, storeVars
<1>4. ASSUME NEW target, NEW result, NEW failure, Transition(c, target, result, failure)
      PROVE  seen[c].id \in Jobs /\ OnlyRow(seen[c].id)
  BY <1>0, <1>4, HeldRow DEF Transition, TransitionJob, Commit
<1>5. ASSUME NEW eligible, NEW j \in Jobs, ClaimJob(j) PROVE OnlyRow(j)
  BY <1>0, <1>5 DEF ClaimJob, TransitionJob, Commit
<1>6. ASSUME Progress(c) PROVE seen[c].id \in Jobs /\ OnlyRow(seen[c].id)
  BY <1>0, <1>6, HeldRow DEF Progress, ReportProgress, Commit
<1>7. ASSUME NEW s, NEW target, Step(c, s, target)
      PROVE  seen[c].id \in Jobs /\ OnlyRow(seen[c].id)
  BY <1>0, <1>7, HeldRow DEF Step, TransitionStep, Commit
<1>8. ASSUME Cancel(c) PROVE seen[c].id \in Jobs /\ OnlyRow(seen[c].id)
  BY <1>0, <1>8, HeldRow DEF Cancel, RequestCancellation, Commit
<1>9. ASSUME NEW result, Acknowledge(c, result)
      PROVE  seen[c].id \in Jobs /\ OnlyRow(seen[c].id)
  BY <1>0, <1>9, HeldRow DEF Acknowledge, AcknowledgeCancellation, Commit
<1> HIDE DEF OnlyRow
<1> QED BY <1>1, <1>2, <1>3, <1>4, <1>5, <1>6, <1>7, <1>8, <1>9 DEF ClientStep, Claim

\* A store step that changes at most one row is a step of the life cycle.
LEMMA OneRowRefines ==
    ASSUME IInv, StoreStep, NEW j \in Jobs, OnlyRow(j)
    PROVE  [Lifecycle!Next]_Status
<1> USE DEF Status
<1>1. Status' = [Status EXCEPT ![j] = StatusOf(job'[j])]
  BY DEF OnlyRow
<1>2. CASE Untouched(j)
  <2>1. Status' = Status
    BY <1>2 DEF OnlyRow, Untouched
  <2> QED BY <2>1
<1>3. CASE Created(j)
  <2>1. Status[j] = "absent" /\ StatusOf(job'[j]) = "queued"
    BY <1>3, StoreAssumption DEF Created, Exists, StatusOf
  <2>2. Lifecycle!Create(j)
    BY <1>1, <2>1 DEF Lifecycle!Create, Lifecycle!Move
  <2> QED BY <2>2 DEF Lifecycle!Next
<1>4. CASE Written(j)
  <2> DEFINE old == job[j].state
             new == job'[j].state
  <2>1. Status[j] = old /\ StatusOf(job'[j]) = new /\ old \in JobStates
    BY <1>4, StoredRow, StoreAssumption DEF IInv, Written, LegalWrite, Exists, StatusOf
  <2>2. old = new \/ new \in JobTransitions[old]
    BY <1>4 DEF Written, LegalWrite
  <2> HIDE DEF old, new
  <2>3. CASE old = new
    <3>1. Status' = Status
      BY <1>1, <2>1, <2>3
    <3> QED BY <3>1
  <2>4. CASE new \in JobTransitions[old]
    <3>1. Status' = [Status EXCEPT ![j] = new]
      BY <1>1, <2>1
    <3> HIDE DEF Status
    <3>2. \/ old = "queued" /\ new \in {"running", "cancelled"}
          \/ old = "running" /\ new \in {"cancelling", "succeeded", "failed", "interrupted"}
          \/ old = "cancelling" /\ new \in {"cancelled", "interrupted"}
      BY <2>1, <2>4 DEF JobTransitions, JobStates
    <3>3. Lifecycle!Start(j) \/ Lifecycle!Cancel(j) \/ Lifecycle!Finish(j)
      BY <2>1, <3>1, <3>2
      DEF Lifecycle!Start, Lifecycle!Cancel, Lifecycle!Finish, Lifecycle!Move, Status
    <3> QED BY <3>3 DEF Lifecycle!Next
  <2> QED BY <2>2, <2>3, <2>4
<1> QED BY <1>2, <1>3, <1>4 DEF StoreStep

\* The rows of the repository implement the abstract life cycle: whatever the
\* callers do, a reader of the states sees JobLifecycle.
THEOREM Refinement == Spec => ImplementsLifecycle
<1> USE DEF Status
<1>1. Init => Lifecycle!Init
  BY DEF Init, StoreInit, Lifecycle!Init, StatusOf
<1>2. IInv /\ [Next]_vars => [Lifecycle!Next]_Status
  <2> SUFFICES ASSUME IInv, [Next]_vars PROVE [Lifecycle!Next]_Status
    OBVIOUS
  <2>0. ASSUME UNCHANGED storeVars PROVE Status' = Status
    BY <2>0 DEF storeVars
  <2>1. StoreStep \/ UNCHANGED storeVars
    BY NextPreserves
  <2>2. ASSUME NEW c \in Clients, ClientStep(c) PROVE [Lifecycle!Next]_Status
    BY <2>0, <2>1, <2>2, ClientStepOneRow, OneRowRefines
  <2>3. ASSUME NEW batch \in SUBSET Jobs, Recover(batch) PROVE [Lifecycle!Next]_Status
    <3>1. /\ batch # {} /\ IsRecoveryBatch(batch) /\ RecoverInterruptedJobs(batch)
      BY <2>3 DEF Recover
    <3>2. \A j \in batch : /\ Exists(j) /\ job[j].state \in ActiveJobStates
                           /\ LegalWrite(job[j], Interrupted(job[j]))
                           /\ Interrupted(job[j]).state = "interrupted"
      BY <3>1, StoredRow, InterruptedIsLegal DEF IsRecoveryBatch, ActiveJobs, IInv
    <3>3. \A j \in batch : Status[j] \in {"running", "cancelling"}
      BY <3>2 DEF StatusOf, Exists, ActiveJobStates
    <3>4. Status' = [j \in Jobs |-> IF j \in batch THEN "interrupted" ELSE Status[j]]
      BY <3>1, <3>2, StoreAssumption DEF RecoverInterruptedJobs, StatusOf, LegalWrite
    <3>5. Lifecycle!Recover(batch)
      BY <3>1, <3>3, <3>4 DEF Lifecycle!Recover, Lifecycle!Active
    <3> QED BY <3>5 DEF Lifecycle!Next
  <2>4. ASSUME NEW j \in Jobs, NEW n \in 1..MaxDecisions, NEW p \in Payloads, Decide(j, n, p)
        PROVE  [Lifecycle!Next]_Status
    <3>1. OnlyRow(j)
      BY <2>4 DEF Decide, AppendDecision, OnlyRow, IInv, StoreInv, StoreTypeOK
    <3> QED BY <2>0, <2>1, <3>1, OneRowRefines
  <2>5. CASE UNCHANGED vars
    BY <2>0, <2>5 DEF vars, storeVars
  <2> QED BY <2>2, <2>3, <2>4, <2>5 DEF Next
<1> HIDE DEF Status
<1> QED BY <1>1, <1>2, Invariance, PTL DEF Spec, ImplementsLifecycle, Lifecycle!Spec

-----------------------------------------------------------------------------
\* A row that was there keeps the namespace and the key it was created with.
LEMMA KeysKept ==
    ASSUME StoreStep, NEW j \in Jobs, Exists(j)
    PROVE  job'[j].namespace = job[j].namespace /\ job'[j].key = job[j].key
  BY DEF StoreStep, Untouched, Written, Created, LegalWrite, Exists

\* A step that changes at most one row gives no second row the same key.
LEMMA OneRowKeepsKeys ==
    ASSUME IInv, OneJobPerKey, StoreStep, NEW j \in Jobs, OnlyRow(j)
    PROVE  OneJobPerKey'
<1> SUFFICES ASSUME NEW a \in Jobs, NEW b \in Jobs, a # b, Exists(a)', Exists(b)',
                    job'[a].namespace = job'[b].namespace, job'[a].key = job'[b].key
             PROVE  FALSE
  BY DEF OneJobPerKey
<1>1. \A i \in Jobs : i # j /\ Exists(i)' => Exists(i) /\ job'[i] = job[i]
  BY DEF OnlyRow, Exists
<1>2. CASE Exists(j)
  <2>1. \A i \in Jobs : Exists(i)' => /\ Exists(i)
                                      /\ job'[i].namespace = job[i].namespace
                                      /\ job'[i].key = job[i].key
    BY <1>1, <1>2, KeysKept
  <2> QED BY <2>1 DEF OneJobPerKey
<1>3. CASE ~Exists(j)
  <2>1. Untouched(j) \/ Created(j)
    BY <1>3 DEF StoreStep, Written
  <2>2. CASE Untouched(j)
    BY <1>1, <1>3, <2>2 DEF Untouched, Exists, OneJobPerKey
  <2>3. CASE Created(j)
    <3>1. \A i \in Jobs : i # j /\ Exists(i)' =>
              \/ job'[i].namespace # job'[j].namespace
              \/ job'[i].key # job'[j].key
      BY <1>1, <2>3 DEF Created
    <3> QED BY <1>1, <3>1 DEF OneJobPerKey
  <2> QED BY <2>1, <2>2, <2>3
<1> QED BY <1>2, <1>3

\* Rows, steps and logs of the repository are consistent whichever of its
\* methods committed last (workspace/jobs.py).
THEOREM ConsistencySafety == Spec => []RowsAreConsistent
<1>1. IInv => RowsAreConsistent
  BY DEF IInv, StoreInv, RowsAreConsistent
<1> QED BY <1>1, Invariance, PTL

\* No method of the repository moves a job or a step back
\* (_validate_job_transition, validate_step_transition).
THEOREM ForwardSafety == Spec => JobsMoveForward
  BY TerminalFinality, StepLegality DEF JobsMoveForward

\* A namespace and an idempotency key never name two jobs: create_job returns
\* the stored row to a caller that repeats its request.
THEOREM KeySafety == Spec => []OneJobPerKey
<1>1. Init => OneJobPerKey
  BY DEF Init, StoreInit, OneJobPerKey, Exists
<1>2. IInv /\ OneJobPerKey /\ [Next]_vars => OneJobPerKey'
  <2> SUFFICES ASSUME IInv, OneJobPerKey, [Next]_vars PROVE OneJobPerKey'
    OBVIOUS
  <2>0. ASSUME UNCHANGED storeVars PROVE OneJobPerKey'
    BY <2>0 DEF storeVars, OneJobPerKey, Exists
  <2>1. StoreStep \/ UNCHANGED storeVars
    BY NextPreserves
  <2>2. ASSUME NEW c \in Clients, ClientStep(c) PROVE OneJobPerKey'
    BY <2>0, <2>1, <2>2, ClientStepOneRow, OneRowKeepsKeys
  <2>3. ASSUME NEW batch \in SUBSET Jobs, Recover(batch) PROVE OneJobPerKey'
    <3>1. IsRecoveryBatch(batch) /\ RecoverInterruptedJobs(batch)
      BY <2>3 DEF Recover
    <3>2. \A i \in Jobs : Exists(i)' => Exists(i)
      BY <3>1 DEF RecoverInterruptedJobs, IsRecoveryBatch, ActiveJobs, Exists
    <3>3. CASE StoreStep
      BY <3>2, <3>3, KeysKept DEF OneJobPerKey
    <3> QED BY <2>0, <2>1, <3>3
  <2>4. ASSUME NEW j \in Jobs, NEW n \in 1..MaxDecisions, NEW p \in Payloads, Decide(j, n, p)
        PROVE  OneJobPerKey'
    <3>1. OnlyRow(j)
      BY <2>4 DEF Decide, AppendDecision, OnlyRow, IInv, StoreInv, StoreTypeOK
    <3> QED BY <2>0, <2>1, <3>1, OneRowKeepsKeys
  <2>5. CASE UNCHANGED vars
    BY <2>0, <2>5 DEF vars, storeVars
  <2> QED BY <2>2, <2>3, <2>4, <2>5 DEF Next
<1> QED BY <1>1, <1>2, Invariance, PTL DEF Spec
-----------------------------------------------------------------------------
(***************************************************************************)
(* The durable telemetry beside the repository, for any requests, jobs,    *)
(* page sizes, windows and retention.  A stamp has passed when its row is  *)
(* stored, so nobody prunes a row before its time; and what a page leaves  *)
(* out is older than all of that page, so the cursor, which names the last *)
(* row and not only its time, passes over nothing.                         *)
(***************************************************************************)
LogRow == [id : Nat, event : {"request", "job", "performance"},
           outcome : {"succeeded", "failed", "interrupted"}, at : Nat]
Keyed(rows) == \A x, y \in rows : x.id = y.id => x = y

\* Rows are stamped with a clock that has passed, and have ids of their own.
RowsAreStamped ==
    /\ clock \in Nat /\ clock <= MaxClock
    /\ IsFiniteSet(table) /\ table \subseteq LogRow /\ Keyed(table)
    /\ IsFiniteSet(ended) /\ ended \subseteq LogRow /\ Keyed(ended)
    /\ \A x \in table \cup ended : x.at <= clock
    /\ \A x \in table : x.event = "request" => x.id \in EndedRequests
    /\ \A x \in ended : x.id \in EndedJobs
    /\ writer \in [EndedRequests -> [at : {"running", "stamped", "gone"},
                                     outcome : {"none", "succeeded", "failed"}, stamp : Nat]]
    /\ \A r \in EndedRequests : writer[r].at = "stamped" =>
         writer[r].stamp <= clock /\ writer[r].outcome # "none"

\* A page of requests, and what is kept of the pages before it.
ReaderRecord == [at : {"idle", "requests", "jobs", "done"}, level : Levels, limit : Nat \ {0},
                 to : Nat, cursor : [at : Nat, id : Nat], found : Seq(LogRow),
                 items : Seq(LogRow), seen : SUBSET LogRow]
ReaderIsTyped ==
    /\ reader \in ReaderRecord
    /\ reader.to <= clock

Due(x) == x.at >= From(reader.to, LogWindow) /\ Until(x) > clock
\* What the client saw when it began is where it was, or has expired.
SeenIsKept ==
    \A x \in reader.seen :
      /\ x.at < reader.to /\ OfLevel({x}, reader.level) = {x}
      /\ x \in ended \/ (x.event = "request" /\ (x \in table \/ Until(x) <= clock))
\* The pages so far: newest first, up to the cursor, and nothing left out.
ItemsAreOrdered ==
    /\ \A m, n \in DOMAIN reader.items : m < n => Later(reader.items[m], reader.items[n])
    /\ reader.at # "done" => \A m \in DOMAIN reader.items : ~Later(reader.cursor, reader.items[m])
PagesSoFar ==
    \A x \in reader.seen : Due(x) =>
      x \in ToSet(reader.items) \/ (reader.at # "done" /\ Later(reader.cursor, x))
\* The requests of a page whose jobs are still to be read.
FoundIsNewest ==
    reader.at = "jobs" =>
      /\ IsFiniteSet(ToSet(reader.found)) /\ Keyed(ToSet(reader.found))
      /\ Cardinality(ToSet(reader.found)) = Len(reader.found)
      /\ \A x \in ToSet(reader.found) : x.id \in EndedRequests /\ Later(reader.cursor, x)
      /\ \A x \in reader.seen \ ended : Due(x) /\ Later(reader.cursor, x) =>
           \/ x \in ToSet(reader.found)
           \/ /\ Len(reader.found) = Asked(reader)
              /\ \A y \in ToSet(reader.found) : Later(y, x)

PageInv == ReaderIsTyped /\ SeenIsKept /\ ItemsAreOrdered /\ PagesSoFar /\ FoundIsNewest
TmInv == RowsAreStamped /\ PageInv

\* Later is a strict order, and total on rows that have ids of their own.
LEMMA LaterIsOrder ==
    ASSUME NEW x, NEW y, NEW z, {x.at, x.id, y.at, y.id, z.at, z.id} \subseteq Nat
    PROVE  /\ ~Later(x, x)
           /\ Later(x, y) => ~Later(y, x)
           /\ Later(x, y) /\ Later(y, z) => Later(x, z)
           /\ ~Later(y, x) /\ Later(y, z) => Later(x, z)
           /\ x.id # y.id => Later(x, y) \/ Later(y, x)
<1>1. x.at \in Nat /\ x.id \in Nat /\ y.at \in Nat /\ y.id \in Nat /\ z.at \in Nat /\ z.id \in Nat
  OBVIOUS
<1> QED
  BY <1>1 DEF Later

\* The rows that are newer than a row number the rows of a set, from the newest.
LEMMA NumbersFromNewest ==
    ASSUME NEW rows, IsFiniteSet(rows), rows \subseteq LogRow, Keyed(rows)
    PROVE  LET c(x) == Cardinality(NewerThan(x, rows))
           IN  /\ \A x \in rows : c(x) \in 0..(Cardinality(rows) - 1)
               /\ \A x, y \in rows : Later(x, y) <=> c(x) < c(y)
               /\ \A x, y \in rows : c(x) = c(y) => x = y
               /\ \A n \in 0..(Cardinality(rows) - 1) : \E x \in rows : c(x) = n
<1> DEFINE c(x) == Cardinality(NewerThan(x, rows))
           N == Cardinality(rows)
<1>0. N \in Nat
  BY FS_CardinalityType
<1>1. \A x, y, z \in rows :
        /\ ~Later(x, x)
        /\ Later(x, y) => ~Later(y, x)
        /\ Later(x, y) /\ Later(y, z) => Later(x, z)
        /\ x # y => Later(x, y) \/ Later(y, x)
  <2> SUFFICES ASSUME NEW x \in rows, NEW y \in rows, NEW z \in rows
               PROVE  /\ ~Later(x, x)
                      /\ Later(x, y) => ~Later(y, x)
                      /\ Later(x, y) /\ Later(y, z) => Later(x, z)
                      /\ x # y => Later(x, y) \/ Later(y, x)
    OBVIOUS
  <2>1. {x.at, x.id, y.at, y.id, z.at, z.id} \subseteq Nat
    BY DEF LogRow
  <2>2. x # y => x.id # y.id
    BY DEF Keyed
  <2> QED
    BY <2>1, <2>2, LaterIsOrder
<1>2. ASSUME NEW x \in rows
      PROVE  /\ IsFiniteSet(NewerThan(x, rows)) /\ c(x) \in 0..(N - 1)
  <2>1. NewerThan(x, rows) \in SUBSET (rows \ {x})
    BY <1>1 DEF NewerThan
  <2>2. IsFiniteSet(rows \ {x}) /\ Cardinality(rows \ {x}) = N - 1
    BY FS_RemoveElement
  <2>3. /\ IsFiniteSet(NewerThan(x, rows))
        /\ Cardinality(NewerThan(x, rows)) <= Cardinality(rows \ {x})
    BY <2>1, <2>2, FS_Subset
  <2>4. c(x) \in Nat
    BY <2>3, FS_CardinalityType
  <2> QED
    BY <1>0, <2>2, <2>3, <2>4
<1>3. ASSUME NEW x \in rows, NEW y \in rows, Later(x, y) PROVE c(x) < c(y)
  <2>1. NewerThan(x, rows) \cup {x} \in SUBSET NewerThan(y, rows)
    BY <1>1, <1>3 DEF NewerThan
  <2>2. x \notin NewerThan(x, rows)
    BY <1>1 DEF NewerThan
  <2>3. Cardinality(NewerThan(x, rows) \cup {x}) = c(x) + 1
    BY <1>2, <2>2, FS_AddElement
  <2>4. Cardinality(NewerThan(x, rows) \cup {x}) <= c(y)
    BY <1>2, <2>1, FS_Subset
  <2>5. c(x) \in Nat /\ c(y) \in Nat
    BY <1>0, <1>2
  <2> QED
    BY <2>3, <2>4, <2>5
<1>4. \A x \in rows : c(x) \in 0..(N - 1)
  BY <1>2
<1> HIDE DEF c, N
<1>5. \A x, y \in rows : c(x) = c(y) => x = y
  BY <1>0, <1>1, <1>3, <1>4
<1>6. \A x, y \in rows : Later(x, y) <=> c(x) < c(y)
  BY <1>0, <1>1, <1>3, <1>4
<1>7. \A n \in 0..(N - 1) : \E x \in rows : c(x) = n
  <2> DEFINE f == [x \in rows |-> c(x)]
  <2>1. f \in Injection(rows, 0..(N - 1))
    BY <1>4, <1>5 DEF Injection, IsInjective
  <2>2. IsFiniteSet(0..(N - 1)) /\ Cardinality(0..(N - 1)) = N
    BY <1>0, FS_Interval
  <2>3. Cardinality(rows) = Cardinality(0..(N - 1))
    BY <2>2 DEF N
  <2>4. f \in Surjection(rows, 0..(N - 1))
    BY <2>1, <2>2, <2>3, FS_Injection
  <2> QED
    BY <2>4 DEF Surjection
<1> QED
  BY <1>4, <1>5, <1>6, <1>7 DEF c, N

\* A page: the newest rows, in order, and nothing newer left out.
LEMMA NewestIs ==
    ASSUME NEW rows, IsFiniteSet(rows), rows \subseteq LogRow, Keyed(rows), NEW limit \in Nat
    PROVE  LET s == Newest(rows, limit)
           IN  /\ s \in Seq(LogRow) /\ ToSet(s) \subseteq rows
               /\ IsFiniteSet(ToSet(s)) /\ Cardinality(ToSet(s)) = Len(s)
               /\ Cardinality(rows) <= limit => ToSet(s) = rows
               /\ Cardinality(rows) > limit => Len(s) = limit
               /\ \A m, n \in DOMAIN s : m < n => Later(s[m], s[n])
               /\ \A x \in rows \ ToSet(s) : Len(s) = limit /\ \A y \in ToSet(s) : Later(y, x)
<1> DEFINE c(x) == Cardinality(NewerThan(x, rows))
           N == Cardinality(rows)
           L == IF N < limit THEN N ELSE limit
           s == Newest(rows, limit)
<1>1. N \in Nat /\ L \in Nat /\ L <= N /\ L <= limit /\ (N > limit => L = limit)
  BY FS_CardinalityType
<1>2. /\ \A x \in rows : c(x) \in 0..(N - 1)
      /\ \A x, y \in rows : Later(x, y) <=> c(x) < c(y)
      /\ \A x, y \in rows : c(x) = c(y) => x = y
      /\ \A n \in 0..(N - 1) : \E x \in rows : c(x) = n
  BY NumbersFromNewest
<1>3. s = [n \in 1..L |-> CHOOSE x \in rows : c(x) = n - 1]
  BY DEF Newest
<1> HIDE DEF c, N, s
<1>4. \A n \in 1..L : s[n] \in rows /\ c(s[n]) = n - 1
  <2> SUFFICES ASSUME NEW n \in 1..L PROVE s[n] \in rows /\ c(s[n]) = n - 1
    OBVIOUS
  <2>1. n - 1 \in 0..(N - 1)
    BY <1>1
  <2>2. \E x \in rows : c(x) = n - 1
    BY <1>2, <2>1
  <2>3. s[n] = CHOOSE x \in rows : c(x) = n - 1
    BY <1>3
  <2> QED
    BY <2>2, <2>3
<1>5. s \in Seq(rows) /\ Len(s) = L /\ DOMAIN s = 1..L
  <2>1. s \in [1..L -> rows]
    BY <1>3, <1>4
  <2> HIDE DEF L
  <2> QED
    BY <1>1, <2>1
<1> HIDE DEF L
<1>6. s \in Seq(LogRow)
  BY <1>5
<1>7. ToSet(s) = {s[n] : n \in 1..L}
  BY <1>5 DEF ToSet
<1>8. ToSet(s) \subseteq rows
  BY <1>4, <1>7
<1>9. \A m, n \in DOMAIN s : m < n => Later(s[m], s[n])
  BY <1>1, <1>2, <1>4, <1>5
<1>10. ASSUME NEW x \in rows \ ToSet(s) PROVE Len(s) = limit /\ \A y \in ToSet(s) : Later(y, x)
  <2>1. c(x) \in 0..(N - 1)
    BY <1>2
  <2>2. ~(c(x) < L)
    <3>1. SUFFICES ASSUME c(x) < L PROVE FALSE
      OBVIOUS
    <3>2. c(x) + 1 \in 1..L
      BY <1>1, <2>1, <3>1
    <3>3. s[c(x) + 1] \in rows /\ c(s[c(x) + 1]) = c(x)
      BY <1>1, <1>4, <2>1, <3>2
    <3>4. s[c(x) + 1] = x
      BY <1>2, <3>3
    <3> QED
      BY <1>7, <1>10, <3>2, <3>4
  <2>3. L < N
    BY <1>1, <2>1, <2>2
  <2>4. L = limit
    BY <1>1, <2>3 DEF L
  <2>5. ASSUME NEW y \in ToSet(s) PROVE Later(y, x)
    <3>1. PICK n \in 1..L : y = s[n]
      BY <1>7
    <3>2. y \in rows /\ c(y) = n - 1
      BY <1>4, <3>1
    <3>3. c(y) < c(x)
      BY <1>1, <2>1, <2>2, <3>2
    <3> QED
      BY <1>2, <3>2, <3>3
  <2> QED
    BY <1>5, <2>4, <2>5
<1>11. IsFiniteSet(ToSet(s)) /\ Cardinality(ToSet(s)) = Len(s)
  <2>1. \A m, n \in 1..L : s[m] = s[n] => m = n
    BY <1>1, <1>4
  <2>2. s \in [1..L -> ToSet(s)]
    BY <1>3, <1>7
  <2>3. s \in Bijection(1..L, ToSet(s))
    BY <1>7, <2>1, <2>2 DEF Bijection, Injection, IsInjective, Surjection
  <2>4. IsFiniteSet(1..L) /\ Cardinality(1..L) = L
    BY <1>1, FS_Interval
  <2>5. ExistsBijection(1..L, ToSet(s))
    BY <2>3 DEF ExistsBijection
  <2> QED
    BY <1>5, <2>4, <2>5, FS_Bijection
<1>12. N <= limit => ToSet(s) = rows
  <2>1. SUFFICES ASSUME N <= limit, NEW x \in rows, x \notin ToSet(s) PROVE FALSE
    BY <1>8
  <2>2. L = N
    BY <1>1, <2>1 DEF L
  <2>3. c(x) + 1 \in 1..L
    BY <1>1, <1>2, <2>2
  <2>4. s[c(x) + 1] \in rows /\ c(s[c(x) + 1]) = c(x)
    BY <1>2, <1>4, <2>3
  <2>5. s[c(x) + 1] = x
    BY <1>2, <2>4
  <2> QED
    BY <1>7, <2>1, <2>3, <2>5
<1> QED
  BY <1>1, <1>5, <1>6, <1>8, <1>9, <1>10, <1>11, <1>12 DEF N, s

\* Nothing recorded, nothing read.
LEMMA TelemetryStarts == TmInit => TmInv
<1> SUFFICES ASSUME TmInit PROVE TmInv
  OBVIOUS
<1>1. RowsAreStamped
  BY TelemetryAssumption, FS_EmptySet DEF TmInit, RowsAreStamped, Running, Keyed
<1>2. ReaderIsTyped
  <2>1. MaxClock + 1 \in Nat /\ MaxClock \in Nat
    BY TelemetryAssumption
  <2>2. NoCursor \in [at : Nat, id : Nat]
    BY <2>1 DEF NoCursor
  <2>3. << >> \in Seq(LogRow)
    OBVIOUS
  <2>4. 0 \in Nat /\ 1 \in Nat \ {0} /\ {} \in SUBSET LogRow /\ AnyLevel \in Levels
    BY DEF Levels, AnyLevel
  <2> QED
    BY <2>2, <2>3, <2>4 DEF TmInit, ReaderIsTyped, ReaderRecord
<1>3. SeenIsKept /\ ItemsAreOrdered /\ PagesSoFar /\ FoundIsNewest
  BY DEF TmInit, SeenIsKept, ItemsAreOrdered, PagesSoFar, FoundIsNewest
<1> QED
  BY <1>1, <1>2, <1>3 DEF TmInv, PageInv

\* Pruning with a stamp that has passed takes only what has expired.
LEMMA PrunedIs ==
    ASSUME RowsAreStamped, NEW at \in Nat, at <= clock
    PROVE  /\ Pruned(table, at) \subseteq table /\ IsFiniteSet(Pruned(table, at))
           /\ \A x \in table \ Pruned(table, at) : Until(x) <= clock
<1>1. Pruned(table, at) \subseteq table
  BY DEF Pruned
<1>2. IsFiniteSet(Pruned(table, at))
  BY <1>1, FS_Subset DEF RowsAreStamped
<1>3. ASSUME NEW x \in table \ Pruned(table, at) PROVE Until(x) <= clock
  <2>1. ~(Until(x) > at)
    BY DEF Pruned
  <2>2. Until(x) \in Nat /\ clock \in Nat
    BY TelemetryAssumption DEF Until, RowsAreStamped, LogRow
  <2> QED
    BY <2>1, <2>2
<1> QED
  BY <1>1, <1>2, <1>3

\* One row more, unless its id is taken.
LEMMA InsertedIs ==
    ASSUME NEW rows, IsFiniteSet(rows), rows \subseteq LogRow, Keyed(rows), NEW row \in LogRow
    PROVE  /\ rows \subseteq Inserted(rows, row) /\ Inserted(rows, row) \subseteq rows \cup {row}
           /\ IsFiniteSet(Inserted(rows, row)) /\ Keyed(Inserted(rows, row))
<1>1. IsFiniteSet(rows \cup {row})
  BY FS_AddElement
<1> QED
  BY <1>1 DEF Inserted, Keyed

\* What writes a row: pruning, and then one row that was stamped before.
LEMMA RecordKeeps ==
    ASSUME RowsAreStamped, NEW row \in LogRow, row.at <= clock,
           row.event = "request" => row.id \in EndedRequests,
           Records(row)
    PROVE  /\ IsFiniteSet(table') /\ table' \subseteq LogRow /\ Keyed(table')
           /\ \A x \in table' : x.at <= clock /\ (x.event = "request" => x.id \in EndedRequests)
           /\ \A x \in table : x \in table' \/ Until(x) <= clock
<1> DEFINE kept == Pruned(table, row.at)
<1>1. row.at \in Nat
  BY DEF LogRow
<1>2. /\ kept \subseteq table /\ IsFiniteSet(kept)
      /\ \A x \in table \ kept : Until(x) <= clock
  BY <1>1, PrunedIs
<1>3. kept \subseteq LogRow /\ Keyed(kept)
  BY <1>2 DEF RowsAreStamped, Keyed
<1>4. table' = Inserted(kept, row)
  BY DEF Records
<1> HIDE DEF kept
<1>5. /\ kept \subseteq table' /\ table' \subseteq kept \cup {row}
      /\ IsFiniteSet(table') /\ Keyed(table')
  BY <1>2, <1>3, <1>4, InsertedIs
<1> QED
  BY <1>2, <1>3, <1>5 DEF RowsAreStamped

\* While the reader waits, time passes and rows come; what it saw stays or expires.
LEMMA PagesKeep ==
    ASSUME TmInv, reader' = reader, clock' \in Nat, clock <= clock', ended \subseteq ended',
           \A x \in table : x \in table' \/ Until(x) <= clock'
    PROVE  PageInv'
<1>0. /\ reader.seen \subseteq LogRow /\ reader.to \in Nat /\ clock \in Nat
      /\ reader.to <= clock
  BY DEF TmInv, PageInv, ReaderIsTyped, ReaderRecord, RowsAreStamped
<1>1. \A x \in LogRow : Until(x) \in Nat
  BY TelemetryAssumption DEF Until, LogRow
<1>2. ReaderIsTyped'
  BY <1>0 DEF TmInv, PageInv, ReaderIsTyped, ReaderRecord
<1>3. SeenIsKept'
  BY <1>0, <1>1 DEF TmInv, PageInv, SeenIsKept
<1>4. ItemsAreOrdered'
  BY DEF TmInv, PageInv, ItemsAreOrdered
<1>5. \A x \in reader.seen : Due(x)' => Due(x)
  BY <1>0, <1>1 DEF Due
<1>6. PagesSoFar'
  BY <1>5 DEF TmInv, PageInv, PagesSoFar
<1>7. FoundIsNewest'
  <2>1. Asked(reader)' = Asked(reader)
    BY DEF Asked
  <2> QED
    BY <1>5, <2>1 DEF TmInv, PageInv, FoundIsNewest
<1> QED
  BY <1>2, <1>3, <1>4, <1>6, <1>7 DEF PageInv

\* A step of a writer, of a job or of the clock.
LEMMA WritersKeep ==
    ASSUME TmInv,
           \/ \E r \in EndedRequests : Ends(r) \/ RecordRequestTerminal(r) \/ RecordAgain(r) \/ WriteFails(r)
           \/ \E j \in EndedJobs : JobEnds(j)
           \/ RecordPerformanceTerminal \/ Passes
    PROVE  TmInv' /\ \A x \in table : x \in table' \/ Until(x) <= clock
<1> DEFINE Kept == \A x \in table : x \in table' \/ Until(x) <= clock
<1>0. RowsAreStamped /\ PageInv /\ clock \in Nat
  BY DEF TmInv, RowsAreStamped
<1>1. ASSUME NEW r \in EndedRequests, Ends(r) PROVE TmInv' /\ Kept
  <2>1. UNCHANGED <<clock, table, ended, reader>>
    BY <1>1 DEF Ends
  <2>2. PICK outcome \in {"succeeded", "failed"} :
          writer' = [writer EXCEPT ![r] = [at |-> "stamped", outcome |-> outcome, stamp |-> clock]]
    BY <1>1 DEF Ends
  <2>3. RowsAreStamped'
    BY <1>0, <2>1, <2>2 DEF RowsAreStamped
  <2>4. PageInv'
    BY <1>0, <2>1, PagesKeep
  <2> QED
    BY <2>1, <2>3, <2>4 DEF TmInv
<1>2. ASSUME NEW row \in LogRow, row.at <= clock, row.event = "request" => row.id \in EndedRequests,
             Records(row), UNCHANGED <<clock, ended, reader>>,
             \/ UNCHANGED writer
             \/ \E r \in EndedRequests : writer' = [writer EXCEPT ![r] = Lost]
      PROVE  TmInv' /\ Kept
  <2>1. /\ IsFiniteSet(table') /\ table' \subseteq LogRow /\ Keyed(table')
        /\ \A x \in table' : x.at <= clock /\ (x.event = "request" => x.id \in EndedRequests)
        /\ Kept
    BY <1>0, <1>2, RecordKeeps
  <2>2. RowsAreStamped'
    BY <1>0, <1>2, <2>1 DEF RowsAreStamped, Lost, Running
  <2>3. PageInv'
    BY <1>0, <1>2, <2>1, PagesKeep
  <2> QED
    BY <2>1, <2>2, <2>3 DEF TmInv
<1>3. ASSUME NEW r \in EndedRequests, RecordRequestTerminal(r) PROVE TmInv' /\ Kept
  <2> DEFINE row == Row(r, "request", writer[r].outcome, writer[r].stamp)
  <2>1. /\ writer[r] \in [at : {"running", "stamped", "gone"},
                          outcome : {"none", "succeeded", "failed"}, stamp : Nat]
        /\ writer[r].stamp <= clock /\ writer[r].outcome # "none"
    BY <1>0, <1>3 DEF RowsAreStamped, RecordRequestTerminal
  <2>2. row \in LogRow /\ row.at <= clock /\ row.id = r /\ row.event = "request"
    BY <2>1, TelemetryAssumption DEF Row, LogRow
  <2>3. /\ Records(row) /\ UNCHANGED <<clock, ended, reader>>
        /\ writer' = [writer EXCEPT ![r] = Lost]
    BY <1>3 DEF RecordRequestTerminal
  <2> HIDE DEF row
  <2> QED
    BY <1>2, <2>2, <2>3
<1>4. ASSUME NEW r \in EndedRequests, RecordAgain(r) PROVE TmInv' /\ Kept
  <2> DEFINE row == Row(r, "request", "interrupted", clock)
  <2>1. row \in LogRow /\ row.at <= clock /\ row.id = r /\ row.event = "request"
    BY <1>0, TelemetryAssumption DEF Row, LogRow
  <2>2. Records(row) /\ UNCHANGED <<clock, ended, reader, writer>>
    BY <1>4 DEF RecordAgain
  <2> HIDE DEF row
  <2> QED
    BY <1>2, <2>1, <2>2
<1>5. ASSUME NEW r \in EndedRequests, WriteFails(r) PROVE TmInv' /\ Kept
  <2>1. UNCHANGED <<clock, table, ended, reader>> /\ writer' = [writer EXCEPT ![r] = Lost]
    BY <1>5 DEF WriteFails
  <2>2. RowsAreStamped'
    BY <1>0, <2>1 DEF RowsAreStamped, Lost, Running
  <2>3. PageInv'
    BY <1>0, <2>1, PagesKeep
  <2> QED
    BY <2>1, <2>2, <2>3 DEF TmInv
<1>6. ASSUME NEW j \in EndedJobs, JobEnds(j) PROVE TmInv' /\ Kept
  <2> DEFINE row == Row(j, "job", IF j \in Failing THEN "failed" ELSE "interrupted", clock)
  <2>1. /\ \A x \in ended : x.id # j
        /\ ended' = ended \cup {row} /\ UNCHANGED <<clock, table, writer, reader>>
    BY <1>6 DEF JobEnds
  <2>2. row \in LogRow /\ row.at = clock /\ row.id = j
    BY <1>0, TelemetryAssumption DEF Row, LogRow
  <2> HIDE DEF row
  <2>3. IsFiniteSet(ended')
    BY <1>0, <2>1, FS_AddElement DEF RowsAreStamped
  <2>4. Keyed(ended')
    BY <1>0, <2>1, <2>2 DEF RowsAreStamped, Keyed
  <2>5. RowsAreStamped'
    BY <1>0, <2>1, <2>2, <2>3, <2>4 DEF RowsAreStamped
  <2>6. PageInv'
    BY <1>0, <2>1, PagesKeep
  <2> QED
    BY <2>1, <2>5, <2>6 DEF TmInv
<1>7. ASSUME RecordPerformanceTerminal PROVE TmInv' /\ Kept
  <2> DEFINE kept == Pruned(table, clock)
             row == Row(PerformanceId, "performance", "succeeded", clock)
  <2>1. /\ \A x \in table : x.id # PerformanceId
        /\ table' = kept \cup {row} /\ UNCHANGED <<clock, ended, writer, reader>>
    BY <1>7 DEF RecordPerformanceTerminal
  <2>2. row \in LogRow /\ row.at = clock /\ row.id = PerformanceId /\ row.event = "performance"
    BY <1>0, TelemetryAssumption DEF Row, LogRow
  <2>3. /\ kept \subseteq table /\ IsFiniteSet(kept)
        /\ \A x \in table \ kept : Until(x) <= clock
    BY <1>0, PrunedIs
  <2> HIDE DEF row, kept
  <2>4. IsFiniteSet(table') /\ Keyed(table')
    BY <1>0, <2>1, <2>2, <2>3, FS_AddElement DEF RowsAreStamped, Keyed
  <2>5. RowsAreStamped'
    BY <1>0, <2>1, <2>2, <2>3, <2>4 DEF RowsAreStamped
  <2>6. Kept
    BY <2>1, <2>3
  <2>7. PageInv'
    BY <1>0, <2>1, <2>6, PagesKeep
  <2> QED
    BY <2>5, <2>6, <2>7 DEF TmInv
<1>8. ASSUME Passes PROVE TmInv' /\ Kept
  <2>1. /\ clock' = clock + 1 /\ clock < MaxClock /\ UNCHANGED <<table, ended, writer, reader>>
    BY <1>8 DEF Passes
  <2>2. RowsAreStamped'
    <3>1. \A x \in table \cup ended : x.at \in Nat
      BY <1>0 DEF RowsAreStamped, LogRow
    <3>2. \A r \in EndedRequests : writer[r].stamp \in Nat
      BY <1>0 DEF RowsAreStamped
    <3> QED
      BY <1>0, <2>1, <3>1, <3>2, TelemetryAssumption DEF RowsAreStamped
  <2>3. PageInv'
    BY <1>0, <2>1, PagesKeep
  <2> QED
    BY <2>1, <2>2, <2>3 DEF TmInv
<1> QED
  BY <1>1, <1>3, <1>4, <1>5, <1>6, <1>7, <1>8

\* The first page is asked for.
LEMMA AskLogsKeeps == ASSUME TmInv, AskLogs PROVE PageInv'
<1>1. /\ reader.at = "idle" /\ reader.cursor = NoCursor
      /\ UNCHANGED <<clock, table, ended, writer>>
  BY DEF AskLogs
<1>2. PICK level \in Levels, limit \in Limits :
        LET window(rows) == OfLevel(InWindow(rows, From(clock, LogWindow), clock), level)
            shown == window({x \in table : x.event = "request"}) \cup window(ended)
        IN  reader' = [reader EXCEPT !.at = "requests", !.level = level, !.limit = limit, !.to = clock, !.seen = shown]
  BY DEF AskLogs
<1> DEFINE window(rows) == OfLevel(InWindow(rows, From(clock, LogWindow), clock), level)
           saw == window({x \in table : x.event = "request"}) \cup window(ended)
<1>3. reader' = [reader EXCEPT !.at = "requests", !.level = level, !.limit = limit, !.to = clock, !.seen = saw]
  BY <1>2
<1>4. \A x \in saw : /\ x \in LogRow /\ x.at < clock /\ OfLevel({x}, level) = {x}
                     /\ x \in ended \/ (x.event = "request" /\ x \in table)
  BY DEF OfLevel, InWindow, TmInv, RowsAreStamped
<1> HIDE DEF saw
<1>5. limit \in Nat \ {0} /\ clock \in Nat /\ clock <= MaxClock /\ MaxClock \in Nat
  BY TelemetryAssumption DEF TmInv, RowsAreStamped
<1>6. saw \in SUBSET LogRow
  BY <1>4
<1>7. /\ reader'.at = "requests" /\ reader'.level = level /\ reader'.to = clock
      /\ reader'.seen = saw /\ reader'.items = reader.items /\ reader'.cursor = NoCursor
  BY <1>1, <1>3 DEF TmInv, PageInv, ReaderIsTyped, ReaderRecord
<1>8. ReaderIsTyped'
  <2>1. reader \in ReaderRecord
    BY DEF TmInv, PageInv, ReaderIsTyped
  <2>2. reader' \in ReaderRecord
    BY <1>3, <1>5, <1>6, <2>1 DEF ReaderRecord
  <2> QED
    BY <1>1, <1>5, <1>7, <2>2 DEF ReaderIsTyped
<1>9. SeenIsKept'
  BY <1>1, <1>4, <1>7 DEF SeenIsKept
<1>10. ItemsAreOrdered'
  BY <1>1, <1>7 DEF TmInv, PageInv, ItemsAreOrdered
<1>11. PagesSoFar'
  <2>1. \A x \in saw : Later(NoCursor, x)
    <3>1. NoCursor.at = MaxClock + 1
      BY DEF NoCursor
    <3>2. \A x \in saw : x.at \in Nat /\ x.at < clock
      BY <1>4 DEF LogRow
    <3> QED
      BY <1>5, <3>1, <3>2 DEF Later
  <2> QED
    BY <1>7, <2>1 DEF PagesSoFar
<1>12. FoundIsNewest'
  BY <1>7 DEF FoundIsNewest
<1> QED
  BY <1>8, <1>9, <1>10, <1>11, <1>12 DEF PageInv

\* The next page is asked for, in a window that has moved on.
LEMMA AskNextKeeps == ASSUME TmInv, AskNext PROVE PageInv'
<1>1. /\ reader.at = "idle" /\ reader' = [reader EXCEPT !.at = "requests", !.to = clock]
      /\ UNCHANGED <<clock, table, ended, writer>>
  BY DEF AskNext
<1>2. /\ clock \in Nat /\ reader.to \in Nat /\ reader.to <= clock /\ LogWindow \in Nat
      /\ reader.seen \subseteq LogRow
  BY TelemetryAssumption DEF TmInv, RowsAreStamped, PageInv, ReaderIsTyped, ReaderRecord
<1>3. /\ reader'.at = "requests" /\ reader'.to = clock /\ reader'.level = reader.level
      /\ reader'.seen = reader.seen /\ reader'.items = reader.items /\ reader'.cursor = reader.cursor
  BY <1>1 DEF TmInv, PageInv, ReaderIsTyped, ReaderRecord
<1>4. ReaderIsTyped'
  <2>1. reader \in ReaderRecord
    BY DEF TmInv, PageInv, ReaderIsTyped
  <2>2. reader' \in ReaderRecord
    BY <1>1, <1>2, <2>1 DEF ReaderRecord
  <2> QED
    BY <1>1, <1>2, <1>3, <2>2 DEF ReaderIsTyped
<1>5. SeenIsKept'
  <2>1. \A x \in LogRow : x.at < reader.to => x.at < clock
    BY <1>2 DEF LogRow
  <2> QED
    BY <1>1, <1>2, <1>3, <2>1 DEF TmInv, PageInv, SeenIsKept
<1>6. ItemsAreOrdered'
  BY <1>1, <1>3 DEF TmInv, PageInv, ItemsAreOrdered
<1>7. PagesSoFar'
  <2>1. From(reader.to, LogWindow) \in Nat /\ From(reader.to, LogWindow) <= From(clock, LogWindow)
        /\ From(clock, LogWindow) \in Nat
    BY <1>2 DEF From
  <2>2. \A x \in LogRow : x.at >= From(clock, LogWindow) => x.at >= From(reader.to, LogWindow)
    BY <2>1 DEF LogRow
  <2>3. \A x \in reader.seen : Due(x)' => Due(x)
    BY <1>1, <1>2, <1>3, <2>2 DEF Due
  <2> QED
    BY <1>1, <1>3, <2>3 DEF TmInv, PageInv, PagesSoFar
<1>8. FoundIsNewest'
  BY <1>3 DEF FoundIsNewest
<1> QED
  BY <1>4, <1>5, <1>6, <1>7, <1>8 DEF PageInv

\* The requests of a page are read, in a transaction that prunes first.
LEMMA RequestsKeep ==
    ASSUME TmInv, RequestLogCandidates
    PROVE  TmInv' /\ \A x \in table : x \in table' \/ Until(x) <= clock
<1> DEFINE fit == OfLevel(TerminalRows(table', From(reader.to, LogWindow), reader.to), reader.level)
           rows == After(fit, reader.cursor)
           found == Newest(rows, Asked(reader))
<1>1. /\ reader.at = "requests" /\ table' = Pruned(table, reader.to)
      /\ reader' = [reader EXCEPT !.at = "jobs", !.found = found]
      /\ UNCHANGED <<clock, ended, writer>>
  BY DEF RequestLogCandidates
<1>2. /\ clock \in Nat /\ reader.to \in Nat /\ reader.to <= clock
      /\ reader.limit \in Nat \ {0} /\ Asked(reader) \in Nat
  BY DEF TmInv, RowsAreStamped, PageInv, ReaderIsTyped, ReaderRecord, Asked
<1>3. /\ table' \subseteq table /\ IsFiniteSet(table')
      /\ \A x \in table \ table' : Until(x) <= clock
  BY <1>1, <1>2, PrunedIs DEF TmInv
<1>4. RowsAreStamped'
  BY <1>1, <1>3 DEF TmInv, RowsAreStamped, Keyed
<1>5. /\ rows \subseteq table' /\ rows \subseteq LogRow /\ Keyed(rows)
      /\ \A x \in rows : x.event = "request" /\ Later(reader.cursor, x)
  BY <1>3 DEF After, OfLevel, TerminalRows, InWindow, TmInv, RowsAreStamped, Keyed
<1>6. IsFiniteSet(rows)
  BY <1>3, <1>5, FS_Subset
<1>7. ASSUME NEW x \in reader.seen \ ended, Due(x), Later(reader.cursor, x) PROVE x \in rows
  <2>1. /\ x \in LogRow /\ x.at < reader.to /\ OfLevel({x}, reader.level) = {x}
        /\ x.event = "request" /\ (x \in table \/ Until(x) <= clock)
    BY <1>7 DEF TmInv, PageInv, ReaderIsTyped, ReaderRecord, SeenIsKept
  <2>2. Until(x) \in Nat /\ Until(x) > clock /\ x.at >= From(reader.to, LogWindow)
    BY <1>7, <2>1, TelemetryAssumption DEF Due, Until, LogRow
  <2>3. x \in table'
    BY <1>2, <1>3, <2>1, <2>2
  <2>4. Until(x) > reader.to
    BY <1>2, <2>2
  <2> QED
    BY <1>7, <2>1, <2>2, <2>3, <2>4 DEF After, OfLevel, TerminalRows, InWindow
<1> HIDE DEF rows
<1>8. /\ found \in Seq(LogRow) /\ ToSet(found) \subseteq rows
      /\ IsFiniteSet(ToSet(found)) /\ Cardinality(ToSet(found)) = Len(found)
      /\ \A x \in rows \ ToSet(found) : Len(found) = Asked(reader) /\ \A y \in ToSet(found) : Later(y, x)
  BY <1>2, <1>5, <1>6, NewestIs
<1> HIDE DEF found
<1>9. /\ reader'.at = "jobs" /\ reader'.to = reader.to /\ reader'.level = reader.level
      /\ reader'.limit = reader.limit /\ reader'.found = found
      /\ reader'.seen = reader.seen /\ reader'.items = reader.items /\ reader'.cursor = reader.cursor
  BY <1>1 DEF TmInv, PageInv, ReaderIsTyped, ReaderRecord
<1>10. ReaderIsTyped'
  BY <1>1, <1>8 DEF TmInv, PageInv, ReaderIsTyped, ReaderRecord
<1>11. SeenIsKept'
  BY <1>1, <1>3, <1>9 DEF TmInv, PageInv, SeenIsKept
<1>12. ItemsAreOrdered'
  BY <1>1, <1>9 DEF TmInv, PageInv, ItemsAreOrdered
<1>13. \A x : Due(x)' = Due(x)
  BY <1>1, <1>9 DEF Due
<1>14. PagesSoFar'
  BY <1>1, <1>9, <1>13 DEF TmInv, PageInv, PagesSoFar
<1>15. FoundIsNewest'
  <2>1. Keyed(ToSet(found))
    BY <1>5, <1>8 DEF Keyed
  <2>2. \A x \in ToSet(found) : x.id \in EndedRequests /\ Later(reader.cursor, x)
    BY <1>3, <1>5, <1>8 DEF TmInv, RowsAreStamped
  <2>3. Asked(reader)' = Asked(reader)
    BY <1>9 DEF Asked
  <2>4. \A x \in reader.seen \ ended : Due(x) /\ Later(reader.cursor, x) =>
          x \in ToSet(found) \/ (Len(found) = Asked(reader) /\ \A y \in ToSet(found) : Later(y, x))
    BY <1>7, <1>8
  <2> QED
    BY <1>1, <1>8, <1>9, <1>13, <2>1, <2>2, <2>3, <2>4 DEF FoundIsNewest
<1> QED
  BY <1>3, <1>4, <1>10, <1>11, <1>12, <1>14, <1>15 DEF TmInv, PageInv

\* The jobs of a page are read, and the page is put together.
LEMMA JobsKeep == ASSUME TmInv, JobLogCandidates PROVE PageInv'
<1> DEFINE fit == OfLevel(InWindow(ended, From(reader.to, LogWindow), reader.to), reader.level)
           rows == After(fit, reader.cursor)
           jobs == Newest(rows, Asked(reader))
           combined == ToSet(reader.found) \cup ToSet(jobs)
           new == Newest(combined, reader.limit)
           more == Cardinality(combined) > reader.limit
           last == Last(new)
<1>1. /\ reader.at = "jobs"
      /\ reader' = [reader EXCEPT !.at = IF more THEN "idle" ELSE "done", !.found = << >>, !.items = @ \o new,
                      !.cursor = IF more THEN [at |-> last.at, id |-> last.id] ELSE NoCursor]
      /\ UNCHANGED <<clock, table, ended, writer>>
  BY DEF JobLogCandidates
<1>2. /\ reader \in ReaderRecord /\ reader.limit \in Nat \ {0} /\ reader.limit \in Nat
      /\ Asked(reader) = reader.limit + 1 /\ Asked(reader) \in Nat
      /\ reader.items \in Seq(LogRow) /\ reader.found \in Seq(LogRow) /\ reader.cursor \in [at : Nat, id : Nat]
      /\ reader.to <= clock
  BY DEF TmInv, PageInv, ReaderIsTyped, ReaderRecord, Asked
<1>3. /\ rows \subseteq ended /\ rows \subseteq LogRow /\ Keyed(rows)
      /\ \A x \in rows : x.id \in EndedJobs /\ Later(reader.cursor, x)
  BY DEF After, OfLevel, InWindow, TmInv, RowsAreStamped, Keyed
<1>4. IsFiniteSet(rows)
  BY <1>3, FS_Subset DEF TmInv, RowsAreStamped
<1>5. ASSUME NEW x \in reader.seen, x \in ended, Due(x), Later(reader.cursor, x) PROVE x \in rows
  <2>1. x.at < reader.to /\ OfLevel({x}, reader.level) = {x}
    BY DEF TmInv, PageInv, SeenIsKept
  <2> QED
    BY <1>5, <2>1 DEF Due, After, OfLevel, InWindow
<1> HIDE DEF rows
<1>6. /\ jobs \in Seq(LogRow) /\ ToSet(jobs) \subseteq rows
      /\ IsFiniteSet(ToSet(jobs)) /\ Cardinality(ToSet(jobs)) = Len(jobs)
      /\ \A x \in rows \ ToSet(jobs) : Len(jobs) = Asked(reader) /\ \A y \in ToSet(jobs) : Later(y, x)
  BY <1>2, <1>3, <1>4, NewestIs
<1> HIDE DEF jobs
<1>7. /\ IsFiniteSet(ToSet(reader.found)) /\ Keyed(ToSet(reader.found))
      /\ Cardinality(ToSet(reader.found)) = Len(reader.found)
      /\ \A x \in ToSet(reader.found) : x.id \in EndedRequests /\ Later(reader.cursor, x)
      /\ \A x \in reader.seen \ ended : Due(x) /\ Later(reader.cursor, x) =>
           x \in ToSet(reader.found)
             \/ (Len(reader.found) = Asked(reader) /\ \A y \in ToSet(reader.found) : Later(y, x))
  BY <1>1 DEF TmInv, PageInv, FoundIsNewest
<1>8. /\ IsFiniteSet(combined) /\ combined \subseteq LogRow /\ Keyed(combined)
      /\ \A x \in combined : Later(reader.cursor, x)
  <2>1. IsFiniteSet(combined)
    BY <1>6, <1>7, FS_Union
  <2>2. ToSet(reader.found) \subseteq LogRow
    BY <1>2 DEF ToSet
  <2>3. Keyed(combined)
    BY <1>3, <1>6, <1>7, TelemetryAssumption DEF Keyed
  <2> QED
    BY <1>3, <1>6, <1>7, <2>1, <2>2, <2>3
\* What the client saw and is due is on this page or before it, or is older than more rows than a page has.
<1>9. ASSUME NEW x \in reader.seen, Due(x), Later(reader.cursor, x), x \notin combined
      PROVE  \E F \in SUBSET combined : Cardinality(F) = reader.limit + 1 /\ \A y \in F : Later(y, x)
  <2>1. CASE x \in ended
    <3>1. Len(jobs) = Asked(reader) /\ \A y \in ToSet(jobs) : Later(y, x)
      BY <1>5, <1>6, <1>9, <2>1
    <3> QED
      BY <1>2, <1>6, <3>1
  <2>2. CASE x \notin ended
    BY <1>2, <1>7, <1>9, <2>2
  <2> QED
    BY <2>1, <2>2
<1> HIDE DEF combined
<1>10. /\ new \in Seq(LogRow) /\ ToSet(new) \subseteq combined
       /\ IsFiniteSet(ToSet(new)) /\ Cardinality(ToSet(new)) = Len(new)
       /\ Cardinality(combined) <= reader.limit => ToSet(new) = combined
       /\ more => Len(new) = reader.limit
       /\ \A m, n \in DOMAIN new : m < n => Later(new[m], new[n])
       /\ \A x \in combined \ ToSet(new) : \A y \in ToSet(new) : Later(y, x)
  BY <1>2, <1>8, NewestIs
<1> HIDE DEF new
<1>11. Cardinality(combined) \in Nat /\ Len(new) \in Nat
  BY <1>8, <1>10, FS_CardinalityType
<1>12. /\ reader'.at = (IF more THEN "idle" ELSE "done") /\ reader'.to = reader.to
       /\ reader'.level = reader.level /\ reader'.limit = reader.limit /\ reader'.seen = reader.seen
       /\ reader'.items = reader.items \o new
       /\ reader'.cursor = (IF more THEN [at |-> last.at, id |-> last.id] ELSE NoCursor)
  BY <1>1, <1>2 DEF ReaderRecord
<1>13. /\ reader.items \o new \in Seq(LogRow)
       /\ Len(reader.items \o new) = Len(reader.items) + Len(new)
       /\ DOMAIN (reader.items \o new) = 1..(Len(reader.items) + Len(new))
       /\ \A n \in DOMAIN reader.items : (reader.items \o new)[n] = reader.items[n]
       /\ \A n \in DOMAIN new : (reader.items \o new)[Len(reader.items) + n] = new[n]
  BY <1>2, <1>10
<1>14. /\ \A n \in DOMAIN new : new[n] \in ToSet(new) /\ new[n] \in combined /\ new[n] \in LogRow
       /\ \A n \in DOMAIN reader.items : reader.items[n] \in ToSet(reader.items) /\ reader.items[n] \in LogRow
       /\ ToSet(reader.items \o new) = ToSet(reader.items) \cup ToSet(new)
  <2>1. \A n \in DOMAIN new : new[n] \in ToSet(new)
    BY DEF ToSet
  <2>2. \A n \in DOMAIN reader.items : reader.items[n] \in ToSet(reader.items)
    BY DEF ToSet
  <2>3. ToSet(reader.items) \cup ToSet(new) \subseteq ToSet(reader.items \o new)
    <3>1. \A n \in DOMAIN reader.items : n \in DOMAIN (reader.items \o new)
      BY <1>2, <1>10, <1>13
    <3>2. \A n \in DOMAIN new : Len(reader.items) + n \in DOMAIN (reader.items \o new)
      BY <1>2, <1>10, <1>13
    <3>3. ToSet(reader.items) \subseteq ToSet(reader.items \o new)
      BY <1>13, <3>1 DEF ToSet
    <3>4. ToSet(new) \subseteq ToSet(reader.items \o new)
      BY <1>13, <3>2 DEF ToSet
    <3> QED
      BY <3>3, <3>4
  <2>4. ToSet(reader.items \o new) \subseteq ToSet(reader.items) \cup ToSet(new)
    <3>1. SUFFICES ASSUME NEW n \in 1..(Len(reader.items) + Len(new))
                   PROVE  (reader.items \o new)[n] \in ToSet(reader.items) \cup ToSet(new)
      BY <1>13 DEF ToSet
    <3>2. CASE n \in DOMAIN reader.items
      BY <1>13, <2>2, <3>2
    <3>3. CASE n \notin DOMAIN reader.items
      <4>1. n - Len(reader.items) \in DOMAIN new /\ n = Len(reader.items) + (n - Len(reader.items))
        BY <1>2, <1>10, <3>3
      <4> QED
        BY <1>13, <2>1, <4>1
    <3> QED
      BY <3>2, <3>3
  <2> QED
    BY <1>2, <1>8, <1>10, <2>1, <2>2, <2>3, <2>4
<1>15. more => /\ last = new[reader.limit] /\ reader.limit \in DOMAIN new
               /\ last \in ToSet(new) /\ last \in combined /\ last \in LogRow
  BY <1>2, <1>10, <1>14 DEF Last
<1> HIDE DEF last
<1>16. ReaderIsTyped'
  <2>1. NoCursor \in [at : Nat, id : Nat]
    <3>1. MaxClock + 1 \in Nat
      BY TelemetryAssumption
    <3> QED
      BY <3>1 DEF NoCursor
  <2>2. (IF more THEN [at |-> last.at, id |-> last.id] ELSE NoCursor) \in [at : Nat, id : Nat]
    BY <1>15, <2>1 DEF LogRow
  <2>3. reader' \in ReaderRecord
    <3>1. << >> \in Seq(LogRow) /\ (IF more THEN "idle" ELSE "done") \in {"idle", "requests", "jobs", "done"}
      OBVIOUS
    <3> DEFINE cursor == IF more THEN [at |-> last.at, id |-> last.id] ELSE NoCursor
               at == IF more THEN "idle" ELSE "done"
               items == reader.items \o new
    <3>2. reader' = [reader EXCEPT !.at = at, !.found = << >>, !.items = items, !.cursor = cursor]
      BY <1>1
    <3>3. items \in Seq(LogRow) /\ cursor \in [at : Nat, id : Nat] /\ at \in {"idle", "requests", "jobs", "done"}
      BY <1>13, <2>2, <3>1
    <3> HIDE DEF cursor, at, items
    <3> QED
      BY <1>2, <3>1, <3>2, <3>3 DEF ReaderRecord
  <2> QED
    BY <1>1, <1>2, <1>12, <2>3 DEF ReaderIsTyped
<1>17. SeenIsKept'
  BY <1>1, <1>12 DEF TmInv, PageInv, SeenIsKept
<1>18. \A m \in DOMAIN reader.items : ~Later(reader.cursor, reader.items[m])
  BY <1>1 DEF TmInv, PageInv, ItemsAreOrdered
<1>19. ASSUME NEW x \in LogRow, NEW y \in LogRow, ~Later(reader.cursor, x), Later(reader.cursor, y)
       PROVE  Later(x, y)
  <2>1. {x.at, x.id, reader.cursor.at, reader.cursor.id, y.at, y.id} \subseteq Nat
    BY <1>2 DEF LogRow
  <2> QED
    BY <1>19, <2>1, LaterIsOrder
<1>20. ASSUME NEW x \in LogRow, NEW y \in LogRow, NEW z \in LogRow
       PROVE  /\ ~Later(x, x) /\ (Later(x, y) => ~Later(y, x))
              /\ (Later(x, y) /\ Later(y, z) => Later(x, z))
  <2>1. {x.at, x.id, y.at, y.id, z.at, z.id} \subseteq Nat
    BY DEF LogRow
  <2> QED
    BY <2>1, LaterIsOrder
<1>21. more => \A x : Later(reader'.cursor, x) <=> Later(last, x)
  BY <1>12 DEF Later
<1>22. more => \A x \in combined \ ToSet(new) : Later(last, x)
  BY <1>10, <1>15
<1>23. ItemsAreOrdered'
  <2> DEFINE all == reader.items \o new
             k == Len(reader.items)
  <2>1. ASSUME NEW m \in DOMAIN all, NEW n \in DOMAIN all, m < n PROVE Later(all[m], all[n])
    <3>0. k \in Nat /\ DOMAIN reader.items = 1..k /\ DOMAIN new = 1..Len(new) /\ m \in 1..(k + Len(new)) /\ n \in 1..(k + Len(new))
      BY <1>2, <1>10, <1>13
    <3>1. CASE n \in DOMAIN reader.items
      <4>1. m \in DOMAIN reader.items
        BY <2>1, <3>0, <3>1
      <4>2. Later(reader.items[m], reader.items[n])
        BY <2>1, <3>1, <4>1 DEF TmInv, PageInv, ItemsAreOrdered
      <4> QED
        BY <1>13, <3>1, <4>1, <4>2
    <3>2. CASE n \notin DOMAIN reader.items
      <4>1. n - k \in DOMAIN new /\ all[n] = new[n - k]
        <5>1. n - k \in DOMAIN new /\ n = k + (n - k)
          BY <3>0, <3>2
        <5> QED
          BY <1>13, <5>1
      <4>2. CASE m \in DOMAIN reader.items
        <5>1. all[m] = reader.items[m] /\ reader.items[m] \in LogRow /\ new[n - k] \in LogRow
          BY <1>13, <1>14, <4>1, <4>2
        <5>2. ~Later(reader.cursor, reader.items[m]) /\ Later(reader.cursor, new[n - k])
          BY <1>8, <1>14, <1>18, <4>1, <4>2
        <5> QED
          BY <1>19, <4>1, <5>1, <5>2
      <4>3. CASE m \notin DOMAIN reader.items
        <5>1. m - k \in DOMAIN new /\ m = k + (m - k) /\ m - k < n - k
          BY <2>1, <3>0, <4>3
        <5>2. all[m] = new[m - k]
          BY <1>13, <5>1
        <5> QED
          BY <1>10, <4>1, <5>1, <5>2
      <4> QED
        BY <4>2, <4>3
    <3> QED
      BY <3>1, <3>2
  <2>2. ASSUME more, NEW m \in DOMAIN all PROVE ~Later(last, all[m])
    <3>0. k \in Nat /\ DOMAIN reader.items = 1..k /\ DOMAIN new = 1..Len(new) /\ m \in 1..(k + Len(new))
          /\ last \in LogRow /\ Later(reader.cursor, last)
      BY <1>2, <1>8, <1>10, <1>13, <1>15, <2>2
    <3>1. CASE m \in DOMAIN reader.items
      <4>1. all[m] = reader.items[m] /\ reader.items[m] \in LogRow /\ ~Later(reader.cursor, reader.items[m])
        BY <1>13, <1>14, <1>18, <3>1
      <4>2. Later(reader.items[m], last)
        BY <1>19, <3>0, <4>1
      <4> QED
        BY <1>20, <3>0, <4>1, <4>2
    <3>2. CASE m \notin DOMAIN reader.items
      <4>1. m - k \in DOMAIN new /\ m = k + (m - k)
        BY <3>0, <3>2
      <4>2. all[m] = new[m - k] /\ new[m - k] \in LogRow
        BY <1>13, <1>14, <4>1
      <4>3. m - k = reader.limit \/ m - k < reader.limit
        BY <1>2, <1>10, <2>2, <3>0, <4>1
      <4>4. new[m - k] = last \/ Later(new[m - k], last)
        BY <1>10, <1>15, <2>2, <4>1, <4>3
      <4> QED
        BY <1>20, <3>0, <4>2, <4>4
    <3> QED
      BY <3>1, <3>2
  <2>3. reader'.at # "done" => more
    BY <1>12
  <2> QED
    BY <1>12, <1>21, <2>1, <2>2, <2>3 DEF ItemsAreOrdered
<1>24. PagesSoFar'
  <2>1. ASSUME NEW x \in reader.seen, Due(x)
        PROVE  x \in ToSet(reader.items) \/ x \in ToSet(new) \/ (more /\ Later(last, x))
    <3>0. x \in LogRow
      BY <1>2 DEF ReaderRecord
    <3>1. x \in ToSet(reader.items) \/ Later(reader.cursor, x)
      BY <2>1 DEF TmInv, PageInv, PagesSoFar
    <3>2. CASE x \in combined \ ToSet(new)
      <4>1. more
        BY <1>2, <1>10, <1>11, <3>2
      <4> QED
        BY <1>22, <3>2, <4>1
    <3>3. CASE Later(reader.cursor, x) /\ x \notin combined
      <4>1. PICK F \in SUBSET combined : Cardinality(F) = reader.limit + 1 /\ \A y \in F : Later(y, x)
        BY <1>9, <2>1, <3>3
      <4>2. Cardinality(F) <= Cardinality(combined)
        BY <1>8, FS_Subset
      <4>3. more
        BY <1>2, <1>11, <4>1, <4>2
      <4>4. PICK y \in F : y \notin ToSet(new)
        <5>1. SUFFICES ASSUME F \in SUBSET ToSet(new) PROVE FALSE
          OBVIOUS
        <5>2. Cardinality(F) <= Cardinality(ToSet(new))
          BY <1>10, <5>1, FS_Subset
        <5> QED
          BY <1>2, <1>10, <4>1, <4>3, <5>2
      <4>5. Later(last, y) /\ Later(y, x) /\ y \in LogRow /\ last \in LogRow
        BY <1>8, <1>15, <1>22, <4>1, <4>3, <4>4
      <4>6. Later(last, x)
        BY <1>20, <3>0, <4>5
      <4> QED
        BY <4>3, <4>6
    <3> QED
      BY <3>1, <3>2, <3>3
  <2>2. \A x : Due(x)' = Due(x)
    BY <1>1, <1>12 DEF Due
  <2>3. more => reader'.at # "done"
    BY <1>12
  <2> QED
    BY <1>12, <1>14, <1>21, <2>1, <2>2, <2>3 DEF PagesSoFar
<1>25. FoundIsNewest'
  BY <1>12 DEF FoundIsNewest
<1> QED
  BY <1>16, <1>17, <1>23, <1>24, <1>25 DEF PageInv

\* Every step keeps what is recorded and read, and every row until it expires.
LEMMA TelemetryStep ==
    ASSUME TmInv, [TmNext]_tmVars
    PROVE  TmInv' /\ \A x \in table : x \in table' \/ Until(x) <= clock
<1>1. CASE UNCHANGED tmVars
  <2>1. RowsAreStamped'
    BY <1>1 DEF tmVars, TmInv, RowsAreStamped
  <2>2. PageInv'
    BY <1>1, PagesKeep DEF tmVars, TmInv, RowsAreStamped
  <2> QED
    BY <1>1, <2>1, <2>2 DEF tmVars, TmInv
<1>2. CASE AskLogs \/ AskNext \/ JobLogCandidates
  <2>1. UNCHANGED <<clock, table, ended, writer>>
    BY <1>2 DEF AskLogs, AskNext, JobLogCandidates
  <2>2. RowsAreStamped'
    BY <2>1 DEF TmInv, RowsAreStamped
  <2> QED
    BY <1>2, <2>1, <2>2, AskLogsKeeps, AskNextKeeps, JobsKeep DEF TmInv
<1>3. CASE RequestLogCandidates
  BY <1>3, RequestsKeep
<1>4. CASE \/ \E r \in EndedRequests : Ends(r) \/ RecordRequestTerminal(r) \/ RecordAgain(r) \/ WriteFails(r)
           \/ \E j \in EndedJobs : JobEnds(j)
           \/ RecordPerformanceTerminal \/ Passes
  BY <1>4, WritersKeep
<1> QED
  BY <1>1, <1>2, <1>3, <1>4 DEF TmNext

\* A client that follows the cursor to the end misses nothing that was there
\* when it began and is still in the window, and sees it newest first, however
\* late the rows are written, pruned or projected between its pages
\* (telemetry.py, logs).
THEOREM PagingSafety == TmSpec => []PagesAreComplete
<1>1. TmInv => PagesAreComplete
  <2> SUFFICES ASSUME TmInv PROVE PagesAreComplete
    OBVIOUS
  <2>1. \A m, n \in DOMAIN reader.items : m < n => Later(reader.items[m], reader.items[n])
    BY DEF TmInv, PageInv, ItemsAreOrdered
  <2>2. ASSUME reader.at = "done", NEW x \in reader.seen,
               x.at >= From(reader.to, LogWindow) /\ Until(x) > clock
        PROVE  x \in ToSet(reader.items)
    BY <2>2 DEF TmInv, PageInv, PagesSoFar, Due
  <2> QED
    BY <2>1, <2>2 DEF PagesAreComplete
<1>2. TmInv /\ [TmNext]_tmVars => TmInv'
  BY TelemetryStep
<1> QED
  BY TelemetryStarts, <1>1, <1>2, PTL DEF TmSpec

\* A terminal fact stays as it was recorded until its retention has passed,
\* whoever writes or prunes, and with whatever stamp
\* (telemetry.py, record_request_terminal, prune_expired).
THEOREM FactsFinality == TmSpec => FactsAreImmutable
<1>1. TmInv /\ [TmNext]_tmVars => TmInv'
  BY TelemetryStep
<1>2. TmInv /\ [TmNext]_tmVars => [\A x \in table : x \in table' \/ Until(x) <= clock]_tmVars
  BY TelemetryStep
<1> QED
  BY TelemetryStarts, <1>1, <1>2, PTL DEF TmSpec, FactsAreImmutable

(***************************************************************************)
(* The trace of a request or a worker cycle.                               *)
(***************************************************************************)
Phases == {"api.total", "worker.cycle", "agent.tool", "workspace.read"}
SpanRecord == [phase : Phases, start : Int, end : Int]
RootPhases == {"api.total", "worker.cycle"}
Deferred == [phase : {"workspace.read"}, start : Int, end : Int]
SectionRecord == [open : BOOLEAN, entries : Seq(Deferred), dropped : Nat]

\* A trace that may still be written: its groups are those of its spans and
\* of spans that made room for the root.
TraceOf(t, root) ==
    /\ t = [records |-> t.records, groups |-> t.groups, dropped |-> t.dropped]
    /\ t.records \in Seq(SpanRecord) /\ t.dropped \in Nat
    /\ t.groups \subseteq Phases
    /\ \A n \in 1..Len(t.records) : t.records[n].phase \in t.groups
    /\ Len(t.records) <= Limit
    /\ Cardinality(t.groups \ {root}) <= MaxGroups - 1

\* Where the root is: nowhere, or at one place.
Rootless(t) == t.groups \cap RootPhases = {}
Rooted(t, root) ==
    \E n \in 1..Len(t.records) : \A m \in 1..Len(t.records) : t.records[m].phase = root <=> m = n

AtInv ==
    /\ source \in Sources /\ instant \in Nat /\ observed \in Nat /\ late \in Nat
    /\ pending \in SectionRecord
    /\ trace \in {"open", "rooted", "closed"}
    /\ TraceOf(Current, RootOf[source])
    /\ trace = "open" => Rootless(Current)
    /\ trace # "open" => Rooted(Current, RootOf[source])
    /\ trace # "closed" \/ pending.open => late = 0
    /\ ~pending.open => pending = Outside
    /\ Len(records) + dropped + late + Len(pending.entries) + pending.dropped = observed

LEMMA RootOfIs ==
    /\ \A s \in Sources : RootOf[s] \in RootPhases /\ RootOf[s] \in Phases
    /\ {RootOf[s] : s \in Sources} = RootPhases
BY DEF Sources, RootOf, RootPhases, Phases

LEMMA GroupsAreFew ==
    ASSUME NEW g, g \subseteq Phases
    PROVE  IsFiniteSet(g)
<1>1. IsFiniteSet({}) /\ \A S, x : IsFiniteSet(S) => IsFiniteSet(S \cup {x})
  BY FS_EmptySet, FS_AddElement
<1>2. IsFiniteSet({"api.total"})
  BY FS_Singleton
<1>3. IsFiniteSet({"api.total"} \cup {"worker.cycle"})
  BY <1>1, <1>2
<1>4. IsFiniteSet(({"api.total"} \cup {"worker.cycle"}) \cup {"agent.tool"})
  BY <1>1, <1>3
<1>5. IsFiniteSet((({"api.total"} \cup {"worker.cycle"}) \cup {"agent.tool"}) \cup {"workspace.read"})
  BY <1>1, <1>4
<1>6. Phases = (({"api.total"} \cup {"worker.cycle"}) \cup {"agent.tool"}) \cup {"workspace.read"}
  BY DEF Phases
<1> QED
  BY <1>5, <1>6, FS_Subset

\* One more span: it is kept, or counted.
Counted(r, t) == Len(r.records) + r.dropped = Len(t.records) + t.dropped + 1

LEMMA DropsIs ==
    ASSUME NEW root \in RootPhases, NEW t, TraceOf(t, root), NEW d \in Nat
    PROVE  /\ TraceOf([t EXCEPT !.dropped = d], root)
           /\ [t EXCEPT !.dropped = d] = [records |-> t.records, groups |-> t.groups, dropped |-> d]
<1>1. [t EXCEPT !.dropped = d] = [records |-> t.records, groups |-> t.groups, dropped |-> d]
  BY DEF TraceOf
<1> QED
  BY <1>1 DEF TraceOf

LEMMA SpanIsCounted ==
    ASSUME NEW root \in RootPhases, NEW t, TraceOf(t, root), NEW x \in SpanRecord, x.phase \notin RootPhases
    PROVE  /\ TraceOf(Recorded(t, x), root) /\ Counted(Recorded(t, x), t)
           /\ Rootless(t) => Rootless(Recorded(t, x))
           /\ Rooted(t, root) => Rooted(Recorded(t, x), root)
<1>0. Limit \in Nat \ {0} /\ MaxGroups \in Nat \ {0} /\ t.records \in Seq(SpanRecord) /\ t.dropped \in Nat
  BY AttributionAssumption DEF TraceOf
<1> DEFINE full == Len(t.records) >= Limit \/ (x.phase \notin t.groups /\ Cardinality(t.groups) >= MaxGroups - 1)
<1>a. ~(x.phase \in {RootOf[s] : s \in Sources})
  BY RootOfIs
<1>b. Recorded(t, x) = IF full THEN [t EXCEPT !.dropped = t.dropped + 0 + 1]
                       ELSE [records |-> Append(t.records, x), groups |-> t.groups \cup {x.phase},
                             dropped |-> t.dropped + 0]
  BY <1>a DEF Recorded, GroupLimit
<1>c. t.dropped + 0 + 1 = t.dropped + 1 /\ t.dropped + 0 = t.dropped
  BY <1>0
<1>1. CASE full
  <2>1. Recorded(t, x) = [t EXCEPT !.dropped = t.dropped + 1]
    BY <1>b, <1>c, <1>1
  <2>2. t.dropped + 1 \in Nat
    BY <1>0
  <2>3. /\ TraceOf(Recorded(t, x), root)
        /\ Recorded(t, x) = [records |-> t.records, groups |-> t.groups, dropped |-> t.dropped + 1]
    BY <2>1, <2>2, DropsIs
  <2> QED
    BY <1>0, <2>3 DEF Counted, Rootless, Rooted
<1>2. CASE ~full
  <2> DEFINE s == Append(t.records, x)
             g == t.groups \cup {x.phase}
  <2>1. Recorded(t, x) = [records |-> s, groups |-> g, dropped |-> t.dropped]
    BY <1>b, <1>c, <1>2
  <2>2. /\ s \in Seq(SpanRecord) /\ Len(s) = Len(t.records) + 1 /\ Len(t.records) \in Nat
        /\ \A n \in 1..Len(s) : s[n] = IF n = Len(s) THEN x ELSE t.records[n]
    BY <1>0
  <2>3. Cardinality(g \ {root}) <= MaxGroups - 1
    <3>1. CASE x.phase \in t.groups
      <4>1. g = t.groups
        BY <3>1
      <4> QED
        BY <4>1 DEF TraceOf
    <3>2. CASE x.phase \notin t.groups
      <4>1. Cardinality(t.groups) < MaxGroups - 1 /\ IsFiniteSet(t.groups)
        <5>1. IsFiniteSet(t.groups)
          BY GroupsAreFew DEF TraceOf
        <5>2. Cardinality(t.groups) \in Nat
          BY <5>1, FS_CardinalityType
        <5> QED
          BY <1>0, <1>2, <3>2, <5>1, <5>2
      <4>2. IsFiniteSet(g) /\ Cardinality(g) = Cardinality(t.groups) + 1
        BY <3>2, <4>1, FS_AddElement
      <4>3. Cardinality(g \ {root}) <= Cardinality(g) /\ IsFiniteSet(g \ {root})
        BY <4>2, FS_Subset
      <4>4. Cardinality(t.groups) \in Nat /\ Cardinality(g \ {root}) \in Nat
        BY <4>1, <4>3, FS_CardinalityType
      <4> QED
        BY <1>0, <4>1, <4>2, <4>3, <4>4
    <3> QED
      BY <3>1, <3>2
  <2>4. g \subseteq Phases /\ \A n \in 1..Len(s) : s[n].phase \in g
    BY <2>2 DEF TraceOf, SpanRecord
  <2>5. Len(s) <= Limit
    BY <1>0, <1>2, <2>2
  <2>6. Rootless(t) => g \cap RootPhases = {}
    BY DEF Rootless
  <2>7. ASSUME Rooted(t, root)
        PROVE  \E n \in 1..Len(s) : \A m \in 1..Len(s) : s[m].phase = root <=> m = n
    <3>1. PICK n \in 1..Len(t.records) : \A m \in 1..Len(t.records) : t.records[m].phase = root <=> m = n
      BY <2>7 DEF Rooted
    <3>2. n \in 1..Len(s) /\ \A m \in 1..Len(s) : s[m].phase = root <=> m = n
      BY <2>2, <3>1
    <3> QED
      BY <3>2
  <2> HIDE DEF s, g
  <2> DEFINE r == Recorded(t, x)
  <2>8. r.records = s /\ r.groups = g /\ r.dropped = t.dropped
        /\ r = [records |-> r.records, groups |-> r.groups, dropped |-> r.dropped]
    BY <2>1
  <2> HIDE DEF r
  <2>9. TraceOf(r, root)
    BY <1>0, <2>2, <2>3, <2>4, <2>5, <2>8 DEF TraceOf
  <2>10. Counted(r, t)
    <3>1. Len(r.records) = Len(t.records) + 1 /\ r.dropped = t.dropped /\ Len(t.records) \in Nat
      BY <2>2, <2>8
    <3> QED
      BY <1>0, <3>1 DEF Counted
  <2>11. Rootless(t) => Rootless(r)
    BY <2>6, <2>8 DEF Rootless
  <2>12. Rooted(t, root) => Rooted(r, root)
    BY <2>7, <2>8 DEF Rooted
  <2> QED
    BY <2>9, <2>10, <2>11, <2>12 DEF r
<1> QED
  BY <1>1, <1>2

\* The root is always kept.
LEMMA RootIsKept ==
    ASSUME NEW root \in RootPhases, NEW t, TraceOf(t, root), Rootless(t), NEW x \in SpanRecord, x.phase = root
    PROVE  TraceOf(Recorded(t, x), root) /\ Counted(Recorded(t, x), t) /\ Rooted(Recorded(t, x), root)
<1>0. Limit \in Nat \ {0} /\ MaxGroups \in Nat \ {0} /\ t.records \in Seq(SpanRecord) /\ t.dropped \in Nat
  BY AttributionAssumption DEF TraceOf
<1> DEFINE evicts == Len(t.records) >= Limit
           kept == IF evicts THEN Front(t.records) ELSE t.records
           lost == t.dropped + IF evicts THEN 1 ELSE 0
<1>1. /\ kept \in Seq(SpanRecord) /\ Len(kept) < Limit /\ Len(kept) <= Len(t.records) /\ lost \in Nat
      /\ Len(kept) + lost = Len(t.records) + t.dropped
      /\ \A n \in 1..Len(kept) : kept[n] = t.records[n]
  <2>1. CASE evicts
    <3>1. Len(t.records) \in Nat /\ Len(t.records) = Limit
      BY <1>0, <2>1 DEF TraceOf
    <3>2. kept = [n \in 1..(Len(t.records) - 1) |-> t.records[n]]
      BY <2>1 DEF Front
    <3>3. kept \in Seq(SpanRecord) /\ Len(kept) = Len(t.records) - 1
      BY <1>0, <3>1, <3>2
    <3>4. lost = t.dropped + 1
      BY <2>1
    <3>5. \A n \in 1..Len(kept) : kept[n] = t.records[n]
      BY <3>1, <3>2, <3>3
    <3> HIDE DEF kept, lost
    <3>6. lost \in Nat /\ Len(kept) < Limit /\ Len(kept) <= Len(t.records)
      BY <1>0, <3>1, <3>3, <3>4
    <3>7. Len(kept) + lost = Len(t.records) + t.dropped
      BY <1>0, <3>1, <3>3, <3>4
    <3> QED
      BY <3>3, <3>5, <3>6, <3>7
  <2>2. CASE ~evicts
    BY <1>0, <2>2
  <2> QED
    BY <2>1, <2>2
<1>2. root \notin t.groups /\ t.groups \ {root} = t.groups /\ Cardinality(t.groups) < MaxGroups
  <2>1. root \notin t.groups /\ t.groups \ {root} = t.groups
    BY DEF Rootless
  <2>2. Cardinality(t.groups) \in Nat
    BY GroupsAreFew, FS_CardinalityType DEF TraceOf
  <2>3. Cardinality(t.groups \ {root}) <= MaxGroups - 1
    BY DEF TraceOf
  <2>4. Cardinality(t.groups) <= MaxGroups - 1
    BY <2>1, <2>3
  <2> QED
    BY <1>0, <2>1, <2>2, <2>4
<1>3. Recorded(t, x) = [records |-> Append(kept, x), groups |-> t.groups \cup {x.phase}, dropped |-> lost]
  <2>1. x.phase \in {RootOf[s] : s \in Sources}
    BY RootOfIs
  <2>2. ~(Len(kept) >= Limit \/ (x.phase \notin t.groups /\ Cardinality(t.groups) >= MaxGroups))
    <3>1. Len(kept) \in Nat /\ Cardinality(t.groups) \in Nat
      BY <1>1, GroupsAreFew, FS_CardinalityType DEF TraceOf
    <3> QED
      BY <1>0, <1>1, <1>2, <3>1
  <2> QED
    BY <2>1, <2>2 DEF Recorded, GroupLimit
<1> HIDE DEF kept, lost
<1> DEFINE s == Append(kept, x)
           g == t.groups \cup {x.phase}
<1>4. /\ s \in Seq(SpanRecord) /\ Len(s) = Len(kept) + 1 /\ Len(kept) \in Nat
      /\ \A n \in 1..Len(s) : s[n] = IF n = Len(s) THEN x ELSE kept[n]
  BY <1>1
<1>5. g \ {root} = t.groups \ {root} /\ g \subseteq Phases
  BY DEF TraceOf, SpanRecord
<1>6. \A n \in 1..Len(kept) : kept[n].phase \in t.groups
  <2>1. Len(kept) \in Nat /\ Len(t.records) \in Nat
    BY <1>0, <1>1
  <2> QED
    BY <1>1, <2>1 DEF TraceOf
<1>7. \A n \in 1..Len(s) : s[n].phase \in g /\ (s[n].phase = root <=> n = Len(s))
  BY <1>2, <1>4, <1>6
<1>8. Len(s) <= Limit /\ Len(s) \in 1..Len(s)
  BY <1>0, <1>1, <1>4
<1>9. Recorded(t, x) = [records |-> s, groups |-> g, dropped |-> lost]
  BY <1>3
<1> HIDE DEF s, g
<1> DEFINE r == Recorded(t, x)
<1>10. r.records = s /\ r.groups = g /\ r.dropped = lost
       /\ r = [records |-> r.records, groups |-> r.groups, dropped |-> r.dropped]
  BY <1>9
<1> HIDE DEF r
<1>11. Cardinality(g \ {root}) <= MaxGroups - 1
  BY <1>5 DEF TraceOf
<1>12. TraceOf(r, root)
  BY <1>1, <1>4, <1>5, <1>7, <1>8, <1>10, <1>11 DEF TraceOf
<1>13. Counted(r, t)
  BY <1>0, <1>1, <1>4, <1>10 DEF Counted
<1>14. Rooted(r, root)
  BY <1>7, <1>8, <1>10 DEF Rooted
<1> QED
  BY <1>12, <1>13, <1>14 DEF r

\* A set of numbers that is not empty has a least one: the
\* well-foundedness of <, in the form in which the provers can use it.
LEMMA Minimal ==
    \A R, S : IsWellFoundedOn(R, S) =>
      \A T : T \subseteq S /\ T # {} => \E x \in T : \A y \in T : ~(<<y, x>> \in R)
BY WFMin

LEMMA LeastFor ==
    ASSUME NEW R, IsWellFoundedOn(R, Nat), \A x, y \in Nat : x < y => <<x, y>> \in R,
           NEW T, T \subseteq Nat, T # {}
    PROVE  \E x \in T : \A y \in T : x <= y
<1>1. \A U : U \subseteq Nat /\ U # {} => \E x \in U : \A y \in U : ~(<<y, x>> \in R)
  BY Minimal, Zenon
<1>2. T \subseteq Nat /\ T # {} => \E x \in T : \A y \in T : ~(<<y, x>> \in R)
  BY <1>1, Zenon
<1>3. PICK x \in T : \A y \in T : ~(<<y, x>> \in R)
  BY <1>2
<1>4. ASSUME NEW y \in T PROVE x <= y
  <2>1. x \in Nat /\ y \in Nat
    OBVIOUS
  <2>2. ~(<<y, x>> \in R)
    BY <1>3
  <2>3. ~(y < x)
    BY <2>1, <2>2
  <2> QED
    BY <2>1, <2>3
<1> QED
  BY <1>4

LEMMA Least ==
    ASSUME NEW T, T \subseteq Nat, T # {}
    PROVE  \E x \in T : \A y \in T : x <= y
<1>1. IsWellFoundedOn(OpToRel(<, Nat), Nat)
  BY NatLessThanWellFounded
<1>2. \A x, y \in Nat : x < y => <<x, y>> \in OpToRel(<, Nat)
  BY SMT DEF OpToRel
<1> DEFINE R == OpToRel(<, Nat)
<1>3. IsWellFoundedOn(R, Nat) /\ \A x, y \in Nat : x < y => <<x, y>> \in R
  BY <1>1, <1>2, Zenon
<1> HIDE DEF R
<1> QED
  BY <1>3, LeastFor, Zenon

-----------------------------------------------------------------------------

\* What a section deferred is recorded one after the other.
OneByOne(f, first, k, e) == \A m \in 0..k : f[m] = IF m = 0 THEN first ELSE Recorded(f[m - 1], e[m])

LEMMA FlushedExists ==
    ASSUME NEW first, NEW k \in Nat, NEW e
    PROVE  \E f : OneByOne(f, first, k, e)
<1> DEFINE F(f, n) == [m \in 0..n |-> IF m = 0 THEN first ELSE Recorded(f[m - 1], e[m])]
           T == {n \in 0..k : ~\E f : f = F(f, n)}
<1>1. T = {}
  <2> SUFFICES ASSUME T # {} PROVE FALSE
    OBVIOUS
  <2>0. T \subseteq Nat
    OBVIOUS
  <2>1. PICK n \in T : \A y \in T : n <= y
    <3> HIDE DEF T
    <3> QED
      BY <2>0, Least
  <2>2. n \in 0..k /\ ~\E f : f = F(f, n)
    OBVIOUS
  <2>3. CASE n = 0
    <3> DEFINE g == [m \in 0..0 |-> first]
    <3>1. g = F(g, 0)
      OBVIOUS
    <3> QED
      BY <2>2, <2>3, <3>1
  <2>4. CASE n # 0
    <3>1. n - 1 \in 0..k /\ n - 1 < n /\ n \in Nat /\ n \in 1..k
      BY <2>2, <2>4
    <3>0. n - 1 \notin T
      <4> HIDE DEF T
      <4> QED
        BY <2>1, <3>1
    <3>2. PICK g : g = F(g, n - 1)
      BY <3>0, <3>1
    <3> DEFINE g2 == [m \in 0..n |-> IF m = n THEN Recorded(g[n - 1], e[n]) ELSE g[m]]
    <3>3. \A m \in 0..n : g2[m] = IF m = 0 THEN first ELSE Recorded(g2[m - 1], e[m])
      <4> SUFFICES ASSUME NEW m \in 0..n PROVE g2[m] = IF m = 0 THEN first ELSE Recorded(g2[m - 1], e[m])
        OBVIOUS
      <4>1. CASE m = n
        BY <3>1, <4>1
      <4>2. CASE m # n
        <5>1. m \in 0..(n - 1) /\ g2[m] = g[m] /\ (m # 0 => m - 1 \in 0..n /\ m - 1 # n /\ g2[m - 1] = g[m - 1])
          BY <3>1, <4>2
        <5>2. g[m] = IF m = 0 THEN first ELSE Recorded(g[m - 1], e[m])
          BY <3>2, <5>1
        <5> QED
          BY <5>1, <5>2
      <4> QED
        BY <4>1, <4>2
    <3>4. g2 = F(g2, n)
      BY <3>3
    <3> QED
      BY <2>2, <3>4
  <2> QED
    BY <2>3, <2>4
<1>2. PICK f : f = F(f, k)
  BY <1>1
<1> QED
  BY <1>2 DEF OneByOne

LEMMA FlushedIsCounted ==
    ASSUME NEW root \in RootPhases, NEW t, TraceOf(t, root), NEW p \in SectionRecord
    PROVE  /\ TraceOf(Flushed(t, p), root)
           /\ Len(Flushed(t, p).records) + Flushed(t, p).dropped
                = Len(t.records) + t.dropped + p.dropped + Len(p.entries)
           /\ Rootless(t) => Rootless(Flushed(t, p))
           /\ Rooted(t, root) => Rooted(Flushed(t, p), root)
<1> DEFINE k == Len(p.entries)
           first == [t EXCEPT !.dropped = t.dropped + p.dropped]
           h == CHOOSE f : f = [m \in 0..k |-> IF m = 0 THEN first ELSE Recorded(f[m - 1], p.entries[m])]
           Good(r, n) == /\ TraceOf(r, root)
                         /\ Len(r.records) + r.dropped = Len(t.records) + t.dropped + p.dropped + n
                         /\ Rootless(t) => Rootless(r)
                         /\ Rooted(t, root) => Rooted(r, root)
           U == {n \in 0..k : ~Good(h[n], n)}
<1>0. /\ k \in Nat /\ p.dropped \in Nat /\ t.dropped \in Nat /\ Len(t.records) \in Nat
      /\ \A m \in 1..k : p.entries[m] \in SpanRecord /\ p.entries[m].phase \notin RootPhases
  <2>1. p.entries \in Seq(Deferred) /\ p.dropped \in Nat
    BY DEF SectionRecord
  <2>2. \A m \in 1..k : p.entries[m] \in Deferred
    BY <2>1
  <2>3. \A m \in 1..k : p.entries[m] \in SpanRecord /\ p.entries[m].phase \notin RootPhases
    BY <2>2 DEF Deferred, SpanRecord, Phases, RootPhases
  <2>4. k \in Nat
    BY <2>1
  <2>5. t.dropped \in Nat /\ Len(t.records) \in Nat
    BY DEF TraceOf
  <2> QED
    BY <2>1, <2>3, <2>4, <2>5
<1>1. Flushed(t, p) = h[k]
  BY DEF Flushed
<1>2. Good(first, 0)
  <2>1. t.dropped + p.dropped \in Nat
    BY <1>0
  <2>2. TraceOf(first, root) /\ first = [records |-> t.records, groups |-> t.groups, dropped |-> t.dropped + p.dropped]
    BY <2>1, DropsIs
  <2> QED
    BY <1>0, <2>2 DEF Rootless, Rooted
<1> HIDE DEF k, first
<1>3. h[0] = first /\ \A m \in 1..k : h[m] = Recorded(h[m - 1], p.entries[m])
  <2>1. \E f : f = [m \in 0..k |-> IF m = 0 THEN first ELSE Recorded(f[m - 1], p.entries[m])]
    <3>1. k \in Nat
      BY <1>0
    <3>2. PICK f : OneByOne(f, first, k, p.entries)
      BY <3>1, FlushedExists, Zenon
    <3> DEFINE g == [m \in 0..k |-> f[m]]
    <3>3. \A m \in 0..k : g[m] = IF m = 0 THEN first ELSE Recorded(g[m - 1], p.entries[m])
      BY <3>1, <3>2 DEF OneByOne
    <3>4. g = [m \in 0..k |-> IF m = 0 THEN first ELSE Recorded(g[m - 1], p.entries[m])]
      BY <3>3
    <3> QED
      BY <3>4
  <2>2. h = [m \in 0..k |-> IF m = 0 THEN first ELSE Recorded(h[m - 1], p.entries[m])]
    BY <2>1
  <2> HIDE DEF h
  <2>3. \A m \in 0..k : h[m] = IF m = 0 THEN first ELSE Recorded(h[m - 1], p.entries[m])
    BY <2>2, Zenon
  <2>4. 0 \in 0..k /\ \A m \in 1..k : m \in 0..k /\ m # 0
    BY <1>0
  <2> QED
    BY <2>3, <2>4, Zenon
<1> HIDE DEF h
<1>4. ASSUME NEW m \in 1..k, Good(h[m - 1], m - 1) PROVE Good(h[m], m)
  <2>1. h[m] = Recorded(h[m - 1], p.entries[m])
    BY <1>3
  <2>2. /\ TraceOf(h[m], root) /\ Counted(h[m], h[m - 1])
        /\ Rootless(h[m - 1]) => Rootless(h[m])
        /\ Rooted(h[m - 1], root) => Rooted(h[m], root)
    BY <1>0, <1>4, <2>1, SpanIsCounted
  <2>3. Len(h[m].records) + h[m].dropped = Len(t.records) + t.dropped + p.dropped + m
    <3>1. /\ Len(h[m].records) \in Nat /\ h[m].dropped \in Nat
          /\ Len(h[m - 1].records) \in Nat /\ h[m - 1].dropped \in Nat
      BY <1>4, <2>2 DEF TraceOf
    <3> QED
      BY <1>0, <1>4, <2>2, <3>1 DEF Counted
  <2> QED
    BY <1>4, <2>2, <2>3
<1>5. U = {}
  <2> SUFFICES ASSUME U # {} PROVE FALSE
    OBVIOUS
  <2>0. U \subseteq Nat
    BY <1>0
  <2>1. PICK n \in U : \A y \in U : n <= y
    <3> HIDE DEF U
    <3> QED
      BY <2>0, Least
  <2>2. n \in 0..k /\ ~Good(h[n], n)
    OBVIOUS
  <2>3. CASE n = 0
    BY <1>2, <1>3, <2>2, <2>3
  <2>4. CASE n # 0
    <3>1. n \in 1..k /\ n - 1 \in 0..k /\ n - 1 < n /\ n \in Nat
      BY <1>0, <2>2, <2>4
    <3>2. n - 1 \notin U
      BY <2>1, <3>1
    <3>3. Good(h[n - 1], n - 1)
      BY <3>1, <3>2
    <3> QED
      BY <1>4, <2>2, <3>1, <3>3
  <2> QED
    BY <2>3, <2>4
<1>6. Good(h[k], k)
  BY <1>0, <1>5
<1> QED
  BY <1>1, <1>6 DEF k

\* The greater of two instants.
LEMMA MaxIsInt == ASSUME NEW n \in Nat PROVE Max({0, n - 1}) \in Int
<1>1. \E x \in {0, n - 1} : \A y \in {0, n - 1} : x >= y
  OBVIOUS
<1> QED
  <2>1. PICK x \in {0, n - 1} : \A y \in {0, n - 1} : x >= y
    BY <1>1
  <2>2. Max({0, n - 1}) \in {0, n - 1}
    BY <2>1, Zenon DEF Max
  <2> QED
    BY <2>2

LEMMA CurrentIs ==
    /\ Current.records = records /\ Current.groups = groups /\ Current.dropped = dropped
    /\ Current = [records |-> records, groups |-> groups, dropped |-> dropped]
BY DEF Current

LEMMA BecomesIs ==
    ASSUME NEW t, t = [records |-> t.records, groups |-> t.groups, dropped |-> t.dropped], Becomes(t)
    PROVE  Current' = t
BY DEF Becomes, Current

LEMMA AtStarts == AtInit => AtInv
<1> SUFFICES ASSUME AtInit PROVE AtInv
  OBVIOUS
<1>0. Limit \in Nat \ {0} /\ MaxGroups \in Nat \ {0}
  BY AttributionAssumption
<1>1. /\ source \in Sources /\ records = << >> /\ groups = {} /\ dropped = 0 /\ pending = Outside
      /\ trace = "open" /\ instant = 0 /\ observed = 0 /\ late = 0
  BY DEF AtInit
<1>2. pending \in SectionRecord /\ Len(pending.entries) = 0 /\ pending.dropped = 0
  <2>1. << >> \in Seq(Deferred)
    OBVIOUS
  <2> QED
    BY <1>1, <2>1 DEF Outside, SectionRecord
<1>3. Current = [records |-> << >>, groups |-> {}, dropped |-> 0]
  BY <1>1 DEF Current
<1>4. Cardinality({} \ {RootOf[source]}) = 0
  <2>1. {} \ {RootOf[source]} = {}
    OBVIOUS
  <2> QED
    BY <2>1, FS_EmptySet
<1>5. TraceOf(Current, RootOf[source]) /\ Rootless(Current)
  <2>1. << >> \in Seq(SpanRecord) /\ Len(<< >>) = 0
    OBVIOUS
  <2> QED
    BY <1>0, <1>3, <1>4, <2>1 DEF TraceOf, Rootless
<1> QED
  BY <1>1, <1>2, <1>5 DEF AtInv

\* A step of the clock, of the section, or of the trace's own state.
LEMMA AtIdles ==
    ASSUME AtInv, EnterSection \/ Close \/ Tick \/ UNCHANGED atVars
    PROVE  AtInv'
<1>1. Current' = Current /\ source' = source /\ records' = records /\ dropped' = dropped /\ late' = late
  BY DEF EnterSection, Close, Tick, atVars, Current
<1>2. CASE EnterSection
  <2>1. pending = Outside /\ pending' = [open |-> TRUE, entries |-> << >>, dropped |-> 0]
    BY <1>2 DEF AtInv, EnterSection, Outside
  <2>2. pending' \in SectionRecord /\ Len(pending'.entries) = Len(pending.entries) /\ pending'.dropped = pending.dropped
    <3>1. << >> \in Seq(Deferred)
      OBVIOUS
    <3> QED
      BY <2>1, <3>1 DEF Outside, SectionRecord
  <2> QED
    BY <1>1, <1>2, <2>1, <2>2 DEF AtInv, EnterSection
<1>3. CASE Close
  BY <1>1, <1>3 DEF AtInv, Close
<1>4. CASE Tick
  BY <1>1, <1>4 DEF AtInv, Tick
<1>5. CASE UNCHANGED atVars
  BY <1>1, <1>5 DEF AtInv, atVars
<1> QED
  BY <1>2, <1>3, <1>4, <1>5

LEMMA EndSpanKeeps == ASSUME AtInv, EndSpan PROVE AtInv'
<1>0. /\ trace = "open" /\ trace' = trace /\ source' = source /\ instant' = instant /\ late' = late /\ late = 0
      /\ observed' = observed + 1 /\ observed \in Nat /\ instant \in Nat
      /\ source \in Sources /\ RootOf[source] \in RootPhases /\ TraceOf(Current, RootOf[source]) /\ Rootless(Current)
      /\ pending \in SectionRecord /\ (~pending.open => pending = Outside)
      /\ Len(records) + dropped + late + Len(pending.entries) + pending.dropped = observed
  BY RootOfIs DEF AtInv, EndSpan
<1>1. records \in Seq(SpanRecord) /\ Len(records) \in Nat /\ dropped \in Nat
  BY <1>0, CurrentIs DEF TraceOf
<1>2. Len(pending.entries) \in Nat /\ pending.dropped \in Nat /\ pending.entries \in Seq(Deferred)
  BY <1>0 DEF SectionRecord
<1>p. PICK a \in Nat, b \in Nat, c \in Nat, d \in Nat, n \in Nat :
        /\ a = Len(records) /\ b = dropped /\ c = Len(pending.entries) /\ d = pending.dropped /\ n = observed
        /\ a + b + 0 + c + d = n
  BY <1>0, <1>1, <1>2
<1>q. a + b + 0 + c + d = n
  BY <1>p
<1>3. CASE ~pending.open
  <2>1. PICK start \in 0..instant : Becomes(Recorded(Current, Span("agent.tool", start, instant))) /\ pending' = pending
    BY <1>3 DEF EndSpan
  <2> DEFINE x == Span("agent.tool", start, instant)
             r == Recorded(Current, x)
  <2>2. x \in SpanRecord /\ x.phase \notin RootPhases
    BY <1>0 DEF Span, SpanRecord, Phases, RootPhases
  <2>3. TraceOf(r, RootOf[source]) /\ Counted(r, Current) /\ Rootless(r)
    <3> HIDE DEF x
    <3> QED
      BY <1>0, <2>2, SpanIsCounted
  <2>4. Current' = r /\ records' = r.records /\ dropped' = r.dropped
    <3>1. r = [records |-> r.records, groups |-> r.groups, dropped |-> r.dropped]
      BY <2>3 DEF TraceOf
    <3> QED
      BY <2>1, <3>1, BecomesIs DEF Becomes
  <2> HIDE DEF r
  <2>5. Len(r.records) + r.dropped + 0 + Len(pending.entries) + pending.dropped = observed + 1
    <3>1. Len(r.records) + r.dropped = Len(records) + dropped + 1 /\ Len(r.records) \in Nat /\ r.dropped \in Nat
      BY <2>3, CurrentIs DEF Counted, TraceOf
    <3>2. PICK e \in Nat, f \in Nat : e = Len(r.records) /\ f = r.dropped
      BY <3>1
    <3>3. e + f = a + b + 1
      BY <1>p, <3>1, <3>2
    <3>4. e + f + 0 + c + d = n + 1
      BY <1>q, <3>3
    <3> QED
      BY <1>p, <3>2, <3>4
  <2>6. Len(records') + dropped' + late' + Len(pending'.entries) + pending'.dropped = observed'
    BY <1>0, <2>1, <2>4, <2>5
  <2> QED
    BY <1>0, <1>3, <2>1, <2>3, <2>4, <2>6 DEF AtInv
<1>4. CASE pending.open
  <2> DEFINE x == Span("workspace.read", instant, instant)
  <2>1. /\ records' = records /\ dropped' = dropped /\ Current' = Current
        /\ pending' = IF Len(pending.entries) < Limit THEN [pending EXCEPT !.entries = Append(@, x)]
                      ELSE [pending EXCEPT !.dropped = @ + 1]
    BY <1>4 DEF EndSpan, Current
  <2>2. x \in Deferred
    BY <1>0 DEF Span, Deferred
  <2> HIDE DEF x
  <2>3. /\ pending' \in SectionRecord /\ pending'.open = TRUE
        /\ Len(pending'.entries) + pending'.dropped = Len(pending.entries) + pending.dropped + 1
        /\ Len(pending'.entries) \in Nat /\ pending'.dropped \in Nat
    <3>1. Append(pending.entries, x) \in Seq(Deferred) /\ Len(Append(pending.entries, x)) = Len(pending.entries) + 1
      BY <1>2, <2>2
    <3>2. CASE Len(pending.entries) < Limit
      <4>1. pending' = [pending EXCEPT !.entries = Append(pending.entries, x)]
        BY <2>1, <3>2
      <4>2. pending' \in SectionRecord /\ pending'.open = TRUE /\ pending'.entries = Append(pending.entries, x)
            /\ pending'.dropped = pending.dropped
        BY <1>0, <1>4, <3>1, <4>1 DEF SectionRecord
      <4> QED
        BY <1>2, <3>1, <4>2
    <3>3. CASE ~(Len(pending.entries) < Limit)
      <4>1. pending' = [pending EXCEPT !.dropped = pending.dropped + 1]
        BY <2>1, <3>3
      <4>2. pending' \in SectionRecord /\ pending'.open = TRUE /\ pending'.entries = pending.entries
            /\ pending'.dropped = pending.dropped + 1
        BY <1>0, <1>2, <1>4, <4>1 DEF SectionRecord
      <4> QED
        BY <1>2, <4>2
    <3> QED
      BY <3>2, <3>3
  <2>4. Len(records') + dropped' + late' + Len(pending'.entries) + pending'.dropped = observed'
    <3>1. \A q \in SectionRecord : Len(q.entries) + q.dropped = Len(pending.entries) + pending.dropped + 1 =>
            Len(records) + dropped + 0 + Len(q.entries) + q.dropped = observed + 1
      <4> SUFFICES ASSUME NEW q \in SectionRecord,
                          Len(q.entries) + q.dropped = Len(pending.entries) + pending.dropped + 1
                   PROVE  Len(records) + dropped + 0 + Len(q.entries) + q.dropped = observed + 1
        OBVIOUS
      <4>1. Len(q.entries) \in Nat /\ q.dropped \in Nat
        BY DEF SectionRecord
      <4>2. PICK e \in Nat, f \in Nat : e = Len(q.entries) /\ f = q.dropped
        BY <4>1
      <4>3. e + f = c + d + 1
        BY <1>p, <4>2
      <4>4. a + b + 0 + e + f = n + 1
        BY <1>q, <4>3
      <4> QED
        BY <1>p, <4>2, <4>4
    <3>2. Len(records) + dropped + 0 + Len(pending'.entries) + pending'.dropped = observed + 1
      BY <2>3, <3>1
    <3> QED
      BY <1>0, <2>1, <3>2
  <2>5. observed' \in Nat /\ instant' \in Nat /\ late' \in Nat /\ late' = 0
    BY <1>0
  <2> QED
    BY <1>0, <2>1, <2>3, <2>4, <2>5 DEF AtInv
<1> QED
  BY <1>3, <1>4 DEF AtInv, SectionRecord

LEMMA EndRootKeeps == ASSUME AtInv, EndRoot PROVE AtInv'
<1>0. /\ trace = "open" /\ trace' = "rooted" /\ source' = source /\ instant' = instant /\ late' = late /\ late = 0
      /\ observed' = observed + 1 /\ observed \in Nat /\ instant \in Nat /\ pending' = pending
      /\ source \in Sources /\ RootOf[source] \in RootPhases /\ RootOf[source] \in Phases
      /\ TraceOf(Current, RootOf[source]) /\ Rootless(Current)
      /\ pending \in SectionRecord /\ (~pending.open => pending = Outside)
      /\ Len(records) + dropped + late + Len(pending.entries) + pending.dropped = observed
  BY RootOfIs DEF AtInv, EndRoot
<1>1. records \in Seq(SpanRecord) /\ Len(records) \in Nat /\ dropped \in Nat
  BY <1>0, CurrentIs DEF TraceOf
<1>2. Len(pending.entries) \in Nat /\ pending.dropped \in Nat
  BY <1>0 DEF SectionRecord
<1>p. PICK a \in Nat, b \in Nat, c \in Nat, d \in Nat, n \in Nat :
        /\ a = Len(records) /\ b = dropped /\ c = Len(pending.entries) /\ d = pending.dropped /\ n = observed
        /\ a + b + 0 + c + d = n
  BY <1>0, <1>1, <1>2
<1>q. a + b + 0 + c + d = n
  BY <1>p
<1>3. PICK end \in {instant, Max({0, instant - 1})} : Becomes(Recorded(Current, Span(RootOf[source], 0, end)))
  BY DEF EndRoot
<1>4. end \in Int
  BY <1>0, <1>3, MaxIsInt
<1> DEFINE x == Span(RootOf[source], 0, end)
           r == Recorded(Current, x)
<1>5. x \in SpanRecord /\ x.phase = RootOf[source]
  BY <1>0, <1>4 DEF Span, SpanRecord
<1>6. TraceOf(r, RootOf[source]) /\ Counted(r, Current) /\ Rooted(r, RootOf[source])
  <2> HIDE DEF x
  <2> QED
    BY <1>0, <1>5, RootIsKept
<1>7. Current' = r /\ records' = r.records /\ dropped' = r.dropped
  <2>1. r = [records |-> r.records, groups |-> r.groups, dropped |-> r.dropped]
    BY <1>6 DEF TraceOf
  <2> QED
    BY <1>3, <2>1, BecomesIs DEF Becomes
<1> HIDE DEF r
<1>8. Len(r.records) + r.dropped + 0 + Len(pending.entries) + pending.dropped = observed + 1
  <2>1. Len(r.records) + r.dropped = Len(records) + dropped + 1 /\ Len(r.records) \in Nat /\ r.dropped \in Nat
    BY <1>6, CurrentIs DEF Counted, TraceOf
  <2>2. PICK e \in Nat, f \in Nat : e = Len(r.records) /\ f = r.dropped
    BY <2>1
  <2>3. e + f = a + b + 1
    BY <1>p, <2>1, <2>2
  <2>4. e + f + 0 + c + d = n + 1
    BY <1>q, <2>3
  <2> QED
    BY <1>p, <2>2, <2>4
<1>9. Len(records') + dropped' + late' + Len(pending'.entries) + pending'.dropped = observed'
  BY <1>0, <1>7, <1>8
<1> QED
  BY <1>0, <1>6, <1>7, <1>9 DEF AtInv

LEMMA LeaveSectionKeeps == ASSUME AtInv, LeaveSection PROVE AtInv'
<1>0. /\ trace' = trace /\ source' = source /\ instant' = instant /\ observed' = observed /\ late = 0
      /\ pending.open /\ pending' = Outside
      /\ observed \in Nat /\ instant \in Nat
      /\ source \in Sources /\ RootOf[source] \in RootPhases /\ TraceOf(Current, RootOf[source])
      /\ pending \in SectionRecord
      /\ Len(records) + dropped + late + Len(pending.entries) + pending.dropped = observed
  BY RootOfIs DEF AtInv, LeaveSection
<1>1. records \in Seq(SpanRecord) /\ Len(records) \in Nat /\ dropped \in Nat
  BY <1>0, CurrentIs DEF TraceOf
<1>2. Len(pending.entries) \in Nat /\ pending.dropped \in Nat
  BY <1>0 DEF SectionRecord
<1>p. PICK a \in Nat, b \in Nat, c \in Nat, d \in Nat, n \in Nat :
        /\ a = Len(records) /\ b = dropped /\ c = Len(pending.entries) /\ d = pending.dropped /\ n = observed
        /\ a + b + 0 + c + d = n
  BY <1>0, <1>1, <1>2
<1>q. a + b + 0 + c + d = n
  BY <1>p
<1>3. pending' \in SectionRecord /\ ~pending'.open /\ Len(pending'.entries) = 0 /\ pending'.dropped = 0
  <2>1. << >> \in Seq(Deferred)
    OBVIOUS
  <2> QED
    BY <1>0, <2>1 DEF Outside, SectionRecord
<1>4. CASE trace # "closed"
  <2> DEFINE r == Flushed(Current, pending)
  <2>1. Becomes(r) /\ late' = late
    BY <1>4 DEF LeaveSection
  <2>2. /\ TraceOf(r, RootOf[source])
        /\ Len(r.records) + r.dropped = Len(records) + dropped + pending.dropped + Len(pending.entries)
        /\ Rootless(Current) => Rootless(r)
        /\ Rooted(Current, RootOf[source]) => Rooted(r, RootOf[source])
    BY <1>0, FlushedIsCounted, CurrentIs
  <2> HIDE DEF r
  <2>3. Current' = r /\ records' = r.records /\ dropped' = r.dropped
    <3>1. r = [records |-> r.records, groups |-> r.groups, dropped |-> r.dropped]
      BY <2>2 DEF TraceOf
    <3> QED
      BY <2>1, <3>1, BecomesIs DEF Becomes
  <2>4. Len(r.records) + r.dropped + 0 + 0 + 0 = observed
    <3>1. Len(r.records) \in Nat /\ r.dropped \in Nat
      BY <2>2 DEF TraceOf
    <3>2. PICK e \in Nat, f \in Nat : e = Len(r.records) /\ f = r.dropped
      BY <3>1
    <3>3. e + f = a + b + d + c
      BY <1>p, <2>2, <3>2
    <3>4. e + f + 0 + 0 + 0 = n
      BY <1>q, <3>3
    <3> QED
      BY <1>p, <3>2, <3>4
  <2>5. Len(records') + dropped' + late' + Len(pending'.entries) + pending'.dropped = observed'
    BY <1>0, <1>3, <2>1, <2>3, <2>4
  <2> QED
    BY <1>0, <1>3, <2>1, <2>2, <2>3, <2>5 DEF AtInv
<1>5. CASE trace = "closed"
  <2>1. /\ dropped' = dropped + pending.dropped /\ late' = Len(pending.entries) /\ records' = records
        /\ groups' = groups
    BY <1>5 DEF LeaveSection
  <2>2. Current' = [Current EXCEPT !.dropped = dropped + pending.dropped]
    BY <2>1 DEF Current
  <2>3. dropped + pending.dropped \in Nat
    BY <1>1, <1>2
  <2>4. TraceOf(Current', RootOf[source])
    BY <1>0, <2>2, <2>3, DropsIs
  <2>5. Rooted(Current', RootOf[source])
    <3>1. Rooted(Current, RootOf[source]) /\ Current'.records = Current.records
      BY <1>5, <2>2, CurrentIs DEF AtInv
    <3> QED
      BY <3>1 DEF Rooted
  <2>6. Len(records') + dropped' + late' + Len(pending'.entries) + pending'.dropped = observed'
    <3>1. Len(records) + (dropped + pending.dropped) + Len(pending.entries) + 0 + 0 = observed
      <4>1. a + (b + d) + c + 0 + 0 = n
        BY <1>q
      <4> QED
        BY <1>p, <4>1
    <3> QED
      BY <1>0, <1>3, <2>1, <3>1
  <2> QED
    BY <1>0, <1>2, <1>3, <1>5, <2>1, <2>4, <2>5, <2>6 DEF AtInv
<1> QED
  BY <1>4, <1>5

LEMMA KeptIs == AtInv => SpansAreKept
<1> SUFFICES ASSUME AtInv, trace = "closed" PROVE SpansAreKept
  BY DEF SpansAreKept
<1> DEFINE root == RootOf[source]
<1>0. /\ TraceOf(Current, root) /\ Rooted(Current, root) /\ root \in RootPhases
      /\ MaxGroups \in Nat \ {0}
  BY RootOfIs, AttributionAssumption DEF AtInv
<1>1. /\ records \in Seq(SpanRecord) /\ Len(records) <= Limit /\ groups \subseteq Phases
      /\ \A n \in 1..Len(records) : records[n].phase \in groups
      /\ Cardinality(groups \ {root}) <= MaxGroups - 1
  BY <1>0, CurrentIs DEF TraceOf
<1>2. Grouped \subseteq groups
  BY <1>1 DEF Grouped, ToSet
<1>3. Cardinality(Grouped) <= MaxGroups
  <2>1. IsFiniteSet(groups) /\ IsFiniteSet(groups \ {root})
    BY <1>1, GroupsAreFew
  <2>2. Cardinality(Grouped) <= Cardinality(groups) /\ IsFiniteSet(Grouped)
    BY <1>2, <2>1, FS_Subset
  <2>3. Cardinality(groups \ {root}) = IF root \in groups THEN Cardinality(groups) - 1 ELSE Cardinality(groups)
    BY <2>1, FS_RemoveElement
  <2>4. Cardinality(groups) \in Nat /\ Cardinality(Grouped) \in Nat
    BY <2>1, <2>2, FS_CardinalityType
  <2> QED
    BY <1>0, <1>1, <2>2, <2>3, <2>4
<1>4. Cardinality({n \in DOMAIN records : records[n].phase = RootOf[source]}) = 1
  <2>1. PICK n \in 1..Len(records) : \A m \in 1..Len(records) : records[m].phase = root <=> m = n
    BY <1>0, CurrentIs DEF Rooted
  <2>2. {m \in DOMAIN records : records[m].phase = RootOf[source]} = {n}
    BY <1>1, <2>1
  <2> QED
    BY <2>2, FS_Singleton
<1> QED
  BY <1>1, <1>3, <1>4 DEF AtInv, SpansAreKept

(* Every span that ended is in the trace, counted as dropped, or held by a *)
(* section that outlived the request; the trace never exceeds its limits   *)
(* of spans and of phases, and its root is in it exactly once: for any     *)
(* limits, and any order in which spans, sections and the root end         *)
(* (attribution.py, record, defer_database_observations).                  *)
THEOREM AttributionSafety == AtSpec => []SpansAreKept
<1>1. AtInv /\ [AtNext]_atVars => AtInv'
  BY AtIdles, EndSpanKeeps, EndRootKeeps, LeaveSectionKeeps DEF AtNext
<1> QED
  BY AtStarts, KeptIs, <1>1, PTL DEF AtSpec

(***************************************************************************)
(* What is observed, beside the repository.                                *)
(***************************************************************************)
(* The three share no variable: what the process does is a behaviour of    *)
(* the repository, of the telemetry and of a trace at once.                *)
THEOREM ObservedComposition == ObservedSpec => Spec /\ TmSpec /\ AtSpec
<1>1. ObservedInit => Init /\ TmInit /\ AtInit
  BY DEF ObservedInit
<1>2. [ObservedNext]_observedVars => [Next]_vars /\ [TmNext]_tmVars /\ [AtNext]_atVars
  <2> SUFFICES ASSUME [ObservedNext]_observedVars PROVE [Next]_vars /\ [TmNext]_tmVars /\ [AtNext]_atVars
    OBVIOUS
  <2>1. CASE UNCHANGED observedVars
    BY <2>1 DEF observedVars
  <2>2. CASE Next /\ UNCHANGED <<tmVars, atVars, exercised>>
    BY <2>2
  <2>3. CASE TmNext /\ UNCHANGED <<vars, atVars, exercised>>
    BY <2>3
  <2>4. CASE AtNext /\ UNCHANGED <<vars, tmVars, exercised>>
    BY <2>4
  <2> QED
    BY <2>1, <2>2, <2>3, <2>4 DEF ObservedNext
<1> QED
  BY <1>1, <1>2, PTL DEF ObservedSpec, Spec, TmSpec, AtSpec

(* What holds in every state of the process: rows and logs are consistent, *)
(* a current revision means a current row, log pages are complete, and no  *)
(* span is lost.                                                           *)
THEOREM ObservedSafety ==
    ObservedSpec => [](RowsAreConsistent /\ SnapshotIsCurrent /\ PagesAreComplete /\ SpansAreKept)
BY ObservedComposition, ConsistencySafety, SnapshotSafety, PagingSafety, AttributionSafety, PTL

(* What no step of it does: a job only moves forward, along the life cycle *)
(* that it implements, and a recorded fact never changes.                  *)
THEOREM ObservedFinality ==
    ObservedSpec => JobsMoveForward /\ ImplementsLifecycle /\ FactsAreImmutable
BY ObservedComposition, ForwardSafety, Refinement, FactsFinality, PTL
=============================================================================
