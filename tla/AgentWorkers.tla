---------------------------- MODULE AgentWorkers ----------------------------
(***************************************************************************)
(* Durable Agent execution: the fixed consumers of WorkerSupervisor        *)
(* (src/workspace/worker.py), the executor they call                       *)
(* (AgentDurableService.execute_claimed, src/agent/durable.py), the API    *)
(* calls that admit and cancel runs, and the application lifespan that     *)
(* recovers, starts and stops the consumers (src/api/app.py).              *)
(*                                                                         *)
(* A consumer is an asyncio task.  Its synchronous stretches cannot be     *)
(* cancelled, but API threads commit between any two repository calls, so  *)
(* every repository call is a step of its own.  Task cancellation is       *)
(* delivered at an await.  A thread started by asyncio.to_thread outlives  *)
(* the await: an interrupted append or interruption goes on detached,      *)
(* unless the pool had not started it yet, in which case it never runs.    *)
(*                                                                         *)
(* The orchestrator is abstracted to its boundary: cancellation checks,    *)
(* recorded decisions and an outcome; its budgets are not modelled here.   *)
(***************************************************************************)
EXTENDS JobStore

CONSTANTS
    Workers,         \* the fixed consumers (WorkerConfig.concurrency)
    MaxRestarts,     \* bound on crashes and shutdowns
    MaxFaults,       \* bound on failing repository calls and dying consumers
    CASTries         \* range(3): attempts of _finish, the handler, _interrupt

ASSUME WorkersAssumption ==
    /\ \E s \in Steps : Steps = {s}
    /\ MaxRestarts \in Nat /\ MaxFaults \in Nat
    /\ CASTries \in Nat /\ CASTries >= 3

VARIABLES
    phase,           \* the lifespan: down, recovering, serving, stopping, stopped
    wk,              \* wk[w]: the consumer task
    irq,             \* irq[<<w, k>>]: an _interrupt thread, awaited or detached
    late,            \* late[w]: an append thread that lost its awaiting task
    restarts, faults,
    started,         \* history: how often a job's orchestrator was started
    outcome          \* history: the status the orchestrator returned for a job

vars == <<job, log, phase, wk, irq, late, restarts, faults, started, outcome>>
env == <<phase, restarts, faults>>
history == <<started, outcome>>

AGENT_STEP == CHOOSE s \in Steps : TRUE
Eligible == {"agent"}

-----------------------------------------------------------------------------
PCs == {"exited", "ready", "claiming", "waiting", "claimed", "starting", "step",
        "running", "deciding", "recording", "finish", "ack", "succeedStep",
        "succeedJob", "failJob", "except", "exAck", "exFail", "reconcile"}

\* Where the task may be suspended, and so where cancellation is delivered.
Awaiting == {"claiming", "claimed", "waiting", "starting", "deciding", "recording", "reconcile"}

\* next: what follows the recorded decision; again: whether a cancellation of
\* the awaited _reconcile is caught and reconciled once more (line 198).
Task == [pc : PCs, id : Jobs \cup {NoRow}, row : JobRow \cup {NoRow},
         tries : 0..CASTries, n : 0..MaxDecisions,
         next : {"running", "completed", "failed"},
         cancel : {"no", "requested", "delivered"}, again : BOOLEAN]

NoTask == [pc |-> "exited", id |-> NoRow, row |-> NoRow, tries |-> 0, n |-> 0,
           next |-> "running", cancel |-> "no", again |-> FALSE]

Thread == [pc : {"off", "queued", "cas", "retry"}, id : Jobs \cup {NoRow},
           row : JobRow \cup {NoRow}, tries : 0..CASTries]
NoThread == [pc |-> "off", id |-> NoRow, row |-> NoRow, tries |-> 0]

LateAppend == [id : Jobs, n : 1..MaxDecisions]
NoLate == [id |-> NoRow, n |-> 0]

TypeOK ==
    /\ StoreTypeOK
    /\ phase \in {"down", "recovering", "serving", "stopping", "stopped"}
    /\ wk \in [Workers -> Task]
    /\ irq \in [Workers \X {"awaited", "detached"} -> Thread]
    /\ late \in [Workers -> LateAppend \cup {NoLate}]
    /\ restarts \in 0..MaxRestarts
    /\ faults \in 0..MaxFaults
    /\ started \in [Jobs -> Nat]
    /\ outcome \in [Jobs -> {"none", "completed", "failed", "cancelled"}]

Init ==
    /\ StoreInit
    /\ phase = "down"
    /\ wk = [w \in Workers |-> NoTask]
    /\ irq = [x \in Workers \X {"awaited", "detached"} |-> NoThread]
    /\ late = [w \in Workers |-> NoLate]
    /\ restarts = 0 /\ faults = 0
    /\ started = [j \in Jobs |-> 0]
    /\ outcome = [j \in Jobs |-> "none"]

Up == phase \in {"serving", "stopping"}
Stop == phase = "stopping" \/ \E w \in Workers : phase = "serving" /\ wk[w].pc = "exited"

At(w, pc) == wk[w].pc = pc
Go(w, pc) == wk' = [wk EXCEPT ![w].pc = pc]
Retry(w, pc) == wk' = [wk EXCEPT ![w].pc = pc, ![w].tries = @ + 1, ![w].row = NoRow]
Enter(w, pc) == wk' = [wk EXCEPT ![w].pc = pc, ![w].tries = 0, ![w].row = NoRow]
Row(w) == wk[w].row
Rev(w) == wk[w].row.revision

\* A repository call that raises a storage error instead of committing.
Fault == faults < MaxFaults /\ faults' = faults + 1 /\ UNCHANGED <<phase, restarts>>

-----------------------------------------------------------------------------
(* API threads: service.create and service.cancel while requests are served. *)

AdmitRun(j, k, r) ==
    /\ phase = "serving"
    /\ CanCreateJob(j, "agent", k)
    /\ CreateJob(j, "agent", k, r)
    /\ UNCHANGED <<wk, irq, late, env, history>>

\* The caller's revision is current, or the call raises and changes nothing.
CancelRun(j) ==
    /\ Up
    /\ Exists(j)
    /\ CanRequestCancellation(j, job[j].revision)
    /\ RequestCancellation(j)
    /\ UNCHANGED <<wk, irq, late, env, history>>

-----------------------------------------------------------------------------
(* The lifespan. *)

StartProcess ==
    /\ phase \in {"down", "stopped"}
    /\ phase' = "recovering"
    /\ UNCHANGED <<job, log, wk, irq, late, restarts, faults, history>>

RecoverBatch ==
    /\ phase = "recovering"
    /\ \E batch \in SUBSET ActiveJobs :
         batch # {} /\ IsRecoveryBatch(batch) /\ RecoverInterruptedJobs(batch)
    /\ UNCHANGED <<wk, irq, late, env, history>>

StartSupervisor ==
    /\ phase = "recovering"
    /\ ActiveJobs = {}
    /\ phase' = "serving"
    /\ wk' = [w \in Workers |-> [NoTask EXCEPT !.pc = "ready"]]
    /\ UNCHANGED <<job, log, irq, late, restarts, faults, history>>

\* supervisor.stop() begins: no further claims.
BeginStop ==
    /\ phase = "serving"
    /\ restarts < MaxRestarts
    /\ restarts' = restarts + 1
    /\ phase' = "stopping"
    /\ UNCHANGED <<job, log, wk, irq, late, faults, history>>

\* The grace period is over: task.cancel() for every consumer still pending.
GraceExpires ==
    /\ phase = "stopping"
    /\ \A w \in Workers : wk[w].cancel = "no"
    /\ \E w \in Workers : ~At(w, "exited")
    /\ \A w \in Workers : At(w, "exited") \/ wk[w].pc \in Awaiting
    /\ wk' = [w \in Workers |-> IF At(w, "exited") THEN wk[w]
                                ELSE [wk[w] EXCEPT !.cancel = "requested"]]
    /\ UNCHANGED <<job, log, irq, late, env, history>>

\* gather() has returned and the thread pool has been joined.
EndStop ==
    /\ phase = "stopping"
    /\ \A w \in Workers : At(w, "exited") /\ late[w] = NoLate
    /\ \A x \in DOMAIN irq : irq[x].pc = "off"
    /\ phase' = "stopped"
    /\ wk' = [w \in Workers |-> NoTask]
    /\ UNCHANGED <<job, log, irq, late, restarts, faults, history>>

Crash ==
    /\ phase \notin {"down", "stopped"}
    /\ restarts < MaxRestarts
    /\ restarts' = restarts + 1
    /\ phase' = "down"
    /\ wk' = [w \in Workers |-> NoTask]
    /\ irq' = [x \in DOMAIN irq |-> NoThread]
    /\ late' = [w \in Workers |-> NoLate]
    /\ UNCHANGED <<job, log, faults, history>>

-----------------------------------------------------------------------------
(* The consumer: _worker, _iteration, _claim, _idle, _execute. *)

LoopHead(w) ==
    /\ At(w, "ready")
    /\ Go(w, IF Stop THEN "exited" ELSE "claiming")
    /\ UNCHANGED <<job, log, irq, late, env, history>>

\* The claim is shielded: it commits also when the task has been cancelled.
Claim(w) ==
    /\ At(w, "claiming")
    /\ \/ \E j \in Jobs :
            /\ IsOldest(j, Eligible)
            /\ ClaimJob(j)
            /\ wk' = [wk EXCEPT ![w] = [@ EXCEPT !.pc = "claimed", !.id = j, !.row = job'[j],
                                                 !.tries = 0, !.n = 0]]
            /\ UNCHANGED env
       \/ /\ Claimable(Eligible) = {}
          /\ Go(w, "waiting")
          /\ UNCHANGED <<job, log, env>>
       \/ /\ Fault /\ Go(w, "waiting") /\ UNCHANGED storeVars
    /\ UNCHANGED <<irq, late, history>>

\* A notification or the poll interval ends the wait; the hint is optional.
Idle(w) ==
    /\ At(w, "waiting")
    /\ Go(w, IF wk[w].cancel = "requested" THEN "exited" ELSE "ready")
    /\ UNCHANGED <<job, log, irq, late, env, history>>

\* A consumer that dies outside its handlers: _worker_done stops the others.
Die(w) ==
    /\ At(w, "waiting") /\ phase = "serving"
    /\ Fault
    /\ Go(w, "exited")
    /\ UNCHANGED <<job, log, irq, late, history>>

\* asyncio.to_thread(self._interrupt, job_id).
BeginReconcile(w, again, cancel) ==
    /\ wk' = [wk EXCEPT ![w] = [@ EXCEPT !.pc = "reconcile", !.again = again, !.cancel = cancel,
                                         !.tries = 0, !.row = NoRow]]
    /\ irq' = [irq EXCEPT ![<<w, "awaited">>] = [NoThread EXCEPT !.pc = "queued", !.id = wk[w].id]]

Dispatch(w) ==
    /\ At(w, "claimed")
    /\ \/ /\ wk[w].cancel = "requested"
          /\ BeginReconcile(w, FALSE, "delivered")
       \/ /\ wk[w].cancel = "no" /\ Stop
          /\ BeginReconcile(w, FALSE, "no")
       \/ /\ wk[w].cancel = "no" /\ ~Stop
          /\ Go(w, "starting")
          /\ UNCHANGED irq
    /\ UNCHANGED <<job, log, late, env, history>>

\* AgentJobExecutor.execute resolves the service, or raises.
ResolveService(w) ==
    /\ At(w, "starting") /\ wk[w].cancel = "no"
    /\ \/ Go(w, "step") /\ UNCHANGED irq
       \/ BeginReconcile(w, FALSE, "no")
    /\ UNCHANGED <<job, log, late, env, history>>

\* CancelledError at an await inside execute: reconcile, then leave.
CancelExecution(w) ==
    /\ wk[w].cancel = "requested"
    /\ wk[w].pc \in {"starting", "deciding", "recording"}
    /\ BeginReconcile(w, FALSE, "delivered")
    /\ \/ late' = late
       \/ /\ At(w, "recording")
          /\ late' = [late EXCEPT ![w] = [id |-> wk[w].id, n |-> wk[w].n]]
    /\ UNCHANGED <<job, log, env, history>>

\* CancelledError while _interrupt is awaited: the thread goes on, unless the
\* pool had not started it; line 198 reconciles once more, the others do not.
CancelReconcile(w) ==
    /\ At(w, "reconcile") /\ wk[w].cancel = "requested"
    /\ \E goesOn \in BOOLEAN :
         /\ irq[<<w, "awaited">>].pc # "queued" => goesOn
         /\ irq' = [irq EXCEPT
              ![<<w, "detached">>] = IF goesOn THEN irq[<<w, "awaited">>] ELSE NoThread,
              ![<<w, "awaited">>]  = IF wk[w].again
                                 THEN [NoThread EXCEPT !.pc = "queued", !.id = wk[w].id]
                                 ELSE NoThread]
    /\ wk' = [wk EXCEPT ![w].cancel = "delivered", ![w].again = FALSE]
    /\ UNCHANGED <<job, log, late, env, history>>

Reconciled(w) ==
    /\ At(w, "reconcile") /\ wk[w].cancel # "requested"
    /\ irq[<<w, "awaited">>].pc = "off"
    /\ wk' = [wk EXCEPT ![w] = IF @.cancel = "delivered" THEN NoTask
                               ELSE [NoTask EXCEPT !.pc = "ready"]]
    /\ UNCHANGED <<job, log, irq, late, env, history>>

-----------------------------------------------------------------------------
(* _interrupt, in the awaited or in a detached thread. *)

InterruptRead(x) ==
    /\ irq[x].pc \in {"queued", "retry"}
    /\ LET j == irq[x].id IN
       irq' = [irq EXCEPT ![x] =
                 IF @.tries = CASTries \/ job[j].state \notin ActiveJobStates
                 THEN NoThread
                 ELSE [@ EXCEPT !.pc = "cas", !.row = job[j]]]
    /\ UNCHANGED <<job, log, wk, late, env, history>>

InterruptWrite(x) ==
    /\ irq[x].pc = "cas"
    /\ LET j == irq[x].id
           can == CanTransitionJob(j, irq[x].row.revision, "interrupted", "none", "reported")
       IN \/ /\ can
             /\ TransitionJob(j, "interrupted", "none", "reported")
             /\ irq' = [irq EXCEPT ![x] = NoThread]
          \/ /\ ~can
             /\ irq' = [irq EXCEPT ![x].pc = "retry", ![x].tries = @ + 1, ![x].row = NoRow]
             /\ UNCHANGED storeVars
    /\ UNCHANGED <<wk, late, env, history>>

\* The error is swallowed by _reconcile; the row stays for startup recovery.
InterruptFault(x) ==
    /\ irq[x].pc # "off"
    /\ Fault
    /\ irq' = [irq EXCEPT ![x] = NoThread]
    /\ UNCHANGED <<job, log, wk, late, history>>

-----------------------------------------------------------------------------
(* execute_claimed up to the orchestrator's result. *)

MarkStepRunning(w) ==
    /\ At(w, "step")
    /\ LET j == wk[w].id
           can == CanTransitionStep(j, AGENT_STEP, Rev(w),
                                    Row(w).steps[AGENT_STEP].revision, "running")
       IN \/ /\ can
             /\ TransitionStep(j, AGENT_STEP, "running")
             /\ Enter(w, "running")
             /\ started' = [started EXCEPT ![j] = @ + 1]
          \/ /\ ~can
             /\ Enter(w, "except")
             /\ UNCHANGED <<job, log, started>>
    /\ UNCHANGED <<irq, late, env, outcome>>

\* The orchestrator returned a result: execute_claimed goes on to _finish.
Return(w, status) ==
    /\ Enter(w, "finish")
    /\ outcome' = [outcome EXCEPT ![wk[w].id] = status]

\* _DurableCancellationSignal.is_set() before a decision.
CheckCancel(w) ==
    /\ At(w, "running")
    /\ \/ /\ job[wk[w].id].state # "running"
          /\ Return(w, "cancelled")
       \/ /\ job[wk[w].id].state = "running"
          /\ Go(w, "deciding")
          /\ UNCHANGED outcome
    /\ UNCHANGED <<job, log, irq, late, env, started>>

\* A decision is awaited; it is recorded, or the run ends without a record.
Decide(w) ==
    /\ At(w, "deciding") /\ wk[w].cancel = "no"
    /\ \/ /\ wk[w].n < MaxDecisions
          /\ \E next \in {"running", "completed", "failed"} :
               wk' = [wk EXCEPT ![w].pc = "recording", ![w].n = @ + 1, ![w].next = next]
          /\ UNCHANGED outcome
       \/ Return(w, "failed")
       \/ /\ job[wk[w].id].state # "running"
          /\ Return(w, "cancelled")
    /\ UNCHANGED <<job, log, irq, late, env, started>>

Record(w) ==
    /\ At(w, "recording") /\ wk[w].cancel = "no"
    /\ LET j == wk[w].id IN
       \/ /\ CanAppendDecision(j, wk[w].n)
          /\ \E p \in Payloads : AppendDecision(j, wk[w].n, p)
          /\ IF wk[w].next = "running" THEN Go(w, "running") /\ UNCHANGED outcome
                                       ELSE Return(w, wk[w].next)
       \/ /\ ~CanAppendDecision(j, wk[w].n)
          /\ Enter(w, "except")
          /\ UNCHANGED <<job, log, outcome>>
    /\ UNCHANGED <<irq, late, env, started>>

\* A detached append thread commits if the run is still active.
LateRecord(w) ==
    /\ late[w] # NoLate
    /\ \/ /\ CanAppendDecision(late[w].id, late[w].n)
          /\ \E p \in Payloads : AppendDecision(late[w].id, late[w].n, p)
       \/ ~CanAppendDecision(late[w].id, late[w].n) /\ UNCHANGED storeVars
    /\ late' = [late EXCEPT ![w] = NoLate]
    /\ UNCHANGED <<wk, irq, env, history>>

-----------------------------------------------------------------------------
(* _finish: re-read, then commit what the row's state asks for. *)

\* Mutant: the orchestrator's status is not looked at.
FinishReadBlind(w) ==
    /\ At(w, "finish")
    /\ LET j == wk[w].id IN
       \/ /\ job[j].state \in ActiveJobStates
          /\ wk' = [wk EXCEPT ![w].row = job[j],
                              ![w].pc = IF job[j].state = "cancelling" THEN "ack" ELSE "succeedStep"]
          /\ UNCHANGED irq
       \/ /\ job[j].state \notin ActiveJobStates
          /\ BeginReconcile(w, TRUE, wk[w].cancel)
    /\ UNCHANGED <<job, log, late, env, history>>

FinishRead(w) ==
    /\ At(w, "finish")
    /\ LET j == wk[w].id IN
       \/ /\ wk[w].tries = CASTries
          /\ Enter(w, "except")
          /\ UNCHANGED irq
       \/ /\ wk[w].tries < CASTries /\ job[j].state \in ActiveJobStates
          /\ wk' = [wk EXCEPT ![w].row = job[j],
                              ![w].pc = IF job[j].state = "cancelling" THEN "ack"
                                        ELSE IF outcome[j] = "completed" THEN "succeedStep"
                                        ELSE "failJob"]
          /\ UNCHANGED irq
       \/ /\ wk[w].tries < CASTries /\ job[j].state \notin ActiveJobStates
          /\ BeginReconcile(w, TRUE, wk[w].cancel)
    /\ UNCHANGED <<job, log, late, env, history>>

Acknowledge(w) ==
    /\ At(w, "ack")
    /\ LET can == CanAcknowledgeCancellation(wk[w].id, Rev(w), "value") IN
       \/ /\ can
          /\ AcknowledgeCancellation(wk[w].id, "value")
          /\ BeginReconcile(w, TRUE, wk[w].cancel)
       \/ ~can /\ Retry(w, "finish") /\ UNCHANGED <<job, log, irq>>
    /\ UNCHANGED <<late, env, history>>

SucceedStep(w) ==
    /\ At(w, "succeedStep")
    /\ LET j == wk[w].id
           can == CanTransitionStep(j, AGENT_STEP, Rev(w),
                                    Row(w).steps[AGENT_STEP].revision, "succeeded")
       IN \/ /\ can
             /\ TransitionStep(j, AGENT_STEP, "succeeded")
             /\ wk' = [wk EXCEPT ![w].pc = "succeedJob", ![w].row = job'[j]]
          \/ ~can /\ Retry(w, "finish") /\ UNCHANGED storeVars
    /\ UNCHANGED <<irq, late, env, history>>

SucceedJob(w) ==
    /\ At(w, "succeedJob")
    /\ LET can == CanTransitionJob(wk[w].id, Rev(w), "succeeded", "value", "none") IN
       \/ /\ can
          /\ TransitionJob(wk[w].id, "succeeded", "value", "none")
          /\ BeginReconcile(w, TRUE, wk[w].cancel)
       \/ ~can /\ Retry(w, "finish") /\ UNCHANGED <<job, log, irq>>
    /\ UNCHANGED <<late, env, history>>

FailJob(w) ==
    /\ At(w, "failJob")
    /\ LET can == CanTransitionJob(wk[w].id, Rev(w), "failed", "value", "reported") IN
       \/ /\ can
          /\ TransitionJob(wk[w].id, "failed", "value", "reported")
          /\ BeginReconcile(w, TRUE, wk[w].cancel)
       \/ ~can /\ Retry(w, "finish") /\ UNCHANGED <<job, log, irq>>
    /\ UNCHANGED <<late, env, history>>

-----------------------------------------------------------------------------
(* The exception handler of execute_claimed. *)

HandlerRead(w) ==
    /\ At(w, "except")
    /\ LET st == job[wk[w].id].state IN
       \/ /\ wk[w].tries < CASTries /\ st \in ActiveJobStates
          /\ wk' = [wk EXCEPT ![w].row = job[wk[w].id],
                              ![w].pc = IF st = "cancelling" THEN "exAck" ELSE "exFail"]
          /\ UNCHANGED irq
       \/ /\ wk[w].tries = CASTries \/ st \notin ActiveJobStates
          /\ BeginReconcile(w, TRUE, wk[w].cancel)
    /\ UNCHANGED <<job, log, late, env, history>>

HandlerWrite(w) ==
    /\ wk[w].pc \in {"exAck", "exFail"}
    /\ LET j == wk[w].id
           can == IF At(w, "exAck") THEN CanAcknowledgeCancellation(j, Rev(w), "none")
                  ELSE CanTransitionJob(j, Rev(w), "failed", "none", "reported")
       IN \/ /\ can
             /\ IF At(w, "exAck") THEN AcknowledgeCancellation(j, "none")
                                  ELSE TransitionJob(j, "failed", "none", "reported")
             /\ BeginReconcile(w, TRUE, wk[w].cancel)
          \/ ~can /\ Retry(w, "except") /\ UNCHANGED <<job, log, irq>>
    /\ UNCHANGED <<late, env, history>>

\* A storage error in a repository call of the executor: the handler runs, or,
\* inside the handler, the error reaches _execute (line 201).
ExecutorFault(w) ==
    /\ Fault
    /\ \/ /\ wk[w].pc \in {"step", "running", "finish", "ack", "succeedStep",
                           "succeedJob", "failJob"}
          /\ Enter(w, "except")
          /\ UNCHANGED irq
       \/ /\ At(w, "recording") /\ wk[w].cancel = "no"
          /\ Enter(w, "except")
          /\ UNCHANGED irq
       \/ /\ wk[w].pc \in {"except", "exAck", "exFail"}
          /\ BeginReconcile(w, FALSE, wk[w].cancel)
    /\ UNCHANGED <<job, log, late, history>>

-----------------------------------------------------------------------------
WorkerStep(w) ==
    \/ LoopHead(w) \/ Claim(w) \/ Idle(w) \/ Dispatch(w) \/ ResolveService(w)
    \/ CancelExecution(w) \/ CancelReconcile(w) \/ Reconciled(w)
    \/ MarkStepRunning(w) \/ CheckCancel(w) \/ Decide(w) \/ Record(w) \/ LateRecord(w)
    \/ FinishRead(w) \/ Acknowledge(w) \/ SucceedStep(w) \/ SucceedJob(w) \/ FailJob(w)
    \/ HandlerRead(w) \/ HandlerWrite(w)

ThreadStep(x) == InterruptRead(x) \/ InterruptWrite(x)

LifespanStep == StartProcess \/ RecoverBatch \/ StartSupervisor \/ GraceExpires \/ EndStop

Next ==
    \/ \E j \in Jobs, k \in Keys, r \in Requests : AdmitRun(j, k, r)
    \/ \E j \in Jobs : CancelRun(j)
    \/ LifespanStep \/ BeginStop \/ Crash
    \/ \E w \in Workers : WorkerStep(w) \/ Die(w) \/ ExecutorFault(w)
    \/ \E x \in DOMAIN irq : ThreadStep(x) \/ InterruptFault(x)

Spec == Init /\ [][Next]_vars

\* The event loop runs every ready task, the pool every submitted thread, and
\* an operator restarts a process that is down.  Nothing is assumed about
\* clients, crashes, shutdowns or storage errors.
Fairness ==
    /\ \A w \in Workers : WF_vars(WorkerStep(w))
    /\ \A x \in Workers \X {"awaited", "detached"} : WF_vars(ThreadStep(x))
    /\ WF_vars(LifespanStep)

FairSpec == Spec /\ Fairness

-----------------------------------------------------------------------------
(* Properties. *)

OwningPCs == PCs \ {"exited", "ready", "claiming", "waiting"}

Owners(j) == {w \in Workers : wk[w].id = j /\ wk[w].pc \in OwningPCs}

\* Two consumers never execute one job, across claims, interruptions, crashes
\* and restarts.
OneOwner == \A j \in Jobs : Cardinality(Owners(j)) <= 1

\* A job's orchestrator is started at most once in the life of the database:
\* neither a retry, a recovery nor a restart replays external effects.
NeverReplayed == \A j \in Jobs : started[j] <= 1

\* A run is executed once: by one owner at a time, and never again.
ExecutedOnce == OneOwner /\ NeverReplayed

\* The bounded compare-and-set loops are long enough: a client cancellation
\* and a late decision are the only rivals of an owner, and a storage error
\* ends a loop, so no loop uses up its attempts.
RetriesSuffice ==
    /\ \A w \in Workers : wk[w].tries < CASTries
    /\ \A x \in DOMAIN irq : irq[x].tries < CASTries

\* The stored outcome is the orchestrator's: success only for a completed run,
\* and a completed run is only ever recorded as succeeded, cancelled or
\* interrupted, also when a cancellation lands between the two commits of
\* _finish (storage errors aside).
OutcomeHonoured ==
    \A j \in Jobs : Exists(j) =>
        /\ job[j].state = "succeeded" => outcome[j] = "completed"
        /\ faults = 0 /\ outcome[j] = "completed" => job[j].state # "failed"
        /\ faults = 0 /\ job[j].result = "value" => outcome[j] # "none"

\* What ends a run tells the truth about it, and gets it stored; the state is
\* well formed throughout.
EndingIsFaithful == TypeOK /\ OutcomeHonoured /\ RetriesSuffice

Settled(j) == Exists(j) /\ job[j].state \in TerminalJobStates

\* Every admitted run is eventually settled, also through restarts: a queued
\* run is not forgotten, although the notification is only a hint, and a
\* claimed one finishes, is cancelled, is interrupted by its worker, or is
\* recovered after a crash (storage errors aside).
AdmittedRunsSettle == \A j \in Jobs : Exists(j) ~> (Settled(j) \/ faults > 0)
=============================================================================
