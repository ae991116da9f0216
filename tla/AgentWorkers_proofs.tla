------------------------- MODULE AgentWorkers_proofs -------------------------
(***************************************************************************)
(* Proofs about durable Agent execution, for any number of jobs, workers,  *)
(* restarts and failing storage calls.                                     *)
(*                                                                         *)
(* A consumer holds the row it has claimed, and so does an interruption or *)
(* an append that it has left behind in a thread.  No job is held by two   *)
(* consumers, because a claim needs a queued row and no method makes a row *)
(* queued again.  So an owner that compares and sets a row has few rivals: *)
(* one cancellation by a client and, once it reconciles, one late append.  *)
(* The invariant counts the attempts used together with those the rivals   *)
(* that are left can still cost.                                           *)
(***************************************************************************)
EXTENDS AgentWorkers, JobStore_proofs

Kinds == {"awaited", "detached"}

\* The loops of _finish and of the exception handler: before the row is read
\* again, and with a row in hand.
LoopHeads == {"finish", "except"}
Writing == {"ack", "succeedStep", "succeedJob", "failJob", "exAck", "exFail"}

Preparing == {"claimed", "starting", "step"}
Deciding == {"running", "deciding", "recording"}
Finishing == {"finish", "ack", "succeedStep", "succeedJob", "failJob"}
Handling == {"except", "exAck", "exFail"}

Owning(t) == t.pc \in OwningPCs
On(h) == h.pc # "off"
One(b) == IF b THEN 1 ELSE 0

\* The jobs whose row a consumer, or a thread it has left behind, may write.
Held(w) == {j \in Jobs : \/ Owning(wk[w]) /\ wk[w].id = j
                         \/ \E k \in Kinds : On(irq[<<w, k>>]) /\ irq[<<w, k>>].id = j
                         \/ late[w] # NoLate /\ late[w].id = j}

HoldersApart == \A w, v \in Workers : w # v => Held(w) \cap Held(v) = {}
HeldIsClaimed == \A w \in Workers : \A j \in Held(w) : ~Waiting(j)

\* What the pc of a task says of the row it owns.
RowFits(t, row) ==
    /\ t.pc # "reconcile" => row.state \in ActiveJobStates
    /\ t.pc = "reconcile" /\ t.again => row.state \notin ActiveJobStates
    /\ t.pc \in {"ack", "exAck"} => t.row.state = "cancelling"
    /\ t.pc \in {"succeedStep", "succeedJob", "failJob", "exFail"} => t.row.state = "running"
    /\ row.state = "running" /\ t.pc \in Deciding \cup {"finish", "succeedStep", "failJob"} =>
         row.steps[AGENT_STEP].state = "running"
    /\ row.state = "running" /\ t.pc = "succeedJob" => row.steps[AGENT_STEP].state = "succeeded"

\* Attempts used, and those that a write of someone else has cost already or
\* can still cost: a running job may be cancelled once.
TriesFit(t, row) ==
    IF t.pc \in LoopHeads \cup Writing
    THEN t.tries + One(t.pc \in Writing /\ t.row # row) + One(row.state = "running") <= 1
    ELSE t.tries = 0

\* What the pc of a task says of the orchestrator's run.
RunFits(t, runs, status) ==
    /\ t.pc \in Preparing => runs = 0
    /\ t.pc \in Preparing \cup Deciding => status = "none"
    /\ t.pc \in Finishing => status # "none"
    /\ t.pc \in {"succeedStep", "succeedJob"} => status = "completed"
    /\ t.pc = "failJob" => status # "completed"
    /\ t.pc \in Handling /\ faults = 0 => status = "none"
    /\ t.pc = "recording" => t.n > 0

TaskSound(w) ==
    IF Owning(wk[w])
    THEN LET j == wk[w].id IN
         /\ j \in Jobs
         /\ RowFits(wk[w], job[j]) /\ TriesFit(wk[w], job[j])
         /\ RunFits(wk[w], started[j], outcome[j])
    ELSE wk[w].tries = 0

\* An interruption has one more rival, the append its consumer left behind.
ThreadFits(h, row, pending) ==
    /\ h.pc = "cas" => row.state \in ActiveJobStates
    /\ h.tries + One(h.pc = "cas" /\ h.row # row) + One(row.state = "running")
         + One(pending) <= 2

ThreadSound(w, k) ==
    IF On(irq[<<w, k>>])
    THEN irq[<<w, k>>].id \in Jobs /\ ThreadFits(irq[<<w, k>>], job[irq[<<w, k>>].id], late[w] # NoLate)
    ELSE irq[<<w, k>>].tries = 0

\* Which threads a consumer may have, and when: an append and an interruption
\* are left behind by a cancelled task only, and two interruptions of a job
\* are under way only when the job has ended.
ThreadsFollow(w) ==
    /\ On(irq[<<w, "awaited">>]) => At(w, "reconcile") /\ irq[<<w, "awaited">>].id = wk[w].id
    /\ On(irq[<<w, "detached">>]) \/ late[w] # NoLate =>
         \/ At(w, "exited")
         \/ At(w, "reconcile") /\ wk[w].cancel = "delivered"
    /\ On(irq[<<w, "detached">>]) /\ At(w, "reconcile") =>
         ~wk[w].again /\ irq[<<w, "detached">>].id = wk[w].id
    /\ late[w] # NoLate =>
         ~On(irq[<<w, "detached">>]) /\ (At(w, "reconcile") => late[w].id = wk[w].id)
    /\ On(irq[<<w, "awaited">>]) /\ On(irq[<<w, "detached">>]) =>
         job[wk[w].id].state \notin ActiveJobStates

WorkerSound(w) ==
    TaskSound(w) /\ ThreadsFollow(w) /\ \A k \in Kinds : ThreadSound(w, k)

\* No consumer and no thread of a process that does not serve.
Silent(w) == wk[w] = NoTask /\ late[w] = NoLate /\ \A k \in Kinds : ~On(irq[<<w, k>>])
QuietOutside == ~Up => \A w \in Workers : Silent(w)

Honest(j) ==
    Exists(j) =>
        /\ job[j].state = "succeeded" => outcome[j] = "completed"
        /\ faults = 0 /\ outcome[j] = "completed" => job[j].state # "failed"
        /\ faults = 0 /\ job[j].result = "value" => outcome[j] # "none"

JobSound(j) ==
    /\ Exists(j) => job[j].namespace = "agent"
    /\ Waiting(j) => started[j] = 0 /\ outcome[j] = "none"
    /\ started[j] <= 1
    /\ Honest(j)

WInv ==
    /\ StoreInv /\ TypeOK
    /\ HoldersApart /\ HeldIsClaimed /\ QuietOutside
    /\ \A w \in Workers : WorkerSound(w)
    /\ \A j \in Jobs : JobSound(j)

-----------------------------------------------------------------------------
(* Typed updates of a consumer. *)

LEMMA SingleStep == AGENT_STEP \in Steps /\ \A s \in Steps : s = AGENT_STEP
  BY WorkersAssumption DEF AGENT_STEP

LEMMA NoTaskTyped == NoTask \in Task /\ [NoTask EXCEPT !.pc = "ready"] \in Task
<1>1. 0 \in 0..CASTries /\ 0 \in 0..MaxDecisions
  BY WorkersAssumption, StoreAssumption
<1>2. NoTask \in Task
  BY <1>1 DEF NoTask, Task, PCs
<1>3. "ready" \in PCs
  BY DEF PCs
<1> QED
  BY <1>2, <1>3 DEF Task

LEMMA NoThreadTyped == NoThread \in Thread
  BY WorkersAssumption DEF NoThread, Thread

\* The other consumers and their threads are left alone.
OthersStay(w) ==
    \A v \in Workers : v # w => /\ wk'[v] = wk[v] /\ late'[v] = late[v]
                                /\ \A k \in Kinds : irq'[<<v, k>>] = irq[<<v, k>>]

SameRun(t, old) == t.id = old.id /\ t.n = old.n /\ t.next = old.next
                   /\ t.cancel = old.cancel /\ t.again = old.again

LEMMA GoBecomes ==
    ASSUME TypeOK, NEW w \in Workers, NEW pc \in PCs, Go(w, pc)
    PROVE  \E t \in Task : /\ wk' = [wk EXCEPT ![w] = t]
                           /\ t.pc = pc /\ t.tries = wk[w].tries /\ t.row = wk[w].row
                           /\ SameRun(t, wk[w])
<1> DEFINE t == [wk[w] EXCEPT !.pc = pc]
<1>1. wk[w] \in Task
  BY DEF TypeOK
<1>2. t \in Task /\ t.pc = pc /\ t.tries = wk[w].tries /\ t.row = wk[w].row /\ SameRun(t, wk[w])
  BY <1>1 DEF Task, SameRun
<1>3. wk' = [wk EXCEPT ![w] = t]
  BY DEF Go
<1> HIDE DEF t
<1> QED
  BY <1>2, <1>3

LEMMA EnterBecomes ==
    ASSUME TypeOK, NEW w \in Workers, NEW pc \in PCs, Enter(w, pc)
    PROVE  \E t \in Task : /\ wk' = [wk EXCEPT ![w] = t]
                           /\ t.pc = pc /\ t.tries = 0 /\ SameRun(t, wk[w])
<1> DEFINE t == [wk[w] EXCEPT !.pc = pc, !.tries = 0, !.row = NoRow]
<1>1. wk[w] \in Task /\ 0 \in 0..CASTries
  BY WorkersAssumption DEF TypeOK
<1>2. t \in Task /\ t.pc = pc /\ t.tries = 0 /\ SameRun(t, wk[w])
  BY <1>1 DEF Task, SameRun
<1>3. wk' = [wk EXCEPT ![w] = t]
  BY <1>1 DEF Enter, TypeOK, Task
<1> HIDE DEF t
<1> QED
  BY <1>2, <1>3

LEMMA RetryBecomes ==
    ASSUME TypeOK, NEW w \in Workers, NEW pc \in PCs, Retry(w, pc), wk[w].tries < CASTries
    PROVE  \E t \in Task : /\ wk' = [wk EXCEPT ![w] = t]
                           /\ t.pc = pc /\ t.tries = wk[w].tries + 1 /\ SameRun(t, wk[w])
<1> DEFINE t == [wk[w] EXCEPT !.pc = pc, !.tries = @ + 1, !.row = NoRow]
<1>1. wk[w] \in Task /\ wk[w].tries + 1 \in 0..CASTries
  BY WorkersAssumption DEF TypeOK, Task
<1>2. t \in Task /\ t.pc = pc /\ t.tries = wk[w].tries + 1 /\ SameRun(t, wk[w])
  BY <1>1 DEF Task, SameRun
<1>3. wk' = [wk EXCEPT ![w] = t]
  BY <1>1 DEF Retry, TypeOK, Task
<1> HIDE DEF t
<1> QED
  BY <1>2, <1>3

\* _interrupt is submitted for the job of w.
LEMMA ReconcileBecomes ==
    ASSUME TypeOK, NEW w \in Workers, wk[w].id \in Jobs, NEW again \in BOOLEAN,
           NEW cancel \in {"no", "requested", "delivered"},
           BeginReconcile(w, again, cancel)
    PROVE  /\ wk' \in [Workers -> Task]
           /\ irq' \in [Workers \X Kinds -> Thread]
           /\ wk'[w].pc = "reconcile" /\ wk'[w].id = wk[w].id /\ wk'[w].tries = 0
           /\ wk'[w].again = again /\ wk'[w].cancel = cancel
           /\ irq'[<<w, "awaited">>].pc = "queued" /\ irq'[<<w, "awaited">>].id = wk[w].id
           /\ irq'[<<w, "awaited">>].tries = 0
           /\ irq'[<<w, "detached">>] = irq[<<w, "detached">>]
           /\ \A v \in Workers : v # w =>
                wk'[v] = wk[v] /\ \A k \in Kinds : irq'[<<v, k>>] = irq[<<v, k>>]
<1> DEFINE t == [wk[w] EXCEPT !.pc = "reconcile", !.again = again, !.cancel = cancel,
                              !.tries = 0, !.row = NoRow]
           h == [NoThread EXCEPT !.pc = "queued", !.id = wk[w].id]
<1>1. wk[w] \in Task /\ 0 \in 0..CASTries /\ "reconcile" \in PCs
  BY WorkersAssumption DEF TypeOK, PCs
<1>2. /\ t \in Task /\ t.pc = "reconcile" /\ t.id = wk[w].id /\ t.tries = 0
      /\ t.again = again /\ t.cancel = cancel
  BY <1>1 DEF Task
<1>3. h \in Thread /\ h.pc = "queued" /\ h.id = wk[w].id /\ h.tries = 0
  BY <1>1 DEF NoThread, Thread
<1>4. wk' = [wk EXCEPT ![w] = t] /\ irq' = [irq EXCEPT ![<<w, "awaited">>] = h]
  BY DEF BeginReconcile
<1> HIDE DEF t, h
<1>5. irq \in [Workers \X Kinds -> Thread] /\ wk \in [Workers -> Task]
  BY DEF TypeOK, Kinds
<1>6. /\ irq' \in [Workers \X Kinds -> Thread] /\ irq'[<<w, "awaited">>] = h
      /\ irq'[<<w, "detached">>] = irq[<<w, "detached">>]
      /\ \A v \in Workers : v # w => \A k \in Kinds : irq'[<<v, k>>] = irq[<<v, k>>]
  BY <1>3, <1>4, <1>5 DEF Kinds
<1>7. wk' \in [Workers -> Task] /\ wk'[w] = t /\ \A v \in Workers : v # w => wk'[v] = wk[v]
  BY <1>2, <1>4, <1>5
<1> QED
  BY <1>2, <1>3, <1>6, <1>7

-----------------------------------------------------------------------------
(* What a step leaves as it was. *)

TablesTyped ==
    /\ started \in [Jobs -> Nat]
    /\ outcome \in [Jobs -> {"none", "completed", "failed", "cancelled"}]
    /\ faults \in 0..MaxFaults /\ restarts \in 0..MaxRestarts

ThreadsTyped ==
    /\ wk \in [Workers -> Task]
    /\ irq \in [Workers \X Kinds -> Thread]
    /\ late \in [Workers -> LateAppend \cup {NoLate}]

\* Nothing about job j changes.
JobStays(j) == job'[j] = job[j] /\ started'[j] = started[j] /\ outcome'[j] = outcome[j]

\* A storage error is not forgotten.
FaultsStay == faults' = 0 => faults = 0

LEMMA HonestStays ==
    ASSUME NEW j \in Jobs, JobSound(j), JobStays(j), FaultsStay
    PROVE  JobSound(j)'
  BY DEF JobSound, Honest, JobStays, FaultsStay, Exists, Waiting

\* A consumer is as sound as it was when nothing it holds changes.
LEMMA WorkerStays ==
    ASSUME NEW v \in Workers, WorkerSound(v), FaultsStay,
           wk'[v] = wk[v], late'[v] = late[v],
           \A k \in Kinds : irq'[<<v, k>>] = irq[<<v, k>>],
           \A i \in Held(v) : JobStays(i)
    PROVE  WorkerSound(v)' /\ Held(v)' = Held(v)
<1> DEFINE j == wk[v].id
<1>1. Held(v)' = Held(v)
  BY DEF Held
<1>2. ASSUME Owning(wk[v]) PROVE j \in Jobs /\ JobStays(j)
  BY <1>2 DEF WorkerSound, TaskSound, Held
<1>3. TaskSound(v)'
  <2>1. CASE ~Owning(wk[v])
    BY <2>1 DEF WorkerSound, TaskSound
  <2>2. CASE Owning(wk[v])
    <3>1. /\ j \in Jobs /\ wk'[v].id = j
          /\ job'[j] = job[j] /\ started'[j] = started[j] /\ outcome'[j] = outcome[j]
          /\ RowFits(wk[v], job[j]) /\ TriesFit(wk[v], job[j])
          /\ RunFits(wk[v], started[j], outcome[j])
      BY <1>2, <2>2 DEF JobStays, WorkerSound, TaskSound
    <3>2. RunFits(wk[v], started[j], outcome[j])'
      BY <3>1 DEF RunFits, FaultsStay
    <3> QED
      BY <2>2, <3>1, <3>2 DEF TaskSound
  <2> QED
    BY <2>1, <2>2
<1>4. ASSUME NEW k \in Kinds PROVE ThreadSound(v, k)'
  <2>1. ThreadSound(v, k)
    BY DEF WorkerSound
  <2>2. On(irq[<<v, k>>]) => irq[<<v, k>>].id \in Held(v)
    BY <2>1 DEF ThreadSound, Held
  <2> QED
    BY <2>1, <2>2 DEF ThreadSound, JobStays
<1>5. ThreadsFollow(v)'
  <2>1. ThreadsFollow(v) /\ "awaited" \in Kinds /\ "detached" \in Kinds
    BY DEF WorkerSound, Kinds
  <2>2. On(irq[<<v, "awaited">>]) => JobStays(j)
    BY <1>2, <2>1 DEF ThreadsFollow, At, Owning, OwningPCs, PCs
  <2> QED
    BY <2>1, <2>2 DEF ThreadsFollow, JobStays, At
<1> QED
  BY <1>1, <1>3, <1>4, <1>5 DEF WorkerSound

\* A step that touches one held job touches nothing that another holds.
LEMMA OthersKeepTheirs ==
    ASSUME HoldersApart, NEW w \in Workers, NEW j \in Held(w),
           \A i \in Jobs : i # j => JobStays(i)
    PROVE  \A v \in Workers : v # w => \A i \in Held(v) : JobStays(i)
<1> SUFFICES ASSUME NEW v \in Workers, v # w, NEW i \in Held(v) PROVE JobStays(i)
  OBVIOUS
<1>1. i \in Jobs
  BY DEF Held
<1>2. i # j
  BY DEF HoldersApart
<1> QED
  BY <1>1, <1>2

\* A step of one consumer, its threads, or a client: what the other consumers
\* hold is not touched, and what is newly held was waiting to be claimed.
LEMMA OneMoves ==
    ASSUME WInv, StoreKept, ThreadsTyped', TablesTyped', phase' = phase, FaultsStay,
           NEW w \in Workers, OthersStay(w),
           \A v \in Workers : v # w => \A i \in Held(v) : JobStays(i),
           WorkerSound(w)',
           ~Up => Silent(w)',
           \A i \in Held(w)' : i \in Held(w) \/ (Waiting(i) /\ ~Waiting(i)'),
           \A i \in Jobs : JobSound(i)'
    PROVE  WInv'
<1> USE DEF WInv
<1>1. /\ StoreInv'
      /\ \A j \in Jobs : Waiting(j)' => Waiting(j)
  BY KeptRows
<1>2. TypeOK'
  BY <1>1 DEF TypeOK, ThreadsTyped, TablesTyped, StoreInv, Kinds
<1>3. ASSUME NEW v \in Workers, v # w PROVE WorkerSound(v)' /\ Held(v)' = Held(v)
  BY <1>3, WorkerStays DEF OthersStay
<1>4. \A v \in Workers : Held(v) \subseteq Jobs /\ Held(v)' \subseteq Jobs
  BY DEF Held
<1>5. HeldIsClaimed'
  BY <1>1, <1>3, <1>4 DEF HeldIsClaimed
<1>6. HoldersApart'
  <2>1. ASSUME NEW v \in Workers, v # w PROVE Held(w)' \cap Held(v)' = {}
    BY <1>3, <2>1 DEF HoldersApart, HeldIsClaimed
  <2> QED
    BY <1>3, <2>1 DEF HoldersApart
<1>7. QuietOutside'
  <2>1. Up' <=> Up
    BY DEF Up
  <2>2. ASSUME NEW v \in Workers, v # w, Silent(v) PROVE Silent(v)'
    BY <2>2 DEF Silent, OthersStay
  <2> QED
    BY <2>1, <2>2 DEF QuietOutside
<1> QED
  BY <1>1, <1>2, <1>3, <1>5, <1>6, <1>7

\* Before it reconciles, an owner has left no thread behind.
LEMMA OwnerHasNoThreads ==
    ASSUME NEW w \in Workers, WorkerSound(w), Owning(wk[w]), ~At(w, "reconcile")
    PROVE  /\ \A k \in Kinds : ~On(irq[<<w, k>>]) /\ irq[<<w, k>>].tries = 0
           /\ late[w] = NoLate
           /\ Held(w) = {wk[w].id} /\ wk[w].id \in Jobs
<1>1. ~At(w, "exited")
  BY DEF Owning, OwningPCs, At
<1>2. \A k \in Kinds : ~On(irq[<<w, k>>])
  BY <1>1 DEF WorkerSound, ThreadsFollow, Kinds
<1>3. late[w] = NoLate
  BY <1>1 DEF WorkerSound, ThreadsFollow
<1>4. \A k \in Kinds : irq[<<w, k>>].tries = 0
  BY <1>2 DEF WorkerSound, ThreadSound
<1>5. wk[w].id \in Jobs
  BY DEF WorkerSound, TaskSound
<1> QED
  BY <1>2, <1>3, <1>4, <1>5 DEF Held

\* What an owner holds is in the store, an Agent run, and active until it
\* reconciles.
LEMMA OwnedRow ==
    ASSUME WInv, NEW w \in Workers, Owning(wk[w])
    PROVE  /\ wk[w].id \in Jobs /\ Exists(wk[w].id) /\ ~Waiting(wk[w].id)
           /\ job[wk[w].id] \in JobRow /\ RowConsistent(job[wk[w].id])
           /\ job[wk[w].id].namespace = "agent"
           /\ job[wk[w].id].steps \in [Steps -> StepRow]
           /\ ~At(w, "reconcile") => job[wk[w].id].state \in ActiveJobStates
           /\ Up /\ wk[w] \in Task
           /\ wk[w].id \in Held(w)
<1> DEFINE j == wk[w].id
<1>1. j \in Jobs /\ j \in Held(w) /\ RowFits(wk[w], job[j])
  BY DEF WInv, WorkerSound, TaskSound, Held
<1>2. ~Waiting(j) /\ Exists(j)
  BY <1>1 DEF WInv, HeldIsClaimed, Waiting
<1>3. /\ job[j] \in JobRow /\ RowConsistent(job[j]) /\ job[j].namespace = "agent"
      /\ job[j].steps \in [Steps -> StepRow]
  BY <1>1, <1>2, StoredRow DEF WInv, JobSound
<1>4. Up
  BY DEF WInv, QuietOutside, Silent, NoTask, Owning, OwningPCs
<1>5. wk[w] \in Task
  BY DEF WInv, TypeOK
<1> QED
  BY <1>1, <1>2, <1>3, <1>4, <1>5 DEF RowFits, At

-----------------------------------------------------------------------------
(* The two ways an owner goes on. *)

\* It goes on with the job, which is still active: nothing can be wrong about
\* its outcome yet.
LEMMA OwnerGoesOn ==
    ASSUME WInv, StoreKept, TablesTyped', phase' = phase, FaultsStay,
           NEW w \in Workers, Owning(wk[w]), ~At(w, "reconcile"),
           NEW t \in Task, wk' = [wk EXCEPT ![w] = t], UNCHANGED <<irq, late>>,
           Owning(t), t.pc # "reconcile", t.id = wk[w].id,
           \A i \in Jobs : i # t.id => JobStays(i),
           RowFits(t, job'[t.id]), TriesFit(t, job'[t.id]),
           RunFits(t, started[t.id], outcome[t.id])', started'[t.id] <= 1
    PROVE  WInv'
<1> DEFINE j == t.id
<1>1. /\ j \in Jobs /\ ~Waiting(j) /\ Exists(j) /\ Up /\ Held(w) = {j}
      /\ job[j].namespace = "agent" /\ late[w] = NoLate
      /\ \A k \in Kinds : ~On(irq[<<w, k>>]) /\ irq[<<w, k>>].tries = 0
  BY OwnedRow, OwnerHasNoThreads DEF WInv
<1>2. /\ StoreInv' /\ ~Waiting(j)' /\ Exists(j)' /\ job'[j].namespace = "agent"
  BY <1>1, KeptRows DEF WInv
<1>3. ThreadsTyped' /\ wk'[w] = t /\ OthersStay(w)
  BY DEF WInv, TypeOK, ThreadsTyped, Kinds, OthersStay
<1>4. TaskSound(w)'
  BY <1>1, <1>3 DEF TaskSound
<1>5. ThreadsFollow(w)' /\ \A k \in Kinds : ThreadSound(w, k)'
  BY <1>1 DEF ThreadsFollow, ThreadSound, Kinds
<1>6. Held(w)' = {j}
  BY <1>1, <1>3 DEF Held
<1>7. JobSound(j)'
  <2>1. job'[j].state \in ActiveJobStates /\ RowConsistent(job[j])'
    BY <1>1, <1>2 DEF RowFits, StoreInv, OutcomeConsistent
  <2>2. Honest(j)'
    BY <1>1, <2>1 DEF Honest, RowConsistent, ActiveJobStates, TerminalJobStates
  <2> QED
    BY <1>2, <2>2 DEF JobSound
<1>8. \A i \in Jobs : JobSound(i)'
  <2>1. ASSUME NEW i \in Jobs, i # j PROVE JobSound(i)'
    BY <2>1, HonestStays DEF WInv
  <2> QED
    BY <1>7, <2>1
<1>9. \A v \in Workers : v # w => \A i \in Held(v) : JobStays(i)
  BY <1>1, OthersKeepTheirs DEF WInv
<1> QED
  BY <1>1, <1>3, <1>4, <1>5, <1>6, <1>8, <1>9, OneMoves DEF WorkerSound

\* The owner submits _interrupt; a cancelled one may leave an append behind.
LEMMA OwnerReconciles ==
    ASSUME WInv, StoreKept, TablesTyped', phase' = phase, FaultsStay,
           NEW w \in Workers, Owning(wk[w]), ~At(w, "reconcile"),
           NEW again \in BOOLEAN, NEW cancel \in {"no", "requested", "delivered"},
           BeginReconcile(w, again, cancel),
           NEW j \in Jobs, j = wk[w].id,
           \/ late' = late
           \/ /\ cancel = "delivered" /\ ~again
              /\ \E m \in 1..MaxDecisions : late' = [late EXCEPT ![w] = [id |-> j, n |-> m]],
           \A i \in Jobs : i # j => JobStays(i),
           again => job'[j].state \notin ActiveJobStates,
           started'[j] <= 1, Honest(j)'
    PROVE  WInv'
<1>1. /\ ~Waiting(j) /\ Exists(j) /\ Up /\ Held(w) = {j}
      /\ job[j].namespace = "agent" /\ late[w] = NoLate
      /\ \A k \in Kinds : ~On(irq[<<w, k>>]) /\ irq[<<w, k>>].tries = 0
  BY OwnedRow, OwnerHasNoThreads DEF WInv
<1>2. ~Waiting(j)' /\ Exists(j)' /\ job'[j].namespace = "agent"
  BY <1>1, KeptRows DEF WInv
<1>3. /\ wk' \in [Workers -> Task] /\ irq' \in [Workers \X Kinds -> Thread]
      /\ wk'[w].pc = "reconcile" /\ wk'[w].id = j /\ wk'[w].tries = 0
      /\ wk'[w].again = again /\ wk'[w].cancel = cancel
      /\ irq'[<<w, "awaited">>].pc = "queued" /\ irq'[<<w, "awaited">>].id = j
      /\ irq'[<<w, "awaited">>].tries = 0
      /\ irq'[<<w, "detached">>] = irq[<<w, "detached">>]
      /\ \A v \in Workers : v # w =>
           wk'[v] = wk[v] /\ \A k \in Kinds : irq'[<<v, k>>] = irq[<<v, k>>]
  BY ReconcileBecomes DEF WInv
<1>4. /\ late' \in [Workers -> LateAppend \cup {NoLate}]
      /\ \A v \in Workers : v # w => late'[v] = late[v]
      /\ late'[w] # NoLate => late'[w].id = j /\ cancel = "delivered"
  <2>1. late \in [Workers -> LateAppend \cup {NoLate}]
    BY DEF WInv, TypeOK
  <2>2. CASE late' = late
    BY <1>1, <2>1, <2>2
  <2>3. ASSUME cancel = "delivered", NEW m \in 1..MaxDecisions,
               late' = [late EXCEPT ![w] = [id |-> j, n |-> m]]
        PROVE  /\ late' \in [Workers -> LateAppend \cup {NoLate}]
               /\ \A v \in Workers : v # w => late'[v] = late[v]
               /\ late'[w] # NoLate => late'[w].id = j /\ cancel = "delivered"
    <3>1. [id |-> j, n |-> m] \in LateAppend
      BY DEF LateAppend
    <3> QED
      BY <2>1, <2>3, <3>1
  <2> QED
    BY <2>2, <2>3
<1>5. ThreadsTyped' /\ OthersStay(w)
  BY <1>3, <1>4 DEF ThreadsTyped, OthersStay
<1>6. TaskSound(w)'
  BY <1>3 DEF TaskSound, RowFits, TriesFit, RunFits, Owning, OwningPCs, PCs, LoopHeads, Writing,
         Preparing, Deciding, Finishing, Handling
<1>7. ThreadSound(w, "awaited")'
  <2>1. On(irq'[<<w, "awaited">>]) /\ irq'[<<w, "awaited">>].pc # "cas"
    BY <1>3 DEF On
  <2>2. ThreadFits(irq'[<<w, "awaited">>], job'[j], late'[w] # NoLate)
    BY <1>3, <2>1 DEF ThreadFits, One
  <2> QED
    BY <1>3, <2>1, <2>2 DEF ThreadSound
<1>8. ThreadSound(w, "detached")' /\ ~On(irq'[<<w, "detached">>])
  BY <1>1, <1>3 DEF ThreadSound, Kinds
<1>9. ThreadsFollow(w)'
  BY <1>3, <1>4, <1>8 DEF ThreadsFollow, At
<1>10. Held(w)' = {j}
  BY <1>3, <1>4, <1>8 DEF Held, Owning, OwningPCs, PCs, Kinds
<1>11. \A i \in Jobs : JobSound(i)'
  <2>1. ASSUME NEW i \in Jobs, i # j PROVE JobSound(i)'
    BY <2>1, HonestStays DEF WInv
  <2>2. JobSound(j)'
    BY <1>2 DEF JobSound
  <2> QED
    BY <2>1, <2>2
<1>12. \A v \in Workers : v # w => \A i \in Held(v) : JobStays(i)
  BY <1>1, OthersKeepTheirs DEF WInv
<1> QED
  BY <1>1, <1>5, <1>6, <1>7, <1>8, <1>9, <1>10, <1>11, <1>12, OneMoves DEF WorkerSound, Kinds

\* The store and its history are left alone, and a storage error is counted.
RowsStay == UNCHANGED <<job, log, started, outcome, phase, restarts>>
FaultsTyped == faults' \in 0..MaxFaults /\ FaultsStay

LEMMA CleanStep ==
    ASSUME WInv, RowsStay, FaultsTyped
    PROVE  /\ StoreKept /\ TablesTyped' /\ phase' = phase /\ FaultsStay
           /\ \A i \in Jobs : JobStays(i)
  BY DEF RowsStay, FaultsTyped, StoreKept, storeVars, TablesTyped, WInv, TypeOK, JobStays

LEMMA FaultIsCounted ==
    ASSUME TypeOK, Fault \/ UNCHANGED env
    PROVE  FaultsTyped /\ phase' = phase /\ restarts' = restarts
  BY WorkersAssumption DEF TypeOK, Fault, env, FaultsTyped, FaultsStay

LEMMA OwnerReads ==
    ASSUME WInv, RowsStay, FaultsTyped,
           NEW w \in Workers, Owning(wk[w]), ~At(w, "reconcile"),
           NEW t \in Task, wk' = [wk EXCEPT ![w] = t], UNCHANGED <<irq, late>>,
           Owning(t), t.pc # "reconcile", t.id = wk[w].id,
           RowFits(t, job[t.id]), TriesFit(t, job[t.id]),
           RunFits(t, started[t.id], outcome[t.id])'
    PROVE  WInv'
<1>1. started'[t.id] <= 1 /\ job' = job
  BY OwnedRow DEF WInv, JobSound, RowsStay
<1> QED
  BY <1>1, CleanStep, OwnerGoesOn

LEMMA OwnerGivesUp ==
    ASSUME WInv, RowsStay, FaultsTyped,
           NEW w \in Workers, Owning(wk[w]), ~At(w, "reconcile"),
           NEW cancel \in {"no", "requested", "delivered"}, BeginReconcile(w, FALSE, cancel),
           \/ late' = late
           \/ /\ cancel = "delivered"
              /\ \E m \in 1..MaxDecisions : late' = [late EXCEPT ![w] = [id |-> wk[w].id, n |-> m]]
    PROVE  WInv'
<1>1. PICK j \in Jobs : j = wk[w].id
  BY OwnedRow
<1>2. Honest(j)' /\ started'[j] <= 1
  BY CleanStep, HonestStays DEF WInv, JobSound
<1> QED
  BY <1>1, <1>2, CleanStep, OwnerReconciles

-----------------------------------------------------------------------------
(* A consumer without a job. *)

\* It has no threads while it looks for one.
LEMMA SeekerHoldsNothing ==
    ASSUME NEW w \in Workers, WorkerSound(w), ~Owning(wk[w]), ~At(w, "exited")
    PROVE  /\ \A k \in Kinds : ~On(irq[<<w, k>>]) /\ irq[<<w, k>>].tries = 0
           /\ late[w] = NoLate
           /\ Held(w) = {}
<1>1. ~At(w, "reconcile")
  BY DEF Owning, OwningPCs, PCs, At
<1>2. \A k \in Kinds : ~On(irq[<<w, k>>])
  BY <1>1 DEF WorkerSound, ThreadsFollow, Kinds
<1>3. late[w] = NoLate
  BY <1>1 DEF WorkerSound, ThreadsFollow
<1>4. \A k \in Kinds : irq[<<w, k>>].tries = 0
  BY <1>2 DEF WorkerSound, ThreadSound
<1> QED
  BY <1>2, <1>3, <1>4 DEF Held

LEMMA SeekerMoves ==
    ASSUME WInv, RowsStay, FaultsTyped,
           NEW w \in Workers, ~Owning(wk[w]), ~At(w, "exited"),
           NEW pc \in {"exited", "claiming", "waiting", "ready"}, Go(w, pc),
           UNCHANGED <<irq, late>>
    PROVE  WInv'
<1>1. PICK t \in Task : wk' = [wk EXCEPT ![w] = t] /\ t.pc = pc /\ t.tries = wk[w].tries
  BY GoBecomes DEF WInv, PCs
<1>2. ~Owning(t) /\ t.tries = 0 /\ Up
  BY <1>1 DEF Owning, OwningPCs, WInv, WorkerSound, TaskSound, QuietOutside, Silent, NoTask, At
<1>3. /\ \A k \in Kinds : ~On(irq[<<w, k>>]) /\ irq[<<w, k>>].tries = 0
      /\ late[w] = NoLate
  BY SeekerHoldsNothing DEF WInv
<1>4. ThreadsTyped' /\ wk'[w] = t /\ OthersStay(w)
  BY <1>1 DEF WInv, TypeOK, ThreadsTyped, Kinds, OthersStay
<1>5. WorkerSound(w)'
  BY <1>2, <1>3, <1>4 DEF WorkerSound, TaskSound, ThreadsFollow, ThreadSound, Kinds
<1>6. Held(w)' = {}
  BY <1>2, <1>3, <1>4 DEF Held
<1>7. \A i \in Jobs : JobSound(i)'
  BY CleanStep, HonestStays DEF WInv
<1>8. \A v \in Workers : v # w => \A i \in Held(v) : JobStays(i)
  BY CleanStep DEF Held
<1> QED
  BY <1>2, <1>4, <1>5, <1>6, <1>7, <1>8, CleanStep, OneMoves

LEMMA LoopHeadPreserves ==
    ASSUME WInv, NEW w \in Workers, LoopHead(w)
    PROVE  WInv'
<1>1. /\ ~Owning(wk[w]) /\ ~At(w, "exited") /\ RowsStay /\ FaultsTyped /\ UNCHANGED <<irq, late>>
      /\ \E pc \in {"exited", "claiming"} : Go(w, pc)
  BY FaultIsCounted DEF LoopHead, At, Owning, OwningPCs, PCs, RowsStay, env, history, WInv
<1> QED
  BY <1>1, SeekerMoves

LEMMA IdlePreserves ==
    ASSUME WInv, NEW w \in Workers, Idle(w)
    PROVE  WInv'
<1>1. /\ ~Owning(wk[w]) /\ ~At(w, "exited") /\ RowsStay /\ FaultsTyped /\ UNCHANGED <<irq, late>>
      /\ \E pc \in {"exited", "ready"} : Go(w, pc)
  BY FaultIsCounted DEF Idle, At, Owning, OwningPCs, PCs, RowsStay, env, history, WInv
<1> QED
  BY <1>1, SeekerMoves

LEMMA DiePreserves ==
    ASSUME WInv, NEW w \in Workers, Die(w)
    PROVE  WInv'
<1>1. /\ ~Owning(wk[w]) /\ ~At(w, "exited") /\ RowsStay /\ FaultsTyped /\ UNCHANGED <<irq, late>>
      /\ Go(w, "exited")
  BY FaultIsCounted DEF Die, At, Owning, OwningPCs, PCs, RowsStay, history, WInv
<1> QED
  BY <1>1, SeekerMoves

\* The claimed row is running, and its run has not been started before.
LEMMA ClaimPreserves ==
    ASSUME WInv, NEW w \in Workers, Claim(w)
    PROVE  WInv'
<1>1. ~Owning(wk[w]) /\ ~At(w, "exited") /\ UNCHANGED <<irq, late, started, outcome>>
  BY DEF Claim, At, Owning, OwningPCs, PCs, history
<1>2. CASE /\ Go(w, "waiting") /\ UNCHANGED <<job, log>> /\ (Fault \/ UNCHANGED env)
  <2>1. RowsStay /\ FaultsTyped
    BY <1>1, <1>2, FaultIsCounted DEF RowsStay, WInv
  <2> QED
    BY <1>1, <1>2, <2>1, SeekerMoves
<1>3. ASSUME NEW j \in Jobs, IsOldest(j, Eligible), ClaimJob(j), UNCHANGED env,
             wk' = [wk EXCEPT ![w] = [@ EXCEPT !.pc = "claimed", !.id = j, !.row = job'[j],
                                               !.tries = 0, !.n = 0]]
      PROVE  WInv'
  <2>1. /\ Waiting(j) /\ Exists(j) /\ job[j].state = "queued" /\ job[j].namespace = "agent"
        /\ started[j] = 0 /\ outcome[j] = "none"
    BY <1>3 DEF IsOldest, Claimable, Waiting, Eligible, WInv, JobSound
  <2>2. CanTransitionJob(j, job[j].revision, "running", "none", "none")
    BY <2>1 DEF CanTransitionJob, Fresh, JobTransitions, JobStates
  <2>3. "none" \in Results /\ "none" \in Failures /\ TransitionJob(j, "running", "none", "none")
    BY <1>3 DEF Results, Failures, ClaimJob
  <2>4. StoreStep
    BY <2>2, <2>3, TransitionIsStep DEF WInv
  <2>5. /\ job'[j].state = "running" /\ OnlyRowOf(j)
    BY <2>2, <2>3, TransitionedRow DEF WInv
  <2>6. /\ StoreInv' /\ Exists(j)' /\ job'[j].namespace = "agent"
    BY <2>1, <2>4, KeptRows DEF WInv, StoreKept
  <2>7. job'[j] \in JobRow /\ RowConsistent(job[j])' /\ ~Waiting(j)'
    BY <2>5, <2>6 DEF StoreInv, StoreTypeOK, OutcomeConsistent, Exists, Waiting
  <2>8. PICK t \in Task : t.pc = "claimed" /\ t.id = j /\ t.tries = 0 /\ wk' = [wk EXCEPT ![w] = t]
    <3> DEFINE u == [wk[w] EXCEPT !.pc = "claimed", !.id = j, !.row = job'[j], !.tries = 0, !.n = 0]
    <3>1. wk[w] \in Task /\ 0 \in 0..CASTries /\ 0 \in 0..MaxDecisions /\ "claimed" \in PCs
      BY WorkersAssumption, StoreAssumption DEF WInv, TypeOK, PCs
    <3>2. u \in Task /\ u.pc = "claimed" /\ u.id = j /\ u.tries = 0
      BY <2>7, <3>1 DEF Task
    <3>3. wk' = [wk EXCEPT ![w] = u]
      BY <1>3
    <3> HIDE DEF u
    <3> QED
      BY <3>2, <3>3
  <2>10. /\ \A k \in Kinds : ~On(irq[<<w, k>>]) /\ irq[<<w, k>>].tries = 0
         /\ late[w] = NoLate
    BY <1>1, SeekerHoldsNothing DEF WInv
  <2>11. ThreadsTyped' /\ wk'[w] = t /\ OthersStay(w)
    BY <1>1, <2>8 DEF WInv, TypeOK, ThreadsTyped, Kinds, OthersStay
  <2>12. TaskSound(w)'
    <3>1. Owning(t) /\ job'[j].state \in ActiveJobStates
      BY <2>5, <2>8 DEF Owning, OwningPCs, PCs, ActiveJobStates
    <3>2. RowFits(t, job'[j]) /\ TriesFit(t, job'[j])
      BY <2>5, <2>8, <3>1 DEF RowFits, TriesFit, LoopHeads, Writing, Deciding
    <3>3. RunFits(t, started[j], outcome[j])'
      BY <1>1, <2>1, <2>8 DEF RunFits, Preparing, Deciding, Finishing, Handling
    <3> QED
      BY <2>8, <2>11, <3>1, <3>2, <3>3 DEF TaskSound
  <2>13. ThreadsFollow(w)' /\ \A k \in Kinds : ThreadSound(w, k)'
    BY <1>1, <2>10 DEF ThreadsFollow, ThreadSound, Kinds
  <2>14. Held(w)' \subseteq {j}
    BY <1>1, <2>8, <2>10, <2>11 DEF Held
  <2>15. \A i \in Jobs : i # j => JobStays(i)
    BY <1>1, <2>5 DEF OnlyRowOf, JobStays
  <2>16. FaultsStay /\ phase' = phase /\ StoreKept /\ TablesTyped' /\ Up
    BY <1>1, <1>3, <2>4 DEF env, FaultsStay, StoreKept, TablesTyped, WInv, TypeOK,
       QuietOutside, Silent, NoTask, At
  <2>17. \A i \in Jobs : JobSound(i)'
    <3>1. ASSUME NEW i \in Jobs, i # j PROVE JobSound(i)'
      BY <2>15, <2>16, <3>1, HonestStays DEF WInv
    <3>2. JobSound(j)'
      BY <1>1, <2>1, <2>5, <2>6, <2>7 DEF JobSound, Honest, RowConsistent, TerminalJobStates
    <3> QED
      BY <3>1, <3>2
  <2>18. \A v \in Workers : \A i \in Held(v) : JobStays(i)
    BY <2>1, <2>15 DEF WInv, HeldIsClaimed, Held
  <2> QED
    BY <2>1, <2>7, <2>11, <2>12, <2>13, <2>14, <2>16, <2>17, <2>18, OneMoves DEF WorkerSound
<1> QED
  BY <1>1, <1>2, <1>3 DEF Claim, storeVars, env

-----------------------------------------------------------------------------
(* A consumer that owns a job and only reads. *)

LEMMA OwnerIsSound ==
    ASSUME WInv, NEW w \in Workers, Owning(wk[w])
    PROVE  /\ RowFits(wk[w], job[wk[w].id]) /\ TriesFit(wk[w], job[wk[w].id])
           /\ RunFits(wk[w], started[wk[w].id], outcome[wk[w].id])
  BY DEF WInv, WorkerSound, TaskSound

LEMMA QuietStep ==
    ASSUME WInv, UNCHANGED <<job, log, history>>, Fault \/ UNCHANGED env
    PROVE  RowsStay /\ FaultsTyped
  BY FaultIsCounted DEF WInv, RowsStay, history

LEMMA DispatchPreserves ==
    ASSUME WInv, NEW w \in Workers, Dispatch(w)
    PROVE  WInv'
<1>1. Owning(wk[w]) /\ ~At(w, "reconcile") /\ RowsStay /\ FaultsTyped /\ late' = late
  BY QuietStep DEF Dispatch, At, Owning, OwningPCs, PCs
<1>2. CASE \E cancel \in {"no", "delivered"} : BeginReconcile(w, FALSE, cancel)
  BY <1>1, <1>2, OwnerGivesUp
<1>3. CASE Go(w, "starting") /\ UNCHANGED irq
  <2>1. PICK t \in Task : /\ wk' = [wk EXCEPT ![w] = t]
                          /\ t.pc = "starting" /\ t.tries = wk[w].tries /\ t.id = wk[w].id
    BY <1>3, GoBecomes DEF WInv, PCs, SameRun
  <2>2. wk[w].pc = "claimed"
    BY DEF Dispatch, At
  <2>3. Owning(t) /\ RowFits(t, job[t.id]) /\ TriesFit(t, job[t.id])
    BY <1>1, <2>1, <2>2, OwnerIsSound, OwnedRow
    DEF Owning, OwningPCs, PCs, At, RowFits, TriesFit, LoopHeads, Writing, Deciding
  <2>4. RunFits(t, started[t.id], outcome[t.id])'
    BY <1>1, <2>1, <2>2, OwnerIsSound
    DEF RowsStay, RunFits, Preparing, Deciding, Finishing, Handling
  <2> QED
    BY <1>1, <1>3, <2>1, <2>3, <2>4, OwnerReads
<1> QED
  BY <1>2, <1>3 DEF Dispatch

LEMMA ResolveServicePreserves ==
    ASSUME WInv, NEW w \in Workers, ResolveService(w)
    PROVE  WInv'
<1>1. Owning(wk[w]) /\ ~At(w, "reconcile") /\ RowsStay /\ FaultsTyped /\ late' = late
  BY QuietStep DEF ResolveService, At, Owning, OwningPCs, PCs
<1>2. CASE BeginReconcile(w, FALSE, "no")
  BY <1>1, <1>2, OwnerGivesUp
<1>3. CASE Go(w, "step") /\ UNCHANGED irq
  <2>1. PICK t \in Task : /\ wk' = [wk EXCEPT ![w] = t]
                          /\ t.pc = "step" /\ t.tries = wk[w].tries /\ t.id = wk[w].id
    BY <1>3, GoBecomes DEF WInv, PCs, SameRun
  <2>2. wk[w].pc = "starting"
    BY DEF ResolveService, At
  <2>3. Owning(t) /\ RowFits(t, job[t.id]) /\ TriesFit(t, job[t.id])
    BY <1>1, <2>1, <2>2, OwnerIsSound, OwnedRow
    DEF Owning, OwningPCs, PCs, At, RowFits, TriesFit, LoopHeads, Writing, Deciding
  <2>4. RunFits(t, started[t.id], outcome[t.id])'
    BY <1>1, <2>1, <2>2, OwnerIsSound
    DEF RowsStay, RunFits, Preparing, Deciding, Finishing, Handling
  <2> QED
    BY <1>1, <1>3, <2>1, <2>3, <2>4, OwnerReads
<1> QED
  BY <1>2, <1>3 DEF ResolveService

LEMMA CancelExecutionPreserves ==
    ASSUME WInv, NEW w \in Workers, CancelExecution(w)
    PROVE  WInv'
<1>1. Owning(wk[w]) /\ ~At(w, "reconcile") /\ RowsStay /\ FaultsTyped
  BY QuietStep DEF CancelExecution, At, Owning, OwningPCs, PCs
<1>2. ASSUME wk[w].pc = "recording" PROVE wk[w].n \in 1..MaxDecisions
  <2>1. wk[w].n > 0 /\ wk[w].n \in 0..MaxDecisions
    BY <1>1, <1>2, OwnerIsSound, OwnedRow DEF RunFits, Task
  <2> QED
    BY <2>1, StoreAssumption
<1>3. \/ late' = late
      \/ \E m \in 1..MaxDecisions : late' = [late EXCEPT ![w] = [id |-> wk[w].id, n |-> m]]
  BY <1>2 DEF CancelExecution, At
<1> QED
  BY <1>1, <1>3, OwnerGivesUp DEF CancelExecution

\* The orchestrator returns while the row is still active.
LEMMA OwnerReturns ==
    ASSUME WInv, StoreKept, NEW w \in Workers, wk[w].pc \in Deciding,
           NEW status \in {"completed", "failed", "cancelled"}, Return(w, status),
           UNCHANGED <<irq, late, env, started>>,
           OnlyRowOf(wk[w].id),
           job'[wk[w].id].state = job[wk[w].id].state,
           job'[wk[w].id].steps = job[wk[w].id].steps
    PROVE  WInv'
<1>1. PICK t \in Task : /\ wk' = [wk EXCEPT ![w] = t]
                        /\ t.pc = "finish" /\ t.tries = 0 /\ t.id = wk[w].id
  BY EnterBecomes DEF WInv, PCs, SameRun, Return
<1>2. Owning(wk[w]) /\ ~At(w, "reconcile")
  BY DEF Deciding, Owning, OwningPCs, PCs, At
<1>3. PICK j \in Jobs : j = t.id
  BY <1>1, <1>2, OwnedRow
<1>4. /\ job[j].state \in ActiveJobStates
      /\ job[j].state = "running" => job[j].steps[AGENT_STEP].state = "running"
  BY <1>1, <1>2, <1>3, OwnedRow, OwnerIsSound DEF RowFits, Deciding
<1>5. Owning(t) /\ RowFits(t, job'[j]) /\ TriesFit(t, job'[j])
  BY <1>1, <1>3, <1>4
  DEF Owning, OwningPCs, PCs, RowFits, TriesFit, LoopHeads, Writing, Deciding, One
<1>6. /\ outcome'[j] = status /\ \A i \in Jobs : i # j => outcome'[i] = outcome[i]
      /\ outcome' \in [Jobs -> {"none", "completed", "failed", "cancelled"}]
  BY <1>1, <1>3 DEF Return, WInv, TypeOK
<1>7. RunFits(t, started[j], outcome[j])'
  BY <1>1, <1>6 DEF RunFits, Preparing, Deciding, Finishing, Handling
<1>8. \A i \in Jobs : i # j => JobStays(i)
  BY <1>1, <1>3, <1>6 DEF JobStays, OnlyRowOf
<1>9. TablesTyped' /\ phase' = phase /\ FaultsStay /\ started'[j] <= 1
  BY <1>6 DEF TablesTyped, WInv, TypeOK, env, FaultsStay, JobSound
<1> QED
  BY <1>1, <1>2, <1>3, <1>5, <1>7, <1>8, <1>9, OwnerGoesOn

\* The exception handler starts: nothing has been returned, or storage failed.
LEMMA OwnerEntersHandler ==
    ASSUME WInv, RowsStay, FaultsTyped, NEW w \in Workers,
           Owning(wk[w]), ~At(w, "reconcile"),
           wk[w].pc \in {"step"} \cup Deciding \/ faults' # 0,
           Enter(w, "except"), UNCHANGED <<irq, late>>
    PROVE  WInv'
<1>1. PICK t \in Task : /\ wk' = [wk EXCEPT ![w] = t]
                        /\ t.pc = "except" /\ t.tries = 0 /\ t.id = wk[w].id
  BY EnterBecomes DEF WInv, PCs, SameRun
<1>2. Owning(t) /\ RowFits(t, job[t.id]) /\ TriesFit(t, job[t.id])
  BY <1>1, OwnedRow
  DEF Owning, OwningPCs, PCs, RowFits, TriesFit, LoopHeads, Writing, Deciding, One
<1>3. RunFits(t, started[t.id], outcome[t.id])'
  BY <1>1, OwnerIsSound
  DEF RunFits, Preparing, Deciding, Finishing, Handling, RowsStay, FaultsTyped, FaultsStay
<1> QED
  BY <1>1, <1>2, <1>3, OwnerReads

LEMMA CheckCancelPreserves ==
    ASSUME WInv, NEW w \in Workers, CheckCancel(w)
    PROVE  WInv'
<1>1. /\ Owning(wk[w]) /\ ~At(w, "reconcile") /\ wk[w].pc = "running"
      /\ UNCHANGED <<irq, late, env, started, job, log>>
  BY DEF CheckCancel, At, Owning, OwningPCs, PCs
<1>2. CASE Return(w, "cancelled")
  <2>1. StoreKept /\ wk[w].pc \in Deciding /\ OnlyRowOf(wk[w].id)
    BY <1>1 DEF StoreKept, storeVars, Deciding, OnlyRowOf
  <2> QED
    BY <1>1, <1>2, <2>1, OwnerReturns
<1>3. CASE Go(w, "deciding") /\ UNCHANGED outcome
  <2>1. RowsStay /\ FaultsTyped
    BY <1>1, <1>3, QuietStep DEF history
  <2>2. PICK t \in Task : /\ wk' = [wk EXCEPT ![w] = t]
                          /\ t.pc = "deciding" /\ t.tries = wk[w].tries /\ t.id = wk[w].id
    BY <1>3, GoBecomes DEF WInv, PCs, SameRun
  <2>3. Owning(t) /\ RowFits(t, job[t.id]) /\ TriesFit(t, job[t.id])
    BY <1>1, <2>2, OwnerIsSound, OwnedRow
    DEF Owning, OwningPCs, PCs, At, RowFits, TriesFit, LoopHeads, Writing, Deciding
  <2>4. RunFits(t, started[t.id], outcome[t.id])'
    BY <1>1, <2>1, <2>2, OwnerIsSound
    DEF RowsStay, RunFits, Preparing, Deciding, Finishing, Handling
  <2> QED
    BY <1>1, <2>1, <2>2, <2>3, <2>4, OwnerReads
<1> QED
  BY <1>2, <1>3 DEF CheckCancel

LEMMA DecidePreserves ==
    ASSUME WInv, NEW w \in Workers, Decide(w)
    PROVE  WInv'
<1>1. /\ Owning(wk[w]) /\ ~At(w, "reconcile") /\ wk[w].pc = "deciding"
      /\ UNCHANGED <<irq, late, env, started, job, log>>
  BY DEF Decide, At, Owning, OwningPCs, PCs
<1>2. CASE Return(w, "failed") \/ Return(w, "cancelled")
  <2>1. StoreKept /\ wk[w].pc \in Deciding /\ OnlyRowOf(wk[w].id)
    BY <1>1 DEF StoreKept, storeVars, Deciding, OnlyRowOf
  <2> QED
    BY <1>1, <1>2, <2>1, OwnerReturns
<1>3. ASSUME wk[w].n < MaxDecisions, UNCHANGED outcome,
             NEW next \in {"running", "completed", "failed"},
             wk' = [wk EXCEPT ![w].pc = "recording", ![w].n = @ + 1, ![w].next = next]
      PROVE  WInv'
  <2>1. RowsStay /\ FaultsTyped
    BY <1>1, <1>3, QuietStep DEF history
  <2>2. PICK t \in Task : /\ wk' = [wk EXCEPT ![w] = t] /\ t.n > 0
                          /\ t.pc = "recording" /\ t.tries = wk[w].tries /\ t.id = wk[w].id
    <3> DEFINE u == [wk[w] EXCEPT !.pc = "recording", !.n = @ + 1, !.next = next]
    <3>1. wk[w] \in Task /\ "recording" \in PCs
      BY DEF WInv, TypeOK, PCs
    <3>2. wk[w].n + 1 \in 0..MaxDecisions /\ wk[w].n + 1 > 0
      BY <1>3, <3>1, StoreAssumption DEF Task
    <3>3. u \in Task /\ u.n > 0 /\ u.pc = "recording" /\ u.tries = wk[w].tries /\ u.id = wk[w].id
      BY <3>1, <3>2 DEF Task
    <3>4. wk' = [wk EXCEPT ![w] = u]
      BY <1>3, <3>1 DEF WInv, TypeOK, Task
    <3> HIDE DEF u
    <3> QED
      BY <3>3, <3>4
  <2>3. Owning(t) /\ RowFits(t, job[t.id]) /\ TriesFit(t, job[t.id])
    BY <1>1, <2>2, OwnerIsSound, OwnedRow
    DEF Owning, OwningPCs, PCs, At, RowFits, TriesFit, LoopHeads, Writing, Deciding
  <2>4. RunFits(t, started[t.id], outcome[t.id])'
    BY <1>1, <2>1, <2>2, OwnerIsSound
    DEF RowsStay, RunFits, Preparing, Deciding, Finishing, Handling
  <2> QED
    BY <1>1, <2>1, <2>2, <2>3, <2>4, OwnerReads
<1> QED
  BY <1>2, <1>3 DEF Decide

\* A loop that reads the row again finds it active, with attempts left, and
\* goes on with the row it has read.
LEMMA LoopReads ==
    ASSUME WInv, NEW w \in Workers, wk[w].pc \in LoopHeads
    PROVE  /\ Owning(wk[w]) /\ ~At(w, "reconcile")
           /\ wk[w].tries < CASTries /\ job[wk[w].id].state \in ActiveJobStates
           /\ \A pc \in Writing :
                wk' = [wk EXCEPT ![w].row = job[wk[w].id], ![w].pc = pc] =>
                  \E t \in Task : /\ wk' = [wk EXCEPT ![w] = t]
                                  /\ t.pc = pc /\ t.tries = wk[w].tries
                                  /\ t.row = job[wk[w].id] /\ t.id = wk[w].id
<1>1. Owning(wk[w]) /\ ~At(w, "reconcile")
  BY DEF LoopHeads, Owning, OwningPCs, PCs, At
<1>2. job[wk[w].id].state \in ActiveJobStates /\ job[wk[w].id] \in JobRow /\ wk[w] \in Task
  BY <1>1, OwnedRow
<1>3. wk[w].tries < CASTries
  <2>1. wk[w].tries + One(wk[w].pc \in Writing /\ wk[w].row # job[wk[w].id])
          + One(job[wk[w].id].state = "running") <= 1
    BY <1>1, OwnerIsSound DEF TriesFit
  <2>2. wk[w].tries \in Nat
    BY <1>2, WorkersAssumption DEF Task
  <2> QED
    BY <2>1, <2>2, WorkersAssumption DEF One
<1>4. ASSUME NEW pc \in Writing, wk' = [wk EXCEPT ![w].row = job[wk[w].id], ![w].pc = pc]
      PROVE  \E t \in Task : /\ wk' = [wk EXCEPT ![w] = t]
                             /\ t.pc = pc /\ t.tries = wk[w].tries
                             /\ t.row = job[wk[w].id] /\ t.id = wk[w].id
  <2> DEFINE u == [wk[w] EXCEPT !.row = job[wk[w].id], !.pc = pc]
  <2>1. pc \in PCs
    BY DEF Writing, PCs
  <2>2. /\ u \in Task /\ u.pc = pc /\ u.tries = wk[w].tries
        /\ u.row = job[wk[w].id] /\ u.id = wk[w].id
    BY <1>2, <2>1 DEF Task
  <2>3. wk' = [wk EXCEPT ![w] = u]
    BY <1>2, <1>4 DEF WInv, TypeOK, Task
  <2> HIDE DEF u
  <2> QED
    BY <2>2, <2>3
<1> QED
  BY <1>1, <1>2, <1>3, <1>4

LEMMA FinishReadPreserves ==
    ASSUME WInv, NEW w \in Workers, FinishRead(w)
    PROVE  WInv'
<1>1. wk[w].pc = "finish" /\ UNCHANGED late /\ RowsStay /\ FaultsTyped
  BY QuietStep DEF FinishRead, At
<1>2. /\ Owning(wk[w]) /\ ~At(w, "reconcile")
      /\ wk[w].tries < CASTries /\ job[wk[w].id].state \in ActiveJobStates
  BY <1>1, LoopReads DEF LoopHeads
<1>3. PICK j \in Jobs : j = wk[w].id
  BY <1>2, OwnedRow
<1>4. wk[w].tries # CASTries
  BY <1>2, WorkersAssumption, OwnedRow DEF Task
<1>5. PICK pc \in {"ack", "succeedStep", "failJob"} :
        /\ wk' = [wk EXCEPT ![w].row = job[wk[w].id], ![w].pc = pc]
        /\ UNCHANGED irq
        /\ pc = "ack" <=> job[j].state = "cancelling"
        /\ pc = "succeedStep" => outcome[j] = "completed"
        /\ pc = "failJob" => outcome[j] # "completed"
  <2> DEFINE next == IF job[j].state = "cancelling" THEN "ack"
                     ELSE IF outcome[j] = "completed" THEN "succeedStep" ELSE "failJob"
  <2>1. wk' = [wk EXCEPT ![w].row = job[wk[w].id], ![w].pc = next] /\ UNCHANGED irq
    BY <1>2, <1>3, <1>4 DEF FinishRead
  <2>2. /\ next \in {"ack", "succeedStep", "failJob"}
        /\ next = "ack" <=> job[j].state = "cancelling"
        /\ next = "succeedStep" => outcome[j] = "completed"
        /\ next = "failJob" => outcome[j] # "completed"
    OBVIOUS
  <2> HIDE DEF next
  <2> QED
    BY <2>1, <2>2
<1>6. PICK t \in Task : /\ wk' = [wk EXCEPT ![w] = t]
                        /\ t.pc = pc /\ t.tries = wk[w].tries
                        /\ t.row = job[wk[w].id] /\ t.id = wk[w].id
  <2>1. pc \in Writing /\ wk[w].pc \in LoopHeads
    BY <1>1, <1>5 DEF LoopHeads, Writing
  <2> QED
    BY <1>5, <2>1, LoopReads
<1>7. Owning(t) /\ RowFits(t, job[j])
  BY <1>1, <1>2, <1>3, <1>5, <1>6, OwnerIsSound
  DEF Owning, OwningPCs, PCs, RowFits, ActiveJobStates, Deciding
<1>8. TriesFit(t, job[j])
  BY <1>1, <1>2, <1>3, <1>5, <1>6, OwnerIsSound DEF TriesFit, LoopHeads, Writing, One
<1>9. RunFits(t, started[j], outcome[j])'
  BY <1>1, <1>2, <1>3, <1>5, <1>6, OwnerIsSound
  DEF RunFits, RowsStay, Preparing, Deciding, Finishing, Handling
<1> QED
  BY <1>1, <1>2, <1>3, <1>5, <1>6, <1>7, <1>8, <1>9, OwnerReads

LEMMA HandlerReadPreserves ==
    ASSUME WInv, NEW w \in Workers, HandlerRead(w)
    PROVE  WInv'
<1>1. wk[w].pc = "except" /\ UNCHANGED late /\ RowsStay /\ FaultsTyped
  BY QuietStep DEF HandlerRead, At
<1>2. /\ Owning(wk[w]) /\ ~At(w, "reconcile")
      /\ wk[w].tries < CASTries /\ job[wk[w].id].state \in ActiveJobStates
  BY <1>1, LoopReads DEF LoopHeads
<1>3. PICK j \in Jobs : j = wk[w].id
  BY <1>2, OwnedRow
<1>4. wk[w].tries # CASTries
  BY <1>2, WorkersAssumption, OwnedRow DEF Task
<1>5. PICK pc \in {"exAck", "exFail"} :
        /\ wk' = [wk EXCEPT ![w].row = job[wk[w].id], ![w].pc = pc]
        /\ UNCHANGED irq
        /\ pc = "exAck" <=> job[j].state = "cancelling"
  BY <1>2, <1>3, <1>4 DEF HandlerRead
<1>6. PICK t \in Task : /\ wk' = [wk EXCEPT ![w] = t]
                        /\ t.pc = pc /\ t.tries = wk[w].tries
                        /\ t.row = job[wk[w].id] /\ t.id = wk[w].id
  <2>1. pc \in Writing /\ wk[w].pc \in LoopHeads
    BY <1>1, <1>5 DEF LoopHeads, Writing
  <2> QED
    BY <1>5, <2>1, LoopReads
<1>7. Owning(t) /\ RowFits(t, job[j])
  BY <1>1, <1>2, <1>3, <1>5, <1>6, OwnerIsSound
  DEF Owning, OwningPCs, PCs, RowFits, ActiveJobStates, Deciding
<1>8. TriesFit(t, job[j])
  BY <1>1, <1>2, <1>3, <1>5, <1>6, OwnerIsSound DEF TriesFit, LoopHeads, Writing, One
<1>9. RunFits(t, started[j], outcome[j])'
  BY <1>1, <1>2, <1>3, <1>5, <1>6, OwnerIsSound
  DEF RunFits, RowsStay, FaultsTyped, FaultsStay, Preparing, Deciding, Finishing, Handling
<1> QED
  BY <1>1, <1>2, <1>3, <1>5, <1>6, <1>7, <1>8, <1>9, OwnerReads

LEMMA ExecutorFaultPreserves ==
    ASSUME WInv, NEW w \in Workers, ExecutorFault(w)
    PROVE  WInv'
<1>1. /\ Owning(wk[w]) /\ ~At(w, "reconcile") /\ RowsStay /\ FaultsTyped /\ late' = late
      /\ faults' # 0
  <2>1. faults' # 0
    BY WorkersAssumption DEF ExecutorFault, Fault, WInv, TypeOK
  <2> QED
    BY <2>1, QuietStep DEF ExecutorFault, At, Owning, OwningPCs, PCs
<1>2. CASE Enter(w, "except") /\ UNCHANGED irq
  BY <1>1, <1>2, OwnerEntersHandler
<1>3. CASE BeginReconcile(w, FALSE, wk[w].cancel)
  <2>1. wk[w].cancel \in {"no", "requested", "delivered"}
    BY <1>1, OwnedRow DEF Task
  <2> QED
    BY <1>1, <1>3, <2>1, OwnerGivesUp
<1> QED
  BY <1>2, <1>3 DEF ExecutorFault

-----------------------------------------------------------------------------
(* A consumer that owns a job and writes its row. *)

LEMMA EnvKept ==
    ASSUME WInv, UNCHANGED env, started' \in [Jobs -> Nat],
           outcome' \in [Jobs -> {"none", "completed", "failed", "cancelled"}]
    PROVE  TablesTyped' /\ phase' = phase /\ FaultsStay
  BY DEF TablesTyped, WInv, TypeOK, env, FaultsStay

LEMMA MarkStepRunningPreserves ==
    ASSUME WInv, NEW w \in Workers, MarkStepRunning(w)
    PROVE  WInv'
<1>1. /\ Owning(wk[w]) /\ ~At(w, "reconcile") /\ wk[w].pc = "step"
      /\ UNCHANGED <<irq, late, outcome>> /\ UNCHANGED env
  BY DEF MarkStepRunning, At, Owning, OwningPCs, PCs
<1>2. CASE Enter(w, "except") /\ UNCHANGED <<job, log, started>>
  <2>1. RowsStay /\ FaultsTyped
    BY <1>1, <1>2, QuietStep DEF history
  <2> QED
    BY <1>1, <1>2, <2>1, OwnerEntersHandler
<1>3. ASSUME NEW j \in Jobs, j = wk[w].id,
             CanTransitionStep(j, AGENT_STEP, Rev(w), Row(w).steps[AGENT_STEP].revision, "running"),
             TransitionStep(j, AGENT_STEP, "running"), Enter(w, "running"),
             started' = [started EXCEPT ![j] = @ + 1]
      PROVE  WInv'
  <2>1. /\ Exists(j) /\ job[j].state \in ActiveJobStates /\ AGENT_STEP \in Steps
        /\ started[j] = 0 /\ outcome[j] = "none"
    BY <1>1, <1>3, OwnedRow, OwnerIsSound, SingleStep DEF RunFits, Preparing
  <2>2. StoreStep
    BY <1>3, <2>1, StepIsStep DEF WInv, StepStates
  <2>3. /\ job'[j].state = job[j].state /\ job'[j].steps[AGENT_STEP].state = "running"
        /\ OnlyRowOf(j)
    BY <1>3, <2>1, SteppedRow DEF WInv, StepStates
  <2>4. PICK t \in Task : /\ wk' = [wk EXCEPT ![w] = t]
                          /\ t.pc = "running" /\ t.tries = 0 /\ t.id = wk[w].id
    BY <1>3, EnterBecomes DEF WInv, PCs, SameRun
  <2>5. Owning(t) /\ RowFits(t, job'[j]) /\ TriesFit(t, job'[j])
    BY <1>3, <2>1, <2>3, <2>4
    DEF Owning, OwningPCs, PCs, RowFits, TriesFit, LoopHeads, Writing, Deciding
  <2>6. /\ started' \in [Jobs -> Nat] /\ started'[j] = 1
        /\ \A i \in Jobs : i # j => started'[i] = started[i]
    BY <1>3, <2>1 DEF WInv, TypeOK
  <2>7. RunFits(t, started[j], outcome[j])'
    BY <1>1, <2>1, <2>4 DEF RunFits, Preparing, Deciding, Finishing, Handling
  <2>8. \A i \in Jobs : i # j => JobStays(i)
    BY <1>1, <2>3, <2>6 DEF JobStays, OnlyRowOf
  <2>9. TablesTyped' /\ phase' = phase /\ FaultsStay /\ StoreKept
    BY <1>1, <2>2, <2>6, EnvKept DEF StoreKept, WInv, TypeOK
  <2>10. started'[j] <= 1
    BY <2>6
  <2> QED
    BY <1>1, <1>3, <2>4, <2>5, <2>7, <2>8, <2>9, <2>10, OwnerGoesOn
<1> QED
  BY <1>1, <1>2, <1>3, OwnedRow DEF MarkStepRunning

LEMMA RecordPreserves ==
    ASSUME WInv, NEW w \in Workers, Record(w)
    PROVE  WInv'
<1>1. /\ Owning(wk[w]) /\ ~At(w, "reconcile") /\ wk[w].pc = "recording"
      /\ UNCHANGED <<irq, late, started>> /\ UNCHANGED env
  BY DEF Record, At, Owning, OwningPCs, PCs
<1>2. CASE Enter(w, "except") /\ UNCHANGED <<job, log, outcome>>
  <2>1. RowsStay /\ FaultsTyped
    BY <1>1, <1>2, QuietStep DEF history
  <2>2. wk[w].pc \in Deciding
    BY <1>1 DEF Deciding
  <2> QED
    BY <1>1, <1>2, <2>1, <2>2, OwnerEntersHandler
<1>3. ASSUME NEW j \in Jobs, j = wk[w].id, NEW p \in Payloads,
             CanAppendDecision(j, wk[w].n), AppendDecision(j, wk[w].n, p),
             IF wk[w].next = "running" THEN Go(w, "running") /\ UNCHANGED outcome
                                       ELSE Return(w, wk[w].next)
      PROVE  WInv'
  <2>1. /\ Exists(j) /\ wk[w] \in Task /\ wk[w].n \in Nat
    BY <1>1, <1>3, OwnedRow, StoreAssumption DEF Task
  <2>2. StoreStep
    BY <1>3, <2>1, DecisionIsStep DEF WInv
  <2>3. /\ job'[j].state = job[j].state /\ job'[j].steps = job[j].steps /\ OnlyRowOf(j)
    BY <1>3, <2>1, DecidedRow DEF WInv
  <2>4. StoreKept
    BY <2>2 DEF StoreKept
  <2>5. CASE Return(w, wk[w].next) /\ wk[w].next # "running"
    <3>1. wk[w].pc \in Deciding /\ wk[w].next \in {"completed", "failed", "cancelled"}
      BY <1>1, <2>1, <2>5 DEF Deciding, Task
    <3> QED
      BY <1>1, <1>3, <2>3, <2>4, <2>5, <3>1, OwnerReturns
  <2>6. CASE Go(w, "running") /\ UNCHANGED outcome
    <3>1. PICK t \in Task : /\ wk' = [wk EXCEPT ![w] = t]
                            /\ t.pc = "running" /\ t.tries = wk[w].tries /\ t.id = wk[w].id
      BY <2>6, GoBecomes DEF WInv, PCs, SameRun
    <3>2. Owning(t) /\ RowFits(t, job'[j]) /\ TriesFit(t, job'[j])
      BY <1>1, <1>3, <2>3, <3>1, OwnerIsSound, OwnedRow
      DEF Owning, OwningPCs, PCs, At, RowFits, TriesFit, LoopHeads, Writing, Deciding
    <3>3. RunFits(t, started[j], outcome[j])'
      BY <1>1, <1>3, <2>6, <3>1, OwnerIsSound
      DEF RunFits, Preparing, Deciding, Finishing, Handling
    <3>4. \A i \in Jobs : i # j => JobStays(i)
      BY <1>1, <2>3, <2>6 DEF JobStays, OnlyRowOf
    <3>5. TablesTyped' /\ phase' = phase /\ FaultsStay /\ started'[j] <= 1
      BY <1>1, <2>6, EnvKept DEF WInv, TypeOK, JobSound
    <3> QED
      BY <1>1, <1>3, <2>4, <3>1, <3>2, <3>3, <3>4, <3>5, OwnerGoesOn
  <2> QED
    BY <1>3, <2>5, <2>6
<1> QED
  BY <1>1, <1>2, <1>3, OwnedRow DEF Record

\* An update that found another row than the one in hand is tried once more:
\* the cancellation it lost to is the only one there can be.
LEMMA LoopRetries ==
    ASSUME WInv, RowsStay, FaultsTyped, UNCHANGED <<irq, late>>,
           NEW w \in Workers, wk[w].pc \in Writing, wk[w].row # job[wk[w].id],
           NEW pc, Retry(w, pc),
           \/ pc = "finish" /\ wk[w].pc \in Finishing
           \/ pc = "except" /\ wk[w].pc \in Handling
    PROVE  WInv'
<1>1. Owning(wk[w]) /\ ~At(w, "reconcile")
  BY DEF Writing, Owning, OwningPCs, PCs, At
<1>2. PICK j \in Jobs : j = wk[w].id
  BY <1>1, OwnedRow
<1>3. job[j].state \in ActiveJobStates /\ wk[w] \in Task
  BY <1>1, <1>2, OwnedRow
<1>4. wk[w].tries = 0 /\ job[j].state # "running"
  <2>1. wk[w].tries + One(wk[w].pc \in Writing /\ wk[w].row # job[j])
          + One(job[j].state = "running") <= 1
    BY <1>1, <1>2, OwnerIsSound DEF TriesFit
  <2>2. wk[w].tries \in Nat
    BY <1>3, WorkersAssumption DEF Task
  <2> QED
    BY <1>2, <2>1, <2>2 DEF One
<1>5. PICK t \in Task : /\ wk' = [wk EXCEPT ![w] = t]
                        /\ t.pc = pc /\ t.tries = 1 /\ t.id = j
  BY <1>2, <1>4, RetryBecomes, WorkersAssumption DEF WInv, PCs, SameRun
<1>6. Owning(t) /\ RowFits(t, job[j]) /\ TriesFit(t, job[j])
  BY <1>3, <1>4, <1>5
  DEF Owning, OwningPCs, PCs, RowFits, TriesFit, LoopHeads, Writing, Deciding, One
<1>7. RunFits(t, started[j], outcome[j])'
  BY <1>1, <1>2, <1>5, OwnerIsSound
  DEF RunFits, RowsStay, FaultsTyped, FaultsStay, Preparing, Deciding, Finishing, Handling
<1> QED
  BY <1>1, <1>2, <1>5, <1>6, <1>7, OwnerReads

LEMMA AcknowledgePreserves ==
    ASSUME WInv, NEW w \in Workers, Acknowledge(w)
    PROVE  WInv'
<1>1. /\ wk[w].pc = "ack" /\ wk[w].pc \in Writing /\ wk[w].pc \in Finishing
      /\ Owning(wk[w]) /\ ~At(w, "reconcile")
      /\ UNCHANGED <<late, started, outcome>> /\ UNCHANGED env
  BY DEF Acknowledge, At, Owning, OwningPCs, PCs, Writing, Finishing, history
<1>2. PICK j \in Jobs : j = wk[w].id
  BY <1>1, OwnedRow
<1>3. /\ Exists(j) /\ job[j].namespace = "agent" /\ wk[w] \in Task
      /\ wk[w].row.state = "cancelling" /\ outcome[j] # "none" /\ started[j] <= 1
  BY <1>1, <1>2, OwnedRow, OwnerIsSound DEF RowFits, RunFits, WInv, JobSound
<1>4. CASE /\ CanAcknowledgeCancellation(j, Rev(w), "value")
           /\ AcknowledgeCancellation(j, "value")
           /\ BeginReconcile(w, TRUE, wk[w].cancel)
  <2>1. StoreKept
    BY <1>4, AcknowledgeIsStep DEF WInv, Results, StoreKept
  <2>2. job'[j].state = "cancelled" /\ OnlyRowOf(j)
    BY <1>3, <1>4, AcknowledgedRow DEF WInv, Results
  <2>3. Honest(j)' /\ job'[j].state \notin ActiveJobStates /\ started'[j] <= 1
    BY <1>1, <1>3, <2>2 DEF Honest, ActiveJobStates
  <2>4. \A i \in Jobs : i # j => JobStays(i)
    BY <1>1, <2>2 DEF JobStays, OnlyRowOf
  <2>5. TablesTyped' /\ phase' = phase /\ FaultsStay
    BY <1>1, EnvKept DEF WInv, TypeOK
  <2>6. wk[w].cancel \in {"no", "requested", "delivered"} /\ late' = late
    BY <1>1, <1>3 DEF Task
  <2> QED
    BY <1>1, <1>2, <1>4, <2>1, <2>3, <2>4, <2>5, <2>6, OwnerReconciles
<1>5. CASE /\ ~CanAcknowledgeCancellation(j, Rev(w), "value")
           /\ Retry(w, "finish") /\ UNCHANGED <<job, log, irq>>
  <2>1. wk[w].row # job[j]
    BY <1>3, <1>5 DEF CanAcknowledgeCancellation, Fresh, Rev, JobTransitions, JobStates
  <2>2. RowsStay /\ FaultsTyped
    BY <1>1, <1>5, QuietStep DEF history
  <2> QED
    BY <1>1, <1>2, <1>5, <2>1, <2>2, LoopRetries
<1> QED
  BY <1>2, <1>4, <1>5 DEF Acknowledge

LEMMA SucceedJobPreserves ==
    ASSUME WInv, NEW w \in Workers, SucceedJob(w)
    PROVE  WInv'
<1>1. /\ wk[w].pc = "succeedJob" /\ wk[w].pc \in Writing /\ wk[w].pc \in Finishing
      /\ Owning(wk[w]) /\ ~At(w, "reconcile")
      /\ UNCHANGED <<late, started, outcome>> /\ UNCHANGED env
  BY DEF SucceedJob, At, Owning, OwningPCs, PCs, Writing, Finishing, history
<1>2. PICK j \in Jobs : j = wk[w].id
  BY <1>1, OwnedRow
<1>3. /\ Exists(j) /\ wk[w] \in Task
      /\ wk[w].row.state = "running" /\ outcome[j] = "completed" /\ started[j] <= 1
      /\ job[j].state = "running" => job[j].steps[AGENT_STEP].state = "succeeded"
  BY <1>1, <1>2, OwnedRow, OwnerIsSound DEF RowFits, RunFits, WInv, JobSound
<1>4. CASE /\ CanTransitionJob(j, Rev(w), "succeeded", "value", "none")
           /\ TransitionJob(j, "succeeded", "value", "none")
           /\ BeginReconcile(w, TRUE, wk[w].cancel)
  <2>1. StoreKept
    BY <1>4, TransitionIsStep DEF WInv, Results, Failures, StoreKept
  <2>2. job'[j].state = "succeeded" /\ OnlyRowOf(j)
    BY <1>4, TransitionedRow DEF WInv, Results, Failures
  <2>3. Honest(j)' /\ job'[j].state \notin ActiveJobStates /\ started'[j] <= 1
    BY <1>1, <1>3, <2>2 DEF Honest, ActiveJobStates
  <2>4. \A i \in Jobs : i # j => JobStays(i)
    BY <1>1, <2>2 DEF JobStays, OnlyRowOf
  <2>5. TablesTyped' /\ phase' = phase /\ FaultsStay
    BY <1>1, EnvKept DEF WInv, TypeOK
  <2>6. wk[w].cancel \in {"no", "requested", "delivered"} /\ late' = late
    BY <1>1, <1>3 DEF Task
  <2> QED
    BY <1>1, <1>2, <1>4, <2>1, <2>3, <2>4, <2>5, <2>6, OwnerReconciles
<1>5. CASE /\ ~CanTransitionJob(j, Rev(w), "succeeded", "value", "none")
           /\ Retry(w, "finish") /\ UNCHANGED <<job, log, irq>>
  <2>1. wk[w].row # job[j]
    <3>1. SUFFICES ASSUME wk[w].row = job[j] PROVE CanTransitionJob(j, Rev(w), "succeeded", "value", "none")
      BY <1>5
    <3>2. \A s \in Steps : job[j].steps[s].state = "succeeded"
      BY <1>3, <3>1, SingleStep
    <3> QED
      BY <1>3, <3>1, <3>2 DEF CanTransitionJob, Fresh, Rev, JobTransitions, JobStates
  <2>2. RowsStay /\ FaultsTyped
    BY <1>1, <1>5, QuietStep DEF history
  <2> QED
    BY <1>1, <1>2, <1>5, <2>1, <2>2, LoopRetries
<1> QED
  BY <1>2, <1>4, <1>5 DEF SucceedJob

LEMMA FailJobPreserves ==
    ASSUME WInv, NEW w \in Workers, FailJob(w)
    PROVE  WInv'
<1>1. /\ wk[w].pc = "failJob" /\ wk[w].pc \in Writing /\ wk[w].pc \in Finishing
      /\ Owning(wk[w]) /\ ~At(w, "reconcile")
      /\ UNCHANGED <<late, started, outcome>> /\ UNCHANGED env
  BY DEF FailJob, At, Owning, OwningPCs, PCs, Writing, Finishing, history
<1>2. PICK j \in Jobs : j = wk[w].id
  BY <1>1, OwnedRow
<1>3. /\ Exists(j) /\ wk[w] \in Task /\ job[j].namespace = "agent"
      /\ wk[w].row.state = "running" /\ started[j] <= 1
      /\ outcome[j] # "completed" /\ outcome[j] # "none"
  BY <1>1, <1>2, OwnedRow, OwnerIsSound DEF RowFits, RunFits, WInv, JobSound
<1>4. CASE /\ CanTransitionJob(j, Rev(w), "failed", "value", "reported")
           /\ TransitionJob(j, "failed", "value", "reported")
           /\ BeginReconcile(w, TRUE, wk[w].cancel)
  <2>1. StoreKept
    BY <1>4, TransitionIsStep DEF WInv, Results, Failures, StoreKept
  <2>2. job'[j].state = "failed" /\ OnlyRowOf(j)
    BY <1>4, TransitionedRow DEF WInv, Results, Failures
  <2>3. Honest(j)' /\ job'[j].state \notin ActiveJobStates /\ started'[j] <= 1
    BY <1>1, <1>3, <2>2 DEF Honest, ActiveJobStates
  <2>4. \A i \in Jobs : i # j => JobStays(i)
    BY <1>1, <2>2 DEF JobStays, OnlyRowOf
  <2>5. TablesTyped' /\ phase' = phase /\ FaultsStay
    BY <1>1, EnvKept DEF WInv, TypeOK
  <2>6. wk[w].cancel \in {"no", "requested", "delivered"} /\ late' = late
    BY <1>1, <1>3 DEF Task
  <2> QED
    BY <1>1, <1>2, <1>4, <2>1, <2>3, <2>4, <2>5, <2>6, OwnerReconciles
<1>5. CASE /\ ~CanTransitionJob(j, Rev(w), "failed", "value", "reported")
           /\ Retry(w, "finish") /\ UNCHANGED <<job, log, irq>>
  <2>1. wk[w].row # job[j]
    BY <1>3, <1>5 DEF CanTransitionJob, Fresh, Rev, JobTransitions, JobStates
  <2>2. RowsStay /\ FaultsTyped
    BY <1>1, <1>5, QuietStep DEF history
  <2> QED
    BY <1>1, <1>2, <1>5, <2>1, <2>2, LoopRetries
<1> QED
  BY <1>2, <1>4, <1>5 DEF FailJob

LEMMA SucceedStepPreserves ==
    ASSUME WInv, NEW w \in Workers, SucceedStep(w)
    PROVE  WInv'
<1>1. /\ wk[w].pc = "succeedStep" /\ wk[w].pc \in Writing /\ wk[w].pc \in Finishing
      /\ Owning(wk[w]) /\ ~At(w, "reconcile")
      /\ UNCHANGED <<irq, late, started, outcome>> /\ UNCHANGED env
  BY DEF SucceedStep, At, Owning, OwningPCs, PCs, Writing, Finishing, history
<1>2. PICK j \in Jobs : j = wk[w].id
  BY <1>1, OwnedRow
<1>3. /\ Exists(j) /\ wk[w] \in Task /\ AGENT_STEP \in Steps
      /\ job[j].state \in ActiveJobStates
      /\ wk[w].row.state = "running" /\ outcome[j] = "completed" /\ started[j] <= 1
      /\ job[j].state = "running" => job[j].steps[AGENT_STEP].state = "running"
  BY <1>1, <1>2, SingleStep, OwnedRow, OwnerIsSound DEF RowFits, RunFits, WInv, JobSound
<1>4. CASE /\ CanTransitionStep(j, AGENT_STEP, Rev(w), Row(w).steps[AGENT_STEP].revision, "succeeded")
           /\ TransitionStep(j, AGENT_STEP, "succeeded")
           /\ wk' = [wk EXCEPT ![w].pc = "succeedJob", ![w].row = job'[j]]
  <2>1. StoreStep
    BY <1>3, <1>4, StepIsStep DEF WInv, StepStates
  <2>2. /\ job'[j].state = job[j].state /\ job'[j].steps[AGENT_STEP].state = "succeeded"
        /\ OnlyRowOf(j)
    BY <1>3, <1>4, SteppedRow DEF WInv, StepStates
  <2>3. job[j].state = "running"
    BY <1>3, <1>4 DEF CanTransitionStep, StepTargets, ActiveJobStates
  <2>4. StoreKept /\ job'[j] \in JobRow
    BY <1>3, <2>1, KeptRows, StoredRow DEF StoreKept, WInv, StoreInv, StoreTypeOK, Exists
  <2>5. PICK t \in Task : /\ wk' = [wk EXCEPT ![w] = t] /\ t.row = job'[j]
                          /\ t.pc = "succeedJob" /\ t.tries = wk[w].tries /\ t.id = wk[w].id
    <3> DEFINE u == [wk[w] EXCEPT !.pc = "succeedJob", !.row = job'[j]]
    <3>1. "succeedJob" \in PCs
      BY DEF PCs
    <3>2. /\ u \in Task /\ u.pc = "succeedJob" /\ u.tries = wk[w].tries
          /\ u.row = job'[j] /\ u.id = wk[w].id
      BY <1>3, <2>4, <3>1 DEF Task
    <3>3. wk' = [wk EXCEPT ![w] = u]
      BY <1>3, <1>4 DEF WInv, TypeOK, Task
    <3> HIDE DEF u
    <3> QED
      BY <3>2, <3>3
  <2>6. wk[w].tries = 0
    <3>1. wk[w].tries + One(wk[w].pc \in Writing /\ wk[w].row # job[j])
            + One(job[j].state = "running") <= 1
      BY <1>1, <1>2, OwnerIsSound DEF TriesFit
    <3>2. wk[w].tries \in Nat
      BY <1>3, WorkersAssumption DEF Task
    <3> QED
      BY <2>3, <3>1, <3>2 DEF One
  <2>7. Owning(t) /\ RowFits(t, job'[j]) /\ TriesFit(t, job'[j])
    BY <2>2, <2>3, <2>5, <2>6
    DEF Owning, OwningPCs, PCs, RowFits, TriesFit, LoopHeads, Writing, Deciding, One,
        ActiveJobStates
  <2>8. RunFits(t, started[j], outcome[j])'
    BY <1>1, <1>3, <2>5 DEF RunFits, Preparing, Deciding, Finishing, Handling
  <2>9. \A i \in Jobs : i # j => JobStays(i)
    BY <1>1, <2>2 DEF JobStays, OnlyRowOf
  <2>10. TablesTyped' /\ phase' = phase /\ FaultsStay /\ started'[j] <= 1
    BY <1>1, <1>3, EnvKept DEF WInv, TypeOK
  <2> QED
    BY <1>1, <1>2, <2>4, <2>5, <2>7, <2>8, <2>9, <2>10, OwnerGoesOn
<1>5. CASE /\ ~CanTransitionStep(j, AGENT_STEP, Rev(w), Row(w).steps[AGENT_STEP].revision,
                                 "succeeded")
           /\ Retry(w, "finish") /\ UNCHANGED storeVars
  <2>1. wk[w].row # job[j]
    BY <1>3, <1>5
    DEF CanTransitionStep, Fresh, Rev, Row, StepTransitions, StepStates, StepTargets
  <2>2. RowsStay /\ FaultsTyped
    BY <1>1, <1>5, QuietStep DEF history, storeVars
  <2> QED
    BY <1>1, <1>2, <1>5, <2>1, <2>2, LoopRetries
<1> QED
  BY <1>2, <1>4, <1>5 DEF SucceedStep

LEMMA HandlerWritePreserves ==
    ASSUME WInv, NEW w \in Workers, HandlerWrite(w)
    PROVE  WInv'
<1>1. /\ wk[w].pc \in {"exAck", "exFail"} /\ wk[w].pc \in Writing /\ wk[w].pc \in Handling
      /\ Owning(wk[w]) /\ ~At(w, "reconcile")
      /\ UNCHANGED <<late, started, outcome>> /\ UNCHANGED env
  BY DEF HandlerWrite, At, Owning, OwningPCs, PCs, Writing, Handling, history
<1>2. PICK j \in Jobs : j = wk[w].id
  BY <1>1, OwnedRow
<1>3. /\ Exists(j) /\ wk[w] \in Task /\ job[j].namespace = "agent" /\ started[j] <= 1
      /\ wk[w].pc = "exAck" => wk[w].row.state = "cancelling"
      /\ wk[w].pc = "exFail" => wk[w].row.state = "running"
      /\ faults = 0 => outcome[j] = "none"
  BY <1>1, <1>2, OwnedRow, OwnerIsSound DEF RowFits, RunFits, WInv, JobSound
<1>4. ASSUME BeginReconcile(w, TRUE, wk[w].cancel), StoreKept, OnlyRowOf(j),
             job'[j].state \in {"cancelled", "failed"}, job'[j].result = "none"
      PROVE  WInv'
  <2>1. Honest(j)' /\ job'[j].state \notin ActiveJobStates /\ started'[j] <= 1
    BY <1>1, <1>3, <1>4 DEF Honest, ActiveJobStates, env
  <2>2. \A i \in Jobs : i # j => JobStays(i)
    BY <1>1, <1>4 DEF JobStays, OnlyRowOf
  <2>3. TablesTyped' /\ phase' = phase /\ FaultsStay
    BY <1>1, EnvKept DEF WInv, TypeOK
  <2>4. wk[w].cancel \in {"no", "requested", "delivered"} /\ late' = late
    BY <1>1, <1>3 DEF Task
  <2> QED
    BY <1>1, <1>2, <1>4, <2>1, <2>2, <2>3, <2>4, OwnerReconciles
<1>5. CASE /\ CanAcknowledgeCancellation(j, Rev(w), "none")
           /\ AcknowledgeCancellation(j, "none")
           /\ BeginReconcile(w, TRUE, wk[w].cancel)
  <2>1. StoreKept
    BY <1>5, AcknowledgeIsStep DEF WInv, Results, StoreKept
  <2>2. job'[j].state = "cancelled" /\ job'[j].result = "none" /\ OnlyRowOf(j)
    BY <1>3, <1>5, AcknowledgedRow DEF WInv, Results
  <2> QED
    BY <1>4, <1>5, <2>1, <2>2
<1>6. CASE /\ CanTransitionJob(j, Rev(w), "failed", "none", "reported")
           /\ TransitionJob(j, "failed", "none", "reported")
           /\ BeginReconcile(w, TRUE, wk[w].cancel)
  <2>1. StoreKept
    BY <1>6, TransitionIsStep DEF WInv, Results, Failures, StoreKept
  <2>2. job'[j].state = "failed" /\ job'[j].result = "none" /\ OnlyRowOf(j)
    BY <1>6, TransitionedRow DEF WInv, Results, Failures
  <2> QED
    BY <1>4, <1>6, <2>1, <2>2
<1>7. CASE /\ IF At(w, "exAck") THEN ~CanAcknowledgeCancellation(j, Rev(w), "none")
              ELSE ~CanTransitionJob(j, Rev(w), "failed", "none", "reported")
           /\ Retry(w, "except") /\ UNCHANGED <<job, log, irq>>
  <2>1. wk[w].row # job[j]
    BY <1>1, <1>3, <1>7
    DEF CanTransitionJob, CanAcknowledgeCancellation, Fresh, Rev, JobTransitions, JobStates, At
  <2>2. RowsStay /\ FaultsTyped
    BY <1>1, <1>7, QuietStep DEF history
  <2> QED
    BY <1>1, <1>2, <1>7, <2>1, <2>2, LoopRetries
<1> QED
  BY <1>1, <1>2, <1>5, <1>6, <1>7 DEF HandlerWrite, At

-----------------------------------------------------------------------------
(* Interruptions, and the append of a cancelled task. *)

\* A thread runs for a consumer that reconciles its job, or has left it.
LEMMA ThreadHolder ==
    ASSUME WInv, NEW w \in Workers, NEW k \in Kinds, On(irq[<<w, k>>])
    PROVE  /\ irq[<<w, k>>] \in Thread /\ irq[<<w, k>>].id \in Jobs
           /\ irq[<<w, k>>].id \in Held(w) /\ Up
           /\ Exists(irq[<<w, k>>].id) /\ ~Waiting(irq[<<w, k>>].id)
           /\ ThreadFits(irq[<<w, k>>], job[irq[<<w, k>>].id], late[w] # NoLate)
           /\ \/ At(w, "exited")
              \/ At(w, "reconcile") /\ wk[w].id = irq[<<w, k>>].id
<1> DEFINE j == irq[<<w, k>>].id
<1>1. irq[<<w, k>>] \in Thread
  BY DEF WInv, TypeOK, Kinds
<1>2. /\ j \in Jobs /\ j \in Held(w)
      /\ ThreadFits(irq[<<w, k>>], job[j], late[w] # NoLate)
  BY DEF WInv, WorkerSound, ThreadSound, Held
<1>3. ~Waiting(j) /\ Exists(j)
  BY <1>2 DEF WInv, HeldIsClaimed, Waiting
<1>4. Up
  BY DEF WInv, QuietOutside, Silent
<1>5. At(w, "exited") \/ (At(w, "reconcile") /\ wk[w].id = j)
  <2>1. ThreadsFollow(w)
    BY DEF WInv, WorkerSound
  <2> QED
    BY <2>1 DEF ThreadsFollow, Kinds
<1> QED
  BY <1>1, <1>2, <1>3, <1>4, <1>5

\* A thread goes on, or ends, and the store stays as it is.
LEMMA ThreadMoves ==
    ASSUME WInv, RowsStay, FaultsTyped, UNCHANGED <<wk, late>>,
           NEW w \in Workers, NEW k \in Kinds, On(irq[<<w, k>>]),
           NEW h \in Thread, irq' = [irq EXCEPT ![<<w, k>>] = h],
           IF On(h) THEN /\ h.id = irq[<<w, k>>].id
                         /\ ThreadFits(h, job[h.id], late[w] # NoLate)
                    ELSE h.tries = 0
    PROVE  WInv'
<1>1. /\ StoreKept /\ TablesTyped' /\ phase' = phase /\ FaultsStay
      /\ \A i \in Jobs : JobStays(i)
  BY CleanStep
<1>2. /\ irq' \in [Workers \X Kinds -> Thread] /\ irq'[<<w, k>>] = h
      /\ \A i \in Kinds : i # k => irq'[<<w, i>>] = irq[<<w, i>>]
      /\ \A v \in Workers : v # w => \A i \in Kinds : irq'[<<v, i>>] = irq[<<v, i>>]
  BY DEF WInv, TypeOK, Kinds
<1>3. ThreadsTyped' /\ OthersStay(w)
  BY <1>2 DEF ThreadsTyped, OthersStay, WInv, TypeOK
<1>4. WorkerSound(w)
  BY DEF WInv
<1>5. TaskSound(w)'
  BY <1>4 DEF WorkerSound, TaskSound, RowsStay, FaultsTyped, FaultsStay, RunFits
<1>6. ASSUME NEW i \in Kinds PROVE ThreadSound(w, i)'
  <2>1. CASE i = k
    <3>1. On(h) => h.id \in Jobs
      BY ThreadHolder
    <3> QED
      BY <1>2, <2>1, <3>1 DEF ThreadSound, RowsStay
  <2>2. CASE i # k
    BY <1>2, <1>4, <2>2 DEF WorkerSound, ThreadSound, RowsStay
  <2> QED
    BY <2>1, <2>2
<1>7. \A i \in Kinds :
        On(irq'[<<w, i>>]) => On(irq[<<w, i>>]) /\ irq'[<<w, i>>].id = irq[<<w, i>>].id
  BY <1>2
<1>8. ThreadsFollow(w)' /\ \A i \in Held(w)' : i \in Held(w)
  <2>1. ThreadsFollow(w) /\ "awaited" \in Kinds /\ "detached" \in Kinds
    BY <1>4 DEF WorkerSound, Kinds
  <2>2. ThreadsFollow(w)'
    BY <1>7, <2>1 DEF ThreadsFollow, At, RowsStay
  <2>3. \A i \in Held(w)' : i \in Held(w)
    BY <1>7 DEF Held
  <2> QED
    BY <2>2, <2>3
<1>9. Up
  BY ThreadHolder
<1>10. \A i \in Jobs : JobSound(i)'
  BY <1>1, HonestStays DEF WInv
<1>11. \A v \in Workers : v # w => \A i \in Held(v) : JobStays(i)
  BY <1>1 DEF Held
<1> QED
  BY <1>1, <1>3, <1>5, <1>6, <1>8, <1>9, <1>10, <1>11, OneMoves DEF WorkerSound

LEMMA InterruptReadPreserves ==
    ASSUME WInv, NEW w \in Workers, NEW k \in Kinds, InterruptRead(<<w, k>>)
    PROVE  WInv'
<1>1. /\ irq[<<w, k>>].pc \in {"queued", "retry"} /\ On(irq[<<w, k>>]) /\ UNCHANGED <<wk, late>>
      /\ RowsStay /\ FaultsTyped
  BY QuietStep DEF InterruptRead, On
<1>2. PICK j \in Jobs : j = irq[<<w, k>>].id
  BY <1>1, ThreadHolder
<1>3. /\ irq[<<w, k>>] \in Thread /\ job[j] \in JobRow
      /\ ThreadFits(irq[<<w, k>>], job[j], late[w] # NoLate)
  BY <1>1, <1>2, ThreadHolder, StoredRow DEF WInv
<1>4. CASE irq' = [irq EXCEPT ![<<w, k>>] = NoThread]
  BY <1>1, <1>4, NoThreadTyped, ThreadMoves DEF On, NoThread
<1>5. CASE /\ job[j].state \in ActiveJobStates
           /\ irq' = [irq EXCEPT ![<<w, k>>] = [@ EXCEPT !.pc = "cas", !.row = job[j]]]
  <2> DEFINE h == [irq[<<w, k>>] EXCEPT !.pc = "cas", !.row = job[j]]
  <2>1. /\ h \in Thread /\ h.pc = "cas" /\ h.row = job[j]
        /\ h.id = j /\ h.tries = irq[<<w, k>>].tries
    BY <1>2, <1>3 DEF Thread
  <2>2. irq' = [irq EXCEPT ![<<w, k>>] = h]
    BY <1>5
  <2> HIDE DEF h
  <2>3. ThreadFits(h, job[j], late[w] # NoLate)
    BY <1>1, <1>3, <1>5, <2>1 DEF ThreadFits, One
  <2> QED
    BY <1>1, <1>2, <2>1, <2>2, <2>3, ThreadMoves DEF On
<1> QED
  BY <1>2, <1>4, <1>5 DEF InterruptRead

LEMMA InterruptFaultPreserves ==
    ASSUME WInv, NEW w \in Workers, NEW k \in Kinds, InterruptFault(<<w, k>>)
    PROVE  WInv'
<1>1. On(irq[<<w, k>>]) /\ UNCHANGED <<wk, late>> /\ RowsStay /\ FaultsTyped
  BY QuietStep DEF InterruptFault, On
<1> QED
  BY <1>1, NoThreadTyped, ThreadMoves DEF InterruptFault, On, NoThread

\* The interruption commits: no other thread of the consumer is under way.
LEMMA InterruptCommits ==
    ASSUME WInv, NEW w \in Workers, NEW k \in Kinds, NEW j \in Jobs,
           irq[<<w, k>>].pc = "cas", j = irq[<<w, k>>].id,
           CanTransitionJob(j, irq[<<w, k>>].row.revision, "interrupted", "none", "reported"),
           TransitionJob(j, "interrupted", "none", "reported"),
           irq' = [irq EXCEPT ![<<w, k>>] = NoThread],
           UNCHANGED <<wk, late, env, history>>
    PROVE  WInv'
<1>1. On(irq[<<w, k>>])
  BY DEF On
<1>2. /\ j \in Held(w) /\ Up /\ Exists(j) /\ ~Waiting(j) /\ job[j].state \in ActiveJobStates
      /\ At(w, "exited") \/ (At(w, "reconcile") /\ wk[w].id = j)
  BY <1>1, ThreadHolder DEF ThreadFits
<1>3. \A i \in Kinds : i # k => ~On(irq[<<w, i>>]) /\ irq[<<w, i>>].tries = 0
  <2>1. ThreadsFollow(w) /\ \A i \in Kinds : ThreadSound(w, i)
    BY DEF WInv, WorkerSound
  <2>2. \A i \in Kinds : i # k => ~On(irq[<<w, i>>])
    BY <1>1, <1>2, <2>1 DEF ThreadsFollow, Kinds, At
  <2> QED
    BY <2>1, <2>2 DEF ThreadSound
<1>4. StoreKept
  BY TransitionIsStep DEF WInv, Results, Failures, StoreKept
<1>5. job'[j].state = "interrupted" /\ job'[j].result = "none" /\ OnlyRowOf(j)
  BY TransitionedRow DEF WInv, Results, Failures
<1>6. /\ irq' \in [Workers \X Kinds -> Thread]
      /\ \A i \in Kinds : ~On(irq'[<<w, i>>]) /\ irq'[<<w, i>>].tries = 0
      /\ \A v \in Workers : v # w => \A i \in Kinds : irq'[<<v, i>>] = irq[<<v, i>>]
  <2>1. irq \in [Workers \X Kinds -> Thread] /\ ~On(NoThread) /\ NoThread.tries = 0
    BY DEF WInv, TypeOK, Kinds, On, NoThread
  <2> QED
    BY <1>3, <2>1, NoThreadTyped
<1>7. ThreadsTyped' /\ OthersStay(w)
  BY <1>6 DEF ThreadsTyped, OthersStay, WInv, TypeOK
<1>8. WorkerSound(w)
  BY DEF WInv
<1>9. TaskSound(w)'
  <2>1. TaskSound(w) /\ job'[j].state \notin ActiveJobStates
    BY <1>5, <1>8 DEF WorkerSound, ActiveJobStates
  <2>2. CASE At(w, "exited")
    BY <2>1, <2>2 DEF TaskSound, Owning, OwningPCs, At
  <2>3. CASE At(w, "reconcile") /\ wk[w].id = j
    <3>1. wk[w].tries = 0
      BY <2>1, <2>3
      DEF TaskSound, TriesFit, At, LoopHeads, Writing, Owning, OwningPCs, PCs
    <3> QED
      BY <2>1, <2>3, <3>1
      DEF TaskSound, RowFits, TriesFit, RunFits, Owning, OwningPCs, PCs, LoopHeads, Writing,
          Preparing, Deciding, Finishing, Handling, At
  <2> QED
    BY <1>2, <2>2, <2>3
<1>10. ThreadsFollow(w)' /\ \A i \in Kinds : ThreadSound(w, i)'
  BY <1>6, <1>8 DEF WorkerSound, ThreadsFollow, ThreadSound, Kinds, At
<1>11. \A i \in Held(w)' : i \in Held(w)
  BY <1>6 DEF Held
<1>12. \A i \in Jobs : i # j => JobStays(i)
  BY <1>5 DEF JobStays, OnlyRowOf, history
<1>13. TablesTyped' /\ phase' = phase /\ FaultsStay
  BY EnvKept DEF WInv, TypeOK, history
<1>14. \A i \in Jobs : JobSound(i)'
  <2>1. ASSUME NEW i \in Jobs, i # j PROVE JobSound(i)'
    BY <1>12, <1>13, <2>1, HonestStays DEF WInv
  <2>2. ~Waiting(j)' /\ job'[j].namespace = "agent"
    BY <1>2, <1>4, KeptRows DEF WInv, JobSound
  <2>3. JobSound(j)'
    BY <1>5, <2>2 DEF JobSound, Honest, WInv, history
  <2> QED
    BY <2>1, <2>3
<1>15. \A v \in Workers : v # w => \A i \in Held(v) : JobStays(i)
  BY <1>2, <1>12, OthersKeepTheirs DEF WInv
<1> QED
  BY <1>2, <1>4, <1>7, <1>9, <1>10, <1>11, <1>13, <1>14, <1>15, OneMoves DEF WorkerSound

LEMMA InterruptWritePreserves ==
    ASSUME WInv, NEW w \in Workers, NEW k \in Kinds, InterruptWrite(<<w, k>>)
    PROVE  WInv'
<1>1. /\ irq[<<w, k>>].pc = "cas" /\ On(irq[<<w, k>>]) /\ UNCHANGED <<wk, late, env, history>>
  BY DEF InterruptWrite, On
<1>2. PICK j \in Jobs : j = irq[<<w, k>>].id
  BY <1>1, ThreadHolder
<1>3. CASE /\ CanTransitionJob(j, irq[<<w, k>>].row.revision, "interrupted", "none", "reported")
           /\ TransitionJob(j, "interrupted", "none", "reported")
           /\ irq' = [irq EXCEPT ![<<w, k>>] = NoThread]
  BY <1>1, <1>2, <1>3, InterruptCommits
<1>4. CASE /\ ~CanTransitionJob(j, irq[<<w, k>>].row.revision, "interrupted", "none", "reported")
           /\ irq' = [irq EXCEPT ![<<w, k>>].pc = "retry", ![<<w, k>>].tries = @ + 1,
                                 ![<<w, k>>].row = NoRow]
           /\ UNCHANGED storeVars
  <2>1. /\ irq[<<w, k>>] \in Thread /\ Exists(j) /\ job[j].state \in ActiveJobStates
        /\ ThreadFits(irq[<<w, k>>], job[j], late[w] # NoLate)
    BY <1>1, <1>2, ThreadHolder DEF ThreadFits
  <2>2. irq[<<w, k>>].row # job[j]
    BY <1>4, <2>1
    DEF CanTransitionJob, Fresh, JobTransitions, JobStates, ActiveJobStates
  <2>3. irq[<<w, k>>].tries \in Nat /\ irq[<<w, k>>].tries + 1 \in 0..CASTries
    <3>1. irq[<<w, k>>].tries \in Nat
      BY <2>1, WorkersAssumption DEF Thread
    <3>2. irq[<<w, k>>].tries <= 2
      BY <2>1, <3>1 DEF ThreadFits, One
    <3> QED
      BY <3>1, <3>2, WorkersAssumption
  <2> DEFINE h == [irq[<<w, k>>] EXCEPT !.pc = "retry", !.tries = @ + 1, !.row = NoRow]
  <2>4. h \in Thread /\ h.pc = "retry" /\ h.id = j /\ h.tries = irq[<<w, k>>].tries + 1
    BY <1>2, <2>1, <2>3 DEF Thread
  <2>5. irq' = [irq EXCEPT ![<<w, k>>] = h]
    BY <1>4, <2>1 DEF WInv, TypeOK, Kinds, Thread
  <2> HIDE DEF h
  <2>6. ThreadFits(h, job[j], late[w] # NoLate)
    BY <1>1, <2>1, <2>2, <2>3, <2>4 DEF ThreadFits, One
  <2>7. RowsStay /\ FaultsTyped
    BY <1>1, <1>4, QuietStep DEF storeVars
  <2> QED
    BY <1>1, <1>2, <2>4, <2>5, <2>6, <2>7, ThreadMoves DEF On
<1> QED
  BY <1>2, <1>3, <1>4 DEF InterruptWrite

\* The append left behind commits at most once more; the interruption that
\* loses to it has an attempt for that.
LEMMA LateRecordPreserves ==
    ASSUME WInv, NEW w \in Workers, LateRecord(w)
    PROVE  WInv'
<1>1. /\ late[w] # NoLate /\ late' = [late EXCEPT ![w] = NoLate]
      /\ UNCHANGED <<wk, irq, started, outcome>> /\ UNCHANGED env
  BY DEF LateRecord, history
<1>2. WorkerSound(w) /\ late[w] \in LateAppend
  BY <1>1 DEF WInv, TypeOK
<1>3. PICK j \in Jobs : j = late[w].id /\ late[w].n \in Nat
  BY <1>2, StoreAssumption DEF LateAppend
<1>4. /\ j \in Held(w) /\ Up /\ ~Waiting(j) /\ Exists(j)
      /\ At(w, "exited") \/ (At(w, "reconcile") /\ wk[w].id = j)
      /\ ~On(irq[<<w, "detached">>])
  <2>1. j \in Held(w)
    BY <1>1, <1>3 DEF Held
  <2>2. ~Waiting(j) /\ Exists(j)
    BY <2>1 DEF WInv, HeldIsClaimed, Waiting
  <2>3. Up
    BY <1>1 DEF WInv, QuietOutside, Silent
  <2> QED
    BY <1>1, <1>2, <1>3, <2>1, <2>2, <2>3 DEF WorkerSound, ThreadsFollow
<1>5. /\ StoreKept /\ OnlyRowOf(j)
      /\ job'[j].state = job[j].state /\ job'[j].result = job[j].result
  <2>1. CASE UNCHANGED storeVars
    BY <2>1 DEF storeVars, StoreKept, OnlyRowOf
  <2>2. ASSUME NEW p \in Payloads, CanAppendDecision(j, late[w].n), AppendDecision(j, late[w].n, p)
        PROVE  /\ StoreKept /\ OnlyRowOf(j)
               /\ job'[j].state = job[j].state /\ job'[j].result = job[j].result
    BY <1>3, <1>4, <2>2, DecisionIsStep, DecidedRow DEF WInv, StoreKept
  <2> QED
    BY <1>3, <2>1, <2>2 DEF LateRecord
<1>6. /\ late' \in [Workers -> LateAppend \cup {NoLate}] /\ late'[w] = NoLate
      /\ \A v \in Workers : v # w => late'[v] = late[v]
  BY <1>1 DEF WInv, TypeOK
<1>7. ThreadsTyped' /\ OthersStay(w)
  BY <1>1, <1>6 DEF ThreadsTyped, OthersStay, WInv, TypeOK, Kinds
<1>8. \A i \in Jobs : i # j => JobStays(i)
  BY <1>1, <1>5 DEF JobStays, OnlyRowOf
<1>9. TablesTyped' /\ phase' = phase /\ FaultsStay
  BY <1>1, EnvKept DEF WInv, TypeOK
<1>10. TaskSound(w)'
  <2>1. CASE At(w, "exited")
    BY <1>1, <1>2, <2>1 DEF WorkerSound, TaskSound, Owning, OwningPCs, At
  <2>2. CASE At(w, "reconcile") /\ wk[w].id = j
    BY <1>1, <1>2, <1>5, <2>2
    DEF WorkerSound, TaskSound, RowFits, TriesFit, RunFits, Owning, OwningPCs, PCs, LoopHeads,
        Writing, Preparing, Deciding, Finishing, Handling, At
  <2> QED
    BY <1>4, <2>1, <2>2
<1>11. ThreadSound(w, "awaited")'
  <2>1. CASE ~On(irq[<<w, "awaited">>])
    BY <1>1, <1>2, <2>1 DEF WorkerSound, ThreadSound, Kinds
  <2>2. CASE On(irq[<<w, "awaited">>])
    <3>1. irq[<<w, "awaited">>].id = j
      BY <1>2, <1>4, <2>2 DEF WorkerSound, ThreadsFollow, At
    <3>2. /\ ThreadFits(irq[<<w, "awaited">>], job[j], TRUE)
          /\ irq[<<w, "awaited">>] \in Thread
      BY <1>1, <2>2, <3>1, ThreadHolder DEF Kinds
    <3>3. irq[<<w, "awaited">>].tries \in Nat
      BY <3>2, WorkersAssumption DEF Thread
    <3>4. ThreadFits(irq[<<w, "awaited">>], job'[j], FALSE)
      BY <1>5, <3>2, <3>3 DEF ThreadFits, One
    <3> QED
      BY <1>1, <1>6, <2>2, <3>1, <3>4 DEF ThreadSound
  <2> QED
    BY <2>1, <2>2
<1>12. ThreadSound(w, "detached")'
  BY <1>1, <1>2, <1>4 DEF WorkerSound, ThreadSound, Kinds
<1>13. ThreadsFollow(w)'
  BY <1>1, <1>2, <1>4, <1>6 DEF WorkerSound, ThreadsFollow, At
<1>14. \A i \in Held(w)' : i \in Held(w)
  BY <1>1, <1>6 DEF Held
<1>15. \A i \in Jobs : JobSound(i)'
  <2>1. ASSUME NEW i \in Jobs, i # j PROVE JobSound(i)'
    BY <1>8, <1>9, <2>1, HonestStays DEF WInv
  <2>2. ~Waiting(j)' /\ job'[j].namespace = "agent"
    BY <1>4, <1>5, KeptRows DEF WInv, JobSound
  <2>3. JobSound(j)'
    BY <1>1, <1>4, <1>5, <2>2 DEF JobSound, Honest, WInv, env
  <2> QED
    BY <2>1, <2>3
<1>16. \A v \in Workers : v # w => \A i \in Held(v) : JobStays(i)
  BY <1>4, <1>8, OthersKeepTheirs DEF WInv
<1> QED
  BY <1>4, <1>5, <1>7, <1>9, <1>10, <1>11, <1>12, <1>13, <1>14, <1>15, <1>16, OneMoves
  DEF WorkerSound, Kinds

\* The cancelled await leaves its thread to run on, or drops it unstarted.
LEMMA CancelReconcilePreserves ==
    ASSUME WInv, NEW w \in Workers, CancelReconcile(w)
    PROVE  WInv'
<1>1. /\ wk[w].pc = "reconcile" /\ wk[w].cancel = "requested" /\ late' = late
      /\ RowsStay /\ FaultsTyped
  BY QuietStep DEF CancelReconcile, At
<1>2. Owning(wk[w]) /\ WorkerSound(w) /\ wk[w] \in Task /\ Up
  BY <1>1, OwnedRow DEF Owning, OwningPCs, PCs, WInv
<1>3. PICK j \in Jobs : j = wk[w].id
  BY <1>2, OwnedRow
<1>4. ~On(irq[<<w, "detached">>]) /\ late[w] = NoLate
  BY <1>1, <1>2 DEF WorkerSound, ThreadsFollow, At
<1>5. PICK t \in Task : /\ wk' = [wk EXCEPT ![w] = t]
                        /\ t.pc = "reconcile" /\ t.id = j /\ t.tries = 0
                        /\ t.cancel = "delivered" /\ ~t.again
  <2> DEFINE u == [wk[w] EXCEPT !.cancel = "delivered", !.again = FALSE]
  <2>1. wk[w].tries = 0
    BY <1>1, <1>2 DEF WorkerSound, TaskSound, TriesFit, LoopHeads, Writing
  <2>2. /\ u \in Task /\ u.pc = "reconcile" /\ u.id = j /\ u.tries = 0
        /\ u.cancel = "delivered" /\ ~u.again
    BY <1>1, <1>2, <1>3, <2>1 DEF Task
  <2>3. wk' = [wk EXCEPT ![w] = u]
    BY <1>2 DEF CancelReconcile, WInv, TypeOK, Task
  <2> HIDE DEF u
  <2> QED
    BY <2>2, <2>3
<1>6. PICK goesOn \in BOOLEAN :
        irq' = [irq EXCEPT
              ![<<w, "detached">>] = IF goesOn THEN irq[<<w, "awaited">>] ELSE NoThread,
              ![<<w, "awaited">>]  = IF wk[w].again
                                 THEN [NoThread EXCEPT !.pc = "queued", !.id = wk[w].id]
                                 ELSE NoThread]
  BY DEF CancelReconcile
<1> DEFINE a == IF wk[w].again THEN [NoThread EXCEPT !.pc = "queued", !.id = j] ELSE NoThread
           d == IF goesOn THEN irq[<<w, "awaited">>] ELSE NoThread
<1>7. /\ a \in Thread /\ a.tries = 0 /\ a.pc \in {"queued", "off"}
      /\ On(a) => a.id = j /\ wk[w].again
  BY NoThreadTyped DEF NoThread, Thread, On
<1>8. d \in Thread /\ (d = irq[<<w, "awaited">>] \/ d = NoThread)
  BY NoThreadTyped DEF WInv, TypeOK
<1>9. /\ irq' \in [Workers \X Kinds -> Thread]
      /\ irq'[<<w, "awaited">>] = a /\ irq'[<<w, "detached">>] = d
      /\ \A v \in Workers : v # w => \A i \in Kinds : irq'[<<v, i>>] = irq[<<v, i>>]
  <2>1. irq \in [Workers \X Kinds -> Thread]
    BY DEF WInv, TypeOK, Kinds
  <2>2. irq' = [irq EXCEPT ![<<w, "detached">>] = d, ![<<w, "awaited">>] = a]
    BY <1>3, <1>6
  <2> HIDE DEF a, d
  <2> QED
    BY <1>7, <1>8, <2>1, <2>2 DEF Kinds
<1> HIDE DEF a, d
<1>10. /\ On(d) => d.id = j /\ ThreadFits(d, job[j], FALSE)
       /\ ~On(d) => d.tries = 0
  <2>1. CASE d = NoThread
    BY <2>1 DEF On, NoThread
  <2>2. CASE d = irq[<<w, "awaited">>]
    BY <1>2, <1>3, <1>4, <2>2 DEF WorkerSound, ThreadsFollow, ThreadSound, Kinds
  <2> QED
    BY <1>8, <2>1, <2>2
<1>11. ThreadsTyped' /\ OthersStay(w) /\ wk'[w] = t
  BY <1>1, <1>5, <1>9 DEF ThreadsTyped, OthersStay, WInv, TypeOK
<1>12. TaskSound(w)'
  BY <1>3, <1>5, <1>11
  DEF TaskSound, RowFits, TriesFit, RunFits, Owning, OwningPCs, PCs, LoopHeads,
      Writing, Preparing, Deciding, Finishing, Handling
<1>13. ThreadSound(w, "awaited")'
  BY <1>1, <1>3, <1>4, <1>7, <1>9 DEF ThreadSound, ThreadFits, On, One, RowsStay
<1>14. ThreadSound(w, "detached")'
  BY <1>1, <1>3, <1>4, <1>9, <1>10 DEF ThreadSound, RowsStay
<1>15. ThreadsFollow(w)'
  <2>1. wk[w].again => job[j].state \notin ActiveJobStates
    BY <1>1, <1>2, <1>3 DEF WorkerSound, TaskSound, RowFits
  <2> QED
    BY <1>1, <1>3, <1>4, <1>5, <1>7, <1>9, <1>10, <1>11, <2>1 DEF ThreadsFollow, At, RowsStay
<1>16. \A i \in Held(w)' : i \in Held(w)
  <2>1. \A i \in Held(w)' : i = j
    BY <1>1, <1>3, <1>4, <1>5, <1>7, <1>9, <1>10, <1>11 DEF Held, Kinds
  <2> QED
    BY <1>2, <1>3, <2>1 DEF Held
<1>17. \A i \in Jobs : JobSound(i)'
  BY CleanStep, <1>1, HonestStays DEF WInv
<1>18. \A v \in Workers : v # w => \A i \in Held(v) : JobStays(i)
  BY <1>1, CleanStep DEF Held
<1> QED
  BY <1>1, <1>2, <1>11, <1>12, <1>13, <1>14, <1>15, <1>16, <1>17, <1>18, CleanStep, OneMoves
  DEF WorkerSound, Kinds

LEMMA ReconciledPreserves ==
    ASSUME WInv, NEW w \in Workers, Reconciled(w)
    PROVE  WInv'
<1>1. /\ wk[w].pc = "reconcile" /\ wk[w].cancel # "requested" /\ UNCHANGED <<irq, late>>
      /\ ~On(irq[<<w, "awaited">>])
      /\ RowsStay /\ FaultsTyped
  BY QuietStep DEF Reconciled, At, On
<1>2. Owning(wk[w]) /\ WorkerSound(w) /\ Up
  BY <1>1, OwnedRow DEF Owning, OwningPCs, PCs, WInv
<1>3. PICK t \in Task : /\ wk' = [wk EXCEPT ![w] = t] /\ ~Owning(t) /\ t.tries = 0
                        /\ t.pc \in {"exited", "ready"}
                        /\ t.pc = "ready" => wk[w].cancel # "delivered"
  <2> DEFINE u == IF wk[w].cancel = "delivered" THEN NoTask ELSE [NoTask EXCEPT !.pc = "ready"]
  <2>1. /\ u \in Task /\ ~Owning(u) /\ u.tries = 0 /\ u.pc \in {"exited", "ready"}
        /\ u.pc = "ready" => wk[w].cancel # "delivered"
    BY NoTaskTyped DEF NoTask, Owning, OwningPCs
  <2>2. wk' = [wk EXCEPT ![w] = u]
    BY DEF Reconciled
  <2> HIDE DEF u
  <2> QED
    BY <2>1, <2>2
<1>4. ThreadsTyped' /\ OthersStay(w) /\ wk'[w] = t
  BY <1>1, <1>3 DEF ThreadsTyped, OthersStay, WInv, TypeOK, Kinds
<1>5. TaskSound(w)'
  BY <1>3, <1>4 DEF TaskSound
<1>6. \A i \in Kinds : ThreadSound(w, i)'
  BY <1>1, <1>2 DEF WorkerSound, ThreadSound, RowsStay
<1>7. ThreadsFollow(w)'
  BY <1>1, <1>2, <1>3, <1>4 DEF WorkerSound, ThreadsFollow, At
<1>8. \A i \in Held(w)' : i \in Held(w)
  BY <1>1, <1>3, <1>4 DEF Held
<1>9. \A i \in Jobs : JobSound(i)'
  BY CleanStep, <1>1, HonestStays DEF WInv
<1>10. \A v \in Workers : v # w => \A i \in Held(v) : JobStays(i)
  BY <1>1, CleanStep DEF Held
<1> QED
  BY <1>1, <1>2, <1>4, <1>5, <1>6, <1>7, <1>8, <1>9, <1>10, CleanStep, OneMoves DEF WorkerSound

-----------------------------------------------------------------------------
(* Clients and the lifespan. *)

Phases == {"down", "recovering", "serving", "stopping", "stopped"}

\* A step of no consumer: nobody comes to hold more than it did.
LEMMA OutsideMoves ==
    ASSUME WInv, StoreKept, UNCHANGED history, faults' = faults,
           phase' \in Phases, restarts' \in 0..MaxRestarts, ThreadsTyped',
           \A w \in Workers : WorkerSound(w)' /\ Held(w)' \subseteq Held(w),
           QuietOutside', \A i \in Jobs : JobSound(i)'
    PROVE  WInv'
<1> USE DEF WInv
<1>1. StoreInv' /\ \A j \in Jobs : Waiting(j)' => Waiting(j)
  BY KeptRows
<1>2. TypeOK'
  BY <1>1 DEF TypeOK, ThreadsTyped, StoreInv, Kinds, Phases, history
<1>3. HeldIsClaimed'
  <2>1. \A w \in Workers : Held(w)' \subseteq Jobs
    BY DEF Held
  <2> QED
    BY <1>1, <2>1 DEF HeldIsClaimed
<1>4. HoldersApart'
  <2>1. \A w, v \in Workers : w # v => Held(w)' \cap Held(v)' = {}
    BY DEF HoldersApart
  <2> QED
    BY <2>1 DEF HoldersApart
<1> QED
  BY <1>1, <1>2, <1>3, <1>4

\* The consumers are left alone, and so is what they hold.
LEMMA ConsumersStay ==
    ASSUME WInv, UNCHANGED <<wk, irq, late, faults>>,
           \A w \in Workers : \A i \in Held(w) : JobStays(i)
    PROVE  ThreadsTyped' /\ \A w \in Workers : WorkerSound(w)' /\ Held(w)' \subseteq Held(w)
<1>1. ThreadsTyped'
  BY DEF ThreadsTyped, WInv, TypeOK, Kinds
<1>2. ASSUME NEW w \in Workers PROVE WorkerSound(w)' /\ Held(w)' = Held(w)
  BY WorkerStays DEF WInv, FaultsStay
<1> QED
  BY <1>1, <1>2

LEMMA AdmitRunPreserves ==
    ASSUME WInv, NEW j \in Jobs, NEW k \in Keys, NEW r \in Requests, AdmitRun(j, k, r)
    PROVE  WInv'
<1>1. /\ ~Exists(j) /\ UNCHANGED <<wk, irq, late, env, history>>
      /\ CanCreateJob(j, "agent", k) /\ CreateJob(j, "agent", k, r)
  BY DEF AdmitRun, CanCreateJob
<1>2. StoreKept /\ Exists(j)'
  BY <1>1, CreateIsStep DEF WInv, Namespaces, StoreKept
<1>3. job'[j].state = "queued" /\ job'[j].namespace = "agent" /\ job'[j].result = "none" /\ OnlyRowOf(j)
  BY <1>1 DEF CreateJob, WInv, StoreInv, StoreTypeOK, OnlyRowOf
<1>4. \A i \in Jobs : i # j => JobStays(i)
  BY <1>1, <1>3 DEF JobStays, OnlyRowOf, history
<1>5. \A w \in Workers : \A i \in Held(w) : JobStays(i)
  BY <1>1, <1>4 DEF WInv, HeldIsClaimed, Waiting, Held
<1>6. \A i \in Jobs : JobSound(i)'
  <2>1. ASSUME NEW i \in Jobs, i # j PROVE JobSound(i)'
    BY <1>1, <1>4, <2>1, HonestStays DEF WInv, FaultsStay, env
  <2>2. JobSound(j)'
    BY <1>1, <1>3 DEF JobSound, Honest, WInv, Waiting, history
  <2> QED
    BY <2>1, <2>2
<1>7. /\ ThreadsTyped' /\ faults' = faults /\ phase' \in Phases /\ restarts' \in 0..MaxRestarts
      /\ \A w \in Workers : WorkerSound(w)' /\ Held(w)' \subseteq Held(w)
  BY <1>1, <1>5, ConsumersStay DEF WInv, TypeOK, env, Phases
<1>8. QuietOutside'
  BY <1>1 DEF WInv, QuietOutside, Silent, Up, env
<1> QED
  BY <1>1, <1>2, <1>6, <1>7, <1>8, OutsideMoves

\* A running job is cancelled: what its owner may lose by that it has counted.
LEMMA OwnerLoses ==
    ASSUME WInv, UNCHANGED <<wk, irq, late, env, history>>, NEW j \in Jobs,
           job[j].state = "running", job'[j].state = "cancelling", OnlyRowOf(j),
           NEW w \in Workers
    PROVE  WorkerSound(w)'
<1>1. WorkerSound(w) /\ wk[w] \in Task
  BY DEF WInv, TypeOK
<1>2. TaskSound(w)'
  <2>1. CASE ~Owning(wk[w])
    BY <1>1, <2>1 DEF WorkerSound, TaskSound
  <2>2. CASE Owning(wk[w])
    <3>1. PICK i \in Jobs : i = wk[w].id
      BY <2>2, OwnedRow
    <3>2. RowFits(wk[w], job[i]) /\ TriesFit(wk[w], job[i]) /\ wk[w].tries \in Nat
      BY <1>1, <2>2, <3>1, OwnerIsSound, WorkersAssumption DEF Task
    <3>3. RowFits(wk[w], job'[i]) /\ TriesFit(wk[w], job'[i])
      <4>1. CASE i # j
        BY <3>2, <4>1 DEF OnlyRowOf
      <4>2. CASE i = j
        <5>1. RowFits(wk[w], job'[j])
          BY <3>2, <4>2 DEF RowFits, ActiveJobStates
        <5>2. TriesFit(wk[w], job'[j])
          BY <3>2, <4>2 DEF TriesFit, One
        <5> QED
          BY <4>2, <5>1, <5>2
      <4> QED
        BY <4>1, <4>2
    <3>4. RunFits(wk[w], started[i], outcome[i])'
      BY <2>2, <3>1, OwnerIsSound DEF RunFits, history, env
    <3> QED
      BY <2>2, <3>1, <3>3, <3>4 DEF TaskSound
  <2> QED
    BY <2>1, <2>2
<1>3. ASSUME NEW k \in Kinds PROVE ThreadSound(w, k)'
  <2>1. CASE ~On(irq[<<w, k>>])
    BY <1>1, <2>1 DEF WorkerSound, ThreadSound
  <2>2. CASE On(irq[<<w, k>>])
    <3>1. PICK i \in Jobs : i = irq[<<w, k>>].id
      BY <2>2, ThreadHolder
    <3>2. ThreadFits(irq[<<w, k>>], job[i], late[w] # NoLate) /\ irq[<<w, k>>].tries \in Nat
      BY <2>2, <3>1, ThreadHolder, WorkersAssumption DEF Thread
    <3>3. ThreadFits(irq[<<w, k>>], job'[i], late[w] # NoLate)
      <4>1. CASE i # j
        BY <3>2, <4>1 DEF OnlyRowOf
      <4>2. CASE i = j
        BY <3>2, <4>2 DEF ThreadFits, One, ActiveJobStates
      <4> QED
        BY <4>1, <4>2
    <3> QED
      BY <2>2, <3>1, <3>3 DEF ThreadSound
  <2> QED
    BY <2>1, <2>2
<1>4. ThreadsFollow(w)'
  <2>1. ThreadsFollow(w)
    BY <1>1 DEF WorkerSound
  <2>2. On(irq[<<w, "awaited">>]) => wk[w].id \in Jobs
    BY <2>1, OwnedRow DEF ThreadsFollow, Owning, OwningPCs, PCs, At
  <2>3. /\ On(irq[<<w, "awaited">>]) /\ On(irq[<<w, "detached">>])
          => wk[w].id # j /\ job'[wk[w].id] = job[wk[w].id]
    BY <2>1, <2>2 DEF ThreadsFollow, OnlyRowOf, ActiveJobStates
  <2> QED
    BY <2>1, <2>3 DEF ThreadsFollow, At
<1> QED
  BY <1>2, <1>3, <1>4 DEF WorkerSound

LEMMA CancelRunPreserves ==
    ASSUME WInv, NEW j \in Jobs, CancelRun(j)
    PROVE  WInv'
<1>1. /\ Exists(j) /\ job[j].state \in {"queued", "running"}
      /\ UNCHANGED <<wk, irq, late, env, history>>
      /\ CanRequestCancellation(j, job[j].revision) /\ RequestCancellation(j)
  BY DEF CancelRun, CanRequestCancellation
<1>2. StoreKept /\ RowConsistent(job[j]) /\ job[j].namespace = "agent"
  BY <1>1, CancelIsStep, StoredRow DEF WInv, StoreKept, JobSound
<1>3. /\ job'[j].state = IF job[j].state = "queued" THEN "cancelled" ELSE "cancelling"
      /\ job'[j].result = job[j].result /\ OnlyRowOf(j)
  BY <1>1, CancelledRow DEF WInv
<1>4. \A i \in Jobs : i # j => JobStays(i)
  BY <1>1, <1>3 DEF JobStays, OnlyRowOf, history
<1>5. \A w \in Workers : WorkerSound(w)' /\ Held(w)' \subseteq Held(w)
  <2>1. CASE job[j].state = "queued"
    <3>1. \A w \in Workers : \A i \in Held(w) : JobStays(i)
      BY <1>4, <2>1 DEF WInv, HeldIsClaimed, Waiting, Held
    <3> QED
      BY <1>1, <3>1, ConsumersStay DEF env
  <2>2. CASE job[j].state = "running"
    <3>1. \A w \in Workers : Held(w)' = Held(w)
      BY <1>1 DEF Held
    <3> QED
      BY <1>1, <1>3, <2>2, <3>1, OwnerLoses
  <2> QED
    BY <1>1, <2>1, <2>2
<1>6. \A i \in Jobs : JobSound(i)'
  <2>1. ASSUME NEW i \in Jobs, i # j PROVE JobSound(i)'
    BY <1>1, <1>4, <2>1, HonestStays DEF WInv, FaultsStay, env
  <2>2. /\ Exists(j)' /\ job'[j].namespace = "agent" /\ ~Waiting(j)'
        /\ job'[j].state \in {"cancelled", "cancelling"}
    BY <1>1, <1>2, <1>3, KeptRows DEF WInv, Waiting
  <2>3. job'[j].result = "none"
    BY <1>1, <1>2, <1>3 DEF RowConsistent, TerminalJobStates
  <2>4. JobSound(j)'
    BY <1>1, <2>2, <2>3 DEF JobSound, Honest, WInv, history
  <2> QED
    BY <2>1, <2>4
<1>7. ThreadsTyped' /\ faults' = faults /\ phase' \in Phases /\ restarts' \in 0..MaxRestarts
  BY <1>1 DEF ThreadsTyped, WInv, TypeOK, env, Phases, Kinds
<1>8. QuietOutside'
  BY <1>1 DEF WInv, QuietOutside, Silent, Up, env
<1> QED
  BY <1>1, <1>2, <1>5, <1>6, <1>7, <1>8, OutsideMoves

\* A consumer that owns nothing and has no threads is sound, and holds nothing.
LEMMA IdleIsSound ==
    ASSUME NEW w \in Workers, ~Owning(wk[w])', wk'[w].tries = 0, late'[w] = NoLate,
           \A k \in Kinds : ~On(irq[<<w, k>>])' /\ irq'[<<w, k>>].tries = 0
    PROVE  WorkerSound(w)' /\ Held(w)' = {}
<1>1. TaskSound(w)' /\ \A k \in Kinds : ThreadSound(w, k)'
  BY DEF TaskSound, ThreadSound
<1>2. ThreadsFollow(w)'
  BY DEF ThreadsFollow, Kinds
<1>3. Held(w)' = {}
  BY DEF Held
<1> QED
  BY <1>1, <1>2, <1>3 DEF WorkerSound

\* While no process serves, there is nobody to hold a job.
LEMMA NobodyServes ==
    ASSUME WInv, ~Up, NEW w \in Workers
    PROVE  /\ Silent(w) /\ WorkerSound(w) /\ wk[w].tries = 0 /\ Held(w) = {}
           /\ \A k \in Kinds : ~On(irq[<<w, k>>]) /\ irq[<<w, k>>].tries = 0
<1>1. Silent(w) /\ WorkerSound(w)
  BY DEF WInv, QuietOutside
<1>2. ~Owning(wk[w]) /\ wk[w].tries = 0
  BY <1>1 DEF Silent, NoTask, Owning, OwningPCs
<1>3. \A k \in Kinds : irq[<<w, k>>].tries = 0
  BY <1>1 DEF Silent, WorkerSound, ThreadSound
<1> QED
  BY <1>1, <1>2, <1>3 DEF Silent, Held

\* The phase changes, and the store does not.
LEMMA PhaseMoves ==
    ASSUME WInv, UNCHANGED <<job, log, faults, history>>,
           phase' \in Phases, restarts' \in 0..MaxRestarts, ThreadsTyped',
           \A w \in Workers : WorkerSound(w)' /\ Held(w)' \subseteq Held(w), QuietOutside'
    PROVE  WInv'
<1>1. StoreKept
  BY DEF StoreKept, storeVars
<1>2. \A i \in Jobs : JobSound(i)'
  BY HonestStays DEF WInv, JobStays, history, FaultsStay
<1> QED
  BY <1>1, <1>2, OutsideMoves

LEMMA StartProcessPreserves ==
    ASSUME WInv, StartProcess
    PROVE  WInv'
<1>1. /\ UNCHANGED <<job, log, wk, irq, late, restarts, faults, history>>
      /\ ~Up /\ phase' = "recovering"
  BY DEF StartProcess, Up
<1>2. ThreadsTyped' /\ \A w \in Workers : WorkerSound(w)' /\ Held(w)' \subseteq Held(w)
  BY <1>1, ConsumersStay DEF JobStays, history
<1>3. QuietOutside'
  BY <1>1 DEF WInv, QuietOutside, Silent
<1> QED
  BY <1>1, <1>2, <1>3, PhaseMoves DEF Phases, WInv, TypeOK

LEMMA BeginStopPreserves ==
    ASSUME WInv, BeginStop
    PROVE  WInv'
<1>1. /\ UNCHANGED <<job, log, wk, irq, late, faults, history>>
      /\ phase' = "stopping" /\ restarts < MaxRestarts /\ restarts' = restarts + 1
  BY DEF BeginStop
<1>2. ThreadsTyped' /\ \A w \in Workers : WorkerSound(w)' /\ Held(w)' \subseteq Held(w)
  BY <1>1, ConsumersStay DEF JobStays, history
<1>3. QuietOutside' /\ restarts' \in 0..MaxRestarts
  BY <1>1, WorkersAssumption DEF QuietOutside, Up, WInv, TypeOK
<1> QED
  BY <1>1, <1>2, <1>3, PhaseMoves DEF Phases

LEMMA StartSupervisorPreserves ==
    ASSUME WInv, StartSupervisor
    PROVE  WInv'
<1> DEFINE t == [NoTask EXCEPT !.pc = "ready"]
<1>1. /\ UNCHANGED <<job, log, irq, late, restarts, faults, history>>
      /\ ~Up /\ phase' = "serving" /\ wk' = [w \in Workers |-> t]
  BY DEF StartSupervisor, Up
<1>2. t \in Task /\ ~Owning(t) /\ t.tries = 0
  BY NoTaskTyped DEF NoTask, Owning, OwningPCs
<1> HIDE DEF t
<1>3. ThreadsTyped'
  BY <1>1, <1>2 DEF ThreadsTyped, WInv, TypeOK, Kinds
<1>4. ASSUME NEW w \in Workers PROVE WorkerSound(w)' /\ Held(w)' \subseteq Held(w)
  BY <1>1, <1>2, NobodyServes, IdleIsSound DEF Silent
<1>5. QuietOutside'
  BY <1>1 DEF QuietOutside, Up
<1> QED
  BY <1>1, <1>3, <1>4, <1>5, PhaseMoves DEF Phases, WInv, TypeOK

LEMMA EndStopPreserves ==
    ASSUME WInv, EndStop
    PROVE  WInv'
<1>1. /\ UNCHANGED <<job, log, irq, late, restarts, faults, history>>
      /\ \A w \in Workers : late[w] = NoLate /\ \A k \in Kinds : ~On(irq[<<w, k>>])
      /\ phase' = "stopped" /\ wk' = [w \in Workers |-> NoTask]
  BY DEF EndStop, On, WInv, TypeOK, Kinds
<1>2. ThreadsTyped'
  BY <1>1, NoTaskTyped DEF ThreadsTyped, WInv, TypeOK, Kinds
<1>3. ASSUME NEW w \in Workers PROVE WorkerSound(w)' /\ Held(w)' \subseteq Held(w)
  <2>1. ~Owning(wk[w])' /\ wk'[w].tries = 0
    BY <1>1 DEF NoTask, Owning, OwningPCs
  <2>2. \A k \in Kinds : irq[<<w, k>>].tries = 0
    BY <1>1 DEF WInv, WorkerSound, ThreadSound
  <2> QED
    BY <1>1, <2>1, <2>2, IdleIsSound
<1>4. QuietOutside'
  BY <1>1 DEF QuietOutside, Silent
<1> QED
  BY <1>1, <1>2, <1>3, <1>4, PhaseMoves DEF Phases, WInv, TypeOK

LEMMA CrashPreserves ==
    ASSUME WInv, Crash
    PROVE  WInv'
<1>1. /\ UNCHANGED <<job, log, faults, history>>
      /\ restarts < MaxRestarts /\ restarts' = restarts + 1 /\ phase' = "down"
      /\ wk' = [w \in Workers |-> NoTask] /\ late' = [w \in Workers |-> NoLate]
      /\ irq' = [x \in Workers \X Kinds |-> NoThread]
  BY DEF Crash, WInv, TypeOK, Kinds
<1>2. /\ ThreadsTyped' /\ restarts' \in 0..MaxRestarts
  BY <1>1, NoTaskTyped, NoThreadTyped, WorkersAssumption DEF ThreadsTyped, WInv, TypeOK
<1>3. ASSUME NEW w \in Workers PROVE Silent(w)' /\ WorkerSound(w)' /\ Held(w)' \subseteq Held(w)
  <2>1. ~Owning(wk[w])' /\ wk'[w].tries = 0 /\ wk'[w] = NoTask /\ late'[w] = NoLate
    BY <1>1 DEF NoTask, Owning, OwningPCs
  <2>2. \A k \in Kinds : ~On(irq[<<w, k>>])' /\ irq'[<<w, k>>].tries = 0
    BY <1>1 DEF NoThread, On
  <2> QED
    BY <2>1, <2>2, IdleIsSound DEF Silent
<1>4. QuietOutside'
  BY <1>3 DEF QuietOutside
<1> QED
  BY <1>1, <1>2, <1>3, <1>4, PhaseMoves DEF Phases

LEMMA RecoverBatchPreserves ==
    ASSUME WInv, RecoverBatch
    PROVE  WInv'
<1>1. /\ UNCHANGED <<wk, irq, late, env, history>> /\ ~Up
  BY DEF RecoverBatch, Up
<1>2. PICK batch : IsRecoveryBatch(batch) /\ RecoverInterruptedJobs(batch)
  BY DEF RecoverBatch
<1>3. StoreKept
  BY <1>2, RecoverIsStep DEF WInv, StoreKept
<1>4. \A i \in Jobs : JobSound(i)'
  <2>1. ASSUME NEW i \in Jobs, job'[i] = job[i] PROVE JobSound(i)'
    BY <1>1, <2>1, HonestStays DEF WInv, JobStays, history, FaultsStay, env
  <2>2. ASSUME NEW i \in Jobs, Exists(i), job[i].state \in ActiveJobStates,
               job'[i].state = "interrupted", job'[i].result = job[i].result
        PROVE  JobSound(i)'
    <3>1. Exists(i)' /\ job'[i].namespace = "agent" /\ ~Waiting(i)'
      BY <1>3, <2>2, KeptRows DEF WInv, JobSound, Waiting, ActiveJobStates
    <3> QED
      BY <1>1, <2>2, <3>1 DEF WInv, JobSound, Honest, history, env
  <2> QED
    BY <1>2, <2>1, <2>2, RecoveredRows DEF WInv
<1>5. ThreadsTyped' /\ \A w \in Workers : WorkerSound(w)' /\ Held(w)' \subseteq Held(w)
  BY <1>1, NobodyServes, ConsumersStay DEF env
<1>6. QuietOutside' /\ phase' \in Phases /\ restarts' \in 0..MaxRestarts /\ faults' = faults
  BY <1>1 DEF WInv, QuietOutside, Silent, Up, env, TypeOK, Phases
<1> QED
  BY <1>1, <1>3, <1>4, <1>5, <1>6, OutsideMoves

LEMMA GraceExpiresPreserves ==
    ASSUME WInv, GraceExpires
    PROVE  WInv'
<1>1. /\ UNCHANGED <<job, log, irq, late, env, history>>
      /\ \A w \in Workers : wk[w].cancel = "no"
      /\ Up
      /\ wk' = [w \in Workers |-> IF At(w, "exited") THEN wk[w]
                                  ELSE [wk[w] EXCEPT !.cancel = "requested"]]
  BY DEF GraceExpires, Up
<1>2. ASSUME NEW w \in Workers
      PROVE  /\ wk'[w] \in Task
             /\ wk'[w].pc = wk[w].pc /\ wk'[w].id = wk[w].id /\ wk'[w].row = wk[w].row
             /\ wk'[w].tries = wk[w].tries /\ wk'[w].n = wk[w].n /\ wk'[w].again = wk[w].again
  <2>1. wk[w] \in Task
    BY DEF WInv, TypeOK
  <2> QED
    BY <1>1, <2>1 DEF Task
<1>3. ThreadsTyped'
  <2>1. DOMAIN wk' = Workers /\ wk' = [w \in Workers |-> wk'[w]]
    BY <1>1
  <2> QED
    BY <1>1, <1>2, <2>1 DEF ThreadsTyped, WInv, TypeOK, Kinds
<1>4. ASSUME NEW w \in Workers PROVE WorkerSound(w)' /\ Held(w)' \subseteq Held(w)
  <2>1. WorkerSound(w)
    BY DEF WInv
  <2>2. TaskSound(w)'
    <3>1. Owning(wk[w])' <=> Owning(wk[w])
      BY <1>2 DEF Owning
    <3>2. CASE ~Owning(wk[w])
      BY <1>2, <2>1, <3>1, <3>2 DEF WorkerSound, TaskSound
    <3>3. CASE Owning(wk[w])
      <4>1. PICK i \in Jobs : i = wk[w].id
        BY <3>3, OwnedRow
      <4>2. /\ RowFits(wk[w], job[i]) /\ TriesFit(wk[w], job[i])
            /\ RunFits(wk[w], started[i], outcome[i])
        BY <3>3, <4>1, OwnerIsSound
      <4>3. RowFits(wk[w], job[i])' /\ TriesFit(wk[w], job[i])'
        BY <1>1, <1>2, <4>2 DEF RowFits, TriesFit
      <4>4. RunFits(wk[w], started[i], outcome[i])'
        BY <1>1, <1>2, <4>2 DEF RunFits, history, env
      <4> QED
        BY <1>2, <3>1, <3>3, <4>1, <4>3, <4>4 DEF TaskSound
    <3> QED
      BY <3>2, <3>3
  <2>3. \A k \in Kinds : ThreadSound(w, k)'
    BY <1>1, <2>1 DEF WorkerSound, ThreadSound
  <2>4. ThreadsFollow(w)'
    BY <1>1, <1>2, <2>1 DEF WorkerSound, ThreadsFollow, At
  <2>5. Held(w)' \subseteq Held(w)
    BY <1>1, <1>2 DEF Held, Owning
  <2> QED
    BY <2>2, <2>3, <2>4, <2>5 DEF WorkerSound
<1>5. QuietOutside'
  BY <1>1 DEF QuietOutside, Up, env
<1> QED
  BY <1>1, <1>3, <1>4, <1>5, PhaseMoves DEF Phases, WInv, TypeOK, env

-----------------------------------------------------------------------------
(* The theorems. *)

LEMMA InitWInv == Init => WInv
<1> SUFFICES ASSUME Init PROVE WInv
  OBVIOUS
<1>1. StoreInv /\ \A j \in Jobs : ~Exists(j) /\ Waiting(j)
  BY StoreInitInv DEF Init, StoreInit, Exists, Waiting
<1>2. TypeOK
  <2>1. /\ NoTask \in Task /\ NoThread \in Thread
        /\ 0 \in 0..MaxRestarts /\ 0 \in 0..MaxFaults
    BY NoTaskTyped, NoThreadTyped, WorkersAssumption
  <2> QED
    BY <1>1, <2>1 DEF Init, TypeOK, StoreInv
<1>3. ASSUME NEW w \in Workers PROVE WorkerSound(w) /\ Silent(w) /\ Held(w) = {}
  <2>1. wk[w] = NoTask /\ late[w] = NoLate /\ \A k \in Kinds : irq[<<w, k>>] = NoThread
    BY DEF Init, Kinds
  <2>2. /\ ~Owning(wk[w]) /\ wk[w].tries = 0
        /\ \A k \in Kinds : ~On(irq[<<w, k>>]) /\ irq[<<w, k>>].tries = 0
    BY <2>1 DEF NoTask, Owning, OwningPCs, NoThread, On
  <2> QED
    BY <2>1, <2>2 DEF WorkerSound, TaskSound, ThreadSound, ThreadsFollow, Silent, Held, Kinds
<1>4. HoldersApart /\ HeldIsClaimed /\ QuietOutside
  BY <1>3 DEF HoldersApart, HeldIsClaimed, QuietOutside
<1>5. \A j \in Jobs : JobSound(j)
  BY <1>1 DEF JobSound, Honest, Init
<1> QED
  BY <1>1, <1>2, <1>3, <1>4, <1>5 DEF WInv

LEMMA NextWInv == WInv /\ [Next]_vars => WInv'
<1> SUFFICES ASSUME WInv, [Next]_vars PROVE WInv'
  OBVIOUS
<1>1. ASSUME NEW j \in Jobs, NEW k \in Keys, NEW r \in Requests, AdmitRun(j, k, r) PROVE WInv'
  BY <1>1, AdmitRunPreserves
<1>2. ASSUME NEW j \in Jobs, CancelRun(j) PROVE WInv'
  BY <1>2, CancelRunPreserves
<1>3. CASE LifespanStep \/ BeginStop \/ Crash
  BY <1>3, StartProcessPreserves, RecoverBatchPreserves, StartSupervisorPreserves,
     GraceExpiresPreserves, EndStopPreserves, BeginStopPreserves, CrashPreserves
  DEF LifespanStep
<1>4. ASSUME NEW w \in Workers,
             \/ LoopHead(w) \/ Claim(w) \/ Idle(w) \/ Dispatch(w) \/ ResolveService(w)
             \/ CancelExecution(w) \/ CancelReconcile(w) \/ Reconciled(w) \/ Die(w)
      PROVE  WInv'
  BY <1>4, LoopHeadPreserves, ClaimPreserves, IdlePreserves, DispatchPreserves,
     ResolveServicePreserves, CancelExecutionPreserves, CancelReconcilePreserves,
     ReconciledPreserves, DiePreserves
<1>5. ASSUME NEW w \in Workers,
             \/ MarkStepRunning(w) \/ CheckCancel(w) \/ Decide(w) \/ Record(w) \/ LateRecord(w)
             \/ FinishRead(w) \/ Acknowledge(w) \/ SucceedStep(w) \/ SucceedJob(w) \/ FailJob(w)
             \/ HandlerRead(w) \/ HandlerWrite(w) \/ ExecutorFault(w)
      PROVE  WInv'
  BY <1>5, MarkStepRunningPreserves, CheckCancelPreserves, DecidePreserves, RecordPreserves,
     LateRecordPreserves, FinishReadPreserves, AcknowledgePreserves, SucceedStepPreserves,
     SucceedJobPreserves, FailJobPreserves, HandlerReadPreserves, HandlerWritePreserves,
     ExecutorFaultPreserves
<1>6. ASSUME NEW x \in DOMAIN irq, ThreadStep(x) \/ InterruptFault(x) PROVE WInv'
  <2>1. PICK w \in Workers, k \in Kinds : x = <<w, k>>
    BY <1>6 DEF WInv, TypeOK, Kinds
  <2> QED
    BY <1>6, <2>1, InterruptReadPreserves, InterruptWritePreserves, InterruptFaultPreserves
    DEF ThreadStep
<1>7. CASE UNCHANGED vars
  <2>1. StoreKept /\ ThreadsTyped' /\ \A w \in Workers : WorkerSound(w)' /\ Held(w)' \subseteq Held(w)
    BY <1>7, ConsumersStay DEF vars, StoreKept, storeVars, JobStays
  <2>2. QuietOutside'
    BY <1>7 DEF vars, WInv, QuietOutside, Silent, Up
  <2> QED
    BY <1>7, <2>1, <2>2, PhaseMoves DEF vars, history, Phases, WInv, TypeOK
<1> QED
  BY <1>1, <1>2, <1>3, <1>4, <1>5, <1>6, <1>7 DEF Next, WorkerStep

\* The invariant of consumers, threads and rows, in every reachable state.
THEOREM WorkersInvariant == Spec => []WInv
<1> QED
  BY InitWInv, NextWInv, PTL DEF Spec

\* A run is executed once: two owners of a job would both hold it.
LEMMA OwnersInvariant == WInv => ExecutedOnce
<1> SUFFICES ASSUME WInv PROVE ExecutedOnce
  OBVIOUS
<1>1. ASSUME NEW j \in Jobs PROVE Cardinality(Owners(j)) <= 1
  <2>1. ASSUME NEW w \in Owners(j), NEW v \in Owners(j) PROVE w = v
    <3>1. w \in Workers /\ v \in Workers /\ j \in Held(w) /\ j \in Held(v)
      BY <2>1 DEF Owners, Held, Owning
    <3> QED
      BY <3>1 DEF WInv, HoldersApart
  <2>2. CASE Owners(j) = {}
    BY <2>2, FS_EmptySet
  <2>3. ASSUME NEW w \in Owners(j) PROVE Cardinality(Owners(j)) <= 1
    <3>1. Owners(j) = {w}
      BY <2>1, <2>3
    <3> QED
      BY <3>1, FS_Singleton
  <2> QED
    BY <2>2, <2>3
<1>2. NeverReplayed
  BY DEF WInv, JobSound, NeverReplayed
<1> QED
  BY <1>1, <1>2 DEF ExecutedOnce, OneOwner

\* No job has two owners, and no orchestrator is started twice: across claims,
\* cancellations, interruptions, crashes, restarts and storage errors.
THEOREM ExecutionSafety == Spec => []ExecutedOnce
<1> QED
  BY WorkersInvariant, OwnersInvariant, PTL

\* The loops are long enough, and the stored outcome is the orchestrator's.
LEMMA EndingInvariant == WInv => EndingIsFaithful
<1> SUFFICES ASSUME WInv PROVE EndingIsFaithful
  OBVIOUS
<1>1. OutcomeHonoured
  BY DEF WInv, JobSound, Honest, OutcomeHonoured
<1>2. ASSUME NEW w \in Workers PROVE wk[w].tries < CASTries
  <2>1. wk[w].tries \in Nat
    BY WorkersAssumption DEF WInv, TypeOK, Task
  <2>2. CASE ~Owning(wk[w])
    BY <2>2, WorkersAssumption DEF WInv, WorkerSound, TaskSound
  <2>3. CASE Owning(wk[w])
    BY <2>1, <2>3, OwnerIsSound, WorkersAssumption DEF TriesFit, One
  <2> QED
    BY <2>2, <2>3
<1>3. ASSUME NEW x \in DOMAIN irq PROVE irq[x].tries < CASTries
  <2>1. PICK w \in Workers, k \in Kinds : x = <<w, k>>
    BY <1>3 DEF WInv, TypeOK, Kinds
  <2>2. irq[<<w, k>>].tries \in Nat
    BY WorkersAssumption DEF WInv, TypeOK, Kinds, Thread
  <2>3. CASE ~On(irq[<<w, k>>])
    BY <2>1, <2>3, WorkersAssumption DEF WInv, WorkerSound, ThreadSound
  <2>4. CASE On(irq[<<w, k>>])
    BY <2>1, <2>2, <2>4, ThreadHolder, WorkersAssumption DEF ThreadFits, One
  <2> QED
    BY <2>3, <2>4
<1> QED
  BY <1>1, <1>2, <1>3 DEF EndingIsFaithful, RetriesSuffice, WInv

\* The stored outcome is the orchestrator's, and no compare-and-set loop uses
\* up its attempts, storage errors or not.
THEOREM EndingSafety == Spec => []EndingIsFaithful
<1> QED
  BY WorkersInvariant, EndingInvariant, PTL
=============================================================================
