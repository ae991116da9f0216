------------------------- MODULE RouteThreads_proofs -------------------------
(***************************************************************************)
(* Proofs about the threads that the routes start, for any number of jobs, *)
(* runners, cases, crashes, failing storage calls, events, callbacks,      *)
(* callers, retries and delays: about a budgeted evaluation, about a       *)
(* streamed answer, about the key pool both call, and that their           *)
(* composition keeps what each of them keeps.                              *)
(*                                                                         *)
(* Evaluations.  A claim succeeds for one thread of a job in its whole     *)
(* life, because no method makes a row queued again.  The thread that      *)
(* holds it goes through the slots of its cases in one order and has spent *)
(* at most those it has passed, so the slot it is about to reserve is free *)
(* and the frozen budget has room for it.                                  *)
(*                                                                         *)
(* Streams.  What is left of every program of the thread has one store,    *)
(* none once the answer is stored, a check of the event between any two of *)
(* its calls, and behind its token loop an event to hand out, where a      *)
(* stream that was told to stop leaves before it stores.                   *)
(***************************************************************************)
EXTENDS RouteThreads, JobStore_proofs, SequenceTheorems

-----------------------------------------------------------------------------
(* Budgeted evaluations. *)

RunRecord == [pc : PCs, id : Jobs \cup {NoRow}, row : JobRow \cup {NoRow},
              case : Cases, phase : Phases, tries : 0..FinishTries, refused : BOOLEAN]

Slots == Cases \X Phases
Rank == [p \in Phases |-> CASE p = "generation" -> 1 [] p = "correction" -> 2 [] p = "judging" -> 3]

\* The slots a thread has passed when it stands before, or behind, a slot.
Before(c, p) == {x \in Slots : x[1] < c \/ (x[1] = c /\ Rank[x[2]] < Rank[p])}
UpTo(c, p) == {x \in Slots : x[1] < c \/ (x[1] = c /\ Rank[x[2]] <= Rank[p])}

\* What a thread may have spent, by where it is in run.
Unspent == {"prepare", "beginCases", "resetProgress"}
Spending == {"check", "reserve"}
Storing == {"call", "commitCase", "checkCase", "reread", "progress"}
Passed(rec) ==
    IF rec.pc \in Unspent THEN {}
    ELSE IF rec.pc \in Spending THEN Before(rec.case, rec.phase)
    ELSE IF rec.pc \in Storing THEN UpTo(rec.case, rec.phase)
    ELSE Slots

Unclaimed == {"off", "start", "claim"}
Holds(r) == run[r].pc \notin Unclaimed

ThreadsNameRows ==
    \A r \in Runners : run[r].pc # "off" => Job(r) \in Jobs /\ Exists(Job(r))

\* A job is held by one thread, from its claim on.
HoldersHaveClaimed ==
    /\ \A r \in Runners : Holds(r) => ~Waiting(Job(r))
    /\ \A r, q \in Runners : Holds(r) /\ Holds(q) /\ Job(r) = Job(q) => r = q

\* Nothing is spent before the claim, and afterwards only what was passed.
SpentIsPassed ==
    /\ \A j \in Jobs : Waiting(j) => attempts[j] = {}
    /\ \A r \in Runners : Holds(r) => attempts[Job(r)] \subseteq Passed(run[r])

\* The slot of a request that is about to leave is reserved and unused.
CallsAreReserved ==
    /\ \A r \in Runners : At(r, "call") =>
         Slot(r) \in attempts[Job(r)] /\ calls[Job(r)][Slot(r)] = 0
    /\ \A j \in Jobs, x \in Slots : calls[j][x] <= 1 /\ (calls[j][x] = 1 => x \in attempts[j])

BudgetsAreFrozen == \A j \in Jobs : Exists(j) => CanFreeze(job[j].request)

\* An attempt to store the end of a job is made only while tries are left.
LastTries == {"fail", "acknowledge"}
TriesAreLeft == \A r \in Runners : run[r].pc \in LastTries => run[r].tries < FinishTries

EInv ==
    /\ StoreInv /\ TypeOK
    /\ ThreadsNameRows /\ HoldersHaveClaimed
    /\ SpentIsPassed /\ CallsAreReserved
    /\ BudgetsAreFrozen /\ BudgetSuffices /\ TriesAreLeft

TablesTyped ==
    /\ cases \in [Jobs -> SUBSET Cases]
    /\ report \in [Jobs -> BOOLEAN]
    /\ progress \in [Jobs -> 0..NCases]
    /\ process \in {"up", "down", "recovering"}
    /\ crashes \in 0..MaxCrashes /\ faults \in 0..MaxFaults

-----------------------------------------------------------------------------
(* The slots of a job. *)

LEMMA RankTyped == \A p \in Phases : Rank[p] \in 1..3
  BY DEF Rank, Phases

\* A thread that goes on to the next slot, or to the next case, has passed the
\* slots it had passed and the one it has used.
LEMMA PassedGrows ==
    ASSUME NEW c \in Cases, NEW p \in Phases
    PROVE  /\ Before(c, p) \subseteq UpTo(c, p)
           /\ \A q \in NextPhases(p) : p # "judging" =>
                q \in Phases /\ UpTo(c, p) \subseteq Before(c, q)
           /\ \A q \in Phases : c < NCases => UpTo(c, p) \subseteq Before(c + 1, q)
           /\ <<c, p>> \in UpTo(c, p) /\ <<c, p>> \notin Before(c, p)
           /\ UpTo(c, p) \subseteq Slots /\ Before(c, p) \subseteq Slots
<1> USE EvaluationAssumption, RankTyped DEF Before, UpTo
<1>1. \A x \in Slots : x[1] \in Cases /\ x[2] \in Phases /\ x[1] \in Nat
  BY DEF Slots, Cases
<1>2. c \in Nat /\ <<c, p>> \in Slots
  BY DEF Slots, Cases
<1>3. \A x \in Slots : Rank[x[2]] \in Nat
  BY <1>1
<1>4. Rank[p] \in Nat
  OBVIOUS
<1>5. Before(c, p) \subseteq UpTo(c, p)
  BY <1>3, <1>4
<1>6. ASSUME NEW q \in NextPhases(p), p # "judging"
      PROVE  q \in Phases /\ UpTo(c, p) \subseteq Before(c, q)
  <2>1. q \in Phases /\ Rank[p] < Rank[q]
    BY <1>6 DEF NextPhases, Phases, Rank
  <2> QED
    BY <1>3, <1>4, <2>1
<1>7. ASSUME NEW q \in Phases, c < NCases
      PROVE  UpTo(c, p) \subseteq Before(c + 1, q)
  BY <1>1, <1>2
<1> QED
  BY <1>2, <1>4, <1>5, <1>6, <1>7

\* freeze_plan's rule leaves room for a slot that is not taken yet.
LEMMA RoomForFreeSlot ==
    ASSUME NEW S \in SUBSET Slots, NEW budget \in Nat, CanFreeze(budget)
    PROVE  /\ IsFiniteSet(S) /\ Cardinality(S) <= budget
           /\ \A x \in Slots : x \notin S => Cardinality(S) < budget
<1>1. IsFiniteSet(Cases) /\ Cardinality(Cases) = NCases /\ NCases \in Nat
  <2>1. NCases \in Nat /\ 1 \in Int /\ NCases \in Int
    BY EvaluationAssumption
  <2>2. IsFiniteSet(1..NCases) /\ Cardinality(1..NCases) = IF 1 > NCases THEN 0 ELSE NCases - 1 + 1
    BY <2>1, FS_Interval
  <2> QED
    BY <2>1, <2>2, EvaluationAssumption DEF Cases
<1>2. IsFiniteSet(Phases) /\ Cardinality(Phases) = 3
  <2>1. IsFiniteSet({"judging"}) /\ Cardinality({"judging"}) = 1
    BY FS_Singleton
  <2>2. IsFiniteSet({"judging"} \cup {"correction"}) /\ Cardinality({"judging"} \cup {"correction"}) = 2
    BY <2>1, FS_AddElement
  <2>3. /\ IsFiniteSet(({"judging"} \cup {"correction"}) \cup {"generation"})
        /\ Cardinality(({"judging"} \cup {"correction"}) \cup {"generation"}) = 3
    <3>1. "generation" \notin {"judging"} \cup {"correction"}
      OBVIOUS
    <3> QED
      BY <2>2, <3>1, FS_AddElement
  <2>4. ({"judging"} \cup {"correction"}) \cup {"generation"} = Phases
    BY DEF Phases
  <2> QED
    BY <2>3, <2>4
<1>3. IsFiniteSet(Slots) /\ Cardinality(Slots) = NCases * 3
  BY <1>1, <1>2, FS_Product DEF Slots
<1>4. IsFiniteSet(S) /\ Cardinality(S) \in Nat /\ Cardinality(S) <= Cardinality(Slots)
  BY <1>3, FS_Subset, FS_CardinalityType
<1>5. Cardinality(S) <= budget
  BY <1>1, <1>3, <1>4 DEF CanFreeze
<1>6. ASSUME NEW x \in Slots, x \notin S PROVE Cardinality(S) < budget
  <2>1. S # Slots
    BY <1>6
  <2>2. Cardinality(S) # Cardinality(Slots)
    BY <1>3, <2>1, FS_Subset
  <2> QED
    BY <1>1, <1>3, <1>4, <2>2 DEF CanFreeze
<1> QED
  BY <1>4, <1>5, <1>6

-----------------------------------------------------------------------------
(* What a step does to the rows. *)

\* A method that writes a row that is there creates none.
LEMMA CommitCreatesNothing ==
    ASSUME StoreInv, NEW j \in Jobs, Exists(j), NEW row, NEW type, Commit(j, row, type)
    PROVE  \A i \in Jobs : Exists(i)' => Exists(i)
  BY DEF Commit, Exists, StoreInv, StoreTypeOK

LEMMA FrozenStay ==
    ASSUME StoreInv, StoreKept, BudgetsAreFrozen, \A i \in Jobs : Exists(i)' => Exists(i)
    PROVE  BudgetsAreFrozen'
<1>1. \A i \in Jobs : Exists(i)' => CanFreeze(job'[i].request)
  BY KeptRows DEF BudgetsAreFrozen
<1> QED
  BY <1>1 DEF BudgetsAreFrozen, CanFreeze

-----------------------------------------------------------------------------
(* The steps that spend nothing. *)

\* Where a thread may go without spending: it leaves, is dispatched to a row,
\* or goes on with the job it holds.
Follows(old, new) ==
    \/ new.pc = "off"
    \/ new.pc \in {"start", "claim"} /\ new.id \in Jobs /\ job'[new.id] # NoRow
    \/ /\ old.pc \notin Unclaimed /\ new.pc \notin Unclaimed \cup {"call"}
       /\ new.id = old.id
       /\ Passed(old) \subseteq Passed(new)
       /\ new.pc \in LastTries => new.tries < FinishTries

LEMMA MovePreserves ==
    ASSUME EInv, StoreKept, BudgetsAreFrozen', TablesTyped', UNCHANGED attempts,
           calls' \in [Jobs -> [Slots -> Nat]], CallsAreReserved',
           run' \in [Runners -> RunRecord],
           \A r \in Runners : \/ run'[r] = run[r]
                              \/ ~run'[r].refused /\ Follows(run[r], run'[r])
    PROVE  EInv'
<1> USE DEF EInv
<1>1. /\ StoreInv'
      /\ \A j \in Jobs : Exists(j) => Exists(j)'
      /\ \A j \in Jobs : Waiting(j)' => Waiting(j)
  BY KeptRows
<1>2. attempts' = attempts
  OBVIOUS
<1>3. TypeOK'
  BY <1>1, <1>2 DEF TypeOK, TablesTyped, StoreInv, RunRecord, Slots
<1>4. ThreadsNameRows'
  BY <1>1 DEF ThreadsNameRows, Follows, Job, Exists, Unclaimed
<1>5. ASSUME NEW r \in Runners, Holds(r)'
      PROVE  /\ Holds(r) /\ Job(r)' = Job(r) /\ Job(r) \in Jobs
             /\ Passed(run[r]) \subseteq Passed(run'[r])
  BY <1>5 DEF Holds, Job, Follows, Unclaimed, ThreadsNameRows
<1>6. HoldersHaveClaimed'
  <2>1. ASSUME NEW r \in Runners, Holds(r)' PROVE ~Waiting(Job(r))'
    BY <2>1, <1>1, <1>5 DEF HoldersHaveClaimed, Waiting, Exists, Job
  <2> QED
    BY <2>1, <1>5 DEF HoldersHaveClaimed
<1>7. SpentIsPassed'
  <2>1. ASSUME NEW j \in Jobs, Waiting(j)' PROVE attempts'[j] = {}
    BY <2>1, <1>1, <1>2 DEF SpentIsPassed
  <2>2. ASSUME NEW r \in Runners, Holds(r)' PROVE attempts'[Job(r)'] \subseteq Passed(run'[r])
    BY <2>2, <1>2, <1>5 DEF SpentIsPassed
  <2> QED
    BY <2>1, <2>2 DEF SpentIsPassed, Passed, Before, UpTo, Slots
<1>8. BudgetSuffices' /\ TriesAreLeft'
  BY DEF BudgetSuffices, TriesAreLeft, Follows, LastTries
<1> QED
  BY <1>1, <1>3, <1>4, <1>6, <1>7, <1>8

LEMMA QuietPreserves ==
    ASSUME EInv, StoreKept, BudgetsAreFrozen', TablesTyped', UNCHANGED <<attempts, calls>>,
           run' \in [Runners -> RunRecord],
           \A r \in Runners : \/ run'[r] = run[r]
                              \/ ~run'[r].refused /\ Follows(run[r], run'[r])
    PROVE  EInv'
<1>1. ASSUME NEW r \in Runners, run'[r].pc = "call" PROVE run'[r] = run[r]
  BY <1>1 DEF Follows, Unclaimed
<1>2. CallsAreReserved'
  BY <1>1 DEF EInv, CallsAreReserved, At, Slot, Job
<1>3. calls' \in [Jobs -> [Slots -> Nat]]
  BY DEF EInv, TypeOK, Slots
<1> QED
  BY <1>2, <1>3, MovePreserves

LEMMA OneMoves ==
    ASSUME EInv, StoreKept, BudgetsAreFrozen', TablesTyped', UNCHANGED <<attempts, calls>>,
           NEW r \in Runners, NEW new \in RunRecord, run' = [run EXCEPT ![r] = new],
           ~new.refused, Follows(run[r], new)
    PROVE  EInv'
<1>1. run \in [Runners -> RunRecord]
  BY DEF EInv, TypeOK, RunRecord
<1>2. /\ run' \in [Runners -> RunRecord]
      /\ run'[r] = new /\ \A q \in Runners : q # r => run'[q] = run[q]
  BY <1>1
<1>3. \A q \in Runners : \/ run'[q] = run[q]
                         \/ ~run'[q].refused /\ Follows(run[q], run'[q])
  BY <1>2
<1> QED
  BY <1>2, <1>3, QuietPreserves

LEMMA IdleRecord == Idle \in RunRecord /\ Idle.pc = "off" /\ ~Idle.refused
<1>1. 1 \in Cases /\ 0 \in 0..FinishTries /\ "off" \in PCs /\ "generation" \in Phases
  BY EvaluationAssumption DEF Cases, PCs, Phases
<1> QED
  BY <1>1 DEF Idle, RunRecord

\* The thread returns from run.
LEMMA LeavePreserves ==
    ASSUME EInv, StoreKept, BudgetsAreFrozen', TablesTyped', UNCHANGED <<attempts, calls>>,
           NEW r \in Runners, Leave(r)
    PROVE  EInv'
<1>1. run' = [run EXCEPT ![r] = Idle]
  BY DEF Leave
<1>2. Follows(run[r], Idle)
  BY IdleRecord DEF Follows
<1> HIDE DEF Idle
<1> QED
  BY <1>1, <1>2, IdleRecord, OneMoves

\* The thread goes on with its job: towards the end, before its first case,
\* at one slot, or to the next case.
GoesOn(old, new) ==
    \/ new.pc \notin Unspent \cup Spending \cup Storing
    \/ old.pc \in Unspent
    \/ old.pc \in Spending /\ new.pc \in Spending /\ new.case = old.case /\ new.phase = old.phase
    \/ old.pc \in Storing /\ new.pc \in Storing /\ new.case = old.case /\ new.phase = old.phase
    \/ /\ old.pc \in Storing /\ new.pc \in Spending
       /\ old.case < NCases /\ new.case = old.case + 1

LEMMA AdvancePreserves ==
    ASSUME EInv, StoreKept, BudgetsAreFrozen', TablesTyped', UNCHANGED <<attempts, calls>>,
           NEW r \in Runners, Holds(r), NEW new \in RunRecord, run' = [run EXCEPT ![r] = new],
           new.id = run[r].id, new.refused = run[r].refused,
           new.pc \notin Unclaimed, new.pc # "call", GoesOn(run[r], new),
           new.pc \in LastTries => new.tries < FinishTries
    PROVE  EInv'
<1>1. run[r] \in RunRecord /\ ~new.refused
  BY DEF EInv, TypeOK, RunRecord, BudgetSuffices
<1>2. run[r].case \in Cases /\ run[r].phase \in Phases /\ new.case \in Cases /\ new.phase \in Phases
  BY <1>1 DEF RunRecord
<1>3. Passed(run[r]) \subseteq Passed(new)
  <2>1. \A c \in Cases, p \in Phases : UpTo(c, p) \subseteq Slots /\ Before(c, p) \subseteq Slots
    BY PassedGrows
  <2>2. Passed(run[r]) \subseteq Slots
    BY <1>2, <2>1 DEF Passed
  <2>3. CASE new.pc \notin Unspent \cup Spending \cup Storing
    BY <2>2, <2>3 DEF Passed
  <2>4. CASE run[r].pc \in Unspent
    BY <2>4 DEF Passed
  <2>5. CASE /\ run[r].pc \in Spending /\ new.pc \in Spending
             /\ new.case = run[r].case /\ new.phase = run[r].phase
    BY <2>5 DEF Passed, Spending, Unspent
  <2>6. CASE /\ run[r].pc \in Storing /\ new.pc \in Storing
             /\ new.case = run[r].case /\ new.phase = run[r].phase
    BY <2>6 DEF Passed, Storing, Spending, Unspent
  <2>7. CASE /\ run[r].pc \in Storing /\ new.pc \in Spending
             /\ run[r].case < NCases /\ new.case = run[r].case + 1
    <3>0. ASSUME NEW c \in Cases, NEW p \in Phases, NEW q \in Phases, c < NCases
          PROVE  UpTo(c, p) \subseteq Before(c + 1, q)
      BY <3>0, PassedGrows
    <3>1. UpTo(run[r].case, run[r].phase) \subseteq Before(run[r].case + 1, new.phase)
      BY <1>2, <2>7, <3>0
    <3> QED
      BY <2>7, <3>1 DEF Passed, Storing, Spending, Unspent
  <2> QED
    BY <2>3, <2>4, <2>5, <2>6, <2>7 DEF GoesOn
<1>4. Follows(run[r], new)
  BY <1>3 DEF Follows, Holds
<1> QED
  BY <1>1, <1>4, OneMoves

\* A storage read, or a call that the code refuses.
LEMMA NothingWritten ==
    ASSUME EInv, UNCHANGED storeVars
    PROVE  StoreKept /\ BudgetsAreFrozen'
  BY DEF EInv, StoreKept, BudgetsAreFrozen, Exists, storeVars, CanFreeze

LEMMA TablesStay ==
    ASSUME EInv, UNCHANGED <<cases, report, progress, process, crashes, faults>>
    PROVE  TablesTyped'
  BY DEF EInv, TypeOK, TablesTyped

\* The record of a thread with another program counter, and with another row.
SameThread(new, old, pc) ==
    /\ new.pc = pc /\ new.id = old.id /\ new.refused = old.refused
    /\ new.case = old.case /\ new.phase = old.phase /\ new.tries = old.tries

LEMMA MovedRecord ==
    ASSUME EInv, NEW r \in Runners, NEW pc \in PCs, NEW row \in JobRow \cup {NoRow}
    PROVE  /\ [run[r] EXCEPT !.pc = pc] \in RunRecord
           /\ [run[r] EXCEPT !.pc = pc, !.row = row] \in RunRecord
           /\ SameThread([run[r] EXCEPT !.pc = pc], run[r], pc)
           /\ SameThread([run[r] EXCEPT !.pc = pc, !.row = row], run[r], pc)
<1>1. run[r] \in RunRecord
  BY DEF EInv, TypeOK, RunRecord
<1> QED
  BY <1>1 DEF RunRecord, SameThread

\* An exception takes the thread to the handler.
LEMMA RaisePreserves ==
    ASSUME EInv, StoreKept, BudgetsAreFrozen', TablesTyped', UNCHANGED <<attempts, calls>>,
           NEW r \in Runners, Holds(r), Raise(r)
    PROVE  EInv'
<1> DEFINE new == [run[r] EXCEPT !.pc = "handler"]
<1>1. "handler" \in PCs /\ "handler" \notin Unclaimed \cup {"call"} \cup Unspent \cup Spending \cup Storing
  BY DEF PCs, Unclaimed, Unspent, Spending, Storing
<1>2. new \in RunRecord /\ new.pc = "handler" /\ new.id = run[r].id /\ new.refused = run[r].refused
  BY <1>1, MovedRecord DEF SameThread
<1>3. run' = [run EXCEPT ![r] = new]
  BY DEF Raise, EInv, TypeOK
<1>4. GoesOn(run[r], new)
  BY <1>1, <1>2 DEF GoesOn
<1> HIDE DEF new
<1> QED
  BY <1>1, <1>2, <1>3, <1>4, AdvancePreserves DEF LastTries

\* The thread goes on, with the row a method returned or without.
LEMMA GoPreserves ==
    ASSUME EInv, StoreKept, BudgetsAreFrozen', TablesTyped', UNCHANGED <<attempts, calls>>,
           NEW r \in Runners, Holds(r), NEW pc \in PCs,
           pc \notin Unclaimed \cup {"call"},
           \/ pc \notin Unspent \cup Spending \cup Storing
           \/ run[r].pc \in Unspent
           \/ run[r].pc \in Spending /\ pc \in Spending
           \/ run[r].pc \in Storing /\ pc \in Storing,
           pc \in LastTries => run[r].tries < FinishTries,
           \/ Go(r, pc)
           \/ run' = [run EXCEPT ![r].pc = pc, ![r].row = job[Job(r)]]
           \/ GoWith(r, pc)
    PROVE  EInv'
<1>1. Job(r) \in Jobs
  BY DEF EInv, ThreadsNameRows, Holds, Unclaimed
<1>2. job[Job(r)] \in JobRow \cup {NoRow} /\ job'[Job(r)] \in JobRow \cup {NoRow}
  <2>1. StoreInv'
    BY KeptRows DEF EInv
  <2> QED
    BY <1>1, <2>1 DEF EInv, StoreInv, StoreTypeOK, Job
<1>3. ASSUME NEW new \in RunRecord, run' = [run EXCEPT ![r] = new], SameThread(new, run[r], pc)
      PROVE  EInv'
  <2>1. GoesOn(run[r], new)
    BY <1>3 DEF GoesOn, SameThread
  <2> QED
    BY <1>3, <2>1, AdvancePreserves DEF SameThread
<1>4. CASE Go(r, pc)
  <2> DEFINE new == [run[r] EXCEPT !.pc = pc]
  <2>1. run' = [run EXCEPT ![r] = new]
    BY <1>4 DEF Go, EInv, TypeOK
  <2>2. new \in RunRecord /\ SameThread(new, run[r], pc)
    BY <1>2, MovedRecord
  <2> HIDE DEF new
  <2> QED
    BY <1>3, <2>1, <2>2
<1>5. ASSUME NEW row \in JobRow \cup {NoRow}, run' = [run EXCEPT ![r].pc = pc, ![r].row = row]
      PROVE  EInv'
  <2> DEFINE new == [run[r] EXCEPT !.pc = pc, !.row = row]
  <2>1. run' = [run EXCEPT ![r] = new]
    BY <1>5 DEF EInv, TypeOK
  <2>2. new \in RunRecord /\ SameThread(new, run[r], pc)
    BY MovedRecord
  <2> HIDE DEF new
  <2> QED
    BY <1>3, <2>1, <2>2
<1> QED
  BY <1>2, <1>4, <1>5 DEF GoWith

-----------------------------------------------------------------------------
(* The methods a thread calls on the repository. *)

LEMMA HolderFacts ==
    ASSUME EInv, NEW r \in Runners, run[r].pc # "off"
    PROVE  Job(r) \in Jobs /\ Exists(Job(r)) /\ run[r] \in RunRecord
  BY DEF EInv, ThreadsNameRows, TypeOK, RunRecord

\* transition_step.
LEMMA MoveStepPreserves ==
    ASSUME EInv, NEW r \in Runners, NEW at \in PCs, NEW s \in Steps, NEW target \in StepStates,
           NEW next \in PCs, at \notin Unclaimed, next \notin Unclaimed \cup {"call"} \cup LastTries,
           at \in Unspent \/ next \notin Unspent \cup Spending \cup Storing,
           MoveStep(r, at, s, target, next)
    PROVE  EInv'
<1>1. Holds(r) /\ run[r].pc = at /\ UNCHANGED <<tables, calls, env>>
  BY DEF MoveStep, At, Holds
<1>2. Job(r) \in Jobs /\ Exists(Job(r)) /\ TablesTyped' /\ UNCHANGED <<attempts, calls>>
  BY <1>1, HolderFacts, TablesStay DEF tables, env, Unclaimed
<1> DEFINE can == CanTransitionStep(Job(r), s, Row(r).revision, Row(r).steps[s].revision, target)
<1>3. CASE can /\ TransitionStep(Job(r), s, target) /\ GoWith(r, next)
  <2>1. StoreKept
    BY <1>2, <1>3, StepIsStep DEF EInv, StoreKept
  <2>2. BudgetsAreFrozen'
    BY <1>2, <1>3, <2>1, CommitCreatesNothing, FrozenStay DEF EInv, TransitionStep
  <2> QED
    BY <1>1, <1>2, <1>3, <2>1, <2>2, GoPreserves
<1>4. CASE ~can /\ Raise(r) /\ UNCHANGED storeVars
  BY <1>1, <1>2, <1>4, NothingWritten, RaisePreserves
<1> QED
  BY <1>3, <1>4 DEF MoveStep

\* report_progress.
LEMMA ReportPreserves ==
    ASSUME EInv, NEW r \in Runners, NEW at \in PCs, NEW current \in 0..NCases,
           NEW next \in RunRecord, at \notin Unclaimed,
           next.id = run[r].id, next.refused = run[r].refused,
           next.pc \notin Unclaimed \cup {"call"} \cup LastTries, GoesOn(run[r], next),
           Report(r, at, current, next)
    PROVE  EInv'
<1>1. /\ Holds(r) /\ run[r].pc = at /\ UNCHANGED <<attempts, calls>>
      /\ UNCHANGED <<cases, report, process, crashes, faults>>
  BY DEF Report, At, Holds, env
<1>2. Job(r) \in Jobs /\ Exists(Job(r))
  BY <1>1, HolderFacts DEF Unclaimed
<1> DEFINE can == CanReportProgress(Job(r), Row(r).revision)
           new == [next EXCEPT !.row = job'[Job(r)]]
<1>3. CASE /\ can /\ ReportProgress(Job(r))
           /\ progress' = [progress EXCEPT ![Job(r)] = current]
           /\ run' = [run EXCEPT ![r] = new]
  <2>1. StoreKept
    BY <1>2, <1>3, ProgressIsStep DEF EInv, StoreKept
  <2>2. BudgetsAreFrozen'
    BY <1>2, <1>3, <2>1, CommitCreatesNothing, FrozenStay DEF EInv, ReportProgress
  <2>3. TablesTyped'
    BY <1>1, <1>3 DEF EInv, TypeOK, TablesTyped
  <2>4. job'[Job(r)] \in JobRow \cup {NoRow}
    <3>1. StoreInv'
      BY <2>1, KeptRows DEF EInv
    <3> QED
      BY <1>2, <3>1 DEF StoreInv, StoreTypeOK, Job
  <2>5. /\ new \in RunRecord /\ new.pc = next.pc /\ new.id = next.id /\ new.refused = next.refused
        /\ new.case = next.case /\ new.phase = next.phase
    BY <2>4 DEF RunRecord
  <2>6. GoesOn(run[r], new)
    BY <2>5 DEF GoesOn
  <2> HIDE DEF new
  <2> QED
    BY <1>1, <1>3, <2>1, <2>2, <2>3, <2>5, <2>6, AdvancePreserves
<1>4. CASE ~can /\ Raise(r) /\ UNCHANGED <<storeVars, progress>>
  <2>1. StoreKept /\ BudgetsAreFrozen'
    BY <1>4, NothingWritten
  <2>2. TablesTyped'
    BY <1>1, <1>4, TablesStay
  <2> QED
    BY <1>1, <1>4, <2>1, <2>2, RaisePreserves
<1> QED
  BY <1>3, <1>4 DEF Report

\* transition_job and acknowledge_cancellation at the end of a job; a refused
\* call is tried again.
LEMMA AgainPreserves ==
    ASSUME EInv, UNCHANGED storeVars, TablesTyped', UNCHANGED <<attempts, calls>>,
           NEW r \in Runners, run[r].pc \in LastTries, Again(r)
    PROVE  EInv'
<1> DEFINE new == [run[r] EXCEPT !.pc = "finish", !.tries = run[r].tries + 1]
<1>1. run[r] \in RunRecord /\ run[r].tries < FinishTries /\ Holds(r)
  BY HolderFacts DEF EInv, TriesAreLeft, LastTries, Holds, Unclaimed
<1>2. new \in RunRecord /\ new.pc = "finish" /\ new.id = run[r].id /\ new.refused = run[r].refused
  <2>1. run[r].tries + 1 \in 0..FinishTries /\ "finish" \in PCs
    <3>1. run[r].tries \in 0..FinishTries
      BY <1>1 DEF RunRecord
    <3> QED
      BY <1>1, <3>1, EvaluationAssumption DEF PCs
  <2> QED
    BY <1>1, <2>1 DEF RunRecord
<1>3. run' = [run EXCEPT ![r] = new]
  BY DEF Again, EInv, TypeOK
<1>4. GoesOn(run[r], new)
  BY <1>2 DEF GoesOn, Unspent, Spending, Storing
<1>5. new.pc \notin Unclaimed /\ new.pc # "call" /\ new.pc \notin LastTries
  BY <1>2 DEF Unclaimed, LastTries
<1> HIDE DEF new
<1> QED
  BY <1>1, <1>2, <1>3, <1>4, <1>5, NothingWritten, AdvancePreserves

LEMMA EndPreserves ==
    ASSUME EInv, NEW r \in Runners, Succeed(r) \/ FinishFail(r) \/ FinishAcknowledge(r)
    PROVE  EInv'
<1>1. /\ Holds(r) /\ run[r].pc \in {"succeed", "fail", "acknowledge"}
      /\ UNCHANGED <<tables, calls, env>>
  BY DEF Succeed, FinishFail, FinishAcknowledge, At, Holds, Unclaimed
<1>2. Job(r) \in Jobs /\ Exists(Job(r)) /\ TablesTyped' /\ UNCHANGED <<attempts, calls>>
  BY <1>1, HolderFacts, TablesStay DEF tables, env
<1>3. ASSUME NEW expected, NEW target, NEW result \in Results, NEW failure \in Failures,
             CanTransitionJob(Job(r), expected, target, result, failure),
             TransitionJob(Job(r), target, result, failure), Leave(r)
      PROVE  EInv'
  <2>1. StoreKept
    BY <1>2, <1>3, TransitionIsStep DEF EInv, StoreKept
  <2>2. BudgetsAreFrozen'
    BY <1>2, <1>3, <2>1, CommitCreatesNothing, FrozenStay DEF EInv, TransitionJob
  <2> QED
    BY <1>2, <1>3, <2>1, <2>2, LeavePreserves
<1>4. CASE Succeed(r)
  <2>1. CASE Raise(r) /\ UNCHANGED storeVars
    BY <1>1, <1>2, <2>1, NothingWritten, RaisePreserves
  <2> QED
    BY <1>3, <1>4, <2>1 DEF Succeed, Results, Failures
<1>5. CASE FinishFail(r)
  <2>1. CASE Again(r) /\ UNCHANGED storeVars
    BY <1>2, <1>5, <2>1, AgainPreserves DEF FinishFail, At, LastTries
  <2> QED
    BY <1>3, <1>5, <2>1 DEF FinishFail, Results, Failures
<1>6. CASE FinishAcknowledge(r)
  <2>1. CASE Again(r) /\ UNCHANGED storeVars
    BY <1>2, <1>6, <2>1, AgainPreserves DEF FinishAcknowledge, At, LastTries
  <2>2. CASE /\ CanAcknowledgeCancellation(Job(r), Row(r).revision, "none")
             /\ AcknowledgeCancellation(Job(r), "none") /\ Leave(r)
    <3>1. StoreKept
      BY <1>2, <2>2, AcknowledgeIsStep DEF EInv, StoreKept, Results
    <3>2. BudgetsAreFrozen'
      BY <1>2, <2>2, <3>1, CommitCreatesNothing, FrozenStay DEF EInv, AcknowledgeCancellation
    <3> QED
      BY <1>2, <2>2, <3>1, <3>2, LeavePreserves
  <2> QED
    BY <1>6, <2>1, <2>2 DEF FinishAcknowledge
<1> QED
  BY <1>4, <1>5, <1>6
-----------------------------------------------------------------------------
(* The steps of a thread. *)

\* A step that only moves the thread, whatever it decides.
LEMMA WalkPreserves ==
    ASSUME EInv, NEW r \in Runners, Holds(r),
           UNCHANGED <<storeVars, attempts, calls>>, TablesTyped',
           NEW pc \in PCs, pc \notin Unclaimed \cup {"call"},
           \/ pc \notin Unspent \cup Spending \cup Storing
           \/ run[r].pc \in Unspent
           \/ run[r].pc \in Spending /\ pc \in Spending
           \/ run[r].pc \in Storing /\ pc \in Storing,
           pc \in LastTries => run[r].tries < FinishTries,
           \/ Go(r, pc)
           \/ run' = [run EXCEPT ![r].pc = pc, ![r].row = job[Job(r)]]
           \/ Raise(r) \/ Leave(r)
    PROVE  EInv'
<1>1. StoreKept /\ BudgetsAreFrozen'
  BY NothingWritten
<1> QED
  BY <1>1, GoPreserves, RaisePreserves, LeavePreserves

LEMMA ReadQueuedPreserves == ASSUME EInv, NEW r \in Runners, ReadQueued(r) PROVE EInv'
<1>1. run[r].pc = "start" /\ UNCHANGED <<storeVars, attempts, calls>> /\ TablesTyped'
  BY TablesStay DEF ReadQueued, At, tables, env
<1>2. StoreKept /\ BudgetsAreFrozen' /\ Job(r) \in Jobs /\ Exists(Job(r)) /\ run[r] \in RunRecord
  BY <1>1, NothingWritten, HolderFacts
<1>3. CASE Leave(r)
  BY <1>1, <1>2, <1>3, LeavePreserves
<1>4. CASE run' = [run EXCEPT ![r].pc = "claim", ![r].row = job[Job(r)]]
  <2> DEFINE new == [run[r] EXCEPT !.pc = "claim", !.row = job[Job(r)]]
  <2>1. job[Job(r)] \in JobRow \cup {NoRow} /\ "claim" \in PCs
    BY <1>2 DEF EInv, StoreInv, StoreTypeOK, PCs
  <2>2. new \in RunRecord /\ SameThread(new, run[r], "claim")
    BY <2>1, MovedRecord
  <2>3. run' = [run EXCEPT ![r] = new]
    BY <1>4 DEF EInv, TypeOK
  <2>4. ~new.refused /\ Follows(run[r], new)
    BY <1>1, <1>2, <2>2 DEF SameThread, EInv, BudgetSuffices, Follows, Job, Exists, storeVars
  <2> HIDE DEF new
  <2> QED
    BY <1>1, <1>2, <2>2, <2>3, <2>4, OneMoves
<1> QED
  BY <1>3, <1>4 DEF ReadQueued
\* The claim succeeds on a queued row, which no other thread holds.
LEMMA ClaimPreserves == ASSUME EInv, NEW r \in Runners, Claim(r) PROVE EInv'
<1>1. run[r].pc = "claim" /\ UNCHANGED <<attempts, calls>> /\ TablesTyped'
  BY TablesStay DEF Claim, At, tables, env
<1>2. Job(r) \in Jobs /\ Exists(Job(r)) /\ run[r] \in RunRecord
  BY <1>1, HolderFacts
<1>3. CASE Leave(r) /\ UNCHANGED storeVars
  BY <1>1, <1>3, NothingWritten, LeavePreserves
<1>4. CASE /\ CanTransitionJob(Job(r), Row(r).revision, "running", "none", "none")
           /\ TransitionJob(Job(r), "running", "none", "none")
           /\ GoWith(r, "prepare")
  <2>1. StoreKept
    BY <1>2, <1>4, TransitionIsStep DEF EInv, StoreKept, Results, Failures
  <2>2. BudgetsAreFrozen'
    BY <1>2, <1>4, <2>1, CommitCreatesNothing, FrozenStay DEF EInv, TransitionJob
  <2>3. /\ StoreInv'
        /\ \A j \in Jobs : Exists(j) => Exists(j)'
        /\ \A j \in Jobs : Waiting(j)' => Waiting(j)
    BY <2>1, KeptRows DEF EInv
  <2>4. Waiting(Job(r)) /\ job'[Job(r)] # NoRow /\ job'[Job(r)].state # "queued"
    <3>1. job[Job(r)].state = "queued"
      BY <1>2, <1>4, StoredRow DEF CanTransitionJob, JobTransitions, JobStates, EInv
    <3>2. job'[Job(r)].state = "running"
      BY <1>2, <1>4 DEF TransitionJob, Commit, EInv, StoreInv, StoreTypeOK, JobRow, Exists
    <3> QED
      BY <1>2, <2>3, <3>1, <3>2 DEF Waiting, Exists
  <2> DEFINE new == [run[r] EXCEPT !.pc = "prepare", !.row = job'[Job(r)]]
  <2>5. job'[Job(r)] \in JobRow \cup {NoRow} /\ "prepare" \in PCs
    BY <1>2, <2>3 DEF StoreInv, StoreTypeOK, PCs, Job
  <2>6. new \in RunRecord /\ SameThread(new, run[r], "prepare")
    BY <2>5, MovedRecord
  <2>7. run' = [run EXCEPT ![r] = new]
    BY <1>4 DEF GoWith, EInv, TypeOK
  <2> HIDE DEF new
  <2>8. /\ run'[r] = new /\ \A q \in Runners : q # r => run'[q] = run[q]
        /\ run' \in [Runners -> RunRecord]
    BY <2>6, <2>7 DEF EInv, TypeOK, RunRecord
  <2>9. TypeOK'
    BY <1>1, <2>3, <2>8 DEF EInv, TypeOK, TablesTyped, StoreInv, RunRecord
  <2>10. ThreadsNameRows'
    BY <1>2, <2>3, <2>6, <2>8 DEF EInv, ThreadsNameRows, SameThread, Job, Exists
  <2>11. HoldersHaveClaimed'
    <3>1. \A q \in Runners : Holds(q) => Job(q) # Job(r) /\ Job(q) \in Jobs /\ ~Waiting(Job(q))
      BY <2>4 DEF EInv, HoldersHaveClaimed, ThreadsNameRows, Holds, Unclaimed
    <3>2. Job(r)' = Job(r) /\ \A q \in Runners : q # r => Job(q)' = Job(q) /\ (Holds(q)' <=> Holds(q))
      BY <2>6, <2>8 DEF SameThread, Job, Holds
    <3>3. ASSUME NEW q \in Runners, Holds(q)' PROVE ~Waiting(Job(q))'
      <4>1. CASE q = r
        BY <2>4, <3>2, <4>1 DEF Waiting, Exists, Job
      <4>2. CASE q # r
        BY <2>3, <3>1, <3>2, <3>3, <4>2 DEF Waiting, Exists, Job
      <4> QED
        BY <4>1, <4>2
    <3>4. ASSUME NEW p \in Runners, NEW q \in Runners, Holds(p)', Holds(q)', Job(p)' = Job(q)'
          PROVE  p = q
      BY <3>1, <3>2, <3>4 DEF EInv, HoldersHaveClaimed
    <3> QED
      BY <3>3, <3>4 DEF HoldersHaveClaimed
  <2>12. SpentIsPassed'
    <3>1. attempts[Job(r)] = {} /\ attempts' = attempts
      BY <1>1, <1>2, <2>4 DEF EInv, SpentIsPassed
    <3>2. ASSUME NEW q \in Runners, Holds(q)' PROVE attempts'[Job(q)'] \subseteq Passed(run'[q])
      BY <2>6, <2>8, <3>1, <3>2 DEF EInv, SpentIsPassed, SameThread, Job, Holds
    <3>3. \A j \in Jobs : Waiting(j)' => attempts'[j] = {}
      BY <2>3, <3>1 DEF EInv, SpentIsPassed
    <3> QED
      BY <3>2, <3>3 DEF SpentIsPassed, Passed, Before, UpTo, Slots
  <2>13. CallsAreReserved'
    BY <1>1, <2>6, <2>8 DEF EInv, CallsAreReserved, SameThread, At, Slot, Job
  <2>14. BudgetSuffices' /\ TriesAreLeft'
    BY <2>6, <2>8 DEF EInv, BudgetSuffices, TriesAreLeft, SameThread, LastTries
  <2> QED
    BY <2>2, <2>3, <2>9, <2>10, <2>11, <2>12, <2>13, <2>14 DEF EInv
<1> QED
  BY <1>3, <1>4 DEF Claim

\* The slot before which a thread stands is not taken: it is reserved, or the
\* job is no longer running.
LEMMA ReservePreserves == ASSUME EInv, NEW r \in Runners, ReserveAttempt(r) PROVE EInv'
<1>1. /\ run[r].pc = "reserve" /\ Holds(r)
      /\ UNCHANGED <<storeVars, cases, report, progress, calls, env>>
  BY DEF ReserveAttempt, At, Holds, Unclaimed
<1>2. /\ Job(r) \in Jobs /\ Exists(Job(r)) /\ run[r] \in RunRecord
      /\ StoreKept /\ BudgetsAreFrozen' /\ TablesTyped'
  BY <1>1, HolderFacts, NothingWritten, TablesStay DEF env
<1>3. run[r].case \in Cases /\ run[r].phase \in Phases /\ Slot(r) \in Slots
  BY <1>2 DEF RunRecord, Slot, Slots
<1>4. Slot(r) \notin attempts[Job(r)] /\ attempts[Job(r)] \in SUBSET Slots
  <2>1. attempts[Job(r)] \subseteq Before(run[r].case, run[r].phase)
    BY <1>1 DEF EInv, SpentIsPassed, Passed, Spending, Unspent
  <2>2. Slot(r) \notin Before(run[r].case, run[r].phase)
    BY <1>3, PassedGrows DEF Slot
  <2> QED
    BY <1>2, <2>1, <2>2 DEF EInv, TypeOK, Slots
<1>5. job' = job /\ log' = log /\ StoreInv'
  BY <1>1, <1>2, KeptRows DEF storeVars, EInv
<1>6. CASE /\ ~CanReserve(Job(r), Slot(r)) /\ UNCHANGED attempts
           /\ run' = [run EXCEPT ![r].pc = "handler",
                                 ![r].refused = job[Job(r)].state = "running"]
  <2>1. job[Job(r)].request \in Nat /\ CanFreeze(job[Job(r)].request)
    BY <1>2, StoredRow, EvaluationAssumption DEF EInv, BudgetsAreFrozen, JobRow
  <2>2. Cardinality(attempts[Job(r)]) < job[Job(r)].request
    BY <1>3, <1>4, <2>1, RoomForFreeSlot
  <2>3. (job[Job(r)].state = "running") = FALSE
    BY <1>4, <1>6, <2>2 DEF CanReserve
  <2>4. run' = [run EXCEPT ![r].pc = "handler", ![r].refused = FALSE]
    BY <1>6, <2>3
  <2> DEFINE new == [run[r] EXCEPT !.pc = "handler", !.refused = FALSE]
  <2>5. new \in RunRecord /\ new.pc = "handler" /\ new.id = run[r].id /\ new.refused = FALSE
    BY <1>2 DEF RunRecord, PCs
  <2>6. run' = [run EXCEPT ![r] = new]
    BY <2>4 DEF EInv, TypeOK
  <2>7. new.refused = run[r].refused
    BY <2>5, <1>2 DEF EInv, BudgetSuffices, RunRecord
  <2>8. GoesOn(run[r], new) /\ new.pc \notin Unclaimed \cup {"call"} \cup LastTries
    BY <2>5 DEF GoesOn, Unspent, Spending, Storing, Unclaimed, LastTries
  <2> HIDE DEF new
  <2> QED
    BY <1>1, <1>2, <1>6, <2>5, <2>6, <2>7, <2>8, AdvancePreserves
<1>7. CASE /\ attempts' = [attempts EXCEPT ![Job(r)] = @ \cup {Slot(r)}]
           /\ Go(r, "call")
  <2> DEFINE new == [run[r] EXCEPT !.pc = "call"]
  <2>1. new \in RunRecord /\ SameThread(new, run[r], "call")
    BY MovedRecord DEF PCs, EInv, StoreInv, StoreTypeOK
  <2>2. run' = [run EXCEPT ![r] = new]
    BY <1>7 DEF Go, EInv, TypeOK
  <2> HIDE DEF new
  <2>3. /\ run'[r] = new /\ \A q \in Runners : q # r => run'[q] = run[q]
        /\ run' \in [Runners -> RunRecord]
    BY <2>1, <2>2 DEF EInv, TypeOK, RunRecord
  <2>4. /\ attempts'[Job(r)] = attempts[Job(r)] \cup {Slot(r)}
        /\ \A j \in Jobs : j # Job(r) => attempts'[j] = attempts[j]
        /\ attempts' \in [Jobs -> SUBSET Slots]
    BY <1>2, <1>3, <1>7 DEF EInv, TypeOK, Slots
  <2>5. TypeOK'
    BY <1>1, <1>2, <1>5, <2>3, <2>4 DEF EInv, TypeOK, TablesTyped, StoreInv, RunRecord, Slots
  <2>6. \A q \in Runners : Job(q)' = Job(q) /\ (Holds(q)' <=> Holds(q))
    BY <1>1, <2>1, <2>3 DEF Job, SameThread, Holds, Unclaimed
  <2>7. ThreadsNameRows' /\ HoldersHaveClaimed'
    <3>1. \A q \in Runners : run'[q].pc # "off" => run[q].pc # "off"
      BY <1>1, <2>3
    <3> QED
      BY <1>5, <2>6, <3>1 DEF EInv, ThreadsNameRows, HoldersHaveClaimed, Waiting, Exists
  <2>8. SpentIsPassed'
    <3>1. \A q \in Runners : Holds(q) /\ q # r => Job(q) # Job(r) /\ Job(q) \in Jobs
      BY <1>1 DEF EInv, HoldersHaveClaimed, ThreadsNameRows, Holds, Unclaimed
    <3>2. attempts'[Job(r)] \subseteq Passed(run'[r])
      <4>1. attempts[Job(r)] \subseteq Before(run[r].case, run[r].phase)
        BY <1>1 DEF EInv, SpentIsPassed, Passed, Spending, Unspent
      <4>2. attempts'[Job(r)] \subseteq UpTo(run[r].case, run[r].phase)
        BY <1>3, <2>4, <4>1, PassedGrows DEF Slot
      <4> QED
        BY <2>1, <2>3, <4>2 DEF SameThread, Passed, Storing, Spending, Unspent
    <3>3. ASSUME NEW q \in Runners, Holds(q)' PROVE attempts'[Job(q)'] \subseteq Passed(run'[q])
      <4>1. CASE q = r
        BY <2>6, <3>2, <4>1
      <4>2. CASE q # r
        BY <2>3, <2>4, <2>6, <3>1, <3>3, <4>2 DEF EInv, SpentIsPassed
      <4> QED
        BY <4>1, <4>2
    <3>4. ASSUME NEW j \in Jobs, Waiting(j)' PROVE attempts'[j] = {}
      <4>1. Waiting(j) /\ ~Waiting(Job(r))
        BY <1>1, <1>5, <3>4 DEF Waiting, Exists, EInv, HoldersHaveClaimed
      <4> QED
        BY <2>4, <4>1 DEF EInv, SpentIsPassed
    <3> QED
      BY <3>3, <3>4 DEF SpentIsPassed, Passed, Before, UpTo, Slots
  <2>9. CallsAreReserved'
    <3>1. calls' = calls /\ \A x \in Slots : calls[Job(r)][x] \in Nat
      BY <1>1, <1>2 DEF EInv, TypeOK, Slots
    <3>2. calls[Job(r)][Slot(r)] = 0
      BY <1>2, <1>3, <1>4, <3>1 DEF EInv, CallsAreReserved
    <3>3. \A j \in Jobs : attempts[j] \subseteq attempts'[j]
      BY <2>4
    <3>4. Slot(r)' = Slot(r)
      BY <2>1, <2>3 DEF Slot, SameThread
    <3>5. ASSUME NEW q \in Runners, run'[q].pc = "call"
          PROVE  Slot(q)' \in attempts'[Job(q)'] /\ calls'[Job(q)'][Slot(q)'] = 0
      <4>1. CASE q = r
        BY <2>4, <2>6, <3>1, <3>2, <3>4, <4>1
      <4>2. CASE q # r
        <5>1. run'[q] = run[q] /\ Slot(q)' = Slot(q) /\ At(q, "call")
          BY <2>3, <3>5, <4>2 DEF Slot, At
        <5>2. Job(q) \in Jobs
          BY <5>1, HolderFacts DEF At
        <5> QED
          BY <2>6, <3>1, <3>3, <5>1, <5>2 DEF EInv, CallsAreReserved
      <4> QED
        BY <4>1, <4>2
    <3>6. \A j \in Jobs, x \in Slots : calls'[j][x] <= 1 /\ (calls'[j][x] = 1 => x \in attempts'[j])
      BY <3>1, <3>3 DEF EInv, CallsAreReserved
    <3> QED
      BY <3>5, <3>6 DEF CallsAreReserved, At
  <2>10. BudgetSuffices' /\ TriesAreLeft'
    BY <2>1, <2>3 DEF EInv, BudgetSuffices, TriesAreLeft, SameThread, LastTries
  <2> QED
    BY <1>2, <1>5, <2>5, <2>7, <2>8, <2>9, <2>10 DEF EInv
<1> QED
  BY <1>6, <1>7 DEF ReserveAttempt
\* Sending uses the reserved slot; what follows is behind it.
LEMMA InvokePreserves == ASSUME EInv, NEW r \in Runners, Invoke(r) PROVE EInv'
<1>1. /\ run[r].pc = "call" /\ Holds(r) /\ UNCHANGED <<storeVars, attempts>>
      /\ UNCHANGED <<cases, report, progress, process, crashes, faults>>
  BY DEF Invoke, At, Holds, Unclaimed, tables, env
<1>2. /\ Job(r) \in Jobs /\ run[r] \in RunRecord /\ run \in [Runners -> RunRecord]
      /\ StoreKept /\ BudgetsAreFrozen' /\ TablesTyped'
  BY <1>1, HolderFacts, NothingWritten, TablesStay DEF EInv, TypeOK, RunRecord
<1>3. run[r].case \in Cases /\ run[r].phase \in Phases /\ Slot(r) \in Slots
  BY <1>2 DEF RunRecord, Slot, Slots
<1>4. Slot(r) \in attempts[Job(r)] /\ calls[Job(r)][Slot(r)] = 0
  BY <1>1 DEF EInv, CallsAreReserved, At
<1>5. calls \in [Jobs -> [Slots -> Nat]] /\ calls' = [calls EXCEPT ![Job(r)][Slot(r)] = @ + 1]
  BY DEF EInv, TypeOK, Slots, Invoke, Send
<1>6. /\ calls' \in [Jobs -> [Slots -> Nat]]
      /\ calls'[Job(r)][Slot(r)] = 1
      /\ \A j \in Jobs, x \in Slots :
           <<j, x>> # <<Job(r), Slot(r)>> => calls'[j][x] = calls[j][x]
  <2> DEFINE i == Job(r)
             s == Slot(r)
  <2>1. i \in Jobs /\ s \in Slots /\ calls[i][s] = 0
    BY <1>2, <1>3, <1>4
  <2>2. calls' = [calls EXCEPT ![i] = [calls[i] EXCEPT ![s] = 1]]
    BY <1>5, <2>1
  <2> HIDE DEF i, s
  <2>3. /\ calls' \in [Jobs -> [Slots -> Nat]] /\ calls'[i][s] = 1
        /\ \A j \in Jobs, x \in Slots : <<j, x>> # <<i, s>> => calls'[j][x] = calls[j][x]
    BY <1>5, <2>1, <2>2
  <2> QED
    BY <2>3 DEF i, s
<1>7. ASSUME NEW new \in RunRecord, run' = [run EXCEPT ![r] = new],
             new.id = run[r].id, new.refused = run[r].refused,
             \/ new.pc = "handler"
             \/ new.pc = "commitCase" /\ new.case = run[r].case /\ new.phase = run[r].phase
             \/ /\ new.pc = "check" /\ new.case = run[r].case
                /\ run[r].phase # "judging" /\ new.phase \in NextPhases(run[r].phase)
      PROVE  EInv'
  <2>1. /\ run' \in [Runners -> RunRecord] /\ run'[r] = new
        /\ \A q \in Runners : q # r => run'[q] = run[q]
    BY <1>2, <1>7
  <2>2. new.pc \notin Unclaimed \cup {"call"} \cup LastTries
    BY <1>7 DEF Unclaimed, LastTries
  <2>3. Passed(run[r]) = UpTo(run[r].case, run[r].phase)
    BY <1>1 DEF Passed, Storing, Spending, Unspent
  <2>4. Passed(run[r]) \subseteq Passed(new)
    <3>1. CASE new.pc = "handler"
      <4>1. Passed(new) = Slots
        BY <3>1 DEF Passed, Storing, Spending, Unspent
      <4>2. UpTo(run[r].case, run[r].phase) \subseteq Slots
        BY <1>3, PassedGrows
      <4> QED
        BY <2>3, <4>1, <4>2
    <3>2. CASE new.pc = "commitCase" /\ new.case = run[r].case /\ new.phase = run[r].phase
      BY <2>3, <3>2 DEF Passed, Storing, Spending, Unspent
    <3>3. CASE /\ new.pc = "check" /\ new.case = run[r].case
               /\ run[r].phase # "judging" /\ new.phase \in NextPhases(run[r].phase)
      <4>1. UpTo(run[r].case, run[r].phase) \subseteq Before(run[r].case, new.phase)
        BY <1>3, <3>3, PassedGrows
      <4> QED
        BY <2>3, <3>3, <4>1 DEF Passed, Storing, Spending, Unspent
    <3> QED
      BY <1>7, <3>1, <3>2, <3>3
  <2>5. Follows(run[r], new) /\ ~new.refused
    BY <1>1, <1>7, <2>2, <2>4 DEF Follows, Holds, EInv, BudgetSuffices
  <2>6. ASSUME NEW q \in Runners, run'[q].pc = "call"
        PROVE  /\ Slot(q)' \in attempts'[Job(q)'] /\ calls'[Job(q)'][Slot(q)'] = 0
    <3>1. q # r
      BY <2>1, <2>2, <2>6
    <3>2. run'[q] = run[q] /\ Slot(q)' = Slot(q) /\ Job(q)' = Job(q) /\ At(q, "call")
      BY <2>1, <2>6, <3>1 DEF Slot, Job, At
    <3>3. Holds(q) /\ Job(q) # Job(r) /\ Job(q) \in Jobs
      BY <1>1, <3>1, <3>2 DEF EInv, HoldersHaveClaimed, ThreadsNameRows, Holds, At, Unclaimed
    <3>4. Slot(q) \in attempts[Job(q)] /\ calls[Job(q)][Slot(q)] = 0 /\ Slot(q) \in Slots
      <4>1. run[q] \in RunRecord
        BY <1>2
      <4> QED
        BY <3>2, <4>1 DEF EInv, CallsAreReserved, Slot, Slots, RunRecord
    <3> QED
      BY <1>1, <1>6, <3>2, <3>3, <3>4
  <2>7. \A j \in Jobs, x \in Slots : calls'[j][x] <= 1 /\ (calls'[j][x] = 1 => x \in attempts'[j])
    <3> TAKE j \in Jobs, x \in Slots
    <3>1. CASE <<j, x>> = <<Job(r), Slot(r)>>
      BY <1>1, <1>4, <1>6, <3>1
    <3>2. CASE <<j, x>> # <<Job(r), Slot(r)>>
      BY <1>1, <1>6, <3>2 DEF EInv, CallsAreReserved
    <3> QED
      BY <3>1, <3>2
  <2>8. CallsAreReserved'
    BY <2>6, <2>7 DEF CallsAreReserved, At
  <2> QED
    BY <1>1, <1>2, <1>6, <2>1, <2>5, <2>8, MovePreserves
<1>8. CASE Raise(r)
  <2> DEFINE new == [run[r] EXCEPT !.pc = "handler"]
  <2>1. new \in RunRecord /\ SameThread(new, run[r], "handler")
    BY MovedRecord DEF PCs, EInv, StoreInv, StoreTypeOK
  <2>2. run' = [run EXCEPT ![r] = new]
    BY <1>8 DEF Raise, EInv, TypeOK
  <2> HIDE DEF new
  <2> QED
    BY <1>7, <2>1, <2>2 DEF SameThread
<1>9. CASE Go(r, "commitCase")
  <2> DEFINE new == [run[r] EXCEPT !.pc = "commitCase"]
  <2>1. new \in RunRecord /\ SameThread(new, run[r], "commitCase")
    BY MovedRecord DEF PCs, EInv, StoreInv, StoreTypeOK
  <2>2. run' = [run EXCEPT ![r] = new]
    BY <1>9 DEF Go, EInv, TypeOK
  <2> HIDE DEF new
  <2> QED
    BY <1>7, <2>1, <2>2 DEF SameThread
<1>10. ASSUME run[r].phase # "judging", NEW p \in NextPhases(run[r].phase),
              run' = [run EXCEPT ![r].pc = "check", ![r].phase = p]
       PROVE  EInv'
  <2> DEFINE new == [run[r] EXCEPT !.pc = "check", !.phase = p]
  <2>1. p \in Phases /\ "check" \in PCs
    BY <1>3, <1>10, PassedGrows DEF PCs
  <2>2. /\ new \in RunRecord /\ new.pc = "check" /\ new.phase = p
        /\ new.case = run[r].case /\ new.id = run[r].id /\ new.refused = run[r].refused
    BY <1>2, <2>1 DEF RunRecord
  <2>3. run' = [run EXCEPT ![r] = new]
    BY <1>2, <1>10
  <2> HIDE DEF new
  <2> QED
    BY <1>7, <1>10, <2>2, <2>3
<1> QED
  BY <1>8, <1>9, <1>10 DEF Invoke
\* The steps that read, check, or store a result.
LEMMA CheckPreserves ==
    ASSUME EInv, NEW r \in Runners, NEW at, NEW next,
           \/ at = "check" /\ next = "reserve"
           \/ at = "checkCase" /\ next = "reread"
           \/ at = "checkReport" /\ next = "endReport",
           CheckCancel(r, at, next)
    PROVE  EInv'
<1>1. run[r].pc = at /\ Holds(r) /\ UNCHANGED <<storeVars, attempts, calls>> /\ TablesTyped'
  BY TablesStay DEF CheckCancel, At, Holds, Unclaimed, tables, env
<1>2. Go(r, "finish") \/ Go(r, next)
  BY DEF CheckCancel
<1>3. "finish" \in PCs /\ next \in PCs
  BY DEF PCs
<1>4. "finish" \notin Unclaimed \cup {"call"} \cup LastTries \cup Unspent \cup Spending \cup Storing
  BY DEF Unclaimed, LastTries, Unspent, Spending, Storing
<1>5. /\ next \notin Unclaimed \cup {"call"} \cup LastTries
      /\ \/ next \notin Unspent \cup Spending \cup Storing
         \/ at \in Spending /\ next \in Spending
         \/ at \in Storing /\ next \in Storing
  BY DEF Unclaimed, LastTries, Unspent, Spending, Storing
<1>6. CASE Go(r, "finish")
  BY <1>1, <1>3, <1>4, <1>6, WalkPreserves
<1>7. CASE Go(r, next)
  BY <1>1, <1>3, <1>5, <1>7, WalkPreserves
<1> QED
  BY <1>2, <1>6, <1>7

LEMMA PreparePreserves == ASSUME EInv, NEW r \in Runners, Prepare(r) PROVE EInv'
<1>1. run[r].pc = "prepare" /\ Holds(r) /\ UNCHANGED <<storeVars, attempts, calls>> /\ TablesTyped'
  BY TablesStay DEF Prepare, At, Holds, Unclaimed, tables, env
<1>2. /\ "beginCases" \in PCs /\ "beginCases" \notin Unclaimed \cup {"call"} \cup LastTries
      /\ run[r].pc \in Unspent
  BY <1>1 DEF PCs, Unclaimed, LastTries, Unspent
<1> QED
  BY <1>1, <1>2, WalkPreserves DEF Prepare

LEMMA CommitCasePreserves == ASSUME EInv, NEW r \in Runners, CommitCase(r) PROVE EInv'
<1>1. /\ run[r].pc = "commitCase" /\ Holds(r) /\ UNCHANGED <<storeVars, attempts, calls>>
      /\ UNCHANGED <<report, progress, process, crashes, faults>>
  BY DEF CommitCase, At, Holds, Unclaimed, env
<1>2. Job(r) \in Jobs /\ run[r].case \in Cases
  BY <1>1, HolderFacts DEF RunRecord
<1>3. TablesTyped'
  BY <1>1, <1>2 DEF CommitCase, EInv, TypeOK, TablesTyped
<1>4. /\ "checkCase" \in PCs /\ "checkCase" \notin Unclaimed \cup {"call"} \cup LastTries
      /\ run[r].pc \in Storing /\ "checkCase" \in Storing
  BY <1>1 DEF PCs, Unclaimed, LastTries, Storing
<1> QED
  BY <1>1, <1>3, <1>4, WalkPreserves DEF CommitCase

LEMMA RereadPreserves == ASSUME EInv, NEW r \in Runners, RereadJob(r) PROVE EInv'
<1>1. run[r].pc = "reread" /\ Holds(r) /\ UNCHANGED <<storeVars, attempts, calls>> /\ TablesTyped'
  BY TablesStay DEF RereadJob, At, Holds, Unclaimed, tables, env
<1>2. /\ "progress" \in PCs /\ "progress" \notin Unclaimed \cup {"call"} \cup LastTries
      /\ run[r].pc \in Storing /\ "progress" \in Storing
  BY <1>1 DEF PCs, Unclaimed, LastTries, Storing
<1> QED
  BY <1>1, <1>2, WalkPreserves DEF RereadJob

LEMMA CommitReportPreserves == ASSUME EInv, NEW r \in Runners, CommitReport(r) PROVE EInv'
<1>1. /\ run[r].pc = "commitReport" /\ Holds(r) /\ UNCHANGED <<storeVars, attempts, calls>>
      /\ UNCHANGED <<cases, progress, process, crashes, faults>>
  BY DEF CommitReport, At, Holds, Unclaimed, env
<1>2. Job(r) \in Jobs
  BY <1>1, HolderFacts
<1>3. TablesTyped'
  BY <1>1, <1>2 DEF CommitReport, EInv, TypeOK, TablesTyped
<1>4. /\ "checkReport" \in PCs
      /\ "checkReport" \notin Unclaimed \cup {"call"} \cup LastTries \cup Unspent \cup Spending \cup Storing
  BY DEF PCs, Unclaimed, LastTries, Unspent, Spending, Storing
<1> QED
  BY <1>1, <1>3, <1>4, WalkPreserves DEF CommitReport

LEMMA HandlerPreserves == ASSUME EInv, NEW r \in Runners, Handle(r) PROVE EInv'
<1>1. run[r].pc = "handler" /\ Holds(r) /\ UNCHANGED <<storeVars, attempts, calls>> /\ TablesTyped'
  BY TablesStay DEF Handle, At, Holds, Unclaimed, tables, env
<1>2. /\ "finish" \in PCs
      /\ "finish" \notin Unclaimed \cup {"call"} \cup LastTries \cup Unspent \cup Spending \cup Storing
  BY DEF PCs, Unclaimed, LastTries, Unspent, Spending, Storing
<1> QED
  BY <1>1, <1>2, WalkPreserves DEF Handle

LEMMA FinishReadPreserves == ASSUME EInv, NEW r \in Runners, FinishRead(r) PROVE EInv'
<1>1. run[r].pc = "finish" /\ Holds(r) /\ UNCHANGED <<storeVars, attempts, calls>> /\ TablesTyped'
  BY TablesStay DEF FinishRead, At, Holds, Unclaimed, tables, env
<1>2. CASE Leave(r)
  BY <1>1, <1>2, NothingWritten, LeavePreserves
<1>3. ASSUME NEW pc \in {"acknowledge", "fail"}, run[r].tries # FinishTries,
             run' = [run EXCEPT ![r].row = job[Job(r)], ![r].pc = pc]
      PROVE  EInv'
  <2>1. run' = [run EXCEPT ![r].pc = pc, ![r].row = job[Job(r)]]
    BY <1>3 DEF EInv, TypeOK
  <2>2. run[r].tries < FinishTries
    <3>1. run[r].tries \in 0..FinishTries
      BY <1>1, HolderFacts DEF RunRecord
    <3> QED
      BY <1>3, <3>1, EvaluationAssumption
  <2>3. pc \in PCs /\ pc \notin Unclaimed \cup {"call"} \cup Unspent \cup Spending \cup Storing
    BY DEF PCs, Unclaimed, Unspent, Spending, Storing
  <2> QED
    BY <1>1, <2>1, <2>2, <2>3, WalkPreserves
<1> QED
  <2>1. \/ Leave(r)
        \/ /\ run[r].tries # FinishTries
           /\ run' = [run EXCEPT ![r].row = job[Job(r)],
                                 ![r].pc = IF job[Job(r)].state = "cancelling"
                                           THEN "acknowledge" ELSE "fail"]
    BY DEF FinishRead
  <2> QED
    BY <1>2, <1>3, <2>1

LEMMA StorageFaultPreserves == ASSUME EInv, NEW r \in Runners, StorageFault(r) PROVE EInv'
<1>1. /\ run[r].pc # "off" /\ UNCHANGED <<storeVars, attempts, calls>>
      /\ UNCHANGED <<cases, report, progress, process, crashes>>
      /\ faults < MaxFaults /\ faults' = faults + 1
  BY DEF StorageFault, tables
<1>2. TablesTyped'
  BY <1>1, EvaluationAssumption DEF EInv, TypeOK, TablesTyped
<1>3. Leave(r) \/ (Holds(r) /\ Raise(r))
  BY <1>1 DEF StorageFault, Holds, Unclaimed
<1> QED
  BY <1>1, <1>2, <1>3, NothingWritten, LeavePreserves, RaisePreserves

LEMMA ResetPreserves == ASSUME EInv, NEW r \in Runners, ResetProgress(r) PROVE EInv'
<1> DEFINE next == [run[r] EXCEPT !.pc = "check"]
<1>1. next \in RunRecord /\ SameThread(next, run[r], "check")
  BY MovedRecord DEF PCs, EInv, StoreInv, StoreTypeOK
<1>2. Report(r, "resetProgress", 0, next) /\ 0 \in 0..NCases /\ run[r].pc = "resetProgress"
  BY EvaluationAssumption DEF ResetProgress, Report, At
<1> HIDE DEF next
<1>3. next.pc \notin Unclaimed \cup {"call"} \cup LastTries /\ GoesOn(run[r], next)
  BY <1>1, <1>2 DEF SameThread, Unclaimed, LastTries, GoesOn, Unspent
<1> QED
  BY <1>1, <1>2, <1>3, ReportPreserves DEF SameThread, Unclaimed, PCs

LEMMA ReportCasePreserves == ASSUME EInv, NEW r \in Runners, ReportCase(r) PROVE EInv'
<1>1. run[r].pc = "progress"
  BY DEF ReportCase, Report, At
<1>2. run[r] \in RunRecord
  BY <1>1, HolderFacts
<1>3. ASSUME NEW next \in RunRecord, next.id = run[r].id, next.refused = run[r].refused,
             Report(r, "progress", run[r].case, next),
             \/ next.pc = "endCases"
             \/ next.pc = "check" /\ run[r].case < NCases /\ next.case = run[r].case + 1
      PROVE  EInv'
  <2>1. next.pc \notin Unclaimed \cup {"call"} \cup LastTries /\ GoesOn(run[r], next)
    BY <1>1, <1>3 DEF Unclaimed, LastTries, GoesOn, Unspent, Spending, Storing
  <2>2. run[r].case \in 0..NCases
    BY <1>2, EvaluationAssumption DEF RunRecord, Cases
  <2> QED
    BY <1>1, <1>3, <2>1, <2>2, ReportPreserves DEF Unclaimed, PCs
<1>4. CASE run[r].case < NCases
  <2> DEFINE next == [run[r] EXCEPT !.pc = "check", !.case = @ + 1, !.phase = "generation"]
  <2>1. run[r].case + 1 \in Cases /\ "check" \in PCs /\ "generation" \in Phases
    BY <1>2, <1>4, EvaluationAssumption DEF RunRecord, Cases, PCs, Phases
  <2>2. /\ next \in RunRecord /\ next.pc = "check" /\ next.case = run[r].case + 1
        /\ next.id = run[r].id /\ next.refused = run[r].refused
    BY <1>2, <2>1 DEF RunRecord
  <2>3. Report(r, "progress", run[r].case, next)
    BY <1>4 DEF ReportCase
  <2> HIDE DEF next
  <2> QED
    BY <1>3, <1>4, <2>2, <2>3
<1>5. CASE ~(run[r].case < NCases)
  <2> DEFINE next == [run[r] EXCEPT !.pc = "endCases"]
  <2>1. next \in RunRecord /\ SameThread(next, run[r], "endCases")
    BY MovedRecord DEF PCs, EInv, StoreInv, StoreTypeOK
  <2>2. Report(r, "progress", run[r].case, next)
    BY <1>5 DEF ReportCase
  <2> HIDE DEF next
  <2> QED
    BY <1>3, <2>1, <2>2 DEF SameThread
<1> QED
  BY <1>4, <1>5

LEMMA RunnerStepPreserves == ASSUME EInv, NEW r \in Runners, RunnerStep(r) PROVE EInv'
<1>1. ASSUME NEW at \in {"beginCases", "endCases", "beginReport", "endReport"},
             NEW next \in {"resetProgress", "beginReport", "commitReport", "succeed"},
             at = "beginCases" \/ next # "resetProgress",
             NEW s \in Steps, NEW target \in StepStates, MoveStep(r, at, s, target, next)
      PROVE  EInv'
  <2>1. at \in PCs /\ next \in PCs /\ at \notin Unclaimed
    BY DEF PCs, Unclaimed
  <2>2. /\ next \notin Unclaimed \cup {"call"} \cup LastTries
        /\ at \in Unspent \/ next \notin Unspent \cup Spending \cup Storing
    BY <1>1 DEF Unclaimed, LastTries, Unspent, Spending, Storing
  <2> QED
    BY <1>1, <2>1, <2>2, MoveStepPreserves
<1>2. CASE BeginCases(r) \/ EndCases(r) \/ BeginReport(r) \/ EndReport(r)
  <2>1. {"execute_cases", "aggregate_report"} \subseteq Steps /\ {"running", "succeeded"} \subseteq StepStates
    BY EvaluationAssumption DEF StepStates
  <2> QED
    BY <1>1, <1>2, <2>1 DEF BeginCases, EndCases, BeginReport, EndReport
<1>3. CASE CheckAttempt(r) \/ CheckCase(r) \/ CheckReport(r)
  BY <1>3, CheckPreserves DEF CheckAttempt, CheckCase, CheckReport
<1>4. CASE \/ ReadQueued(r) \/ Claim(r) \/ Prepare(r) \/ ResetProgress(r)
           \/ ReserveAttempt(r) \/ Invoke(r) \/ CommitCase(r) \/ RereadJob(r)
  BY <1>4, ReadQueuedPreserves, ClaimPreserves, PreparePreserves, ResetPreserves,
     ReservePreserves, InvokePreserves, CommitCasePreserves, RereadPreserves
<1>5. CASE \/ ReportCase(r) \/ CommitReport(r) \/ Succeed(r) \/ Handle(r)
           \/ FinishRead(r) \/ FinishFail(r) \/ FinishAcknowledge(r)
  BY <1>5, ReportCasePreserves, CommitReportPreserves, EndPreserves, HandlerPreserves,
     FinishReadPreserves
<1> QED
  BY <1>2, <1>3, <1>4, <1>5 DEF RunnerStep
-----------------------------------------------------------------------------
(* The clients, and the process. *)

\* A thread that is free is dispatched to a row.
LEMMA StartPreserves ==
    ASSUME EInv, StoreKept, BudgetsAreFrozen', UNCHANGED <<tables, calls, env>>,
           NEW j \in Jobs, job'[j] # NoRow, NEW r \in Runners, Start(r, j)
    PROVE  EInv'
<1> DEFINE new == [Idle EXCEPT !.pc = "start", !.id = j]
<1>1. new \in RunRecord /\ new.pc = "start" /\ new.id = j /\ ~new.refused
  <2>1. "start" \in PCs
    BY DEF PCs
  <2> QED
    BY <2>1, IdleRecord DEF RunRecord, Idle
<1>2. run' = [run EXCEPT ![r] = new]
  BY DEF Start
<1>3. Follows(run[r], new)
  BY <1>1 DEF Follows
<1>4. TablesTyped' /\ UNCHANGED <<attempts, calls>>
  BY TablesStay DEF tables, env
<1> HIDE DEF new
<1> QED
  BY <1>1, <1>2, <1>3, <1>4, OneMoves

\* The client steps that leave the threads alone.
LEMMA StillPreserves ==
    ASSUME EInv, StoreKept, BudgetsAreFrozen', TablesTyped', UNCHANGED <<attempts, run, calls>>
    PROVE  EInv'
<1>1. run' \in [Runners -> RunRecord] /\ \A r \in Runners : run'[r] = run[r]
  BY DEF EInv, TypeOK, RunRecord
<1> QED
  BY <1>1, QuietPreserves

LEMMA CreatePreserves ==
    ASSUME EInv, NEW j \in Jobs, NEW k \in Keys, NEW b \in Requests, CreateEvaluation(j, k, b)
    PROVE  EInv'
<1>1. CanFreeze(b) /\ CanCreateJob(j, "evaluation", k) /\ CreateJob(j, "evaluation", k, b)
  BY DEF CreateEvaluation
<1>2. StoreKept /\ job'[j] # NoRow
  <2>1. "evaluation" \in Namespaces
    BY DEF Namespaces
  <2> QED
    BY <1>1, <2>1, CreateIsStep DEF StoreKept, EInv, Exists
<1>3. job'[j].request = b /\ \A i \in Jobs : i # j => job'[i] = job[i]
  BY <1>1 DEF CreateJob, EInv, StoreInv, StoreTypeOK
<1>4. BudgetsAreFrozen'
  BY <1>1, <1>3 DEF EInv, BudgetsAreFrozen, Exists, CanFreeze
<1> QED
  BY <1>2, <1>4, StartPreserves DEF CreateEvaluation

LEMMA CreateAgainPreserves ==
    ASSUME EInv, NEW j \in Jobs, NEW k \in Keys, NEW b \in Requests, CreateAgain(j, k, b)
    PROVE  EInv'
<1>1. StoreKept /\ BudgetsAreFrozen'
  BY NothingWritten DEF CreateAgain
<1>2. job'[j] # NoRow
  <2>1. j \in StoredUnder("evaluation", k) /\ job' = job
    BY DEF CreateAgain, storeVars
  <2> QED
    BY <2>1 DEF StoredUnder, RowsOf, Exists
<1> QED
  BY <1>1, <1>2, StartPreserves DEF CreateAgain

LEMMA CancelPreserves == ASSUME EInv, NEW j \in Jobs, CancelEvaluation(j) PROVE EInv'
<1>1. StoreKept
  BY CancelIsStep DEF EInv, StoreKept, CancelEvaluation
<1>2. BudgetsAreFrozen'
  BY <1>1, CommitCreatesNothing, FrozenStay DEF EInv, CancelEvaluation, RequestCancellation
<1>3. TablesTyped' /\ UNCHANGED <<attempts, run, calls>>
  BY TablesStay DEF CancelEvaluation, tables, env
<1> QED
  BY <1>1, <1>2, <1>3, StillPreserves

LEMMA ProcessPreserves == ASSUME EInv, Crash \/ Restart \/ RecoverBatch PROVE EInv'
<1>1. CASE Crash
  <2>1. StoreKept /\ BudgetsAreFrozen' /\ UNCHANGED <<attempts, calls>>
    BY <1>1, NothingWritten DEF Crash, tables
  <2>2. TablesTyped'
    BY <1>1, EvaluationAssumption DEF Crash, tables, EInv, TypeOK, TablesTyped
  <2>3. run' \in [Runners -> RunRecord] /\ \A r \in Runners : run'[r] = Idle
    BY <1>1, IdleRecord DEF Crash
  <2>4. \A r \in Runners : ~run'[r].refused /\ Follows(run[r], run'[r])
    BY <2>3, IdleRecord DEF Follows
  <2> QED
    BY <2>1, <2>2, <2>3, <2>4, QuietPreserves
<1>2. CASE Restart
  <2>1. TablesTyped' /\ UNCHANGED <<storeVars, attempts, run, calls>>
    BY <1>2 DEF Restart, tables, EInv, TypeOK, TablesTyped
  <2> QED
    BY <2>1, NothingWritten, StillPreserves
<1>3. CASE RecoverBatch
  <2>1. TablesTyped' /\ UNCHANGED <<attempts, run, calls>>
    BY <1>3 DEF RecoverBatch, tables, EInv, TypeOK, TablesTyped
  <2>2. CASE UNCHANGED storeVars
    BY <2>1, <2>2, NothingWritten, StillPreserves
  <2>3. ASSUME NEW batch, IsRecoveryBatch(batch), RecoverInterruptedJobs(batch) PROVE EInv'
    <3>1. StoreKept
      BY <2>3, RecoverIsStep DEF EInv, StoreKept
    <3>2. \A i \in Jobs : Exists(i)' => Exists(i)
      BY <2>3 DEF RecoverInterruptedJobs, IsRecoveryBatch, ActiveJobs, Exists
    <3>3. BudgetsAreFrozen'
      BY <3>1, <3>2, FrozenStay DEF EInv
    <3> QED
      BY <2>1, <3>1, <3>3, StillPreserves
  <2> QED
    BY <1>3, <2>2, <2>3 DEF RecoverBatch
<1> QED
  BY <1>1, <1>2, <1>3

-----------------------------------------------------------------------------
(* The invariant, and what follows from it. *)

LEMMA EInvInit == Init => EInv
<1> SUFFICES ASSUME Init PROVE EInv
  OBVIOUS
<1>1. StoreInv
  BY StoreInitInv DEF Init
<1>2. \A j \in Jobs : Waiting(j) /\ ~Exists(j)
  BY DEF Init, StoreInit, Waiting, Exists
<1>3. run \in [Runners -> RunRecord] /\ \A r \in Runners : run[r].pc = "off" /\ ~run[r].refused
  BY IdleRecord DEF Init
<1>4. TypeOK
  BY <1>1, <1>3, EvaluationAssumption DEF Init, TypeOK, StoreInv, RunRecord
<1>5. ThreadsNameRows /\ HoldersHaveClaimed /\ BudgetSuffices /\ TriesAreLeft
  BY <1>3 DEF ThreadsNameRows, HoldersHaveClaimed, BudgetSuffices, TriesAreLeft, Holds, Unclaimed, LastTries
<1>6. SpentIsPassed
  BY <1>3 DEF Init, SpentIsPassed, Holds, Unclaimed
<1>7. CallsAreReserved
  BY <1>3 DEF Init, CallsAreReserved, At, Slots
<1>8. BudgetsAreFrozen
  BY <1>2 DEF BudgetsAreFrozen
<1> QED
  BY <1>1, <1>4, <1>5, <1>6, <1>7, <1>8 DEF EInv

LEMMA EInvStep == EInv /\ [Next]_vars => EInv'
<1> SUFFICES ASSUME EInv, [Next]_vars PROVE EInv'
  OBVIOUS
<1>1. CASE UNCHANGED vars
  <2>1. UNCHANGED <<storeVars, attempts, cases, report, progress, run, calls, process, crashes, faults>>
    BY <1>1 DEF vars, storeVars
  <2> QED
    BY <2>1, NothingWritten, TablesStay, StillPreserves
<1>2. ASSUME NEW j \in Jobs, NEW k \in Keys, NEW b \in Requests,
             CreateEvaluation(j, k, b) \/ CreateAgain(j, k, b)
      PROVE  EInv'
  BY <1>2, CreatePreserves, CreateAgainPreserves
<1>3. ASSUME NEW j \in Jobs, CancelEvaluation(j) PROVE EInv'
  BY <1>3, CancelPreserves
<1>4. ASSUME NEW r \in Runners, RunnerStep(r) \/ StorageFault(r) PROVE EInv'
  BY <1>4, RunnerStepPreserves, StorageFaultPreserves
<1>5. CASE Crash \/ Restart \/ RecoverBatch
  BY <1>5, ProcessPreserves
<1> QED
  BY <1>1, <1>2, <1>3, <1>4, <1>5 DEF Next

\* The invariant: job rows, threads, slots and requests agree at every moment
\* of every execution.
THEOREM EvaluationInvariant == Spec => []EInv
  BY EInvInit, EInvStep, PTL DEF Spec

LEMMA OneHolder ==
    ASSUME EInv, NEW j \in Jobs
    PROVE  IsFiniteSet(RunnersOf(j)) /\ Cardinality(RunnersOf(j)) <= 1
<1>1. \A r, q \in RunnersOf(j) : r = q
  BY DEF EInv, HoldersHaveClaimed, RunnersOf, Holds, Unclaimed
<1>2. CASE RunnersOf(j) = {}
  <2>1. IsFiniteSet({}) /\ Cardinality({}) = 0
    BY FS_EmptySet
  <2> QED
    BY <1>2, <2>1
<1>3. CASE RunnersOf(j) # {}
  <2>1. PICK r \in RunnersOf(j) : TRUE
    BY <1>3
  <2>2. RunnersOf(j) = {r}
    BY <1>1, <2>1
  <2>3. IsFiniteSet({r}) /\ Cardinality({r}) = 1
    BY FS_Singleton
  <2> QED
    BY <2>2, <2>3
<1> QED
  BY <1>2, <1>3

\* One thread executes a job however often it is dispatched, every request has
\* a slot of its own within the frozen budget, and that budget is never too
\* small: reserve_attempt and the claim of run, for every number of jobs,
\* threads, cases, deaths of the process and failing storage calls.
THEOREM SpendingSafety == Spec => []SpendingIsExact
<1>1. EInv => SpendingIsExact
  <2> SUFFICES ASSUME EInv PROVE SpendingIsExact
    OBVIOUS
  <2>1. TypeOK /\ BudgetSuffices
    BY DEF EInv
  <2>2. OneRunner
    BY OneHolder DEF OneRunner
  <2>3. ASSUME NEW j \in Jobs, Exists(j) PROVE Cardinality(attempts[j]) <= job[j].request
    <3>1. job[j].request \in Nat /\ CanFreeze(job[j].request) /\ attempts[j] \in SUBSET Slots
      BY <2>3, StoredRow, EvaluationAssumption DEF EInv, BudgetsAreFrozen, TypeOK, JobRow, Slots
    <3> QED
      BY <3>1, RoomForFreeSlot
  <2>4. CallsArePaid
    BY <2>3 DEF EInv, CallsAreReserved, CallsArePaid, Slots
  <2> QED
    BY <2>1, <2>2, <2>4 DEF SpendingIsExact
<1> QED
  BY <1>1, EvaluationInvariant, PTL

\* After a stored cancellation, and after any end, no slot is reserved: the
\* state is read in the transaction that reserves.
THEOREM CancellationSafety == Spec => CancelStopsSpending
<1> DEFINE Stops == \A j \in Jobs : Exists(j) /\ job[j].state # "running" => attempts'[j] = attempts[j]
<1>1. EInv /\ [Next]_vars => [Stops]_vars
  <2> SUFFICES ASSUME EInv, Next PROVE Stops
    BY DEF vars
  <2>1. CASE UNCHANGED attempts
    BY <2>1
  <2>2. ASSUME NEW r \in Runners, ReserveAttempt(r) PROVE Stops
    BY <2>2 DEF ReserveAttempt, CanReserve, EInv, TypeOK
  <2>3. ASSUME NEW r \in Runners, RunnerStep(r), ~ReserveAttempt(r) PROVE UNCHANGED attempts
    <3>1. CASE \/ ReadQueued(r) \/ Claim(r) \/ Prepare(r) \/ Invoke(r) \/ Succeed(r)
               \/ Handle(r) \/ FinishRead(r) \/ FinishFail(r) \/ FinishAcknowledge(r)
      BY <3>1 DEF ReadQueued, Claim, Prepare, Invoke, Succeed, Handle, FinishRead, FinishFail,
                  FinishAcknowledge, tables
    <3>2. CASE \/ BeginCases(r) \/ EndCases(r) \/ BeginReport(r) \/ EndReport(r)
               \/ CheckAttempt(r) \/ CheckCase(r) \/ CheckReport(r)
      BY <3>2 DEF BeginCases, EndCases, BeginReport, EndReport, MoveStep, CheckAttempt, CheckCase,
                  CheckReport, CheckCancel, tables
    <3>3. CASE \/ ResetProgress(r) \/ ReportCase(r) \/ CommitCase(r) \/ RereadJob(r) \/ CommitReport(r)
      BY <3>3 DEF ResetProgress, ReportCase, Report, CommitCase, RereadJob, CommitReport, tables
    <3> QED
      BY <2>3, <3>1, <3>2, <3>3 DEF RunnerStep
  <2>4. ASSUME ~(\E r \in Runners : RunnerStep(r)) PROVE UNCHANGED attempts
    BY <2>4 DEF Next, CreateEvaluation, CreateAgain, CancelEvaluation, StorageFault, Crash, Restart,
                RecoverBatch, tables
  <2> QED
    BY <2>1, <2>2, <2>3, <2>4
<1> QED
  BY <1>1, EvaluationInvariant, PTL DEF Spec, CancelStopsSpending

-----------------------------------------------------------------------------
(* The stored results.  A thread stores its cases in order and is followed  *)
(* by where it stands: before a case the earlier ones are stored, behind it *)
(* that one too, and behind the last all of them, with their progress.      *)

Entering == {"start", "claim"} \cup Unspent
BeforeCase == {"check", "reserve", "call", "commitCase"}
AfterCase == {"checkCase", "reread", "progress"}
Reported == {"checkReport", "endReport", "succeed"}
Ending == {"endCases", "beginReport", "commitReport"} \cup Reported

StoredBy(rec) ==
    /\ rec.pc \in Entering => rec.case = 1
    /\ rec.pc \in Unspent => cases[rec.id] = {}
    /\ rec.pc \in BeforeCase => cases[rec.id] = 1..(rec.case - 1)
    /\ rec.pc = "commitCase" => <<rec.case, "judging">> \in attempts[rec.id]
    /\ rec.pc \in AfterCase => cases[rec.id] = 1..rec.case
    /\ rec.pc \in Ending => cases[rec.id] = Cases /\ progress[rec.id] = NCases
    /\ rec.pc \in Reported => report[rec.id]

Succeeded(j) == Exists(j) /\ job[j].state = "succeeded"

ResultsOf(j) ==
    /\ \E n \in 0..NCases : cases[j] = 1..n /\ progress[j] <= n
    /\ \A c \in cases[j] : <<c, "judging">> \in attempts[j]
    /\ report[j] => cases[j] = Cases
    /\ Waiting(j) => cases[j] = {}
    /\ Succeeded(j) => report[j] /\ progress[j] = NCases

RInv ==
    /\ \A j \in Jobs : ResultsOf(j)
    /\ \A r \in Runners : StoredBy(run[r])

\* What a step may do to a row: it is not put back before its claim, and it
\* succeeds by the last step of its thread only.
RowMoves(j) ==
    /\ Waiting(j)' => Waiting(j)
    /\ Succeeded(j)' => Succeeded(j) \/ \E r \in Runners : Succeed(r) /\ Job(r) = j

LEMMA RowMovesAlone ==
    ASSUME EInv, StoreKept, NEW j \in Jobs, OnlyRowOf(j),
           job'[j].state # "succeeded" \/ (Exists(j) /\ job'[j].state = job[j].state)
    PROVE  \A i \in Jobs : RowMoves(i)
<1>1. \A i \in Jobs : Waiting(i)' => Waiting(i)
  BY KeptRows DEF EInv
<1>2. ASSUME NEW i \in Jobs, Succeeded(i)' PROVE Succeeded(i)
  BY <1>2 DEF OnlyRowOf, Succeeded, Exists
<1> QED
  BY <1>1, <1>2 DEF RowMoves

LEMMA RowsStay ==
    ASSUME UNCHANGED storeVars PROVE \A i \in Jobs : RowMoves(i)
  BY DEF storeVars, RowMoves, Waiting, Succeeded, Exists

LEMMA StepMoves ==
    ASSUME EInv, NEW j \in Jobs, Exists(j), NEW s \in Steps, NEW expected, NEW expectedStep,
           NEW target \in StepStates,
           CanTransitionStep(j, s, expected, expectedStep, target), TransitionStep(j, s, target)
    PROVE  \A i \in Jobs : RowMoves(i)
<1>1. StoreKept
  BY StepIsStep DEF StoreKept, EInv
<1>2. job'[j].state = job[j].state /\ OnlyRowOf(j)
  BY SteppedRow DEF EInv
<1> QED
  BY <1>1, <1>2, RowMovesAlone

LEMMA ProgressMoves ==
    ASSUME EInv, NEW j \in Jobs, Exists(j), NEW expected,
           CanReportProgress(j, expected), ReportProgress(j)
    PROVE  /\ \A i \in Jobs : RowMoves(i)
           /\ job'[j].state = "running"
<1>1. StoreKept
  BY ProgressIsStep DEF StoreKept, EInv
<1>2. job'[j].state = job[j].state /\ OnlyRowOf(j)
  BY StoredRow, CommittedRow DEF ReportProgress, EInv
<1> QED
  BY <1>1, <1>2, RowMovesAlone DEF CanReportProgress

LEMMA TransitionMoves ==
    ASSUME EInv, NEW j \in Jobs, Exists(j), NEW expected, NEW target \in {"running", "failed"},
           NEW failure \in Failures,
           CanTransitionJob(j, expected, target, "none", failure),
           TransitionJob(j, target, "none", failure)
    PROVE  \A i \in Jobs : RowMoves(i)
<1>0. "none" \in Results
  BY DEF Results
<1>1. StoreKept
  BY <1>0, TransitionIsStep DEF StoreKept, EInv
<1>2. job'[j].state = target /\ OnlyRowOf(j)
  BY <1>0, TransitionedRow DEF EInv
<1> QED
  BY <1>1, <1>2, RowMovesAlone

LEMMA CancelMoves ==
    ASSUME EInv, NEW j \in Jobs, Exists(j), NEW expected,
           CanRequestCancellation(j, expected), RequestCancellation(j)
    PROVE  \A i \in Jobs : RowMoves(i)
<1>1. StoreKept
  BY CancelIsStep DEF StoreKept, EInv
<1>2. job'[j].state # "succeeded" /\ OnlyRowOf(j)
  BY CancelledRow DEF EInv
<1> QED
  BY <1>1, <1>2, RowMovesAlone

LEMMA AcknowledgeMoves ==
    ASSUME EInv, NEW j \in Jobs, Exists(j), NEW expected,
           CanAcknowledgeCancellation(j, expected, "none"), AcknowledgeCancellation(j, "none")
    PROVE  \A i \in Jobs : RowMoves(i)
<1>0. "none" \in Results
  BY DEF Results
<1>1. StoreKept
  BY <1>0, AcknowledgeIsStep DEF StoreKept, EInv
<1>2. job'[j].state = "cancelled" /\ OnlyRowOf(j)
  BY <1>0, AcknowledgedRow DEF EInv
<1> QED
  BY <1>1, <1>2, RowMovesAlone

\* Every step of the specification.
LEMMA EveryRowMoves == ASSUME EInv, [Next]_vars PROVE \A i \in Jobs : RowMoves(i)
<1>0. \A r \in Runners : run[r].pc # "off" => Job(r) \in Jobs /\ Exists(Job(r))
  BY HolderFacts
<1>1. CASE UNCHANGED storeVars
  BY <1>1, RowsStay
<1>2. ASSUME NEW j \in Jobs, NEW k \in Keys, NEW b \in Requests, CreateEvaluation(j, k, b)
      PROVE  \A i \in Jobs : RowMoves(i)
  <2>1. "evaluation" \in Namespaces
    BY DEF Namespaces
  <2>2. StoreKept
    BY <1>2, <2>1, CreateIsStep DEF StoreKept, EInv, CreateEvaluation
  <2>3. job'[j].state = "queued" /\ OnlyRowOf(j)
    BY <1>2 DEF CreateEvaluation, CreateJob, EInv, StoreInv, StoreTypeOK, OnlyRowOf
  <2> QED
    BY <2>2, <2>3, RowMovesAlone
<1>3. ASSUME NEW j \in Jobs, CancelEvaluation(j) PROVE \A i \in Jobs : RowMoves(i)
  BY <1>3, CancelMoves DEF CancelEvaluation
<1>4. ASSUME NEW r \in Runners, BeginCases(r) \/ EndCases(r) \/ BeginReport(r) \/ EndReport(r)
      PROVE  \A i \in Jobs : RowMoves(i)
  <2>1. {"execute_cases", "aggregate_report"} \subseteq Steps /\ {"running", "succeeded"} \subseteq StepStates
    BY EvaluationAssumption DEF StepStates
  <2>2. ASSUME NEW at, at # "off", NEW s \in Steps, NEW target \in StepStates, NEW next,
               MoveStep(r, at, s, target, next)
        PROVE  \A i \in Jobs : RowMoves(i)
    BY <1>0, <1>1, <2>2, StepMoves DEF MoveStep, At
  <2> QED
    BY <1>4, <2>1, <2>2 DEF BeginCases, EndCases, BeginReport, EndReport
<1>5. ASSUME NEW r \in Runners, ResetProgress(r) \/ ReportCase(r)
      PROVE  \A i \in Jobs : RowMoves(i)
  <2>1. ASSUME NEW at, at # "off", NEW current, NEW next, Report(r, at, current, next)
        PROVE  \A i \in Jobs : RowMoves(i)
    BY <1>0, <1>1, <2>1, ProgressMoves DEF Report, At
  <2> QED
    BY <1>5, <2>1 DEF ResetProgress, ReportCase
<1>6. ASSUME NEW r \in Runners, Claim(r) \/ FinishFail(r) PROVE \A i \in Jobs : RowMoves(i)
  <2>1. "none" \in Failures /\ "reported" \in Failures
    BY DEF Failures
  <2> QED
    BY <1>0, <1>1, <1>6, <2>1, TransitionMoves DEF Claim, FinishFail, At
<1>7. ASSUME NEW r \in Runners, FinishAcknowledge(r) PROVE \A i \in Jobs : RowMoves(i)
  BY <1>0, <1>1, <1>7, AcknowledgeMoves DEF FinishAcknowledge, At
<1>8. ASSUME NEW r \in Runners, Succeed(r) PROVE \A i \in Jobs : RowMoves(i)
  <2>0. CASE UNCHANGED storeVars
    BY <1>1, <2>0
  <2>1. CASE /\ CanTransitionJob(Job(r), Row(r).revision, "succeeded", "value", "none")
             /\ TransitionJob(Job(r), "succeeded", "value", "none")
    <3>1. Job(r) \in Jobs /\ Exists(Job(r)) /\ "value" \in Results /\ "none" \in Failures
      BY <1>0, <1>8 DEF Succeed, At, Results, Failures
    <3>2. StoreKept /\ OnlyRowOf(Job(r))
      BY <2>1, <3>1, TransitionIsStep, TransitionedRow DEF StoreKept, EInv
    <3>3. \A i \in Jobs : Waiting(i)' => Waiting(i)
      BY <3>2, KeptRows DEF EInv
    <3>4. \A i \in Jobs : i # Job(r) /\ Succeeded(i)' => Succeeded(i)
      BY <3>2 DEF OnlyRowOf, Succeeded, Exists
    <3> QED
      BY <1>8, <3>3, <3>4 DEF RowMoves
  <2> QED
    BY <1>8, <2>0, <2>1 DEF Succeed
<1>9. CASE RecoverBatch
  <2>1. ASSUME NEW batch, IsRecoveryBatch(batch), RecoverInterruptedJobs(batch)
        PROVE  \A i \in Jobs : RowMoves(i)
    <3>1. StoreKept
      BY <2>1, RecoverIsStep DEF EInv, StoreKept
    <3>2. \A i \in Jobs : Waiting(i)' => Waiting(i)
      BY <3>1, KeptRows DEF EInv
    <3>3. \A i \in Jobs : Succeeded(i)' => Succeeded(i)
      BY <2>1, RecoveredRows DEF Succeeded, Exists, EInv
    <3> QED
      BY <3>2, <3>3 DEF RowMoves
  <2> QED
    BY <1>1, <1>9, <2>1 DEF RecoverBatch
<1>10. CASE UNCHANGED vars
  BY <1>1, <1>10 DEF vars, storeVars
<1>11. CASE \/ \E j \in Jobs, k \in Keys, b \in Requests : CreateAgain(j, k, b)
            \/ Crash \/ Restart \/ \E r \in Runners : StorageFault(r)
  BY <1>1, <1>11 DEF CreateAgain, Crash, Restart, StorageFault
<1>12. ASSUME NEW r \in Runners, RunnerStep(r) PROVE \A i \in Jobs : RowMoves(i)
  <2>1. CASE \/ ReadQueued(r) \/ Prepare(r) \/ CheckAttempt(r) \/ ReserveAttempt(r) \/ Invoke(r)
             \/ CommitCase(r) \/ CheckCase(r) \/ RereadJob(r) \/ CommitReport(r) \/ CheckReport(r)
             \/ Handle(r) \/ FinishRead(r)
    BY <1>1, <2>1 DEF ReadQueued, Prepare, CheckAttempt, ReserveAttempt, Invoke, CommitCase, CheckCase,
                      CheckCancel, RereadJob, CommitReport, CheckReport, Handle, FinishRead
  <2> QED
    BY <1>4, <1>5, <1>6, <1>7, <1>8, <1>12, <2>1 DEF RunnerStep
<1> QED
  BY <1>2, <1>3, <1>9, <1>10, <1>11, <1>12 DEF Next

LEMMA SucceedsWithResults ==
    ASSUME EInv, RInv, NEW j \in Jobs, RowMoves(j), Succeeded(j)'
    PROVE  report[j] /\ progress[j] = NCases
<1>1. CASE Succeeded(j)
  BY <1>1 DEF RInv, ResultsOf
<1>2. ASSUME NEW r \in Runners, Succeed(r), Job(r) = j PROVE report[j] /\ progress[j] = NCases
  BY <1>2 DEF RInv, StoredBy, Succeed, At, Job, Ending, Reported
<1> QED
  BY <1>1, <1>2 DEF RowMoves

\* The steps that store no result: they may reserve slots and move threads.
LEMMA ResultsKept ==
    ASSUME EInv, EInv', RInv, \A i \in Jobs : RowMoves(i),
           UNCHANGED <<cases, report, progress>>,
           \A j \in Jobs : attempts[j] \subseteq attempts'[j],
           \A r \in Runners : run'[r] = run[r] \/ StoredBy(run'[r])
    PROVE  RInv'
<1>1. ASSUME NEW j \in Jobs PROVE ResultsOf(j)'
  <2>1. Succeeded(j)' => report[j] /\ progress[j] = NCases
    BY SucceedsWithResults
  <2>2. Waiting(j)' => Waiting(j)
    BY DEF RowMoves
  <2>3. ResultsOf(j) /\ attempts[j] \subseteq attempts'[j]
    BY DEF RInv
  <2> QED
    BY <2>1, <2>2, <2>3 DEF ResultsOf
<1>2. ASSUME NEW r \in Runners PROVE StoredBy(run[r])'
  <2>1. StoredBy(run'[r])
    BY DEF RInv
  <2>2. run'[r].pc = "commitCase" => run'[r].id \in Jobs
    BY DEF EInv, ThreadsNameRows, Job
  <2> QED
    BY <2>1, <2>2 DEF StoredBy
<1> QED
  BY <1>1, <1>2 DEF RInv

LEMMA OneThreadMoves ==
    ASSUME EInv, EInv', RInv, \A i \in Jobs : RowMoves(i),
           UNCHANGED <<cases, report, progress>>,
           \A j \in Jobs : attempts[j] \subseteq attempts'[j],
           NEW r \in Runners, NEW new \in RunRecord, StoredBy(new), run' = [run EXCEPT ![r] = new]
    PROVE  RInv'
<1>1. \A q \in Runners : run'[q] = run[q] \/ StoredBy(run'[q])
  BY DEF EInv, TypeOK
<1> QED
  BY <1>1, ResultsKept

\* A thread that leaves, or ends its job, owes nothing.
Loose == PCs \ (Entering \cup BeforeCase \cup AfterCase \cup Ending)

LEMMA LooseStates == {"off", "handler", "finish", "acknowledge", "fail"} \subseteq Loose
  BY DEF Loose, PCs, Entering, Unspent, BeforeCase, AfterCase, Ending, Reported

LEMMA LooseIsStored == ASSUME NEW rec, rec.pc \in Loose PROVE StoredBy(rec)
  BY DEF Loose, StoredBy, Ending, Entering, BeforeCase

LEMMA IdleIsStored == StoredBy(Idle)
  BY DEF Idle, StoredBy, Entering, Unspent, BeforeCase, AfterCase, Ending, Reported

LEMMA StartIsStored == ASSUME NEW j PROVE StoredBy([Idle EXCEPT !.pc = "start", !.id = j])
  BY DEF Idle, StoredBy, Unspent, BeforeCase, AfterCase, Ending, Reported

\* How a thread may go on without storing a result.
Onward(old, pc) ==
    \/ pc \in Loose
    \/ old \in Entering /\ pc = "claim"
    \/ old \in Unspent /\ pc \in Unspent
    \/ old \in BeforeCase /\ pc \in BeforeCase \ {"commitCase"}
    \/ old \in AfterCase /\ pc \in AfterCase
    \/ old \in Ending /\ pc \in Ending \ Reported
    \/ old \in Reported /\ pc \in Reported

LEMMA OnwardIsStored ==
    ASSUME NEW rec, StoredBy(rec), NEW new, Onward(rec.pc, new.pc),
           new.id = rec.id, new.case = rec.case
    PROVE  StoredBy(new)
<1>1. CASE new.pc \in Loose
  BY <1>1, LooseIsStored
<1>2. CASE new.pc \notin Loose
  <2>1. CASE rec.pc \in Entering /\ new.pc = "claim"
    BY <2>1 DEF StoredBy, Entering, Unspent, BeforeCase, AfterCase, Ending, Reported
  <2>2. CASE rec.pc \in Unspent /\ new.pc \in Unspent
    BY <2>2 DEF StoredBy, Entering, Unspent, BeforeCase, AfterCase, Ending, Reported
  <2>3. CASE rec.pc \in BeforeCase /\ new.pc \in BeforeCase \ {"commitCase"}
    BY <2>3 DEF StoredBy, Entering, Unspent, BeforeCase, AfterCase, Ending, Reported
  <2>4. CASE rec.pc \in AfterCase /\ new.pc \in AfterCase
    BY <2>4 DEF StoredBy, Entering, Unspent, BeforeCase, AfterCase, Ending, Reported
  <2>5. CASE rec.pc \in Ending /\ new.pc \in Ending \ Reported
    BY <2>5 DEF StoredBy, Entering, Unspent, BeforeCase, AfterCase, Ending, Reported
  <2>6. CASE rec.pc \in Reported /\ new.pc \in Reported
    BY <2>6 DEF StoredBy, Entering, Unspent, BeforeCase, AfterCase, Ending, Reported
  <2> QED
    BY <1>2, <2>1, <2>2, <2>3, <2>4, <2>5, <2>6 DEF Onward
<1> QED
  BY <1>1, <1>2

LEMMA WalkStores ==
    ASSUME EInv, EInv', RInv, \A i \in Jobs : RowMoves(i),
           UNCHANGED <<attempts, cases, report, progress>>,
           NEW r \in Runners, NEW pc \in PCs, NEW row \in JobRow \cup {NoRow}, Onward(run[r].pc, pc),
           \/ Go(r, pc) \/ run' = [run EXCEPT ![r].pc = pc, ![r].row = row]
           \/ run' = [run EXCEPT ![r].row = row, ![r].pc = pc]
           \/ Raise(r) \/ Leave(r)
    PROVE  RInv'
<1>0. /\ UNCHANGED <<cases, report, progress>>
      /\ \A j \in Jobs : attempts[j] \subseteq attempts'[j]
      /\ StoredBy(run[r])
  BY DEF RInv
<1>1. ASSUME NEW new \in RunRecord, run' = [run EXCEPT ![r] = new], Onward(run[r].pc, new.pc),
             new.id = run[r].id, new.case = run[r].case
      PROVE  RInv'
  <2>1. StoredBy(new)
    BY <1>0, <1>1, OnwardIsStored
  <2> QED
    BY <1>0, <1>1, <2>1, OneThreadMoves
<1>2. CASE Go(r, pc)
  <2> DEFINE new == [run[r] EXCEPT !.pc = pc]
  <2>1. run' = [run EXCEPT ![r] = new]
    BY <1>2 DEF Go, EInv, TypeOK
  <2>2. new \in RunRecord /\ SameThread(new, run[r], pc)
    BY MovedRecord
  <2> HIDE DEF new
  <2> QED
    BY <1>1, <2>1, <2>2 DEF SameThread
<1>3. CASE \/ run' = [run EXCEPT ![r].pc = pc, ![r].row = row]
           \/ run' = [run EXCEPT ![r].row = row, ![r].pc = pc]
  <2> DEFINE new == [run[r] EXCEPT !.pc = pc, !.row = row]
  <2>1. run' = [run EXCEPT ![r] = new]
    BY <1>3 DEF EInv, TypeOK
  <2>2. new \in RunRecord /\ SameThread(new, run[r], pc)
    BY MovedRecord
  <2> HIDE DEF new
  <2> QED
    BY <1>1, <2>1, <2>2 DEF SameThread
<1>4. CASE Raise(r)
  <2> DEFINE new == [run[r] EXCEPT !.pc = "handler"]
  <2>0. "handler" \in PCs
    BY DEF PCs
  <2>1. run' = [run EXCEPT ![r] = new]
    BY <1>4 DEF Raise, EInv, TypeOK
  <2>2. new \in RunRecord /\ SameThread(new, run[r], "handler")
    BY <2>0, MovedRecord
  <2>3. Onward(run[r].pc, new.pc)
    BY <2>2, LooseStates DEF Onward, SameThread
  <2> HIDE DEF new
  <2> QED
    BY <1>1, <2>1, <2>2, <2>3 DEF SameThread
<1>5. CASE Leave(r)
  <2>1. run' = [run EXCEPT ![r] = Idle]
    BY <1>5 DEF Leave
  <2> HIDE DEF Idle
  <2> QED
    BY <1>0, <2>1, IdleRecord, IdleIsStored, OneThreadMoves
<1> QED
  BY <1>2, <1>3, <1>4, <1>5

\* The claim: nothing is stored of a job that waits.
LEMMA ClaimStores ==
    ASSUME EInv, EInv', RInv, \A i \in Jobs : RowMoves(i), NEW r \in Runners, Claim(r)
    PROVE  RInv'
<1>1. run[r].pc = "claim" /\ Job(r) \in Jobs /\ Exists(Job(r))
  BY HolderFacts DEF Claim, At
<1>2. UNCHANGED <<attempts, cases, report, progress>>
  BY DEF Claim, tables
<1>3. CASE Leave(r)
  <2>1. Onward(run[r].pc, "off") /\ "off" \in PCs
    BY LooseStates DEF Onward, Loose
  <2> QED
    BY <1>2, <1>3, <2>1, WalkStores
<1>4. CASE /\ CanTransitionJob(Job(r), Row(r).revision, "running", "none", "none")
           /\ GoWith(r, "prepare")
  <2> DEFINE new == [run[r] EXCEPT !.pc = "prepare", !.row = job'[Job(r)]]
  <2>1. /\ new \in RunRecord /\ run' = [run EXCEPT ![r] = new]
        /\ new.pc = "prepare" /\ new.id = Job(r) /\ new.case = run[r].case
    <3>1. "prepare" \in PCs /\ job'[Job(r)] \in JobRow \cup {NoRow}
      BY <1>1 DEF PCs, EInv, StoreInv, StoreTypeOK, Job
    <3>2. run' = [run EXCEPT ![r] = new]
      BY <1>4 DEF GoWith, EInv, TypeOK
    <3>3. new \in RunRecord /\ SameThread(new, run[r], "prepare")
      BY <3>1, MovedRecord
    <3> HIDE DEF new
    <3> QED
      BY <3>2, <3>3 DEF SameThread, Job
  <2>2. Waiting(Job(r))
    <3>1. job[Job(r)].state \in JobStates
      BY <1>1, StoredRow DEF EInv
    <3> QED
      BY <1>4, <3>1 DEF CanTransitionJob, JobTransitions, JobStates, Waiting
  <2>3. cases[Job(r)] = {} /\ run[r].case = 1
    BY <1>1, <2>2 DEF RInv, ResultsOf, StoredBy, Entering
  <2>4. StoredBy(new)
    BY <2>1, <2>3 DEF StoredBy, Unspent, BeforeCase, AfterCase, Ending, Reported
  <2>5. \A j \in Jobs : attempts[j] \subseteq attempts'[j]
    BY <1>2
  <2> HIDE DEF new
  <2> QED
    BY <1>2, <2>1, <2>4, <2>5, OneThreadMoves
<1> QED
  BY <1>3, <1>4 DEF Claim

\* A slot is reserved: what is stored stays.
LEMMA ReserveStores ==
    ASSUME EInv, EInv', RInv, \A i \in Jobs : RowMoves(i), NEW r \in Runners, ReserveAttempt(r)
    PROVE  RInv'
<1>1. /\ run[r].pc = "reserve" /\ Job(r) \in Jobs /\ run[r] \in RunRecord
      /\ UNCHANGED <<cases, report, progress>>
  BY HolderFacts DEF ReserveAttempt, At
<1>2. \A j \in Jobs : attempts[j] \subseteq attempts'[j]
  BY <1>1 DEF ReserveAttempt, EInv, TypeOK
<1>3. ASSUME NEW new \in RunRecord, run' = [run EXCEPT ![r] = new], new.pc \in {"call", "handler"},
             new.id = run[r].id, new.case = run[r].case
      PROVE  RInv'
  <2>1. Onward(run[r].pc, new.pc) /\ StoredBy(run[r])
    BY <1>1, <1>3, LooseStates DEF Onward, BeforeCase, RInv
  <2>2. StoredBy(new)
    BY <1>3, <2>1, OnwardIsStored
  <2> QED
    BY <1>1, <1>2, <1>3, <2>2, OneThreadMoves
<1>4. CASE Go(r, "call")
  <2> DEFINE new == [run[r] EXCEPT !.pc = "call"]
  <2>1. run' = [run EXCEPT ![r] = new]
    BY <1>4 DEF Go, EInv, TypeOK
  <2>2. new \in RunRecord /\ new.pc = "call" /\ new.id = run[r].id /\ new.case = run[r].case
    BY <1>1 DEF RunRecord, PCs
  <2> HIDE DEF new
  <2> QED
    BY <1>3, <2>1, <2>2
<1>5. CASE run' = [run EXCEPT ![r].pc = "handler", ![r].refused = job[Job(r)].state = "running"]
  <2> DEFINE refused == job[Job(r)].state = "running"
             new == [run[r] EXCEPT !.pc = "handler", !.refused = refused]
  <2>1. run' = [run EXCEPT ![r] = new]
    BY <1>5 DEF EInv, TypeOK
  <2>2. refused \in BOOLEAN
    OBVIOUS
  <2> HIDE DEF refused
  <2>3. new \in RunRecord /\ new.pc = "handler" /\ new.id = run[r].id /\ new.case = run[r].case
    BY <1>1, <2>2 DEF RunRecord, PCs
  <2> HIDE DEF new
  <2> QED
    BY <1>3, <2>1, <2>3
<1> QED
  BY <1>4, <1>5 DEF ReserveAttempt

\* The request of the judge is the last of its case, and its slot is reserved.
LEMMA InvokeStores ==
    ASSUME EInv, EInv', RInv, \A i \in Jobs : RowMoves(i), NEW r \in Runners, Invoke(r)
    PROVE  RInv'
<1>1. /\ run[r].pc = "call" /\ Job(r) \in Jobs /\ run[r] \in RunRecord
      /\ UNCHANGED <<attempts, cases, report, progress>> /\ StoredBy(run[r])
  BY HolderFacts DEF Invoke, At, tables, RInv
<1>2. \A j \in Jobs : attempts[j] \subseteq attempts'[j]
  BY <1>1
<1>3. CASE Raise(r)
  <2>1. Onward(run[r].pc, "handler") /\ "handler" \in PCs
    BY LooseStates DEF Onward, Loose
  <2> QED
    BY <1>1, <1>3, <2>1, WalkStores
<1>4. ASSUME NEW p \in Phases, run' = [run EXCEPT ![r].pc = "check", ![r].phase = p]
      PROVE  RInv'
  <2> DEFINE new == [run[r] EXCEPT !.pc = "check", !.phase = p]
  <2>1. run' = [run EXCEPT ![r] = new]
    BY <1>4 DEF EInv, TypeOK
  <2>2. new \in RunRecord /\ new.pc = "check" /\ new.id = run[r].id /\ new.case = run[r].case
    BY <1>1 DEF RunRecord, PCs
  <2>3. Onward(run[r].pc, new.pc)
    BY <1>1, <2>2 DEF Onward, BeforeCase
  <2> HIDE DEF new
  <2>4. StoredBy(new)
    BY <1>1, <2>2, <2>3, OnwardIsStored
  <2> QED
    BY <1>1, <1>2, <2>1, <2>2, <2>4, OneThreadMoves
<1>5. CASE run[r].phase = "judging" /\ Go(r, "commitCase")
  <2> DEFINE new == [run[r] EXCEPT !.pc = "commitCase"]
  <2>1. run' = [run EXCEPT ![r] = new]
    BY <1>5 DEF Go, EInv, TypeOK
  <2>2. new \in RunRecord /\ new.pc = "commitCase" /\ new.id = run[r].id /\ new.case = run[r].case
    BY <1>1 DEF RunRecord, PCs
  <2>3. <<run[r].case, "judging">> \in attempts[Job(r)]
    BY <1>1, <1>5 DEF EInv, CallsAreReserved, At, Slot
  <2>4. cases[Job(r)] = 1..(run[r].case - 1)
    BY <1>1 DEF StoredBy, BeforeCase, Job
  <2> HIDE DEF new
  <2>5. StoredBy(new)
    BY <2>2, <2>3, <2>4 DEF StoredBy, Entering, Unspent, BeforeCase, AfterCase, Ending, Reported, Job
  <2> QED
    BY <1>1, <1>2, <2>1, <2>2, <2>5, OneThreadMoves
<1>6. \A p \in NextPhases(run[r].phase) : p \in Phases
  BY DEF NextPhases, Phases
<1> QED
  BY <1>3, <1>4, <1>5, <1>6 DEF Invoke

\* Tables of one job are written by the thread that holds it: every other
\* thread keeps what it has stored.
LEMMA HolderStores ==
    ASSUME EInv, EInv', RInv, \A i \in Jobs : RowMoves(i), UNCHANGED attempts,
           NEW r \in Runners, Holds(r), NEW new \in RunRecord, run' = [run EXCEPT ![r] = new],
           NEW j \in Jobs, j = Job(r),
           \A i \in Jobs : i # j =>
             cases'[i] = cases[i] /\ report'[i] = report[i] /\ progress'[i] = progress[i],
           ResultsOf(j)', StoredBy(run[r])'
    PROVE  RInv'
<1>1. ASSUME NEW i \in Jobs, i # j PROVE ResultsOf(i)'
  <2>1. Succeeded(i)' => report[i] /\ progress[i] = NCases
    BY SucceedsWithResults
  <2>2. (Waiting(i)' => Waiting(i)) /\ ResultsOf(i)
    BY DEF RowMoves, RInv
  <2> QED
    BY <1>1, <2>1, <2>2 DEF ResultsOf
<1>2. ASSUME NEW q \in Runners, q # r PROVE StoredBy(run[q])'
  <2>1. run'[q] = run[q] /\ StoredBy(run[q])
    BY <1>2 DEF EInv, TypeOK, RInv
  <2>2. CASE Holds(q)
    <3>1. run[q].id \in Jobs /\ run[q].id # j
      BY <1>2, <2>2 DEF EInv, HoldersHaveClaimed, ThreadsNameRows, Job, Holds, Unclaimed
    <3> QED
      BY <2>1, <3>1 DEF StoredBy
  <2>3. CASE ~Holds(q)
    BY <2>1, <2>3 DEF Holds, Unclaimed, StoredBy, Entering, Unspent, BeforeCase, AfterCase, Ending, Reported
  <2> QED
    BY <2>2, <2>3
<1> QED
  BY <1>1, <1>2 DEF RInv

LEMMA CommitCaseStores ==
    ASSUME EInv, EInv', RInv, \A i \in Jobs : RowMoves(i), NEW r \in Runners, CommitCase(r)
    PROVE  RInv'
<1>1. /\ run[r].pc = "commitCase" /\ Job(r) \in Jobs /\ run[r] \in RunRecord /\ Exists(Job(r))
      /\ UNCHANGED <<attempts, report, progress>> /\ UNCHANGED job
  BY HolderFacts DEF CommitCase, At, storeVars
<1>2. CASE Raise(r) /\ UNCHANGED cases
  <2>1. Onward(run[r].pc, "handler") /\ "handler" \in PCs
    BY LooseStates DEF Onward, Loose
  <2> QED
    BY <1>1, <1>2, <2>1, WalkStores
<1>3. CASE /\ job[Job(r)].state \in ActiveJobStates
           /\ cases' = [cases EXCEPT ![Job(r)] = @ \cup {run[r].case}]
           /\ Go(r, "checkCase")
  <2> DEFINE new == [run[r] EXCEPT !.pc = "checkCase"]
  <2>1. PICK j \in Jobs : j = Job(r)
    BY <1>1
  <2>2. PICK c \in Cases : c = run[r].case
    BY <1>1 DEF RunRecord
  <2>3. run' = [run EXCEPT ![r] = new]
    BY <1>3 DEF Go, EInv, TypeOK
  <2>4. new \in RunRecord /\ new.pc = "checkCase" /\ new.id = j /\ new.case = c
    BY <1>1, <2>1, <2>2 DEF RunRecord, PCs, Job
  <2> HIDE DEF new
  <2>5. run'[r] = new
    BY <2>3 DEF EInv, TypeOK
  <2>6. cases[j] = 1..(c - 1) /\ <<c, "judging">> \in attempts[j]
    BY <1>1, <2>1, <2>2 DEF RInv, StoredBy, BeforeCase, Job
  <2>7. c \in Nat /\ 1 <= c /\ c <= NCases /\ NCases \in Nat
    BY EvaluationAssumption DEF Cases
  <2>8. cases'[j] = 1..c /\ \A i \in Jobs : i # j => cases'[i] = cases[i]
    <3>1. cases'[j] = cases[j] \cup {c} /\ \A i \in Jobs : i # j => cases'[i] = cases[i]
      BY <1>3, <2>1, <2>2 DEF EInv, TypeOK
    <3>2. (1..(c - 1)) \cup {c} = 1..c
      BY <2>7
    <3> QED
      BY <2>6, <3>1, <3>2
  <2>9. progress[j] \in Nat /\ progress[j] <= c /\ (report[j] => c = NCases)
    <3>1. PICK n \in 0..NCases : cases[j] = 1..n /\ progress[j] <= n
      BY DEF RInv, ResultsOf
    <3>2. n = c - 1
      <4>1. n \in Nat
        BY <2>7, <3>1
      <4>2. n < c
        <5>1. ~(c \in 1..(c - 1))
          BY <2>7
        <5> QED
          BY <2>6, <2>7, <3>1, <4>1, <5>1
      <4>3. c - 1 <= n
        <5>1. CASE c - 1 = 0
          BY <4>1, <5>1
        <5>2. CASE c - 1 > 0
          <6>1. c - 1 \in 1..n
            BY <2>6, <2>7, <3>1, <5>2
          <6> QED
            BY <2>7, <4>1, <6>1
        <5> QED
          BY <2>7, <5>1, <5>2
      <4> QED
        BY <2>7, <4>1, <4>2, <4>3
    <3>3. progress[j] \in 0..NCases
      BY DEF EInv, TypeOK
    <3>4. ~report[j]
      <4>1. c \in Cases /\ c \notin cases[j]
        BY <2>6, <2>7
      <4> QED
        BY <4>1 DEF RInv, ResultsOf
    <3> QED
      BY <2>7, <3>1, <3>2, <3>3, <3>4
  <2>10. ASSUME NEW d \in 1..c PROVE <<d, "judging">> \in attempts[j]
    BY <2>6, <2>7 DEF RInv, ResultsOf
  <2>11. ~Waiting(j) /\ ~Succeeded(j)
    BY <1>1, <1>3, <2>1 DEF Waiting, Succeeded, ActiveJobStates
  <2>12. ResultsOf(j)'
    <3>1. ~Waiting(j)' /\ ~Succeeded(j)'
      BY <1>1, <2>11 DEF Waiting, Succeeded, Exists
    <3>2. c \in 0..NCases
      BY <2>7
    <3>3. report[j] => 1..c = Cases
      BY <2>9 DEF Cases
    <3> QED
      BY <1>1, <2>8, <2>9, <2>10, <3>1, <3>2, <3>3 DEF ResultsOf
  <2>13. StoredBy(run[r])'
    BY <2>4, <2>5, <2>8 DEF StoredBy, Entering, Unspent, BeforeCase, AfterCase, Ending, Reported
  <2>14. Holds(r)
    BY <1>1 DEF Holds, Unclaimed
  <2> QED
    BY <1>1, <2>1, <2>3, <2>4, <2>8, <2>12, <2>13, <2>14, HolderStores
<1> QED
  BY <1>2, <1>3 DEF CommitCase

LEMMA CommitReportStores ==
    ASSUME EInv, EInv', RInv, \A i \in Jobs : RowMoves(i), NEW r \in Runners, CommitReport(r)
    PROVE  RInv'
<1>1. /\ run[r].pc = "commitReport" /\ Job(r) \in Jobs /\ run[r] \in RunRecord /\ Exists(Job(r))
      /\ UNCHANGED <<attempts, cases, progress>> /\ UNCHANGED job
  BY HolderFacts DEF CommitReport, At, storeVars
<1>2. CASE Raise(r) /\ UNCHANGED report
  <2>1. Onward(run[r].pc, "handler") /\ "handler" \in PCs
    BY LooseStates DEF Onward, Loose
  <2> QED
    BY <1>1, <1>2, <2>1, WalkStores
<1>3. CASE /\ cases[Job(r)] = Cases
           /\ report' = [report EXCEPT ![Job(r)] = TRUE]
           /\ Go(r, "checkReport")
  <2> DEFINE new == [run[r] EXCEPT !.pc = "checkReport"]
  <2>1. PICK j \in Jobs : j = Job(r)
    BY <1>1
  <2>2. run' = [run EXCEPT ![r] = new]
    BY <1>3 DEF Go, EInv, TypeOK
  <2>3. new \in RunRecord /\ new.pc = "checkReport" /\ new.id = j
    BY <1>1, <2>1 DEF RunRecord, PCs, Job
  <2> HIDE DEF new
  <2>4. run'[r] = new /\ Holds(r)
    BY <1>1, <2>2 DEF EInv, TypeOK, Holds, Unclaimed
  <2>5. cases[j] = Cases /\ progress[j] = NCases
    BY <1>1, <2>1 DEF RInv, StoredBy, Ending, Job
  <2>6. report'[j] /\ \A i \in Jobs : i # j => report'[i] = report[i]
    BY <1>3, <2>1 DEF EInv, TypeOK
  <2>7. ResultsOf(j)'
    <3>1. Waiting(j)' => Waiting(j)
      BY DEF RowMoves
    <3> QED
      BY <1>1, <2>5, <2>6, <3>1 DEF RInv, ResultsOf
  <2>8. StoredBy(run[r])'
    BY <1>1, <2>3, <2>4, <2>5, <2>6
       DEF StoredBy, Entering, Unspent, BeforeCase, AfterCase, Ending, Reported
  <2> QED
    BY <1>1, <2>1, <2>2, <2>3, <2>4, <2>6, <2>7, <2>8, HolderStores
<1> QED
  BY <1>2, <1>3 DEF CommitReport

\* report_progress: the reported case is stored, and with the last one all are.
LEMMA ReportStores ==
    ASSUME EInv, EInv', RInv, \A i \in Jobs : RowMoves(i),
           NEW r \in Runners, NEW at, at \notin Unclaimed, NEW current \in 0..NCases,
           NEW next \in RunRecord, next.id = run[r].id,
           \/ next.pc = "check" /\ next.case = current + 1
           \/ next.pc = "endCases" /\ current = NCases,
           cases[Job(r)] = 1..current,
           Report(r, at, current, next)
    PROVE  RInv'
<1>1. /\ run[r].pc = at /\ Job(r) \in Jobs /\ run[r] \in RunRecord /\ Exists(Job(r)) /\ Holds(r)
      /\ UNCHANGED <<attempts, cases, report>>
  BY HolderFacts DEF Report, At, Holds, Unclaimed
<1> DEFINE can == CanReportProgress(Job(r), Row(r).revision)
<1>2. CASE ~can /\ Raise(r) /\ UNCHANGED <<storeVars, progress>>
  <2>1. Onward(run[r].pc, "handler") /\ "handler" \in PCs
    BY LooseStates DEF Onward, Loose
  <2> QED
    BY <1>1, <1>2, <2>1, WalkStores
<1>3. CASE /\ can /\ ReportProgress(Job(r))
           /\ progress' = [progress EXCEPT ![Job(r)] = current]
           /\ run' = [run EXCEPT ![r] = [next EXCEPT !.row = job'[Job(r)]]]
  <2> DEFINE new == [next EXCEPT !.row = job'[Job(r)]]
  <2>1. PICK j \in Jobs : j = Job(r)
    BY <1>1
  <2>2. run' = [run EXCEPT ![r] = new]
    BY <1>3
  <2>3. /\ new \in RunRecord /\ new.pc = next.pc /\ new.id = j /\ new.case = next.case
    <3>1. job'[j] \in JobRow \cup {NoRow}
      BY DEF EInv, StoreInv, StoreTypeOK
    <3>2. job'[Job(r)] = job'[j]
      BY <2>1
    <3> HIDE DEF Job
    <3>3. new = [next EXCEPT !.row = job'[j]]
      BY <3>2
    <3>4. next.id = j
      BY <2>1 DEF Job
    <3> QED
      BY <3>1, <3>3, <3>4 DEF RunRecord
  <2> HIDE DEF new
  <2>4. run'[r] = new
    BY <2>2 DEF EInv, TypeOK
  <2>5. cases[j] = 1..current
    BY <2>1
  <2>6. progress'[j] = current /\ \A i \in Jobs : i # j => progress'[i] = progress[i]
    BY <1>3, <2>1 DEF EInv, TypeOK
  <2>7. ~Succeeded(j)'
    <3>1. CanReportProgress(j, Row(r).revision) /\ ReportProgress(j) /\ Exists(j)
      BY <1>1, <1>3, <2>1
    <3> QED
      BY <3>1, ProgressMoves DEF Succeeded
  <2>8. ResultsOf(j)'
    <3>1. Waiting(j)' => Waiting(j)
      BY DEF RowMoves
    <3>2. /\ \A c \in cases[j] : <<c, "judging">> \in attempts[j]
          /\ report[j] => cases[j] = Cases
          /\ Waiting(j) => cases[j] = {}
      BY DEF RInv, ResultsOf
    <3>3. current <= current
      BY EvaluationAssumption
    <3> QED
      BY <1>1, <2>5, <2>6, <2>7, <3>1, <3>2, <3>3 DEF ResultsOf
  <2>9. StoredBy(run[r])'
    <3>1. CASE next.pc = "check" /\ next.case = current + 1
      <4>1. (current + 1) - 1 = current
        BY EvaluationAssumption
      <4> QED
        BY <1>1, <2>3, <2>4, <2>5, <3>1, <4>1
           DEF StoredBy, Entering, Unspent, BeforeCase, AfterCase, Ending, Reported
    <3>2. CASE next.pc = "endCases" /\ current = NCases
      BY <1>1, <2>3, <2>4, <2>5, <2>6, <3>2
         DEF StoredBy, Entering, Unspent, BeforeCase, AfterCase, Ending, Reported, Cases
    <3> QED
      BY <3>1, <3>2
  <2> QED
    BY <1>1, <2>1, <2>2, <2>3, <2>6, <2>8, <2>9, HolderStores
<1> QED
  BY <1>2, <1>3 DEF Report

LEMMA ResetStores ==
    ASSUME EInv, EInv', RInv, \A i \in Jobs : RowMoves(i), NEW r \in Runners, ResetProgress(r)
    PROVE  RInv'
<1> DEFINE next == [run[r] EXCEPT !.pc = "check"]
<1>1. run[r].pc = "resetProgress" /\ run[r] \in RunRecord /\ Report(r, "resetProgress", 0, next)
  BY HolderFacts DEF ResetProgress, Report, At
<1>2. run[r].case = 1 /\ cases[Job(r)] = {}
  BY <1>1 DEF RInv, StoredBy, Entering, Unspent, Job
<1>3. next \in RunRecord /\ next.pc = "check" /\ next.case = 0 + 1 /\ next.id = run[r].id
  BY <1>1, <1>2 DEF RunRecord, PCs
<1>4. 0 \in 0..NCases /\ 1..0 = {}
  BY EvaluationAssumption
<1> HIDE DEF next
<1> QED
  BY <1>1, <1>2, <1>3, <1>4, ReportStores DEF Unclaimed

LEMMA ReportCaseStores ==
    ASSUME EInv, EInv', RInv, \A i \in Jobs : RowMoves(i), NEW r \in Runners, ReportCase(r)
    PROVE  RInv'
<1>1. run[r].pc = "progress" /\ run[r] \in RunRecord
  BY HolderFacts DEF ReportCase, Report, At
<1>2. run[r].case \in Nat /\ run[r].case \in 0..NCases /\ run[r].case <= NCases
  BY <1>1, EvaluationAssumption DEF RunRecord, Cases
<1>3. cases[Job(r)] = 1..run[r].case
  BY <1>1 DEF RInv, StoredBy, AfterCase, Job
<1>4. "progress" \notin Unclaimed
  BY DEF Unclaimed
<1>5. CASE run[r].case < NCases
  <2> DEFINE next == [run[r] EXCEPT !.pc = "check", !.case = @ + 1, !.phase = "generation"]
  <2>1. run[r].case + 1 \in Cases /\ "check" \in PCs /\ "generation" \in Phases
    BY <1>2, <1>5, EvaluationAssumption DEF Cases, PCs, Phases
  <2>2. next \in RunRecord /\ next.pc = "check" /\ next.case = run[r].case + 1 /\ next.id = run[r].id
    BY <1>1, <2>1 DEF RunRecord
  <2>3. Report(r, "progress", run[r].case, next)
    BY <1>5 DEF ReportCase
  <2> HIDE DEF next
  <2> QED
    BY <1>2, <1>3, <1>4, <2>2, <2>3, ReportStores
<1>6. CASE ~(run[r].case < NCases)
  <2> DEFINE next == [run[r] EXCEPT !.pc = "endCases"]
  <2>1. next \in RunRecord /\ next.pc = "endCases" /\ next.id = run[r].id
    BY <1>1 DEF RunRecord, PCs
  <2>2. Report(r, "progress", run[r].case, next)
    BY <1>6 DEF ReportCase
  <2>3. run[r].case = NCases
    BY <1>2, <1>6, EvaluationAssumption
  <2> HIDE DEF next
  <2> QED
    BY <1>2, <1>3, <1>4, <2>1, <2>2, <2>3, ReportStores
<1> QED
  BY <1>5, <1>6

\* The steps that store nothing and reserve nothing.
LEMMA QuietStores ==
    ASSUME EInv, EInv', RInv, \A i \in Jobs : RowMoves(i), NEW r \in Runners,
           \/ ReadQueued(r) \/ Prepare(r) \/ CheckAttempt(r) \/ CheckCase(r) \/ CheckReport(r)
           \/ RereadJob(r) \/ Handle(r) \/ FinishRead(r) \/ StorageFault(r)
    PROVE  RInv'
<1>1. UNCHANGED <<attempts, cases, report, progress>> /\ run[r].pc # "off" /\ Job(r) \in Jobs
  <2>1. run[r].pc # "off"
    BY DEF ReadQueued, Prepare, CheckAttempt, CheckCase, CheckReport, CheckCancel, RereadJob,
           Handle, FinishRead, StorageFault, At
  <2> QED
    BY <2>1, HolderFacts DEF ReadQueued, Prepare, CheckAttempt, CheckCase, CheckReport, CheckCancel,
           RereadJob, Handle, FinishRead, StorageFault, tables
<1>2. job[Job(r)] \in JobRow \cup {NoRow}
  BY <1>1 DEF EInv, StoreInv, StoreTypeOK, Job
<1>3. \A pc \in {"off", "handler", "finish", "acknowledge", "fail"} : Onward(run[r].pc, pc) /\ pc \in PCs
  BY LooseStates DEF Onward, PCs
<1>4. CASE Raise(r) \/ Leave(r) \/ Go(r, "finish")
  BY <1>1, <1>2, <1>3, <1>4, WalkStores
<1>5. CASE ReadQueued(r) /\ run' = [run EXCEPT ![r].pc = "claim", ![r].row = job[Job(r)]]
  <2>1. Onward(run[r].pc, "claim") /\ "claim" \in PCs
    BY <1>5 DEF ReadQueued, At, Onward, Entering, PCs
  <2> QED
    BY <1>1, <1>2, <1>5, <2>1, WalkStores
<1>6. CASE Prepare(r) /\ Go(r, "beginCases")
  <2>1. Onward(run[r].pc, "beginCases") /\ "beginCases" \in PCs
    BY <1>6 DEF Prepare, At, Onward, Unspent, PCs
  <2> QED
    BY <1>1, <1>2, <1>6, <2>1, WalkStores
<1>7. CASE CheckAttempt(r) /\ Go(r, "reserve")
  <2>1. Onward(run[r].pc, "reserve") /\ "reserve" \in PCs
    BY <1>7 DEF CheckAttempt, CheckCancel, At, Onward, BeforeCase, PCs
  <2> QED
    BY <1>1, <1>2, <1>7, <2>1, WalkStores
<1>8. CASE CheckCase(r) /\ Go(r, "reread")
  <2>1. Onward(run[r].pc, "reread") /\ "reread" \in PCs
    BY <1>8 DEF CheckCase, CheckCancel, At, Onward, AfterCase, PCs
  <2> QED
    BY <1>1, <1>2, <1>8, <2>1, WalkStores
<1>9. CASE CheckReport(r) /\ Go(r, "endReport")
  <2>1. Onward(run[r].pc, "endReport") /\ "endReport" \in PCs
    BY <1>9 DEF CheckReport, CheckCancel, At, Onward, Reported, PCs
  <2> QED
    BY <1>1, <1>2, <1>9, <2>1, WalkStores
<1>10. CASE RereadJob(r)
  <2>1. /\ run' = [run EXCEPT ![r].pc = "progress", ![r].row = job[Job(r)]]
        /\ Onward(run[r].pc, "progress") /\ "progress" \in PCs
    BY <1>10 DEF RereadJob, At, Onward, AfterCase, PCs
  <2> QED
    BY <1>1, <1>2, <2>1, WalkStores
<1>11. CASE FinishRead(r)
  <2>1. ASSUME NEW pc \in {"acknowledge", "fail"},
               run' = [run EXCEPT ![r].row = job[Job(r)], ![r].pc = pc]
        PROVE  RInv'
    BY <1>1, <1>2, <1>3, <2>1, WalkStores
  <2>2. \/ Leave(r)
        \/ run' = [run EXCEPT ![r].row = job[Job(r)],
                              ![r].pc = IF job[Job(r)].state = "cancelling" THEN "acknowledge" ELSE "fail"]
    BY <1>11 DEF FinishRead
  <2> QED
    BY <1>4, <2>1, <2>2
<1> QED
  BY <1>4, <1>5, <1>6, <1>7, <1>8, <1>9, <1>10, <1>11
     DEF ReadQueued, Prepare, CheckAttempt, CheckCase, CheckReport, CheckCancel, Handle, StorageFault

\* The steps that write the row: the thread goes on with the new row, tries
\* again, or leaves.
LEMMA RowStores ==
    ASSUME EInv, EInv', RInv, \A i \in Jobs : RowMoves(i), NEW r \in Runners,
           \/ BeginCases(r) \/ EndCases(r) \/ BeginReport(r) \/ EndReport(r)
           \/ Succeed(r) \/ FinishFail(r) \/ FinishAcknowledge(r)
    PROVE  RInv'
<1>1. UNCHANGED <<attempts, cases, report, progress>> /\ run[r].pc # "off" /\ Job(r) \in Jobs
  <2>1. run[r].pc # "off"
    BY DEF BeginCases, EndCases, BeginReport, EndReport, MoveStep, Succeed, FinishFail,
           FinishAcknowledge, At
  <2> QED
    BY <2>1, HolderFacts DEF BeginCases, EndCases, BeginReport, EndReport, MoveStep, Succeed,
           FinishFail, FinishAcknowledge, tables
<1>2. job[Job(r)] \in JobRow \cup {NoRow} /\ job'[Job(r)] \in JobRow \cup {NoRow}
  BY <1>1 DEF EInv, StoreInv, StoreTypeOK, Job
<1>3. \A pc \in {"off", "handler", "finish"} : Onward(run[r].pc, pc) /\ pc \in PCs
  BY LooseStates DEF Onward, PCs
<1>4. CASE Raise(r) \/ Leave(r)
  BY <1>1, <1>2, <1>3, <1>4, WalkStores
<1>5. ASSUME NEW at \in PCs, NEW s, NEW target, NEW next \in PCs, Onward(at, next),
             MoveStep(r, at, s, target, next)
      PROVE  RInv'
  <2>1. run[r].pc = at /\ (Raise(r) \/ GoWith(r, next))
    BY <1>5 DEF MoveStep, At
  <2>2. CASE run' = [run EXCEPT ![r].pc = next, ![r].row = job'[Job(r)]]
    BY <1>1, <1>2, <1>5, <2>1, <2>2, WalkStores
  <2> QED
    BY <1>4, <2>1, <2>2 DEF GoWith
<1>6. /\ Onward("beginCases", "resetProgress") /\ Onward("endCases", "beginReport")
      /\ Onward("beginReport", "commitReport") /\ Onward("endReport", "succeed")
      /\ {"beginCases", "resetProgress", "endCases", "beginReport", "commitReport", "endReport",
          "succeed"} \subseteq PCs
  BY DEF Onward, Unspent, Ending, Reported, PCs
<1>7. CASE BeginCases(r) \/ EndCases(r) \/ BeginReport(r) \/ EndReport(r)
  BY <1>5, <1>6, <1>7 DEF BeginCases, EndCases, BeginReport, EndReport
<1>8. CASE Again(r) /\ run[r].pc \in LastTries
  <2> DEFINE new == [run[r] EXCEPT !.pc = "finish", !.tries = run[r].tries + 1]
  <2>1. run[r] \in RunRecord /\ run[r].tries < FinishTries
    BY <1>1, <1>8, HolderFacts DEF EInv, TriesAreLeft
  <2>2. run[r].tries + 1 \in 0..FinishTries /\ "finish" \in PCs
    BY <2>1, EvaluationAssumption DEF RunRecord, PCs
  <2>3. new \in RunRecord /\ new.pc = "finish"
    BY <2>1, <2>2 DEF RunRecord
  <2>4. run' = [run EXCEPT ![r] = new]
    BY <1>8 DEF Again, EInv, TypeOK
  <2> HIDE DEF new
  <2>5. StoredBy(new) /\ \A j \in Jobs : attempts[j] \subseteq attempts'[j]
    BY <1>1, <2>3, LooseStates, LooseIsStored
  <2> QED
    BY <1>1, <2>3, <2>4, <2>5, OneThreadMoves
<1> QED
  BY <1>4, <1>7, <1>8 DEF Succeed, FinishFail, FinishAcknowledge, At, LastTries

LEMMA RInvInit == Init => RInv
<1> SUFFICES ASSUME Init PROVE RInv
  OBVIOUS
<1>1. \A j \in Jobs : ~Succeeded(j) /\ cases[j] = {} /\ progress[j] = 0 /\ ~report[j]
  BY DEF Init, StoreInit, Succeeded, Exists
<1>2. 0 \in 0..NCases /\ 1..0 = {} /\ 0 <= 0
  BY EvaluationAssumption
<1>3. \A j \in Jobs : ResultsOf(j)
  BY <1>1, <1>2 DEF ResultsOf
<1>4. ASSUME NEW r \in Runners PROVE StoredBy(run[r])
  <2>1. run[r] = Idle
    BY DEF Init
  <2> HIDE DEF Idle
  <2> QED
    BY <2>1, IdleIsStored
<1> QED
  BY <1>3, <1>4 DEF RInv

LEMMA RInvStep == EInv /\ RInv /\ [Next]_vars => RInv'
<1> SUFFICES ASSUME EInv, RInv, [Next]_vars PROVE RInv'
  OBVIOUS
<1>1. EInv' /\ \A i \in Jobs : RowMoves(i)
  BY EInvStep, EveryRowMoves
<1>2. ASSUME UNCHANGED <<attempts, cases, report, progress>>,
             \A r \in Runners : run'[r] = run[r] \/ StoredBy(run'[r])
      PROVE  RInv'
  BY <1>1, <1>2, ResultsKept
<1>3. CASE UNCHANGED vars
  BY <1>2, <1>3 DEF vars
<1>4. ASSUME NEW j \in Jobs, NEW r \in Runners, Start(r, j), UNCHANGED tables PROVE RInv'
  <2> DEFINE new == [Idle EXCEPT !.pc = "start", !.id = j]
  <2>1. run' = [run EXCEPT ![r] = new] /\ StoredBy(new)
    BY <1>4, StartIsStored DEF Start
  <2> HIDE DEF new
  <2>2. \A q \in Runners : run'[q] = run[q] \/ StoredBy(run'[q])
    BY <2>1 DEF EInv, TypeOK
  <2> QED
    BY <1>2, <1>4, <2>2 DEF tables
<1>5. ASSUME NEW j \in Jobs, NEW k \in Keys, NEW b \in Requests,
             CreateEvaluation(j, k, b) \/ CreateAgain(j, k, b)
      PROVE  RInv'
  BY <1>4, <1>5 DEF CreateEvaluation, CreateAgain
<1>6. ASSUME NEW j \in Jobs, CancelEvaluation(j) PROVE RInv'
  BY <1>2, <1>6 DEF CancelEvaluation, tables
<1>7. CASE Restart \/ RecoverBatch
  BY <1>2, <1>7 DEF Restart, RecoverBatch, tables
<1>8. CASE Crash
  <2>1. \A r \in Runners : run'[r] = Idle
    BY <1>8 DEF Crash
  <2> HIDE DEF Idle
  <2>2. \A r \in Runners : StoredBy(run'[r])
    BY <2>1, IdleIsStored
  <2> QED
    BY <1>2, <1>8, <2>2 DEF Crash, tables
<1>9. ASSUME NEW r \in Runners, RunnerStep(r) \/ StorageFault(r) PROVE RInv'
  BY <1>1, <1>9, QuietStores, RowStores, ClaimStores, ReserveStores, InvokeStores, CommitCaseStores,
     CommitReportStores, ResetStores, ReportCaseStores DEF RunnerStep
<1> QED
  BY <1>3, <1>5, <1>6, <1>7, <1>8, <1>9 DEF Next

\* What a reader sees of a job is stored: its progress counts stored cases,
\* cases are stored in order and judged, a report covers all of them, and a
\* succeeded job has its report (commit_case, commit_report, report_progress
\* and the last transition of run, across deaths and failing storage calls).
THEOREM ResultSafety == Spec => []ResultsAreStored
<1>1. EInv /\ RInv => ResultsAreStored
  <2> SUFFICES ASSUME EInv, RInv, NEW j \in Jobs
               PROVE  /\ cases[j] = 1..Cardinality(cases[j])
                      /\ progress[j] <= Cardinality(cases[j])
                      /\ \A c \in cases[j] : <<c, "judging">> \in attempts[j]
                      /\ report[j] => cases[j] = Cases
                      /\ Exists(j) /\ job[j].state = "succeeded" => report[j] /\ progress[j] = NCases
    BY DEF ResultsAreStored
  <2>1. ResultsOf(j)
    BY DEF RInv
  <2>2. PICK n \in 0..NCases : cases[j] = 1..n /\ progress[j] <= n
    BY <2>1 DEF ResultsOf
  <2>3. Cardinality(1..n) = n
    <3>1. n \in Int /\ n >= 0 /\ 1 \in Int
      BY <2>2, EvaluationAssumption
    <3>2. Cardinality(1..n) = IF 1 > n THEN 0 ELSE n - 1 + 1
      BY <3>1, FS_Interval
    <3> QED
      BY <3>1, <3>2
  <2> QED
    BY <2>1, <2>2, <2>3 DEF ResultsOf, Succeeded
<1> QED
  BY <1>1, EvaluationInvariant, EInvInit, EInvStep, RInvInit, RInvStep, PTL DEF Spec

-----------------------------------------------------------------------------
(* Streamed answers. *)

\* The operations that make calls, those that do so in a loop, those that count
\* what they have done, and those that start another program.
Busy == {"work", "synthesis", "query", "tokens", "subqueries", "lookup", "plan"}
Looping == {"tokens", "subqueries"}
Counting == {"synthesis", "query", "tokens", "replay", "subqueries"}
Branching == {"lookup", "plan"}

\* What every program of the thread, and every rest of one, looks like.
Fits(t, r) ==
    /\ t \in Seq(Ops)
    /\ \A i \in DOMAIN t : t[i] = "sentinel" => i = Len(t)
    /\ \A i \in DOMAIN t : t[i] = "tokens" => r # "decomposed" /\ i < Len(t) /\ t[i + 1] = "part"
    /\ \A i \in DOMAIN t : t[i] = "tokens" => \E k \in DOMAIN t : i < k /\ t[k] = "store"
    /\ \A i \in DOMAIN t : (t[i] = "lookup" => r = "query") /\ (t[i] = "plan" => r = "decomposed")
    /\ \A i, k \in DOMAIN t : t[i] = "store" /\ t[k] \in {"store"} \cup Branching => i = k
    /\ \A i, k \in DOMAIN t : i < k /\ t[i] \in Busy /\ t[k] \in Busy =>
          \E m \in DOMAIN t : i < m /\ m < k /\ t[m] = "check"

StoresNothing(t) == \A i \in DOMAIN t : t[i] \notin {"store"} \cup Branching
StoresFirst(t) == \A i \in DOMAIN t : t[i] = "done" => \E k \in DOMAIN t : k < i /\ t[k] = "store"
ChecksFirst(t) == \A i \in DOMAIN t : t[i] \in Busy => \E k \in DOMAIN t : k < i /\ t[k] = "check"

ThreadIsSound ==
    /\ Fits(todo, request)
    /\ stored \in {0, 1}
    /\ stored = 1 => StoresNothing(todo)
    /\ request = "session" /\ stored = 0 => StoresFirst(todo)
    /\ partial => /\ cancel /\ request # "decomposed" /\ stored = 0
                  /\ todo = <<>> \/ Head(todo) \in {"part", "sentinel"}

\* A thread that made a call too late is still in the operation of that call, or
\* meets a poll of the event before the next one.
StillIn(op) ==
    /\ todo # <<>> /\ Head(todo) = op
    /\ IF op \in Looping THEN late[op] + flight <= Calls[op] ELSE late[op] <= rounds

CallsAreBounded ==
    /\ rounds \in Nat /\ flight \in Nat /\ late \in [DOMAIN Calls -> Nat]
    /\ rounds # 0 => todo # <<>> /\ Head(todo) \in Counting
    /\ todo # <<>> /\ Head(todo) \in {"work", "synthesis", "query"} => rounds < Calls[Head(todo)]
    /\ flight # 0 => todo # <<>> /\ Head(todo) \in Looping /\ flight <= Calls[Head(todo)]
    /\ \A op \in DOMAIN Calls : late[op] > 0 =>
          /\ cancel /\ late[op] <= Calls[op]
          /\ \A other \in DOMAIN Calls : late[other] > 0 => other = op
          /\ ChecksFirst(todo) \/ StillIn(op)

\* A "done" on its way to the client of a session comes after its turn.
Kept == request = "session" => stored = 1
DoneIsKept ==
    /\ "done" \in {hand, taken, last} => Kept
    /\ \A i \in DOMAIN posted : posted[i] = "done" => Kept
    /\ \A i \in DOMAIN queue : queue[i] = "done" => Kept

GeneratorIsSound ==
    /\ gen \in {"loop", "send"} => last \notin Terminal
    /\ gen = "send" => taken \in {"part", "done", "error"}
    /\ gen = "yielded" => last = taken
    /\ gen \notin {"finally", "ended"} => outcome = "interrupted"
    /\ gen # "ended" => recorded = <<>>
    /\ gen = "ended" => cancel /\ Len(recorded) <= 1 /\ \A i \in DOMAIN recorded : recorded[i] = outcome
    /\ outcome = "succeeded" => last = "done"
    /\ outcome = "failed" => last = "error"
    /\ gen \in {"finally", "ended"} /\ outcome = "interrupted" /\ connected => last \notin Terminal

StreamInv == StreamTypeOK /\ ThreadIsSound /\ CallsAreBounded /\ DoneIsKept /\ GeneratorIsSound

-----------------------------------------------------------------------------
(* The programs. *)

Joins(s, t, u) ==
    /\ Len(u) = Len(s) + Len(t)
    /\ \A i \in 1..Len(s) : u[i] = s[i]
    /\ \A i \in 1..Len(t) : u[Len(s) + i] = t[i]

LEMMA Joined ==
    ASSUME NEW s \in Seq(Ops), NEW t \in Seq(Ops), NEW u \in Seq(Ops), Joins(s, t, u)
    PROVE  s \o t = u
<1>1. /\ s \o t \in Seq(Ops) /\ Len(s \o t) = Len(u)
      /\ \A i \in 1..Len(s) + Len(t) : (s \o t)[i] = IF i <= Len(s) THEN s[i] ELSE t[i - Len(s)]
  BY ConcatProperties DEF Joins
<1>2. ASSUME NEW i \in 1..Len(u) PROVE (s \o t)[i] = u[i]
  <2>1. CASE i <= Len(s)
    BY <1>1, <2>1 DEF Joins
  <2>2. CASE i > Len(s)
    <3>1. i - Len(s) \in 1..Len(t) /\ Len(s) + (i - Len(s)) = i
      BY <2>2 DEF Joins
    <3> QED
      BY <1>1, <2>2, <3>1 DEF Joins
  <2> QED
    BY <2>1, <2>2, LenProperties DEF Joins
<1> QED
  BY <1>1, <1>2, SeqEqual

LEMMA PreparationIs ==
    Preparation = <<"check", "part", "work", "part", "check", "part", "work", "part", "check">>
<1> DEFINE a == <<"check">>
           s == <<"part", "work", "part">>
           t == <<"check", "part", "work", "part">>
           u == <<"check", "part", "work", "part", "check">>
           v == <<"check", "part", "work", "part", "check", "part", "work", "part">>
           w == <<"check", "part", "work", "part", "check", "part", "work", "part", "check">>
<1>1. a \in Seq(Ops) /\ s \in Seq(Ops) /\ t \in Seq(Ops) /\ u \in Seq(Ops) /\ v \in Seq(Ops) /\ w \in Seq(Ops)
  BY DEF Ops
<1>2. Joins(a, s, t) /\ Joins(t, a, u) /\ Joins(u, s, v) /\ Joins(v, a, w)
  BY DEF Joins
<1>3. Preparation = a \o s \o a \o s \o a
  BY DEF Preparation, Stage
<1> HIDE DEF a, s, t, u, v, w
<1>4. Preparation = w
  BY <1>1, <1>2, <1>3, Joined
<1> QED
  BY <1>4 DEF w

\* The program of a plain query without a session, up to the cache.
LEMMA QueryProgram ==
    LET t == Program("query") \o <<"sentinel">>
    IN  Fits(t, "query")
<1> DEFINE a == <<"check", "part", "work", "part", "check", "part", "work", "part", "check">>
           b == <<"part", "lookup">>
           z == <<"sentinel">>
           ab == <<"check", "part", "work", "part", "check", "part", "work", "part", "check", "part", "lookup">>
           abz == <<"check", "part", "work", "part", "check", "part", "work", "part", "check", "part", "lookup",
                    "sentinel">>
<1>1. a \in Seq(Ops) /\ b \in Seq(Ops) /\ z \in Seq(Ops) /\ ab \in Seq(Ops) /\ abz \in Seq(Ops)
  BY DEF Ops
<1>2. Joins(a, b, ab) /\ Joins(ab, z, abz)
  BY DEF Joins
<1>3. Program("query") \o <<"sentinel">> = a \o b \o z
  BY PreparationIs DEF Program
<1>4. Fits(abz, "query")
  BY DEF Fits, Ops, Busy, Branching
<1> HIDE DEF a, b, z, ab, abz
<1> QED
  BY <1>1, <1>2, <1>3, <1>4, Joined

\* That of a session, which has no cache.
LEMMA SessionProgram ==
    LET t == Program("session") \o <<"sentinel">>
    IN  Fits(t, "session") /\ StoresFirst(t)
<1> DEFINE a == <<"check", "part", "work", "part", "check", "part", "work", "part", "check">>
           s == <<"part", "work", "part">>
           c == <<"check", "part", "part", "tokens", "part", "check", "store", "done">>
           z == <<"sentinel">>
           sc == <<"part", "work", "part", "check", "part", "part", "tokens", "part", "check", "store", "done">>
           asc == <<"check", "part", "work", "part", "check", "part", "work", "part", "check",
                    "part", "work", "part", "check", "part", "part", "tokens", "part", "check", "store", "done">>
           t == <<"check", "part", "work", "part", "check", "part", "work", "part", "check",
                  "part", "work", "part", "check", "part", "part", "tokens", "part", "check", "store", "done",
                  "sentinel">>
<1>1. /\ a \in Seq(Ops) /\ s \in Seq(Ops) /\ c \in Seq(Ops) /\ z \in Seq(Ops)
      /\ sc \in Seq(Ops) /\ asc \in Seq(Ops) /\ t \in Seq(Ops)
  BY DEF Ops
<1>2. Joins(s, c, sc) /\ Joins(a, sc, asc) /\ Joins(asc, z, t)
  BY DEF Joins
<1>3. Program("session") \o <<"sentinel">> = a \o (s \o c) \o z
  BY PreparationIs DEF Program, Answer, Stage
<1>4. Fits(t, "session")
  BY DEF Fits, Ops, Busy, Branching
<1>5. StoresFirst(t)
  BY DEF StoresFirst
<1> HIDE DEF a, s, c, z, sc, asc, t
<1>6. s \o c = sc /\ a \o sc = asc /\ asc \o z = t
  BY <1>1, <1>2, Joined
<1>7. Program("session") \o <<"sentinel">> = t
  BY <1>3, <1>6 DEF z
<1> QED
  BY <1>4, <1>5, <1>7

\* What follows a hit, or a miss, of the cache.
LEMMA HitProgram ==
    LET t == <<"part">> \o CacheHit \o <<"sentinel">>
    IN  Fits(t, "query")
<1> DEFINE a == <<"part">>
           b == <<"part", "part", "part", "part", "replay", "part", "done">>
           z == <<"sentinel">>
           ab == <<"part", "part", "part", "part", "part", "replay", "part", "done">>
           t == <<"part", "part", "part", "part", "part", "replay", "part", "done", "sentinel">>
<1>1. a \in Seq(Ops) /\ b \in Seq(Ops) /\ z \in Seq(Ops) /\ ab \in Seq(Ops) /\ t \in Seq(Ops)
  BY DEF Ops
<1>2. Joins(a, b, ab) /\ Joins(ab, z, t)
  BY DEF Joins
<1>3. CacheHit = b
  BY DEF CacheHit
<1>4. Fits(t, "query")
  BY DEF Fits, Ops, Busy, Branching
<1> HIDE DEF a, b, z, ab, t
<1>5. <<"part">> \o CacheHit \o <<"sentinel">> = t
  BY <1>1, <1>2, <1>3, Joined DEF a, z
<1> QED
  BY <1>4, <1>5

LEMMA MissProgram ==
    LET t == <<"part">> \o Answer \o <<"sentinel">>
    IN  Fits(t, "query")
<1> DEFINE a == <<"part">>
           s == <<"part", "work", "part">>
           c == <<"check", "part", "part", "tokens", "part", "check", "store", "done">>
           z == <<"sentinel">>
           sc == <<"part", "work", "part", "check", "part", "part", "tokens", "part", "check", "store", "done">>
           asc == <<"part", "part", "work", "part", "check", "part", "part", "tokens", "part", "check", "store",
                    "done">>
           t == <<"part", "part", "work", "part", "check", "part", "part", "tokens", "part", "check", "store",
                  "done", "sentinel">>
<1>1. /\ a \in Seq(Ops) /\ s \in Seq(Ops) /\ c \in Seq(Ops) /\ z \in Seq(Ops)
      /\ sc \in Seq(Ops) /\ asc \in Seq(Ops) /\ t \in Seq(Ops)
  BY DEF Ops
<1>2. Joins(s, c, sc) /\ Joins(a, sc, asc) /\ Joins(asc, z, t)
  BY DEF Joins
<1>3. Answer = s \o c
  BY DEF Answer, Stage
<1>4. Fits(t, "query")
  BY DEF Fits, Ops, Busy, Branching
<1> HIDE DEF a, s, c, z, sc, asc, t
<1>5. s \o c = sc /\ a \o sc = asc /\ asc \o z = t
  BY <1>1, <1>2, Joined
<1>6. <<"part">> \o Answer \o <<"sentinel">> = t
  BY <1>3, <1>5 DEF a, z
<1> QED
  BY <1>4, <1>6

\* The decomposed route, up to its plan.
LEMMA DecomposedProgram ==
    LET t == Program("decomposed") \o <<"sentinel">>
    IN  Fits(t, "decomposed")
<1> DEFINE a == <<"check">>
           s == <<"part", "work", "part">>
           c == <<"check", "plan">>
           z == <<"sentinel">>
           as == <<"check", "part", "work", "part">>
           asc == <<"check", "part", "work", "part", "check", "plan">>
           t == <<"check", "part", "work", "part", "check", "plan", "sentinel">>
<1>1. /\ a \in Seq(Ops) /\ s \in Seq(Ops) /\ c \in Seq(Ops) /\ z \in Seq(Ops)
      /\ as \in Seq(Ops) /\ asc \in Seq(Ops) /\ t \in Seq(Ops)
  BY DEF Ops
<1>2. Joins(a, s, as) /\ Joins(as, c, asc) /\ Joins(asc, z, t)
  BY DEF Joins
<1>3. Program("decomposed") \o <<"sentinel">> = a \o s \o c \o z
  BY DEF Program, Decomposition, Stage
<1>4. Fits(t, "decomposed")
  BY DEF Fits, Ops, Busy, Branching
<1> HIDE DEF a, s, c, z, as, asc, t
<1>5. Program("decomposed") \o <<"sentinel">> = t
  BY <1>1, <1>2, <1>3, Joined
<1> QED
  BY <1>4, <1>5

\* What follows each plan.
LEMMA PlannedPrograms ==
    ASSUME NEW rest \in Plans
    PROVE  Fits(rest \o Delivery \o <<"sentinel">>, "decomposed")
<1> DEFINE d == <<"check", "part", "replay", "done">>
           z == <<"sentinel">>
<1>1. Delivery = d /\ d \in Seq(Ops) /\ z \in Seq(Ops)
  BY DEF Delivery, Ops
<1>2. CASE rest = <<"query", "store">>
  <2> DEFINE a == <<"query", "store">>
             u == <<"query", "store", "check", "part", "replay", "done">>
             t == <<"query", "store", "check", "part", "replay", "done", "sentinel">>
  <2>1. a \in Seq(Ops) /\ u \in Seq(Ops) /\ t \in Seq(Ops)
    BY DEF Ops
  <2>2. Joins(a, d, u) /\ Joins(u, z, t)
    BY DEF Joins
  <2>3. Fits(t, "decomposed")
    BY DEF Fits, Ops, Busy, Branching
  <2> HIDE DEF a, d, u, z, t
  <2>4. rest \o Delivery \o z = t
    BY <1>1, <1>2, <2>1, <2>2, Joined DEF a
  <2> QED
    BY <2>3, <2>4 DEF z
<1>3. CASE rest = <<"query">>
  <2> DEFINE a == <<"query">>
             u == <<"query", "check", "part", "replay", "done">>
             t == <<"query", "check", "part", "replay", "done", "sentinel">>
  <2>1. a \in Seq(Ops) /\ u \in Seq(Ops) /\ t \in Seq(Ops)
    BY DEF Ops
  <2>2. Joins(a, d, u) /\ Joins(u, z, t)
    BY DEF Joins
  <2>3. Fits(t, "decomposed")
    BY DEF Fits, Ops, Busy, Branching
  <2> HIDE DEF a, d, u, z, t
  <2>4. rest \o Delivery \o z = t
    BY <1>1, <1>3, <2>1, <2>2, Joined DEF a
  <2> QED
    BY <2>3, <2>4 DEF z
<1>4. CASE rest = Retrieval
  <2> DEFINE a == <<"part", "subqueries", "check", "part">>
             u == <<"part", "subqueries", "check", "part", "check", "part", "replay", "done">>
             t == <<"part", "subqueries", "check", "part", "check", "part", "replay", "done", "sentinel">>
  <2>1. a \in Seq(Ops) /\ u \in Seq(Ops) /\ t \in Seq(Ops)
    BY DEF Ops
  <2>2. Joins(a, d, u) /\ Joins(u, z, t)
    BY DEF Joins
  <2>3. Fits(t, "decomposed")
    BY DEF Fits, Ops, Busy, Branching
  <2> HIDE DEF a, d, u, z, t
  <2>4. rest \o Delivery \o z = t
    BY <1>1, <1>4, <2>1, <2>2, Joined DEF a, Retrieval
  <2> QED
    BY <2>3, <2>4 DEF z
<1>5. CASE rest = Retrieval \o <<"part", "synthesis", "check", "part">>
  <2> DEFINE a == <<"part", "subqueries", "check", "part">>
             b == <<"part", "synthesis", "check", "part">>
             ab == <<"part", "subqueries", "check", "part", "part", "synthesis", "check", "part">>
             u == <<"part", "subqueries", "check", "part", "part", "synthesis", "check", "part",
                    "check", "part", "replay", "done">>
             t == <<"part", "subqueries", "check", "part", "part", "synthesis", "check", "part",
                    "check", "part", "replay", "done", "sentinel">>
  <2>1. a \in Seq(Ops) /\ b \in Seq(Ops) /\ ab \in Seq(Ops) /\ u \in Seq(Ops) /\ t \in Seq(Ops)
    BY DEF Ops
  <2>2. Joins(a, b, ab) /\ Joins(ab, d, u) /\ Joins(u, z, t)
    BY DEF Joins
  <2>3. Fits(t, "decomposed")
    BY DEF Fits, Ops, Busy, Branching
  <2> HIDE DEF a, b, ab, d, u, z, t
  <2>4. a \o b = ab /\ ab \o d = u /\ u \o z = t
    BY <1>1, <2>1, <2>2, Joined
  <2>5. rest = a \o b
    BY <1>5 DEF a, b, Retrieval
  <2>6. rest \o Delivery \o z = t
    BY <1>1, <2>4, <2>5
  <2> QED
    BY <2>3, <2>6 DEF z
<1> QED
  BY <1>2, <1>3, <1>4, <1>5 DEF Plans

-----------------------------------------------------------------------------
(* The thread. *)

LEMMA TailIs ==
    ASSUME NEW t \in Seq(Ops), t # <<>>
    PROVE  /\ Len(t) \in Nat \ {0} /\ Head(t) = t[1] /\ 1 \in DOMAIN t /\ DOMAIN t = 1..Len(t)
           /\ Tail(t) \in Seq(Ops) /\ Len(Tail(t)) = Len(t) - 1 /\ DOMAIN Tail(t) = 1..(Len(t) - 1)
           /\ \A i \in 1..(Len(t) - 1) : Tail(t)[i] = t[i + 1]
           /\ Len(t) = 1 => Tail(t) = <<>>
<1>1. Len(t) \in Nat \ {0} /\ Head(t) = t[1] /\ DOMAIN t = 1..Len(t)
  BY HeadTailProperties, EmptySeq, LenProperties
<1>2. Tail(t) \in Seq(Ops) /\ Len(Tail(t)) = Len(t) - 1 /\ \A i \in 1..(Len(t) - 1) : Tail(t)[i] = t[i + 1]
  BY <1>1, HeadTailProperties
<1>3. DOMAIN Tail(t) = 1..(Len(t) - 1)
  BY <1>2, LenProperties
<1>4. ASSUME Len(t) = 1 PROVE Tail(t) = <<>>
  <2>1. Len(Tail(t)) = 0
    BY <1>2, <1>4
  <2> QED
    BY <1>2, <2>1, EmptySeq
<1> QED
  BY <1>1, <1>2, <1>3, <1>4

\* What the rest of a program keeps.
LEMMA Advance ==
    ASSUME NEW r \in Routes, NEW t, Fits(t, r), t # <<>>
    PROVE  /\ Fits(Tail(t), r)
           /\ StoresNothing(t) => StoresNothing(Tail(t)) /\ Head(t) \notin {"store"} \cup Branching
           /\ Head(t) = "store" => StoresNothing(Tail(t))
           /\ StoresFirst(t) /\ Head(t) # "store" => StoresFirst(Tail(t))
           /\ StoresFirst(t) => Head(t) # "done"
           /\ ChecksFirst(t) /\ Head(t) # "check" => ChecksFirst(Tail(t))
           /\ ChecksFirst(t) => Head(t) \notin Busy
           /\ Head(t) \in Busy => ChecksFirst(Tail(t))
           /\ Head(t) = "sentinel" => Tail(t) = <<>>
           /\ Head(t) = "tokens" => r # "decomposed" /\ ~StoresNothing(t) /\ Tail(t) # <<>> /\ Head(Tail(t)) = "part"
           /\ Head(t) = "lookup" => r = "query"
           /\ Head(t) = "plan" => r = "decomposed"
<1> DEFINE u == Tail(t)
<1>1. t \in Seq(Ops)
  BY DEF Fits
<1>2. /\ Len(t) \in Nat \ {0} /\ Head(t) = t[1] /\ 1 \in DOMAIN t /\ DOMAIN t = 1..Len(t)
      /\ u \in Seq(Ops) /\ Len(u) = Len(t) - 1 /\ DOMAIN u = 1..(Len(t) - 1)
      /\ \A i \in 1..(Len(t) - 1) : u[i] = t[i + 1]
      /\ Len(t) = 1 => u = <<>>
  BY <1>1, TailIs
<1>3. u # <<>> => Head(u) = u[1] /\ 1 \in DOMAIN u
  BY <1>2, TailIs
<1> HIDE DEF u
<1>4. /\ \A i \in DOMAIN u : i + 1 \in DOMAIN t /\ u[i] = t[i + 1]
      /\ \A k \in DOMAIN t : k > 1 => k - 1 \in DOMAIN u /\ u[k - 1] = t[k]
  BY <1>2
<1>5. Fits(u, r)
  <2>1. \A i \in DOMAIN u : u[i] = "sentinel" => i = Len(u)
    BY <1>2, <1>4 DEF Fits
  <2>2. \A i \in DOMAIN u : u[i] = "tokens" => r # "decomposed" /\ i < Len(u) /\ u[i + 1] = "part"
    <3> SUFFICES ASSUME NEW i \in DOMAIN u, u[i] = "tokens"
                 PROVE  r # "decomposed" /\ i < Len(u) /\ u[i + 1] = "part"
      OBVIOUS
    <3>1. t[i + 1] = "tokens" /\ i + 1 \in DOMAIN t
      BY <1>4
    <3>2. r # "decomposed" /\ i + 1 < Len(t) /\ t[i + 2] = "part"
      BY <1>2, <3>1 DEF Fits
    <3> QED
      BY <1>2, <3>2
  <2>3. \A i \in DOMAIN u : u[i] = "tokens" => \E k \in DOMAIN u : i < k /\ u[k] = "store"
    <3> SUFFICES ASSUME NEW i \in DOMAIN u, u[i] = "tokens"
                 PROVE  \E k \in DOMAIN u : i < k /\ u[k] = "store"
      OBVIOUS
    <3>1. PICK k \in DOMAIN t : i + 1 < k /\ t[k] = "store"
      BY <1>4 DEF Fits
    <3> QED
      BY <1>2, <1>4, <3>1
  <2>4. \A i \in DOMAIN u : (u[i] = "lookup" => r = "query") /\ (u[i] = "plan" => r = "decomposed")
    BY <1>4 DEF Fits
  <2>5. \A i, k \in DOMAIN u : u[i] = "store" /\ u[k] \in {"store"} \cup Branching => i = k
    <3> SUFFICES ASSUME NEW i \in DOMAIN u, NEW k \in DOMAIN u, u[i] = "store", u[k] \in {"store"} \cup Branching
                 PROVE  i = k
      OBVIOUS
    <3>1. i + 1 = k + 1
      BY <1>4 DEF Fits
    <3> QED
      BY <1>2, <3>1
  <2>6. ASSUME NEW i \in DOMAIN u, NEW k \in DOMAIN u, i < k, u[i] \in Busy, u[k] \in Busy
        PROVE  \E m \in DOMAIN u : i < m /\ m < k /\ u[m] = "check"
    <3>1. i + 1 < k + 1 /\ i + 1 > 1 /\ i \in Int /\ k \in Int
      BY <1>2, <2>6
    <3>2. PICK m \in DOMAIN t : i + 1 < m /\ m < k + 1 /\ t[m] = "check"
      BY <1>4, <2>6, <3>1 DEF Fits
    <3>3. m - 1 \in DOMAIN u /\ u[m - 1] = "check" /\ i < m - 1 /\ m - 1 < k
      BY <1>2, <1>4, <3>1, <3>2
    <3> QED
      BY <3>3
  <2> QED
    BY <1>2, <2>1, <2>2, <2>3, <2>4, <2>5, <2>6 DEF Fits
<1>6. /\ StoresNothing(t) => StoresNothing(u) /\ Head(t) \notin {"store"} \cup Branching
      /\ Head(t) = "store" => StoresNothing(u)
  <2>1. StoresNothing(t) => StoresNothing(u) /\ Head(t) \notin {"store"} \cup Branching
    BY <1>2, <1>4 DEF StoresNothing
  <2>2. ASSUME Head(t) = "store", NEW i \in DOMAIN u, u[i] \in {"store"} \cup Branching
        PROVE  FALSE
    <3>1. i + 1 = 1
      BY <1>2, <1>4, <2>2 DEF Fits
    <3> QED
      BY <1>2, <3>1
  <2> QED
    BY <2>1, <2>2 DEF StoresNothing
<1>7. /\ StoresFirst(t) /\ Head(t) # "store" => StoresFirst(u)
      /\ StoresFirst(t) => Head(t) # "done"
  <2>1. ASSUME StoresFirst(t), Head(t) # "store", NEW i \in DOMAIN u, u[i] = "done"
        PROVE  \E k \in DOMAIN u : k < i /\ u[k] = "store"
    <3>1. PICK k \in DOMAIN t : k < i + 1 /\ t[k] = "store"
      BY <1>4, <2>1 DEF StoresFirst
    <3> QED
      BY <1>2, <1>4, <2>1, <3>1
  <2>2. ASSUME StoresFirst(t), Head(t) = "done"
        PROVE  FALSE
    BY <1>2, <2>2 DEF StoresFirst
  <2> QED
    BY <2>1, <2>2 DEF StoresFirst
<1>8. /\ ChecksFirst(t) /\ Head(t) # "check" => ChecksFirst(u)
      /\ ChecksFirst(t) => Head(t) \notin Busy
      /\ Head(t) \in Busy => ChecksFirst(u)
  <2>1. ASSUME ChecksFirst(t), Head(t) # "check", NEW i \in DOMAIN u, u[i] \in Busy
        PROVE  \E k \in DOMAIN u : k < i /\ u[k] = "check"
    <3>1. PICK k \in DOMAIN t : k < i + 1 /\ t[k] = "check"
      BY <1>4, <2>1 DEF ChecksFirst
    <3> QED
      BY <1>2, <1>4, <2>1, <3>1
  <2>2. ASSUME ChecksFirst(t), Head(t) \in Busy
        PROVE  FALSE
    BY <1>2, <2>2 DEF ChecksFirst
  <2>3. ASSUME Head(t) \in Busy, NEW i \in DOMAIN u, u[i] \in Busy
        PROVE  \E k \in DOMAIN u : k < i /\ u[k] = "check"
    <3>1. 1 < i + 1 /\ i \in Int /\ i + 1 \in DOMAIN t /\ t[i + 1] \in Busy /\ t[1] \in Busy
      BY <1>2, <1>4, <2>3
    <3>2. PICK m \in DOMAIN t : 1 < m /\ m < i + 1 /\ t[m] = "check"
      BY <1>2, <3>1 DEF Fits
    <3>3. m - 1 \in DOMAIN u /\ u[m - 1] = "check" /\ m - 1 < i
      BY <1>2, <1>4, <3>1, <3>2
    <3> QED
      BY <3>3
  <2> QED
    BY <2>1, <2>2, <2>3 DEF ChecksFirst
<1>9. /\ Head(t) = "sentinel" => u = <<>>
      /\ Head(t) = "tokens" => r # "decomposed" /\ ~StoresNothing(t) /\ u # <<>> /\ Head(u) = "part"
      /\ Head(t) = "lookup" => r = "query"
      /\ Head(t) = "plan" => r = "decomposed"
  <2>1. Head(t) = "sentinel" => u = <<>>
    BY <1>2 DEF Fits
  <2>2. ASSUME Head(t) = "tokens"
        PROVE  r # "decomposed" /\ ~StoresNothing(t) /\ u # <<>> /\ Head(u) = "part"
    <3>1. r # "decomposed" /\ 1 < Len(t) /\ t[2] = "part" /\ ~StoresNothing(t)
      BY <1>2, <2>2 DEF Fits, StoresNothing
    <3>2. Len(u) # 0 /\ u[1] = "part"
      BY <1>2, <3>1
    <3>3. u # <<>>
      BY <3>2, EmptySeq
    <3> QED
      BY <1>3, <3>1, <3>2, <3>3
  <2>3. (Head(t) = "lookup" => r = "query") /\ (Head(t) = "plan" => r = "decomposed")
    BY <1>2 DEF Fits
  <2> QED
    BY <2>1, <2>2, <2>3
<1> QED
  BY <1>5, <1>6, <1>7, <1>8, <1>9 DEF u

Leaving == {<<"sentinel">>, <<"error", "sentinel">>, <<"part", "error", "sentinel">>}

\* A thread that leaves stores nothing and calls nothing.
LEMMA Quitting ==
    ASSUME NEW r \in Routes, NEW t \in Leaving
    PROVE  /\ Fits(t, r) /\ StoresNothing(t) /\ StoresFirst(t) /\ ChecksFirst(t)
           /\ t # <<>>
           /\ t = <<"sentinel">> => Head(t) = "sentinel"
<1>1. CASE t = <<"sentinel">>
  BY <1>1 DEF Fits, StoresNothing, StoresFirst, ChecksFirst, Ops, Busy, Branching
<1>2. CASE t = <<"error", "sentinel">>
  BY <1>2 DEF Fits, StoresNothing, StoresFirst, ChecksFirst, Ops, Busy, Branching
<1>3. CASE t = <<"part", "error", "sentinel">>
  BY <1>3 DEF Fits, StoresNothing, StoresFirst, ChecksFirst, Ops, Busy, Branching
<1> QED
  BY <1>1, <1>2, <1>3 DEF Leaving
\* What a step of the thread leaves alone: the event, the route, the answers
\* that are stored.
Quiet == UNCHANGED <<request, stored, cancel>>
StaysSound == ThreadIsSound' /\ stored' \in Nat /\ todo' \in Seq(Ops)

LEMMA ThreadAdvances ==
    ASSUME StreamTypeOK, ThreadIsSound, todo # <<>>, todo' = Tail(todo), Quiet,
           partial' = partial, partial => Head(todo) = "sentinel", Head(todo) # "store"
    PROVE  StaysSound
<1>1. request \in Routes /\ Fits(todo, request)
  BY DEF StreamTypeOK, ThreadIsSound
<1> DEFINE u == Tail(todo)
<1>2. /\ Fits(u, request)
      /\ StoresNothing(todo) => StoresNothing(u)
      /\ StoresFirst(todo) => StoresFirst(u)
      /\ Head(todo) = "sentinel" => u = <<>>
  BY <1>1, Advance
<1>3. todo' = u
  OBVIOUS
<1> HIDE DEF u
<1>4. partial' => cancel' /\ request' # "decomposed" /\ stored' = 0 /\ todo' = <<>>
  BY <1>2, <1>3 DEF ThreadIsSound, Quiet
<1>5. Fits(todo', request') /\ stored' \in {0, 1} /\ (stored' = 1 => StoresNothing(todo'))
      /\ (request' = "session" /\ stored' = 0 => StoresFirst(todo'))
  BY <1>2, <1>3 DEF ThreadIsSound, Quiet
<1>6. ThreadIsSound'
  BY <1>4, <1>5 DEF ThreadIsSound
<1> QED
  BY <1>5, <1>6 DEF Fits, StaysSound

LEMMA ThreadLeaves ==
    ASSUME StreamTypeOK, ThreadIsSound, todo' \in Leaving, Quiet, partial' = partial,
           cancel => todo' = <<"sentinel">>
    PROVE  StaysSound
<1>1. request \in Routes
  BY DEF StreamTypeOK
<1>2. PICK u \in Leaving : todo' = u
  OBVIOUS
<1>3. /\ Fits(u, request) /\ StoresNothing(u) /\ StoresFirst(u)
      /\ u # <<>> /\ (u = <<"sentinel">> => Head(u) = "sentinel")
  BY <1>1, Quitting
<1>4. partial => Head(u) = "sentinel"
  BY <1>2, <1>3 DEF ThreadIsSound
<1>5. Fits(todo', request') /\ stored' \in {0, 1} /\ StoresNothing(todo') /\ StoresFirst(todo')
  BY <1>2, <1>3 DEF ThreadIsSound, Quiet
<1>6. partial' => cancel' /\ request' # "decomposed" /\ stored' = 0 /\ Head(todo') = "sentinel"
  BY <1>2, <1>4 DEF ThreadIsSound, Quiet
<1>7. ThreadIsSound'
  BY <1>5, <1>6 DEF ThreadIsSound
<1> QED
  BY <1>5, <1>7 DEF Fits, StaysSound

LEMMA ThreadStays ==
    ASSUME StreamTypeOK, ThreadIsSound, UNCHANGED <<request, todo, partial, stored>>, cancel => cancel'
    PROVE  StaysSound
<1>1. ThreadIsSound'
  BY DEF ThreadIsSound
<1> QED
  BY <1>1 DEF StreamTypeOK, StaysSound

LEMMA CallsAre ==
    /\ DOMAIN Calls = {"work", "synthesis", "query", "tokens", "subqueries"}
    /\ \A op \in DOMAIN Calls : Calls[op] \in Nat \ {0}
    /\ Calls["work"] = 1 /\ Calls["tokens"] = 1 /\ Calls["subqueries"] = MaxWorkers
BY StreamAssumption DEF Calls

\* A program after which no call is made without a poll: the rest of one whose
\* first operation makes calls, or was no poll, and one that leaves.
LEMMA CallsEndWith ==
    ASSUME StreamTypeOK, ThreadIsSound, CallsAreBounded,
           todo' \in Leaving \/ (todo # <<>> /\ todo' = Tail(todo) /\ (Head(todo) = "check" => ~cancel)),
           rounds' = 0, flight' = 0, late' = late, cancel' = cancel
    PROVE  CallsAreBounded'
<1>1. request \in Routes /\ Fits(todo, request)
  BY DEF StreamTypeOK, ThreadIsSound
<1>2. ASSUME NEW op \in DOMAIN Calls, late[op] > 0
      PROVE  ChecksFirst(todo')
  <2>1. CASE todo' \in Leaving
    BY <1>1, <2>1, Quitting
  <2>2. CASE todo # <<>> /\ todo' = Tail(todo) /\ (Head(todo) = "check" => ~cancel)
    <3>1. Head(todo) # "check" /\ (ChecksFirst(todo) \/ Head(todo) = op)
      BY <1>2, <2>2 DEF CallsAreBounded, StillIn
    <3>2. op \in Busy
      BY CallsAre DEF Busy
    <3>3. /\ ChecksFirst(todo) /\ Head(todo) # "check" => ChecksFirst(Tail(todo))
          /\ Head(todo) \in Busy => ChecksFirst(Tail(todo))
      BY <1>1, <2>2, Advance
    <3> QED
      BY <2>2, <3>1, <3>2, <3>3
  <2> QED
    BY <2>1, <2>2
<1>3. todo' # <<>> /\ Head(todo') \in {"work", "synthesis", "query"} => rounds' < Calls[Head(todo')]
  BY CallsAre
<1> QED
  BY <1>2, <1>3 DEF CallsAreBounded

\* A program that nothing was late for.
LEMMA CallsTurn ==
    ASSUME StreamTypeOK, ThreadIsSound, CallsAreBounded, todo # <<>>, Head(todo) \in Branching,
           UNCHANGED <<rounds, flight, late, cancel>>
    PROVE  CallsAreBounded'
<1>1. ~ChecksFirst(todo)
  BY Advance DEF StreamTypeOK, ThreadIsSound, Branching, Busy
<1>2. \A op \in DOMAIN Calls : ~(late[op] > 0)
  BY <1>1, CallsAre DEF CallsAreBounded, StillIn, Branching
<1>3. rounds = 0 /\ flight = 0
  BY DEF CallsAreBounded, Counting, Looping, Branching
<1>4. todo' # <<>> /\ Head(todo') \in {"work", "synthesis", "query"} => rounds' < Calls[Head(todo')]
  BY <1>3, CallsAre
<1> QED
  BY <1>2, <1>3, <1>4 DEF CallsAreBounded

LEMMA CallsStay ==
    ASSUME CallsAreBounded, UNCHANGED <<todo, rounds, flight, late>>, cancel => cancel'
    PROVE  CallsAreBounded'
BY DEF CallsAreBounded, StillIn

\* The calls of a loop that nothing was late for yet may be one more.
LEMMA CallBeginsInBounds ==
    ASSUME CallsAreBounded, todo # <<>>, Head(todo) \in Looping, CallBegins, todo' = todo, rounds' \in Nat,
           cancel' = cancel
    PROVE  CallsAreBounded'
<1>1. \A op \in DOMAIN Calls : ~(late'[op] > 0)
  BY DEF CallsAreBounded, CallBegins
<1>2. flight' \in Nat /\ flight' <= Calls[Head(todo)]
  BY CallsAre DEF CallsAreBounded, CallBegins, Looping
<1> QED
  BY <1>1, <1>2 DEF CallsAreBounded, CallBegins, Looping, Counting

\* What a call that ends adds to those that are late.
LEMMA LateCounted ==
    ASSUME StreamInv, todo # <<>>, NEW op \in DOMAIN Calls, Head(todo) = op, CountLate
    PROVE  /\ late' \in [DOMAIN Calls -> Nat] /\ late[op] \in Nat
           /\ \A other \in DOMAIN Calls : late'[other] > 0 => other = op /\ cancel
           /\ late'[op] <= late[op] + 1
           /\ IF op \in Looping THEN late[op] + flight <= Calls[op] ELSE late[op] <= rounds
<1>1. ~ChecksFirst(todo)
  <2>1. op \in Busy
    BY CallsAre DEF Busy
  <2> QED
    BY <2>1, Advance DEF StreamInv, StreamTypeOK, ThreadIsSound
<1>2. \A other \in DOMAIN Calls : late[other] > 0 => other = op /\ cancel /\ StillIn(op)
  BY <1>1 DEF StreamInv, CallsAreBounded, StillIn
<1>3. gen = "ended" => cancel
  BY DEF StreamInv, GeneratorIsSound
<1>4. late \in [DOMAIN Calls -> Nat] /\ late' = IF gen = "ended" THEN [late EXCEPT ![op] = @ + 1] ELSE late
  BY DEF StreamInv, CallsAreBounded, CountLate
<1>5. IF op \in Looping THEN late[op] + flight <= Calls[op] ELSE late[op] <= rounds
  <2>1. CASE late[op] > 0
    BY <1>2, <2>1 DEF StillIn
  <2>2. CASE late[op] = 0
    BY <2>2, CallsAre DEF StreamInv, CallsAreBounded
  <2> QED
    BY <1>4, <2>1, <2>2
<1> QED
  BY <1>2, <1>3, <1>4, <1>5

\* A call that ends and is not the last of its operation.
LEMMA CallEndsInBounds ==
    ASSUME StreamInv, todo # <<>>, NEW op \in DOMAIN Calls, Head(todo) = op, CountLate, todo' = todo, cancel' = cancel,
           rounds' \in Nat, flight' \in Nat,
           IF op \in Looping THEN flight' = flight - 1
           ELSE flight' = flight /\ rounds' = rounds + 1 /\ rounds + 1 < Calls[op]
    PROVE  CallsAreBounded'
<1>1. /\ late' \in [DOMAIN Calls -> Nat] /\ late[op] \in Nat
      /\ \A other \in DOMAIN Calls : late'[other] > 0 => other = op /\ cancel
      /\ late'[op] <= late[op] + 1
      /\ IF op \in Looping THEN late[op] + flight <= Calls[op] ELSE late[op] <= rounds
  BY LateCounted
<1>2. /\ rounds \in Nat /\ flight \in Nat /\ Calls[op] \in Nat /\ late'[op] \in Nat
      /\ flight # 0 => op \in Looping /\ flight <= Calls[op]
  BY <1>1, CallsAre DEF StreamInv, CallsAreBounded
<1>3. late'[op] <= Calls[op] /\ IF op \in Looping THEN late'[op] + flight' <= Calls[op] ELSE late'[op] <= rounds'
  BY <1>1, <1>2
<1>4. op \in Counting
  <2>1. op # "work"
    BY <1>2, CallsAre DEF Looping
  <2> QED
    BY <2>1, CallsAre DEF Counting
<1>5. flight' # 0 => op \in Looping /\ flight' <= Calls[op]
  BY <1>2
<1>6. op \in {"work", "synthesis", "query"} => rounds' < Calls[op]
  BY DEF Looping
<1>7. StillIn(op)'
  BY <1>3 DEF StillIn
<1> QED
  BY <1>1, <1>3, <1>4, <1>5, <1>6, <1>7 DEF CallsAreBounded

\* A call that ends and is the last of its operation.
LEMMA LastCallInBounds ==
    ASSUME StreamInv, todo # <<>>, NEW op \in DOMAIN Calls, Head(todo) = op, CountLate, cancel' = cancel,
           todo' \in Leaving \/ todo' = Tail(todo), rounds' = 0, flight' = 0,
           op \in Looping => flight = 1
    PROVE  CallsAreBounded'
<1>1. /\ late' \in [DOMAIN Calls -> Nat] /\ late[op] \in Nat
      /\ \A other \in DOMAIN Calls : late'[other] > 0 => other = op /\ cancel
      /\ late'[op] <= late[op] + 1
      /\ IF op \in Looping THEN late[op] + flight <= Calls[op] ELSE late[op] <= rounds
  BY LateCounted
<1>2. op \notin Looping => rounds \in Nat /\ rounds < Calls[op]
  BY CallsAre DEF StreamInv, CallsAreBounded, Looping
<1>3. late'[op] <= Calls[op]
  BY <1>1, <1>2, CallsAre
<1>4. ChecksFirst(todo')
  <2>1. request \in Routes /\ Fits(todo, request) /\ op \in Busy
    BY CallsAre DEF StreamInv, StreamTypeOK, ThreadIsSound, Busy
  <2> QED
    BY <2>1, Advance, Quitting
<1>5. todo' # <<>> /\ Head(todo') \in {"work", "synthesis", "query"} => rounds' < Calls[Head(todo')]
  BY CallsAre
<1> QED
  BY <1>1, <1>3, <1>4, <1>5 DEF CallsAreBounded

\* A step of the thread does not meet the generator.
LEMMA LoopWaits ==
    ASSUME StreamInv, UNCHANGED <<request, gen, taken, last, outcome, recorded, queue, connected, expired, cancel>>,
           StaysSound, CallsAreBounded',
           hand' \in Event \cup {Nothing}, partial' \in BOOLEAN, posted' \in Seq(Event),
           stored' \in {stored, 1},
           hand' = "done" => hand = "done" \/ Kept',
           \A i \in DOMAIN posted' : posted'[i] = "done" => hand = "done" \/ \E k \in DOMAIN posted : posted[k] = "done"
    PROVE  StreamInv'
<1>1. StreamTypeOK'
  BY DEF StreamInv, StreamTypeOK, StaysSound, CallsAreBounded
<1>2. GeneratorIsSound'
  BY DEF StreamInv, GeneratorIsSound
<1>3. Kept => Kept'
  BY DEF StreamInv, Kept, ThreadIsSound
<1>4. DoneIsKept'
  BY <1>3 DEF StreamInv, DoneIsKept
<1> QED
  BY <1>1, <1>2, <1>4 DEF StreamInv, StaysSound

LEMMA HeadIs ==
    ASSUME StreamTypeOK, todo # <<>>
    PROVE  Head(todo) \in Ops
BY TailIs DEF StreamTypeOK

LEMMA Raised ==
    ASSUME Raises(InStage) \/ Raises(NoStage)
    PROVE  todo' \in Leaving /\ (cancel => todo' = <<"sentinel">>)
<1> DEFINE a == <<"part">>
           e == <<"error", "sentinel">>
           u == <<"part", "error", "sentinel">>
<1>1. a \in Seq(Ops) /\ e \in Seq(Ops) /\ u \in Seq(Ops) /\ Joins(a, e, u)
  BY DEF Ops, Joins
<1> HIDE DEF a, e, u
<1>2. a \o e = u /\ <<>> \o e = e
  BY <1>1, Joined, ConcatEmptySeq
<1>3. InStage \o e = u /\ NoStage \o e = e
  BY <1>2 DEF InStage, NoStage, a
<1>4. \/ todo' = IF cancel THEN <<"sentinel">> ELSE InStage \o e
      \/ todo' = IF cancel THEN <<"sentinel">> ELSE NoStage \o e
  BY DEF Raises, e
<1> QED
  BY <1>3, <1>4 DEF Leaving, e, u

\* An operation that neither counts nor calls.
LEMMA NothingCounted ==
    ASSUME StreamInv, todo # <<>>, Head(todo) \notin Counting
    PROVE  rounds = 0 /\ flight = 0
BY DEF StreamInv, CallsAreBounded, Counting, Looping

\* A step that only goes on to the next operation.
LEMMA NextOperation ==
    ASSUME StreamInv, todo # <<>>, todo' = Tail(todo), ~partial, Head(todo) # "store",
           Head(todo) = "check" => ~cancel, rounds' = 0, flight' = 0,
           hand' \in Event \cup {Nothing}, hand' = "done" => hand = "done" \/ Kept',
           UNCHANGED <<request, partial, stored, late, loop, cancel, connected, expired>>
    PROVE  StreamInv'
<1>1. StaysSound /\ CallsAreBounded'
  BY ThreadAdvances, CallsEndWith DEF StreamInv, Quiet
<1> QED
  BY <1>1, LoopWaits DEF StreamInv, StreamTypeOK, loop

\* A step that leaves the program.
LEMMA ProgramLeft ==
    ASSUME StreamInv, todo' \in Leaving, cancel => todo' = <<"sentinel">>, rounds' = 0, flight' = 0,
           UNCHANGED <<request, hand, partial, stored, late, loop, cancel, connected, expired>>
    PROVE  StreamInv'
<1>1. StaysSound /\ CallsAreBounded'
  BY ThreadLeaves, CallsEndWith DEF StreamInv, Quiet
<1> QED
  BY <1>1, LoopWaits DEF StreamInv, StreamTypeOK, loop

LEMMA CheckIsSound ==
    ASSUME StreamInv, Check
    PROVE  StreamInv'
<1>1. /\ todo # <<>> /\ Head(todo) = "check"
      /\ UNCHANGED <<request, hand, partial, stored, rounds, flight, late, loop, cancel, connected, expired>>
  BY DEF Check, NextOp, work
<1>2. rounds = 0 /\ flight = 0
  BY <1>1, NothingCounted DEF Counting
<1>3. CASE cancel
  BY <1>1, <1>2, <1>3, ProgramLeft DEF Check, Return, Leaving
<1>4. CASE ~cancel
  <2>1. ~partial /\ hand' \in Event \cup {Nothing}
    BY <1>1, <1>4 DEF StreamInv, ThreadIsSound, StreamTypeOK
  <2> QED
    BY <1>1, <1>2, <1>4, <2>1, NextOperation DEF Check, Continue
<1> QED
  BY <1>3, <1>4

LEMMA PartIsSound ==
    ASSUME StreamInv, Part
    PROVE  StreamInv'
<1>1. /\ todo # <<>> /\ Head(todo) = "part"
      /\ UNCHANGED <<request, partial, stored, rounds, flight, late, loop, cancel, connected, expired>>
  BY DEF Part, NextOp, work
<1>2. rounds = 0 /\ flight = 0
  BY <1>1, NothingCounted DEF Counting
<1>3. CASE todo' = <<"sentinel">> /\ hand' = hand
  BY <1>1, <1>2, <1>3, ProgramLeft DEF Leaving
<1>4. CASE todo' = Tail(todo) /\ (cancel => request = "decomposed") /\ hand' \in {hand, "part"}
  <2>1. ~partial /\ hand' \in Event \cup {Nothing}
    BY <1>4 DEF StreamInv, ThreadIsSound, StreamTypeOK, Event
  <2> QED
    BY <1>1, <1>2, <1>4, <2>1, NextOperation
<1> QED
  BY <1>3, <1>4 DEF Part, HandOut, Return

LEMMA WorkIsSound ==
    ASSUME StreamInv, Work
    PROVE  StreamInv'
<1>1. PICK op \in {"work", "synthesis", "query"} :
        /\ NextOp(op)
        /\ \/ rounds + 1 < Calls[op] /\ rounds' = rounds + 1 /\ UNCHANGED todo
           \/ rounds' = 0 /\ (Continue \/ Raises(IF op = "query" THEN NoStage ELSE InStage))
  BY DEF Work
<1>2. /\ todo # <<>> /\ Head(todo) = op /\ op \in DOMAIN Calls /\ op \notin Looping
      /\ UNCHANGED <<request, flight, hand, partial, stored, loop, cancel, connected, expired>>
      /\ CountLate /\ Quiet
  BY <1>1, CallsAre DEF Work, NextOp, Looping, Quiet
<1>3. ~partial /\ flight = 0 /\ rounds \in Nat
  BY <1>2 DEF StreamInv, ThreadIsSound, CallsAreBounded
<1>4. CASE rounds + 1 < Calls[op] /\ rounds' = rounds + 1 /\ UNCHANGED todo
  <2>1. StaysSound
    BY <1>2, <1>4, ThreadStays DEF StreamInv
  <2>2. CallsAreBounded'
    BY <1>2, <1>3, <1>4, CallEndsInBounds
  <2> QED
    BY <1>2, <2>1, <2>2, LoopWaits DEF StreamInv, StreamTypeOK, loop
<1>5. CASE rounds' = 0 /\ todo' = Tail(todo)
  <2>1. StaysSound
    BY <1>1, <1>2, <1>3, <1>5, ThreadAdvances DEF StreamInv
  <2>2. CallsAreBounded'
    BY <1>2, <1>3, <1>5, LastCallInBounds
  <2> QED
    BY <1>2, <2>1, <2>2, LoopWaits DEF StreamInv, StreamTypeOK, loop
<1>6. CASE rounds' = 0 /\ todo' \in Leaving /\ (cancel => todo' = <<"sentinel">>)
  <2>1. StaysSound
    BY <1>2, <1>6, ThreadLeaves DEF StreamInv
  <2>2. CallsAreBounded'
    BY <1>2, <1>3, <1>6, LastCallInBounds
  <2> QED
    BY <1>2, <2>1, <2>2, LoopWaits DEF StreamInv, StreamTypeOK, loop
<1> QED
  BY <1>1, <1>4, <1>5, <1>6, Raised DEF Continue

\* A thread that takes a new program has stored nothing.
LEMMA ThreadBranches ==
    ASSUME StreamTypeOK, ThreadIsSound, todo # <<>>, Head(todo) \in Branching, Fits(todo', request),
           UNCHANGED <<request, stored, cancel, partial>>
    PROVE  StaysSound
<1>1. stored = 0 /\ request # "session" /\ ~partial
  <2>1. request \in Routes /\ Fits(todo, request)
    BY DEF StreamTypeOK, ThreadIsSound
  <2>2. /\ ~StoresNothing(todo)
        /\ Head(todo) = "lookup" => request = "query"
        /\ Head(todo) = "plan" => request = "decomposed"
    BY <2>1, Advance DEF Branching
  <2> QED
    BY <2>2 DEF ThreadIsSound, Branching
<1>2. ThreadIsSound'
  BY <1>1 DEF ThreadIsSound
<1> QED
  BY <1>1, <1>2 DEF Fits, StaysSound

LEMMA LookupIsSound ==
    ASSUME StreamInv, Lookup
    PROVE  StreamInv'
<1>1. todo # <<>> /\ Head(todo) = "lookup" /\ request = "query"
  BY Advance DEF Lookup, NextOp, StreamInv, StreamTypeOK, ThreadIsSound
<1>2. UNCHANGED <<request, hand, partial, stored, rounds, flight, late, loop, cancel, connected, expired>>
  BY DEF Lookup, work
<1>3. CASE Fits(todo', "query")
  <2>1. StaysSound /\ CallsAreBounded'
    BY <1>1, <1>2, <1>3, ThreadBranches, CallsTurn DEF StreamInv, Branching
  <2> QED
    BY <1>2, <2>1, LoopWaits DEF StreamInv, StreamTypeOK, loop
<1>4. CASE todo' \in Leaving /\ (cancel => todo' = <<"sentinel">>)
  <2>1. rounds = 0 /\ flight = 0
    BY <1>1, NothingCounted DEF Counting
  <2> QED
    BY <1>2, <1>4, <2>1, ProgramLeft
<1>5. \A rest \in {CacheHit, Answer} : Fits(<<"part">> \o rest \o <<"sentinel">>, "query")
  BY HitProgram, MissProgram
<1> QED
  BY <1>3, <1>4, <1>5, Raised DEF Lookup

LEMMA PlanIsSound ==
    ASSUME StreamInv, Plan
    PROVE  StreamInv'
<1>1. todo # <<>> /\ Head(todo) = "plan" /\ request = "decomposed"
  BY Advance DEF Plan, NextOp, StreamInv, StreamTypeOK, ThreadIsSound
<1>2. UNCHANGED <<request, hand, partial, stored, rounds, flight, late, loop, cancel, connected, expired>>
  BY DEF Plan, work
<1>3. Fits(todo', "decomposed")
  BY PlannedPrograms DEF Plan
<1>4. StaysSound /\ CallsAreBounded'
  BY <1>1, <1>2, <1>3, ThreadBranches, CallsTurn DEF StreamInv, Branching
<1> QED
  BY <1>2, <1>4, LoopWaits DEF StreamInv, StreamTypeOK, loop

\* A step of a loop that goes on.
LEMMA LoopGoesOn ==
    ASSUME StreamInv, CallsAreBounded', todo' = todo, hand' \in {hand, "part"},
           UNCHANGED <<request, partial, stored, loop, cancel, connected, expired>>
    PROVE  StreamInv'
<1>1. StaysSound
  BY ThreadStays DEF StreamInv
<1> QED
  BY <1>1, LoopWaits DEF StreamInv, StreamTypeOK, loop, Event

LEMMA TokensIsSound ==
    ASSUME StreamInv, Tokens
    PROVE  StreamInv'
<1>1. /\ todo # <<>> /\ Head(todo) = "tokens" /\ "tokens" \in DOMAIN Calls /\ "tokens" \in Looping
      /\ UNCHANGED <<request, stored, loop, cancel, connected, expired>>
  BY CallsAre DEF Tokens, NextOp, Looping
<1>2. ~partial /\ rounds \in Nat /\ flight \in Nat /\ flight <= 1 /\ hand \in Event \cup {Nothing}
  BY <1>1, CallsAre DEF StreamInv, StreamTypeOK, ThreadIsSound, CallsAreBounded
<1>3. CASE CallBegins /\ UNCHANGED <<todo, rounds, hand, partial>>
  BY <1>1, <1>2, <1>3, CallBeginsInBounds, LoopGoesOn DEF StreamInv
<1>4. CASE CallEnds /\ rounds' = rounds + 1 /\ UNCHANGED <<todo, partial>> /\ hand' \in {hand, "part"}
  <2>1. CallsAreBounded'
    BY <1>1, <1>2, <1>4, CallEndsInBounds DEF CallEnds
  <2> QED
    BY <1>1, <1>4, <2>1, LoopGoesOn
<1>5. CASE NoFlight /\ rounds' = 0 /\ todo' \in Leaving /\ (cancel => todo' = <<"sentinel">>) /\ UNCHANGED <<hand, partial>>
  BY <1>1, <1>5, ProgramLeft DEF NoFlight
<1>6. CASE CallEnds /\ rounds' = 0 /\ todo' \in Leaving /\ (cancel => todo' = <<"sentinel">>) /\ UNCHANGED <<hand, partial>>
  <2>1. flight = 1 /\ flight' = 0 /\ CountLate
    BY <1>2, <1>6 DEF CallEnds
  <2>2. CallsAreBounded'
    BY <1>1, <1>6, <2>1, LastCallInBounds
  <2>3. StaysSound
    BY <1>1, <1>6, ThreadLeaves DEF StreamInv, Quiet
  <2> QED
    BY <1>1, <1>6, <2>2, <2>3, LoopWaits DEF StreamInv, StreamTypeOK, loop
<1>7. CASE NoFlight /\ LoopEnds /\ UNCHANGED partial
  BY <1>1, <1>2, <1>7, NextOperation DEF NoFlight, LoopEnds, Continue
<1>8. CASE NoFlight /\ cancel /\ LoopEnds /\ partial' = TRUE
  <2>1. request \in Routes /\ Fits(todo, request)
    BY DEF StreamInv, StreamTypeOK, ThreadIsSound
  <2> DEFINE u == Tail(todo)
  <2>2. /\ Fits(u, request) /\ request # "decomposed" /\ ~StoresNothing(todo)
        /\ u # <<>> /\ Head(u) = "part"
        /\ StoresFirst(todo) => StoresFirst(u)
    BY <1>1, <2>1, Advance
  <2>3. todo' = u /\ rounds' = 0 /\ flight' = 0 /\ late' = late /\ hand' = hand
    BY <1>8 DEF LoopEnds, Continue, NoFlight
  <2>4. CallsAreBounded'
    BY <1>1, <2>3, CallsEndWith DEF StreamInv
  <2> HIDE DEF u
  <2>5. ThreadIsSound'
    BY <1>1, <1>8, <2>2, <2>3 DEF StreamInv, ThreadIsSound
  <2>6. StaysSound
    BY <1>1, <2>5 DEF StreamInv, StreamTypeOK, ThreadIsSound, Fits, StaysSound
  <2> QED
    BY <1>1, <1>8, <2>3, <2>4, <2>6, LoopWaits DEF StreamInv, StreamTypeOK, loop
<1> QED
  BY <1>3, <1>4, <1>5, <1>6, <1>7, <1>8, Raised DEF Tokens, LoopLeft, Return, Leaving

LEMMA ReplayIsSound ==
    ASSUME StreamInv, Replay
    PROVE  StreamInv'
<1>1. /\ todo # <<>> /\ Head(todo) = "replay"
      /\ UNCHANGED <<request, flight, late, partial, stored, loop, cancel, connected, expired>>
  BY DEF Replay, NextOp
<1>2. ~partial /\ flight = 0 /\ rounds \in Nat /\ hand \in Event \cup {Nothing}
  BY <1>1 DEF StreamInv, StreamTypeOK, ThreadIsSound, CallsAreBounded, Looping
<1>3. CASE Another
  <2>1. todo' = todo /\ rounds' \in Nat /\ hand' = "part"
    BY <1>2, <1>3 DEF Another
  <2>2. CallsAreBounded'
    BY <1>1, <1>2, <2>1 DEF StreamInv, CallsAreBounded, StillIn, Counting, Looping, Calls
  <2> QED
    BY <1>1, <2>1, <2>2, LoopGoesOn
<1>4. CASE LoopLeft
  BY <1>1, <1>2, <1>4, ProgramLeft DEF LoopLeft, Return, Leaving
<1>5. CASE LoopEnds
  BY <1>1, <1>2, <1>5, NextOperation DEF LoopEnds, Continue
<1> QED
  BY <1>3, <1>4, <1>5 DEF Replay

LEMMA SubQueriesIsSound ==
    ASSUME StreamInv, SubQueries
    PROVE  StreamInv'
<1>1. /\ todo # <<>> /\ Head(todo) = "subqueries" /\ "subqueries" \in DOMAIN Calls /\ "subqueries" \in Looping
      /\ UNCHANGED <<request, partial, stored, loop, cancel, connected, expired>>
  BY CallsAre DEF SubQueries, NextOp, Looping
<1>2. ~partial /\ rounds \in Nat /\ flight \in Nat /\ hand \in Event \cup {Nothing}
  BY <1>1 DEF StreamInv, StreamTypeOK, ThreadIsSound, CallsAreBounded
<1>3. CASE CallBegins /\ Another
  BY <1>1, <1>2, <1>3, CallBeginsInBounds, LoopGoesOn DEF StreamInv, Another
<1>4. CASE CallEnds /\ UNCHANGED <<todo, rounds>> /\ hand' \in {hand, "part"}
  <2>1. CallsAreBounded'
    BY <1>1, <1>2, <1>4, CallEndsInBounds DEF CallEnds
  <2> QED
    BY <1>1, <1>4, <2>1, LoopGoesOn
<1>5. CASE NoFlight /\ LoopLeft
  BY <1>1, <1>5, ProgramLeft DEF NoFlight, LoopLeft, Return, Leaving
<1>6. CASE NoFlight /\ LoopEnds
  BY <1>1, <1>2, <1>6, NextOperation DEF NoFlight, LoopEnds, Continue
<1> QED
  BY <1>3, <1>4, <1>5, <1>6 DEF SubQueries

LEMMA StoreIsSound ==
    ASSUME StreamInv, Store
    PROVE  StreamInv'
<1>1. /\ todo # <<>> /\ Head(todo) = "store" /\ stored' = stored + 1 /\ todo' = Tail(todo)
      /\ UNCHANGED <<request, hand, partial, rounds, flight, late, loop, cancel, connected, expired>>
  BY DEF Store, NextOp, Continue, work
<1>2. request \in Routes /\ Fits(todo, request)
  BY DEF StreamInv, StreamTypeOK, ThreadIsSound
<1>3. CallsAreBounded'
  <2>1. rounds = 0 /\ flight = 0
    BY <1>1, NothingCounted DEF Counting
  <2> QED
    BY <1>1, <2>1, CallsEndWith DEF StreamInv
<1> DEFINE u == Tail(todo)
<1>4. Fits(u, request) /\ ~StoresNothing(todo) /\ StoresNothing(u)
  BY <1>1, <1>2, Advance
<1>5. todo' = u
  BY <1>1
<1> HIDE DEF u
<1>6. stored = 0 /\ stored' = 1 /\ ~partial
  BY <1>1, <1>4 DEF StreamInv, ThreadIsSound
<1>7. ThreadIsSound'
  BY <1>1, <1>4, <1>5, <1>6 DEF StreamInv, ThreadIsSound
<1>8. StaysSound
  BY <1>1, <1>6, <1>7 DEF ThreadIsSound, Fits, StaysSound
<1> QED
  BY <1>1, <1>3, <1>6, <1>8, LoopWaits DEF StreamInv, StreamTypeOK, loop

LEMMA DoneIsSound ==
    ASSUME StreamInv, Done
    PROVE  StreamInv'
<1>1. /\ todo # <<>> /\ Head(todo) = "done"
      /\ UNCHANGED <<request, partial, stored, rounds, flight, late, loop, cancel, connected, expired>>
  BY DEF Done, NextOp, work
<1>2. ~partial /\ rounds = 0 /\ flight = 0
  BY <1>1, NothingCounted DEF StreamInv, ThreadIsSound, Counting
<1>3. CASE todo' \in Leaving /\ (cancel => todo' = <<"sentinel">>) /\ UNCHANGED hand
  BY <1>1, <1>2, <1>3, ProgramLeft
<1>4. CASE todo' = Tail(todo) /\ hand' \in {hand, "done"}
  <2>1. ~StoresFirst(todo)
    BY <1>1, Advance DEF StreamInv, StreamTypeOK, ThreadIsSound
  <2>2. Kept' /\ hand' \in Event \cup {Nothing}
    BY <1>1, <1>4, <2>1 DEF StreamInv, StreamTypeOK, ThreadIsSound, Kept, Event
  <2> QED
    BY <1>1, <1>2, <1>4, <2>2, NextOperation
<1> QED
  BY <1>3, <1>4, Raised DEF Done, HandOut, Return, Leaving

LEMMA ErrorIsSound ==
    ASSUME StreamInv, Error
    PROVE  StreamInv'
<1>1. /\ todo # <<>> /\ Head(todo) = "error"
      /\ UNCHANGED <<request, partial, stored, rounds, flight, late, loop, cancel, connected, expired>>
  BY DEF Error, NextOp, work
<1>2. ~partial /\ rounds = 0 /\ flight = 0
  BY <1>1, NothingCounted DEF StreamInv, ThreadIsSound, Counting
<1>3. CASE todo' = <<"sentinel">> /\ UNCHANGED hand
  BY <1>1, <1>2, <1>3, ProgramLeft DEF Leaving
<1>4. CASE todo' = Tail(todo) /\ hand' \in {hand, "error"}
  <2>1. hand' \in Event \cup {Nothing}
    BY <1>4 DEF StreamInv, StreamTypeOK, Event
  <2> QED
    BY <1>1, <1>2, <1>4, <2>1, NextOperation
<1> QED
  BY <1>3, <1>4 DEF Error, HandOut, Return

LEMMA SentinelIsSound ==
    ASSUME StreamInv, Sentinel
    PROVE  StreamInv'
<1>1. /\ todo # <<>> /\ Head(todo) = "sentinel" /\ todo' = Tail(todo) /\ hand' = "none"
      /\ UNCHANGED <<request, partial, stored, rounds, flight, late, loop, cancel, connected, expired>>
  BY DEF Sentinel, NextOp, Continue, work
<1>2. rounds = 0 /\ flight = 0
  BY <1>1, NothingCounted DEF Counting
<1>3. StaysSound /\ CallsAreBounded'
  BY <1>1, <1>2, ThreadAdvances, CallsEndWith DEF StreamInv, Quiet
<1> QED
  BY <1>1, <1>3, LoopWaits DEF StreamInv, StreamTypeOK, loop, Event

LEMMA PostIsSound ==
    ASSUME StreamInv, Post
    PROVE  StreamInv'
<1>1. StaysSound /\ CallsAreBounded'
  BY ThreadStays, CallsStay DEF StreamInv, Post, work
<1>2. hand \in Event /\ hand' = Nothing /\ posted \in Seq(Event) /\ posted' \in {posted, Append(posted, hand)}
  BY DEF StreamInv, StreamTypeOK, Post
<1>3. posted' \in Seq(Event)
  BY <1>2, AppendProperties
<1>4. \A i \in DOMAIN posted' : posted'[i] = hand \/ \E k \in DOMAIN posted : posted'[i] = posted[k]
  BY <1>2, AppendProperties, LenProperties
<1> QED
  BY <1>1, <1>2, <1>3, <1>4, LoopWaits DEF StreamInv, StreamTypeOK, Post, Nothing

-----------------------------------------------------------------------------
(* The event loop, the client and the clock. *)

\* A step of the loop does not meet the thread, but for the event it may set.
LEMMA ThreadWaits ==
    ASSUME StreamInv, UNCHANGED <<request, thread>>, cancel' \in BOOLEAN, cancel => cancel',
           connected' \in BOOLEAN, expired' \in BOOLEAN, posted' \in Seq(Event),
           queue' \in Seq(Event), Len(queue') <= QueueMax,
           gen' \in {"loop", "send", "yielded", "finally", "ended"}, taken' \in Event \cup {Nothing},
           last' \in Event \cup {Nothing}, outcome' \in Outcomes, recorded' \in Seq(Outcomes),
           DoneIsKept', GeneratorIsSound'
    PROVE  StreamInv'
<1>1. StaysSound
  BY ThreadStays DEF StreamInv, thread
<1>2. CallsAreBounded'
  BY CallsStay DEF StreamInv, thread, work
<1>3. StreamTypeOK'
  BY <1>1 DEF StreamInv, StreamTypeOK, thread, work
<1> QED
  BY <1>1, <1>2, <1>3 DEF StreamInv, StaysSound

\* What is taken from a queue of events was in it.
LEMMA TakenIs ==
    ASSUME NEW q \in Seq(Event), q # <<>>
    PROVE  /\ Head(q) \in Event /\ Tail(q) \in Seq(Event) /\ Len(Tail(q)) <= Len(q)
           /\ \E k \in DOMAIN q : q[k] = Head(q)
           /\ \A i \in DOMAIN Tail(q) : \E k \in DOMAIN q : q[k] = Tail(q)[i]
<1>1. Len(q) \in Nat \ {0} /\ DOMAIN q = 1..Len(q) /\ Head(q) = q[1] /\ Head(q) \in Event
  BY HeadTailProperties, EmptySeq, LenProperties
<1>2. Tail(q) \in Seq(Event) /\ Len(Tail(q)) = Len(q) - 1 /\ \A i \in 1..(Len(q) - 1) : Tail(q)[i] = q[i + 1]
  BY <1>1, HeadTailProperties
<1>3. DOMAIN Tail(q) = 1..(Len(q) - 1)
  BY <1>2, LenProperties
<1>4. \A i \in DOMAIN Tail(q) : i + 1 \in DOMAIN q /\ q[i + 1] = Tail(q)[i]
  BY <1>1, <1>2, <1>3
<1> QED
  BY <1>1, <1>2, <1>4

LEMMA PutEventIsSound ==
    ASSUME StreamInv, PutEvent
    PROVE  StreamInv'
<1>1. UNCHANGED <<request, thread, gen, taken, last, outcome, recorded, connected, expired>>
  BY DEF PutEvent
<1>2. /\ posted \in Seq(Event) /\ posted # <<>> /\ posted' = Tail(posted)
      /\ Head(posted) \in Event /\ posted' \in Seq(Event)
      /\ \E k \in DOMAIN posted : posted[k] = Head(posted)
      /\ \A i \in DOMAIN posted' : \E k \in DOMAIN posted : posted[k] = posted'[i]
  BY TakenIs DEF StreamInv, StreamTypeOK, PutEvent
<1>3. /\ cancel' \in BOOLEAN /\ (cancel => cancel')
      /\ queue' \in Seq(Event) /\ Len(queue') <= QueueMax
      /\ \A i \in DOMAIN queue' : queue'[i] = Head(posted) \/ \E k \in DOMAIN queue : queue[k] = queue'[i]
  <2>1. CASE Len(queue) < QueueMax /\ queue' = Append(queue, Head(posted)) /\ UNCHANGED cancel
    <3>1. queue \in Seq(Event) /\ QueueMax \in Nat
      BY StreamAssumption DEF StreamInv, StreamTypeOK
    <3>2. /\ queue' \in Seq(Event) /\ Len(queue') = Len(queue) + 1
          /\ \A i \in 1..Len(queue) : queue'[i] = queue[i]
          /\ queue'[Len(queue) + 1] = Head(posted)
      BY <1>2, <2>1, <3>1, AppendProperties
    <3>3. Len(queue) \in Nat /\ DOMAIN queue = 1..Len(queue) /\ DOMAIN queue' = 1..(Len(queue) + 1)
      BY <3>1, <3>2, LenProperties
    <3> QED
      BY <2>1, <3>1, <3>2, <3>3 DEF StreamInv, StreamTypeOK
  <2>2. CASE cancel' = TRUE /\ UNCHANGED queue
    BY <2>2 DEF StreamInv, StreamTypeOK
  <2> QED
    BY <2>1, <2>2 DEF PutEvent
<1>4. Kept' <=> Kept
  BY <1>1 DEF Kept, thread
<1>5. DoneIsKept'
  BY <1>1, <1>2, <1>3, <1>4 DEF StreamInv, DoneIsKept, thread
<1>6. GeneratorIsSound'
  BY <1>1, <1>3 DEF StreamInv, GeneratorIsSound
<1> QED
  BY <1>1, <1>2, <1>3, <1>5, <1>6, ThreadWaits DEF StreamInv, StreamTypeOK

LEMMA TakeIsSound ==
    ASSUME StreamInv, Take
    PROVE  StreamInv'
<1>1. /\ UNCHANGED <<request, thread, posted, cancel, last, outcome, recorded, connected, expired>>
      /\ gen = "loop"
  BY DEF Take
<1>2. /\ queue \in Seq(Event) /\ queue # <<>> /\ queue' = Tail(queue)
      /\ Head(queue) \in Event /\ queue' \in Seq(Event) /\ Len(queue') <= Len(queue)
      /\ Len(queue) \in Nat /\ Len(queue') \in Nat
      /\ \E k \in DOMAIN queue : queue[k] = Head(queue)
      /\ \A i \in DOMAIN queue' : \E k \in DOMAIN queue : queue[k] = queue'[i]
  BY TakenIs, LenProperties DEF StreamInv, StreamTypeOK, Take
<1>3. Len(queue') <= QueueMax
  BY <1>2, StreamAssumption DEF StreamInv, StreamTypeOK
<1>4. \/ gen' = "finally" /\ taken' = taken
      \/ gen' = "send" /\ taken' = Head(queue) /\ taken' # "none"
  BY DEF Take
<1>5. Kept' <=> Kept
  BY <1>1 DEF Kept, thread
<1>6. DoneIsKept'
  BY <1>1, <1>2, <1>4, <1>5 DEF StreamInv, DoneIsKept, thread
<1>7. GeneratorIsSound'
  BY <1>1, <1>2, <1>4 DEF StreamInv, GeneratorIsSound, Event
<1> QED
  BY <1>1, <1>2, <1>3, <1>4, <1>6, <1>7, ThreadWaits DEF StreamInv, StreamTypeOK

LEMMA SendEventIsSound ==
    ASSUME StreamInv, SendEvent
    PROVE  StreamInv'
<1>1. /\ UNCHANGED <<request, thread, posted, queue, taken, cancel, recorded, connected, expired>>
      /\ gen = "send"
      /\ \/ last' = taken /\ gen' = "yielded" /\ outcome' = outcome
         \/ last' = "error" /\ gen' = "finally" /\ outcome' = "failed"
  BY DEF SendEvent, Leaves
<1>2. Kept' <=> Kept
  BY <1>1 DEF Kept, thread
<1>3. DoneIsKept'
  BY <1>1, <1>2 DEF StreamInv, DoneIsKept, thread
<1>4. GeneratorIsSound'
  BY <1>1 DEF StreamInv, GeneratorIsSound
<1> QED
  BY <1>1, <1>3, <1>4, ThreadWaits DEF StreamInv, StreamTypeOK, Event, Outcomes

LEMMA ResumeIsSound ==
    ASSUME StreamInv, Resume
    PROVE  StreamInv'
<1>1. /\ UNCHANGED <<request, thread, posted, queue, cancel, last, recorded, connected, expired>>
      /\ gen = "yielded" /\ taken' = Nothing
      /\ \/ taken = "done" /\ gen' = "finally" /\ outcome' = "succeeded"
         \/ taken = "error" /\ gen' = "finally" /\ outcome' = "failed"
         \/ taken \notin Terminal /\ gen' = "loop" /\ outcome' = outcome
  BY DEF Resume, Leaves, Terminal
<1>2. Kept' <=> Kept
  BY <1>1 DEF Kept, thread
<1>3. DoneIsKept'
  BY <1>1, <1>2 DEF StreamInv, DoneIsKept, thread, Nothing
<1>4. GeneratorIsSound'
  BY <1>1 DEF StreamInv, GeneratorIsSound
<1> QED
  BY <1>1, <1>3, <1>4, ThreadWaits DEF StreamInv, StreamTypeOK, Outcomes

\* The ways the generator is left without an event.
LEMMA LeavingIsSound ==
    ASSUME StreamInv, SeeDisconnect \/ Timeout \/ CloseResponse
    PROVE  StreamInv'
<1>1. /\ UNCHANGED <<request, thread, posted, queue, taken, recorded, connected, expired>>
      /\ gen' = "finally" /\ gen \in {"loop", "yielded"}
      /\ cancel' = cancel \/ cancel' = TRUE
      /\ \/ last' = last /\ outcome' = "cancelled"
         \/ last' = "error" /\ outcome' = "failed"
         \/ last' = last /\ outcome' = outcome /\ ~connected
  BY DEF SeeDisconnect, Timeout, CloseResponse, Leaves
<1>2. Kept' <=> Kept
  BY <1>1 DEF Kept, thread
<1>3. DoneIsKept'
  BY <1>1, <1>2 DEF StreamInv, DoneIsKept, thread
<1>4. GeneratorIsSound'
  BY <1>1 DEF StreamInv, GeneratorIsSound
<1>5. cancel' \in BOOLEAN /\ (cancel => cancel')
  <2>1. cancel \in BOOLEAN
    BY DEF StreamInv, StreamTypeOK
  <2>2. cancel' = cancel \/ cancel' = TRUE
    BY <1>1
  <2> QED
    BY <2>1, <2>2
<1>6. /\ last' \in Event \cup {Nothing} /\ outcome' \in Outcomes
      /\ gen' \in {"loop", "send", "yielded", "finally", "ended"}
  BY <1>1 DEF StreamInv, StreamTypeOK, Event, Outcomes
<1> QED
  BY <1>1, <1>3, <1>4, <1>5, <1>6, ThreadWaits DEF StreamInv, StreamTypeOK

LEMMA FinallyIsSound ==
    ASSUME StreamInv, Finally
    PROVE  StreamInv'
<1>1. /\ UNCHANGED <<request, thread, posted, queue, taken, last, outcome, connected, expired>>
      /\ gen = "finally" /\ gen' = "ended" /\ cancel' = TRUE
  BY DEF Finally
<1>2. recorded = <<>> /\ recorded' \in {recorded, Append(recorded, outcome)} /\ outcome \in Outcomes
  BY <1>1 DEF Finally, StreamInv, StreamTypeOK, GeneratorIsSound
<1>3. /\ recorded' \in Seq(Outcomes) /\ Len(recorded') <= 1
      /\ \A i \in DOMAIN recorded' : recorded'[i] = outcome
  <2>1. CASE recorded' = <<>>
    BY <2>1, EmptySeq
  <2>2. CASE recorded' = <<outcome>>
    BY <1>2, <2>2
  <2> QED
    BY <1>2, <2>1, <2>2
<1>4. Kept' <=> Kept
  BY <1>1 DEF Kept, thread
<1>5. DoneIsKept'
  BY <1>1, <1>4 DEF StreamInv, DoneIsKept, thread
<1>6. GeneratorIsSound'
  BY <1>1, <1>3 DEF StreamInv, GeneratorIsSound
<1> QED
  BY <1>1, <1>3, <1>5, <1>6, ThreadWaits DEF StreamInv, StreamTypeOK

LEMMA OutsideIsSound ==
    ASSUME StreamInv, Disconnect \/ Expire
    PROVE  StreamInv'
<1>1. /\ UNCHANGED <<request, thread, loop, cancel>>
      /\ connected' \in BOOLEAN /\ expired' \in BOOLEAN /\ (connected' => connected)
  <2>1. connected \in BOOLEAN /\ expired \in BOOLEAN
    BY DEF StreamInv, StreamTypeOK
  <2>2. CASE Disconnect
    BY <2>1, <2>2 DEF Disconnect
  <2>3. CASE Expire
    BY <2>1, <2>3 DEF Expire
  <2> QED
    BY <2>2, <2>3
<1>2. DoneIsKept'
  BY <1>1 DEF StreamInv, DoneIsKept, Kept, thread, loop
<1>3. GeneratorIsSound'
  BY <1>1 DEF StreamInv, GeneratorIsSound, loop
<1> QED
  BY <1>1, <1>2, <1>3, ThreadWaits DEF StreamInv, StreamTypeOK, loop

LEMMA StreamInvInit == StreamInit => StreamInv
<1> SUFFICES ASSUME StreamInit PROVE StreamInv
  OBVIOUS
<1>1. request \in Routes /\ todo = Program(request) \o <<"sentinel">>
  BY DEF StreamInit
<1>2. Fits(todo, request) /\ (request = "session" => StoresFirst(todo))
  BY <1>1, QueryProgram, SessionProgram, DecomposedProgram DEF Routes
<1>3. ThreadIsSound /\ CallsAreBounded
  <2>1. rounds = 0 /\ flight = 0 /\ late = [op \in DOMAIN Calls |-> 0]
    BY DEF StreamInit
  <2> QED
    BY <1>2, <2>1, CallsAre DEF StreamInit, ThreadIsSound, CallsAreBounded
<1>4. DoneIsKept /\ GeneratorIsSound
  BY DEF StreamInit, DoneIsKept, GeneratorIsSound, Nothing, Terminal
<1>5. StreamTypeOK
  <2>1. todo \in Seq(Ops)
    BY <1>2 DEF Fits
  <2>2. 0 \in Nat /\ Len(<<>>) <= QueueMax /\ <<>> \in Seq(Event) /\ <<>> \in Seq(Outcomes)
    BY StreamAssumption, EmptySeq
  <2> QED
    BY <1>1, <2>1, <2>2 DEF StreamInit, StreamTypeOK, Outcomes
<1> QED
  BY <1>3, <1>4, <1>5 DEF StreamInv

LEMMA StreamInvStep == StreamInv /\ [StreamNext]_streamVars => StreamInv'
<1> SUFFICES ASSUME StreamInv, [StreamNext]_streamVars PROVE StreamInv'
  OBVIOUS
<1>1. CASE UNCHANGED streamVars
  <2>1. StaysSound /\ CallsAreBounded'
    BY <1>1, ThreadStays, CallsStay DEF streamVars, thread, work, StreamInv
  <2> QED
    BY <1>1, <2>1 DEF StaysSound, streamVars, thread, work, loop, StreamInv, StreamTypeOK, DoneIsKept, Kept, GeneratorIsSound
<1>2. CASE ThreadStep
  BY <1>2, CheckIsSound, PartIsSound, WorkIsSound, LookupIsSound, PlanIsSound, TokensIsSound, ReplayIsSound,
     SubQueriesIsSound, StoreIsSound, DoneIsSound, ErrorIsSound, SentinelIsSound, PostIsSound DEF ThreadStep
<1>3. CASE GeneratorStep
  BY <1>3, TakeIsSound, SendEventIsSound, ResumeIsSound, LeavingIsSound, FinallyIsSound DEF GeneratorStep
<1> QED
  BY <1>1, <1>2, <1>3, PutEventIsSound, OutsideIsSound DEF StreamNext

\* What a stream tells, stores and records, from the invariant.
LEMMA StreamInvImplies == StreamInv => StreamIsTrue
<1> SUFFICES ASSUME StreamInv PROVE StreamIsTrue
  OBVIOUS
<1>1. PartialNeverStored /\ LateWorkBounded
  <2>1. \A op \in DOMAIN Calls : late[op] \in Nat /\ Calls[op] \in Nat
    BY CallsAre DEF StreamInv, CallsAreBounded
  <2> QED
    BY <2>1 DEF StreamInv, CallsAreBounded, ThreadIsSound, PartialNeverStored, LateWorkBounded
<1>2. DoneIsStored
  BY DEF StreamInv, ThreadIsSound, DoneIsKept, Kept, DoneIsStored
<1>3. RecordIsTrue
  <2>1. CASE gen = "ended"
    BY <2>1 DEF StreamInv, GeneratorIsSound, RecordIsTrue
  <2>2. CASE recorded = <<>>
    BY <2>2, EmptySeq DEF RecordIsTrue
  <2> QED
    BY <2>1, <2>2 DEF StreamInv, GeneratorIsSound
<1> QED
  BY <1>1, <1>2, <1>3 DEF StreamInv, StreamIsTrue

\* The client is sent something only by a generator that has sent no terminal
\* event yet.
LEMMA LastIsKept ==
    ASSUME StreamInv, [StreamNext]_streamVars, last \in Terminal
    PROVE  UNCHANGED last /\ gen' \notin {"loop", "send"}
<1>1. gen \notin {"loop", "send"}
  BY DEF StreamInv, GeneratorIsSound
<1>2. UNCHANGED last
  <2>1. CASE UNCHANGED streamVars
    BY <2>1 DEF streamVars, loop
  <2>2. CASE ThreadStep
    BY <2>2 DEF ThreadStep, Check, Part, Work, Lookup, Plan, Tokens, Replay, SubQueries, Store, Done, Error, Sentinel,
                Post, loop
  <2>3. CASE GeneratorStep
    BY <1>1, <2>3 DEF GeneratorStep, SeeDisconnect, Timeout, Take, SendEvent, Resume, CloseResponse, Finally
  <2> QED
    BY <2>1, <2>2, <2>3 DEF StreamNext, PutEvent, Disconnect, Expire, loop
<1>3. GeneratorIsSound'
  BY StreamInvStep DEF StreamInv
<1> QED
  BY <1>2, <1>3 DEF GeneratorIsSound

\* A partial answer is never stored, a session that was told "done" has its
\* answer, the terminal row is written once and says what the client saw, and a
\* thread whose stream ended makes at most the calls left of one operation,
\* wherever the deadline, a disconnection or a provider error fell.
THEOREM StreamSafety == StreamSpec => []StreamIsTrue
BY StreamInvInit, StreamInvStep, StreamInvImplies, PTL DEF StreamSpec

\* A terminal event is the last that is sent: a timeout is not followed by the
\* late answer of the thread, nor an answer by an error; the generator neither
\* waits for an event nor sends one after it.
THEOREM TerminalFinality == StreamSpec => TerminalIsLast
<1>1. StreamInv /\ [StreamNext]_streamVars =>
        [(last \in Terminal) => UNCHANGED last /\ gen' \notin {"loop", "send"}]_streamVars
  BY LastIsKept
<1> QED
  BY <1>1, StreamInvInit, StreamInvStep, PTL DEF StreamSpec, TerminalIsLast

-----------------------------------------------------------------------------
(* The key pool. *)

(***************************************************************************)
(* What makes the two properties inductive: a caller that waits knows what *)
(* is left of the cooldown of its client, unless it was overtaken.         *)
(***************************************************************************)
CallRecord == [at : {"idle", "select", "wait", "sent", "cool"}, client : Nat, wait : Nat,
               attempt : Nat, delay : Nat, overtaken : BOOLEAN]

PoolTypeOK ==
    /\ cooling \in [Positions -> Nat]
    /\ call \in [Callers -> CallRecord]
    /\ \A c \in Callers : call[c].at \in {"wait", "sent", "cool"} => call[c].client \in Positions

WaitIsCooldown ==
    \A c \in Callers : call[c].at = "wait" =>
        cooling[call[c].client] = call[c].wait \/ call[c].overtaken

PoolInv == PoolTypeOK /\ SleepersHaveNoKey /\ WaitIsCooldown

\* A pool as it is configured at the start of the process satisfies the
\* invariant (Generator.__init__).
LEMMA PoolInit == KeyInit => PoolInv
<1> SUFFICES ASSUME KeyInit PROVE PoolInv
  OBVIOUS
<1>2. \A c \in Callers : call[c] = NoCall
  BY DEF KeyInit
<1>3. NoCall \in CallRecord /\ NoCall.at = "idle"
  BY DEF NoCall, CallRecord
<1>4. PoolTypeOK
  BY <1>2, <1>3 DEF KeyInit, PoolTypeOK
<1> QED
  BY <1>2, <1>3, <1>4 DEF PoolInv, SleepersHaveNoKey, WaitIsCooldown

(***************************************************************************)
(* The operations.                                                         *)
(***************************************************************************)
\* A selected client is ready, or no client is and this one is ready soonest
\* (_next_available_client).
LEMMA SelectPreserves ==
    ASSUME PoolInv, NEW c \in Callers, Select(c)
    PROVE  PoolInv'
<1> USE DEF PoolInv
<1>1. PICK n \in Positions :
        /\ call[c].at = "wait" => FALSE
        /\ Chosen(n)
        /\ call' = [call EXCEPT ![c].at = "wait", ![c].client = n, ![c].wait = cooling[n],
                                ![c].overtaken = FALSE]
        /\ UNCHANGED <<pool, cooling>>
  BY DEF Select
<1>2. cooling[n] \in Nat /\ Positions' = Positions
  BY <1>1 DEF PoolTypeOK, Positions
<1>3. PoolTypeOK'
  <2> DEFINE record == [call[c] EXCEPT !.at = "wait", !.client = n, !.wait = cooling[n],
                                       !.overtaken = FALSE]
  <2>1. call' = [call EXCEPT ![c] = record]
    BY <1>1 DEF PoolTypeOK
  <2>2. n \in Nat
    BY DEF Positions
  <2>3. record \in CallRecord /\ record.client = n
    BY <1>2, <2>2 DEF PoolTypeOK, CallRecord
  <2> HIDE DEF record
  <2>4. call' \in [Callers -> CallRecord] /\ call'[c] = record /\ \A d \in Callers : d # c => call'[d] = call[d]
    BY <2>1, <2>3 DEF PoolTypeOK
  <2>5. \A d \in Callers : call'[d].at \in {"wait", "sent", "cool"} => call'[d].client \in Positions
    BY <2>3, <2>4 DEF PoolTypeOK
  <2> QED
    BY <1>1, <1>2, <2>4, <2>5 DEF PoolTypeOK
<1>4. \A m \in Positions : cooling[n] > 0 => cooling[m] >= cooling[n]
  <2> SUFFICES ASSUME NEW m \in Positions, cooling[n] > 0 PROVE cooling[m] >= cooling[n]
    OBVIOUS
  <2>1. cooling[m] \in Nat
    BY DEF PoolTypeOK
  <2>2. n \notin Ready
    BY DEF Ready
  <2>3. Ready = {}
    BY <1>1, <2>2 DEF Chosen
  <2> QED
    BY <1>1, <1>2, <2>1, <2>3 DEF Chosen
<1>5. SleepersHaveNoKey'
  <2> SUFFICES ASSUME NEW d \in Callers, call'[d].at = "wait", call'[d].wait > 0,
                      NEW m \in Positions
               PROVE  cooling[m] >= call'[d].wait
    BY <1>1, <1>2 DEF SleepersHaveNoKey
  <2>1. CASE d = c
    BY <2>1, <1>1, <1>4 DEF PoolTypeOK, CallRecord
  <2>2. CASE d # c
    BY <2>2, <1>1 DEF PoolTypeOK, SleepersHaveNoKey
  <2> QED
    BY <2>1, <2>2
<1>6. WaitIsCooldown'
  BY <1>1 DEF PoolTypeOK, CallRecord, WaitIsCooldown
<1> QED
  BY <1>3, <1>5, <1>6

\* A cooldown never gets shorter, and whoever has selected the client already
\* is marked as overtaken (_cool_down_client).
LEMMA CoolDownPreserves ==
    ASSUME PoolInv, NEW c \in Callers, CoolDown(c)
    PROVE  PoolInv'
<1> USE DEF PoolInv
<1> DEFINE n == call[c].client
<1>1. /\ n \in Positions /\ call[c].delay \in Nat
      /\ Positions' = Positions
  BY DEF CoolDown, PoolTypeOK, CallRecord, Positions
<1>2. cooling' \in [Positions -> Nat] /\ \A m \in Positions : cooling'[m] >= cooling[m]
  BY <1>1 DEF CoolDown, LaterCooldown, PoolTypeOK
<1>3. \A d \in Callers : call'[d] =
          IF d = c THEN [call[c] EXCEPT !.at = "select"]
          ELSE IF call[d].at = "wait" /\ call[d].client = n
               THEN [call[d] EXCEPT !.overtaken = TRUE] ELSE call[d]
  BY DEF CoolDown
<1>4. call' \in [Callers -> CallRecord]
  <2>1. \A d \in Callers : call'[d] \in CallRecord
    BY <1>3 DEF PoolTypeOK, CallRecord
  <2>2. call' = [d \in Callers |-> call'[d]]
    BY DEF CoolDown
  <2> QED
    BY <2>1, <2>2
<1>5. \A d \in Callers :
        /\ call'[d].at = "wait" => d # c /\ call[d].at = "wait"
        /\ d # c => /\ call'[d].at = call[d].at
                    /\ call'[d].client = call[d].client /\ call'[d].wait = call[d].wait
                    /\ call[d].overtaken => call'[d].overtaken
                    /\ call[d].at = "wait" /\ call[d].client = n => call'[d].overtaken
        /\ call'[c].at = "select"
  BY <1>3 DEF PoolTypeOK, CallRecord
<1>6. PoolTypeOK'
  BY <1>1, <1>2, <1>4, <1>5 DEF CoolDown, PoolTypeOK
<1>7. SleepersHaveNoKey'
  <2> SUFFICES ASSUME NEW d \in Callers, call'[d].at = "wait", call'[d].wait > 0,
                      NEW m \in Positions
               PROVE  cooling'[m] >= call'[d].wait
    BY <1>1 DEF SleepersHaveNoKey
  <2>1. cooling[m] >= call[d].wait /\ call'[d].wait = call[d].wait
    BY <1>5 DEF SleepersHaveNoKey
  <2>2. cooling[m] \in Nat /\ cooling'[m] \in Nat /\ call[d].wait \in Nat
    BY <1>2 DEF PoolTypeOK, CallRecord
  <2> QED
    BY <2>1, <2>2, <1>2
<1>8. WaitIsCooldown'
  <2> SUFFICES ASSUME NEW d \in Callers, call'[d].at = "wait"
               PROVE  cooling'[call'[d].client] = call'[d].wait \/ call'[d].overtaken
    BY DEF WaitIsCooldown
  <2>1. d # c /\ call[d].at = "wait" /\ call'[d].client = call[d].client /\ call'[d].wait = call[d].wait
    BY <1>5
  <2>2. CASE call[d].client = n
    BY <2>1, <2>2, <1>5
  <2>3. CASE call[d].client # n
    <3>1. call[d].client \in Positions
      BY <2>1 DEF PoolTypeOK
    <3>2. cooling'[call[d].client] = cooling[call[d].client]
      BY <2>3, <3>1 DEF CoolDown, PoolTypeOK
    <3>3. call[d].overtaken => call'[d].overtaken
      BY <1>5, <2>1
    <3> QED
      BY <2>1, <3>2, <3>3 DEF WaitIsCooldown
  <2> QED
    BY <2>2, <2>3
<1> QED
  BY <1>6, <1>7, <1>8

\* Time takes the same from every cooldown and every sleep.
LEMMA ElapsePreserves ==
    ASSUME PoolInv, Elapse
    PROVE  PoolInv'
<1> USE DEF PoolInv
<1>1. Positions' = Positions
  BY DEF Elapse, Positions
<1>2. \A k \in Nat : Less(k) \in Nat
  BY DEF Less
<1>3. \A d \in Callers : /\ call'[d] = [call[d] EXCEPT !.wait = Less(call[d].wait)]
                         /\ call[d] \in CallRecord
  BY DEF Elapse, PoolTypeOK
<1>4. call' = [d \in Callers |-> call'[d]] /\ \A d \in Callers : call'[d] \in CallRecord
  BY <1>2, <1>3 DEF Elapse, CallRecord
<1>5. \A d \in Callers : /\ call'[d].at = call[d].at /\ call'[d].client = call[d].client
                         /\ call'[d].overtaken = call[d].overtaken
                         /\ call'[d].wait = Less(call[d].wait)
  BY <1>3 DEF CallRecord
<1>6. \A m \in Positions : cooling'[m] = Less(cooling[m]) /\ cooling[m] \in Nat
  BY DEF Elapse, PoolTypeOK
<1>7. PoolTypeOK'
  BY <1>1, <1>2, <1>4, <1>5 DEF Elapse, PoolTypeOK
<1>8. SleepersHaveNoKey'
  <2> SUFFICES ASSUME NEW d \in Callers, call'[d].at = "wait", call'[d].wait > 0,
                      NEW m \in Positions
               PROVE  cooling'[m] >= call'[d].wait
    BY <1>1 DEF SleepersHaveNoKey
  <2>1. call[d].wait \in Nat /\ cooling[m] \in Nat
    BY <1>3, <1>6 DEF CallRecord
  <2>2. call[d].wait > 0 /\ cooling[m] >= call[d].wait
    BY <1>5, <2>1 DEF Less, SleepersHaveNoKey
  <2> QED
    BY <1>5, <1>6, <2>1, <2>2 DEF Less
<1>9. WaitIsCooldown'
  BY <1>5, <1>6 DEF PoolTypeOK, WaitIsCooldown
<1> QED
  BY <1>7, <1>8, <1>9

\* The steps of a call that move no cooldown.
LEMMA CallPreserves ==
    ASSUME PoolInv, NEW c \in Callers,
           Call(c) \/ Submit(c) \/ Conclude(c) \/ RateLimited(c)
    PROVE  PoolInv'
<1> USE DEF PoolInv
<1>1. UNCHANGED <<pool, cooling>> /\ Positions' = Positions
  BY DEF Call, Submit, Conclude, RateLimited, Positions
<1>2. /\ call' \in [Callers -> CallRecord]
      /\ call'[c].at # "wait"
      /\ call'[c].at \in {"sent", "cool"} => call'[c].client = call[c].client
      /\ call'[c].at \in {"sent", "cool"} => call[c].at \in {"wait", "sent"}
      /\ \A d \in Callers : d # c => call'[d] = call[d]
  <2> DEFINE fresh == [NoCall EXCEPT !.at = "select"]
  <2>1. fresh \in CallRecord /\ NoCall \in CallRecord /\ fresh.at = "select" /\ NoCall.at = "idle"
    BY DEF NoCall, CallRecord
  <2>2. CASE Call(c)
    <3>1. call' = [call EXCEPT ![c] = fresh]
      BY <2>2 DEF Call
    <3> HIDE DEF fresh
    <3> QED
      BY <2>1, <3>1 DEF PoolTypeOK
  <2>3. CASE Conclude(c)
    <3>1. call' = [call EXCEPT ![c] = NoCall]
      BY <2>3 DEF Conclude
    <3> QED
      BY <2>1, <3>1 DEF PoolTypeOK
  <2>4. CASE Submit(c)
    BY <2>4 DEF Submit, PoolTypeOK, CallRecord
  <2>5. CASE RateLimited(c)
    <3>1. PICK d \in Nat : /\ call[c].at = "sent"
                           /\ call' = [call EXCEPT ![c].at = "cool", ![c].delay = d]
      BY <2>5, PoolAssumption DEF RateLimited
    <3>2. call[c] \in CallRecord /\ call'[c] = [call[c] EXCEPT !.at = "cool", !.delay = d]
      BY <3>1 DEF PoolTypeOK
    <3>3. call'[c] \in CallRecord /\ call'[c].at = "cool" /\ call'[c].client = call[c].client
      BY <3>2 DEF CallRecord
    <3>4. call' = [call EXCEPT ![c] = call'[c]]
      BY <3>1, <3>2 DEF PoolTypeOK
    <3> QED
      BY <3>1, <3>3, <3>4 DEF PoolTypeOK
  <2> QED
    BY <2>2, <2>3, <2>4, <2>5
<1>3. PoolTypeOK'
  BY <1>1, <1>2 DEF PoolTypeOK
<1>4. SleepersHaveNoKey'
  BY <1>1, <1>2 DEF SleepersHaveNoKey
<1>5. WaitIsCooldown'
  BY <1>1, <1>2 DEF WaitIsCooldown
<1> QED
  BY <1>3, <1>4, <1>5

(***************************************************************************)
(* Nobody sleeps while a client is ready, and a client that cools down is  *)
(* used only by a caller that was overtaken by another caller's 429, for   *)
(* any number of concurrent callers (generator.py).                        *)
(***************************************************************************)
THEOREM CooldownSafety == KeySpec => []CooldownsAreKept
<1>1. KeyInit => PoolInv
  BY PoolInit
<1>2. PoolInv /\ [KeyNext]_keyVars => PoolInv'
  <2> SUFFICES ASSUME PoolInv, [KeyNext]_keyVars PROVE PoolInv'
    OBVIOUS
  <2>1. CASE UNCHANGED keyVars
    BY <2>1 DEF keyVars, PoolInv, PoolTypeOK, Positions, SleepersHaveNoKey, WaitIsCooldown
  <2>2. CASE Elapse
    BY <2>2, ElapsePreserves
  <2>3. ASSUME NEW c \in Callers, Call(c) \/ Proceed(c) PROVE PoolInv'
    <3>1. CASE Select(c)
      BY <3>1, SelectPreserves
    <3>2. CASE CoolDown(c)
      BY <3>2, CoolDownPreserves
    <3>3. CASE Call(c) \/ Submit(c) \/ Conclude(c) \/ RateLimited(c)
      BY <3>3, CallPreserves
    <3> QED
      BY <2>3, <3>1, <3>2, <3>3 DEF Proceed
  <2> QED
    BY <2>1, <2>2, <2>3 DEF KeyNext
<1>3. PoolInv => CooldownsAreKept
  BY DEF PoolInv, WaitIsCooldown, CooldownsAreKept, EarlyIsOvertaken
<1> QED
  BY <1>1, <1>2, <1>3, PTL DEF KeySpec

-----------------------------------------------------------------------------
(* The composition. *)

\* A behaviour of the threads is one of each of them: a step of one leaves the
\* state of the others alone.
THEOREM ThreadsComposition == ThreadsSpec => Spec /\ StreamSpec /\ KeySpec
<1>1. ThreadsInit => Init /\ StreamInit /\ KeyInit
  BY DEF ThreadsInit
<1>2. [ThreadsNext]_threadVars => [Next]_vars /\ [StreamNext]_streamVars /\ [KeyNext]_keyVars
  BY DEF ThreadsNext, threadVars, Evaluating, Streaming, Calling
<1> QED
  BY <1>1, <1>2, PTL DEF ThreadsSpec, Spec, StreamSpec, KeySpec

\* So what holds of each thread alone holds of all together.
THEOREM ThreadsSafety ==
    ThreadsSpec => [](SpendingIsExact /\ ResultsAreStored /\ StreamIsTrue /\ CooldownsAreKept)
BY ThreadsComposition, SpendingSafety, ResultSafety, StreamSafety, CooldownSafety, PTL

\* A stored cancellation ends the spending and a terminal event the stream, for
\* all threads together.
THEOREM ThreadsFinality == ThreadsSpec => CancelStopsSpending /\ TerminalIsLast
BY ThreadsComposition, CancellationSafety, TerminalFinality, PTL
=============================================================================
