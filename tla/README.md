# TLA+ verification of FilingScope (Enterprise Document QA)

FilingScope answers questions about SEC 10-K filings. One FastAPI process serves
cited answers (plain, streamed, decomposed), keeps conversations and a semantic
cache in memory, and stores evidence collections, durable Agent runs, durable
evaluation jobs and telemetry in one SQLite database in WAL mode. Scripts beside
it build and promote the corpus, run evaluation campaigns whose provider requests
are budgeted, and vet and promote evaluation results through files on disk. A
React frontend keeps its own copy of the workspace and exchanges backups with it.

These modules model the parts of the program that carry state which several
actors change, and the longer decision procedures of one request. TLC checks them
on small instances. Most of the safety and action properties that it checks are also
proved with TLAPS, for every value of the constants: those of the stores, the
Agent's workers and runs, the evaluations and streams, the key pool, the answer
pipeline, the corpus and the release chain (section 5). Paths are relative to the repository; the application's own code is
under `src/`, its operator scripts under `scripts/`.

| Section | |
|---|---|
| [1 Inventory](#1-inventory) | the parts of the system, their state, how they interact, what is hard |
| [2 Modules](#2-modules) | which module models which part, and how |
| [3 Runs](#3-runs) | what TLC checks, the bounds, fairness |
| [4 Findings](#4-findings) | where the documents and the code disagree |
| [5 Proofs](#5-proofs) | what is proved, from what, along which argument |
| [6 Limits](#6-limits) | what is only model-checked, abstracted, or not modelled |
| [7 What could follow](#7-what-could-follow) | |

To repeat a check: `tlc -config MCRouteThreads.cfg RouteThreads`; a proof:
`tlapm RouteThreads_proofs.tla`.

## 1 Inventory

### 1.1 The service

**Durable job repository** (`workspace/jobs.py`). Rows with their steps and an
append-only event log per job. Every write is one `BEGIN IMMEDIATE` transaction that
compares the caller's revision with the stored one, writes the row, adds 1 to the
revision and appends one event. *Hard:* callers act on old snapshots; bulk updates
(recovery, cancellation) bypass the step validator; decisions arrive from threads
that outlived their run. *Correct when:* a revision names one content; row, steps,
outcome and log agree; a terminal job is final; a key never names two jobs.

**Agent workers and durable Agent service** (`workspace/worker.py`,
`workspace/executors.py`, `agent/durable.py`, the lifespan in `api/app.py`). Asyncio
consumers claim queued runs and execute them; API threads admit and cancel. *Hard:* a
cancellation is delivered only at an await, threads of `asyncio.to_thread` survive it, a
shutdown has a grace period, the two commits of `_finish` can be split. *Correct when:* a
run has one owner, is never replayed, ends, and ends as its orchestrator said.

**The Agent itself** (`agent/orchestration.py`, `agent/research.py`,
`agent/observation.py`, `agent/evaluation.py`). A loop of decisions, tool calls,
budgets and a research ledger, whose events an evaluator reads afterwards. *Hard:* the
ledger at its cap, several objectives over shared chunks, rejected and repeated calls,
cancellation at any point. *Correct when:* answers rest on what was observed, no tool
starts after a cancellation, and a finished run can be evaluated.

**Evaluation jobs** (`evaluation/job_service.py`, `evaluation/job_store.py`). Every
provider request is reserved against a frozen budget before it leaves the process. *Hard:*
repeated POSTs dispatch the job twice, crashes and errors fall between any two commits,
cancellations race with reservations. *Correct when:* nothing is requested twice or unpaid,
the budget suffices, a reader never sees a count the tables do not hold.

**Streamed queries** (`api/app.py`, `generation/rag_pipeline.py`). A thread produces
events, callbacks put them in a bounded queue, an async generator sends them, a
`threading.Event` stops the thread. *Hard:* disconnect, deadline, full queue and errors at
every point. *Correct when:* one terminal event ends a stream, a partial answer is never
stored, the telemetry row tells what the client saw, abandoned work is bounded.

**Key pool** (`generation/generator.py`, `generation/provider_policy.py`). Concurrent calls
rotate over one or two keys; a 429 puts a key on a cooldown; selecting and cooling are done
under a lock, sleeping and calling are not. *Correct when:* nobody sleeps while a key is
ready, a cooling key is used only by a caller that was overtaken, every call ends.

**Answer pipeline, conversation memory, semantic cache.** Two locked stores shared by
every request thread; a request is several operations on them. *Correct when:* no turn is
lost, a cached answer fits its request and never comes from a conversation.

**Workspace records** (`workspace/repository.py`, `collections.py`, `transfer.py`).
Versioned records with tombstones, cascading deletes, imports of backups with receipts.
*Hard:* old revisions, backups in any order and repeated. *Correct when:* a revision names
one version, what is deleted stays deleted, a repeated import has nothing left to do.

**Workspace database** (`workspace/database.py`, `migrations.py`). Openers in several
threads and processes validate a file once and apply a chain of migrations. *Hard:* a
process dies between two statements or commits, two processes hold the same list of pending
migrations, the file is replaced behind a receipt. *Correct when:* rows survive every
version, a thread that was told "ready" works on a current file, one process never races
with itself.

**Telemetry and attribution** (`workspace/telemetry.py`, `attribution.py`). Immutable rows
with a retention; pages with a cursor over a sliding window; a bounded trace of spans per
request. *Hard:* rows stamped before they wait for the lock, equal stamps, repetitions,
spans deferred inside a section, a root that needs room. *Correct when:* a walk over the
pages sees every row once, series add up to the summary, every span is counted.

**Retrieval, decomposition, discovery** (`retrieval/`, `generation/query_decomposer.py`,
`api/discovery.py`). A question is filtered, ranked in stages, fused, reranked, or split and
answered from several searches; discovery keeps snapshots that clients page through. *Hard:*
the collection need not be that of the loaded chunks; sub-queries fail; snapshots are
evicted under their readers.

**Packing and completion** (`evaluation/context_packing.py`, `generation/*_context.py`,
`generation/answer_completion.py` and the contracts it asks). Which chunks an answer sees,
and what becomes of a draft: rendered, compacted, corrected once, repaired or declined.
*Hard:* policies for five categories that hand over to each other; a repair after a
rejected correction; streaming.

### 1.2 The scripts

**Corpus** (`retrieval/embedding_generation.py`, `index_manifest.py`, the scripts that chunk,
embed, promote, index and migrate). Files replaced one by one, a collection filled in
batches, a manifest published last. *Hard:* kills between two writes, scripts that overlap.

**Campaigns** (`evaluation/request_ledger.py`, `provider_budget.py`,
`run_bilingual_evaluation_campaign.py`, `run_evidence_contract_v3_campaign.py`). An
append-only ledger per campaign and one for a round of campaigns, with lock files. *Hard:*
a kill between a reservation and its outcome, torn lines, prompts that change.

**Phase 2 runs** (`run_evaluation_phase2.py`, `generation_checkpoint.py`,
`judge_checkpoint.py`). Answers and scores of one slot, resumed, shared or wiped.

**The release chain** (the sentinel scripts, their reproducibility audits,
`phase2_admission.py`, `promote_phase2_result.py`, `run_answer_scope_campaign.py`). Reports on
disk decide what may be promoted to the official result. *Hard:* reports that outlive the code
they were made with, races between promoters, an orchestrator that resumes from disk.

### 1.3 How they interact

- API handlers, the supervisor and the evaluation threads share the job repository; the
  revision is their only synchronisation, the admission notice only a hint.
- Startup calls `recover_interrupted_jobs` for both namespaces before anything is served.
- `/query` and `/query/stream` share memory and cache; the cache is consulted and written
  only for requests without a session. All of them, and the evaluations, call the provider
  through a key pool.
- Decomposition, evaluation and the Agent's tools search the corpus the scripts left, and
  pack with the same selectors.
- Telemetry reads the rows of jobs and writes rows of its own; it never writes theirs.
- A Phase 2 run writes what sentinels, audits, admission and promotion read.

The list of all components with a status and a reason is `components` in `PROJECT.json`; what
is hard to test, at the line where it bites and with the property that would catch it, is
`hazards` there.

## 2 Modules

| Module | Models | Extends |
|---|---|---|
| `JobStore` | the methods of `SQLiteJobRepository` and the store's invariants | |
| `DurableJobs` | `JobStore` under callers with stale snapshots | `JobStore` |
| `JobLifecycle` | the abstract promise of the repository: states only | |
| `AgentWorkers` | consumers, executor, admission, cancellation, lifespan | `JobStore` |
| `EvaluationRun` | evaluation threads, their tables, crash and recovery | `JobStore` |
| `QueryStream` | one streamed request, plain or decomposed | |
| `KeyPool` | concurrent provider calls over one or two keys | |
| `RouteThreads` | the three above, one watched per behaviour | `EvaluationRun`, `QueryStream`, `KeyPool` |
| `AnswerPipeline` | concurrent `/query` requests, memory, cache | |
| `WorkspaceRecords` | records, tombstones, collections, imports | |
| `Database` | opening, migrating, replacing the file | |
| `Telemetry`, `Attribution` | telemetry rows and their readers; a trace of spans | |
| `ObservedJobs` | the repository under callers, telemetry and a trace, one exercised per behaviour | `DurableJobs`, `Telemetry`, `Attribution` |
| `AgentRun` | one Agent run from the inside, and its evaluator | |
| `Service` | records, database and run, one exercised per behaviour | `WorkspaceRecords`, `Database`, `AgentRun` |
| `Corpus` | files, generations, collection, manifest, server | |
| `Retrieval`, `Searching` | a search, an inspection, a decomposition; in a served corpus | |
| `ContextPacking`, `Packing` | the packing strategies; bounded cases for them | |
| `AnswerContracts`, `AnswerCompletion`, `Answering` | what an answer owes; from draft to answer; cases | |
| `Discovery` | snapshots of discovery searches and their pages | |
| `Questions` | searching, answering, discovery, one per behaviour | |
| `Campaign` | ledger-bounded campaigns | |
| `Phase2` | checkpoints and output of an evaluation slot | |
| `Sentinels`, `Release`, `ScopeCampaign` | the gates; from a sentinel run to the official result; its orchestrator | |
| `*_proofs` | theorems (section 5) | |

`ObservedJobs`, `RouteThreads`, `Service` and `Questions` put modules side by side that run in one process and
share no row, no lock order and no callback: a step of one neither reads nor writes what the
others keep. Interleaving them would multiply states and add no behaviour, so a
behaviour exercises one of them while the others stay as they began. Where components do
interact, they are in one module, or one extends the other.

Conventions. A transaction, or an operation under a lock, is one action; between
two of them anything may happen. A call that the code refuses rolls back and is a
stuttering step, except where the caller goes on differently. Definitions keep the names of
the code. A few definitions appear in a second form just before the real one
(`CanTransitionJobEarly`, `WithChunkAgain`, `RoundUsedFinished`, ...): they are plausible
bugs, used to confirm that the property they break can be broken.

### 2.1 JobStore, DurableJobs, JobLifecycle

State: `job[j]`, the row with its steps (or `NoRow`), and `log[j]`, the events. For
each method there is its condition (`CanTransitionJob`: everything that would
raise) and its effect (`TransitionJob`: row, revision, steps, event). `Commit` is
the common end of every method. `Settle` is the bulk `UPDATE` of steps. `created_at` is reduced to
the order of creation, which is all that a claim and a recovery batch look at. Payloads, results and
failure texts are reduced to which kind is present. `DurableJobs` adds `seen[c]`, the snapshot each
caller holds. `JobLifecycle` knows only a state per job; the refinement mapping is `Status`.

### 2.2 AgentWorkers

A consumer `wk[w]` is a program counter with one value per repository call or
await, the job and row it read, its attempts, and whether a cancellation was
requested or delivered. `irq` holds the `_interrupt` threads, `late` a decision append that lost its
task, `phase` the lifespan. A cancellation is delivered at an await; a thread the pool has not started is
dropped by it, one that has started goes on. `Crash` keeps only the database. The orchestrator appears
as its effects on the run; `AgentRun` is its inside.

### 2.3 EvaluationRun, QueryStream, KeyPool

A runner `run[r]` is a thread in `EvaluationJobService.run`, one program counter per commit: claim,
steps, per case and phase the cancel check, `ReserveAttempt`, `Invoke`, then `CommitCase`,
`ReportCase`, the report, and the failure handler with its three attempts. `calls` counts the
requests that really left. The request of a job is its budget, and `CanFreeze` is the rule of `freeze_plan`.

The thread of a stream is the sequence `todo` of operations it has left, taken from one of the
programs the routes run: poll the cancel event, hand out an event, call something slow, loop over
tokens or sub-queries, store, post the closing `None`. Where the code polls is what the model keeps: the stages
poll between their calls, a synthesis makes its draft and its correction and `pipeline.query` up to five calls
without a poll (`Work`, `Calls`), and of the sub-queries `MaxWorkers` may be under way, each having polled before its
own call (`flight`). `late` counts the calls that end after the stream has. The handing over of the events of
several workers is serialised through `hand`. `posted` are callbacks not yet run, `queue` the
bounded queue, `gen` where the generator is. `PutEvent` drops events, the closing `None` included, when the
queue is full.

In `KeyPool` a call selects a client, waits, sends, and on a 429 cools its client down.
Times are what is left of them and pass together, so the state space is finite without a clock.

### 2.4 AnswerPipeline

`req[r]` is the thread of a request, `waiter[r]` the coroutine that waits for it at most the
timeout. Two questions are similar when their numbers are at most `Radius` apart, which keeps what
matters of cosine similarity: it is not transitive. Answers and turns are named by the request that
made them. The cache is a set of entries with their uses and the order of insertion; `CacheAnswer`
evicts expired entries and then the least used.

### 2.5 WorkspaceRecords, Database, Telemetry, Attribution

`live[k]` and `tombstone[k]` per identity, `activity`, `receipts`, and `held`, what some client
read last. A request names any expected revision. A record keeps two parents: `listed`
(`data.collectionId`) and `parent` (`parent_legacy_id`); a browser backup has only the second.
`PlansRecord` and `PlansTombstone` are `_plan`.

A database file is its receipts, its tables with the rows in them, and whether it is sound. An
opener walks through `ensure_initialized`: lock of the process, integrity, table of receipts, one
migration per transaction, validation of the shape, receipt. Migration 7, which rebuilds the tables of
the jobs under cascading foreign keys, is modelled by its statements inside one transaction;
the others by the tables they add.

A telemetry record is stamped, waits, and is written with the deletion of what has
expired; a reader follows `/logs` page by page while rows arrive late, and
jobs are projected from their rows in a second connection. A trace has records, groups and a
count of what it dropped; a span ends in any order, or is deferred by an open section.

### 2.6 AgentRun

The orchestrator's state is `turn` (the budgets, the refs observed, the decision at hand), the research
session `ledger` (entries with the objectives they serve, signatures seen, the cap), the durable row
`runRow`. Decisions are anything the parser lets through; tools fail in every way their adapter
knows. A chunk is a number, its document that of its company. A decision event keeps only the first
`EvidenceCap` references (eight in `_record_trace`) and their number, so what the model was shown can be more than
the events hold; the history `shown` remembers it. (The trace's own cut at twenty is left out: either way the
number is above the cap.) When the run is over, `Accepted` is what
`evaluate_agent_run` refuses or not, and `Parsed` whether its report passes its own reader.

### 2.7 Corpus, Retrieval, Searching, Discovery

`Corpus` has the chunks on disk, the generations, the active files, the collection, the manifest,
the cloud and the server. Scripts are program counters (`BuildFile`, `PromoteFile`, `IndexUpsert`,
`MigrateBatch`, ...), `Kill` ends one between two writes. In `Retrieval` a world is the chunks with
what the code can tell about them, the ids loaded, their order by BM25 and by
similarity; a search is an operator over it: filters, stages, reciprocal rank fusion, the guarded
ladder, the reranker, the leading table row. `Searching` chooses a world that a served corpus can
have. `Discovery` has the store of snapshots; its routes are async and await nothing, so one runs at a time
(`LoopIsFree`) and only the clock goes on inside it.

### 2.8 ContextPacking, AnswerContracts, AnswerCompletion, Answering

A chunk is a record of what the selectors look at: rank, company, keyword groups, term, phrase, trend,
fact, tier. Every strategy is a set of chunks built by the code's passes in their order.
`AnswerContracts` has one predicate per audit over an answer as a sequence of
lines with labels, citations and values; `AnswerCompletion` is the control around them:
`Rendered`, `Compact`, `CorrectionRequired`, `Accepted`. `Answering` enumerates the cases that
the code tells apart, and lets the provider draft and correct in any way.

### 2.9 Campaign, Phase2

Everything but `proc` is on disk and survives a crash. A ledger is kept as the outcomes of the
attempts of each operation: "reserved" until a terminal row replaces it. `sent` is the history
of what really left. Locks are files: a kill leaves them, and an operator removes one whose writer is
gone. In `Phase2` a binding is a version number that a deployment changes; a checkpoint is a
sequence of records, whose last line a kill may tear.

### 2.10 Sentinels, Release, ScopeCampaign

`Sentinels` states the gates as predicates over a summary of two cases (target and control), in
units of 1/200 so that each threshold is a whole number. `Release` takes `kind`, the script that vets
a strategy, as a parameter in which the twelve scripts and audits differ. Only an audit in
progress, the reports still to be written and the promoters are in memory. The digest of a file is its
content. `promotions` is a history: what became official, over what, and what it was checked against; the last two
differ when another promoter writes after the last check (`Uncontested` says that none has). `ScopeCampaign` is the orchestrator with its state file; the scripts
may also be run by hand at any time.

## 3 Runs

| Run | Instance | Shows |
|---|---|---|
| `durable_jobs` | 1 job, 2 steps, 2 callers, 1 decision; a clock of 3; traces of up to 5 spans | row, steps, outcome, log and snapshots agree; jobs only move forward; refinement of `JobLifecycle`; pages are complete, every span is counted, series add up, facts immutable |
| `agent_workers` | 1 run, 2 consumers, 2 decisions, 2 restarts, 2 faults | one owner, no replay, the outcome is the orchestrator's, retries suffice, admitted runs settle |
| `route_threads` | 1 evaluation, 2 threads, 2 cases, budgets 3 to 6, 2 crashes, 1 fault; one stream per route, queue 2, 3 tokens or sub-queries, 2 workers; 2 calls, 1 or 2 keys, 2 retries | calls paid once, cancellation stops spending, tables agree; whole answers stored, one terminal event, true record, late work the rest of one operation; cooldowns kept; everything ends |
| `answer_pipeline` | 3 requests, 1 session, 3 questions, 2 filters, cache of 1, history of 1 | turns only grow, hits fit, conversations stay apart |
| `service` | 1 collection, 1 member, 1 conversation, 2 backups; a file of each version, 3 openers in 2 processes, 1 replacement; 5 plans of a run | records keep their revisions, deletions, imports and parents; opening and runs are sound; a cancelled run starts no tool |
| `campaign` | 2 processes, 2 bilingual campaigns, 1 evidence campaign, 4 slots, a round of 3, 1 kill, 2 prompts | no request reissued, no budget exceeded, no GO unearned |
| `phase2` | 2 processes, 2 questions, 2 answers, 2 versions, 3 starts, 1 kill | scores beside their answers, one binding, eligible is complete |
| `release` | 12 vetting scripts and the default, 2 promoters, 2 versions of the code, 1 kill or deployment | candidates reproduced; what a promotion was checked against archived; nothing lost or lowered unless a promotion was overtaken at its write; ready means pinned |
| `questions` | 2 files, 2 versions, 2 generations, 1 edit, 1 kill; worlds of 3 chunks; every strategy; 2 or 3 sources; 3 searches, 2 snapshots | corpus, results, packing and answers are sound; a discovery snapshot is true, and those that expire last survive eviction |
| `timed_out_query` | 1 request | finding 1 |
| `collection_cascade` | the collection of `service`, 1 backup | finding 2 |
| `evaluated_runs` | the runs of `service` | finding 3 |

Several properties are conjunctions; each part is a definition of its own with its own
comment beside it.

Deadlock is checked only for `collection_cascade`. The other models really stop: all jobs are terminal, all requests
are answered, or the bounds are used up.

Why the bounds are enough for what they check (what section 5 proves holds beyond any bound, and the run
only has to show that the interesting cases happen; section 6 lists the properties that rest on the bounds):

- *Jobs.* Row consistency is per job: two steps suffice to have one running beside one
  pending; two callers are the writer and its rival. `MaxRevision` only cuts progress reports.
- *Workers.* One job with two consumers is the smallest instance with a rival claim; two restarts
  let a run be claimed, lost, recovered and met again.
- *Evaluation.* Two cases have a first and a last case and a crash between them. `freeze_plan`
  asks for three slots per case, so budgets of 3 to 5 are refused and 6 is the smallest accepted.
- *Stream.* A queue of two fills while the generator is sending, so that events and the closing
  `None` are lost in some behaviours; three tokens are a loop that may be left in the middle, and three sub-queries
  over a pool of two leave one waiting when the event is set.
- *Key pool.* Two callers over one key sleep and are overtaken; over two keys they rotate; delays of
  1 and 3 make a later 429 end earlier.
- *Pipeline.* The questions 1, 2 and 4 with radius 1 have a similar and a dissimilar pair; a
  cache of one entry evicts at the second insertion.
- *Records.* The revision bound leaves room for an update, a delete and a later backup; two
  backups allow both orders.
- *Database.* Two openers share a process and its lock, the third is in another process; a
  file starts at any version, so every suffix of the chain is applied.
- *Telemetry.* Three instants with several records each: equal stamps, a window that slides
  past a page, a row that arrives between two pages. A log of at least two rows makes a second page.
- *Attribution.* A limit of four spans and two groups is reached by five spans, with and without a root; both
  limits are constants, and the proof is for any.
- *Agent.* An event keeps two references, so that a search with one chunk is already cut and a final decision can cite what no
  event holds. Five plans: plain, bounded, research with one objective and a cap of one entry, with two objectives
  of different companies, and with a shared chunk.
- *Campaigns.* A round of three over two campaigns of four slots each is the smallest where the round binds
  before the ledgers do.
- *Release.* Two versions of the code are "before" and "after"; two promoters, who are
  interchangeable, suffice for a race, and one fault for each place it can fall. `Raced` are the kinds with
  two candidates and two promotions, the others have one of each; promoters overlap for every kind. The
  theorems of section 5.8 have no such bounds.
- *Corpus.* Two files and two versions are the smallest mixture; one kill splits each script
  at each write.

Fairness. `AgentWorkers` assumes weak fairness of every consumer, of every interrupt thread and of
the lifespan: the event loop runs its ready tasks, the thread pool runs what it has, an operator restarts a
dead process. `RouteThreads` assumes it of the runner threads, of the restart and of each recovery
batch; of the stream's thread (every provider call has a timeout and returns or raises), the loop's
callbacks, the generator and the clock; and of the calls, whose SDK answers or times out. Nothing is assumed
of clients, crashes, shutdowns or storage errors. `ClaimedEvaluationsEnd` exempts behaviours with a
storage error: if the handler itself fails to write, the job waits for the recovery of the next restart.

## 4 Findings

### 4.1 Shown by a run

1. **A timed-out query is not discarded** (`timed_out_query`). `ARCHITECTURE.md:343`:
   "a timed-out worker may finish in the background and its result is discarded." The
   thread stores its turn or its cache entry after the 504.
2. **Imported items outlive their collection** (`collection_cascade`). The comment at
   `src/workspace/collections.py:986` says an item "can never outlive the container it
   was listed in". Items of a browser backup carry no `collectionId`, so
   `delete_collection` does not find them; the export then fails on them
   (`src/workspace/transfer.py:596`).
3. **Some finished runs cannot be evaluated** (`evaluated_runs`). `_decision_events`
   (`src/agent/evaluation.py:164`) refuses a decision event whose state is not running, but the row may be
   cancelling when a decision that was in flight is stored: evaluating such a run answers 503 for ever. A
   cancellation after the final decision, and a tool that reports its arguments invalid, are
   refused too. `RunsAreEvaluable` shows that no other run is.

### 4.2 Met while modelling

These are visible in the models, or in the code they translate; no run is spent on them.

- *Shutdown may leave a claimed run active.* `ARCHITECTURE.md:202` promises that it "commits
  interruption"; the awaits at `src/workspace/worker.py:185` and `:202` may be cancelled before the
  thread starts. The next startup recovers the run (`AdmittedRunsSettle`).
- *Turns are not bounded.* `ARCHITECTURE.md:433` says "a bounded number of turns"; `add_turn` never
  trims, only what is read is bounded (`src/memory/conversation_memory.py:35`).
- *Streaming bypasses numeric grounding* when nothing else is owed: the probe of the empty draft
  finds nothing, and the draft is streamed as it comes. `ProbeIsSound` states the exact limit.
- *Compaction may drop content that the enumeration contract demands*
  (`src/generation/answer_completion.py:403` against `src/generation/enumeration_completeness.py:346`).
- *The growth comparison's conclusion is fixed text* ("Microsoft Cloud is higher than AWS"), whichever
  values were disclosed, and the bounded dependency answer fails the assessment that the same module
  makes of answers.
- *Anchor packing and the intent-first counterfactual* may evict a chunk another pass relied on: the first drops
  coverage of a keyword group, the second an exact structured hit, which is why
  `StructuredKept` excepts it.
- *Inspection.* The store is asked for its nearest points before the document filter
  (`src/retrieval/hybrid_retriever.py:321`), so a filtered trace may be emptier than the scope is; an id that
  is stored but not loaded raises `KeyError`. Neither concerns `retrieve`.
- *A promotion of embeddings is called atomic* (`src/retrieval/embedding_generation.py:517`) and copies file
  by file. `ConsistentIsTrue` shows that the registry does not call the mixture consistent.
- *The identity of the file is read after its validation* (`src/workspace/database.py:264`): a file
  replaced in between is taken for the validated one. `ReadyIsCurrent` excepts exactly this.
- *An expired discovery snapshot answers 404, not 410*, once another search has evicted it.
- *A judge error without a message* reaches a name that is not bound (`src/evaluation/judge_checkpoint.py:226`):
  the process ends as by a kill, and the resume asks again.
- *Late spans* of a closed trace are neither kept nor counted.
- *An import may exceed `MAX_COLLECTIONS`* (`src/workspace/transfer.py:30`), after which the export is refused by
  its own validation.
- *A promotion may be lost.* `scripts/promote_phase2_result.py:338` checks the digest of the official file
  again after the archive, and `:342` replaces the file, with nothing that holds other promoters off in between. Of
  two promoters that have both checked, the second replaces the first one's result: it is in no archive, was compared
  with nothing, and the receipt of the first still names it. `PredecessorIsKept` and `NeverWorse` therefore speak
  of the releases in which no promotion was overtaken there (`Uncontested`); without that condition TLC refutes both
  within the bounds of the run.
- *`last_transport_metadata`* of a generator is overwritten by concurrent calls.

## 5 Proofs

Eight modules hold proofs; every lemma is checked to its last leaf. Each follows one pattern: an
inductive invariant, one lemma per action or group of actions that behave alike, and a theorem that
reads the property off the invariant.

### 5.1 The job repository, telemetry and attribution

`JobStore_proofs`, `DurableJobs_proofs`: for any finite set of jobs, any keys, steps, payloads,
callers and bounds; for any ended requests and jobs, page limits, window and retention; for any limits of a trace.

| Theorem | States |
|---|---|
| `TypeCorrect` | `Spec => []TypeOK` |
| `SnapshotSafety` | a snapshot with the current revision is the current row |
| `OutcomeSafety`, `LogSafety`, `WalkSafety`, `ConsistencySafety` | state, steps, result and failure agree; one event per revision; every log is a legal walk; together, the property of the run |
| `TerminalFinality`, `StepLegality`, `ForwardSafety` | a terminal job never changes; steps move along their table; together |
| `Refinement` | the repository implements `JobLifecycle` |
| `KeySafety` | a namespace and key never name two jobs |
| `PagingSafety` | the pages of one reader hold every row of the window once, newest first |
| `FactsFinality` | a recorded terminal fact never changes |
| `AttributionSafety` | a span that ended is kept, counted as dropped, or held by an open section; the root is in the trace exactly once (`SpansAreKept`, the heart of `EverySpanIsCounted`) |
| `ObservedComposition`, `ObservedSafety`, `ObservedFinality` | a behaviour of `ObservedJobs` is one of each of its parts, so that all of the above holds of it |

*Assumptions.* `StoreAssumption` (the set of jobs is finite, the bounds are naturals, `NoRow` and
`NoPayload` are not members of the sets they stand beside), `RevisionBound`, `TelemetryAssumption` (ids are
naturals and apart, limits are positive) and `AttributionAssumption` (positive limits).

*Argument.* Each method is shown once, in a lemma of its own (`CreateIsStep`, `TransitionIsStep`, ...),
to be a `StoreStep`: every job is left alone, created, or written once, along the state machines of job and
steps, with one revision and one event. `StoreStepInv` then shows that any `StoreStep` preserves `StoreInv`,
without looking at methods again. `StoreInv` strengthens the properties by what makes them inductive: the walk
needs the log to end in the row's state, and terminal rows need their outcome to be consistent, so none is
inductive alone. For the callers, `OldSnapshots` carries `SnapshotIsCurrent` over a step: a row that changes
gains a revision. The refinement needs that a caller's step writes at most one row; recovery maps to `Recover`
of its batch.

*Telemetry.* `PagesAreComplete` speaks of a walk that is over; `PageInv` says what a walk has reached: the rows of the
pages so far are all those before the cursor that were there when it began, and the page in hand (`FoundIsNewest`) is
the newest of the rest, with the lookahead row that tells whether there are more. It stays so while rows are
written late, because a cursor is a place in the order (`Later`) and not a number of rows. *Attribution.* `TraceOf` bounds
the trace, `Rootless` and `Rooted` say where its root is, and one equation adds what is kept, dropped, late and
deferred up to what was observed. Leaving a section records what it deferred by a recursive function. The induction
theorems cannot be instantiated, so that it is defined and keeps the equation (`FlushedExists`, `FlushedIsCounted`)
is argued by the least number of entries for which it would not (`Least`, from the well-foundedness of `<`).

### 5.2 The threads of the routes

`RouteThreads_proofs`, on top of `JobStore_proofs`: for any jobs, threads, cases, crashes and storage errors,
any size of the stream's queue, pool, tokens and callbacks, and any callers, retries, delays and pool of keys.

| Theorem | States |
|---|---|
| `EvaluationInvariant` | `Spec => []EInv` |
| `SpendingSafety` | one thread per job, each request sent once with a slot of its own, within a budget that is never too small |
| `CancellationSafety` | no slot is reserved once the job is not running |
| `ResultSafety` | what a reader sees is stored: cases in order, each paid for; progress no further than the cases; a report and a success only over the whole plan |
| `StreamSafety` | done is sent only after the whole answer is stored, nothing partial is cached or remembered, the record says what was sent, late work is at most the rest of one operation |
| `TerminalFinality` | after a terminal event the generator sends and awaits nothing |
| `CooldownSafety` | nobody sleeps while a key is ready; a cooling key is used only by a caller that was overtaken |
| `ThreadsComposition`, `ThreadsSafety`, `ThreadsFinality` | a behaviour of `RouteThreads` is one of each of its three parts, so that all of the above holds of it |

*Assumptions.* `StoreAssumption`, `EvaluationAssumption` (at least one case and one attempt to finish, the
two steps of the code, budgets are naturals), `StreamAssumption` and `PoolAssumption` (positive sizes).

*Evaluations.* None of the three is inductive: that a second thread never holds a job depends on rows never returning to
queued, and that no slot is ever denied depends on what a thread has spent. `EInv` says so in two halves.
`HoldersHaveClaimed`: a thread past its claim holds a row that is neither absent nor queued, and no other thread
holds it; `KeptRows` proves from `StoreStep` that no method makes a row queued again, so a second claim fails.
`SpentIsPassed`: nothing is spent before the claim, and afterwards the reserved slots are among those the
holder has passed (`Passed`, a function of where the thread is; `PassedGrows` says that going on only adds to
it). So the slot a thread is about to reserve is free, and `RoomForFreeSlot`, a fact about cardinalities, turns
the rule of `freeze_plan` (three calls per case) into room for it: `reserve_attempt` can refuse only because the
job is no longer running. Steps that spend nothing are one lemma (`MovePreserves`), used by all but
the claim and the reservation.

`ResultSafety` needs a second invariant, `RInv`, since the code writes a case, its progress and the report
in transactions of their own. `ResultsOf` says of each job what a reader may rely on between any two of
them, `StoredBy` what the thread that holds it has stored by now; the two meet where a case is committed before
its progress is reported. `EveryRowMoves` reduces any method of the repository, recovery of a batch
included, to one statement about a row, so a restart that fails a job in the middle of its cases needs no case of
its own.

*Streams.* The thread's program is a sequence, so the invariant is about what is left of it. `StreamInv` says: what is
left of every program has one store, and none once the answer is stored; there is a check of the event between any
two operations that make calls; and behind a token loop stands an event to hand out, where a stream that was told to stop leaves
before it stores (`Fits`). `CallsAreBounded` says of a call that ended late that the event is
set and that the thread is still in the operation of that call, its late calls and those under way within `Calls`, or
meets a check before the next operation. `StreamInv` also says which outcome goes with which last event. A branch puts the
rest of its program together from pieces, and the lemmas on `Joins` carry over what holds of the pieces.

*Keys.* `WaitIsCooldown`, the strengthening, says that a waiting caller knows what is left of its client's
cooldown unless it was overtaken; `Elapse` shortens both alike, and a 429 only ever extends a cooldown
(`LaterCooldown`).

### 5.3 The Agent's workers

`AgentWorkers_proofs`, on top of `JobStore_proofs`: for any jobs, consumers, clients, restarts and storage errors.

| Theorem | States |
|---|---|
| `WorkersInvariant` | `Spec => []WInv` |
| `ExecutionSafety` | no job has two owners, and no orchestrator is started twice |
| `EndingSafety` | the stored outcome is the orchestrator's, and no compare-and-set loop uses up its attempts |

*Assumptions.* `StoreAssumption` and `WorkersAssumption`: the Agent's single step, and `CASTries >= 3`, which the
code satisfies with exactly three.

*Argument.* A consumer may leave a thread behind that still writes its row: an interruption whose await was
cancelled, an append that outlives its task. `Held` collects the rows a consumer or such a thread may write;
`HoldersApart` and `HeldIsClaimed` keep them apart, again because no method makes a row queued. The retries are
the delicate part: three attempts are enough only because an owner has few rivals. `TriesFit` counts the
attempts used together with what the rivals can still cost: a running job may be cancelled once, and the
comparison in hand may already be out of date. `ThreadFits`, for an interruption, counts one more rival, the
append its consumer left behind. Every write of a rival moves one unit from what is possible to what has
happened, so the sum never grows, and the last attempt meets nobody.

### 5.4 The answer pipeline, the corpus and discovery

`AnswerPipeline_proofs`: for any requests, sessions, questions and filters, any size of cache and histories;
for any files, versions, generations, edits and kills; for any searches, readers, lifetimes and number of snapshots.

| Theorem | States |
|---|---|
| `PipelineInvariant` | `Spec => []PInv` |
| `ConversationSafety` | a history is a part of one life of its own session, in order; nothing said in a conversation comes from the cache |
| `HitSafety` | a cached answer was generated for the same filters and a question above the threshold |
| `TurnSafety` | a session loses no turn to a concurrent request |
| `CorpusSafety` | a manifest binds a collection that holds the generation it names, whatever overlaps and is killed (`CorpusIsSound`, all four parts) |
| `SnapshotSafety` | a snapshot that has not expired is evicted only for the sake of as many that expire later |

*Assumptions.* `PipelineAssumption` (positive bounds, questions and the radius are naturals),
`CorpusAssumption` (finitely many files) and `DiscoveryAssumption` (ids, lifetime and bounds are naturals).

*Pipeline.* The record of a request that has returned never changes again, and only such requests are
named by turns, by histories and by entries (`PInv`). So what was true of a turn or an entry when
it was stored is true when a later request reads it, whatever was evicted, expired, cleared or timed out in between.

*Corpus.* `CorpusInv` has one part per script. `IndexIsGuarded`: while a collection is rebuilt its manifest is away,
and what has been written is part of what was loaded. `CopyIsFaithful`: what a migrator has copied is in the
cloud, and nobody rewrites what it copies. Points of a collection differ in their ids, so that equal counts at the
end mean equal contents; this is where finiteness is needed.

*Discovery.* `StoreInv`: a snapshot that is gone has expired or has `MaxSnapshots` that expire later. An eviction takes
the first to expire (`FirstToExpire`), whose later ones are then all there. The argument does not use that
routes run one at a time.

### 5.5 The campaigns

`Campaign_proofs`: for any processes, campaigns, cases, budgets, prompt versions, kills, interrupts and starts.

| Theorem | States |
|---|---|
| `SpendingInvariant` | `Spec => []SpendInv` |
| `ReissueSafety` | a request goes out only when every earlier attempt of its operation is a recorded transport error |
| `BudgetSafety` | the requests sent are within the slots of the campaign and the budget of the round |
| `CourseInvariant` | `Spec => [](SpendInv /\ CourseInv)` |
| `LedgerSafety` | budgets hold, and a GO rests on a passed calibration and completed requests for every case |

*Assumption.* `CampaignAssumption`: the two kinds of campaign are disjoint, the bounds are naturals.

*Argument.* Two invariants, one about money and one about decisions. `SpendInv`: the lock file of a ledger has
one holder (`Apart`), whose open attempt is the last row of its operation, after transport errors only
(`OpenRow`); so rows are never fewer than requests, in the ledger of the campaign and in that of the round, and
both are bounded by counting slots. An operator removes a lock file only when its writer is gone, as the message
asks, so `Apart` survives it. `CourseInv`: every operation that lies behind a process in its program is
completed in the ledger, and so is every row of a checkpoint (`FilesAreBacked`), whoever completed it; an
evidence campaign moves in order and with one prompt version. It rests on two kinds of facts. `Grown` lists what
no step takes back (completed rows, passed calibrations, recorded answers), shown once for all actions. And a
program names every operation exactly once (`ProgramIs`, for any number of cases), so the end of a program is
every case. A GO is then what the last step of a program reads from files that are all backed.

### 5.6 The stores of a service

`WorkspaceRecords_proofs`: for any ids, contents and bounds of the records; for whatever files an opener finds, of any
version, with any receipts, damaged or short of a table; for any frozen plans of an Agent run.

| Theorem | States |
|---|---|
| `TypeCorrect` | `Spec => []TypeOK`, the bound of the activity history included |
| `RevisionSafety` | a revision a client holds names one version for ever |
| `DeletionFinality` | nothing brings a deleted record back, tombstones only grow |
| `ImportSafety` | a committed backup has nothing left to apply |
| `ParentSafety` | only an import can leave a member without its collection |
| `OpenedIsCurrent`, `OpeningSafety` | a thread that is told "ready" works on a sound file of the current version with every table |
| `MigrationSafety` | a thread that no other process and no new file disturbed is alone inside, and applies each migration on top of exactly those before it |
| `ToolSafety` | no tool starts after a cancellation, above the plan's calls, or twice where the plan forbids it |
| `AnswerSafety` | a completed run cites only what its model was shown, its events hold all of that or say that one was cut, and every objective not admitted to be open has cited evidence of its company in the stored ledger |
| `ServiceComposition`, `ServiceSafety`, `ServiceFinality` | a behaviour of `Service` is one of each of its parts, so that all of the above holds of it |

*Assumptions.* `BoundsAssumption`, `ValuesAssumption` (`None` and `Gone` are no contents, ids or records) and `EvidenceCapAssumption` (a
number). What may
be found on disk, and the plans, are hypotheses of the theorems (`FileIsRecord`, `PlanIsFrozen`): they say that a
file has receipts that are numbers and that a plan has a number of calls, and nothing of what is in them.
The theorems of the service instantiate them with the files and plans of the run.

*Records.* Each primitive is a `RecordStep`: every identity is kept, written with a higher revision while it
has no tombstone, or buried under a tombstone at least as new. Two strengthenings make the properties inductive.
`LiveOrBuried`: an identity is never live and buried at once. `HeldIsOlder`: what a client holds is older than
the live version, is the live version, or belongs to an identity that was deleted; without it a create could
bring a record back at the revision the client holds. `StaysApplied` is the heart of idempotence: an
entry with nothing to apply stays so under any `RecordStep`. `ParentSafety` alone looks at the
operations one by one, since it is about what the cascade selects.

*Opening.* `ReadyInv` says that what a thread has found out still holds (`CheckedSoFar`): the file is sound past its
integrity check, at least at the version read when the thread applies the next migration, current when it publishes.
It stays so because a file is only ever brought forward, whoever does it, and because a replacement gets a
new identity, which no receipt in memory names yet (`ToldOfThePast`). `LockInv`: everyone inside holds the lock
of its process, and strangers of another process count as a disturbance, so an undisturbed thread knows the file's next
migration.

*Run.* `CallInv`: the calls counted and the signatures remembered are those started, for as long as the orchestrator
lives. `SupportInv`: every reference the orchestrator or its ledger remembers was shown to the model (`MemoryIsShown`),
and what was shown is in the events of the durable row, or one of them says that it keeps only a part
(`ShownIsRecorded`). An event that keeps less than it was given counts more than `EvidenceCap` (`FirstRefsIs`), and an event
is never taken back, so an answer that was checked against memory (`AnswerStands`) stands on the row. The ledger learns from the chunks of an observation by a recursive function, which is
unfolded for the at most two chunks of one.

### 5.7 Beside each other

`RouteThreads`, `ObservedJobs` and `Service` are compositions without shared variables. Their `...Composition`
theorems show that a behaviour of the composition is a behaviour of each part, from the initial states and from every
step being a step of one part that leaves the others unchanged. What is proved of a part is then a theorem about the
specification that the run checks.

### 5.8 The release chain

`ScopeCampaign_proofs`: for any promoters, processes, deployments, kills, runs and questions, over the steps of the
orchestrator and of scripts run by hand.

| Theorem | States |
|---|---|
| `ReproductionSafety` | a candidate that needs vetting rests on two sound reproductions under one version of the code |
| `PredecessorSafety` | what a promotion was checked against is archived whole; and until a promotion is overtaken between its last check and its write, so is everything that was ever official and is not any more |
| `VettingSafety` | a candidate is reproduced; and until a promotion is so overtaken, what becomes official is complete and within the tolerances of the very result it replaces, for every kind, however promoters overlap |
| `PinSafety` | an orchestrator that reports a candidate ready has a report of the pinned code for every stage |
| `ScoreSafety` | every score in an output file was given to the answer beside it |
| `ResultBinding` | an output file has one binding, and one that calls itself eligible is complete |

*Assumptions.* `ReleaseAssumption` and `Phase2Assumption` (bounds are naturals, there is a version and a question, the
raced kinds are kinds, "failed" is no answer).

*Argument.* `EvidenceIsSound` follows the evidence from the sentinel reports through the reproducibility audit to the
candidate: a report belongs to its slot and passes only if it is sound, and a candidate names the slots and versions it rests on. `ArchivesAreWhole` says where each promoter is with the archive of the
result it is about to replace. `VettedInv` holds while no promotion was overtaken. The official results then form a
line (`Lineage`): each names the one before it, so none comes back once it has been replaced. A promoter takes
the digests first and loads the files later; what it pinned is official or already replaced (`Pinned`), so if its
last check finds it official it has been so all along, and what was compared is what is there (`Checked`).
`CampaignInv`: what a stage that is marked passed needs is still there for the code of
the manifest (`StagesAreTrue`); a deployment makes the manifest stale (`Fresh`), and the orchestrator then starts over.
`SlotInv` says nothing of the order of the rows in the checkpoints, where processes may mix, tear and wipe them, only that a
judgement was shown what its key names; what a process holds in memory is sound whatever it resumed
(`RunIsSound`), and an output file is the summary of such a process (`OutputIsOfARun`).

## 6 Limits

*Only model-checked.* What no theorem states, and why:

- Liveness: `AdmittedRunsSettle`, `ClaimedEvaluationsEnd`, `ThreadsEnd`. Fairness and `ENABLED` are beyond the provers.
- Sums over data: `SeriesAddUp`, `RemainderIsUncovered` and the part of `EverySpanIsCounted` about the counts of the phases. They
  fold over the records of a trace or the rows of a window with an operator as a parameter, and an induction over a
  fold cannot be instantiated.
- Concrete tables: `RowsSurvive` folds the statements of a migration over rows that the module spells out. `MigrationsDoNotRace`
  adds to `MigrationSafety` that those statements succeed on the file they then meet.
- The evaluator: `RunsAreEvaluable`, `ReportsParse` count and select over whole sequences of events.
- Decision procedures: `ResultsAreSound`, `PackingIsSound`, `AnswersAreSound`. They rank, sort, select and fold over chunks,
  lines and sources; what they compute for every input is an induction over data.

*Abstracted.* Prompts, texts and digests are model values; what a regular expression finds is a field of a record. SQLite
transactions are atomic and serialised. Time is reduced to "has passed", or to what is left. Scores of
retrieval are ranks, scores of evaluations multiples of 1/200. The external systems (SQLite, the vector database, the
provider, the file system) are modelled from how the code uses them and marked external in the map.

*Bounded more than the code.* The cases of packing, answering and searching are enumerations of what the code
tells apart with two or three chunks, sources or lines: they show that no combination of these breaks a property,
not that no larger one does.

*Left without a property, deliberately.* A queued evaluation is not dispatched again after a restart; a full
stream queue leaves a gap in the events; a cleared session reappears when a request in flight adds its turn;
`delete_item` resolves an id that is both an item's and a note's to the item; the turns of a session are
never trimmed. The models show these behaviours; no document says otherwise, or section 4.2 quotes it.

*Not modelled, and why.* The evaluation protocol, its publication and its statistics, document readers and their
layout, ingestion, access checks and presentation are one call in, one value out: no state survives the call and
the interesting part is the parsing itself. Settings, setup checks, downloads and one-off diagnostics keep no state another
actor changes. The user interface appears only as the author of backups. The v14 to v19 scope campaigns repeat
the orchestrator that `ScopeCampaign` models, for other strategies.

## 7 What could follow

1. Proofs of `RowsSurvive` for an arbitrary chain of migrations, which asks for a model of a migration by what it may
   do to a table rather than by its statements.
2. The document routes of `api/app.py` as readers of a corpus that is replaced under them.
3. Larger cases for `Answering` and `Packing`, if the state space of `questions` is split.
