------------------------------- MODULE Phase2 -------------------------------
(***************************************************************************)
(* run_phase2: answers and scores of one evaluation slot (a generation     *)
(* checkpoint, a judge checkpoint and an output file) that several         *)
(* processes of run_evaluation_phase2.py, or of a sentinel script, may     *)
(* share, resume after a crash, or wipe with --fresh.                      *)
(*                                                                         *)
(* The generation binding is a version number: a deployment that changes   *)
(* the artifact, the model, a prompt or a renderer changes it.  Questions  *)
(* are 1..N.  Retries leave no trace in a store and are one call here.     *)
(***************************************************************************)
EXTENDS Naturals, Sequences, FiniteSets, SequencesExt

CONSTANTS
  Procs,       \* processes
  N,           \* selected questions
  Answers,     \* answers a provider may give
  Versions,    \* generation bindings the deployments go through
  MaxStarts,   \* bound on process starts
  MaxCrashes   \* bound on kills

ASSUME Phase2Assumption ==
  /\ N \in Nat \ {0} /\ Versions \in Nat \ {0}
  /\ MaxStarts \in Nat /\ MaxCrashes \in Nat
  /\ "failed" \notin Answers

VARIABLES
  gen,       \* rows of the generation checkpoint
  jud,       \* rows of the judge checkpoint
  out,       \* output file
  torn,      \* checkpoints whose last line was cut off
  proc,      \* state of each process
  version,   \* binding of the deployed code
  starts, crashes

slotVars == <<gen, jud, out, torn, proc, version, starts, crashes>>

Questions == 1..N
(* SKIPPED_QUOTA and ERROR rows of a generation, and SKIPPED_QUOTA and      *)
(* PARSE_INVALID rows of a judgement, are treated alike.                   *)
GenStatus == {"failed"}
NoProcess == [pc |-> "idle"]
NoOutput == [kind |-> "none"]

(* What a process has in memory: its binding, the generation records and   *)
(* the judge records so far, in the order of the questions.                *)
Started(v) == [pc |-> "load", b |-> v, g |-> << >>, j |-> << >>, res |-> "none"]

SlotInit ==
  /\ gen = << >> /\ jud = << >> /\ out = NoOutput /\ torn = {}
  /\ proc = [p \in Procs |-> NoProcess]
  /\ version = 1 /\ starts = 0 /\ crashes = 0

(* A deployment; running processes keep the code they started with.        *)
Redeploy ==
  /\ version < Versions /\ starts < MaxStarts   \* bound: nothing starts after it otherwise
  /\ version' = version + 1
  /\ UNCHANGED <<gen, jud, out, torn, proc, starts, crashes>>

(* main up to run_phase2.  --fresh unlinks the three files one by one.     *)
LaunchRun(p) ==
  /\ proc[p].pc = "idle" /\ starts < MaxStarts
  /\ \E pc \in {"load", "unlink gen"} :
       proc' = [proc EXCEPT ![p] = [Started(version) EXCEPT !.pc = pc]]
  /\ starts' = starts + 1
  /\ UNCHANGED <<gen, jud, out, torn, version, crashes>>

Proceed(p, pc) == proc' = [proc EXCEPT ![p].pc = pc]
End(p) == proc' = [proc EXCEPT ![p] = NoProcess]

Unlink(p) ==
  /\ \/ /\ proc[p].pc = "unlink gen" /\ Proceed(p, "unlink jud")
        /\ gen' = << >> /\ torn' = torn \ {"gen"} /\ UNCHANGED <<jud, out>>
     \/ /\ proc[p].pc = "unlink jud" /\ Proceed(p, "unlink out")
        /\ jud' = << >> /\ torn' = torn \ {"jud"} /\ UNCHANGED <<gen, out>>
     \/ /\ proc[p].pc = "unlink out" /\ Proceed(p, "load")
        /\ out' = NoOutput /\ UNCHANGED <<gen, jud, torn>>
  /\ UNCHANGED <<version, starts, crashes>>

(***************************************************************************)
(* run_generation_phase, called with one question at a time.               *)
(***************************************************************************)
(* load_compatible: a torn line or a row of another binding raises; of the *)
(* OK rows of a question the last one counts.                              *)
Unreadable(b) == "gen" \in torn \/ \E i \in DOMAIN gen : gen[i].b # b
Compatible(r, b) == r.b = b /\ r.a \notin GenStatus
Resumed(q, b) == {i \in DOMAIN gen : gen[i].q = q /\ Compatible(gen[i], b)}
Latest(i, R) == i \in R /\ \A k \in R : k <= i

Asked(p) == Len(proc[p].g) + 1
Generated(r, row) == [r EXCEPT !.g = Append(@, row),
                               !.pc = IF Len(r.g) + 1 = N THEN "judge" ELSE "load"]
Stopped(r, row) == [r EXCEPT !.g = Append(@, row), !.pc = "write"]

LoadGenerationLatest(p) == \* mutant: the latest answer resumes, whatever its binding
  LET done == {i \in DOMAIN gen : gen[i].q = Asked(p) /\ gen[i].a \notin GenStatus}
  IN  /\ proc[p].pc = "load"
      /\ IF done = {} THEN Proceed(p, "generate")
         ELSE \E i \in done : /\ Latest(i, done)
                              /\ proc' = [proc EXCEPT ![p] = Generated(@, gen[i])]
      /\ UNCHANGED <<gen, jud, out, torn, version, starts, crashes>>

LoadGeneration(p) ==
  LET q == Asked(p)
      b == proc[p].b
  IN  /\ proc[p].pc = "load"
      /\ \/ /\ Unreadable(b) /\ End(p)
         \/ /\ ~Unreadable(b)
            /\ \E i \in Resumed(q, b) :
                 /\ Latest(i, Resumed(q, b))
                 /\ proc' = [proc EXCEPT ![p] = Generated(@, gen[i])]
         \/ /\ ~Unreadable(b) /\ Resumed(q, b) = {}
            /\ Proceed(p, "generate")
      /\ UNCHANGED <<gen, jud, out, torn, version, starts, crashes>>

(* The provider, its retries and the postprocessor of the draft.           *)
Generate(p) ==
  /\ proc[p].pc = "generate"
  /\ \E a \in Answers \cup GenStatus :
       proc' = [proc EXCEPT ![p].res = a, ![p].pc = "save gen"]
  /\ UNCHANGED <<gen, jud, out, torn, version, starts, crashes>>

(* The row is appended, behind whatever is in the file; an answer that is  *)
(* not OK stops the run before judging.                                    *)
SaveGeneration(p) ==
  LET row == [q |-> Asked(p), b |-> proc[p].b, a |-> proc[p].res]
  IN  /\ proc[p].pc = "save gen"
      /\ gen' = Append(gen, row)
      /\ proc' = [proc EXCEPT ![p] =
           IF row.a \in GenStatus THEN Stopped(@, row) ELSE Generated(@, row)]
      /\ UNCHANGED <<jud, out, torn, version, starts, crashes>>

(***************************************************************************)
(* run_judge_phase, again one question at a time.                          *)
(***************************************************************************)
(* compute_judge_binding covers the generation binding and the answer; a   *)
(* row keeps, beside its binding, what the judge was shown.                *)
JudgeBindingOfRun(g) == <<g.b>>  \* mutant: the answer is not hashed
JudgeBinding(g) == <<g.b, g.a>>
Judgements(g) ==
  {i \in DOMAIN jud : /\ jud[i].q = g.q /\ jud[i].key = JudgeBinding(g)
                      /\ jud[i].score = "scored"}

Judged(r, row) == [r EXCEPT !.j = Append(@, row),
                            !.pc = IF Len(r.j) + 1 = N THEN "write" ELSE "judge"]
Unjudged(r, row) == [r EXCEPT !.j = Append(@, row), !.pc = "write"]

LoadJudgement(p) ==
  LET g == proc[p].g[Len(proc[p].j) + 1]
  IN  /\ proc[p].pc = "judge"
      /\ \/ "jud" \in torn /\ End(p)
         \/ /\ "jud" \notin torn
            /\ \E i \in Judgements(g) :
                 /\ Latest(i, Judgements(g))
                 /\ proc' = [proc EXCEPT ![p] = Judged(@, jud[i])]
         \/ /\ "jud" \notin torn /\ Judgements(g) = {}
            /\ Proceed(p, "ask judge")
      /\ UNCHANGED <<gen, jud, out, torn, version, starts, crashes>>

AskJudge(p) ==
  /\ proc[p].pc = "ask judge"
  /\ \E s \in {"scored", "invalid", "error"} :
       proc' = [proc EXCEPT ![p].res = s, ![p].pc = "save jud"]
  /\ UNCHANGED <<gen, jud, out, torn, version, starts, crashes>>

(* A failure that is neither a schema error nor a quota error names a      *)
(* status that the module does not define: the NameError ends the process  *)
(* before the row is appended.                                             *)
SaveJudgement(p) ==
  LET g == proc[p].g[Len(proc[p].j) + 1]
      row == [q |-> g.q, key |-> JudgeBinding(g), score |-> proc[p].res,
              shown |-> <<g.b, g.a>>]
  IN  /\ proc[p].pc = "save jud"
      /\ IF proc[p].res = "error" THEN End(p) /\ UNCHANGED jud
         ELSE /\ jud' = Append(jud, row)
              /\ proc' = [proc EXCEPT ![p] =
                   IF row.score = "scored" THEN Judged(@, row) ELSE Unjudged(@, row)]
      /\ UNCHANGED <<gen, out, torn, version, starts, crashes>>

(***************************************************************************)
(* The end of run_phase2, and the output file.                             *)
(***************************************************************************)
AnsweredAll(r) == /\ Len(r.g) = N
                  /\ \A i \in DOMAIN r.g : r.g[i].a \notin GenStatus
ScoredAll(r) == /\ Len(r.j) = N
                /\ \A i \in DOMAIN r.j : r.j[i].score = "scored"

(* build_official_aggregate counts the records it is given, the gate of    *)
(* run_phase2 compares them with the selection.                            *)
Aggregate(r) ==
  LET ok == {i \in DOMAIN r.g : r.g[i].a \notin GenStatus}
      scored == {i \in DOMAIN r.j : r.j[i].score = "scored"}
  IN  ok # {} /\ Cardinality(ok) = Len(r.g)
      /\ Cardinality(scored) = Cardinality(ok)
Eligible(r) == Aggregate(r) /\ AnsweredAll(r) /\ ScoredAll(r)

Summary(r) ==
  [kind |-> "summary", b |-> r.b, eligible |-> Eligible(r), g |-> r.g, j |-> r.j]

WriteOutput(p) ==
  /\ proc[p].pc = "write"
  /\ out' = Summary(proc[p])
  /\ End(p)
  /\ UNCHANGED <<gen, jud, torn, version, starts, crashes>>

(* A kill between any two steps; the line or the file being written may be *)
(* cut off.                                                                *)
Crash(p) ==
  LET pc == proc[p].pc
      open == IF pc = "save gen" THEN {"gen"}
              ELSE IF pc = "save jud" THEN {"jud"} ELSE {}
  IN  /\ pc # "idle" /\ crashes < MaxCrashes
      /\ \E t \in {{}, open} : torn' = torn \cup t
      /\ out' \in IF pc = "write" THEN {out, [kind |-> "torn"]} ELSE {out}
      /\ End(p)
      /\ crashes' = crashes + 1
      /\ UNCHANGED <<gen, jud, version, starts>>

RunStep(p) == \/ Unlink(p) \/ LoadGeneration(p) \/ Generate(p) \/ SaveGeneration(p)
           \/ LoadJudgement(p) \/ AskJudge(p) \/ SaveJudgement(p)
           \/ WriteOutput(p)

SlotNext == Redeploy \/ \E p \in Procs : LaunchRun(p) \/ RunStep(p) \/ Crash(p)

SlotSpec == SlotInit /\ [][SlotNext]_slotVars
SlotSymmetry == Permutations(Procs) \cup Permutations(Answers)

(***************************************************************************)
(* Properties.                                                             *)
(***************************************************************************)
(* "Identity tying judge scores to exactly these generated answers": every *)
(* score of an output file was given to the answer printed beside it, for  *)
(* all resumes, wipes and concurrent runs of the slot.                     *)
ScoresMatchAnswers ==
  out.kind = "summary" =>
    \A i \in DOMAIN out.j : /\ out.j[i].q = out.g[i].q
                            /\ out.j[i].shown = <<out.g[i].b, out.g[i].a>>

(* "stale or mixed contexts cannot resume": every answer of an output file *)
(* was generated under the binding the file names, question by question.   *)
AnswersAreBound ==
  out.kind = "summary" =>
    \A i \in DOMAIN out.g : out.g[i].b = out.b /\ out.g[i].q = i

(* An eligible result has an answer and a score for every selected         *)
(* question, although a run that stops early leaves later questions        *)
(* without any record.                                                     *)
EligibleIsComplete ==
  out.kind = "summary" /\ out.eligible =>
    \A q \in Questions :
      /\ \E i \in DOMAIN out.g : out.g[i].q = q /\ out.g[i].a \in Answers
      /\ \E i \in DOMAIN out.j : out.j[i].q = q /\ out.j[i].score = "scored"

(* A result is what its file says: of one binding, and complete if it      *)
(* calls itself eligible.                                                  *)
ResultsAreBound == AnswersAreBound /\ EligibleIsComplete
=============================================================================
