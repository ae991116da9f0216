------------------------------ MODULE AgentRun ------------------------------
(***************************************************************************)
(* One Agent run from the inside (src/agent): the orchestrator asks a      *)
(* model for one decision after the other, checks it against the frozen    *)
(* plan, the budgets and the research ledger, invokes a tool, projects     *)
(* what it returns, and records every decision in the durable row, which   *)
(* another thread may cancel and a restart interrupts.  When the run is    *)
(* over, an evaluator reads the row and its events, and refuses them when  *)
(* they contradict each other.                                             *)
(*                                                                         *)
(* A source is a chunk; its document is that of its ticker, and a search   *)
(* has one identity.  Bytes and texts are left out: a projection may drop  *)
(* the last records, and an answer may name an identity it does not cite.  *)
(* An event keeps the first EvidenceCap references of what was observed or *)
(* cited (eight in the code), and how many there were.                     *)
(***************************************************************************)
EXTENDS Naturals, FiniteSets, Sequences, SequencesExt

CONSTANT EvidenceCap       \* evidence_refs[:8] of AgentEventSummary

ASSUME EvidenceCapAssumption == EvidenceCap \in Nat

VARIABLES
  plan,      \* the frozen plan
  turn,      \* the orchestrator: AgentState, where it is, the decision at hand
  ledger,    \* ResearchSession: entries, attempts, seen, capped
  runRow,    \* the durable row: its state, its events, its result
  begun,     \* history: the calls that were started
  shown      \* history: the references of the observations that the model was shown
runVars == <<plan, turn, ledger, runRow, begun, shown>>

Tools == {"search", "inspect", "read", "ask"}
Provider == "ask"                       \* provider_execution
Chunks == {1, 2}
TickerOf(c) == IF c = 1 THEN "A" ELSE "B"
Objectives == {"o1", "o2"}
NoObjective == "none"
Terminal == {"succeeded", "failed", "cancelled", "interrupted"}
Ref(kind, c) == <<kind, c>>
SearchRef == Ref("search", 0)
RefsOf(c) == {Ref("chunk", c), Ref("document", c)}
Place(r) == CASE r[1] = "chunk" -> r[2] [] r[1] = "document" -> 2 + r[2] [] OTHER -> 5   \* sorted(refs)
NoDecision == [kind |-> "none"]
NoResult == [status |-> "none"]

(* The plans: research with scoped objectives, or a plain goal.            *)
PlainPlan == [steps |-> 3, calls |-> 2, perTool |-> 1, observations |-> 2, allowed |-> Tools,
              provider |-> TRUE, observe |-> TRUE, unique |-> TRUE, decide |-> TRUE, research |-> FALSE,
              scope |-> [o \in Objectives |-> "any"], cap |-> 0, searches |-> 0, enough |-> 0]
ResearchPlan == [PlainPlan EXCEPT !.perTool = 2, !.research = TRUE, !.cap = 2, !.searches = 1,
                                  !.enough = 1, !.provider = FALSE]
AgentPlans == {PlainPlan, [PlainPlan EXCEPT !.decide = FALSE],
               [PlainPlan EXCEPT !.calls = 1, !.steps = 2, !.allowed = {"search", "ask"}],
               [ResearchPlan EXCEPT !.scope = [o \in Objectives |-> IF o = "o1" THEN "A" ELSE "B"]],
               [ResearchPlan EXCEPT !.cap = 1, !.calls = 3, !.observations = 3, !.allowed = {"search", "read"}]}

(***************************************************************************)
(* The durable row.                                                        *)
(***************************************************************************)
RecordTrace(summary) ==
  runRow' = [runRow EXCEPT !.events = Append(@, [type |-> "decision", state |-> runRow.state,
                                                 summary |-> summary])]
Transition(type, state, result) ==
  runRow' = [state |-> state, result |-> result,
             events |-> Append(runRow.events, [type |-> type, state |-> state, summary |-> NoDecision])]
(* What the orchestrator holds in memory.                                  *)
NewTurn == [at |-> "loop", decision |-> NoDecision, status |-> "none", code |-> "none", steps |-> 0,
            decisions |-> 0, calls |-> 0, perTool |-> [t \in Tools |-> 0], observed |-> << >>, seen |-> {}]
NewLedger == [entries |-> {}, seen |-> {}, capped |-> FALSE, attempts |-> [o \in Objectives |-> 0]]
Leaves == turn' = [NewTurn EXCEPT !.at = "gone"] /\ ledger' = NewLedger
Cancelled == runRow.state # "running"    \* _DurableCancellationSignal
RequestCancel ==
  /\ runRow.state = "running" /\ Transition("state", "cancelling", NoResult)
  /\ UNCHANGED <<plan, turn, ledger, begun, shown>>
(* The process ends; the next one marks the run, and never resumes it.     *)
Interrupt ==
  /\ runRow.state \in {"running", "cancelling"} /\ Transition("interrupted", "interrupted", NoResult)
  /\ Leaves /\ UNCHANGED <<plan, begun, shown>>

(***************************************************************************)
(* Research: the ledger.                                                   *)
(***************************************************************************)
EntriesOf(o) == {e \in ledger.entries : o \in e.objectives}
Coverage(o) == IF EntriesOf(o) = {} THEN "none"
               ELSE IF Cardinality(EntriesOf(o)) < plan.enough THEN "some" ELSE "sufficient"
GapCode(o) == IF ledger.capped THEN "ledger_full"
              ELSE IF ledger.attempts[o] >= plan.searches THEN "search_exhausted"
              ELSE IF Coverage(o) = "none" THEN "no_evidence" ELSE "below_threshold"
Gaps == {o \in Objectives : Coverage(o) # "sufficient"}
Summary ==
  IF ~plan.research THEN [entries |-> {}, coverage |-> << >>, gaps |-> << >>, attempts |-> << >>, capped |-> FALSE]
  ELSE [entries |-> ledger.entries, coverage |-> [o \in Objectives |-> Coverage(o)],
        gaps |-> [o \in Gaps |-> GapCode(o)], attempts |-> ledger.attempts, capped |-> ledger.capped]
BeforeTool(d) ==
  LET scope == plan.scope[d.objective]
  IN  IF d.objective = NoObjective THEN "research_objective_required"
      ELSE IF scope # "any" /\ d.ticker # scope THEN "research_scope_mismatch"
      ELSE IF <<d.objective, d.tool, d.ticker>> \in ledger.seen THEN "duplicate_tool_call"
      ELSE IF d.tool = "search" /\ ledger.attempts[d.objective] >= plan.searches
      THEN "research_search_limit" ELSE "none"
Started(d) ==
  [ledger EXCEPT !.seen = @ \cup {<<d.objective, d.tool, d.ticker>>},
                 !.attempts[d.objective] = IF d.tool = "search" THEN @ + 1 ELSE @]
\* Mutant: a known chunk takes another place in the ledger.
WithChunkAgain(l, d, c) ==
  IF Cardinality(l.entries) >= plan.cap THEN [l EXCEPT !.capped = TRUE]
  ELSE [l EXCEPT !.entries = @ \cup {[chunk |-> c, objectives |-> {d.objective}, tool |-> d.tool,
                                      step |-> turn.steps]}]
AlsoFor(e, o) == [e EXCEPT !.objectives = @ \cup {o}]
WithChunk(l, d, c) ==
  LET known == {e \in l.entries : e.chunk = c}
  IN  IF plan.scope[d.objective] \notin {"any", TickerOf(c)} THEN l
      ELSE IF known # {}
      THEN [l EXCEPT !.entries = (@ \ known) \cup {AlsoFor(e, d.objective) : e \in known}]
      ELSE IF Cardinality(l.entries) >= plan.cap THEN [l EXCEPT !.capped = TRUE]
      ELSE [l EXCEPT !.entries = @ \cup {[chunk |-> c, objectives |-> {d.objective}, tool |-> d.tool,
                                          step |-> turn.steps]}]
Observed(d, chunks) ==
  LET after[n \in 0..Len(chunks)] == IF n = 0 THEN ledger ELSE WithChunk(after[n - 1], d, chunks[n])
  IN  after[Len(chunks)]
ResearchFinal(d) ==
  LET cited(e) == RefsOf(e.chunk) \cap d.refs # {}
  IN  IF d.unresolved # Gaps THEN "research_unresolved_mismatch"
      ELSE IF ~(d.refs \subseteq UNION {RefsOf(e.chunk) : e \in ledger.entries})
      THEN "invalid_evidence_reference"
      ELSE IF \E o \in Objectives \ Gaps : \A e \in EntriesOf(o) : ~cited(e)
      THEN "research_objective_uncited" ELSE "none"

(***************************************************************************)
(* The orchestrator.                                                       *)
(***************************************************************************)
RefsSeen == UNION {turn.observed[n].refs : n \in DOMAIN turn.observed}
FinalFailure(d) ==
  IF plan.observe /\ turn.observed = << >> THEN "final_without_observation"
  ELSE IF ~(d.refs \subseteq RefsSeen) THEN "invalid_evidence_reference"
  ELSE IF d.stray THEN "invalid_citation"
  ELSE IF plan.research THEN ResearchFinal(d) ELSE "none"
Ended(status, code) ==
  turn' = [turn EXCEPT !.at = "finish", !.status = status, !.code = code, !.decision = NoDecision]
(* What an event keeps of the references: the first ones, in their order   *)
(* (a final decision is taken to name its references in that order).       *)
Rank(r, refs) == Cardinality({q \in refs : Place(q) <= Place(r)})
FirstRefs(refs) == {r \in refs : Rank(r, refs) <= EvidenceCap}
Event(d, outcome, code, refs) ==
  [kind |-> d.kind, tool |-> IF d.kind = "tool" THEN d.tool ELSE "none",
   objective |-> IF d.kind = "tool" THEN d.objective ELSE NoObjective, outcome |-> outcome,
   code |-> code, refs |-> FirstRefs(refs), count |-> Cardinality(refs),
   index |-> turn.decisions, steps |-> turn.steps, calls |-> turn.calls]

(* A call of the model, and what it answers.                               *)
Decide ==
  /\ turn.at = "loop"
  /\ IF ~plan.decide THEN Ended("policy_denied", "decision_provider_required")
     ELSE IF turn.decisions = plan.steps THEN Ended("budget_exhausted", "max_steps")
     ELSE IF Cancelled THEN Ended("cancelled", "cancelled")
     ELSE turn' = [turn EXCEPT !.at = "deciding", !.decisions = @ + 1]
  /\ UNCHANGED <<plan, ledger, runRow, begun, shown>>
Calls == [kind : {"tool"}, tool : Tools \cup {"unknown"}, ticker : {"A", "B"}, valid : BOOLEAN,
          objective : IF plan.research THEN Objectives \cup {NoObjective} ELSE {NoObjective, "o1"}]
Finals == [kind : {"final"}, refs : SUBSET {Ref("chunk", 1), Ref("document", 2), SearchRef},
           unresolved : IF plan.research THEN SUBSET Objectives ELSE {{}, {"o1"}}, stray : BOOLEAN]
(* The arguments are valid but where a case is about their validity.       *)
Decisions == {d \in Calls : d.valid \/ d = [d EXCEPT !.tool = "read", !.ticker = "A"]} \cup Finals
ModelAnswers == turn.at = "deciding" /\ \E d \in Decisions :
  /\ IF Cancelled THEN Ended("cancelled", "cancelled")
     ELSE turn' = [turn EXCEPT !.at = d.kind, !.decision = d, !.steps = @ + 1]
  /\ UNCHANGED <<plan, ledger, runRow, begun, shown>>
(* A failing provider; a response that cannot be read, or breaks the       *)
(* schema, is recorded; a decision that cannot be parsed too.              *)
ModelFails == turn.at = "deciding" /\ \E code \in {"unavailable", "provider", "internal"} :
  /\ Ended(IF code = "unavailable" THEN "unavailable" ELSE "failed", code)
  /\ UNCHANGED <<plan, ledger, runRow, begun, shown>>
ModelRejected == turn.at = "deciding" /\ \E code \in {"invalid_response", "malformed_decision"} :
  /\ IF code = "malformed_decision" /\ Cancelled
     THEN Ended("cancelled", "cancelled") /\ UNCHANGED runRow
     ELSE /\ RecordTrace(Event([kind |-> "invalid"], "rejected", code, {}))
          /\ Ended("invalid_decision", code)
  /\ UNCHANGED <<plan, ledger, begun, shown>>

(* A final decision.                                                       *)
Final ==
  /\ turn.at = "final"
  /\ LET d == turn.decision
         code == IF ~plan.research /\ d.unresolved # {} THEN "research_unresolved_mismatch" ELSE FinalFailure(d)
     IN  IF code # "none"
         THEN RecordTrace(Event(d, "rejected", code, {})) /\ Ended("invalid_decision", code)
         ELSE /\ RecordTrace(Event(d, "completed", "none", d.refs))
              /\ turn' = [turn EXCEPT !.at = "finish", !.status = "completed"]
  /\ UNCHANGED <<plan, ledger, begun, shown>>

(* A tool decision: validity, policy, research and budgets, in this order. *)
Status(code) ==
  CASE code \in {"tool_not_allowed", "tool_provider_required"} -> "policy_denied"
    [] code \in {"max_tool_calls", "per_tool_limit", "max_observations"} -> "budget_exhausted"
    [] OTHER -> "invalid_decision"
ToolFailure(d) ==
  LET research == IF ~plan.research THEN IF d.objective # NoObjective THEN "research_objective_required" ELSE "none"
                  ELSE IF d.objective = NoObjective THEN "research_objective_required" ELSE BeforeTool(d)
  IN  IF d.tool \notin Tools THEN "unknown_tool"
      ELSE IF d.tool \notin plan.allowed THEN "tool_not_allowed"
      ELSE IF d.tool = Provider /\ ~plan.provider THEN "tool_provider_required"
      ELSE IF ~d.valid THEN "invalid_arguments"
      ELSE IF research # "none" THEN research
      ELSE IF turn.calls >= plan.calls THEN "max_tool_calls"
      ELSE IF turn.perTool[d.tool] >= plan.perTool THEN "per_tool_limit"
      ELSE IF Len(turn.observed) >= plan.observations THEN "max_observations"
      ELSE IF plan.unique /\ <<d.tool, d.ticker>> \in turn.seen THEN "duplicate_tool_call" ELSE "none"
RejectTool ==
  /\ turn.at = "tool" /\ ToolFailure(turn.decision) # "none"
  /\ LET code == ToolFailure(turn.decision)
     IN  RecordTrace(Event(turn.decision, "rejected", code, {})) /\ Ended(Status(code), code)
  /\ UNCHANGED <<plan, ledger, begun, shown>>
\* Mutant: the signal is not looked at before the tool.
MayStartAlways == TRUE
MayStart == ~Cancelled
StartTool ==
  /\ turn.at = "tool" /\ ToolFailure(turn.decision) = "none"
  /\ LET d == turn.decision
     IN  IF ~MayStart THEN Ended("cancelled", "cancelled") /\ UNCHANGED <<ledger, begun>>
         ELSE /\ turn' = [turn EXCEPT !.at = "invoking", !.seen = @ \cup {<<d.tool, d.ticker>>},
                                      !.calls = @ + 1, !.perTool[d.tool] = @ + 1]
              /\ ledger' = IF plan.research THEN Started(d) ELSE ledger
              /\ begun' = Append(begun, <<d.tool, d.ticker>>)
  /\ UNCHANGED <<plan, runRow, shown>>
(* What a tool raises; a discovery error, or a ValueError of a service, is *)
(* reported as invalid arguments.                                          *)
ToolFails == turn.at = "invoking" /\
  \E code \in {"tool_unavailable", "tool_execution_failed", "invalid_arguments"} :
    /\ RecordTrace(Event(turn.decision, "failed", code, {}))
    /\ Ended(CASE code = "tool_unavailable" -> "unavailable" [] code = "invalid_arguments" -> "invalid_decision"
               [] OTHER -> "failed", code)
    /\ UNCHANGED <<plan, ledger, begun, shown>>
(* A projection keeps the first records, or does not fit, or is unsafe.    *)
ToolProjectionFails == turn.at = "invoking" /\ \E code \in {"observation_bytes", "invalid_observation"} :
  /\ RecordTrace(Event(turn.decision, "failed", code, {}))
  /\ Ended(IF code = "observation_bytes" THEN "budget_exhausted" ELSE "failed", code)
  /\ UNCHANGED <<plan, ledger, begun, shown>>
Returned(d) == IF d.tool = "read" THEN {<< >>, IF d.ticker = "A" THEN <<1>> ELSE <<2>>}
               ELSE {<< >>, <<1>>, <<2, 1>>}
ToolReturns == turn.at = "invoking" /\ \E chunks \in Returned(turn.decision) :
  LET d == turn.decision
      refs == (UNION {RefsOf(c) : c \in ToSet(chunks)}) \cup (IF d.tool = "search" THEN {SearchRef} ELSE {})
                \cup (IF d.tool = "read" /\ chunks = << >>
                      THEN {Ref("document", IF d.ticker = "A" THEN 1 ELSE 2)} ELSE {})
  IN  /\ turn' = [turn EXCEPT !.at = "loop", !.decision = NoDecision, !.observed = Append(@, [refs |-> refs])]
      /\ ledger' = IF plan.research THEN Observed(d, chunks) ELSE ledger
      /\ RecordTrace(Event(d, "observed", "none", refs))
      /\ shown' = shown \cup refs
      /\ UNCHANGED <<plan, begun>>

(* _finish: the row is read again; a cancellation that was requested after *)
(* the last boundary wins.                                                 *)
ResultOf(status) ==
  [status |-> status, refs |-> IF status = "completed" THEN turn.decision.refs ELSE {},
   code |-> IF status = "cancelled" THEN "none" ELSE turn.code, steps |-> turn.steps,
   decisions |-> turn.decisions, calls |-> turn.calls, perTool |-> turn.perTool,
   observations |-> Len(turn.observed), research |-> Summary]
Finish ==
  /\ turn.at = "finish" /\ runRow.state \in {"running", "cancelling"}
  /\ IF runRow.state = "cancelling" THEN Transition("state", "cancelled", ResultOf("cancelled"))
     ELSE Transition("state", IF turn.status = "completed" THEN "succeeded" ELSE "failed", ResultOf(turn.status))
  /\ Leaves /\ UNCHANGED <<plan, begun, shown>>
(* An exception: the row cannot be read, the trace cannot be written, or   *)
(* the result is too large.  There is no result.                           *)
Abandon ==
  /\ turn.at # "gone" /\ runRow.state \in {"running", "cancelling"}
  /\ Transition("state", IF runRow.state = "cancelling" THEN "cancelled" ELSE "failed", NoResult)
  /\ Leaves /\ UNCHANGED <<plan, begun, shown>>

StartedWith(plans) ==
  /\ plan \in plans
  /\ turn = NewTurn /\ ledger = NewLedger
  /\ runRow = [state |-> "running", result |-> NoResult,
               events |-> <<[type |-> "created", state |-> "queued", summary |-> NoDecision],
                            [type |-> "state", state |-> "running", summary |-> NoDecision]>>]
  /\ begun = << >> /\ shown = {}
RunInit == StartedWith(AgentPlans)
RunNext ==
  \/ RequestCancel \/ Interrupt
  \/ Decide \/ ModelAnswers \/ ModelFails \/ ModelRejected
  \/ Final \/ RejectTool \/ StartTool \/ ToolFails \/ ToolProjectionFails \/ ToolReturns
  \/ Finish \/ Abandon
RunSpec == RunInit /\ [][RunNext]_runVars

(***************************************************************************)
(* The evaluator of a recorded run.                                        *)
(***************************************************************************)
DecisionEvents == SelectSeq(runRow.events, LAMBDA e : e.type = "decision")
Sums == [n \in DOMAIN DecisionEvents |-> DecisionEvents[n].summary]
ToolSums(outcomes) == SelectSeq(Sums, LAMBDA s : s.kind = "tool" /\ s.outcome \in outcomes)
Admitted == ToolSums({"observed", "failed"})
Finished == SelectSeq(Sums, LAMBDA s : s.kind = "final" /\ s.outcome = "completed")
PolicyDenials == {"tool_not_allowed", "tool_provider_required", "max_steps", "max_tool_calls", "per_tool_limit",
                  "max_observations", "observation_bytes", "research_objective_required",
                  "research_scope_mismatch", "research_search_limit"}
ToolFailures == {"tool_unavailable", "tool_execution_failed", "invalid_observation", "observation_bytes"}
HasResult == runRow.result # NoResult
SnapshotHolds ==
  LET e == runRow.events  r == runRow.result
  IN  /\ Len(e) >= 2 /\ e[1].type = "created" /\ e[Len(e)].state = runRow.state
      /\ runRow.state \in {"succeeded", "failed"} => e[Len(e)].type = "state"
      /\ runRow.state = "interrupted" => e[Len(e)].type = "interrupted" /\ ~HasResult
      /\ runRow.state = "succeeded" => HasResult
      /\ HasResult =>
           /\ runRow.state = "succeeded" <=> r.status = "completed"
           /\ r.decisions <= plan.steps /\ r.steps <= r.decisions
           /\ r.calls <= plan.calls /\ r.observations <= plan.observations
           /\ \A t \in Tools : r.perTool[t] <= plan.perTool /\ (r.perTool[t] > 0 => t \in plan.allowed)
SummaryHolds(n) ==
  LET s == Sums[n]
      steps == IF n = 1 THEN 0 ELSE Sums[n - 1].steps
      calls == IF n = 1 THEN 0 ELSE Sums[n - 1].calls
  IN  /\ DecisionEvents[n].state = "running" /\ s.index = n
      /\ s.steps = (IF s.kind = "invalid" THEN steps ELSE steps + 1) /\ s.steps <= plan.steps
      /\ s.calls = (IF s.kind = "tool" /\ s.outcome \in {"observed", "failed"} THEN calls + 1 ELSE calls)
      /\ s.calls <= plan.calls
      /\ Cardinality(s.refs) = (IF s.count <= EvidenceCap THEN s.count ELSE EvidenceCap)
      /\ s.kind = "tool" /\ s.outcome = "failed" => s.code \in ToolFailures
      /\ s.kind = "tool" /\ s.outcome = "rejected" =>
           s.code \in PolicyDenials \cup {"unknown_tool", "invalid_arguments", "duplicate_tool_call"}
      /\ s.kind = "tool" /\ s.outcome # "rejected" => s.tool \in plan.allowed
CountersHold ==
  LET r == runRow.result
  IN  /\ Len(Sums) <= r.decisions /\ Len(Admitted) = r.calls
      /\ Len(ToolSums({"observed"})) = r.observations
      /\ \A t \in Tools : Len(SelectSeq(Admitted, LAMBDA s : s.tool = t)) = r.perTool[t]
      /\ IF r.status = "completed"
         THEN Len(Finished) = 1 /\ Finished[1].refs = FirstRefs(r.refs) /\ Finished[1].count = Cardinality(r.refs)
         ELSE Finished = << >>
ResearchHolds ==
  LET r == runRow.result.research
      found(o) == {e \in r.entries : o \in e.objectives}
  IN  /\ r.capped => Cardinality(r.entries) = plan.cap
      /\ \A o \in Objectives :
           /\ r.coverage[o] = (IF found(o) = {} THEN "none"
                               ELSE IF Cardinality(found(o)) < plan.enough THEN "some" ELSE "sufficient")
           /\ o \in DOMAIN r.gaps <=> r.coverage[o] # "sufficient"
           /\ r.attempts[o] = Len(SelectSeq(Admitted, LAMBDA s : s.tool = "search" /\ s.objective = o))
      /\ \A e \in r.entries :
           /\ \A o \in e.objectives : plan.scope[o] \in {"any", TickerOf(e.chunk)}
           /\ \E n \in DOMAIN Admitted :
                /\ Admitted[n].outcome = "observed" /\ Admitted[n].steps = e.step
                /\ Admitted[n].tool = e.tool /\ Admitted[n].objective \in e.objectives
(* What the events say that tools returned, and whether one of them says   *)
(* that it keeps only a part of it.                                        *)
ObservedSums ==
  {e.summary : e \in {x \in ToSet(runRow.events) :
                       x.type = "decision" /\ x.summary.kind = "tool" /\ x.summary.outcome = "observed"}}
ObservedRefs == UNION {s.refs : s \in ObservedSums}
IncompleteRefs == \E s \in ObservedSums : s.count > EvidenceCap
UnseenRefs ==
  runRow.result.refs \ (IF plan.research THEN UNION {RefsOf(e.chunk) : e \in runRow.result.research.entries}
                        ELSE ObservedRefs)
FinalRefsHold ==
  runRow.result.status = "completed" /\ UnseenRefs # {} => ~plan.research /\ IncompleteRefs
Accepted ==
  /\ SnapshotHolds /\ \A n \in DOMAIN Sums : SummaryHolds(n)
  /\ HasResult => /\ CountersHold /\ FinalRefsHold
                  /\ plan.research => ResearchHolds

(***************************************************************************)
(* The report of an accepted run: its metrics, and facts that a reader of  *)
(* the report checks the metrics against.                                  *)
(***************************************************************************)
MetricKinds ==
  [m \in {"execution_completed", "budget_exhausted", "decision_provider_unavailable"} |-> "boolean"]
  @@ [m \in {"recorded_tools", "admitted_tools", "invalid_tools", "policy_denials", "duplicates",
             "tool_unavailable", "invalid_finals", "evidence_count", "documents", "chunks"} |-> "count"]
  @@ [m \in {"admission", "tool_failures", "step_budget", "tool_budget", "evidence_identity",
             "final_references", "objective_coverage", "unresolved_gaps"} |-> "ratio"]
ResearchMetrics == {"objective_coverage", "unresolved_gaps", "evidence_count", "documents", "chunks"}
ResultMetrics == {"step_budget", "tool_budget", "budget_exhausted", "decision_provider_unavailable"}
Computed(n, d) == [status |-> "computed", num |-> n, den |-> d]
Flag(b) == Computed(IF b THEN 1 ELSE 0, 1)
Count(n) == Computed(n, 0)
Missing(status) == [status |-> status, num |-> 0, den |-> 0]
Ratio(n, d) == IF d = 0 THEN Missing("not_applicable") ELSE Computed(n, d)
Failure == IF HasResult THEN runRow.result.code ELSE "none"
ProviderDenied == IF Failure = "decision_provider_required" THEN 1 ELSE 0
Rejections(codes) == Len(SelectSeq(ToolSums({"rejected"}), LAMBDA s : s.code \in codes))
ToolMetrics ==
  LET recorded == Len(Admitted) + Len(ToolSums({"rejected"}))
      failures == ToolSums({"failed"})
  IN  [recorded_tools |-> Count(recorded), admitted_tools |-> Count(Len(Admitted)),
       admission |-> Ratio(Len(Admitted), recorded),
       invalid_tools |-> Count(Rejections({"unknown_tool", "invalid_arguments"})),
       policy_denials |-> Count(Rejections(PolicyDenials) + ProviderDenied),
       duplicates |-> Count(Rejections({"duplicate_tool_call"})),
       tool_failures |-> Ratio(Len(failures), Len(Admitted)),
       tool_unavailable |-> Count(Len(SelectSeq(failures, LAMBDA s : s.code = "tool_unavailable"))),
       invalid_finals |-> Count(Len(SelectSeq(Sums, LAMBDA s : s.kind = "final" /\ s.outcome = "rejected")))]
ResultValues ==
  LET r == runRow.result
  IN  IF ~HasResult THEN [m \in ResultMetrics |-> Missing("unavailable")]
      ELSE [step_budget |-> Ratio(r.steps, plan.steps), tool_budget |-> Ratio(r.calls, plan.calls),
            budget_exhausted |-> Flag(r.status = "budget_exhausted"),
            decision_provider_unavailable |-> Flag(r.code = "unavailable")]
ResearchValues ==
  LET r == runRow.result.research
      sufficient == {o \in Objectives : r.coverage[o] = "sufficient"}
      n == Cardinality(Objectives)
      held == Cardinality({e.chunk : e \in r.entries})
  IN  IF ~plan.research
      THEN [m \in ResearchMetrics |-> Missing("not_applicable")]
           @@ "evidence_identity" :> Missing(IF ToolSums({"observed"}) # << >> THEN "unavailable" ELSE "not_applicable")
      ELSE IF ~HasResult THEN [m \in ResearchMetrics \cup {"evidence_identity"} |-> Missing("unavailable")]
      ELSE [evidence_identity |-> Ratio(Cardinality(r.entries), Cardinality(r.entries)),
            objective_coverage |-> Ratio(Cardinality(sufficient), n),
            unresolved_gaps |-> Ratio(Cardinality(DOMAIN r.gaps), n),
            evidence_count |-> Count(Cardinality(r.entries)), documents |-> Count(held), chunks |-> Count(held)]
FinalReferences ==
  LET r == runRow.result
  IN  IF ~HasResult THEN Missing("not_applicable")
      ELSE IF r.status # "completed" THEN Missing("not_applicable")
      ELSE IF UnseenRefs # {} THEN Missing("unavailable")
      ELSE Ratio(Cardinality(r.refs), Cardinality(r.refs))
Metrics == "execution_completed" :> Flag(runRow.state = "succeeded") @@ ToolMetrics @@ ResultValues @@ ResearchValues
             @@ "final_references" :> FinalReferences
RejectionCodes == {s.code : s \in ToSet(ToolSums({"rejected"}))}
Facts ==
  [state |-> runRow.state, status |-> IF HasResult THEN runRow.result.status ELSE "none", hasResult |-> HasResult,
   code |-> Failure, perTool |-> [t \in Tools |-> Len(SelectSeq(Admitted, LAMBDA s : s.tool = t))],
   rejected |-> [c \in RejectionCodes |-> Rejections({c})], research |-> plan.research,
   gaps |-> IF ~plan.research \/ ~HasResult THEN << >>
            ELSE LET gaps == runRow.result.research.gaps
                 IN  [c \in {"below_threshold", "ledger_full", "no_evidence", "search_exhausted"} |->
                        Cardinality({o \in DOMAIN gaps : gaps[o] = c})]]

(* parse_agent_evaluation_report: one metric, the counts, the outcome.     *)
MetricParses(kind, v) ==
  v.status = "computed" =>
    CASE kind = "boolean" -> v.den = 1 /\ v.num \in {0, 1}
      [] kind = "count" -> v.num <= 20
      [] kind = "ratio" -> v.den \in 1..20 /\ v.num <= v.den
Total(counts) == FoldFunction(+, 0, counts)
CountsParse(m, f) ==
  LET rejected(codes) == Total([c \in DOMAIN f.rejected \cap codes |-> f.rejected[c]])
  IN  /\ m["admitted_tools"].num = Total(f.perTool)
      /\ m["recorded_tools"].num = m["admitted_tools"].num + Total(f.rejected)
      /\ m["invalid_tools"].num = rejected({"unknown_tool", "invalid_arguments"})
      /\ m["policy_denials"].num = rejected(PolicyDenials) + (IF f.code = "decision_provider_required" THEN 1 ELSE 0)
      /\ m["duplicates"].num = rejected({"duplicate_tool_call"})
      /\ m["admission"] = Ratio(m["admitted_tools"].num, m["recorded_tools"].num)
      /\ m["tool_failures"].den = m["admitted_tools"].num
OutcomeParses(m, f) ==
  /\ f.status = "none" <=> ~f.hasResult
  /\ f.state = "succeeded" <=> f.status = "completed"
  /\ m["execution_completed"] = Flag(f.state = "succeeded")
  /\ ~f.hasResult => \A x \in ResultMetrics : m[x].status = "unavailable"
  /\ ~f.research => f.gaps = << >> /\ \A x \in ResearchMetrics : m[x].status = "not_applicable"
  /\ f.research /\ f.hasResult =>
       /\ m["objective_coverage"].den = m["unresolved_gaps"].den
       /\ m["objective_coverage"].num + m["unresolved_gaps"].num = m["unresolved_gaps"].den
       /\ m["unresolved_gaps"].num = Total(f.gaps)
Parsed ==
  LET metrics == Metrics  facts == Facts
  IN  /\ \A m \in DOMAIN metrics : MetricParses(MetricKinds[m], metrics[m])
      /\ DOMAIN metrics = DOMAIN MetricKinds
      /\ CountsParse(metrics, facts) /\ OutcomeParses(metrics, facts)

(* A run that nobody cancelled, and whose tools did not refuse their       *)
(* arguments (Undisturbed), is accepted by its evaluator: the counters, the trace, the   *)
(* ledger and the answer agree after every order of decisions, rejections, *)
(* failures and crashes (evaluation.py, evaluate_agent_run).               *)
Undisturbed ==
  /\ \A n \in DOMAIN runRow.events : runRow.events[n].state \notin {"cancelling", "cancelled"}
  /\ \A n \in DOMAIN Admitted : Admitted[n].code # "invalid_arguments"
RunsAreEvaluable == runRow.state \in Terminal /\ Undisturbed => Accepted

(* What the evaluator writes about a run it accepts, its reader accepts:   *)
(* every count that the report holds twice, as a metric and as a fact, is  *)
(* the same, and what is missing is missing in both (evaluation.py,        *)
(* parse_agent_evaluation_report).                                         *)
ReportsParse == runRow.state \in Terminal /\ Accepted => Parsed

(* An answer that a run ends with rests on that run: its model was shown   *)
(* all that it cites; what it cites is in the stored events, or one of     *)
(* them says that it keeps only a part of what its tool returned; and in a *)
(* research run every objective that is not admitted to be open has cited  *)
(* evidence of its own company in the ledger that is stored with the       *)
(* answer (orchestration.py, _validate_final; research.py, validate_final; *)
(* durable.py, _record_trace).                                             *)
AnswersAreSupported ==
  runRow.state = "succeeded" =>
    LET r == runRow.result
    IN  /\ r.refs \subseteq shown
        /\ r.refs \subseteq ObservedRefs \/ IncompleteRefs
        /\ plan.research => \A o \in Objectives \ DOMAIN r.research.gaps :
             \E e \in r.research.entries :
                /\ o \in e.objectives /\ RefsOf(e.chunk) \cap r.refs # {}
                /\ Ref("chunk", e.chunk) \in shown /\ plan.scope[o] \in {"any", TickerOf(e.chunk)}

(* Once the cancellation of a run is stored, no tool is started for it,    *)
(* and no tool is called twice with the same arguments or above the budget *)
(* of the plan (orchestration.py, run).                                    *)
CancelStopsTools ==
  [][begun' # begun => /\ runRow.state = "running"
                       /\ plan.unique => IsInjective(begun')
                       /\ Len(begun') <= plan.calls]_runVars

(* Every terminal run can be evaluated (agent_runs.py: only a run that is  *)
(* not terminal is refused).                                               *)
EvaluatorAcceptsRuns == runRow.state \in Terminal => Accepted
=============================================================================
