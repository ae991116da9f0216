-------------------------- MODULE AnswerCompletion --------------------------
(***************************************************************************)
(* From a draft to the answer (answer_completion.py, generator.py,         *)
(* phase2_runtime.py): deterministic renderers, compaction, one correction *)
(* by the provider, the repair of missing items, and the fallback.         *)
(***************************************************************************)
EXTENDS AnswerContracts

VARIABLES question, evidence,
          renderers,   \* those the caller turns on; the service turns on none
          stream,      \* whether the answer is streamed
          stage,       \* "draft", "correct", "done", "failed", "cancelled"
          route,       \* how the answer came to be
          answer
completionVars == <<question, evidence, renderers, stream, stage, route, answer>>

Line(label, cites, values) ==
  [label |-> label, also |-> {}, cites |-> cites, values |-> values, ranks |-> FALSE]
Ordered(S) == SetToSortSeq(S, <)
Answer(lines) == [fallback |-> FALSE, lines |-> lines]
ItemLines(e, S) == [n \in 1..Cardinality(S) |->
                      Line(Ordered(S)[n], {ItemSource(e, Ordered(S)[n])}, {})]
(* A list of risks: the headings of the filing, then the group of the      *)
(* supporting risks, every one with the source that it was found in.       *)
RiskLines(e, S) ==
  ItemLines(e, S \ Supporting)
  \o IF S \cap Supporting = {} THEN << >>
     ELSE <<Line(Prose, {}, {})>> \o ItemLines(e, S \cap Supporting)

(***************************************************************************)
(* compact_enumeration_answer.                                             *)
(***************************************************************************)
Bullets(a) == {n \in DOMAIN a.lines : a.lines[n].label # Prose}
Named(q, e, a) == {n \in Bullets(a) : a.lines[n].label \in EvidenceItems(q, e)}
Repeats(q, e, a) ==
  {n \in Named(q, e, a) : \E m \in 1..(n - 1) : a.lines[m].label = a.lines[n].label}
Removable(q, e, a) ==
  (Bullets(a) \ Named(q, e, a))
  \cup {n \in Named(q, e, a) : /\ q.kind = "revenue" /\ "revenue" \in renderers
                               /\ a.lines[n].label \notin RequiredItems(q, e)}
Merged(a, n) ==
  LET S == {m \in n..Len(a.lines) : a.lines[m].label = a.lines[n].label}
  IN  [a.lines[n] EXCEPT !.also = UNION {a.lines[m].also : m \in S},
                         !.cites = UNION {a.lines[m].cites : m \in S},
                         !.values = UNION {a.lines[m].values : m \in S}]
CompactRisk(q, e, a) ==
  LET S == {a.lines[n].label : n \in Named(q, e, a)}
  IN  IF Bullets(a) # Named(q, e, a) THEN a
      ELSE IF S \cap Supporting # {} THEN Answer(RiskLines(e, S))
      ELSE IF Cardinality(S) < 2 THEN a
      ELSE [a EXCEPT !.lines = FoldLeft(LAMBDA acc, n :
              IF n \in Repeats(q, e, a) THEN acc ELSE Append(acc, a.lines[n]),
              << >>, [n \in DOMAIN a.lines |-> n])]
Compact(q, e, a) ==
  LET drop == Removable(q, e, a) \cup Repeats(q, e, a)
      kept == Bullets(a) \ drop
  IN  IF ~ListApplies(q, e) \/ q.kind \notin {"product", "revenue", "risk"} THEN a
      ELSE IF q.kind = "risk" THEN CompactRisk(q, e, a)
      ELSE IF drop = {} \/ Cardinality(kept) < 2 THEN a
      ELSE [a EXCEPT !.lines = FoldLeft(LAMBDA acc, n :
              IF n \in kept THEN Append(acc, Merged(a, n))
              ELSE IF n \in drop THEN acc ELSE Append(acc, a.lines[n]),
              << >>, [n \in DOMAIN a.lines |-> n])]
AppendMissing(q, e, a) ==
  IF a = NoAnswer THEN a
  ELSE [a EXCEPT !.lines = @ \o ItemLines(e, MissingItems(q, e, a))]

(***************************************************************************)
(* Renderers.  A set with the answer, or none.                             *)
(***************************************************************************)
(* _best_fact: a share before an amount, the greater before the lesser.    *)
BestFact(q, e, t) ==
  LET M == Matching(q, e, t)
      P == IF \E f \in M : f.kind = "share" THEN {f \in M : f.kind = "share"} ELSE M
  IN  CHOOSE f \in P : \A g \in P : f.value >= g.value
Conclusion == [Line(Prose, {}, {}) EXCEPT !.ranks = TRUE]
RenderComparison(q, e) ==
  IF ~SelectionApplies(q) \/ \E t \in q.tickers : Matching(q, e, t) = {} THEN {}
  ELSE {Answer(SetToSeq({Line(Prose, {f.source}, {f.value}) :
                           f \in {BestFact(q, e, t) : t \in q.tickers}})
               \o <<Conclusion>>)}
RenderFact(q, e) ==
  LET S == {n \in DOMAIN e : \E f \in e[n].facts : f.metric = "asked"}
  IN  IF ~q.single \/ S = {} THEN {}
      ELSE {Answer(<<Line(Prose, {Least(S)},
              {(CHOOSE f \in e[Least(S)].facts : f.metric = "asked").value})>>)}
RenderRevenue(q, e) ==
  IF q.kind # "revenue" \/ ~ListApplies(q, e) \/ RequiredItems(q, e) = {} THEN {}
  ELSE {Answer(ItemLines(e, RequiredItems(q, e)))}
RenderRisk(q, e) ==
  IF q.kind # "risk" \/ ~ListApplies(q, e) THEN {} ELSE {Answer(RiskLines(e, RequiredItems(q, e)))}
(* Every renderer that is on gives way when its answer does not pass.      *)
Passing(q, e, A) == {a \in A : ~CorrectionRequired(q, e, a) /\ Grounded(e, a)}
Rendered(q, e) ==
  LET tried == <<IF "comparative" \in renderers THEN RenderComparison(q, e) ELSE {},
                 IF "fact" \in renderers THEN RenderFact(q, e) ELSE {},
                 IF "revenue" \in renderers THEN RenderRevenue(q, e) ELSE {},
                 IF "risk" \in renderers THEN RenderRisk(q, e) ELSE {}>>
      good == {n \in DOMAIN tried : Passing(q, e, tried[n]) # {}}
  IN  IF good = {} THEN {} ELSE Passing(q, e, tried[Least(good)])

(* The v3 renderer shares the selection with its assessment.  In English   *)
(* its cautious conclusion still has the words of a ranking.               *)
RenderV3(q, e) ==
  IF ~SelectionSuffices(q, e) THEN {}
  ELSE LET fact(t) == CHOOSE f \in Chosen(q, e, t) : TRUE
           line(t) == IF Chosen(q, e, t) # {}
                      THEN Line(Prose, {fact(t).source}, {fact(t).value})
                      ELSE Line(Prose, {Least(Excerpts(e, t))}, {})
       IN  {Answer(SetToSeq({line(t) : t \in q.tickers}) \o <<Conclusion>>)}

(***************************************************************************)
(* correct_answer_once after the provider's correction.                    *)
(***************************************************************************)
Repaired(q, e, c) ==
  LET a == Compact(q, e, c)
  IN  IF MissingItems(q, e, a) # {} /\ Grounded(e, a) THEN AppendMissing(q, e, a) ELSE a
\* Mutant: of the correction only the numbers are checked again.
AcceptedGrounded(q, e, c) ==
  LET a == Repaired(q, e, c)
  IN  IF Grounded(e, a) THEN a ELSE FALLBACK
Accepted(q, e, c) ==
  LET a == Repaired(q, e, c)
  IN  IF ~CorrectionRequired(q, e, a) /\ Grounded(e, a) THEN a ELSE FALLBACK

Finish(a, r) == stage' = "done" /\ answer' = a /\ route' = r
Held == ~stream \/ RequiresBuffering(question, evidence)
Kept == UNCHANGED <<question, evidence, renderers, stream>>
(* generate, generate_stream, _apply_answer_completion.                    *)
Drafted(d) ==
  LET good == Rendered(question, evidence) IN
  /\ stage = "draft" /\ Kept
  /\ \/ ~Held /\ Finish(d, "streamed")
     \/ /\ Held /\ good # {}
        /\ \E a \in good : Finish(a, "rendered")
     \/ /\ Held /\ good = {} /\ ~CorrectionRequired(question, evidence, d)
        /\ Finish(Compact(question, evidence, d), "drafted")
     \/ /\ Held /\ good = {} /\ CorrectionRequired(question, evidence, d)
        /\ stage' = "correct" /\ UNCHANGED <<answer, route>>
Corrected(c) ==
  /\ stage = "correct" /\ Kept
  /\ Finish(Accepted(question, evidence, c), "corrected")
ProviderFails ==
  stage \in {"draft", "correct"} /\ stage' = "failed" /\ Kept /\ UNCHANGED <<answer, route>>
Cancelled ==
  /\ stream /\ stage \in {"draft", "correct"} /\ stage' = "cancelled"
  /\ Kept /\ UNCHANGED <<answer, route>>
=============================================================================
