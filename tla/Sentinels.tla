----------------------------- MODULE Sentinels ------------------------------
(***************************************************************************)
(* The gates of the release chain, as predicates over the summary that an  *)
(* evaluation run (Phase2) hands to a sentinel script, to a reproducibility*)
(* audit, or to the admission audit of a candidate result.                 *)
(*                                                                         *)
(* A summary has two cases: case 1 stands for the target questions of a    *)
(* gate, case 2 for its control questions.  Scores are counted in 1/200,   *)
(* so that every threshold of the code is a whole number.                  *)
(***************************************************************************)
EXTENDS Naturals, FiniteSets, TLC

(* The script that vets a strategy; "default" needs none.                  *)
Kinds == {"default", "context_precision", "enumeration_context",
          "enumeration_answer", "grounded", "fact_evidence", "priority2",
          "priority3", "answerability", "focus", "scope13", "scope14",
          "closure"}
Strategy(k) ==
  CASE k = "default" -> "v2"
    [] k = "context_precision" -> "v3"
    [] k \in {"enumeration_context", "enumeration_answer"} -> "v5"
    [] k = "grounded" -> "v4"
    [] k \in {"fact_evidence", "focus", "scope13", "scope14", "closure"} -> "v6"
    [] k \in {"priority2", "priority3", "answerability"} -> "v7"

(***************************************************************************)
(* Summaries.                                                              *)
(***************************************************************************)
Cases == {1, 2}
Metric == {"f", "r", "p"}    \* faithfulness, answer relevancy, context precision
Flags == {"cite",      \* citations present, well formed and in range
          "fallback",  \* the fallback answer exactly where it is expected
          "numbers",   \* no unsupported numeric claim
          "final",     \* the completion assessment of the final answer passed
          "ground",    \* ... and its grounding
          "kept",      \* an attempted correction was accepted
          "once",      \* at most one correction
          "inert",     \* the completion contract does not apply
          "selector",  \* the context is a safe single source
          "content"}   \* the terms and values the question asks for
PerfectCase == [x \in Metric \cup Flags \cup {"recall"} |->
                  IF x \in Metric THEN 200 ELSE IF x \in Flags THEN TRUE ELSE "hit"]
(* done: every case generated and judged.  scope, rendered, revenue: the   *)
(* answer-scope audits.  meta: the answerability metadata of the rows      *)
(* matches a recomputation.  sig: the deterministic outputs that two       *)
(* replicates must share.                                                  *)
Perfect == [case |-> [i \in Cases |-> PerfectCase], done |-> TRUE,
            scope |-> TRUE, rendered |-> TRUE, revenue |-> TRUE,
            meta |-> TRUE, sig |-> 1]
(* Each summary falls short of the perfect one in one respect, in one or   *)
(* in both of its cases, by a value on either side of some threshold.      *)
Lower == [f |-> {199, 197, 195, 189, 177}, r |-> {199, 189, 179, 169},
          p |-> {179, 174, 171, 133}]
Spoilt(C, x, v) == [Perfect EXCEPT !.case = [i \in Cases |->
                      IF i \in C THEN [PerfectCase EXCEPT ![x] = v] ELSE PerfectCase]]
Flawed(i, x) == Spoilt({i}, x, FALSE)
Summaries ==
  {Perfect} \cup
  (UNION {{Spoilt(C, x, v) : v \in Lower[x]} : C \in {{1}, {2}, {1, 2}}, x \in Metric})
  \cup {Flawed(i, x) : i \in Cases, x \in Flags}
  \cup {Spoilt({i}, "recall", v) : i \in Cases, v \in {"miss", "none"}}
  \cup {[Perfect EXCEPT ![x] = FALSE] : x \in {"done", "scope", "rendered", "revenue", "meta"}}
  \cup {[Perfect EXCEPT !.sig = 2]}

(* The protected official result that serves as the reference.             *)
Reference == Spoilt(Cases, "p", 172).case
OfficialCases == [i \in Cases |-> [Reference[i] EXCEPT !.f = 198, !.r = 190]]

Mean(c, x) == c[1][x] + c[2][x]                \* twice the mean
Every(s, F) == \A i \in Cases, x \in F : s.case[i][x]
Floors(s, f, r, p) ==
  \A i \in Cases : s.case[i].f >= f /\ s.case[i].r >= r /\ s.case[i].p >= p
MeanFloors(s, f, r, p) ==
  /\ Mean(s.case, "f") >= 2 * f /\ Mean(s.case, "r") >= 2 * r
  /\ Mean(s.case, "p") >= 2 * p
NotBelow(s, z, X) == \A x \in X : Mean(s.case, x) >= Mean(z, x)
Drop(s, z, d) ==
  \A i \in Cases, x \in {"f", "r"} : s.case[i][x] + d >= z[i][x]
Recalled(s) == \A i \in Cases : s.case[i].recall = "hit"
Audited(s) == Every(s, {"cite", "fallback", "numbers"})     \* audit_answer

(***************************************************************************)
(* The sentinels: build_report of each script.  z is the reference; one    *)
(* says that the checkpoints hold one binding and one judge context, exact *)
(* that they hold one row per question.                                    *)
(***************************************************************************)
ContextPrecisionGate(s, z) ==
  /\ s.done /\ Every(s, {"cite", "fallback"})
  /\ NotBelow(s, z, Metric)

EnumerationContextGate(s, z) ==
  /\ s.done /\ Every(s, {"cite", "fallback", "inert", "final", "ground"})
  /\ \A i \in Cases, x \in {"f", "r"} : s.case[i][x] >= z[i][x]
  /\ NotBelow(s, z, {"f", "r"})
  /\ Mean(s.case, "p") > Mean(z, "p")

EnumerationAnswerGate(s, z) ==
  /\ s.done /\ Audited(s) /\ Every(s, {"final", "ground", "once"})
  /\ Floors(s, 190, 180, 0) /\ Drop(s, z, 20)
  /\ MeanFloors(s, 190, 180, 175)

GroundedGate(s, z) ==
  /\ s.done /\ Audited(s) /\ Every(s, {"ground", "kept"})
  /\ NotBelow(s, z, Metric)

FactEvidenceGate(s, z) ==
  /\ s.done /\ Every(s, {"selector"})
  /\ Audited(s) /\ Recalled(s) /\ Every(s, {"final", "ground"})
  /\ Floors(s, 200, 190, 0) /\ Drop(s, z, 20)
  /\ MeanFloors(s, 200, 190, 180)

(* The questions of the two fact gates had a lower precision to start from. *)
FactReference(z) == [i \in Cases |-> [z[i] EXCEPT !.p = 140]]
FactV2Gate(s, z, one, exact) ==
  /\ s.done /\ one /\ exact
  /\ Every(s, {"selector"}) /\ Audited(s) /\ Recalled(s) /\ Every(s, {"final"})
  /\ Floors(s, 200, 190, 180) /\ Drop(s, z, 20)
  /\ MeanFloors(s, 200, 190, 180)
  /\ Mean(s.case, "p") >= Mean(FactReference(z), "p") + 2 * 30

(* Case 1 is a risk target, case 2 a comparison across documents, whose    *)
(* recall may be missing.                                                  *)
StabilityGate(s, z, one) ==
  /\ s.done /\ one
  /\ Every(s, {"selector"}) /\ Audited(s)
  /\ s.case[1].recall = "hit" /\ s.case[2].recall # "miss"
  /\ Every(s, {"final", "ground"})
  /\ Floors(s, 200, 0, 0) /\ s.case[1].r >= 190
  /\ s.case[2].r + 10 >= z[2].r
  /\ Drop(s, z, 20)
  /\ MeanFloors(s, 200, 190, 0)

(* The renderers are asked for from version 14 on; case 1 also stands for  *)
(* the question whose answer the closure scopes to the revenue asked for.  *)
ScopeGate(s, k) == s.scope /\ (k # "scope13" => s.rendered)
ClosureGate(s) == s.revenue

AnswerabilityCase(c, target, z) ==
  /\ c.f = 200 /\ c.cite /\ c.numbers /\ c.final /\ c.ground /\ c.once
  /\ c.fallback
  /\ IF target THEN c.r = 200 ELSE c.r + 10 >= z.r
AnswerabilityGate(s, z, one) ==
  /\ s.done /\ one /\ s.meta
  /\ \A i \in Cases : AnswerabilityCase(s.case[i], i = 1, z[i])
  /\ MeanFloors(s, 200, 190, 134)

(* passed of the report that the base script of a kind writes, and of the  *)
(* last report that the script writes.                                     *)
BasePassed(k, s, z, one, exact) ==
  CASE k = "context_precision" -> ContextPrecisionGate(s, z)
    [] k = "enumeration_context" -> EnumerationContextGate(s, z)
    [] k = "enumeration_answer" -> EnumerationAnswerGate(s, z)
    [] k = "grounded" -> GroundedGate(s, z)
    [] k = "fact_evidence" -> FactEvidenceGate(s, z)
    [] k \in {"priority2", "priority3"} -> FactV2Gate(s, z, one, exact)
    [] k = "answerability" -> AnswerabilityGate(s, z, one)
    [] k \in {"focus", "scope13", "scope14", "closure"} -> StabilityGate(s, z, one)

(***************************************************************************)
(* The admission audit of a candidate c against the baseline b.  Case 1    *)
(* stands for the comparative questions that are its targets, case 2 for a *)
(* fact question.                                                          *)
(***************************************************************************)
MetricGates(c, b) ==
  /\ Mean(c.case, "f") + 2 * 2 >= Mean(b.case, "f")
  /\ \A x \in {"r", "p"} : Mean(c.case, x) >= Mean(b.case, x)
  /\ Mean(c.case, "f") + Mean(c.case, "r") + Mean(c.case, "p") >=
       Mean(b.case, "f") + Mean(b.case, "r") + Mean(b.case, "p")
CaseIntegrity(c) == Audited(c)
CompletionGate(c) ==
  /\ Every(c, {"final", "kept", "once"})
  /\ c.case[1].ground                          \* the contract applies to case 1
  /\ c.meta
TargetGate(c) ==
  /\ c.case[1].content
  /\ c.case[1].f = 200 /\ c.case[1].r >= 190 /\ c.case[1].final /\ c.case[1].ground
  /\ c.case[1].fallback
AdmissionAnswerability(c) == c.meta /\ c.case[1].fallback
AdmissionFactV2(c, strat) ==
  strat = "v7" => /\ c.case[2].selector /\ c.case[2].f = 200
                  /\ c.case[2].r >= 190 /\ c.case[2].p >= 180
NoRegression(c, b) ==
  \A x \in {"f", "r"} : c.case[2][x] + 20 >= b.case[2][x]
=============================================================================
