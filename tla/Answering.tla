------------------------------ MODULE Answering -----------------------------
(***************************************************************************)
(* Questions and their answers: the context of a case is packed, and an    *)
(* answer is drafted, completed and handed out.  The provider may draft    *)
(* and correct in any way; the cases here are those that the code tells    *)
(* apart, with two or three sources and three lines.                       *)
(***************************************************************************)
EXTENDS AnswerCompletion

CONSTANTS FillTarget

VARIABLES case, policy, kept      \* the packing of a case
packVars == <<case, policy, kept>>
answeringVars == <<completionVars, packVars>>
Packer == INSTANCE Packing

Source(t, items, values, form) ==
  [ticker |-> t, items |-> items, values |-> values, form |-> form, intent |-> TRUE,
   facts |-> {}, excerpt |-> FALSE]
Plain == [kind |-> "none", scope |-> "all", asks |-> {}, tickers |-> {"A"},
          mode |-> "qualitative", period |-> 0, single |-> FALSE]

(* Lists.                                                                  *)
ListQuestion(q, e) ==
  \E k \in {"product", "segment", "revenue", "risk"}, s \in {"all", "main"},
     f \in {{1}, {1, 2}, {1, 2, 3}, {3}}, g \in {{}, {2}, {2, 3}} :
     /\ q = [Plain EXCEPT !.kind = k, !.scope = s]
     /\ e = <<Source("A", f, {7}, "plain"), Source("A", g, {}, "plain")>>
ListLines == {Line(l, {1}, {}) : l \in Items \cup {Other}}
             \cup {[Line(1, {1}, {}) EXCEPT !.also = {2}]}
             \cup {Line(l, {2}, {7}) : l \in {1, 3, Prose}}
ListDrafts == {Answer(s) : s \in (UNION {[1..n -> ListLines] : n \in 1..2}) \cup {s \in [1..3 -> ListLines] : IsInjective(s)}} \cup {FALLBACK}

(* Values and figures.                                                     *)
ValueSources == {Source("A", {}, v, f) : v \in {{}, {7}, {7, 8}}, f \in {"plain", "rows", "growth"}}
ValueQuestion(q, e) ==
  \E a \in SUBSET {"pairs", "figures"}, f \in ValueSources, g \in ValueSources :
     /\ q = [Plain EXCEPT !.asks = a]
     /\ e = <<f, g>>
ValueLines == {Line(Prose, c, v) : c \in {{}, {1}, {2}, {3}}, v \in {{}, {7}, {8}, {7, 8}, {9}}}
CitingLines == {l \in ValueLines : l \in {Line(Prose, c, v) : c \in {{1}, {2}}, v \in {{7}, {8}, {7, 8}, {9}}}}
ValueDrafts == {Answer(s) : s \in {<< >>} \cup {<<l>> : l \in ValueLines}
                               \cup {<<l, m>> : l \in ValueLines, m \in CitingLines}} \cup {FALLBACK}

(* Comparisons and single facts.                                           *)
Fact(p, k, v) == [metric |-> "asked", period |-> p, kind |-> k, value |-> v]
AskedFacts == {Fact(p, k, v) : p \in 0..2, k \in {"amount", "share"}, v \in {7, 8}}
FactSource(t, F, i, x) ==
  [Source(t, {}, {f.value : f \in F}, "plain") EXCEPT !.facts = F, !.intent = i, !.excerpt = x]
CompareQuestion(q, e) ==
  \E m \in {"qualitative", "growth", "dependency"}, p \in 0..1, i \in BOOLEAN, x \in BOOLEAN,
     a \in AskedFacts, b \in AskedFacts, c \in AskedFacts, two \in BOOLEAN, none \in BOOLEAN :
     /\ q = [Plain EXCEPT !.mode = m, !.period = p, !.tickers = {"A", "B"}]
     /\ IF two THEN c.kind = "share" /\ c.value = 8 ELSE c = a
     /\ e = <<FactSource("A", {a, c}, TRUE, x),
              FactSource("B", IF none THEN {} ELSE {b}, i, x)>>
FactQuestion(q, e) ==
  \E a \in AskedFacts : /\ q = [Plain EXCEPT !.single = TRUE]
                        /\ e = <<Source("A", {}, {7}, "plain"), FactSource("A", {a}, TRUE, FALSE)>>
CompareDrafts == {FALLBACK} \cup {Answer(<<Line(Prose, {1, 2}, v)>>) : v \in {{}, {7}, {9}}}

Drafts(q) == IF q.kind # "none" THEN ListDrafts
             ELSE IF q.asks # {} THEN ValueDrafts ELSE CompareDrafts

NoAnswering == question = Plain /\ evidence = << >> /\ renderers = {} /\ stream = FALSE
        /\ stage = "none" /\ route = "none" /\ answer = NoAnswer
AnsweringInit ==
  \/ Packer!Init /\ NoAnswering
  \/ /\ ListQuestion(question, evidence) \/ ValueQuestion(question, evidence)
        \/ CompareQuestion(question, evidence) \/ FactQuestion(question, evidence)
     /\ renderers \in {{}, {"comparative", "fact", "revenue", "risk"}}
     /\ stream \in BOOLEAN /\ (stream => renderers = {})
     /\ stage = "draft" /\ route = "none" /\ answer = NoAnswer
     /\ case = << >> /\ policy = "none" /\ kept = {}

Pack == stage = "none" /\ Packer!Pack /\ UNCHANGED completionVars
Draft == \E d \in Drafts(question) : Drafted(d) /\ UNCHANGED packVars
Correct == \E c \in Drafts(question) : Corrected(c) /\ UNCHANGED packVars
Fail == ProviderFails /\ UNCHANGED packVars
Cancel == Cancelled /\ UNCHANGED packVars
AnsweringNext == Pack \/ Draft \/ Correct \/ Fail \/ Cancel
AnsweringSpec == AnsweringInit /\ [][AnsweringNext]_answeringVars

KeywordsKept == stage = "none" => Packer!KeywordsKept
StructuredKept == stage = "none" => Packer!StructuredKept
BranchesKept == stage = "none" => Packer!BranchesKept

(* A draft is streamed as it comes only when the probe of the empty draft  *)
(* showed that nothing but an unsupported number could be wrong with it:   *)
(* no list, no row of values and no comparison reaches the client          *)
(* unchecked (answer_completion_requires_buffering).                       *)
ProbeIsSound ==
  (route = "streamed" /\ CorrectionRequired(question, evidence, answer))
     => Unsupported(evidence, answer) # {}

(* What is handed out after the correction is the fallback, or it states   *)
(* every item, value and figure that it owes and no number that its        *)
(* sources do not print, after compaction and repair (correct_answer_once).*)
CorrectedIsSound ==
  (route = "corrected" /\ answer # FALLBACK) =>
    /\ Grounded(evidence, answer)
    /\ MissingItems(question, evidence, answer) = {}
    /\ PairsPass(question, evidence, answer) /\ FiguresPass(question, evidence, answer)

(* A comparison that the evidence can answer is declined only after the    *)
(* provider was asked a second time (comparative_answerability.py).        *)
DeclinedTwice ==
  (stage = "done" /\ answer.fallback /\ Sufficient(question, evidence)) => route = "corrected"

(* Two companies are ranked only by the latest shares that they disclose,  *)
(* of one period; no company that is named the winner has a lesser share   *)
(* than another, and the ranking passes the assessment that is made of it  *)
(* (select_dependency_evidence_v3).                                        *)
Shares(t, p) == {f \in Facts(evidence, t) : f.kind = "share" /\ f.period = p}
RankingIsComparable ==
  (stage = "done" /\ Compatible(question, evidence)) =>
    /\ \E p \in 1..2 : \A t \in question.tickers :
         /\ Shares(t, p) # {}
         /\ question.period # p => \A f \in Facts(evidence, t) : f.period <= p
         /\ \A w \in Winners(question, evidence) :
              \A f \in Shares(t, p), g \in Shares(w, p) : g.value >= f.value
    /\ \A a \in RenderV3(question, evidence) : PassesV3(question, evidence, a)
=============================================================================
