--------------------------- MODULE AnswerContracts --------------------------
(***************************************************************************)
(* What an answer owes to its question and its evidence: the audit of      *)
(* citations and numbers (answer_contract.py), the values of every period  *)
(* (period_value_completeness.py), the figures of a trend                  *)
(* (answer_stability.py), the items of a list                              *)
(* (enumeration_completeness.py) and the comparison of companies           *)
(* (comparative_answerability.py, comparative_evidence.py).                *)
(*                                                                         *)
(* A question is                                                           *)
(*   kind      "none", or the list it asks for: "product", "segment",      *)
(*             "revenue", "risk"                                           *)
(*   scope     "all", or "main" for the main items only                    *)
(*   asks      "pairs": a value for every period; "figures": of a trend    *)
(*   tickers   the companies it names                                      *)
(*   mode      "qualitative", "value", "growth" or "dependency"            *)
(*   period    the period it names, 0 for none                             *)
(*   single    it asks for one fact that a renderer knows                  *)
(* Evidence is a sequence of sources.  A source has a ticker, items,       *)
(* values (the numbers printed in it), a form ("rows": a row of values by  *)
(* period; "growth": sentences of growth; "plain"), intent (it has words   *)
(* of the question), facts (values bound to a metric and a period), and    *)
(* excerpt: it has a sentence on the metric without a number.              *)
(* An answer is a sequence of lines, and whether it has the phrase of the  *)
(* fallback.  A line is a bullet with the label of an item or another      *)
(* label, or prose; it mentions further items, cites sources, states       *)
(* values, and may rank the companies in words.                            *)
(***************************************************************************)
EXTENDS Naturals, FiniteSets, Sequences, SequencesExt

CONSTANTS Items,          \* what a list can name, numbered as in the filing
          Supporting,     \* the items without a heading of their own
          Other, Prose    \* the labels of a bullet that names no item, and of prose

ASSUME ItemAssumption ==
  Items \subseteq Nat \ {0} /\ Supporting \subseteq Items /\ Other # Prose

FALLBACK == [fallback |-> TRUE, lines |-> << >>]
NoAnswer == [fallback |-> FALSE, lines |-> << >>]
Lines(a) == ToSet(a.lines)
Least(S) == CHOOSE n \in S : \A m \in S : n <= m
Latest(S) == CHOOSE n \in S : \A m \in S : n >= m

(***************************************************************************)
(* audit_answer, validate_grounded_answer: numbers are looked up in all    *)
(* the sources that the answer cites anywhere.                             *)
(***************************************************************************)
Cites(a) == UNION {l.cites : l \in Lines(a)}
Numbers(a) == UNION {l.values : l \in Lines(a)}
Printed(e, S) == UNION {e[n].values : n \in S \cap DOMAIN e}
Unsupported(e, a) == Numbers(a) \ Printed(e, Cites(a))
Grounded(e, a) ==
  /\ ~a.fallback
  /\ Cites(a) # {} /\ Cites(a) \subseteq DOMAIN e
  /\ Unsupported(e, a) = {}

(***************************************************************************)
(* The earliest source with two values or more owes them all.              *)
(***************************************************************************)
Owed(e, form) ==
  LET S == {n \in DOMAIN e : e[n].form = form /\ Cardinality(e[n].values) >= 2}
  IN  IF S = {} THEN {} ELSE e[Least(S)].values
EarliestRows(e) ==
  LET S == {n \in DOMAIN e : e[n].form = "rows" /\ e[n].values # {}}
  IN  IF S = {} THEN {} ELSE e[Least(S)].values
PairsApply(q, e) == "pairs" \in q.asks /\ Cardinality(EarliestRows(e)) >= 2
PairsPass(q, e, a) == PairsApply(q, e) => EarliestRows(e) \subseteq Numbers(a)
FiguresPass(q, e, a) ==
  "figures" \in q.asks /\ ~PairsApply(q, e) => Owed(e, "growth") \subseteq Numbers(a)

(***************************************************************************)
(* Lists.                                                                  *)
(***************************************************************************)
EvidenceItems(q, e) == IF q.kind = "none" THEN {} ELSE UNION {e[n].items : n \in DOMAIN e}
(* _add_item: a later source of an item takes the place of the earlier.    *)
ItemSource(e, i) == Latest({n \in DOMAIN e : i \in e[n].items})
RequiredItems(q, e) ==
  IF q.scope = "main" /\ q.kind \in {"risk", "revenue"}
  THEN EvidenceItems(q, e) \ Supporting ELSE EvidenceItems(q, e)
ListApplies(q, e) == Cardinality(EvidenceItems(q, e)) >= 2
Mentioned(a) == UNION {l.also \cup ({l.label} \cap Items) : l \in Lines(a)}
MissingItems(q, e, a) == IF ListApplies(q, e) THEN RequiredItems(q, e) \ Mentioned(a) ELSE {}

(***************************************************************************)
(* Comparisons.                                                            *)
(***************************************************************************)
SourcesOf(e, t) == {n \in DOMAIN e : e[n].ticker = t}
Facts(e, t) == UNION {{[metric |-> f.metric, period |-> f.period, kind |-> f.kind,
                        value |-> f.value, source |-> n] : f \in e[n].facts}
                      : n \in SourcesOf(e, t)}
(* facts_match_intent.                                                     *)
Matching(q, e, t) ==
  LET M == {f \in Facts(e, t) : f.metric = "asked" /\ (q.period = 0 \/ f.period \in {0, q.period})}
  IN  IF q.mode = "dependency" \/ M # {} THEN M ELSE Facts(e, t)
CompareApplies(q) == Cardinality(q.tickers) >= 2
Sufficient(q, e) ==
  /\ CompareApplies(q)
  /\ \A t \in q.tickers :
       /\ \E n \in SourcesOf(e, t) : e[n].intent
       /\ q.mode # "qualitative" => Matching(q, e, t) # {}
RetryRequired(q, e, a) == a.fallback /\ Sufficient(q, e)

(***************************************************************************)
(* assess_answer_completion, and what a stream asks of it before its first *)
(* token.                                                                  *)
(***************************************************************************)
CorrectionRequired(q, e, a) ==
  \/ ~FiguresPass(q, e, a)
  \/ RetryRequired(q, e, a)
  \/ IF ListApplies(q, e) THEN MissingItems(q, e, a) # {} \/ ~Grounded(e, a)
     ELSE IF PairsApply(q, e) THEN ~PairsPass(q, e, a) \/ ~Grounded(e, a)
     ELSE Unsupported(e, a) # {}
RequiresBuffering(q, e) == CorrectionRequired(q, e, NoAnswer) \/ Sufficient(q, e)

(***************************************************************************)
(* Evidence contract v3: one selection for the renderer and the            *)
(* assessment.  The latest known period, shares before amounts, and only   *)
(* an observation that is the only one.                                    *)
(***************************************************************************)
Observations(q, e, t) ==
  LET R == {f \in Facts(e, t) : /\ f.metric = "asked" /\ f.kind \in {"amount", "share"}
                                /\ q.period # 0 => f.period = q.period}
      known == {f \in R : f.period # 0}
      latest == IF known = {} \/ q.period # 0 THEN R
                ELSE {f \in known : f.period = Latest({g.period : g \in known})}
      shares == {f \in latest : f.kind = "share"}
  IN  IF shares = {} THEN latest ELSE shares
Chosen(q, e, t) ==
  LET C == Observations(q, e, t)
  IN  IF Cardinality({[f EXCEPT !.source = 0] : f \in C}) # 1 THEN {}
      ELSE {CHOOSE f \in C : f.source = Least({g.source : g \in C})}
Excerpts(e, t) == {n \in SourcesOf(e, t) : e[n].excerpt}
SelectionApplies(q) == q.mode = "dependency" /\ CompareApplies(q)
SelectionSuffices(q, e) ==
  SelectionApplies(q) /\ \A t \in q.tickers : Chosen(q, e, t) # {} \/ Excerpts(e, t) # {}
Compatible(q, e) ==
  /\ SelectionApplies(q)
  /\ \A t \in q.tickers : \E f \in Chosen(q, e, t) : f.kind = "share" /\ f.period # 0
  /\ Cardinality({f.period : f \in UNION {Chosen(q, e, t) : t \in q.tickers}}) = 1
Winners(q, e) ==
  LET S == UNION {Chosen(q, e, t) : t \in q.tickers}
  IN  {t \in q.tickers : \E f \in Chosen(q, e, t) : \A g \in S : f.value >= g.value}
(* assess_comparative_answerability_v3.  The words of a ranking are looked *)
(* for in what is left of the answer without the negated verb.             *)
UnsupportedRanking(q, e, a) == ~Compatible(q, e) /\ \E l \in Lines(a) : l.ranks
PassesV3(q, e, a) ==
  SelectionApplies(q) =>
    /\ ~UnsupportedRanking(q, e, a)
    /\ a.fallback = ~SelectionSuffices(q, e)
=============================================================================
