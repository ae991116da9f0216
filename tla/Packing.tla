------------------------------ MODULE Packing -------------------------------
(***************************************************************************)
(* Cases of every category, packed under every policy.                     *)
(***************************************************************************)
EXTENDS ContextPacking

VARIABLES case, policy, kept
vars == <<case, policy, kept>>

(* A chunk that says nothing but its company.                              *)
Neutral == [score |-> 1, ticker |-> "A", groups |-> {}, term |-> 0, lead |-> 0,
          phrase |-> FALSE, trend |-> FALSE, fact |-> {}, tier |-> "none"]

SummaryChunks ==
  {[Neutral EXCEPT !.score = s, !.groups = g, !.term = t, !.lead = l] :
     s \in {1, Structured}, g \in {{}, {1}, {1, 2}}, t \in 0..2, l \in 0..1}
SummaryCase(c) ==
  \E req \in BOOLEAN, a \in SummaryChunks, b \in SummaryChunks, g \in {{}, {2}}, l \in 0..1, t \in 0..1 :
     /\ b.score = 1 /\ b.lead = 0
     /\ c = Case("summary", req, <<a, b, [Neutral EXCEPT !.groups = g, !.lead = l, !.term = t]>>,
                 <<Query("A", {1, 2}, FALSE, <<1, 2, 3>>)>>)
RouteCase(c) ==
  \E cat \in {"fact", "multi_hop", "enumeration", "out_of_corpus"},
     a \in SummaryChunks, b \in SummaryChunks, s \in {<<3>>, <<3, 1>>, << >>} :
     /\ a.lead = 0 /\ b.lead = 0 /\ a.term < 2
     /\ c = Case(cat, TRUE, <<a, b, [Neutral EXCEPT !.ticker = "B"]>>,
                 <<Query("A", {1}, FALSE, <<1, 2>>), Query("B", {1}, FALSE, s)>>)
ComparativeChunks ==
  {[Neutral EXCEPT !.score = s, !.groups = g, !.term = t, !.phrase = p, !.trend = v] :
     s \in {1, Structured}, g \in {{}, {1}, {2}}, t \in 0..1, p \in BOOLEAN, v \in BOOLEAN}
ComparativeCase(c) ==
  \E a \in ComparativeChunks, b \in ComparativeChunks, p \in BOOLEAN,
     s \in {<<3>>, <<1>>, <<3, 2>>, << >>} :
     /\ ~b.trend /\ ~b.phrase
     /\ c = Case("comparative", TRUE, <<a, b, [Neutral EXCEPT !.ticker = "B"]>>,
                 <<Query("A", {1, 2}, p, <<1, 2>>), Query("B", {1, 2}, p, s)>>)
EnumerationCase(c) ==
  \E e \in SUBSET {2, 3}, r \in [1..5 -> {<<1, 2, 3>>, <<3, 2, 1>>, <<2>>}] :
     c = Case("enumeration", FALSE,
              [x \in 1..3 |-> [Neutral EXCEPT !.score = IF x \in e THEN Structured ELSE 1]],
              [n \in 1..5 |-> Query("A", {1}, FALSE, r[n])])
FactChunks ==
  {[Neutral EXCEPT !.score = s, !.ticker = t, !.fact = f, !.tier = r] :
     s \in {1, Structured}, t \in {"A", "B"}, f \in SUBSET {1, 2},
     r \in {"phrase", "terms", "none"}}
FactCase(c) ==
  \E a \in FactChunks, b \in FactChunks :
     c = Case("fact", FALSE, <<a, b>>, <<Query("A", {1}, FALSE, <<1, 2>>)>>)
Categories == {"fact", "multi_hop", "enumeration", "comparative", "summary", "out_of_corpus"}
(* One policy for every strategy that a category can have.                 *)
Offered == {"selective1", "selective2", "selective3", "selective4", "selective5",
            "selective6", "selective7", "route", "comparative3", "comparative4"}
Distinct == [cat \in Categories |->
              {CHOOSE p \in Offered : Strategy(p, cat) = s :
                 s \in {Strategy(p, cat) : p \in Offered}}]

Init ==
  /\ SummaryCase(case) \/ RouteCase(case) \/ ComparativeCase(case) \/ EnumerationCase(case)
     \/ FactCase(case)
  /\ policy \in Distinct[case.category]
  /\ kept = {}
Pack == kept = {} /\ kept' = Packed(case, policy) /\ UNCHANGED <<case, policy>>
Next == Pack
Spec == Init /\ [][Next]_vars

Concretely == Strategy(policy, case.category)
(* A keyword that the answer needs and that some retrieved chunk has is in *)
(* the packed context (context_packing.py, M4), under every strategy that  *)
(* is told of it; the anchors of a summary take the place of no chunk that *)
(* alone has it.                                                           *)
KeywordsKept ==
  (/\ kept # {} /\ case.required /\ Holders(case, All(case)) # {}
   /\ Concretely \in {"route", "intent", "anchor", "comparative3", "comparative4"})
     => Holders(case, kept) # {}

(* No strategy drops an exact structured hit (M2), but for the selection   *)
(* of a single fact and the counterfactual that trades a leader for intent.*)
StructuredKept ==
  (kept # {} /\ Concretely \notin {"fact1", "fact2", "comparative6"})
     => Exact(case, All(case)) \subseteq kept

(* Every branch of a comparison that retrieved anything has a chunk in the *)
(* packed context, and no chunk of a list that only one branch ranks first *)
(* is dropped as the plan's consensus.                                     *)
BranchesKept ==
  (kept # {} /\ Concretely \in {"comparative3", "comparative4", "comparative5", "consensus"})
     => \A n \in DOMAIN case.queries :
          case.queries[n].ranks # << >> => ToSet(case.queries[n].ranks) \cap kept # {}
=============================================================================
