--------------------------- MODULE ContextPacking ---------------------------
(***************************************************************************)
(* Which of the retrieved chunks a question's context keeps: the packing   *)
(* strategies of context_packing.py and the selectors that the service and *)
(* the evaluation share (comparative_context.py, enumeration_context.py,   *)
(* fact_context.py).                                                       *)
(*                                                                         *)
(* A case has a category, a set of required keywords, its chunks, and its  *)
(* queries: the company a query asks for, the intent groups of its words,  *)
(* whether it has an exact filing phrase, and its ranking, a sequence of   *)
(* indices of chunks.  A chunk is what the code can tell about its text:   *)
(*   score     10 for an exact structured hit                              *)
(*   ticker    its company                                                 *)
(*   groups    the intent groups it has a word of                          *)
(*   term      where it has the required keyword: 0 nowhere, 1 at its      *)
(*             start, 2 further on                                         *)
(*   lead      how directly it opens with what a query asks, 0 not at all  *)
(*   phrase    it has the exact filing phrase                              *)
(*   trend     it has values of several periods                            *)
(*   fact      the fact selectors, 1 and 2, that find it self-contained    *)
(*   tier      the lexical tier it matches                                 *)
(***************************************************************************)
EXTENDS Naturals, FiniteSets, Sequences, SequencesExt

CONSTANTS FillTarget      \* chunks of a summary or an enumeration (4)

Concrete == {"full", "route", "intent", "anchor", "consensus", "fact1", "fact2",
             "comparative3", "comparative4", "comparative5", "comparative6"}
Structured == 10
Dedup(s) == FoldLeft(LAMBDA acc, x : IF x \in ToSet(acc) THEN acc ELSE Append(acc, x),
                     << >>, s)
(* collect_entries: the chunks of all queries, each once, in source order; *)
(* a case has collected them, and a branch those of its query.             *)
Collected(queries) == Dedup(FoldLeft(LAMBDA acc, q : acc \o q.ranks, << >>, queries))
Query(t, g, p, s) == [ticker |-> t, groups |-> g, phrase |-> p, ranks |-> s, branch |-> Dedup(s)]
Case(cat, req, ch, qs) ==
  [category |-> cat, required |-> req, chunk |-> ch, queries |-> qs, entries |-> Collected(qs)]
Entries(c) == c.entries
All(c) == ToSet(Entries(c))
Position(s, x) == CHOOSE n \in DOMAIN s : s[n] = x
Exact(c, S) == {x \in S : c.chunk[x].score >= Structured}
Branch(q) == q.branch

(* The member of S with the greatest key, the earliest of s among equals.  *)
Greatest(S, s, key(_)) ==
  CHOOSE x \in S : \A y \in S :
    key(x) > key(y) \/ (key(x) = key(y) /\ Position(s, x) <= Position(s, y))
TopBy(c, S) == IF S = {} THEN {}
               ELSE {Greatest(S, Entries(c), LAMBDA x : c.chunk[x].score)}

(***************************************************************************)
(* Comparative questions: a leader for every branch and at most one donor. *)
(***************************************************************************)
BestHintDonor(c, q) ==
  LET b == Branch(q)
      D == {x \in ToSet(b) \ {b[1]} : c.chunk[x].phrase}
  IN  IF ~q.phrase \/ c.chunk[b[1]].phrase \/ D = {} THEN {}
      ELSE {Greatest(D, b, LAMBDA x : c.chunk[x].score)}
(* Group 1 is growth: a leader with values of several periods needs no     *)
(* donor for it.                                                           *)
Matched(c, q, x) == c.chunk[x].groups \cap q.groups
BestIntentDonor(c, q) ==
  LET b == Branch(q)
      missing == q.groups \ Matched(c, q, b[1])
      D == {x \in ToSet(b) \ {b[1]} : Matched(c, q, x) \cap missing # {}}
  IN  IF missing = {} \/ (1 \in missing /\ c.chunk[b[1]].trend) \/ D = {} THEN {}
      ELSE {Greatest(D, b, LAMBDA x : 100 * Cardinality(Matched(c, q, x) \cap missing)
                                      + c.chunk[x].score)}
Donor(c, q) ==
  IF BestHintDonor(c, q) # {} THEN BestHintDonor(c, q) ELSE BestIntentDonor(c, q)
Leading(c, q) == {Branch(q)[1]} \cup Exact(c, ToSet(q.ranks))
Ranked(c) == SelectSeq(c.queries, LAMBDA q : q.ranks # << >>)

SelectComparative(c) ==
  UNION {Leading(c, q) \cup Donor(c, q) : q \in ToSet(Ranked(c))}

(* A donor that covers more of the query replaces a leader without a trend,*)
(* whatever else the leader was kept for.                                  *)
SelectIntentFirst(c) ==
  FoldLeft(LAMBDA kept, q :
             LET p == Branch(q)[1]
                 d == Donor(c, q)
                 more == \E x \in d : Cardinality(Matched(c, q, x)) > Cardinality(Matched(c, q, p))
                 led == kept \cup Leading(c, q)
             IN  (IF more /\ ~c.chunk[p].trend THEN led \ {p} ELSE led) \cup d,
           {}, Ranked(c))

(***************************************************************************)
(* Enumeration questions: a chunk that every branch ranks first or second, *)
(* and four fifths of them first, stands for the plan.                     *)
(***************************************************************************)
Window == 2
MinBranches == 4
RankIn(q, x) == IF x \in ToSet(q.ranks) THEN Position(Branch(q), x) ELSE 0
Ranks(c, x) == {<<n, RankIn(c.queries[n], x)>> : n \in {m \in DOMAIN c.queries :
                                                      RankIn(c.queries[m], x) # 0}}
Near(c, x) == {p \in Ranks(c, x) : p[2] <= Window}
First(c, x) == {p \in Ranks(c, x) : p[2] = 1}
Dominates(c, x) ==
  /\ Cardinality(Near(c, x)) = Len(c.queries)
  /\ 5 * Cardinality(First(c, x)) >= 4 * Len(c.queries)
Consensus(c) ==
  /\ Len(c.queries) >= MinBranches
  /\ \A n \in DOMAIN c.queries : c.queries[n].ranks # << >>
  /\ \E x \in All(c) : Dominates(c, x)
SelectEnumeration(c) ==
  IF ~Consensus(c) THEN All(c)
  ELSE Exact(c, All(c)) \cup
       {x \in All(c) : \/ Dominates(c, x)
                       \/ First(c, x) # {} /\ Near(c, x) = Ranks(c, x)
                       \/ Cardinality(Near(c, x)) >= 2}

(***************************************************************************)
(* Fact questions: one self-contained chunk of the best tier, or all.      *)
(***************************************************************************)
Scoped(c) == {x \in All(c) : c.chunk[x].ticker = c.queries[1].ticker}
SelfContained(c, x, version) == version \in c.chunk[x].fact
SelectFact(c, version) ==
  LET safe == {x \in Scoped(c) : SelfContained(c, x, version)}
      tier == <<Exact(c, safe),
                {x \in safe : c.chunk[x].tier = "phrase"},
                {x \in safe : c.chunk[x].tier = "terms"}>>
      found == {n \in DOMAIN tier : tier[n] # {}}
  IN  IF c.category # "fact" \/ found = {} THEN All(c)
      ELSE TopBy(c, tier[CHOOSE n \in found : \A m \in found : n <= m])

(***************************************************************************)
(* Summaries by intent, and with direct anchors.                           *)
(***************************************************************************)
Asked(c) == UNION {c.queries[n].groups : n \in DOMAIN c.queries}
Touches(c, x) == c.chunk[x].groups \cap Asked(c)
(* One chunk after the other, the one that adds most to what is covered.   *)
Cover(c) ==
  LET step(st, n) ==
        LET D == {x \in All(c) \ st.kept : Touches(c, x) # {}}
            x == Greatest(D, Entries(c), LAMBDA y :
                   10000 * Cardinality(Touches(c, y) \ st.covered)
                   + 100 * Cardinality(Touches(c, y)) + c.chunk[y].score)
        IN  IF Cardinality(st.kept) >= FillTarget \/ D = {} THEN st
            ELSE [kept |-> st.kept \cup {x}, covered |-> st.covered \cup Touches(c, x)]
  IN  FoldLeft(step, [kept |-> Exact(c, All(c)), covered |-> {}],
               [n \in 1..FillTarget |-> n]).kept
Holders(c, S) == {x \in S : c.chunk[x].term # 0}
FirstOf(c, S) == IF S = {} THEN {} ELSE {Greatest(S, Entries(c), LAMBDA x : 0)}
OrFirst(c, kept) == IF kept = {} THEN FirstOf(c, All(c)) ELSE kept
WithHolder(c, kept) ==
  IF ~c.required \/ Holders(c, kept) # {} THEN kept
  ELSE kept \cup FirstOf(c, Holders(c, All(c)))
SummaryIntentFirst(c) == WithHolder(c, OrFirst(c, Cover(c)))

(* The best anchor of every query takes the place of the chunk whose loss  *)
(* costs least; protected are the first chunk, the structured hits, the    *)
(* earliest donor of the keyword and the anchors that are kept already     *)
(* (an anchor has a signal in its first 150 characters or two in the first *)
(* 250, so none fails the test for one in the first 250).                  *)
Anchors(c) ==
  UNION {LET D == {x \in ToSet(q.ranks) : c.chunk[x].lead > 0}
         IN  IF D = {} THEN {}
             ELSE {Greatest(D, Branch(q), LAMBDA x : 100 * c.chunk[x].lead + c.chunk[x].score)}
         : q \in ToSet(c.queries)}
EarliestDonor(c) ==
  IF ~c.required \/ Holders(c, All(c)) = {} THEN {}
  ELSE {Greatest(Holders(c, All(c)), Entries(c),
                 LAMBDA x : 100 * (2 - c.chunk[x].term) + c.chunk[x].score)}
Covered(c, S) == UNION {Touches(c, x) : x \in S}
Anchored(c, base) ==
  LET safe == FirstOf(c, All(c)) \cup Exact(c, All(c)) \cup EarliestDonor(c)
              \cup (Anchors(c) \cap base)
      step(kept, a) ==
        LET R == kept \ safe
            loss(x) == Cardinality(Covered(c, kept) \ Covered(c, (kept \ {x}) \cup {a}))
            victim == CHOOSE x \in R : \A y \in R :
                        \/ 100 * loss(x) + c.chunk[x].score < 100 * loss(y) + c.chunk[y].score
                        \/ /\ 100 * loss(x) + c.chunk[x].score = 100 * loss(y) + c.chunk[y].score
                           /\ Position(Entries(c), x) >= Position(Entries(c), y)
        IN  IF a \in kept THEN kept
            ELSE IF Cardinality(kept) < FillTarget THEN kept \cup {a}
            ELSE IF R = {} THEN kept ELSE (kept \ {victim}) \cup {a}
      order == SetToSortSeq(Anchors(c), LAMBDA x, y :
                 100 * c.chunk[x].lead + c.chunk[x].score >
                 100 * c.chunk[y].lead + c.chunk[y].score)
  IN  FoldLeft(step, base, order)
SummaryWithAnchors(c) == Anchored(c, SummaryIntentFirst(c))

(***************************************************************************)
(* The route-aware strategy and the comparative ones built on it.          *)
(***************************************************************************)
Breadth(c) == UNION {{Branch(q)[n] : n \in {1, 2} \cap DOMAIN Branch(q)} : q \in ToSet(c.queries)}
(* A leader per branch, a donor for the keyword, a donor for the intent.   *)
Salient(c, kept0) ==
  FoldLeft(LAMBDA kept, q :
    LET B == ToSet(q.ranks)
        led == kept \cup {Branch(q)[1]}
        facts == IF ~c.required \/ Holders(c, B \cap led) # {} \/ Holders(c, B) = {} THEN led
                 ELSE led \cup {Greatest(Holders(c, B), Branch(q), LAMBDA x : 0)}
        missing == q.groups \ UNION {Matched(c, q, x) : x \in B \cap facts}
        D == {x \in B : Matched(c, q, x) \cap missing # {}}
    IN  IF D = {} THEN facts
        ELSE facts \cup {Greatest(D, Branch(q), LAMBDA x :
               100 * Cardinality(Matched(c, q, x) \cap missing) + c.chunk[x].score)},
    kept0, Ranked(c))
Support(c, kept) ==                                                     \* M2b
  IF c.category = "fact" /\ Exact(c, kept) # {} /\ Cardinality(kept) < 2
  THEN TopBy(c, All(c) \ Exact(c, All(c))) ELSE {}
Balance(c) ==                                                           \* M3
  UNION {TopBy(c, {x \in All(c) : c.chunk[x].ticker = c.queries[n].ticker}) : n \in DOMAIN c.queries}
\* Mutant: a keyword that some chunk has needs no donor.
KeywordDonorAnywhere(c, kept) ==
  IF ~c.required \/ Holders(c, All(c)) # {} THEN {} ELSE TopBy(c, Holders(c, All(c)))
KeywordDonor(c, kept) ==                                                \* M4
  IF ~c.required \/ Holders(c, kept) # {} THEN {} ELSE TopBy(c, Holders(c, All(c)))
Fill(c, kept) ==
  IF c.category \in {"summary", "enumeration"}
  THEN FoldLeft(LAMBDA S, n : IF Cardinality(S) >= FillTarget THEN S
                              ELSE S \cup TopBy(c, All(c) \ S),
                kept, [n \in 1..FillTarget |-> n])
  ELSE kept
Widened(c, strategy, kept) ==
  CASE strategy = "comparative3" -> kept \cup Breadth(c)
    [] strategy = "comparative4" -> Salient(c, kept)
    [] OTHER -> kept
Balanced(c, kept) == kept \cup Support(c, kept) \cup Balance(c)
WithKeyword(c, kept) == kept \cup KeywordDonor(c, kept)
RouteAware(c, strategy) ==
  Fill(c, WithKeyword(c, Balanced(c, Widened(c, strategy, FirstOf(c, All(c)) \cup Exact(c, All(c))))))

(***************************************************************************)
(* Policies.                                                               *)
(***************************************************************************)
(* effective_case_context_strategy.                                        *)
Strategy(policy, category) ==
  CASE policy \in {"selective3", "selective4"} /\ category = "comparative" -> "comparative6"
    [] policy = "selective3" /\ category = "summary" -> "intent"
    [] policy = "selective4" /\ category = "summary" -> "anchor"
    [] policy = "selective6" /\ category = "fact" -> "fact1"
    [] policy = "selective7" /\ category = "fact" -> "fact2"
    [] policy \in {"selective2", "selective5", "selective6", "selective7"}
         /\ category = "comparative" -> "comparative5"
    [] policy \in {"selective5", "selective6", "selective7"}
         /\ category = "enumeration" -> "consensus"
    [] policy \notin Concrete -> IF category \in {"fact", "multi_hop", "summary"}
                                 THEN "route" ELSE "full"
    [] OTHER -> policy

(* pack_case_context.                                                      *)
Packed(c, policy) ==
  LET s == Strategy(policy, c.category) IN
  CASE s = "full" -> All(c)
    [] s \in {"comparative3", "comparative4", "comparative5", "comparative6"}
         /\ c.category # "comparative" -> All(c)
    [] s = "consensus" -> IF c.category = "enumeration" THEN SelectEnumeration(c) ELSE All(c)
    [] s = "fact1" -> SelectFact(c, 1)
    [] s = "fact2" -> SelectFact(c, 2)
    [] s = "comparative5" -> SelectComparative(c)
    [] s = "comparative6" -> SelectIntentFirst(c)
    [] s = "intent" /\ c.category = "summary" -> SummaryIntentFirst(c)
    [] s = "anchor" /\ c.category = "summary" -> SummaryWithAnchors(c)
    [] OTHER -> RouteAware(c, s)
=============================================================================
