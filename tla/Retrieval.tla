------------------------------ MODULE Retrieval -----------------------------
(***************************************************************************)
(* A question is searched in the chunks that are loaded and in the points  *)
(* that are stored, which need not be the same (Corpus): rewritten and     *)
(* shaped, ranked by keywords, by vectors and by the lexical ladder,       *)
(* fused, reranked, and led by an exact row of a table; or decomposed into *)
(* queries that are searched for themselves; or inspected stage by stage.  *)
(*                                                                         *)
(* A chunk is known by its id and by what the code can tell about it:      *)
(*   ticker, section   where it belongs                                    *)
(*   tier, hits        the best tier of the ladder it has, and how often   *)
(*   row               what a lookup finds in it: "none", a "plain" or     *)
(*                     "consolidated" row of a total, or that it is "signed"*)
(*                     by the auditor                                      *)
(*   relevance         the logit of the cross-encoder                      *)
(* A world has these chunks, the ids that are loaded, in their order, the  *)
(* order of all of them by BM25, and the ids that are stored, by           *)
(* similarity.  A query has a ticker and a section, or "any", what it asks *)
(* a lookup for, "total", "auditor" or "none", and whether it has hints    *)
(* for the ladder.                                                         *)
(***************************************************************************)
EXTENDS Naturals, Integers, FiniteSets, Sequences, SequencesExt

CONSTANTS TopK, Pool         \* results, and candidates of a stage

RRFK == 60
Presets == {"bm25", "dense", "hybrid", "hybrid_rerank"}
Supported == {"A", "B"}      \* SUPPORTED_TICKERS
Sections == {"table", "mdna"}
MinChunks == 2               \* MIN_CHUNKS_FOR_SYNTHESIS
Packs == INSTANCE ContextPacking WITH FillTarget <- 4

Loaded(w) == ToSet(w.loaded)
Prefix(s, n) == SubSeq(s, 1, IF n < Len(s) THEN n ELSE Len(s))
Position(s, x) == CHOOSE n \in DOMAIN s : s[n] = x
InScope(w, q, x) == /\ q.ticker \in {"any", w.chunk[x].ticker}
                    /\ q.section \in {"any", w.chunk[x].section}
Filtered(w, q) == {x \in Loaded(w) : InScope(w, q, x)}

(***************************************************************************)
(* Before the search: rewriting and shaping.                               *)
(***************************************************************************)
(* A question without history is rewritten for a trend or a total without  *)
(* a year; what the provider answers may gain or lose the hints, and no    *)
(* answer leaves the question as it is.                                    *)
NeedsRewrite(q) == q.history \/ q.trend \/ q.asks = "total"
Rewrites(q) == IF NeedsRewrite(q) THEN {q, [q EXCEPT !.hints = TRUE], [q EXCEPT !.hints = FALSE]}
               ELSE {q}

(***************************************************************************)
(* The stages.                                                             *)
(***************************************************************************)
Bm25(w, S) == Prefix(SelectSeq(w.bm25, LAMBDA x : x \in S), Pool)
(* The store filters by its own payload, before it cuts.                   *)
Dense(w, q) == Prefix(SelectSeq(w.stored, LAMBDA x : InScope(w, q, x)), Pool)
(* The first tier with a match; the fuzzy one needs a ticker.              *)
Tier(w, S, t) == {x \in S : w.chunk[x].tier = t}
ByHits(w, S) == SetToSortSeq(S, LAMBDA x, y : 10 * w.chunk[x].hits - x > 10 * w.chunk[y].hits - y)
Ladder(w, q, S) ==
  LET tiers == SelectSeq(<<"phrase", "full", "partial", "fuzzy">>, LAMBDA t :
                 Tier(w, S, t) # {} /\ (t = "fuzzy" => q.ticker # "any"))
      most == IF tiers # << >> /\ tiers[1] = "fuzzy" /\ Pool > 3 THEN 3 ELSE Pool
  IN  IF ~q.hints \/ tiers = << >> THEN << >> ELSE Prefix(ByHits(w, Tier(w, S, tiers[1])), most)

(* Reciprocal ranks, over their common denominator; equal sums keep the    *)
(* order in which the ids came in.                                         *)
Weight(s, x) == IF x \in ToSet(s)
                THEN ((RRFK + 1) * (RRFK + 2) * (RRFK + 3)) \div (RRFK + Position(s, x)) ELSE 0
Fused(b, d, l) ==
  LET came == FoldLeft(LAMBDA acc, x : IF x \in ToSet(acc) THEN acc ELSE Append(acc, x),
                       << >>, b \o d \o l)
      score(x) == Weight(b, x) + Weight(d, x) + Weight(l, x)
  IN  SetToSortSeq(ToSet(came), LAMBDA x, y :
        score(x) > score(y) \/ (score(x) = score(y) /\ Position(came, x) < Position(came, y)))
Reranked(w, s) ==
  SetToSortSeq(ToSet(s), LAMBDA x, y :
    \/ w.chunk[x].relevance > w.chunk[y].relevance
    \/ w.chunk[x].relevance = w.chunk[y].relevance /\ Position(s, x) < Position(s, y))
(* What is less than half as relevant as the first is cut.                 *)
Cutoff(w, s) ==
  IF s = << >> \/ w.chunk[s[1]].relevance <= 0 THEN s
  ELSE SelectSeq(s, LAMBDA x : 2 * w.chunk[x].relevance >= w.chunk[s[1]].relevance)

(***************************************************************************)
(* structured_lookup and its promotion.                                    *)
(***************************************************************************)
Rows(w, q, section, kinds) == SelectSeq(w.loaded, LAMBDA x :
  w.chunk[x].ticker = q.ticker /\ w.chunk[x].section = section /\ w.chunk[x].row \in kinds)
(* A row of a total, a consolidated one if there is one, or the auditor's  *)
(* signature under the statements.                                         *)
Exactly(w, q) ==
  CASE q.asks = "total" -> Rows(w, q, "table", {"consolidated"})
                           \o Rows(w, q, "table", {"plain", "consolidated"})
    [] q.asks = "auditor" -> Rows(w, q, "statements", {"signed"})
    [] OTHER -> << >>
StructuredMatch(w, q) ==
  IF q.ticker # "any" /\ q.section \in {"any", "table", "statements"} /\ Exactly(w, q) # << >>
  THEN {Exactly(w, q)[1]} ELSE {}
KeptMatch(w, q, M) == {x \in M : q.section \in {"any", w.chunk[x].section}}
Promoted(s, M) ==
  IF M = {} THEN s
  ELSE LET x == CHOOSE x \in M : TRUE
           room == IF TopK < 2 THEN TopK ELSE 2
       IN  <<x>> \o Prefix(SelectSeq(s, LAMBDA y : y # x), room - 1)

(* _retrieve_with_embedding: an id that is stored and not loaded takes a   *)
(* place among the candidates, and is dropped before the reranking.        *)
\* Mutant: it is not dropped.
KnownAll(w, s) == s
Known(w, s) == SelectSeq(s, LAMBDA x : x \in Loaded(w))
Candidates(w, q) ==
  LET S == Filtered(w, q)
  IN  Prefix(Fused(Bm25(w, S), Dense(w, q), Ladder(w, q, S)), Pool)
Retrieve(w, q) ==
  LET ranked == Cutoff(w, Reranked(w, Known(w, Candidates(w, q))))
  IN  Prefix(Promoted(ranked, KeptMatch(w, q, StructuredMatch(w, q))), TopK)

(***************************************************************************)
(* inspect: the trace of a search, for one preset, of the documents that   *)
(* the reader chose, or of all.                                            *)
(***************************************************************************)
(* Why a chunk was not selected, of what its preset ranks.                 *)
Reason(preset, x, stage, reranked) ==
  IF preset = "hybrid_rerank" THEN IF x \in ToSet(reranked) THEN "below" ELSE "outside"
  ELSE IF x \in ToSet(stage) THEN "below" ELSE "elsewhere"
Trace(w, q, preset, chosen) ==
  LET S == Filtered(w, q) \cap chosen
      all == chosen = Loaded(w)            \* no filter
      b == Bm25(w, S)
      d == SelectSeq(Dense(w, q), LAMBDA x : all \/ x \in chosen)
      l == Ladder(w, q, S)
      order == Fused(b, d, l)
      hybrid == Prefix(order, Pool)
      final == Prefix(CASE preset = "bm25" -> b [] preset = "dense" -> d
                        [] preset = "hybrid" -> hybrid
                        [] OTHER -> Reranked(w, hybrid), TopK)
      stage == CASE preset = "bm25" -> b [] preset = "dense" -> d [] OTHER -> order
      ids == ToSet(order)
  IN  IF ids \ Loaded(w) # {} THEN [fails |-> TRUE]    \* KeyError
      ELSE [fails |-> FALSE, ids |-> ids, final |-> final, dense |-> d, bm25 |-> b, hybrid |-> hybrid,
            reason |-> [x \in ids |->
              IF x \in ToSet(final) THEN "none" ELSE Reason(preset, x, stage, hybrid)]]

(***************************************************************************)
(* Decomposition: the planner's queries are validated, searched in         *)
(* parallel, and answered from together.                                   *)
(***************************************************************************)
Valid(plan) == SelectSeq(plan, LAMBDA q :
  q.ticker \in Supported \cup {"any"} /\ q.section \in Sections \cup {"any"})
Retrieved(w, plan, failed) ==
  [n \in DOMAIN plan |-> IF n \in failed THEN << >> ELSE Retrieve(w, plan[n])]
Asked(plan) == {plan[n].ticker : n \in DOMAIN plan} \ {"any"}
Found(w, got) == {w.chunk[x].ticker : x \in UNION {ToSet(got[n]) : n \in DOMAIN got}}
Missing(w, plan, got) == IF Cardinality(Asked(plan)) < 2 THEN {} ELSE Asked(plan) \ Found(w, got)
(* The selectors see the chunks and their branches as in ContextPacking.   *)
Branches(w, plan, got) ==
  Packs!Case("comparative", FALSE,
   [x \in DOMAIN w.chunk |->
     [score |-> w.chunk[x].relevance, ticker |-> w.chunk[x].ticker, groups |-> {},
      phrase |-> w.chunk[x].tier = "phrase", trend |-> FALSE]],
   [n \in DOMAIN plan |-> Packs!Query(plan[n].ticker, {}, plan[n].hints, got[n])])
Context(w, plan, got) ==
  LET c == Branches(w, plan, got)
      kept == Packs!SelectComparative(c)
  IN  IF \/ Cardinality(Asked(plan)) < 2
         \/ Cardinality(kept) < MinChunks
         \/ ~(Asked(plan) \subseteq {w.chunk[x].ticker : x \in kept})
      THEN Packs!All(c) ELSE kept
Decomposed(w, plan, failed) ==
  LET got == Retrieved(w, plan, failed)
      all == UNION {ToSet(got[n]) : n \in DOMAIN got}
  IN  IF Cardinality(all) < MinChunks \/ Missing(w, plan, got) # {}
      THEN [answered |-> FALSE, context |-> all]
      ELSE [answered |-> TRUE, context |-> Context(w, plan, got)]
=============================================================================
