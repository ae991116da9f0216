------------------------------ MODULE Searching -----------------------------
(***************************************************************************)
(* The corpus is built, indexed and served, and a question is searched in  *)
(* a served corpus whose files and whose collection may be of different    *)
(* generations.                                                            *)
(***************************************************************************)
EXTENDS Corpus, Retrieval

VARIABLES world, query, result
searchVars == <<world, query, result>>
searchingVars == <<corpusVars, searchVars>>

(***************************************************************************)
(* Worlds of three chunks of two companies; 4 is stored and not loaded.    *)
(***************************************************************************)
Chunk(t, s, tier, row, r) ==
  [ticker |-> t, section |-> s, tier |-> tier, hits |-> 1, row |-> row, relevance |-> r]
Orders == {<<1, 2, 3>>, <<3, 2, 1>>}
Stores == {<<1, 2, 3>>, <<4, 3, 2>>, <<2, 4, 1>>}
Relevance == {<<4, 1, 2>>, <<1, 4, 3>>, <<-1, -2, -1>>, <<2, 2, 2>>}
Tiers == {<<"none", "none">>, <<"fuzzy", "partial">>, <<"full", "phrase">>}
Exacts == {<<"none", "none", "none">>, <<"plain", "none", "none">>, <<"plain", "none", "consolidated">>,
           <<"none", "signed", "none">>}
SectionOf(row) == IF row = "signed" THEN "statements" ELSE "mdna"
Worlds ==
  {[chunk |-> <<Chunk("A", "table", t[1], p[1], r[1]), Chunk("A", SectionOf(p[2]), t[2], p[2], r[2]),
                Chunk("B", "table", "none", p[3], r[3]), Chunk("A", "table", "none", "none", 1)>>,
    loaded |-> l, bm25 |-> b, stored |-> s] :
     t \in Tiers, p \in Exacts, r \in Relevance, l \in {<<1, 2, 3>>, <<2, 3>>}, b \in Orders, s \in Stores}
Query(t, s, asks, hints) ==
  [ticker |-> t, section |-> s, asks |-> asks, hints |-> hints, history |-> FALSE, trend |-> FALSE]
Queries == {Query(t, s, asks, hints) : t \in {"any", "A", "B"},
              s \in {"any", "table", "mdna", "statements"}, asks \in {"none", "total"}, hints \in BOOLEAN}
           \cup {Query(t, s, "auditor", FALSE) : t \in {"any", "A"}, s \in {"any", "table", "mdna", "statements"}}
Plans == {<<Query(t, s, "none", FALSE), Query(u, "any", "none", h), Query(v, "table", "none", FALSE)>> :
            t \in {"A", "any"}, s \in {"any", "news"}, u \in {"B", "C", "A"}, v \in {"A", "C"}, h \in BOOLEAN}

NoWorld == [chunk |-> << >>, loaded |-> << >>, bm25 |-> << >>, stored |-> << >>]
NoQuery == Query("any", "any", "none", FALSE)
NoResult == [kind |-> "none"]
NoCorpus == /\ source = Empty /\ gens = [g \in Generations |-> Absent] /\ active = Empty
            /\ index = None /\ dense = None /\ cloud = None
            /\ builder = Idle /\ promoter = Idle /\ indexer = Idle /\ migrator = Idle
            /\ server = Off /\ edits = MaxEdits /\ kills = MaxKills
SearchingInit ==
  \/ CorpusInit /\ world = NoWorld /\ query = NoQuery /\ result = [kind |-> "corpus"]
  \/ NoCorpus /\ world \in Worlds /\ query \in Queries /\ result = NoResult

Live == CorpusNext /\ UNCHANGED searchVars
Ask == result.kind = "none" /\ UNCHANGED <<corpusVars, world>>
Rewrite == Ask /\ query' \in Rewrites(query) /\ result' = [kind |-> "asked"]
Answered(r) == result.kind = "asked" /\ result' = r /\ UNCHANGED <<corpusVars, world, query>>
Search == Answered([kind |-> "found", chunks |-> Retrieve(world, query)])
Inspect == \E p \in Presets, chosen \in {Loaded(world), {2}} :
  Answered([kind |-> "traced", preset |-> p, chosen |-> chosen,
            trace |-> Trace(world, query, p, chosen)])
Decompose == \E plan \in Plans, failed \in {{}, {1}, {2, 3}} :
  LET valid == Valid(plan)
  IN  /\ query = NoQuery
      /\ Answered(IF valid = << >> THEN [kind |-> "found", chunks |-> Retrieve(world, query)]
                  ELSE [kind |-> "decomposed", plan |-> valid,
                        outcome |-> Decomposed(world, valid, failed)])
SearchingNext == Live \/ Rewrite \/ Search \/ Inspect \/ Decompose
SearchingSpec == SearchingInit /\ [][SearchingNext]_searchingVars

(* Whatever the store holds, a search returns loaded chunks of the company *)
(* and the section that were asked for, each once, and a table row that is *)
(* led in belongs there too (hybrid_retriever.py,                          *)
(* _retrieve_with_embedding).                                              *)
ResultsAreInScope ==
  result.kind = "found" =>
    /\ \A n \in DOMAIN result.chunks :
         /\ result.chunks[n] \in Loaded(world)
         /\ InScope(world, query, result.chunks[n])
    /\ IsInjective(result.chunks)
    /\ Len(result.chunks) <= TopK

(* The reasons of a trace can be proved from it: a chunk that is said to   *)
(* be ranked below was ranked by the stage of the preset, under every      *)
(* selected one, and one outside the pool was never reranked               *)
(* (hybrid_retriever.py, inspect: "Only reasons this trace can prove are   *)
(* reported").                                                             *)
ReasonsAreProvable ==
  result.kind = "traced" /\ ~result.trace.fails =>
    LET t == result.trace
        ranked == CASE result.preset = "bm25" -> ToSet(t.bm25) [] result.preset = "dense" -> ToSet(t.dense)
                    [] result.preset = "hybrid" -> t.ids [] OTHER -> ToSet(t.hybrid)
    IN  \A x \in t.ids :
          /\ t.reason[x] = "below" => x \in ranked /\ Len(t.final) = TopK
          /\ t.reason[x] \in {"outside", "elsewhere"} => x \notin ranked

(* A decomposed question is answered only from a context that has a chunk  *)
(* of every company the plan asks for, although queries fail and the       *)
(* context is reduced (query_decomposer.py, run).                          *)
EveryCompanyIsHeard ==
  result.kind = "decomposed" /\ result.outcome.answered =>
    /\ Cardinality(result.outcome.context) >= MinChunks
    /\ Cardinality(Asked(result.plan)) > 1 =>
         Asked(result.plan) \subseteq {world.chunk[x].ticker : x \in result.outcome.context}
=============================================================================
