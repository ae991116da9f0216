------------------------------ MODULE Discovery ------------------------------
(***************************************************************************)
(* Discovery search over the loaded corpus (src/api/discovery.py, the      *)
(* routes of routers/search.py) and the catalog's facets (api/catalog.py): *)
(* searches rank and group chunks, and keep their result in a bounded      *)
(* store of snapshots that expire; readers page through a snapshot.  The   *)
(* routes are async and await nothing, so one runs at a time; only the     *)
(* clock goes on between the times it is read in one.                      *)
(***************************************************************************)
EXTENDS Naturals, FiniteSets, Sequences, SequencesExt, FiniteSetsExt, TLC

CONSTANTS
  Searches,      \* POST /search: the ids of their snapshots, given in any order
  Readers,       \* clients that page through a snapshot
  TTL,           \* SNAPSHOT_TTL_SECONDS
  MaxSnapshots,  \* MAX_SNAPSHOTS
  MaxHour        \* bound

ASSUME DiscoveryAssumption == Searches \subseteq Nat /\ {TTL, MaxSnapshots, MaxHour} \subseteq Nat

VARIABLES
  hour,      \* the clock
  snapshots, \* the store
  search,    \* search[s]: a POST /search
  page,      \* page[p]: a GET /search/{search_id}
  answered   \* history: the snapshots that searches have answered
dsVars == <<hour, snapshots, search, page, answered>>

(***************************************************************************)
(* The catalog and the loaded chunks.                                      *)
(***************************************************************************)
Catalog == {[id |-> 1, ticker |-> "aa", year |-> 2023, sections |-> {"business", "mdna"}],
            [id |-> 2, ticker |-> "aa", year |-> 2024, sections |-> {"mdna"}],
            [id |-> 3, ticker |-> "bb", year |-> 2024, sections |-> {}]}
AnyOf == "any"
Scopes == [ticker : {AnyOf, "aa", "bb"}, year : {0, 2023, 2024}, section : {AnyOf, "business", "mdna"}]
AllDocuments == [ticker |-> AnyOf, year |-> 0, section |-> AnyOf]
Matches(row, scope) ==
  /\ scope.ticker \in {AnyOf, row.ticker}
  /\ scope.section = AnyOf \/ scope.section \in row.sections
  /\ scope.year \in {0, row.year}
FilterDocuments(scope) == {row \in Catalog : Matches(row, scope)}
(* Each facet leaves out its own dimension.                                *)
CompanyFacet(scope) ==
  [t \in {"aa", "bb"} |-> Cardinality({row \in FilterDocuments([scope EXCEPT !.ticker = AnyOf]) : row.ticker = t})]
YearFacet(scope) ==
  [y \in {2023, 2024} |-> Cardinality({row \in FilterDocuments([scope EXCEPT !.year = 0]) : row.year = y})]
SectionFacet(scope) ==
  [n \in {"business", "mdna"} |->
     Cardinality({row \in FilterDocuments([scope EXCEPT !.section = AnyOf]) : n \in row.sections})]

Ceiling == 3
Chunks == <<[id |-> 1, doc |-> 1, score |-> 0], [id |-> 2, doc |-> 2, score |-> 2], [id |-> 3, doc |-> 1, score |-> 2],
            [id |-> 4, doc |-> 3, score |-> 1], [id |-> 5, doc |-> 2, score |-> 0]>>
Before(x, y) == x.score > y.score \/ (x.score = y.score /\ x.id < y.id)
(* The chunks with a term, of the documents in scope, best first; a chunk  *)
(* whose term is everywhere matches with score zero.                       *)
Ranked(scope, present) ==
  LET allowed == {row.id : row \in FilterDocuments(scope)}
  IN  SortSeq(SelectSeq(Chunks, LAMBDA x : x.id \in present /\ x.doc \in allowed), Before)
BestHits(scope, present) ==
  LET ranked == Ranked(scope, present) IN SubSeq(ranked, 1, Min({Len(ranked), Ceiling}))
Groups(hits) ==
  LET firsts == SelectSeq([n \in DOMAIN hits |-> n], LAMBDA n : \A m \in 1..n - 1 : hits[m].doc # hits[n].doc)
  IN  [n \in DOMAIN firsts |-> SelectSeq(hits, LAMBDA x : x.doc = hits[firsts[n]].doc)]
PageOf(items, number, size) == SubSeq(items, (number - 1) * size + 1, Min({Len(items), number * size}))

(***************************************************************************)
(* The store of snapshots.                                                 *)
(***************************************************************************)
Unexpired(S, at) == {x \in S : x.expires > at}
Sooner(x, y) == x.expires < y.expires \/ (x.expires = y.expires /\ x.id < y.id)
Dropped(S, id) == {x \in S : x.id # id}
\* Mutant: the smallest id makes room.
BoundedById(S) == IF Cardinality(S) <= MaxSnapshots THEN S ELSE {x \in S : \E y \in S : y.id < x.id}
(* The one that expires first makes room.                                  *)
Bounded(S) == IF Cardinality(S) <= MaxSnapshots THEN S ELSE {x \in S : \E y \in S : Sooner(y, x)}
Stored(id) == {x \in snapshots : x.id = id}

(* The event loop runs no route.                                           *)
LoopIsFree ==
  /\ \A s \in Searches : search[s].at # "stamped"
  /\ \A p \in Readers : page[p].at \notin {"status", "get"}

(* POST /search: the result, then the clock, then the store.               *)
RunSearch(s) ==
  /\ search[s].at = "new" /\ LoopIsFree
  /\ \E scope \in Scopes, present \in {{1, 2, 3, 4, 5}, {1, 3, 4}} :
       /\ (s = 1 /\ hour = MaxHour) \/ (scope = AllDocuments /\ Cardinality(present) = 5)  \* bound: one search of any scope
       /\ search' = [search EXCEPT ![s] = [at |-> "stamped", stamp |-> hour, scope |-> scope, present |-> present]]
  /\ UNCHANGED <<hour, snapshots, page, answered>>
StoreSnapshot(s) ==
  /\ search[s].at = "stamped"
  /\ LET x == [id |-> s, expires |-> search[s].stamp + TTL, scope |-> search[s].scope, present |-> search[s].present,
               hits |-> BestHits(search[s].scope, search[s].present)]
     IN  /\ snapshots' = Bounded(Unexpired(snapshots, search[s].stamp) \cup {x})
         /\ answered' = answered \cup {x}
  /\ search' = [search EXCEPT ![s].at = "answered"]
  /\ UNCHANGED <<hour, page>>

(* GET /search/{search_id}: the status, then the snapshot, two lookups.    *)
AskPage(p) ==
  /\ page[p].at = "idle" /\ LoopIsFree
  /\ \E s \in Searches : search[s].at = "answered" /\ page' = [page EXCEPT ![p] = [at |-> "status", id |-> s, stamp |-> hour]]
  /\ UNCHANGED <<hour, snapshots, search, answered>>
Answers(p, code) == page' = [page EXCEPT ![p] = [at |-> code, id |-> page[p].id, stamp |-> page[p].stamp]]
Forgets(p) == snapshots' = Dropped(snapshots, page[p].id)
Status(p) ==
  /\ page[p].at = "status"
  /\ \/ Stored(page[p].id) = {} /\ Answers(p, "missing") /\ UNCHANGED snapshots
     \/ \E x \in Stored(page[p].id) :
          IF x.expires <= page[p].stamp THEN Answers(p, "gone") /\ Forgets(p)
          ELSE page' = [page EXCEPT ![p].at = "get", ![p].stamp = hour] /\ UNCHANGED snapshots
  /\ UNCHANGED <<hour, search, answered>>
Get(p) ==
  /\ page[p].at = "get"
  /\ IF \E x \in Stored(page[p].id) : x.expires > page[p].stamp
     THEN Answers(p, "served") /\ UNCHANGED snapshots
     ELSE Answers(p, "missing") /\ Forgets(p)
  /\ UNCHANGED <<hour, search, answered>>
HourPasses == hour < MaxHour /\ hour' = hour + 1 /\ UNCHANGED <<snapshots, search, page, answered>>

DsInit ==
  /\ hour = 0 /\ snapshots = {} /\ answered = {}
  /\ search = [s \in Searches |-> [at |-> "new"]]
  /\ page = [p \in Readers |-> [at |-> "idle"]]
DsNext ==
  \/ \E s \in Searches : RunSearch(s) \/ StoreSnapshot(s)
  \/ \E p \in Readers : AskPage(p) \/ Status(p) \/ Get(p)
  \/ HourPasses
DsSpec == DsInit /\ [][DsNext]_dsVars

(* The store holds at most its bound, and what it gives up is always what  *)
(* would have expired first: a snapshot that a search answered is there    *)
(* until it expires or as many later ones were answered, whatever searches *)
(* and readers drop from the store in between, and however late their      *)
(* clocks were read (discovery.py, DiscoverySnapshotStore: "evicts the     *)
(* earliest expiring entry first").                                        *)
NewestSurvive ==
  /\ Cardinality(snapshots) <= MaxSnapshots
  /\ \A x \in answered :
       x.expires > hour /\ Cardinality({y \in answered : Sooner(x, y)}) < MaxSnapshots => x \in snapshots

(* A snapshot tells the truth about its scope: its pages partition its     *)
(* groups, its groups partition its hits and come in the order of their    *)
(* best, no match left out beats a hit, and each facet count is the number *)
(* of documents that choosing its value would leave (discovery.py,         *)
(* rank_chunks; catalog.py, FACET_COUNT_BASIS).                            *)
SnapshotsAreSound ==
  \A x \in snapshots :
    LET groups == Groups(x.hits)
        pages(size) == [n \in 1..Len(groups) |-> PageOf(groups, n, size)]
        choose(scope) == Cardinality(FilterDocuments(scope))
    IN  /\ \A size \in 1..2 : FlattenSeq(pages(size)) = groups
        /\ ToSet(FlattenSeq(groups)) = ToSet(x.hits) /\ Len(FlattenSeq(groups)) = Len(x.hits)
        /\ \A m, n \in DOMAIN groups : m < n => Before(groups[m][1], groups[n][1])
        /\ \A y \in ToSet(Ranked(x.scope, x.present)) \ ToSet(x.hits) :
             Len(x.hits) = Ceiling /\ \A h \in ToSet(x.hits) : Before(h, y)
        /\ \A t \in {"aa", "bb"} : CompanyFacet(x.scope)[t] = choose([x.scope EXCEPT !.ticker = t])
        /\ \A y \in {2023, 2024} : YearFacet(x.scope)[y] = choose([x.scope EXCEPT !.year = y])
        /\ \A n \in {"business", "mdna"} : SectionFacet(x.scope)[n] = choose([x.scope EXCEPT !.section = n])
=============================================================================
