--------------------------- MODULE AnswerPipeline ---------------------------
(***************************************************************************)
(* Concurrent POST /query requests over the two stores they share:         *)
(* conversation memory (src/memory/conversation_memory.py) and the         *)
(* semantic cache (src/retrieval/semantic_cache.py).                       *)
(*                                                                         *)
(* Every request runs rag_pipeline.query in a thread of its own and a      *)
(* coroutine that waits for it at most QUERY_TIMEOUT_SECONDS; the thread   *)
(* is abandoned, not stopped, when the wait ends first.  Both stores do    *)
(* each operation under their lock, so one operation is one step.  An      *)
(* answer is identified with the request whose thread generated it, and a  *)
(* turn with the request that added it.  Times are reduced to "older than  *)
(* the time to live" (idle, stale) and to the order of cache insertions.   *)
(* The list of the cache is a set of entries: its order decides only which *)
(* of two equally similar entries is found first, and here either may be.  *)
(***************************************************************************)
EXTENDS Naturals, Sequences, FiniteSets, TLC

CONSTANTS
    Requests, Sessions, Questions, Filters,
    Radius,          \* how far apart two questions above the threshold are
    MaxEntries,      \* max_entries of the cache
    MaxHistory,      \* MAX_HISTORY_TURNS
    NoSession, NoOne

ASSUME PipelineAssumption ==
    /\ MaxEntries \in Nat \ {0} /\ MaxHistory \in Nat \ {0}
    /\ Questions \subseteq Nat /\ Radius \in Nat
    /\ NoSession \notin Sessions /\ NoOne \notin Requests

VARIABLES
    req,             \* the threads: progress, parameters, history read, answer
    waiter,          \* the coroutines
    memory,          \* _sessions of the conversation memory
    cache,           \* _entries of the semantic cache, a set
    inserted         \* insertions so far; the timestamp of a cache entry

vars == <<req, waiter, memory, cache, inserted>>

Entry == [question : Questions, filter : Filters, answer : Requests,
          hits : Nat, stamp : Nat, stale : BOOLEAN]
Request == [at : {"open", "history", "lookup", "generate", "store", "returned", "raised"},
            session : Sessions \cup {NoSession}, question : Questions, filter : Filters,
            history : Seq(Requests), answer : Requests \cup {NoOne}]

NotSent == [at |-> "idle"]

TypeOK ==
    /\ req \in [Requests -> Request \cup {NotSent}]
    /\ waiter \in [Requests -> {"none", "waiting", "ok", "error", "timeout"}]
    /\ DOMAIN memory \subseteq Sessions
    /\ \A s \in DOMAIN memory : memory[s] \in [turns : Seq(Requests), idle : BOOLEAN]
    /\ cache \subseteq Entry /\ IsFiniteSet(cache) /\ Cardinality(cache) <= MaxEntries
    /\ inserted \in Nat

NewSession == [turns |-> <<>>, idle |-> FALSE]

Init ==
    /\ req = [r \in Requests |-> NotSent]
    /\ waiter = [r \in Requests |-> "none"]
    /\ memory = [s \in {} |-> NewSession] /\ cache = {} /\ inserted = 0

-----------------------------------------------------------------------------
(* Conversation memory. *)

\* _cleanup_expired
CleanUp(m) == [s \in {x \in DOMAIN m : ~m[x].idle} |-> m[s]]

\* get_or_create; it does not extend the session's life.
GetOrCreate(m, s) ==
    LET live == CleanUp(m)
    IN  [x \in DOMAIN live \cup {s} |-> IF x \in DOMAIN live THEN live[x] ELSE NewSession]

\* Mutant: the turn is appended to the history the request has read.
AddTurnStale(m, s, r) ==
    [GetOrCreate(m, s) EXCEPT ![s] = [turns |-> Append(req[r].history, r), idle |-> FALSE]]

AddTurn(m, s, r) ==
    [GetOrCreate(m, s) EXCEPT ![s] = [turns |-> Append(@.turns, r), idle |-> FALSE]]

\* get_recent_turns
Recent(turns) ==
    SubSeq(turns, IF Len(turns) > MaxHistory THEN Len(turns) - MaxHistory + 1 ELSE 1, Len(turns))

-----------------------------------------------------------------------------
(* Semantic cache. *)

\* Cosine similarity as a distance between questions.
Distance(q, p) == IF q > p THEN q - p ELSE p - q

Live == {e \in cache : ~e.stale}

\* Mutant: the filters are left out of the key.
CandidatesAnyFilter(q, f) == Live

Candidates(q, f) == {e \in Live : e.filter = f}

\* get: a best candidate, if it is similar enough.
Hits(q, f) ==
    {e \in Candidates(q, f) :
        /\ Distance(q, e.question) <= Radius
        /\ \A o \in Candidates(q, f) : Distance(q, e.question) <= Distance(q, o.question)}

LessUsed(a, b) == a.hits < b.hits \/ (a.hits = b.hits /\ a.stamp < b.stamp)

NewEntry(r) ==
    [question |-> req[r].question, filter |-> req[r].filter, answer |-> r,
     hits |-> 0, stamp |-> inserted, stale |-> FALSE]

-----------------------------------------------------------------------------
(* The thread of a request. *)

Go(r, at) == req' = [req EXCEPT ![r].at = at]

Submit(r) ==
    /\ req[r].at = "idle"
    /\ waiter' = [waiter EXCEPT ![r] = "waiting"]
    /\ \E s \in Sessions \cup {NoSession}, q \in Questions, f \in Filters :
         req' = [req EXCEPT ![r] =
                   [at |-> IF s = NoSession THEN "lookup" ELSE "open", session |-> s,
                    question |-> q, filter |-> f, history |-> <<>>, answer |-> NoOne]]
    /\ UNCHANGED <<memory, cache, inserted>>

OpenSession(r) ==
    /\ req[r].at = "open"
    /\ memory' = GetOrCreate(memory, req[r].session)
    /\ Go(r, "history")
    /\ UNCHANGED <<waiter, cache, inserted>>

\* _history_messages opens the session again and reads it.
ReadHistory(r) ==
    LET s == req[r].session
        m == GetOrCreate(memory, s)
    IN  /\ req[r].at = "history"
        /\ memory' = m
        /\ req' = [req EXCEPT ![r].at = "generate", ![r].history = Recent(m[s].turns)]
        /\ UNCHANGED <<waiter, cache, inserted>>

\* Rewriting and embedding, which may raise, and cache.get.
Lookup(r) ==
    /\ req[r].at = "lookup"
    /\ LET hits == Hits(req[r].question, req[r].filter)
       IN  \/ /\ hits = {}
              /\ Go(r, "generate")
              /\ UNCHANGED cache
           \/ \E e \in hits :
                /\ cache' = (cache \ {e}) \cup {[e EXCEPT !.hits = @ + 1]}
                /\ req' = [req EXCEPT ![r].at = "returned", ![r].answer = e.answer]
           \/ Go(r, "raised") /\ UNCHANGED cache
    /\ UNCHANGED <<waiter, memory, inserted>>

\* Rewriting, embedding, retrieval and generation; each of them may raise.
Generate(r) ==
    /\ req[r].at = "generate"
    /\ \/ req' = [req EXCEPT ![r].at = "store", ![r].answer = r]
       \/ Go(r, "raised")
    /\ UNCHANGED <<waiter, memory, cache, inserted>>

\* set: expired entries go, and of a full cache the least used and oldest one.
CacheAnswer(r) ==
    /\ \/ /\ Cardinality(Live) < MaxEntries
          /\ cache' = Live \cup {NewEntry(r)}
       \/ /\ Cardinality(Live) >= MaxEntries
          /\ \E e \in Live :
               /\ \A o \in Live \ {e} : LessUsed(e, o)
               /\ cache' = (Live \ {e}) \cup {NewEntry(r)}
    /\ inserted' = inserted + 1

\* Mutant: an answer given without history is cached, whoever asked.
StoreFirstAnswers(r) ==
    /\ req[r].at = "store"
    /\ Go(r, "returned")
    /\ IF req[r].session # NoSession
       THEN memory' = AddTurn(memory, req[r].session, r)
       ELSE UNCHANGED memory
    /\ IF req[r].history = <<>> THEN CacheAnswer(r) ELSE UNCHANGED <<cache, inserted>>
    /\ UNCHANGED waiter

\* A session keeps the turn, anyone else's answer goes to the cache.
Store(r) ==
    /\ req[r].at = "store"
    /\ Go(r, "returned")
    /\ \/ /\ req[r].session # NoSession
          /\ memory' = AddTurn(memory, req[r].session, r)
          /\ UNCHANGED <<cache, inserted>>
       \/ /\ req[r].session = NoSession
          /\ CacheAnswer(r)
          /\ UNCHANGED memory
    /\ UNCHANGED waiter

-----------------------------------------------------------------------------
(* The coroutine of a request. *)

Respond(r) ==
    /\ waiter[r] = "waiting" /\ req[r].at \in {"returned", "raised"}
    /\ waiter' = [waiter EXCEPT ![r] = IF req[r].at = "returned" THEN "ok" ELSE "error"]
    /\ UNCHANGED <<req, memory, cache, inserted>>

\* wait_for gives up; abandon_on_cancel leaves the thread running.
TimeOut(r) ==
    /\ waiter[r] = "waiting"
    /\ waiter' = [waiter EXCEPT ![r] = "timeout"]
    /\ UNCHANGED <<req, memory, cache, inserted>>

-----------------------------------------------------------------------------
(* The other routes, and time. *)

\* DELETE /session/{session_id}
ClearSession(s) ==
    /\ s \in DOMAIN memory
    /\ memory' = [x \in DOMAIN memory \ {s} |-> memory[x]]
    /\ UNCHANGED <<req, waiter, cache, inserted>>

\* GET /session/{session_id}/history: reads only, but cleans up first.
HistorySnapshot ==
    /\ memory' = CleanUp(memory)
    /\ UNCHANGED <<req, waiter, cache, inserted>>

\* POST /cache/clear
ClearCache ==
    /\ cache' = {}
    /\ UNCHANGED <<req, waiter, memory, inserted>>

\* GET /cache/stats prunes.
CacheStats ==
    /\ cache' = Live
    /\ UNCHANGED <<req, waiter, memory, inserted>>

IdleTooLong(s) ==
    /\ s \in DOMAIN memory /\ ~memory[s].idle
    /\ memory' = [memory EXCEPT ![s].idle = TRUE]
    /\ UNCHANGED <<req, waiter, cache, inserted>>

\* Entries expire in the order they were inserted.
EntriesAge ==
    /\ \E x \in cache :
         cache' = {[e EXCEPT !.stale = @ \/ e.stamp <= x.stamp] : e \in cache}
    /\ UNCHANGED <<req, waiter, memory, inserted>>

RequestStep(r) ==
    \/ Submit(r) \/ OpenSession(r) \/ ReadHistory(r) \/ Lookup(r) \/ Generate(r)
    \/ Store(r) \/ Respond(r) \/ TimeOut(r)

Next ==
    \/ \E r \in Requests : RequestStep(r)
    \/ \E s \in Sessions : ClearSession(s) \/ IdleTooLong(s)
    \/ HistorySnapshot \/ ClearCache \/ CacheStats \/ EntriesAge

Spec == Init /\ [][Next]_vars

Symmetry == Permutations(Requests) \cup Permutations(Filters)

-----------------------------------------------------------------------------
(* Properties. *)

\* A session never loses a turn to a concurrent request: a step leaves its
\* turns as they were, adds one at the end, or drops the session (to start it
\* again with at most the turn being added).
TurnsOnlyGrow ==
    [][\A s \in DOMAIN memory \cap DOMAIN memory' :
         LET before == memory[s].turns
             after == memory'[s].turns
         IN  \/ after = before
             \/ \E r \in Requests : after = Append(before, r)
             \/ memory[s].idle /\ Len(after) <= 1]_vars

Sent == {r \in Requests : req[r] # NotSent}

\* An answer taken from the cache was generated for the same filters and for a
\* question above the similarity threshold, however the cache was reordered,
\* evicted or cleared in between.
HitMatchesRequest ==
    \A r \in Sent : req[r].answer \notin {r, NoOne} =>
        LET g == req[req[r].answer]
        IN  /\ g.filter = req[r].filter
            /\ Distance(req[r].question, g.question) <= Radius

\* No answer given inside a conversation is ever served from the cache: it
\* may rest on the session's history.
SharedAnswersAreAnonymous ==
    \A r \in Sent : req[r].answer \notin {r, NoOne} =>
        req[req[r].answer].session = NoSession /\ req[req[r].answer].history = <<>>

\* What the conversation model is told is a part of one life of the session,
\* in order: no turn twice, none of another session.
HistoryIsOwn ==
    \A r \in Sent :
        LET h == req[r].history
        IN  /\ Len(h) <= MaxHistory
            /\ \A i, k \in DOMAIN h : i # k => h[i] # h[k]
            /\ \A i \in DOMAIN h : h[i] # r /\ req[h[i]].session = req[r].session

\* "a timed-out worker may finish in the background and its result is
\* discarded" (ARCHITECTURE.md): nothing it does after the 504 stays in the
\* session or in the cache.
TimedOutIsDiscarded ==
    [][\A r \in Requests : (waiter[r] = "timeout" /\ req[r].at = "store") =>
         /\ \A s \in DOMAIN memory' : r \in {memory'[s].turns[i] : i \in DOMAIN memory'[s].turns} =>
              s \in DOMAIN memory /\ r \in {memory[s].turns[i] : i \in DOMAIN memory[s].turns}
         /\ \A e \in cache' : e.answer # r]_vars

\* What is said in a conversation reaches the requests of that conversation
\* only; the state is well formed throughout.
ConversationsStayApart == TypeOK /\ HistoryIsOwn /\ SharedAnswersAreAnonymous
=============================================================================
