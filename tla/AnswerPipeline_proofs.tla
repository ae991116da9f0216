------------------------- MODULE AnswerPipeline_proofs -------------------------
(***************************************************************************)
(* Proofs about concurrent queries over the shared memory and cache, for   *)
(* any number of requests, sessions, questions, filters, and any size of   *)
(* the cache and of the histories.                                         *)
(*                                                                         *)
(* The argument: the record of a request that has returned never changes   *)
(* again, and only such requests are named by turns, by histories and by   *)
(* cache entries.  So what was true of a turn or an entry when it was      *)
(* stored is still true when a later request reads it, whatever was        *)
(* evicted, cleared or expired in between.                                 *)
(*                                                                         *)
(* The second part is about the corpus those requests are answered from:   *)
(* its generations, its index and the copy of it in the cloud.  The third  *)
(* is about the store of discovery searches in the same process.           *)
(***************************************************************************)
EXTENDS AnswerPipeline, Corpus, Discovery, FiniteSetTheorems, SequenceTheorems, TLAPS

Returned(x) == req[x].at = "returned"

\* A part of one life of session s, in order.
LifeOf(turns, s) ==
    /\ \A i, k \in DOMAIN turns : i # k => turns[i] # turns[k]
    /\ \A i \in DOMAIN turns : Returned(turns[i]) /\ req[turns[i]].session = s

MemoryIsSound ==
    /\ DOMAIN memory \subseteq Sessions
    /\ \A s \in DOMAIN memory :
         /\ memory[s] \in [turns : Seq(Requests), idle : BOOLEAN]
         /\ LifeOf(memory[s].turns, s)

\* Which fields of a request are set, by where its thread stands.
FieldsAreSound(r) ==
    /\ req[r].at \in {"open", "history"} => req[r].session # NoSession
    /\ req[r].at \in {"open", "history", "lookup"} => req[r].history = <<>>
    /\ req[r].at = "lookup" => req[r].session = NoSession
    /\ req[r].session = NoSession => req[r].history = <<>>
    /\ req[r].at = "store" => req[r].answer = r
    /\ req[r].at \notin {"store", "returned"} => req[r].answer = NoOne

HistoryIsSound(r) ==
    /\ Len(req[r].history) <= MaxHistory
    /\ LifeOf(req[r].history, req[r].session)
    /\ \A i \in DOMAIN req[r].history : req[r].history[i] # r

\* What answer a request has been given that another one generated.
AnswerIsSound(r) ==
    req[r].answer \notin {r, NoOne} =>
        LET g == req[req[r].answer]
        IN  /\ g.at = "returned" /\ g.session = NoSession /\ g.history = <<>>
            /\ g.filter = req[r].filter
            /\ Distance(req[r].question, g.question) <= Radius

ThreadIsSound(r) ==
    req[r] # NotSent => FieldsAreSound(r) /\ HistoryIsSound(r) /\ AnswerIsSound(r)

\* An entry is what its request was, and that request had no session.
EntryIsSound(e) ==
    LET g == req[e.answer]
    IN  /\ g.at = "returned" /\ g.session = NoSession /\ g.history = <<>>
        /\ g.filter = e.filter /\ g.question = e.question

PInv ==
    /\ TypeOK
    /\ MemoryIsSound
    /\ \A r \in Requests : ThreadIsSound(r)
    /\ \A e \in cache : EntryIsSound(e)

-----------------------------------------------------------------------------
(* What lasts. *)

LEMMA SentIsRequest ==
    ASSUME PInv, NEW r \in Requests, req[r].at # "idle"
    PROVE  req[r] \in Request /\ req[r] # NotSent
  BY DEF PInv, TypeOK, NotSent, Request

\* No step changes the record of a request that has returned.
ReturnedStay == \A x \in Requests : Returned(x) => req'[x] = req[x]

LEMMA LifeLasts ==
    ASSUME ReturnedStay, NEW turns \in Seq(Requests), NEW s, LifeOf(turns, s)
    PROVE  LifeOf(turns, s)'
<1>1. \A i \in DOMAIN turns : turns[i] \in Requests
  OBVIOUS
<1> QED
  BY <1>1 DEF LifeOf, ReturnedStay, Returned

LEMMA ThreadLasts ==
    ASSUME PInv, ReturnedStay, NEW r \in Requests, req'[r] = req[r]
    PROVE  ThreadIsSound(r)'
<1> SUFFICES ASSUME req[r] # NotSent PROVE ThreadIsSound(r)'
  BY DEF ThreadIsSound
<1>1. req[r] \in Request /\ FieldsAreSound(r) /\ HistoryIsSound(r) /\ AnswerIsSound(r)
  BY DEF PInv, TypeOK, ThreadIsSound
<1>2. FieldsAreSound(r)'
  BY <1>1 DEF FieldsAreSound
<1>3. HistoryIsSound(r)'
  <2>1. PICK h \in Seq(Requests) : h = req[r].history
    BY <1>1 DEF Request
  <2>2. PICK s : s = req[r].session
    OBVIOUS
  <2>3. LifeOf(h, s)'
    BY <1>1, <2>1, <2>2, LifeLasts DEF HistoryIsSound
  <2> QED
    BY <1>1, <2>1, <2>2, <2>3 DEF HistoryIsSound, LifeOf
<1>4. AnswerIsSound(r)'
  <2>1. CASE req[r].answer \in {r, NoOne}
    BY <2>1 DEF AnswerIsSound
  <2>2. CASE req[r].answer \notin {r, NoOne}
    <3>1. req[r].answer \in Requests /\ Returned(req[r].answer)
      BY <1>1, <2>2 DEF Request, AnswerIsSound, Returned
    <3>2. req'[req[r].answer] = req[req[r].answer]
      BY <3>1 DEF ReturnedStay
    <3> QED
      BY <1>1, <3>2 DEF AnswerIsSound
  <2> QED
    BY <2>1, <2>2
<1> QED
  BY <1>2, <1>3, <1>4 DEF ThreadIsSound

LEMMA EntryLasts ==
    ASSUME ReturnedStay, NEW e \in Entry, EntryIsSound(e)
    PROVE  EntryIsSound(e)'
<1>1. e.answer \in Requests
  BY DEF Entry
<1> QED
  BY <1>1 DEF EntryIsSound, ReturnedStay, Returned

LEMMA MemoryLasts ==
    ASSUME MemoryIsSound, ReturnedStay, memory' = memory
    PROVE  MemoryIsSound'
<1>1. ASSUME NEW s \in DOMAIN memory PROVE LifeOf(memory[s].turns, s)'
  <2>1. PICK t \in Seq(Requests) : t = memory[s].turns
    BY DEF MemoryIsSound
  <2>2. LifeOf(t, s)'
    BY <2>1, LifeLasts DEF MemoryIsSound
  <2> QED
    BY <2>1, <2>2 DEF LifeOf
<1> QED
  BY <1>1 DEF MemoryIsSound

\* A session may be dropped, started again, kept, or go on as a life of its own.
LEMMA MemoryBecomes ==
    ASSUME MemoryIsSound, ReturnedStay, NEW m, memory' = m, DOMAIN m \subseteq Sessions,
           \A s \in DOMAIN m :
             /\ m[s] \in [turns : Seq(Requests), idle : BOOLEAN]
             /\ \/ m[s].turns = <<>>
                \/ s \in DOMAIN memory /\ m[s].turns = memory[s].turns
                \/ LifeOf(m[s].turns, s)'
    PROVE  MemoryIsSound'
<1>1. ASSUME NEW s \in DOMAIN m PROVE LifeOf(m[s].turns, s)'
  <2>1. PICK t \in Seq(Requests) : t = m[s].turns
    OBVIOUS
  <2>2. CASE t = <<>>
    BY <2>1, <2>2 DEF LifeOf
  <2>3. CASE s \in DOMAIN memory /\ t = memory[s].turns
    <3>1. LifeOf(t, s)'
      BY <2>3, LifeLasts DEF MemoryIsSound
    <3> QED
      BY <2>1, <3>1
  <2> QED
    BY <2>1, <2>2, <2>3
<1> QED
  BY <1>1 DEF MemoryIsSound

\* get_or_create opens the session and changes no turn of another.
LEMMA OpenedMemory ==
    ASSUME MemoryIsSound, NEW s \in Sessions
    PROVE  LET m == GetOrCreate(memory, s)
           IN  /\ DOMAIN m \subseteq Sessions /\ s \in DOMAIN m
               /\ m = [x \in DOMAIN m |-> m[x]]
               /\ \A x \in DOMAIN m :
                    /\ m[x] \in [turns : Seq(Requests), idle : BOOLEAN]
                    /\ \/ m[x].turns = <<>>
                       \/ x \in DOMAIN memory /\ ~memory[x].idle /\ m[x].turns = memory[x].turns
<1>1. /\ NewSession \in [turns : Seq(Requests), idle : BOOLEAN] /\ NewSession.turns = <<>>
  BY DEF NewSession
<1> QED
  BY <1>1 DEF GetOrCreate, CleanUp, MemoryIsSound

LEMMA OpenPreserves ==
    ASSUME MemoryIsSound, ReturnedStay, NEW s \in Sessions, memory' = GetOrCreate(memory, s)
    PROVE  MemoryIsSound'
<1>1. PICK m : m = GetOrCreate(memory, s)
  OBVIOUS
<1>2. memory' = m /\ DOMAIN m \subseteq Sessions
      /\ \A x \in DOMAIN m :
           /\ m[x] \in [turns : Seq(Requests), idle : BOOLEAN]
           /\ m[x].turns = <<>> \/ (x \in DOMAIN memory /\ m[x].turns = memory[x].turns)
  BY <1>1, OpenedMemory
<1> QED
  BY <1>2, MemoryBecomes

\* add_turn: the request that stores its answer is in no session yet.
LEMMA AddPreserves ==
    ASSUME PInv, ReturnedStay, NEW r \in Requests, req[r].at = "store", req[r].session \in Sessions,
           req'[r].at = "returned", req'[r].session = req[r].session,
           memory' = AddTurn(memory, req[r].session, r)
    PROVE  MemoryIsSound'
<1>1. PICK s \in Sessions : s = req[r].session
  OBVIOUS
<1>2. PICK o : o = GetOrCreate(memory, s)
  OBVIOUS
<1>3. /\ DOMAIN o \subseteq Sessions /\ s \in DOMAIN o
      /\ o = [x \in DOMAIN o |-> o[x]]
      /\ \A x \in DOMAIN o :
           /\ o[x] \in [turns : Seq(Requests), idle : BOOLEAN]
           /\ o[x].turns = <<>> \/ (x \in DOMAIN memory /\ o[x].turns = memory[x].turns)
  BY <1>2, OpenedMemory DEF PInv
<1>4. PICK t \in Seq(Requests) : t = o[s].turns
  BY <1>3
<1>5. PICK m : m = [o EXCEPT ![s] = [turns |-> Append(t, r), idle |-> FALSE]]
  OBVIOUS
<1>6. memory' = m
  BY <1>1, <1>2, <1>3, <1>4, <1>5 DEF AddTurn
<1>7. LifeOf(t, s) /\ LifeOf(t, s)'
  <2>1. CASE t = <<>>
    BY <2>1 DEF LifeOf
  <2>2. CASE s \in DOMAIN memory /\ t = memory[s].turns
    BY <2>2, LifeLasts DEF PInv, MemoryIsSound
  <2> QED
    BY <1>3, <1>4, <2>1, <2>2
<1>8. \A i \in DOMAIN t : t[i] # r
  BY <1>7 DEF LifeOf, Returned
<1>9. LifeOf(Append(t, r), s)'
  <2>1. /\ Len(Append(t, r)) = Len(t) + 1 /\ DOMAIN Append(t, r) = 1..(Len(t) + 1)
        /\ \A i \in 1..Len(t) : Append(t, r)[i] = t[i]
        /\ Append(t, r)[Len(t) + 1] = r
    OBVIOUS
  <2>2. DOMAIN t = 1..Len(t) /\ Len(t) \in Nat
    OBVIOUS
  <2>3. \A i \in 1..(Len(t) + 1) : i \in 1..Len(t) \/ i = Len(t) + 1
    BY <2>2
  <2> QED
    BY <1>1, <1>7, <1>8, <2>1, <2>2, <2>3 DEF LifeOf, Returned
<1>10. \A x \in DOMAIN m :
         /\ m[x] \in [turns : Seq(Requests), idle : BOOLEAN]
         /\ \/ m[x].turns = <<>>
            \/ x \in DOMAIN memory /\ m[x].turns = memory[x].turns
            \/ LifeOf(m[x].turns, x)'
  <2>1. m[s] = [turns |-> Append(t, r), idle |-> FALSE] /\ Append(t, r) \in Seq(Requests)
    BY <1>3, <1>5
  <2>2. LifeOf(m[s].turns, s)'
    BY <1>9, <2>1
  <2>3. \A x \in DOMAIN m : x # s => m[x] = o[x] /\ x \in DOMAIN o
    BY <1>5
  <2>4. m[s] \in [turns : Seq(Requests), idle : BOOLEAN]
    BY <2>1
  <2> QED
    BY <1>3, <2>2, <2>3, <2>4
<1>11. DOMAIN m \subseteq Sessions
  BY <1>3, <1>5
<1> QED
  BY <1>6, <1>10, <1>11, MemoryBecomes DEF PInv

-----------------------------------------------------------------------------
(* The steps. *)

RequestsTyped ==
    /\ req \in [Requests -> Request \cup {NotSent}]
    /\ waiter \in [Requests -> {"none", "waiting", "ok", "error", "timeout"}]
    /\ inserted \in Nat
CacheTyped == cache \subseteq Entry /\ IsFiniteSet(cache) /\ Cardinality(cache) <= MaxEntries

LEMMA Preserved ==
    ASSUME PInv, ReturnedStay, RequestsTyped', CacheTyped', MemoryIsSound',
           \A r \in Requests : req'[r] = req[r] \/ ThreadIsSound(r)',
           \A e \in cache' : EntryIsSound(e)'
    PROVE  PInv'
<1>1. \A r \in Requests : ThreadIsSound(r)'
  BY ThreadLasts
<1>2. TypeOK'
  BY DEF TypeOK, RequestsTyped, CacheTyped, MemoryIsSound
<1> QED
  BY <1>1, <1>2 DEF PInv

\* The cache stays, or loses entries, or is aged or hit: its entries keep what
\* EntryIsSound speaks of.
SameFact(e, d) == e.answer = d.answer /\ e.filter = d.filter /\ e.question = d.question

LEMMA EntriesLast ==
    ASSUME PInv, ReturnedStay, NEW d \in cache, NEW e \in Entry, SameFact(e, d)
    PROVE  EntryIsSound(e)'
<1>1. d \in Entry /\ EntryIsSound(d)
  BY DEF PInv, TypeOK
<1>2. EntryIsSound(e)
  BY <1>1 DEF EntryIsSound, SameFact
<1> QED
  BY <1>2, EntryLasts

LEMMA CacheStays ==
    ASSUME PInv, ReturnedStay, cache' \subseteq cache
    PROVE  CacheTyped' /\ \A e \in cache' : EntryIsSound(e)'
<1>1. cache \subseteq Entry /\ IsFiniteSet(cache) /\ Cardinality(cache) <= MaxEntries
  BY DEF PInv, TypeOK
<1>2. \A e \in cache' : EntryIsSound(e)'
  BY <1>1, EntriesLast DEF SameFact
<1>3. IsFiniteSet(cache') /\ Cardinality(cache') <= Cardinality(cache)
  BY <1>1, FS_Subset
<1>4. Cardinality(cache') \in Nat /\ Cardinality(cache) \in Nat /\ MaxEntries \in Nat
  BY <1>1, <1>3, FS_CardinalityType, PipelineAssumption
<1> QED
  BY <1>1, <1>2, <1>3, <1>4 DEF CacheTyped

\* A step that moves one thread and leaves the cache alone.
LEMMA OneRequestMoves ==
    ASSUME PInv, NEW r \in Requests, NEW new \in Request, req' = [req EXCEPT ![r] = new],
           req[r].at # "returned", MemoryIsSound', cache' \subseteq cache, UNCHANGED <<waiter, inserted>>,
           ThreadIsSound(r)'
    PROVE  PInv'
<1>1. \A x \in Requests : x # r => req'[x] = req[x]
  BY DEF PInv, TypeOK
<1>2. ReturnedStay
  BY <1>1 DEF ReturnedStay, Returned
<1>3. RequestsTyped'
  BY DEF PInv, TypeOK, RequestsTyped
<1> QED
  BY <1>1, <1>2, <1>3, CacheStays, Preserved

LEMMA MovedThread ==
    ASSUME PInv, NEW r \in Requests, NEW new \in Request, req' = [req EXCEPT ![r] = new]
    PROVE  /\ req'[r] = new /\ \A x \in Requests : x # r => req'[x] = req[x]
           /\ req[r].at # "returned" => ReturnedStay
  BY DEF PInv, TypeOK, ReturnedStay, Returned

LEMMA SubmitPreserves == ASSUME PInv, NEW r \in Requests, Submit(r) PROVE PInv'
<1>1. PICK s \in Sessions \cup {NoSession}, q \in Questions, f \in Filters :
        req' = [req EXCEPT ![r] =
                  [at |-> IF s = NoSession THEN "lookup" ELSE "open", session |-> s,
                   question |-> q, filter |-> f, history |-> <<>>, answer |-> NoOne]]
  BY DEF Submit
<1>2. PICK new \in Request :
        /\ req' = [req EXCEPT ![r] = new]
        /\ new.at = IF s = NoSession THEN "lookup" ELSE "open"
        /\ new.session = s /\ new.history = <<>> /\ new.answer = NoOne
  <2> DEFINE new == [at |-> IF s = NoSession THEN "lookup" ELSE "open", session |-> s,
                     question |-> q, filter |-> f, history |-> <<>>, answer |-> NoOne]
  <2>1. new \in Request /\ req' = [req EXCEPT ![r] = new]
    BY <1>1 DEF Request
  <2> QED
    BY <2>1
<1>3. req'[r] = new /\ ReturnedStay /\ \A x \in Requests : x # r => req'[x] = req[x]
  BY <1>2, MovedThread DEF Submit
<1>4. ThreadIsSound(r)'
  <2>1. FieldsAreSound(r)'
    BY <1>2, <1>3 DEF FieldsAreSound
  <2>2. HistoryIsSound(r)'
    BY <1>2, <1>3, PipelineAssumption DEF HistoryIsSound, LifeOf
  <2>3. AnswerIsSound(r)'
    BY <1>2, <1>3 DEF AnswerIsSound
  <2> QED
    BY <2>1, <2>2, <2>3 DEF ThreadIsSound
<1>5. UNCHANGED <<memory, cache, inserted>> /\ MemoryIsSound'
  BY <1>3, MemoryLasts DEF Submit, PInv
<1>6. RequestsTyped'
  BY <1>2, <1>5 DEF Submit, PInv, TypeOK, RequestsTyped
<1> QED
  BY <1>3, <1>4, <1>5, <1>6, CacheStays, Preserved

\* A thread that goes on with the fields it has.
LEMMA GoIsSound ==
    ASSUME PInv, NEW r \in Requests, req[r].at \notin {"idle", "returned"},
           NEW at \in {"history", "generate", "raised", "returned"},
           req' = [req EXCEPT ![r].at = at],
           at = "history" => req[r].at = "open",
           at = "generate" => req[r].at = "lookup",
           at = "returned" => req[r].at = "store",
           at = "raised" => req[r].at \in {"lookup", "generate"}
    PROVE  /\ ThreadIsSound(r)' /\ ReturnedStay
           /\ \E new \in Request : req' = [req EXCEPT ![r] = new] /\ new.at = at
              /\ new.session = req[r].session /\ new.question = req[r].question
              /\ new.filter = req[r].filter /\ new.history = req[r].history
<1>1. req[r] \in Request /\ req[r] # NotSent
  BY SentIsRequest
<1>2. PICK new \in Request :
        /\ req' = [req EXCEPT ![r] = new]
        /\ new.at = at /\ new.session = req[r].session /\ new.question = req[r].question
        /\ new.filter = req[r].filter /\ new.history = req[r].history /\ new.answer = req[r].answer
  <2> DEFINE new == [req[r] EXCEPT !.at = at]
  <2>1. new \in Request
    BY <1>1 DEF Request
  <2>2. req' = [req EXCEPT ![r] = new]
    BY DEF PInv, TypeOK
  <2> QED
    BY <1>1, <2>1, <2>2 DEF Request
<1>3. req'[r] = new /\ ReturnedStay /\ \A x \in Requests : x # r => req'[x] = req[x]
  BY <1>2, MovedThread
<1>4. FieldsAreSound(r) /\ HistoryIsSound(r) /\ AnswerIsSound(r)
  BY <1>1 DEF PInv, ThreadIsSound
<1>5. FieldsAreSound(r)'
  BY <1>2, <1>3, <1>4 DEF FieldsAreSound
<1>6. HistoryIsSound(r)'
  <2>1. PICK h \in Seq(Requests) : h = req[r].history
    BY <1>1 DEF Request
  <2>2. PICK s : s = req[r].session
    OBVIOUS
  <2>3. LifeOf(h, s)'
    BY <1>3, <1>4, <2>1, <2>2, LifeLasts DEF HistoryIsSound
  <2> QED
    BY <1>2, <1>3, <1>4, <2>1, <2>2, <2>3 DEF HistoryIsSound, LifeOf
<1>7. AnswerIsSound(r)'
  <2>1. req[r].answer \in {r, NoOne}
    BY <1>4 DEF FieldsAreSound
  <2> QED
    BY <1>2, <1>3, <2>1 DEF AnswerIsSound
<1>8. ThreadIsSound(r)'
  BY <1>5, <1>6, <1>7 DEF ThreadIsSound
<1> QED
  BY <1>2, <1>3, <1>8

\* The request that moved, with the stores as the step leaves them.
LEMMA ThreadMoves ==
    ASSUME PInv, NEW r \in Requests, NEW new \in Request, req' = [req EXCEPT ![r] = new],
           req[r].at # "returned", ThreadIsSound(r)', MemoryIsSound', CacheTyped',
           \A e \in cache' : EntryIsSound(e)', inserted' \in Nat, UNCHANGED waiter
    PROVE  PInv'
<1>1. req'[r] = new /\ ReturnedStay /\ \A x \in Requests : x # r => req'[x] = req[x]
  BY MovedThread
<1>2. RequestsTyped'
  BY DEF PInv, TypeOK, RequestsTyped
<1> QED
  BY <1>1, <1>2, Preserved

LEMMA OpenSessionPreserves == ASSUME PInv, NEW r \in Requests, OpenSession(r) PROVE PInv'
<1>1. req[r] \in Request /\ req[r] # NotSent /\ req[r].at = "open"
  BY SentIsRequest DEF OpenSession
<1>2. req[r].session \in Sessions
  BY <1>1 DEF PInv, ThreadIsSound, FieldsAreSound, Request
<1>3. /\ ThreadIsSound(r)' /\ ReturnedStay
      /\ \E new \in Request : req' = [req EXCEPT ![r] = new] /\ new.at = "history"
  BY <1>1, GoIsSound DEF OpenSession, Go
<1>4. MemoryIsSound'
  BY <1>2, <1>3, OpenPreserves DEF OpenSession, PInv
<1> QED
  BY <1>1, <1>3, <1>4, CacheStays, ThreadMoves DEF OpenSession, PInv, TypeOK

\* get_recent_turns returns the end of the turns, of MAX_HISTORY_TURNS at most.
LEMMA RecentTurns ==
    ASSUME NEW t \in Seq(Requests)
    PROVE  /\ Recent(t) \in Seq(Requests) /\ Len(Recent(t)) <= MaxHistory
           /\ \E d \in Nat : \A i \in DOMAIN Recent(t) : i + d \in DOMAIN t /\ Recent(t)[i] = t[i + d]
<1>1. /\ MaxHistory \in Nat \ {0} /\ Len(t) \in Nat
      /\ DOMAIN t = 1..Len(t) /\ \A i \in 1..Len(t) : t[i] \in Requests
  BY PipelineAssumption
<1>2. PICK from \in Nat \ {0} : from = IF Len(t) > MaxHistory THEN Len(t) - MaxHistory + 1 ELSE 1
  BY <1>1
<1>3. /\ Recent(t) = SubSeq(t, from, Len(t))
      /\ \A i \in from..Len(t) : t[i] \in Requests
  BY <1>1, <1>2 DEF Recent
<1>4. /\ Recent(t) \in Seq(Requests)
      /\ Len(Recent(t)) = IF from <= Len(t) THEN Len(t) - from + 1 ELSE 0
      /\ \A i \in 1..Len(t) - from + 1 : Recent(t)[i] = t[from + i - 1]
  BY <1>1, <1>2, <1>3, SubSeqProperties
<1>5. PICK u \in Seq(Requests) : u = Recent(t)
  BY <1>4
<1>6. PICK k \in Nat : k = Len(u)
  OBVIOUS
<1>7. PICK n \in Nat : n = Len(t) /\ DOMAIN t = 1..n
  BY <1>1
<1>8. k = IF from <= n THEN n - from + 1 ELSE 0
  BY <1>4, <1>5, <1>6, <1>7
<1>9. k <= MaxHistory
  BY <1>1, <1>2, <1>7, <1>8
<1>10. PICK d \in Nat : d = from - 1
  BY <1>2
<1>11. DOMAIN u = 1..k
  BY <1>6
<1>12. \A i \in 1..k : i \in 1..(n - from + 1) /\ from + i - 1 = i + d /\ i + d \in 1..n
  BY <1>2, <1>8, <1>10
<1>13. \A i \in 1..(n - from + 1) : u[i] = t[from + i - 1]
  BY <1>4, <1>5, <1>7
<1>14. \A i \in 1..k : i + d \in 1..n /\ u[i] = t[i + d]
  BY <1>12, <1>13
<1> QED
  BY <1>5, <1>6, <1>7, <1>9, <1>11, <1>14

\* The end of a part of a life is a part of that life.
LEMMA RecentLife ==
    ASSUME NEW t \in Seq(Requests), NEW s, LifeOf(t, s)
    PROVE  LifeOf(Recent(t), s)
<1>1. PICK u \in Seq(Requests) : u = Recent(t)
  BY RecentTurns
<1>2. PICK d \in Nat : \A i \in DOMAIN u : i + d \in DOMAIN t /\ u[i] = t[i + d]
  BY <1>1, RecentTurns
<1>3. ASSUME NEW i \in DOMAIN u, NEW k \in DOMAIN u, i # k PROVE u[i] # u[k]
  <2>1. i \in Nat /\ k \in Nat
    OBVIOUS
  <2>2. i + d # k + d
    BY <1>3, <2>1
  <2>3. i + d \in DOMAIN t /\ k + d \in DOMAIN t /\ u[i] = t[i + d] /\ u[k] = t[k + d]
    BY <1>2
  <2> QED
    BY <2>2, <2>3 DEF LifeOf
<1>4. ASSUME NEW i \in DOMAIN u PROVE Returned(u[i]) /\ req[u[i]].session = s
  <2>1. i + d \in DOMAIN t /\ u[i] = t[i + d]
    BY <1>2
  <2> QED
    BY <2>1 DEF LifeOf
<1> QED
  BY <1>1, <1>3, <1>4 DEF LifeOf

LEMMA ReadHistoryPreserves == ASSUME PInv, NEW r \in Requests, ReadHistory(r) PROVE PInv'
<1>1. req[r] \in Request /\ req[r] # NotSent /\ req[r].at = "history"
  BY SentIsRequest DEF ReadHistory
<1>2. PICK s \in Sessions : s = req[r].session
  BY <1>1 DEF PInv, ThreadIsSound, FieldsAreSound, Request
<1>3. PICK m : m = GetOrCreate(memory, s)
  OBVIOUS
<1>4. /\ s \in DOMAIN m /\ m[s] \in [turns : Seq(Requests), idle : BOOLEAN]
      /\ m[s].turns = <<>> \/ (s \in DOMAIN memory /\ m[s].turns = memory[s].turns)
  BY <1>3, OpenedMemory DEF PInv
<1>5. PICK t \in Seq(Requests) : t = m[s].turns
  BY <1>4
<1>6. LifeOf(t, s)
  <2>1. CASE t = <<>>
    BY <2>1 DEF LifeOf
  <2>2. CASE s \in DOMAIN memory /\ t = memory[s].turns
    BY <2>2 DEF PInv, MemoryIsSound
  <2> QED
    BY <1>4, <1>5, <2>1, <2>2
<1>7. PICK h \in Seq(Requests) : h = Recent(t)
  BY RecentTurns
<1>8. Len(h) <= MaxHistory /\ LifeOf(h, s)
  BY <1>6, <1>7, RecentTurns, RecentLife
<1>9. PICK new \in Request :
        /\ req' = [req EXCEPT ![r] = new]
        /\ new.at = "generate" /\ new.history = h /\ new.session = s
        /\ new.answer = req[r].answer
  <2> DEFINE new == [req[r] EXCEPT !.at = "generate", !.history = h]
  <2>1. new \in Request
    BY <1>1 DEF Request
  <2>2. req' = [req EXCEPT ![r] = new]
    BY <1>2, <1>3, <1>5, <1>7 DEF PInv, TypeOK, ReadHistory
  <2> QED
    BY <1>1, <1>2, <2>1, <2>2 DEF Request
<1>10. req'[r] = new /\ ReturnedStay
  BY <1>1, <1>9, MovedThread
<1>11. ThreadIsSound(r)'
  <2>1. new.answer = NoOne
    BY <1>1, <1>9 DEF PInv, ThreadIsSound, FieldsAreSound
  <2>2. FieldsAreSound(r)'
    BY <1>2, <1>9, <1>10, <2>1, PipelineAssumption DEF FieldsAreSound
  <2>3. HistoryIsSound(r)'
    <3>1. LifeOf(h, s)'
      BY <1>8, <1>10, LifeLasts
    <3>2. \A i \in DOMAIN h : h[i] # r
      BY <1>1, <1>8 DEF LifeOf, Returned
    <3> QED
      BY <1>8, <1>9, <1>10, <3>1, <3>2 DEF HistoryIsSound
  <2>4. AnswerIsSound(r)'
    BY <1>10, <2>1 DEF AnswerIsSound
  <2> QED
    BY <2>2, <2>3, <2>4 DEF ThreadIsSound
<1>12. MemoryIsSound'
  BY <1>2, <1>10, OpenPreserves DEF ReadHistory, PInv
<1> QED
  BY <1>1, <1>9, <1>10, <1>11, <1>12, CacheStays, ThreadMoves DEF ReadHistory, PInv, TypeOK

\* A hit entry is counted and is otherwise what it was.
LEMMA HitCounted ==
    ASSUME NEW e \in Entry
    PROVE  LET d == [e EXCEPT !.hits = @ + 1] IN d \in Entry /\ SameFact(d, e)
  BY DEF Entry, SameFact

\* The cache with one entry replaced or added.
LEMMA EntryPut ==
    ASSUME PInv, NEW live \in SUBSET cache, NEW e \in Entry, Cardinality(live) < MaxEntries,
           cache' = live \cup {e}
    PROVE  CacheTyped'
<1>1. cache \subseteq Entry /\ IsFiniteSet(cache)
  BY DEF PInv, TypeOK
<1>2. IsFiniteSet(live)
  BY <1>1, FS_Subset
<1>3. /\ IsFiniteSet(cache')
      /\ Cardinality(cache') = IF e \in live THEN Cardinality(live) ELSE Cardinality(live) + 1
  BY <1>2, FS_AddElement
<1>4. Cardinality(live) \in Nat /\ MaxEntries \in Nat
  BY <1>2, FS_CardinalityType, PipelineAssumption
<1>5. Cardinality(cache') <= MaxEntries
  BY <1>3, <1>4
<1> QED
  BY <1>1, <1>3, <1>5 DEF CacheTyped

LEMMA WithoutOne ==
    ASSUME PInv, NEW live \in SUBSET cache, NEW e \in live
    PROVE  Cardinality(live \ {e}) < MaxEntries
<1>1. IsFiniteSet(cache) /\ Cardinality(cache) <= MaxEntries
  BY DEF PInv, TypeOK
<1>2. IsFiniteSet(live) /\ Cardinality(live) <= Cardinality(cache)
  BY <1>1, FS_Subset
<1>3. Cardinality(live \ {e}) = Cardinality(live) - 1
  BY <1>2, FS_RemoveElement
<1>4. Cardinality(live) \in Nat /\ Cardinality(cache) \in Nat /\ MaxEntries \in Nat
  BY <1>1, <1>2, FS_CardinalityType, PipelineAssumption
<1> QED
  BY <1>1, <1>2, <1>3, <1>4

LEMMA LookupPreserves == ASSUME PInv, NEW r \in Requests, Lookup(r) PROVE PInv'
<1>1. req[r] \in Request /\ req[r] # NotSent /\ req[r].at = "lookup"
  BY SentIsRequest DEF Lookup
<1>2. UNCHANGED <<waiter, memory, inserted>>
  BY DEF Lookup
<1>3. ASSUME NEW at \in {"generate", "raised"}, Go(r, at), cache' = cache PROVE PInv'
  <2>1. /\ ThreadIsSound(r)' /\ ReturnedStay
        /\ \E new \in Request : req' = [req EXCEPT ![r] = new] /\ new.at = at
    <3>1. CASE at = "generate"
      BY <1>1, <1>3, <3>1, GoIsSound DEF Go
    <3>2. CASE at = "raised"
      BY <1>1, <1>3, <3>2, GoIsSound DEF Go
    <3> QED
      BY <3>1, <3>2
  <2> QED
    BY <1>1, <1>2, <1>3, <2>1, MemoryLasts, CacheStays, ThreadMoves DEF PInv, TypeOK
<1>4. ASSUME NEW e \in Hits(req[r].question, req[r].filter),
             cache' = (cache \ {e}) \cup {[e EXCEPT !.hits = @ + 1]},
             req' = [req EXCEPT ![r].at = "returned", ![r].answer = e.answer]
      PROVE  PInv'
  <2>1. /\ e \in cache /\ e \in Entry /\ EntryIsSound(e) /\ e.filter = req[r].filter
        /\ Distance(req[r].question, e.question) <= Radius
    BY <1>4 DEF Hits, Candidates, Live, PInv, TypeOK
  <2>2. PICK a \in Requests : a = e.answer
    BY <2>1 DEF Entry
  <2>3. PICK new \in Request :
          /\ req' = [req EXCEPT ![r] = new]
          /\ new.at = "returned" /\ new.answer = a /\ new.session = req[r].session
          /\ new.history = req[r].history /\ new.question = req[r].question
          /\ new.filter = req[r].filter
    <3> DEFINE new == [req[r] EXCEPT !.at = "returned", !.answer = a]
    <3>1. new \in Request
      BY <1>1 DEF Request
    <3>2. req' = [req EXCEPT ![r] = new]
      BY <1>4, <2>2 DEF PInv, TypeOK
    <3> QED
      BY <1>1, <3>1, <3>2 DEF Request
  <2>4. req'[r] = new /\ ReturnedStay
    BY <1>1, <2>3, MovedThread
  <2>5. FieldsAreSound(r) /\ HistoryIsSound(r)
    BY <1>1 DEF PInv, ThreadIsSound
  <2>6. /\ a # r /\ req'[a] = req[a] /\ req[a].at = "returned" /\ req[a].session = NoSession
        /\ req[a].history = <<>> /\ req[a].filter = e.filter /\ req[a].question = e.question
    BY <1>1, <2>1, <2>2, <2>4 DEF EntryIsSound, ReturnedStay, Returned
  <2>7. ThreadIsSound(r)'
    <3>1. FieldsAreSound(r)'
      BY <1>1, <2>3, <2>4, <2>5 DEF FieldsAreSound
    <3>2. HistoryIsSound(r)'
      <4>1. new.history = <<>>
        BY <1>1, <2>3, <2>5 DEF FieldsAreSound
      <4> QED
        BY <2>4, <4>1, PipelineAssumption DEF HistoryIsSound, LifeOf
    <3>3. AnswerIsSound(r)'
      BY <2>1, <2>3, <2>4, <2>6 DEF AnswerIsSound
    <3> QED
      BY <3>1, <3>2, <3>3 DEF ThreadIsSound
  <2>8. PICK d \in Entry : d = [e EXCEPT !.hits = @ + 1] /\ SameFact(d, e)
    BY <2>1, HitCounted
  <2>9. cache' = (cache \ {e}) \cup {d}
    BY <1>4, <2>8
  <2>10. CacheTyped'
    BY <2>1, <2>9, EntryPut, WithoutOne
  <2>11. \A x \in cache' : EntryIsSound(x)'
    <3>1. EntryIsSound(d)'
      <4>1. EntryIsSound(d)
        BY <2>1, <2>8 DEF EntryIsSound, SameFact
      <4> QED
        BY <2>4, <4>1, EntryLasts
    <3>2. ASSUME NEW x \in cache PROVE EntryIsSound(x)'
      <4>1. x \in Entry /\ EntryIsSound(x)
        BY DEF PInv, TypeOK
      <4> QED
        BY <2>4, <4>1, EntryLasts
    <3> QED
      BY <2>9, <3>1, <3>2
  <2> QED
    BY <1>1, <1>2, <2>3, <2>4, <2>7, <2>10, <2>11, MemoryLasts, ThreadMoves DEF PInv, TypeOK
<1> QED
  BY <1>3, <1>4 DEF Lookup

LEMMA GeneratePreserves == ASSUME PInv, NEW r \in Requests, Generate(r) PROVE PInv'
<1>1. req[r] \in Request /\ req[r] # NotSent /\ req[r].at = "generate"
  BY SentIsRequest DEF Generate
<1>2. UNCHANGED <<waiter, memory, cache, inserted>>
  BY DEF Generate
<1>3. CASE Go(r, "raised")
  <2>1. /\ ThreadIsSound(r)' /\ ReturnedStay
        /\ \E new \in Request : req' = [req EXCEPT ![r] = new] /\ new.at = "raised"
    BY <1>1, <1>3, GoIsSound DEF Go
  <2> QED
    BY <1>1, <1>2, <2>1, MemoryLasts, CacheStays, ThreadMoves DEF PInv, TypeOK
<1>4. CASE req' = [req EXCEPT ![r].at = "store", ![r].answer = r]
  <2>1. PICK new \in Request :
          /\ req' = [req EXCEPT ![r] = new]
          /\ new.at = "store" /\ new.answer = r /\ new.session = req[r].session
          /\ new.history = req[r].history
    <3> DEFINE new == [req[r] EXCEPT !.at = "store", !.answer = r]
    <3>1. new \in Request
      BY <1>1 DEF Request
    <3>2. req' = [req EXCEPT ![r] = new]
      BY <1>4 DEF PInv, TypeOK
    <3> QED
      BY <1>1, <3>1, <3>2 DEF Request
  <2>2. req'[r] = new /\ ReturnedStay
    BY <1>1, <2>1, MovedThread
  <2>3. FieldsAreSound(r) /\ HistoryIsSound(r)
    BY <1>1 DEF PInv, ThreadIsSound
  <2>4. ThreadIsSound(r)'
    <3>1. FieldsAreSound(r)'
      BY <1>1, <2>1, <2>2, <2>3 DEF FieldsAreSound
    <3>2. HistoryIsSound(r)'
      <4>1. PICK h \in Seq(Requests) : h = req[r].history
        BY <1>1 DEF Request
      <4>2. PICK s : s = req[r].session
        OBVIOUS
      <4>3. LifeOf(h, s)'
        BY <2>2, <2>3, <4>1, <4>2, LifeLasts DEF HistoryIsSound
      <4> QED
        BY <2>1, <2>2, <2>3, <4>1, <4>2, <4>3 DEF HistoryIsSound, LifeOf
    <3>3. AnswerIsSound(r)'
      BY <2>1, <2>2 DEF AnswerIsSound
    <3> QED
      BY <3>1, <3>2, <3>3 DEF ThreadIsSound
  <2> QED
    BY <1>1, <1>2, <2>1, <2>2, <2>4, MemoryLasts, CacheStays, ThreadMoves DEF PInv, TypeOK
<1> QED
  BY <1>3, <1>4 DEF Generate

\* set adds what a request without a session has asked and been answered.
LEMMA CacheAnswerPreserves ==
    ASSUME PInv, ReturnedStay, NEW r \in Requests, CacheAnswer(r), req[r] \in Request,
           req'[r].at = "returned", req'[r].session = NoSession, req'[r].history = <<>>,
           req'[r].filter = req[r].filter, req'[r].question = req[r].question
    PROVE  CacheTyped' /\ (\A e \in cache' : EntryIsSound(e)') /\ inserted' \in Nat
<1>1. Live \in SUBSET cache /\ inserted \in Nat
  BY DEF Live, PInv, TypeOK
<1>2. PICK e \in Entry : /\ e = NewEntry(r)
                         /\ e.answer = r /\ e.filter = req[r].filter
                         /\ e.question = req[r].question
  <2> DEFINE n == NewEntry(r)
  <2>1. n \in Entry
    BY <1>1 DEF NewEntry, Entry, Request
  <2> QED
    BY <2>1 DEF NewEntry
<1>3. PICK live \in SUBSET cache :
        Cardinality(live) < MaxEntries /\ cache' = live \cup {e}
  <2>1. CASE Cardinality(Live) < MaxEntries
    <3>1. cache' = Live \cup {e}
      <4>1. ~(Cardinality(Live) >= MaxEntries)
        <5>1. Cardinality(Live) \in Nat /\ MaxEntries \in Nat
          BY <1>1, FS_Subset, FS_CardinalityType, PipelineAssumption DEF PInv, TypeOK
        <5> QED
          BY <2>1, <5>1
      <4> QED
        BY <1>2, <4>1 DEF CacheAnswer
    <3> QED
      BY <1>1, <2>1, <3>1
  <2>2. CASE ~(Cardinality(Live) < MaxEntries)
    <3>1. PICK x \in Live : cache' = (Live \ {x}) \cup {e}
      BY <1>2, <2>2 DEF CacheAnswer
    <3> QED
      BY <1>1, <3>1, WithoutOne
  <2> QED
    BY <2>1, <2>2
<1>4. CacheTyped'
  BY <1>3, EntryPut
<1>5. EntryIsSound(e)'
  BY <1>2 DEF EntryIsSound
<1>6. ASSUME NEW x \in cache PROVE EntryIsSound(x)'
  <2>1. x \in Entry /\ EntryIsSound(x)
    BY DEF PInv, TypeOK
  <2> QED
    BY <2>1, EntryLasts
<1> QED
  BY <1>1, <1>3, <1>4, <1>5, <1>6 DEF CacheAnswer

LEMMA StorePreserves == ASSUME PInv, NEW r \in Requests, Store(r) PROVE PInv'
<1>1. req[r] \in Request /\ req[r] # NotSent /\ req[r].at = "store"
  BY SentIsRequest DEF Store
<1>2. PICK new \in Request :
        req' = [req EXCEPT ![r] = new] /\ new.at = "returned" /\ new.session = req[r].session
        /\ new.question = req[r].question /\ new.filter = req[r].filter
        /\ new.history = req[r].history
  BY <1>1, GoIsSound DEF Store, Go
<1>3. ThreadIsSound(r)' /\ ReturnedStay /\ req'[r] = new
  <2>1. ThreadIsSound(r)' /\ ReturnedStay
    BY <1>1, GoIsSound DEF Store, Go
  <2> QED
    BY <1>2, <2>1, MovedThread
<1>4. UNCHANGED waiter
  BY DEF Store
<1>5. CASE /\ req[r].session # NoSession /\ memory' = AddTurn(memory, req[r].session, r)
           /\ UNCHANGED <<cache, inserted>>
  <2>1. req[r].session \in Sessions
    BY <1>1, <1>5 DEF Request
  <2>2. MemoryIsSound'
    BY <1>1, <1>2, <1>3, <1>5, <2>1, AddPreserves
  <2> QED
    BY <1>1, <1>2, <1>3, <1>4, <1>5, <2>2, CacheStays, ThreadMoves DEF PInv, TypeOK
<1>6. CASE req[r].session = NoSession /\ CacheAnswer(r) /\ UNCHANGED memory
  <2>1. req[r].history = <<>>
    BY <1>1, <1>6 DEF PInv, ThreadIsSound, FieldsAreSound
  <2>2. CacheTyped' /\ (\A e \in cache' : EntryIsSound(e)') /\ inserted' \in Nat
    BY <1>1, <1>2, <1>3, <1>6, <2>1, CacheAnswerPreserves
  <2>3. MemoryIsSound'
    BY <1>3, <1>6, MemoryLasts DEF PInv
  <2> QED
    BY <1>1, <1>2, <1>3, <1>4, <2>2, <2>3, ThreadMoves
<1> QED
  BY <1>5, <1>6 DEF Store

\* The steps that leave the threads alone.
LEMMA StoresMove ==
    ASSUME PInv, UNCHANGED <<req, inserted>>, MemoryIsSound', CacheTyped',
           waiter' \in [Requests -> {"none", "waiting", "ok", "error", "timeout"}],
           \A e \in cache' : EntryIsSound(e)'
    PROVE  PInv'
<1>1. ReturnedStay /\ \A r \in Requests : req'[r] = req[r]
  BY DEF ReturnedStay
<1>2. RequestsTyped'
  BY DEF PInv, TypeOK, RequestsTyped
<1> QED
  BY <1>1, <1>2, Preserved

LEMMA CoroutinePreserves ==
    ASSUME PInv, NEW r \in Requests, Respond(r) \/ TimeOut(r)
    PROVE  PInv'
<1>1. UNCHANGED <<req, memory, cache, inserted>> /\ ReturnedStay
  BY DEF Respond, TimeOut, ReturnedStay
<1>2. waiter' \in [Requests -> {"none", "waiting", "ok", "error", "timeout"}]
  BY DEF Respond, TimeOut, PInv, TypeOK
<1> QED
  BY <1>1, <1>2, MemoryLasts, CacheStays, StoresMove DEF PInv

LEMMA CleanPreserves ==
    ASSUME PInv, UNCHANGED <<req, waiter, cache, inserted>>,
           \/ HistorySnapshot
           \/ \E s \in Sessions : ClearSession(s) \/ IdleTooLong(s)
    PROVE  PInv'
<1>1. ReturnedStay
  BY DEF ReturnedStay
<1>2. PICK m : /\ memory' = m /\ DOMAIN m \subseteq DOMAIN memory
               /\ \A s \in DOMAIN m : /\ m[s] \in [turns : Seq(Requests), idle : BOOLEAN]
                                      /\ m[s].turns = memory[s].turns
  <2>1. ASSUME HistorySnapshot
        PROVE  /\ DOMAIN memory' \subseteq DOMAIN memory
               /\ \A x \in DOMAIN memory' : memory'[x] = memory[x]
    BY <2>1 DEF HistorySnapshot, CleanUp
  <2>2. ASSUME NEW s \in Sessions, ClearSession(s)
        PROVE  /\ DOMAIN memory' \subseteq DOMAIN memory
               /\ \A x \in DOMAIN memory' : memory'[x] = memory[x]
    BY <2>2 DEF ClearSession
  <2>3. ASSUME NEW s \in Sessions, IdleTooLong(s)
        PROVE  /\ DOMAIN memory' \subseteq DOMAIN memory
               /\ \A x \in DOMAIN memory' :
                    /\ memory'[x] \in [turns : Seq(Requests), idle : BOOLEAN]
                    /\ memory'[x].turns = memory[x].turns
    BY <2>3 DEF IdleTooLong, PInv, MemoryIsSound
  <2> QED
    BY <2>1, <2>2, <2>3 DEF PInv, MemoryIsSound
<1>3. MemoryIsSound'
  BY <1>1, <1>2, MemoryBecomes DEF PInv, MemoryIsSound
<1> QED
  BY <1>1, <1>3, CacheStays, StoresMove DEF PInv, TypeOK

LEMMA PrunePreserves == ASSUME PInv, ClearCache \/ CacheStats PROVE PInv'
<1>1. UNCHANGED <<req, waiter, memory, inserted>> /\ ReturnedStay /\ cache' \subseteq cache
  BY DEF ClearCache, CacheStats, Live, ReturnedStay
<1> QED
  BY <1>1, MemoryLasts, CacheStays, StoresMove DEF PInv, TypeOK

LEMMA AgePreserves == ASSUME PInv, EntriesAge PROVE PInv'
<1>1. UNCHANGED <<req, waiter, memory, inserted>> /\ ReturnedStay
  BY DEF EntriesAge, ReturnedStay
<1>2. cache \subseteq Entry /\ IsFiniteSet(cache) /\ Cardinality(cache) <= MaxEntries
  BY DEF PInv, TypeOK
<1>3. PICK n : cache' = {[e EXCEPT !.stale = @ \/ e.stamp <= n] : e \in cache}
  BY DEF EntriesAge
<1>4. PICK f : f = [e \in cache |-> [e EXCEPT !.stale = @ \/ e.stamp <= n]]
  OBVIOUS
<1>5. \A e \in cache : f[e] \in Entry /\ SameFact(f[e], e)
  <2> SUFFICES ASSUME NEW e \in cache PROVE f[e] \in Entry /\ SameFact(f[e], e)
    OBVIOUS
  <2>1. e \in Entry /\ f[e] = [e EXCEPT !.stale = e.stale \/ e.stamp <= n]
    BY <1>2, <1>4
  <2>2. PICK b \in BOOLEAN : b = (e.stale \/ e.stamp <= n)
    OBVIOUS
  <2>3. f[e] = [e EXCEPT !.stale = b]
    BY <2>1, <2>2
  <2> QED
    BY <2>1, <2>3 DEF Entry, SameFact
<1>6. cache' = {f[e] : e \in cache}
  BY <1>3, <1>4
<1>7. f \in Surjection(cache, cache')
  BY <1>4, <1>6 DEF Surjection
<1>8. CacheTyped'
  <2>1. IsFiniteSet(cache') /\ Cardinality(cache') <= Cardinality(cache)
    BY <1>2, <1>7, FS_Surjection
  <2>2. Cardinality(cache') \in Nat /\ Cardinality(cache) \in Nat /\ MaxEntries \in Nat
    BY <1>2, <2>1, FS_CardinalityType, PipelineAssumption
  <2> QED
    BY <1>2, <1>5, <1>6, <2>1, <2>2 DEF CacheTyped
<1>9. ASSUME NEW d \in cache' PROVE EntryIsSound(d)'
  <2>1. PICK e \in cache : d = f[e]
    BY <1>6
  <2>2. d \in Entry /\ EntryIsSound(d)
    BY <1>5, <2>1 DEF EntryIsSound, SameFact, PInv
  <2> QED
    BY <1>1, <2>2, EntryLasts
<1> QED
  BY <1>1, <1>8, <1>9, MemoryLasts, StoresMove DEF PInv, TypeOK

LEMMA RequestPreserves == ASSUME PInv, NEW r \in Requests, RequestStep(r) PROVE PInv'
  BY SubmitPreserves, OpenSessionPreserves, ReadHistoryPreserves, LookupPreserves,
     GeneratePreserves, StorePreserves, CoroutinePreserves DEF RequestStep

LEMMA PInvInit == Init => PInv
<1> SUFFICES ASSUME Init PROVE PInv
  OBVIOUS
<1>1. IsFiniteSet(cache) /\ Cardinality(cache) = 0 /\ MaxEntries \in Nat
  BY FS_EmptySet, PipelineAssumption DEF Init
<1>2. TypeOK
  BY <1>1 DEF Init, TypeOK
<1>3. MemoryIsSound
  BY DEF Init, MemoryIsSound
<1>4. \A r \in Requests : ThreadIsSound(r)
  BY DEF Init, ThreadIsSound
<1> QED
  BY <1>2, <1>3, <1>4 DEF PInv, Init

LEMMA PInvStep == PInv /\ [Next]_vars => PInv'
<1> SUFFICES ASSUME PInv, [Next]_vars PROVE PInv'
  OBVIOUS
<1>1. CASE UNCHANGED vars
  <2>1. UNCHANGED <<req, waiter, memory, cache, inserted>> /\ ReturnedStay
    BY <1>1 DEF vars, ReturnedStay
  <2> QED
    BY <2>1, MemoryLasts, CacheStays, StoresMove DEF PInv, TypeOK
<1>2. ASSUME NEW r \in Requests, RequestStep(r) PROVE PInv'
  BY <1>2, RequestPreserves
<1>3. ASSUME NEW s \in Sessions, ClearSession(s) \/ IdleTooLong(s) PROVE PInv'
  BY <1>3, CleanPreserves DEF ClearSession, IdleTooLong
<1>4. CASE HistorySnapshot
  BY <1>4, CleanPreserves DEF HistorySnapshot
<1>5. CASE ClearCache \/ CacheStats
  BY <1>5, PrunePreserves
<1>6. CASE EntriesAge
  BY <1>6, AgePreserves
<1> QED
  BY <1>1, <1>2, <1>3, <1>4, <1>5, <1>6 DEF Next

-----------------------------------------------------------------------------
(* Theorems. *)

\* Whatever requests, clearings and expiries interleave: turns, histories and
\* cache entries name requests that have returned, and what they say of them
\* is what the requests' threads have recorded.
THEOREM PipelineInvariant == Spec => []PInv
<1>1. PInv /\ [Next]_vars => PInv'
  BY PInvStep
<1> QED
  BY <1>1, PInvInit, PTL DEF Spec

\* The history a request gives to the model is a part of one life of its own
\* session (get_recent_turns), and an answer given inside a conversation is
\* never served from the semantic cache (the session_id condition around get
\* and set in rag_pipeline.query).
THEOREM ConversationSafety == Spec => []ConversationsStayApart
<1>1. ASSUME PInv, NEW r \in Sent
      PROVE  LET h == req[r].history
             IN  /\ Len(h) <= MaxHistory
                 /\ \A i, k \in DOMAIN h : i # k => h[i] # h[k]
                 /\ \A i \in DOMAIN h : h[i] # r /\ req[h[i]].session = req[r].session
  BY <1>1 DEF PInv, ThreadIsSound, HistoryIsSound, LifeOf, Sent
<1>2. PInv => SharedAnswersAreAnonymous
  BY DEF PInv, ThreadIsSound, AnswerIsSound, SharedAnswersAreAnonymous, Sent
<1>3. PInv => ConversationsStayApart
  BY <1>1, <1>2 DEF ConversationsStayApart, HistoryIsOwn, PInv
<1> QED
  BY <1>3, PipelineInvariant, PTL

\* SemanticCache.get gives a request the answer of a request with its filters
\* and a question above the threshold, through any reordering and eviction.
THEOREM HitSafety == Spec => []HitMatchesRequest
<1>1. PInv => HitMatchesRequest
  BY DEF PInv, ThreadIsSound, AnswerIsSound, HitMatchesRequest, Sent
<1> QED
  BY <1>1, PipelineInvariant, PTL

\* add_turn loses no turn of a concurrent request: it appends to what the
\* session holds when it has the lock, not to what was read before.
THEOREM TurnSafety == Spec => TurnsOnlyGrow
<1> DEFINE Grow ==
      \A s \in DOMAIN memory \cap DOMAIN memory' :
         LET before == memory[s].turns
             after == memory'[s].turns
         IN  \/ after = before
             \/ \E r \in Requests : after = Append(before, r)
             \/ memory[s].idle /\ Len(after) <= 1
<1>1. ASSUME PInv, NEW s \in Sessions, memory' = GetOrCreate(memory, s) PROVE Grow
  <2> SUFFICES ASSUME NEW x \in DOMAIN memory \cap DOMAIN memory'
               PROVE  memory'[x].turns = memory[x].turns \/ (memory[x].idle /\ Len(memory'[x].turns) <= 1)
    OBVIOUS
  <2>1. CASE ~memory[x].idle
    BY <1>1, <2>1 DEF GetOrCreate, CleanUp
  <2>2. CASE memory[x].idle
    <3>1. memory'[x] = NewSession
      BY <1>1, <2>2 DEF GetOrCreate, CleanUp
    <3> QED
      BY <2>2, <3>1 DEF NewSession
  <2> QED
    BY <2>1, <2>2, <1>1 DEF PInv, MemoryIsSound
<1>2. ASSUME PInv, NEW r \in Requests, Store(r) PROVE Grow
  <2>1. CASE UNCHANGED memory
    BY <2>1
  <2>2. CASE req[r].session # NoSession /\ memory' = AddTurn(memory, req[r].session, r)
    <3>1. PICK s : s = req[r].session
      OBVIOUS
    <3>2. PICK o : o = GetOrCreate(memory, s)
      OBVIOUS
    <3>3. /\ DOMAIN o = {x \in DOMAIN memory : ~memory[x].idle} \cup {s}
          /\ \A x \in DOMAIN o : o[x] = IF x \in DOMAIN memory /\ ~memory[x].idle
                                        THEN memory[x] ELSE NewSession
      BY <3>2 DEF GetOrCreate, CleanUp
    <3>4. memory' = [o EXCEPT ![s] = [turns |-> Append(o[s].turns, r), idle |-> FALSE]]
      BY <2>2, <3>1, <3>2 DEF AddTurn
    <3>5. SUFFICES ASSUME NEW x \in DOMAIN memory \cap DOMAIN memory'
                   PROVE  \/ memory'[x].turns = memory[x].turns
                          \/ memory'[x].turns = Append(memory[x].turns, r)
                          \/ memory[x].idle /\ Len(memory'[x].turns) <= 1
      OBVIOUS
    <3>6. x \in DOMAIN o /\ memory[x].idle \in BOOLEAN
      BY <1>2, <3>4 DEF PInv, MemoryIsSound
    <3>7. CASE x # s
      <4>1. memory'[x] = o[x] /\ ~memory[x].idle
        BY <3>3, <3>4, <3>6, <3>7
      <4> QED
        BY <3>3, <3>6, <4>1
    <3>8. CASE x = s
      <4>1. memory'[x].turns = Append(o[s].turns, r)
        BY <3>4, <3>6, <3>8
      <4>2. CASE ~memory[x].idle
        BY <3>3, <3>6, <3>8, <4>1, <4>2
      <4>3. CASE memory[x].idle
        <5>1. o[s].turns = <<>>
          BY <3>3, <3>6, <3>8, <4>3 DEF NewSession
        <5>2. Len(Append(o[s].turns, r)) = 1
          BY <5>1
        <5> QED
          BY <4>1, <4>3, <5>2
      <4> QED
        BY <4>2, <4>3
    <3> QED
      BY <3>7, <3>8
  <2> QED
    BY <1>2, <2>1, <2>2 DEF Store
<1>3. ASSUME PInv, NEW r \in Requests, RequestStep(r) PROVE Grow
  <2>1. CASE OpenSession(r) \/ ReadHistory(r)
    <3>1. req[r].at \in {"open", "history"}
      BY <2>1 DEF OpenSession, ReadHistory
    <3>2. req[r].session \in Sessions
      BY <1>3, <3>1, SentIsRequest DEF PInv, ThreadIsSound, FieldsAreSound, Request
    <3> QED
      BY <1>1, <1>3, <2>1, <3>2 DEF OpenSession, ReadHistory
  <2>2. CASE Store(r)
    BY <1>2, <1>3, <2>2
  <2>3. CASE UNCHANGED memory
    BY <2>3
  <2> QED
    BY <1>3, <2>1, <2>2, <2>3
       DEF RequestStep, Submit, Lookup, Generate, Respond, TimeOut
<1>4. ASSUME PInv, NEW s \in Sessions, ClearSession(s) \/ IdleTooLong(s) PROVE Grow
  BY <1>4 DEF ClearSession, IdleTooLong, PInv, MemoryIsSound
<1>5. ASSUME HistorySnapshot PROVE Grow
  BY <1>5 DEF HistorySnapshot, CleanUp
<1>6. ASSUME UNCHANGED memory PROVE Grow
  BY <1>6
<1>7. PInv /\ [Next]_vars => [Grow]_vars
  BY <1>3, <1>4, <1>5, <1>6 DEF Next, ClearCache, CacheStats, EntriesAge, vars
<1> QED
  BY <1>7, PipelineInvariant, PTL DEF Spec, TurnsOnlyGrow
-----------------------------------------------------------------------------
(***************************************************************************)
(* The corpus, for any files, versions and generations, and any number of  *)
(* edits and kills.  The collection is touched only while its manifest is  *)
(* away and nobody copies it; what an indexer has written is part of what  *)
(* it loaded, and what a migrator has copied is still in the cloud, since  *)
(* the points of a collection differ in their ids.  So equal counts at the *)
(* end mean equal contents.                                                *)
(***************************************************************************)
AllChunks == Files \X {Text, Table} \X (Versions \cup {1})
Contents == {s \in SUBSET AllChunks : IsFiniteSet(s)}
Directories == [Files -> Contents]
Manifests == {NoManifest} \cup {ManifestOf(d) : d \in Directories}
Rebuilding == {"deleting", "creating", "upserting"}
UniqueIds(s) == \A c, d \in s : Id(c) = Id(d) => c = d

GenerationType == [made : BOOLEAN, files : Directories, manifest : Manifests]
Building == [at : {"writing"}, of : Generations, rest : SUBSET Files, read : Directories]
Indexing == [at : {"loaded"} \cup Rebuilding, of : Contents, rest : SUBSET AllChunks]
Migrating == [at : {"copying", "done"}, of : Contents, rest : SUBSET AllChunks]

CorpusTypeOK ==
    /\ source \in Directories
    /\ gens \in [Generations -> GenerationType]
    /\ builder \in {Idle} \cup Building
    /\ indexer \in {Idle} \cup Indexing
    /\ migrator \in {Idle} \cup Migrating
    /\ dense \in {None} \cup Contents
    /\ cloud \in {None} \cup Contents

\* A directory is written before its manifest, and never after it.
BuildsAreOrdered ==
    /\ GenerationsAreWhole
    /\ \A g \in Generations : ~gens[g].made => gens[g].manifest = NoManifest
    /\ builder.at = "writing" =>
         gens[builder.of].made /\ gens[builder.of].manifest = NoManifest

\* A manifest is published over a collection that nobody rewrites.
IndexIsGuarded ==
    /\ ManifestIsTrue
    /\ indexer.at \in Rebuilding => index = None
    /\ indexer.at = "upserting" => dense \subseteq indexer.of /\ indexer.rest \subseteq indexer.of
    /\ UniqueIds(dense)

\* A migrator copies a collection that stays as it is.
CopyIsFaithful ==
    /\ migrator.at # "idle" => indexer.at \notin Rebuilding /\ migrator.of = dense
    /\ migrator.at = "copying" =>
         /\ cloud \in Contents /\ migrator.rest \subseteq migrator.of
         /\ migrator.of \ migrator.rest \subseteq cloud
    /\ migrator.at = "done" => cloud = migrator.of

CorpusInv == CorpusTypeOK /\ BuildsAreOrdered /\ IndexIsGuarded /\ CopyIsFaithful

\* Absence is not a content.
LEMMA NoneIsNoContent == None \notin Contents
<1>1. << >> \in None
  BY DEF None
<1>2. \A c \in AllChunks : c # << >>
  BY DEF AllChunks
<1> QED
  BY <1>1, <1>2 DEF Contents

\* The union of the files of a directory is finite.
LEMMA CorpusIsContent == ASSUME NEW d \in Directories PROVE Corpus(d) \in Contents
<1>1. \A f \in Files : d[f] \subseteq AllChunks /\ IsFiniteSet(d[f])
  BY DEF Directories, Contents
<1>2. d \in Surjection(Files, {d[f] : f \in Files})
  BY DEF Directories, Surjection
<1>3. IsFiniteSet({d[f] : f \in Files})
  BY <1>2, CorpusAssumption, FS_Surjection
<1>4. IsFiniteSet(UNION {d[f] : f \in Files})
  BY <1>1, <1>3, FS_UNION
<1> QED
  BY <1>1, <1>4 DEF Corpus, Contents

\* A point is written over the points of its id.
LEMMA UpsertIs ==
    ASSUME NEW s \in Contents, NEW c \in AllChunks
    PROVE  /\ Upsert(s, {c}) \in Contents
           /\ UniqueIds(s) => UniqueIds(Upsert(s, {c}))
           /\ Upsert(s, {c}) \subseteq s \cup {c}
           /\ \A p \in s : Id(p) # Id(c) => p \in Upsert(s, {c})
           /\ c \in Upsert(s, {c})
<1>1. Upsert(s, {c}) \subseteq s \cup {c}
  BY DEF Upsert
<1>2. IsFiniteSet(s \cup {c})
  BY FS_AddElement DEF Contents
<1>3. Upsert(s, {c}) \in Contents
  BY <1>1, <1>2, FS_Subset DEF Contents
<1> QED
  BY <1>1, <1>3 DEF Upsert, UniqueIds

\* Equal counts.
LEMMA EqualCounts ==
    ASSUME NEW s \in Contents, NEW t \in Contents, s \subseteq t,
           Cardinality(s) = Cardinality(t)
    PROVE  s = t
BY FS_Subset DEF Contents

\* One chunk.
LEMMA OneChunk ==
    ASSUME NEW f \in Files, NEW k \in {Text, Table}, NEW v \in Versions \cup {1}
    PROVE  <<f, k, v>> \in AllChunks /\ {<<f, k, v>>} \in Contents
<1>1. <<f, k, v>> \in AllChunks
  BY DEF AllChunks
<1> QED
  BY <1>1, FS_Singleton DEF Contents

\* A part of a content, and a content with one chunk more.
LEMMA ContentsAreClosed ==
    ASSUME NEW s \in Contents
    PROVE  /\ \A t \in SUBSET s : t \in Contents
           /\ \A c \in AllChunks : s \cup {c} \in Contents
           /\ {} \in Contents
<1>1. \A t \in SUBSET s : t \in Contents
  BY FS_Subset DEF Contents
<1>2. \A c \in AllChunks : s \cup {c} \in Contents
  BY FS_AddElement DEF Contents
<1>3. {} \in Contents
  BY FS_EmptySet DEF Contents
<1> QED
  BY <1>1, <1>2, <1>3

\* Nothing but chunk files.
LEMMA CorpusStarts == CorpusInit => CorpusInv
<1> SUFFICES ASSUME CorpusInit PROVE CorpusInv
  OBVIOUS
<1>1. {} \in Contents
  BY FS_EmptySet DEF Contents
<1>2. Empty \in Directories
  BY <1>1 DEF Empty, Directories
<1>3. source \in Directories
  <2>1. PICK t \in SUBSET {<<1, Table, 1>>} :
          source = [f \in Files |-> IF f = 1 THEN {<<f, Text, 1>>} \cup t ELSE {<<f, Text, 1>>}]
    BY DEF CorpusInit
  <2>2. ASSUME NEW f \in Files PROVE source[f] \in Contents
    <3>1. {<<f, Text, 1>>} \in Contents /\ <<f, Table, 1>> \in AllChunks
      BY OneChunk
    <3>2. CASE f = 1 /\ t = {<<1, Table, 1>>}
      <4>1. source[f] = {<<f, Text, 1>>} \cup {<<f, Table, 1>>}
        BY <2>1, <3>2
      <4> QED
        BY <4>1, <3>1, ContentsAreClosed
    <3>3. CASE ~(f = 1 /\ t = {<<1, Table, 1>>})
      <4>1. source[f] = {<<f, Text, 1>>}
        BY <2>1, <3>3
      <4> QED
        BY <4>1, <3>1
    <3> QED
      BY <3>2, <3>3
  <2> QED
    BY <2>1, <2>2 DEF Directories
<1>4. CorpusTypeOK
  <2>1. gens \in [Generations -> GenerationType]
    BY <1>2 DEF CorpusInit, Absent, GenerationType, Manifests
  <2> QED
    BY <1>3, <2>1 DEF CorpusInit, CorpusTypeOK
<1>5. BuildsAreOrdered
  BY DEF CorpusInit, BuildsAreOrdered, GenerationsAreWhole, Absent, Idle
<1>6. IndexIsGuarded
  BY DEF CorpusInit, IndexIsGuarded, ManifestIsTrue, Idle, Rebuilding, UniqueIds, None
<1>7. CopyIsFaithful
  BY DEF CorpusInit, CopyIsFaithful, Idle
<1> QED
  BY <1>4, <1>5, <1>6, <1>7 DEF CorpusInv

\* Chunk files change; nothing that was made from them does.
LEMMA EditKeeps ==
    ASSUME CorpusInv, ChunkFiling \/ RemoveTables \/ AddTables PROVE CorpusInv'
<1>1. UNCHANGED <<gens, active, index, dense, cloud, builder, promoter, indexer, migrator, server>>
  BY DEF ChunkFiling, RemoveTables, AddTables, Edited
<1>2. source \in Directories
  BY DEF CorpusInv, CorpusTypeOK
<1>3. ASSUME NEW f \in Files, NEW s \in Contents, source' = [source EXCEPT ![f] = s]
      PROVE  source' \in Directories
  BY <1>2, <1>3 DEF Directories
<1>4. source' \in Directories
  <2>1. CASE ChunkFiling
    <3>1. PICK f \in Files, v \in Versions, n \in BOOLEAN :
            source' = [source EXCEPT ![f] = IF n THEN {} ELSE {<<f, Text, v>>}]
      BY <2>1 DEF ChunkFiling
    <3>2. (IF n THEN {} ELSE {<<f, Text, v>>}) \in Contents
      BY OneChunk, ContentsAreClosed
    <3> QED
      BY <3>1, <3>2, <1>3
  <2>2. CASE RemoveTables
    <3>1. PICK f \in Files : source' = [source EXCEPT ![f] = {c \in @ : c[2] # Table}]
      BY <2>2 DEF RemoveTables
    <3>2. {c \in source[f] : c[2] # Table} \in Contents
      BY <1>2, ContentsAreClosed DEF Directories
    <3> QED
      BY <3>1, <3>2, <1>3
  <2>3. CASE AddTables
    <3>1. PICK f \in Files, v \in Versions :
            source' = [source EXCEPT ![f] = @ \cup {<<f, Table, v>>}]
      BY <2>3 DEF AddTables
    <3>2. source[f] \cup {<<f, Table, v>>} \in Contents
      BY <1>2, OneChunk, ContentsAreClosed DEF Directories
    <3> QED
      BY <3>1, <3>2, <1>3
  <2> QED
    BY <2>1, <2>2, <2>3
<1>5. CorpusTypeOK'
  BY <1>1, <1>4 DEF CorpusInv, CorpusTypeOK
<1>6. BuildsAreOrdered' /\ IndexIsGuarded' /\ CopyIsFaithful'
  BY <1>1 DEF CorpusInv, BuildsAreOrdered, IndexIsGuarded, CopyIsFaithful, ManifestIsTrue, GenerationsAreWhole
<1> QED
  BY <1>5, <1>6 DEF CorpusInv

\* What the steps of a build, and of a promotion, leave alone.
LEMMA ElsewhereKeeps ==
    ASSUME CorpusInv, UNCHANGED <<index, dense, cloud, indexer, migrator, server>>
    PROVE  IndexIsGuarded' /\ CopyIsFaithful'
BY DEF CorpusInv, IndexIsGuarded, CopyIsFaithful, ManifestIsTrue

\* build_embedding_generation takes an id that nobody has used.
LEMMA BuildStartKeeps == ASSUME CorpusInv, BuildStart PROVE CorpusInv'
<1>1. PICK g \in Generations :
        /\ ~gens[g].made
        /\ gens' = [gens EXCEPT ![g] = [Absent EXCEPT !.made = TRUE]]
        /\ builder' = [at |-> "writing", of |-> g, rest |-> NonEmpty(source), read |-> source]
        /\ UNCHANGED <<source, active, index, dense, cloud, promoter, indexer, migrator, server>>
  BY DEF BuildStart, Available
<1> DEFINE fresh == [Absent EXCEPT !.made = TRUE]
<1>2. Empty \in Directories
  BY ContentsAreClosed, FS_EmptySet DEF Empty, Directories, Contents
<1>3. fresh \in GenerationType /\ fresh.made /\ fresh.manifest = NoManifest
  BY <1>2 DEF Absent, GenerationType, Manifests
<1> HIDE DEF fresh
<1>4. /\ gens \in [Generations -> GenerationType]
      /\ gens' = [gens EXCEPT ![g] = fresh]
  BY <1>1 DEF CorpusInv, CorpusTypeOK, fresh
<1>5. gens' \in [Generations -> GenerationType]
  BY <1>3, <1>4
<1>6. builder' \in Building
  BY <1>1 DEF CorpusInv, CorpusTypeOK, Building, NonEmpty
<1>7. BuildsAreOrdered'
  <2>1. \A h \in Generations : gens'[h] = IF h = g THEN fresh ELSE gens[h]
    BY <1>4
  <2>2. builder'.of = g
    BY <1>1
  <2>3. \A h \in Generations : ~gens'[h].made => gens'[h].manifest = NoManifest
    BY <2>1, <1>3 DEF CorpusInv, BuildsAreOrdered
  <2>4. GenerationsAreWhole'
    BY <2>1, <1>3 DEF CorpusInv, BuildsAreOrdered, GenerationsAreWhole
  <2>5. gens'[g].made /\ gens'[g].manifest = NoManifest
    BY <2>1, <1>3
  <2> QED
    BY <2>2, <2>3, <2>4, <2>5 DEF BuildsAreOrdered
<1> QED
  BY <1>1, <1>5, <1>6, <1>7, ElsewhereKeeps DEF CorpusInv, CorpusTypeOK

\* The files of a build are written before there is a manifest of them.
LEMMA BuildFileKeeps == ASSUME CorpusInv, BuildFile PROVE CorpusInv'
<1> DEFINE g == builder.of
           f == FirstFile(builder.rest)
           x == builder.read[f]
<1>1. /\ builder.at = "writing"
      /\ gens' = [gens EXCEPT ![g].files[f] = x]
      /\ builder' = [builder EXCEPT !.rest = @ \ {f}]
      /\ UNCHANGED <<source, active, index, dense, cloud, promoter, indexer, migrator, server>>
  BY DEF BuildFile
<1>2. builder \in Building /\ gens \in [Generations -> GenerationType]
  BY <1>1 DEF CorpusInv, CorpusTypeOK, Idle
<1>3. g \in Generations /\ builder.rest \subseteq Files /\ builder.read \in Directories
  BY <1>2 DEF Building
<1>4. gens[g].files \in Directories /\ gens[g].made /\ gens[g].manifest = NoManifest
  BY <1>1, <1>2, <1>3 DEF GenerationType, CorpusInv, BuildsAreOrdered
<1> HIDE DEF f
<1>5. [gens[g].files EXCEPT ![f] = x] \in Directories
  <2>1. CASE f \in Files
    BY <2>1, <1>3, <1>4 DEF Directories
  <2>2. CASE f \notin Files
    BY <2>2, <1>4 DEF Directories
  <2> QED
    BY <2>1, <2>2
<1> DEFINE written == [gens[g] EXCEPT !.files = [gens[g].files EXCEPT ![f] = x]]
<1>6. /\ written \in GenerationType /\ written.made /\ written.manifest = NoManifest
  BY <1>2, <1>3, <1>4, <1>5 DEF GenerationType
<1>7. gens' = [gens EXCEPT ![g] = written]
  BY <1>1, <1>2, <1>3
<1> HIDE DEF written, g
<1>8. gens' \in [Generations -> GenerationType]
      /\ \A h \in Generations : gens'[h] = IF h = g THEN written ELSE gens[h]
  BY <1>2, <1>6, <1>7
<1>9. builder' \in Building /\ builder'.of = g
  BY <1>1, <1>2 DEF Building, g
<1>10. BuildsAreOrdered'
  <2>1. \A h \in Generations : ~gens'[h].made => gens'[h].manifest = NoManifest
    BY <1>6, <1>8 DEF CorpusInv, BuildsAreOrdered
  <2>2. GenerationsAreWhole'
    BY <1>6, <1>8 DEF CorpusInv, BuildsAreOrdered, GenerationsAreWhole
  <2>3. gens'[g].made /\ gens'[g].manifest = NoManifest
    BY <1>3, <1>6, <1>8
  <2> QED
    BY <1>9, <2>1, <2>2, <2>3 DEF BuildsAreOrdered
<1> QED
  BY <1>1, <1>8, <1>9, <1>10, ElsewhereKeeps DEF CorpusInv, CorpusTypeOK

\* The manifest is made from what is on the disk.
LEMMA BuildPublishKeeps == ASSUME CorpusInv, BuildPublish PROVE CorpusInv'
<1> DEFINE g == builder.of
           files == gens[g].files
<1>1. /\ builder.at = "writing" /\ builder' = Idle
      /\ gens' \in {gens, [gens EXCEPT ![g].manifest = ManifestOf(files)]}
      /\ UNCHANGED <<source, active, index, dense, cloud, promoter, indexer, migrator, server>>
  BY DEF BuildPublish
<1>2. builder \in Building /\ gens \in [Generations -> GenerationType]
  BY <1>1 DEF CorpusInv, CorpusTypeOK, Idle
<1>3. g \in Generations
  BY <1>2 DEF Building
<1>4. files \in Directories /\ gens[g].made
  BY <1>1, <1>2, <1>3 DEF GenerationType, CorpusInv, BuildsAreOrdered
<1> DEFINE published == [gens[g] EXCEPT !.manifest = ManifestOf(files)]
<1>5. /\ published \in GenerationType /\ published.made
      /\ published.manifest = ManifestOf(published.files)
  BY <1>2, <1>3, <1>4 DEF GenerationType, Manifests
<1>6. gens' = gens \/ gens' = [gens EXCEPT ![g] = published]
  BY <1>1, <1>2, <1>3
<1>7. builder'.at # "writing"
  BY <1>1 DEF Idle
<1> HIDE DEF published, g
<1>8. /\ gens' \in [Generations -> GenerationType]
      /\ \A h \in Generations : gens'[h] = gens[h] \/ gens'[h] = published
  BY <1>2, <1>5, <1>6
<1>9. BuildsAreOrdered'
  BY <1>5, <1>7, <1>8 DEF CorpusInv, BuildsAreOrdered, GenerationsAreWhole, ManifestOf
<1> QED
  BY <1>1, <1>8, <1>9, ElsewhereKeeps DEF CorpusInv, CorpusTypeOK

\* A promotion writes only the active corpus.
LEMMA PromoteKeeps ==
    ASSUME CorpusInv, PromoteStart \/ PromoteFile \/ PromoteEnd PROVE CorpusInv'
<1>1. UNCHANGED <<source, gens, index, dense, cloud, builder, indexer, migrator, server>>
  BY DEF PromoteStart, PromoteFile, PromoteEnd
<1>2. BuildsAreOrdered'
  BY <1>1 DEF CorpusInv, BuildsAreOrdered, GenerationsAreWhole
<1> QED
  BY <1>1, <1>2, ElsewhereKeeps DEF CorpusInv, CorpusTypeOK

\* What the steps of an index, a migration and a server leave alone.
LEMMA BuildsKeep ==
    ASSUME CorpusInv, UNCHANGED <<gens, builder>>
    PROVE  BuildsAreOrdered'
BY DEF CorpusInv, BuildsAreOrdered, GenerationsAreWhole

\* An indexer loads a generation before it touches the collection.
LEMMA IndexLoadKeeps == ASSUME CorpusInv, IndexLoad PROVE CorpusInv'
<1>1. PICK g \in Generations :
        indexer' = [at |-> "loaded", of |-> Corpus(gens[g].files), rest |-> {}]
  BY DEF IndexLoad
<1>2. /\ UNCHANGED <<source, gens, index, dense, cloud, builder, migrator>>
      /\ indexer.at = "idle"
  BY DEF IndexLoad, IndexUnchanged
<1>3. gens[g].files \in Directories
  BY DEF CorpusInv, CorpusTypeOK, GenerationType
<1>4. Corpus(gens[g].files) \in Contents
  BY <1>3, CorpusIsContent
<1>5. indexer' \in Indexing
  BY <1>1, <1>4 DEF Indexing
<1>6. indexer'.at \notin Rebuilding
  BY <1>1 DEF Rebuilding
<1>7. IndexIsGuarded' /\ CopyIsFaithful'
  BY <1>2, <1>6 DEF CorpusInv, IndexIsGuarded, CopyIsFaithful, ManifestIsTrue, Rebuilding
<1> QED
  BY <1>2, <1>5, <1>7, BuildsKeep DEF CorpusInv, CorpusTypeOK

\* The manifest goes first, and only when nobody copies the collection.
LEMMA IndexOpenKeeps == ASSUME CorpusInv, IndexOpen PROVE CorpusInv'
<1>1. /\ indexer.at = "loaded" /\ migrator.at = "idle"
      /\ index' = None /\ indexer' = [indexer EXCEPT !.at = "deleting"]
      /\ UNCHANGED <<source, gens, dense, cloud, builder, migrator>>
  BY DEF IndexOpen, IndexUnchanged, LocalIsFree, Invalidate
<1>2. indexer \in Indexing
  BY <1>1 DEF CorpusInv, CorpusTypeOK, Idle
<1>3. indexer' \in Indexing /\ indexer'.at = "deleting"
  BY <1>1, <1>2 DEF Indexing, Rebuilding
<1>4. IndexIsGuarded' /\ CopyIsFaithful'
  BY <1>1, <1>3 DEF CorpusInv, IndexIsGuarded, CopyIsFaithful, ManifestIsTrue
<1> QED
  BY <1>1, <1>3, <1>4, BuildsKeep DEF CorpusInv, CorpusTypeOK

\* The collection is deleted, or created again, while there is no manifest of it.
LEMMA IndexEmptyKeeps ==
    ASSUME CorpusInv, IndexDelete \/ IndexCreate PROVE CorpusInv'
<1>1. /\ indexer.at \in {"deleting", "creating"}
      /\ UNCHANGED <<source, gens, index, cloud, builder, migrator>>
  BY DEF IndexDelete, IndexCreate, IndexUnchanged
<1>2. indexer \in Indexing /\ index = None /\ migrator.at = "idle"
  BY <1>1 DEF CorpusInv, CorpusTypeOK, Idle, IndexIsGuarded, CopyIsFaithful, Rebuilding
<1>3. CASE IndexDelete
  <2>1. dense' = None /\ indexer' = [indexer EXCEPT !.at = "creating"]
    BY <1>3 DEF IndexDelete
  <2>2. indexer' \in Indexing /\ indexer'.at = "creating"
    BY <1>2, <2>1 DEF Indexing, Rebuilding
  <2>3. UniqueIds(dense')
    BY <2>1 DEF UniqueIds, None
  <2>4. IndexIsGuarded' /\ CopyIsFaithful'
    BY <1>1, <1>2, <2>2, <2>3 DEF IndexIsGuarded, CopyIsFaithful, ManifestIsTrue, UniqueIds
  <2> QED
    BY <1>1, <2>1, <2>2, <2>4, BuildsKeep DEF CorpusInv, CorpusTypeOK
<1>4. CASE IndexCreate
  <2>1. dense' = {} /\ indexer' = [indexer EXCEPT !.at = "upserting", !.rest = indexer.of]
    BY <1>4 DEF IndexCreate
  <2>2. /\ indexer' \in Indexing /\ indexer'.at = "upserting"
        /\ indexer'.rest = indexer.of /\ indexer'.of = indexer.of
    BY <1>2, <2>1 DEF Indexing, Rebuilding, Contents
  <2>3. {} \in Contents
    BY FS_EmptySet DEF Contents
  <2>4. IndexIsGuarded' /\ CopyIsFaithful'
    BY <1>1, <1>2, <2>1, <2>2 DEF IndexIsGuarded, CopyIsFaithful, ManifestIsTrue, UniqueIds
  <2> QED
    BY <1>1, <2>1, <2>2, <2>3, <2>4, BuildsKeep DEF CorpusInv, CorpusTypeOK
<1> QED
  BY <1>3, <1>4

\* A collection that is built is a part of what the indexer loaded.
LEMMA BuildingIs ==
    ASSUME CorpusInv, indexer.at = "upserting"
    PROVE  /\ indexer \in Indexing /\ indexer.of \in Contents
           /\ dense \in Contents /\ dense \subseteq indexer.of
           /\ indexer.rest \subseteq indexer.of
           /\ index = None /\ migrator.at = "idle" /\ UniqueIds(dense)
<1>1. indexer \in Indexing
  BY DEF CorpusInv, CorpusTypeOK, Idle
<1>2. indexer.of \in Contents
  BY <1>1 DEF Indexing
<1>3. dense \subseteq indexer.of /\ indexer.rest \subseteq indexer.of /\ index = None /\ UniqueIds(dense)
  BY DEF CorpusInv, IndexIsGuarded, Rebuilding
<1>4. dense \in Contents
  BY <1>2, <1>3, ContentsAreClosed
<1>5. migrator.at = "idle"
  BY DEF CorpusInv, CopyIsFaithful, Rebuilding
<1> QED
  BY <1>1, <1>2, <1>3, <1>4, <1>5

\* Each point that is written was loaded.
LEMMA IndexUpsertKeeps == ASSUME CorpusInv, IndexUpsert PROVE CorpusInv'
<1>1. PICK c \in indexer.rest :
        dense' = Upsert(dense, {c}) /\ indexer' = [indexer EXCEPT !.rest = @ \ {c}]
  BY DEF IndexUpsert
<1>2. /\ indexer.at = "upserting"
      /\ UNCHANGED <<source, gens, index, cloud, builder, migrator>>
  BY DEF IndexUpsert, IndexUnchanged
<1>3. /\ indexer \in Indexing /\ indexer.of \in Contents
      /\ dense \in Contents /\ dense \subseteq indexer.of
      /\ indexer.rest \subseteq indexer.of
      /\ index = None /\ migrator.at = "idle" /\ UniqueIds(dense)
  BY <1>2, BuildingIs
<1>4. c \in AllChunks /\ c \in indexer.of
  BY <1>3 DEF Contents
<1>5. dense' \in Contents /\ UniqueIds(dense') /\ dense' \subseteq indexer.of
  <2>1. /\ Upsert(dense, {c}) \in Contents
        /\ UniqueIds(Upsert(dense, {c}))
        /\ Upsert(dense, {c}) \subseteq dense \cup {c}
    BY <1>3, <1>4, UpsertIs
  <2>2. dense' = Upsert(dense, {c})
    BY <1>1
  <2>3. dense' \in Contents /\ UniqueIds(dense')
    BY <2>1, <2>2
  <2>4. dense' \subseteq indexer.of
    BY <2>1, <2>2, <1>3, <1>4
  <2> QED
    BY <2>3, <2>4
<1>6. /\ indexer' \in Indexing /\ indexer'.at = "upserting"
      /\ indexer'.of = indexer.of /\ indexer'.rest \subseteq indexer.of
  BY <1>1, <1>2, <1>3 DEF Indexing
<1>7. IndexIsGuarded'
  BY <1>2, <1>3, <1>5, <1>6 DEF IndexIsGuarded, ManifestIsTrue, UniqueIds
<1>8. CopyIsFaithful'
  BY <1>2, <1>3 DEF CopyIsFaithful
<1> QED
  BY <1>2, <1>5, <1>6, <1>7, <1>8, BuildsKeep DEF CorpusInv, CorpusTypeOK

\* Counts that agree are enough to publish the manifest.
LEMMA IndexPublishKeeps == ASSUME CorpusInv, IndexPublish PROVE CorpusInv'
<1>1. /\ indexer.at = "upserting" /\ indexer' = Idle
      /\ index' = IF Cardinality(dense) = Cardinality(indexer.of) THEN indexer.of ELSE None
      /\ UNCHANGED <<source, gens, dense, cloud, builder, migrator>>
  BY DEF IndexPublish, IndexUnchanged
<1>2. /\ dense \in Contents /\ indexer.of \in Contents /\ dense \subseteq indexer.of
      /\ migrator.at = "idle" /\ UniqueIds(dense)
  BY <1>1, BuildingIs
<1>3. index' # None => dense = index'
  BY <1>1, <1>2, EqualCounts
<1>4. indexer'.at \notin Rebuilding
  BY <1>1 DEF Idle, Rebuilding
<1>5. IndexIsGuarded'
  BY <1>1, <1>2, <1>3, <1>4 DEF IndexIsGuarded, ManifestIsTrue, UniqueIds, Rebuilding
<1>6. CopyIsFaithful'
  BY <1>1, <1>2 DEF CopyIsFaithful
<1> QED
  BY <1>1, <1>5, <1>6, BuildsKeep DEF CorpusInv, CorpusTypeOK

\* An exception of the store removes the manifest once more.
LEMMA IndexFailKeeps == ASSUME CorpusInv, IndexFail PROVE CorpusInv'
<1>1. /\ indexer' = Idle /\ index' = None
      /\ UNCHANGED <<source, gens, dense, cloud, builder, migrator>>
  BY DEF IndexFail
<1>2. indexer'.at \notin Rebuilding
  BY <1>1 DEF Idle, Rebuilding
<1>3. IndexIsGuarded' /\ CopyIsFaithful'
  BY <1>1, <1>2 DEF CorpusInv, IndexIsGuarded, CopyIsFaithful, ManifestIsTrue, UniqueIds, Rebuilding
<1> QED
  BY <1>1, <1>3, BuildsKeep DEF CorpusInv, CorpusTypeOK

\* A migration starts on a collection that nobody rewrites.
LEMMA MigrateStartKeeps == ASSUME CorpusInv, MigrateStart PROVE CorpusInv'
<1>1. /\ indexer.at \in {"idle", "loaded"} /\ dense # None
      /\ cloud' \in {{}, cloud} /\ cloud' # None
      /\ migrator' = [at |-> "copying", of |-> dense, rest |-> dense]
      /\ UNCHANGED <<source, gens, index, dense, builder, indexer>>
  <2>1. {} # None
    BY DEF None
  <2> QED
    BY <2>1 DEF MigrateStart, MigrateUnchanged, LocalIsFree
<1>2. {} \in Contents
  BY FS_EmptySet DEF Contents
<1>3. dense \in Contents /\ cloud' \in Contents
  BY <1>1, <1>2 DEF CorpusInv, CorpusTypeOK
<1>4. migrator' \in Migrating
  BY <1>1, <1>3 DEF Migrating, Contents
<1>5. CopyIsFaithful'
  BY <1>1, <1>3 DEF CopyIsFaithful, Rebuilding
<1>6. IndexIsGuarded'
  BY <1>1 DEF CorpusInv, IndexIsGuarded, ManifestIsTrue
<1> QED
  BY <1>1, <1>3, <1>4, <1>5, <1>6, BuildsKeep DEF CorpusInv, CorpusTypeOK

\* What was copied before has other ids, and stays.
LEMMA MigrateBatchKeeps == ASSUME CorpusInv, MigrateBatch PROVE CorpusInv'
<1>1. PICK c \in migrator.rest :
        cloud' = Upsert(cloud, {c}) /\ migrator' = [migrator EXCEPT !.rest = @ \ {c}]
  BY DEF MigrateBatch
<1>2. /\ migrator.at = "copying"
      /\ UNCHANGED <<source, gens, index, dense, builder, indexer>>
  BY DEF MigrateBatch, MigrateUnchanged
<1>3. /\ migrator \in Migrating /\ cloud \in Contents
      /\ migrator.rest \subseteq migrator.of /\ migrator.of \ migrator.rest \subseteq cloud
      /\ migrator.of = dense /\ indexer.at \notin Rebuilding /\ UniqueIds(dense)
  BY <1>2 DEF CorpusInv, CorpusTypeOK, CopyIsFaithful, IndexIsGuarded, Idle
<1>4. migrator.of \in Contents /\ c \in AllChunks /\ c \in migrator.of
  BY <1>3 DEF Migrating, Contents
<1>5. /\ migrator' \in Migrating /\ migrator'.at = "copying"
      /\ migrator'.of = migrator.of /\ migrator'.rest = migrator.rest \ {c}
  BY <1>1, <1>2, <1>3 DEF Migrating
<1>6. cloud' \in Contents
  BY <1>1, <1>3, <1>4, UpsertIs
<1>7. ASSUME NEW p \in migrator.of, p \notin migrator.rest \ {c} PROVE p \in cloud'
  <2>1. CASE p = c
    BY <2>1, <1>1, <1>3, <1>4, UpsertIs
  <2>2. CASE p # c
    <3>1. Id(p) # Id(c)
      BY <2>2, <1>3, <1>4, <1>7 DEF UniqueIds
    <3>2. p \in cloud
      BY <1>3, <1>7, <2>2
    <3> QED
      BY <3>1, <3>2, <1>1, <1>3, <1>4, UpsertIs
  <2> QED
    BY <2>1, <2>2
<1>8. CopyIsFaithful'
  BY <1>2, <1>3, <1>5, <1>6, <1>7 DEF CopyIsFaithful
<1>9. IndexIsGuarded'
  BY <1>2 DEF CorpusInv, IndexIsGuarded, ManifestIsTrue
<1> QED
  BY <1>2, <1>5, <1>6, <1>8, <1>9, BuildsKeep DEF CorpusInv, CorpusTypeOK

\* A report of success, and the end of the migrator.
LEMMA MigrateEndKeeps == ASSUME CorpusInv, MigrateEnd \/ MigrateExit PROVE CorpusInv'
<1>1. UNCHANGED <<source, gens, index, dense, cloud, builder, indexer>>
  BY DEF MigrateEnd, MigrateExit, MigrateUnchanged
<1>2. IndexIsGuarded'
  BY <1>1 DEF CorpusInv, IndexIsGuarded, ManifestIsTrue
<1>3. CASE migrator' = Idle
  <2>1. CopyIsFaithful'
    BY <1>1, <1>3 DEF CopyIsFaithful, Idle
  <2> QED
    BY <1>1, <1>2, <1>3, <2>1, BuildsKeep DEF CorpusInv, CorpusTypeOK
<1>4. CASE /\ migrator.at = "copying" /\ migrator.rest = {} /\ CountsAgree
           /\ migrator' = [migrator EXCEPT !.at = "done"]
  <2>1. /\ migrator \in Migrating /\ cloud \in Contents
        /\ migrator.of \subseteq cloud /\ migrator.of = dense /\ indexer.at \notin Rebuilding
    BY <1>4 DEF CorpusInv, CorpusTypeOK, CopyIsFaithful, Idle
  <2>2. migrator.of = cloud
    BY <1>4, <2>1, EqualCounts DEF CountsAgree, Migrating
  <2>3. migrator' \in Migrating /\ migrator'.at = "done" /\ migrator'.of = migrator.of
    BY <1>4, <2>1 DEF Migrating
  <2>4. CopyIsFaithful'
    BY <1>1, <2>1, <2>2, <2>3 DEF CopyIsFaithful
  <2> QED
    BY <1>1, <1>2, <2>3, <2>4, BuildsKeep DEF CorpusInv, CorpusTypeOK
<1> QED
  BY <1>3, <1>4 DEF MigrateEnd, MigrateExit

\* A server only reads.
LEMMA ServeKeeps ==
    ASSUME CorpusInv, ServeLocal \/ ServeCloud \/ ServeStop PROVE CorpusInv'
<1>1. UNCHANGED <<source, gens, index, dense, cloud, builder, indexer, migrator>>
  BY DEF ServeLocal, ServeCloud, ServeStop, ServeUnchanged
<1>2. IndexIsGuarded' /\ CopyIsFaithful'
  BY <1>1 DEF CorpusInv, IndexIsGuarded, CopyIsFaithful, ManifestIsTrue
<1> QED
  BY <1>1, <1>2, BuildsKeep DEF CorpusInv, CorpusTypeOK

\* What a process that is killed has written stays.
LEMMA KillKeeps == ASSUME CorpusInv, Kill PROVE CorpusInv'
<1>1. /\ UNCHANGED <<source, gens, index, dense, cloud>>
      /\ builder' \in {builder, Idle} /\ indexer' \in {indexer, Idle}
      /\ migrator' \in {migrator, Idle}
  BY DEF Kill
<1>2. Idle.at = "idle" /\ "idle" \notin Rebuilding
  BY DEF Idle, Rebuilding
<1>3. BuildsAreOrdered'
  BY <1>1, <1>2 DEF CorpusInv, BuildsAreOrdered, GenerationsAreWhole
<1>4. IndexIsGuarded'
  BY <1>1, <1>2 DEF CorpusInv, IndexIsGuarded, ManifestIsTrue
<1>5. CopyIsFaithful'
  BY <1>1, <1>2 DEF CorpusInv, CopyIsFaithful
<1> QED
  BY <1>1, <1>3, <1>4, <1>5 DEF CorpusInv, CorpusTypeOK

\* Every step of a script, of an editor and of a kill.
LEMMA CorpusStep == CorpusInv /\ [CorpusNext]_corpusVars => CorpusInv'
<1> SUFFICES ASSUME CorpusInv, [CorpusNext]_corpusVars PROVE CorpusInv'
  OBVIOUS
<1>1. CASE UNCHANGED corpusVars
  <2>1. UNCHANGED <<source, gens, index, dense, cloud, builder, indexer, migrator>>
    BY <1>1 DEF corpusVars
  <2>2. IndexIsGuarded' /\ CopyIsFaithful'
    BY <2>1 DEF CorpusInv, IndexIsGuarded, CopyIsFaithful, ManifestIsTrue
  <2> QED
    BY <2>1, <2>2, BuildsKeep DEF CorpusInv, CorpusTypeOK
<1> QED
  BY <1>1, EditKeeps, BuildStartKeeps, BuildFileKeeps, BuildPublishKeeps, PromoteKeeps,
     IndexLoadKeeps, IndexOpenKeeps, IndexEmptyKeeps, IndexUpsertKeeps, IndexPublishKeeps,
     IndexFailKeeps, MigrateStartKeeps, MigrateBatchKeeps, MigrateEndKeeps, ServeKeeps,
     KillKeeps DEF CorpusNext

\* Whatever scripts overlap and are killed: a manifest names the collection, a
\* published generation is whole, a provenance that _index_provenance calls
\* consistent is, and a migration that reports success is exact.
THEOREM CorpusSafety == CorpusSpec => []CorpusIsSound
<1>1. CorpusInv => CorpusIsSound
  BY DEF CorpusInv, CorpusIsSound, BuildsAreOrdered, IndexIsGuarded, ManifestIsTrue,
         ConsistentIsTrue, Consistent, CopyIsFaithful, MigratedIsExact
<1> QED
  BY CorpusStarts, CorpusStep, <1>1, PTL DEF CorpusSpec

-----------------------------------------------------------------------------
(***************************************************************************)
(* The least element of a set of numbers: the well-foundedness of <, in    *)
(* the form in which the provers can use it.                               *)
(***************************************************************************)
\* A well-founded relation has minimal elements.
LEMMA Minimal ==
    \A R, S : IsWellFoundedOn(R, S) =>
      \A T : T \subseteq S /\ T # {} => \E x \in T : \A y \in T : ~(<<y, x>> \in R)
BY WFMin

\* A relation that holds of smaller numbers.
LEMMA LeastFor ==
    ASSUME NEW R, IsWellFoundedOn(R, Nat), \A x, y \in Nat : x < y => <<x, y>> \in R,
           NEW T, T \subseteq Nat, T # {}
    PROVE  \E x \in T : \A y \in T : x <= y
<1>1. \A U : U \subseteq Nat /\ U # {} => \E x \in U : \A y \in U : ~(<<y, x>> \in R)
  BY Minimal, Zenon
<1>2. T \subseteq Nat /\ T # {} => \E x \in T : \A y \in T : ~(<<y, x>> \in R)
  BY <1>1, Zenon
<1>3. PICK x \in T : \A y \in T : ~(<<y, x>> \in R)
  BY <1>2
<1>4. ASSUME NEW y \in T PROVE x <= y
  <2>1. x \in Nat /\ y \in Nat
    OBVIOUS
  <2>2. ~(<<y, x>> \in R)
    BY <1>3
  <2>3. ~(y < x)
    BY <2>1, <2>2
  <2> QED
    BY <2>1, <2>3
<1> QED
  BY <1>4

\* A set of numbers that is not empty has a least one.
LEMMA Least ==
    ASSUME NEW T, T \subseteq Nat, T # {}
    PROVE  \E x \in T : \A y \in T : x <= y
<1>1. IsWellFoundedOn(OpToRel(<, Nat), Nat)
  BY NatLessThanWellFounded
<1>2. \A x, y \in Nat : x < y => <<x, y>> \in OpToRel(<, Nat)
  BY SMT DEF OpToRel
<1> DEFINE R == OpToRel(<, Nat)
<1>3. IsWellFoundedOn(R, Nat) /\ \A x, y \in Nat : x < y => <<x, y>> \in R
  BY <1>1, <1>2, Zenon
<1> HIDE DEF R
<1> QED
  BY <1>3, LeastFor, Zenon

-----------------------------------------------------------------------------
(***************************************************************************)
(* The store of discovery searches, for any searches and readers, any      *)
(* number of snapshots and any time to live.  A snapshot leaves the store  *)
(* at a time when it has expired, or when the store holds as many others   *)
(* that expire later; the clock and the snapshots that were answered only  *)
(* grow, so what was true when it left stays true.                         *)
(***************************************************************************)
SearchType ==
    [at : {"new"}]
      \cup [at : {"stamped", "answered"}, stamp : Nat, scope : Scopes, present : SUBSET (1..5)]
PageType ==
    [at : {"idle"}]
      \cup [at : {"status", "get", "missing", "gone", "served"}, id : Searches, stamp : Nat]

\* Every stamp is a time that has passed.
ClocksPass ==
    /\ hour \in Nat
    /\ search \in [Searches -> SearchType]
    /\ \A s \in Searches : search[s].at # "new" => search[s].stamp <= hour
    /\ page \in [Readers -> PageType]
    /\ \A p \in Readers : page[p].at # "idle" => page[p].stamp <= hour

\* Snapshots have ids of their own.
StoreIsKeyed ==
    /\ IsFiniteSet(answered) /\ snapshots \subseteq answered
    /\ \A x \in answered : x.id \in Searches /\ x.expires \in Nat /\ search[x.id].at = "answered"
    /\ \A x, y \in answered : x.id = y.id => x = y
    /\ Cardinality(snapshots) <= MaxSnapshots

LaterOf(x) == {y \in answered : Sooner(x, y)}
Outlived == \A x \in answered \ snapshots : x.expires <= hour \/ Cardinality(LaterOf(x)) >= MaxSnapshots

StoreInv == ClocksPass /\ StoreIsKeyed /\ Outlived

\* One snapshot expires before the others of a store.
LEMMA FirstToExpire ==
    ASSUME NEW S, S # {},
           \A x \in S : x.id \in Nat /\ x.expires \in Nat,
           \A x, y \in S : x.id = y.id => x = y
    PROVE  \E x \in S : \A y \in S : ~Sooner(y, x)
<1> DEFINE Times == {x.expires : x \in S}
<1>1. Times \subseteq Nat /\ Times # {}
  OBVIOUS
<1>2. PICK e \in Times : \A t \in Times : e <= t
  BY <1>1, Least
<1> DEFINE Ids == {x.id : x \in {y \in S : y.expires = e}}
<1>3. Ids \subseteq Nat /\ Ids # {}
  OBVIOUS
<1>4. PICK i \in Ids : \A j \in Ids : i <= j
  BY <1>3, Least
<1>5. PICK x \in S : x.expires = e /\ x.id = i
  OBVIOUS
<1>6. ASSUME NEW y \in S PROVE ~Sooner(y, x)
  <2>1. e <= y.expires
    BY <1>2
  <2>2. y.expires = e => i <= y.id
    BY <1>4
  <2> QED
    BY <1>5, <2>1, <2>2 DEF Sooner
<1> QED
  BY <1>6

\* What a bounded store gives up: nothing, or what expires before all the others.
LEMMA BoundedIs ==
    ASSUME NEW S, IsFiniteSet(S), Cardinality(S) <= MaxSnapshots + 1, MaxSnapshots \in Nat,
           \A x \in S : x.id \in Nat /\ x.expires \in Nat,
           \A x, y \in S : x.id = y.id => x = y
    PROVE  /\ Bounded(S) \subseteq S
           /\ Cardinality(Bounded(S)) <= MaxSnapshots
           /\ \A x \in S \ Bounded(S) :
                /\ Cardinality(S \ {x}) = MaxSnapshots
                /\ \A y \in S \ {x} : Sooner(x, y)
<1>0. Cardinality(S) \in Nat
  BY FS_CardinalityType
<1>1. CASE Cardinality(S) <= MaxSnapshots
  BY <1>1 DEF Bounded
<1>2. CASE ~(Cardinality(S) <= MaxSnapshots)
  <2>1. Cardinality(S) = MaxSnapshots + 1
    BY <1>0, <1>2
  <2>2. Bounded(S) = {x \in S : \E y \in S : Sooner(y, x)}
    BY <1>2 DEF Bounded
  <2>3. S # {}
    BY <2>1, FS_EmptySet
  <2>4. PICK x \in S : \A y \in S : ~Sooner(y, x)
    BY <2>3, FirstToExpire
  <2>5. Bounded(S) \subseteq S \ {x}
    BY <2>2, <2>4
  <2>6. ASSUME NEW z \in S PROVE IsFiniteSet(S \ {z}) /\ Cardinality(S \ {z}) = MaxSnapshots
    <3>1. IsFiniteSet(S \ {z}) /\ Cardinality(S \ {z}) = Cardinality(S) - 1
      BY FS_RemoveElement
    <3> QED
      BY <2>1, <3>1
  <2>7. Cardinality(Bounded(S)) <= MaxSnapshots
    <3>1. IsFiniteSet(S \ {x}) /\ Cardinality(S \ {x}) = MaxSnapshots
      BY <2>6
    <3>2. Bounded(S) \in SUBSET (S \ {x})
      BY <2>5
    <3>3. Cardinality(Bounded(S)) <= Cardinality(S \ {x})
      BY <3>1, <3>2, FS_Subset
    <3> QED
      BY <3>1, <3>3
  <2>8. ASSUME NEW z \in S \ Bounded(S), NEW y \in S \ {z} PROVE Sooner(z, y)
    <3>1. ~Sooner(y, z)
      BY <2>2, <2>8
    <3>2. /\ z.id \in Nat /\ y.id \in Nat /\ z.expires \in Nat /\ y.expires \in Nat
          /\ z.id # y.id
      BY <2>8
    <3> QED
      BY <3>1, <3>2 DEF Sooner
  <2> QED
    BY <2>2, <2>6, <2>7, <2>8
<1> QED
  BY <1>1, <1>2

\* An empty store.
LEMMA StoreStarts == DsInit => StoreInv
<1> SUFFICES ASSUME DsInit PROVE StoreInv
  OBVIOUS
<1>1. ClocksPass
  BY DEF DsInit, ClocksPass, SearchType, PageType
<1>2. StoreIsKeyed
  BY FS_EmptySet, DiscoveryAssumption DEF DsInit, StoreIsKeyed
<1>3. Outlived
  BY DEF DsInit, Outlived
<1> QED
  BY <1>1, <1>2, <1>3 DEF StoreInv

\* What has left the store may stay away while time passes and others are answered.
LEMMA OutlivedStays ==
    ASSUME StoreInv, hour' \in Nat, hour <= hour', answered' = answered,
           snapshots' \subseteq snapshots, \A x \in snapshots \ snapshots' : x.expires <= hour'
    PROVE  Outlived'
<1>1. ASSUME NEW x \in answered' \ snapshots'
      PROVE x.expires <= hour' \/ Cardinality(LaterOf(x)') >= MaxSnapshots
  <2>1. LaterOf(x)' = LaterOf(x)
    BY DEF LaterOf
  <2>2. x \in snapshots => x.expires <= hour'
    BY <1>1
  <2>3. x \notin snapshots => x.expires <= hour \/ Cardinality(LaterOf(x)) >= MaxSnapshots
    BY <1>1 DEF StoreInv, Outlived
  <2>4. x.expires \in Nat /\ hour \in Nat
    BY <1>1 DEF StoreInv, StoreIsKeyed, ClocksPass
  <2> QED
    BY <2>1, <2>2, <2>3, <2>4
<1> QED
  BY <1>1 DEF Outlived

\* A search reads the clock.
LEMMA RunSearchKeeps ==
    ASSUME StoreInv, NEW s \in Searches, RunSearch(s) PROVE StoreInv'
<1>1. /\ search[s].at = "new"
      /\ UNCHANGED <<hour, snapshots, page, answered>>
  BY DEF RunSearch
<1>2. PICK scope \in Scopes, present \in {{1, 2, 3, 4, 5}, {1, 3, 4}} :
        search' = [search EXCEPT ![s] = [at |-> "stamped", stamp |-> hour, scope |-> scope, present |-> present]]
  BY DEF RunSearch
<1>3. present \in SUBSET (1..5)
  OBVIOUS
<1>4. search' \in [Searches -> SearchType]
  BY <1>2, <1>3 DEF StoreInv, ClocksPass, SearchType
<1>5. ClocksPass'
  BY <1>1, <1>2, <1>4 DEF StoreInv, ClocksPass
<1>6. StoreIsKeyed'
  BY <1>1, <1>2 DEF StoreInv, StoreIsKeyed, ClocksPass
<1>7. Outlived'
  BY <1>1, OutlivedStays DEF StoreInv, ClocksPass
<1> QED
  BY <1>5, <1>6, <1>7 DEF StoreInv

\* A search stores its result under the time that it has read.
LEMMA StoreSnapshotKeeps ==
    ASSUME StoreInv, NEW s \in Searches, StoreSnapshot(s) PROVE StoreInv'
<1> DEFINE x == [id |-> s, expires |-> search[s].stamp + TTL, scope |-> search[s].scope,
                 present |-> search[s].present, hits |-> BestHits(search[s].scope, search[s].present)]
           kept == Unexpired(snapshots, search[s].stamp)
           all == kept \cup {x}
<1>1. /\ search[s].at = "stamped"
      /\ snapshots' = Bounded(all) /\ answered' = answered \cup {x}
      /\ search' = [search EXCEPT ![s].at = "answered"]
      /\ UNCHANGED <<hour, page>>
  BY DEF StoreSnapshot
<1>2. /\ search[s] \in [at : {"stamped", "answered"}, stamp : Nat, scope : Scopes, present : SUBSET (1..5)]
      /\ search[s].stamp \in Nat /\ search[s].stamp <= hour /\ hour \in Nat
      /\ TTL \in Nat /\ MaxSnapshots \in Nat /\ Searches \subseteq Nat
  BY <1>1, DiscoveryAssumption DEF StoreInv, ClocksPass, SearchType
<1>3. x.id = s /\ x.expires \in Nat
  BY <1>2
<1> HIDE DEF x
<1>4. \A y \in answered : y.id # s
  BY <1>1 DEF StoreInv, StoreIsKeyed
<1>5. kept \subseteq snapshots /\ \A y \in snapshots \ kept : y.expires <= search[s].stamp
  BY <1>2 DEF Unexpired, StoreInv, StoreIsKeyed
<1>6. /\ IsFiniteSet(snapshots) /\ Cardinality(snapshots) \in Nat
      /\ Cardinality(snapshots) <= MaxSnapshots
  BY FS_Subset, FS_CardinalityType DEF StoreInv, StoreIsKeyed
<1>7. IsFiniteSet(kept) /\ Cardinality(kept) \in Nat /\ Cardinality(kept) <= MaxSnapshots
  BY <1>2, <1>5, <1>6, FS_Subset, FS_CardinalityType
<1>8. IsFiniteSet(all) /\ Cardinality(all) <= MaxSnapshots + 1
  <2>1. /\ IsFiniteSet(kept \cup {x})
        /\ Cardinality(kept \cup {x}) = IF x \in kept THEN Cardinality(kept) ELSE Cardinality(kept) + 1
    BY <1>7, FS_AddElement
  <2> HIDE DEF kept
  <2> QED
    BY <1>2, <1>7, <2>1
<1>9. /\ \A y \in all : y.id \in Nat /\ y.expires \in Nat
      /\ \A y, z \in all : y.id = z.id => y = z
  BY <1>2, <1>3, <1>4, <1>5 DEF StoreInv, StoreIsKeyed
<1>10. /\ snapshots' \subseteq all /\ Cardinality(snapshots') <= MaxSnapshots
       /\ \A y \in all \ snapshots' :
            Cardinality(all \ {y}) = MaxSnapshots /\ \A z \in all \ {y} : Sooner(y, z)
  <2> HIDE DEF all
  <2>1. /\ Bounded(all) \subseteq all /\ Cardinality(Bounded(all)) <= MaxSnapshots
        /\ \A y \in all \ Bounded(all) :
             Cardinality(all \ {y}) = MaxSnapshots /\ \A z \in all \ {y} : Sooner(y, z)
    BY <1>2, <1>8, <1>9, BoundedIs
  <2> QED
    BY <1>1, <2>1
<1>11. /\ search' \in [Searches -> SearchType] /\ search'[s].at = "answered"
       /\ search'[s].stamp = search[s].stamp
       /\ \A r \in Searches \ {s} : search'[r] = search[r]
  BY <1>1, <1>2 DEF StoreInv, ClocksPass, SearchType
<1>12. ClocksPass'
  BY <1>1, <1>2, <1>11 DEF StoreInv, ClocksPass
<1>13. IsFiniteSet(answered')
  BY <1>1, FS_AddElement DEF StoreInv, StoreIsKeyed
<1>14. StoreIsKeyed'
  <2>1. snapshots' \subseteq answered'
    BY <1>1, <1>5, <1>10 DEF StoreInv, StoreIsKeyed
  <2>2. \A y \in answered' : y.id \in Searches /\ y.expires \in Nat /\ search'[y.id].at = "answered"
    BY <1>1, <1>3, <1>11 DEF StoreInv, StoreIsKeyed
  <2>3. \A y, z \in answered' : y.id = z.id => y = z
    BY <1>1, <1>3, <1>4 DEF StoreInv, StoreIsKeyed
  <2> QED
    BY <1>10, <1>13, <2>1, <2>2, <2>3 DEF StoreIsKeyed
<1>15. ASSUME NEW y \in answered' \ snapshots'
       PROVE  y.expires <= hour' \/ Cardinality(LaterOf(y)') >= MaxSnapshots
  <2>1. IsFiniteSet(LaterOf(y)') /\ Cardinality(LaterOf(y)') \in Nat
    BY <1>13, FS_Subset, FS_CardinalityType DEF LaterOf
  <2>2. CASE y \in all
    <3>1. \A z \in all \ {y} : z \in LaterOf(y)'
      BY <1>1, <1>5, <1>10, <1>15, <2>2 DEF LaterOf, StoreInv, StoreIsKeyed
    <3>2. Cardinality(all \ {y}) = MaxSnapshots
      BY <1>10, <1>15, <2>2
    <3>3. (all \ {y}) \in SUBSET (LaterOf(y)')
      BY <3>1
    <3>4. Cardinality(all \ {y}) <= Cardinality(LaterOf(y)')
      BY <2>1, <3>3, FS_Subset
    <3> QED
      BY <2>1, <3>2, <3>4, <1>2
  <2>3. CASE y \in snapshots \ kept
    BY <1>1, <1>2, <1>5, <2>3 DEF StoreInv, StoreIsKeyed
  <2>4. CASE y \in answered \ snapshots
    <3>1. y.expires <= hour \/ Cardinality(LaterOf(y)) >= MaxSnapshots
      BY <2>4 DEF StoreInv, Outlived
    <3>2. LaterOf(y) \in SUBSET (LaterOf(y)')
      BY <1>1 DEF LaterOf
    <3>3. Cardinality(LaterOf(y)) \in Nat /\ Cardinality(LaterOf(y)) <= Cardinality(LaterOf(y)')
      BY <2>1, <3>2, FS_Subset, FS_CardinalityType
    <3> QED
      BY <1>1, <1>2, <2>1, <3>1, <3>3
  <2> QED
    BY <1>1, <1>15, <2>2, <2>3, <2>4
<1>16. Outlived'
  BY <1>15 DEF Outlived
<1> QED
  BY <1>12, <1>14, <1>16 DEF StoreInv

\* A reader reads the clock, asks twice, and drops what it finds expired.
LEMMA ReaderKeeps ==
    ASSUME StoreInv, NEW p \in Readers, AskPage(p) \/ Status(p) \/ Get(p) PROVE StoreInv'
<1>0. /\ hour \in Nat /\ page[p] \in PageType
      /\ page[p].at # "idle" =>
           /\ page[p] \in [at : {"status", "get", "missing", "gone", "served"}, id : Searches, stamp : Nat]
           /\ page[p].stamp <= hour
      /\ \A x \in answered : x.expires \in Nat
  BY DEF StoreInv, ClocksPass, StoreIsKeyed, PageType
<1>1. UNCHANGED <<hour, search, answered>>
  BY DEF AskPage, Status, Get
<1>2. /\ page' \in [Readers -> PageType]
      /\ \A q \in Readers : page'[q].at # "idle" => page'[q].stamp <= hour
  <2>0. page \in [Readers -> PageType] /\ \A q \in Readers : page[q].at # "idle" => page[q].stamp <= hour
    BY DEF StoreInv, ClocksPass
  <2>1. CASE AskPage(p)
    <3>1. PICK s \in Searches : page' = [page EXCEPT ![p] = [at |-> "status", id |-> s, stamp |-> hour]]
      BY <2>1 DEF AskPage
    <3>2. [at |-> "status", id |-> s, stamp |-> hour] \in PageType
      BY <1>0 DEF PageType
    <3> QED
      BY <1>0, <2>0, <3>1, <3>2
  <2>2. ASSUME NEW code \in {"missing", "gone", "served"}, page[p].at # "idle", Answers(p, code)
        PROVE  /\ page' \in [Readers -> PageType]
               /\ \A q \in Readers : page'[q].at # "idle" => page'[q].stamp <= hour
    <3>1. [at |-> code, id |-> page[p].id, stamp |-> page[p].stamp] \in PageType
      BY <1>0, <2>2 DEF PageType
    <3> QED
      BY <1>0, <2>0, <2>2, <3>1 DEF Answers
  <2>3. ASSUME page[p].at = "status", page' = [page EXCEPT ![p].at = "get", ![p].stamp = hour]
        PROVE  /\ page' \in [Readers -> PageType]
               /\ \A q \in Readers : page'[q].at # "idle" => page'[q].stamp <= hour
    <3>1. page' = [page EXCEPT ![p] = [page[p] EXCEPT !.at = "get", !.stamp = hour]]
      BY <2>3
    <3>2. /\ [page[p] EXCEPT !.at = "get", !.stamp = hour] \in PageType
          /\ [page[p] EXCEPT !.at = "get", !.stamp = hour].stamp = hour
      BY <1>0, <2>3 DEF PageType
    <3> QED
      BY <1>0, <2>0, <3>1, <3>2
  <2> QED
    BY <2>1, <2>2, <2>3 DEF Status, Get
<1>3. snapshots' \subseteq snapshots /\ \A x \in snapshots \ snapshots' : x.expires <= hour
  <2>1. CASE AskPage(p)
    BY <2>1 DEF AskPage
  <2>2. ASSUME \A x \in Stored(page[p].id) : ~(x.expires > page[p].stamp), page[p].at # "idle", Forgets(p)
        PROVE  snapshots' \subseteq snapshots /\ \A y \in snapshots \ snapshots' : y.expires <= hour
    <3>1. snapshots' = {y \in snapshots : y.id # page[p].id}
      BY <2>2 DEF Forgets, Dropped
    <3>2. \A y \in snapshots \ snapshots' : y.expires \in Nat /\ ~(y.expires > page[p].stamp)
      BY <2>2, <3>1 DEF Stored, StoreInv, StoreIsKeyed
    <3>3. page[p].stamp \in Nat
      BY <1>0, <2>2
    <3> QED
      BY <1>0, <2>2, <3>1, <3>2, <3>3
  <2>3. CASE Status(p)
    <3>1. ASSUME NEW x \in Stored(page[p].id), x.expires <= page[p].stamp, Forgets(p)
          PROVE  snapshots' \subseteq snapshots /\ \A y \in snapshots \ snapshots' : y.expires <= hour
      <4>1. \A y \in Stored(page[p].id) : y = x
        BY <3>1 DEF Stored, StoreInv, StoreIsKeyed
      <4>2. x.expires \in Nat /\ page[p].stamp \in Nat /\ page[p].at # "idle"
        BY <1>0, <2>3, <3>1 DEF Status, Stored, StoreInv, StoreIsKeyed
      <4>3. \A y \in Stored(page[p].id) : ~(y.expires > page[p].stamp)
        BY <3>1, <4>1, <4>2
      <4> QED
        BY <2>2, <3>1, <4>2, <4>3
    <3> QED
      BY <2>3, <3>1 DEF Status
  <2>4. CASE Get(p)
    BY <2>2, <2>4 DEF Get
  <2> QED
    BY <2>1, <2>3, <2>4
<1>4. ClocksPass'
  BY <1>1, <1>2 DEF StoreInv, ClocksPass
<1>5. Cardinality(snapshots') <= MaxSnapshots
  <2>1. IsFiniteSet(snapshots)
    BY FS_Subset DEF StoreInv, StoreIsKeyed
  <2>2. Cardinality(snapshots') <= Cardinality(snapshots) /\ Cardinality(snapshots') \in Nat
    BY <1>3, <2>1, FS_Subset, FS_CardinalityType
  <2> QED
    BY <2>1, <2>2, FS_CardinalityType, DiscoveryAssumption DEF StoreInv, StoreIsKeyed
<1>6. StoreIsKeyed'
  BY <1>1, <1>3, <1>5 DEF StoreInv, StoreIsKeyed
<1>7. Outlived'
  BY <1>0, <1>1, <1>3, OutlivedStays
<1> QED
  BY <1>4, <1>6, <1>7 DEF StoreInv

\* Time passes.
LEMMA HourKeeps == ASSUME StoreInv, HourPasses PROVE StoreInv'
<1>1. hour' = hour + 1 /\ hour \in Nat /\ UNCHANGED <<snapshots, search, page, answered>>
  BY DEF HourPasses, StoreInv, ClocksPass
<1>2. ClocksPass'
  <2>1. \A s \in Searches : search[s].at # "new" => search[s].stamp \in Nat
    BY DEF StoreInv, ClocksPass, SearchType
  <2>2. \A p \in Readers : page[p].at # "idle" => page[p].stamp \in Nat
    BY DEF StoreInv, ClocksPass, PageType
  <2> QED
    BY <1>1, <2>1, <2>2 DEF StoreInv, ClocksPass
<1>3. StoreIsKeyed'
  BY <1>1 DEF StoreInv, StoreIsKeyed
<1>4. Outlived'
  BY <1>1, OutlivedStays
<1> QED
  BY <1>2, <1>3, <1>4 DEF StoreInv

\* A snapshot that a search answered is there until it expires, or as many
\* later ones were answered, whatever other searches and readers drop from the
\* store in between (discovery.py, DiscoverySnapshotStore).
THEOREM SnapshotSafety == DsSpec => []NewestSurvive
<1>1. StoreInv /\ [DsNext]_dsVars => StoreInv'
  <2> SUFFICES ASSUME StoreInv, [DsNext]_dsVars PROVE StoreInv'
    OBVIOUS
  <2>1. CASE UNCHANGED dsVars
    BY <2>1 DEF dsVars, StoreInv, ClocksPass, StoreIsKeyed, Outlived, LaterOf
  <2> QED
    BY <2>1, RunSearchKeeps, StoreSnapshotKeeps, ReaderKeeps, HourKeeps DEF DsNext
<1>2. StoreInv => NewestSurvive
  <2> SUFFICES ASSUME StoreInv, NEW x \in answered, x.expires > hour,
                      Cardinality({y \in answered : Sooner(x, y)}) < MaxSnapshots
               PROVE  x \in snapshots
    BY DEF StoreInv, StoreIsKeyed, NewestSurvive
  <2>1. x.expires \in Nat /\ hour \in Nat
    BY DEF StoreInv, StoreIsKeyed, ClocksPass
  <2>2. IsFiniteSet(LaterOf(x)) /\ Cardinality(LaterOf(x)) \in Nat
    BY FS_Subset, FS_CardinalityType DEF StoreInv, StoreIsKeyed, LaterOf
  <2> QED
    BY <2>1, <2>2, DiscoveryAssumption DEF StoreInv, Outlived, LaterOf
<1> QED
  BY StoreStarts, <1>1, <1>2, PTL DEF DsSpec
=============================================================================
