---------------------------- MODULE QueryStream -----------------------------
(***************************************************************************)
(* One streamed answer: /query/stream and /query/decomposed/stream of      *)
(* src/api/app.py.                                                         *)
(*                                                                         *)
(* A daemon thread runs the pipeline (rag_pipeline.query_stream) or the    *)
(* decomposer and hands its events to the event loop; a callback of the    *)
(* loop puts each into a bounded queue; the async generator takes them     *)
(* out and yields them to the client.  A threading.Event tells the thread  *)
(* to stop: it is set on disconnect, timeout, a full queue and when the    *)
(* generator ends.  The thread polls it between its stages.                *)
(*                                                                         *)
(* The thread is given by the operations it has left ("todo"): "check"     *)
(* polls the event, "part" hands out a stage, source or token event,       *)
(* "work" calls a model, an index or a provider inside a stage,            *)
(* "synthesis" makes a draft and corrects it, "query" runs the plain       *)
(* pipeline, "tokens", "replay" and "subqueries" are loops of events,      *)
(* "store" writes the answer to the session or to the cache, "done" and    *)
(* "error" hand out the terminal event, "sentinel" is the None of the      *)
(* finally clause.  Of an event only its type is kept: stage, source,      *)
(* normalisation and token events are all "part".                          *)
(*                                                                         *)
(* A call is one of the rewriter, the embedder, the retriever or the       *)
(* provider (up to its answer or the next chunk of it); it is the slow     *)
(* part, and the event is polled between some of the calls only.           *)
(***************************************************************************)
EXTENDS Naturals, Sequences

CONSTANTS
    QueueMax,        \* maxsize of the asyncio.Queue
    MaxWorkers,      \* max_workers of the pool of sub-queries
    MaxTokens,       \* bound: events or sub-queries of one loop
    MaxPosted        \* bound: callbacks the loop has not run yet

ASSUME StreamAssumption ==
    /\ QueueMax \in Nat \ {0} /\ MaxWorkers \in Nat \ {0}
    /\ MaxTokens \in Nat /\ MaxPosted \in Nat \ {0}

VARIABLES
    request,         \* which route, and whether it names a session
    todo,            \* the thread: its remaining operations
    rounds,          \* what the first of them has done: events, sub-queries, calls
    flight,          \* calls of a loop that have begun and not ended
    hand,            \* the event being handed over
    partial,         \* the provider loop ended early because of the event
    stored,          \* answers written by this request
    late,            \* calls that ended after the stream had, by operation
    posted,          \* callbacks scheduled with call_soon_threadsafe
    queue,           \* the asyncio.Queue
    cancel,          \* the threading.Event
    gen, taken,      \* the generator: where it is, the event it has taken
    last,            \* the last event the client was sent
    outcome,         \* terminal_outcome
    recorded,        \* terminal telemetry rows written
    connected,       \* the client is there
    expired          \* STREAM_QUERY_TIMEOUT_SECONDS have passed

work == <<rounds, flight, late>>
thread == <<todo, hand, partial, stored, work>>
loop == <<posted, queue, gen, taken, last, outcome, recorded>>
streamVars == <<request, thread, loop, cancel, connected, expired>>

Routes == {"query", "session", "decomposed"}
Outcomes == {"interrupted", "cancelled", "failed", "succeeded"}
Ops == {"check", "part", "work", "synthesis", "query", "lookup", "plan",
        "tokens", "replay", "subqueries", "store", "done",
        "error", "sentinel"}
Event == {"part", "done", "error", "none"}
Nothing == "nothing"
Terminal == {"done", "error"}

\* The calls an operation makes, or has under way at a time, after the poll
\* before it: the plain pipeline rewrites, embeds, retrieves, drafts and
\* corrects, a synthesis drafts and corrects.
Calls == [work |-> 1, synthesis |-> 2, query |-> 5, tokens |-> 1, subqueries |-> MaxWorkers]

-----------------------------------------------------------------------------
(* The pipeline as the sequence of its operations. *)

Stage == <<"part", "work", "part">>

\* query_stream up to the cache.
Preparation == <<"check">> \o Stage \o <<"check">> \o Stage \o <<"check">>

\* A cache hit skips two stages, sends the sources and replays the answer.
CacheHit == <<"part", "part", "part", "part", "replay", "part", "done">>

Answer == Stage \o <<"check", "part", "part", "tokens", "part", "check", "store", "done">>

\* decomposer.run: a plan, and then the plain pipeline (which may answer from
\* its cache), or retrieval for every sub-query, and synthesis when that found
\* enough evidence.
Decomposition == <<"check">> \o Stage \o <<"check", "plan">>
Retrieval == <<"part", "subqueries", "check", "part">>
Plans == {<<"query", "store">>, <<"query">>, Retrieval,
          Retrieval \o <<"part", "synthesis", "check", "part">>}

\* run_stream of the decomposed route, after decomposer.run.
Delivery == <<"check", "part", "replay", "done">>

Program(r) == CASE r = "query"   -> Preparation \o <<"part", "lookup">>
                [] r = "session" -> Preparation \o Answer
                [] OTHER         -> Decomposition

StreamTypeOK ==
    /\ request \in Routes
    /\ todo \in Seq(Ops) /\ rounds \in Nat /\ flight \in Nat
    /\ hand \in Event \cup {Nothing}
    /\ partial \in BOOLEAN /\ stored \in Nat /\ late \in [DOMAIN Calls -> Nat]
    /\ posted \in Seq(Event)
    /\ queue \in Seq(Event) /\ Len(queue) <= QueueMax
    /\ cancel \in BOOLEAN /\ connected \in BOOLEAN /\ expired \in BOOLEAN
    /\ gen \in {"loop", "send", "yielded", "finally", "ended"}
    /\ taken \in Event \cup {Nothing}
    /\ last \in Event \cup {Nothing} /\ outcome \in Outcomes /\ recorded \in Seq(Outcomes)

StreamInit ==
    /\ request \in Routes
    /\ todo = Program(request) \o <<"sentinel">>
    /\ rounds = 0 /\ flight = 0 /\ late = [op \in DOMAIN Calls |-> 0]
    /\ hand = Nothing /\ partial = FALSE /\ stored = 0
    /\ posted = <<>> /\ queue = <<>> /\ cancel = FALSE
    /\ gen = "loop" /\ taken = Nothing /\ last = Nothing
    /\ outcome = "interrupted" /\ recorded = <<>>
    /\ connected = TRUE /\ expired = FALSE

-----------------------------------------------------------------------------
(* The thread. *)

NextOp(op) == hand = Nothing /\ todo # <<>> /\ Head(todo) = op
Continue == todo' = Tail(todo)
Return == todo' = <<"sentinel">>

\* The handlers: nothing is reported once the event is set, and a failed stage
\* is reported before the error.
Raises(stage) ==
    todo' = IF cancel THEN <<"sentinel">> ELSE stage \o <<"error", "sentinel">>
InStage == <<"part">>
NoStage == <<>>

\* An event is produced and, unless the event is set, handed to the loop.  A
\* stream that was told to stop leaves its loop; the decomposed route only
\* drops the event.
HandOut(type, next) ==
    IF cancel
    THEN /\ IF request = "decomposed" THEN todo' = next ELSE Return
         /\ UNCHANGED hand
    ELSE /\ todo' = next
         /\ hand' = type

Check ==
    /\ NextOp("check")
    /\ IF cancel THEN Return ELSE Continue
    /\ UNCHANGED <<request, hand, partial, stored, work, loop, cancel, connected, expired>>

Part ==
    /\ NextOp("part")
    /\ HandOut("part", Tail(todo))
    /\ UNCHANGED <<request, partial, stored, work, loop, cancel, connected, expired>>

\* A call that ends when the stream already has.
CountLate == late' = IF gen = "ended" THEN [late EXCEPT ![Head(todo)] = @ + 1] ELSE late

\* One call of an operation that polls nothing ends; another one follows, or
\* the operation ends.  Models, indexes and providers answer or raise; so does
\* pipeline.query, which knows nothing of the event and of no stage.
Work ==
    /\ \E op \in {"work", "synthesis", "query"} :
          /\ NextOp(op)
          /\ \/ rounds + 1 < Calls[op] /\ rounds' = rounds + 1 /\ UNCHANGED todo
             \/ rounds' = 0 /\ (Continue \/ Raises(IF op = "query" THEN NoStage ELSE InStage))
    /\ CountLate
    /\ UNCHANGED <<request, flight, hand, partial, stored, loop, cancel, connected, expired>>

\* cache.get: the rest of the program is that of a hit or of a miss.
Lookup ==
    /\ NextOp("lookup")
    /\ \/ \E rest \in {CacheHit, Answer} : todo' = <<"part">> \o rest \o <<"sentinel">>
       \/ Raises(InStage)
    /\ UNCHANGED <<request, hand, partial, stored, work, loop, cancel, connected, expired>>

Plan ==
    /\ NextOp("plan")
    /\ \E rest \in Plans : todo' = rest \o Delivery \o <<"sentinel">>
    /\ UNCHANGED <<request, hand, partial, stored, work, loop, cancel, connected, expired>>

\* One more event of a loop, and the ways a loop is left.
Another == ~cancel /\ rounds < MaxTokens /\ rounds' = rounds + 1 /\ hand' = "part" /\ UNCHANGED todo
LoopEnds == rounds' = 0 /\ Continue /\ UNCHANGED hand
LoopLeft == cancel /\ rounds' = 0 /\ Return /\ UNCHANGED hand

\* A loop polls the event before each of its calls.
CallBegins == ~cancel /\ flight < Calls[Head(todo)] /\ flight' = flight + 1 /\ UNCHANGED late
CallEnds == flight > 0 /\ flight' = flight - 1 /\ CountLate
NoFlight == flight = 0 /\ UNCHANGED <<flight, late>>

\* for token in generate_stream(...): a chunk is handed out, or kept for the
\* correction of a buffered draft, which is one more call.  The inner generator
\* may stop early on the event, which ends the loop normally with an incomplete
\* answer.
Tokens ==
    /\ NextOp("tokens")
    /\ \/ CallBegins /\ rounds < MaxTokens /\ UNCHANGED <<todo, rounds, hand, partial>>
       \/ /\ CallEnds /\ rounds' = rounds + 1 /\ UNCHANGED <<todo, partial>>
          /\ UNCHANGED hand \/ (~cancel /\ hand' = "part")
       \/ NoFlight /\ LoopLeft /\ UNCHANGED partial
       \/ NoFlight /\ cancel /\ LoopEnds /\ partial' = TRUE
       \/ NoFlight /\ LoopEnds /\ UNCHANGED partial
       \/ (CallEnds \/ NoFlight) /\ Raises(InStage) /\ rounds' = 0 /\ UNCHANGED <<hand, partial>>
    /\ UNCHANGED <<request, stored, loop, cancel, connected, expired>>

\* The words of a cached answer, or the pieces of a decomposed one.
Replay ==
    /\ NextOp("replay")
    /\ LoopLeft \/ Another \/ LoopEnds
    /\ UNCHANGED <<request, flight, late, partial, stored, loop, cancel, connected, expired>>

\* Mutant: a sub-query begins without looking at the event.
SubQueriesUnpolled ==
    /\ NextOp("subqueries")
    /\ \/ /\ flight < MaxWorkers /\ flight' = flight + 1 /\ UNCHANGED late
          /\ rounds < MaxTokens /\ rounds' = rounds + 1 /\ UNCHANGED <<todo, hand>>
       \/ CallEnds /\ UNCHANGED <<todo, rounds, hand>>
       \/ NoFlight /\ LoopEnds
    /\ UNCHANGED <<request, partial, stored, loop, cancel, connected, expired>>

\* _execute_parallel: the workers of the pool take the sub-queries, each of
\* which polls the event, is announced and retrieves; one that fails counts as
\* empty.  One that finds the event set ends the run, once the pool has waited
\* for those under way.
SubQueries ==
    /\ NextOp("subqueries")
    /\ \/ CallBegins /\ Another
       \/ CallEnds /\ UNCHANGED <<todo, rounds>> /\ hand' = IF cancel THEN hand ELSE "part"
       \/ NoFlight /\ LoopLeft
       \/ NoFlight /\ LoopEnds
    /\ UNCHANGED <<request, partial, stored, loop, cancel, connected, expired>>

\* memory.add_turn or cache.set.
Store ==
    /\ NextOp("store")
    /\ Continue
    /\ stored' = stored + 1
    /\ UNCHANGED <<request, hand, partial, work, loop, cancel, connected, expired>>

\* The terminal event; assembling its payload may still raise.
Done ==
    /\ NextOp("done")
    /\ HandOut("done", Tail(todo)) \/ (Raises(NoStage) /\ UNCHANGED hand)
    /\ UNCHANGED <<request, partial, stored, work, loop, cancel, connected, expired>>

Error ==
    /\ NextOp("error")
    /\ HandOut("error", Tail(todo))
    /\ UNCHANGED <<request, partial, stored, work, loop, cancel, connected, expired>>

\* enqueue(None): handed over whatever the event says.
Sentinel ==
    /\ NextOp("sentinel")
    /\ hand' = "none"
    /\ Continue
    /\ UNCHANGED <<request, partial, stored, work, loop, cancel, connected, expired>>

\* loop.call_soon_threadsafe(put_event); enqueue polls the event once more, so
\* what was handed over may be dropped.
Post ==
    /\ hand # Nothing
    /\ hand' = Nothing
    /\ \/ Len(posted) < MaxPosted /\ posted' = Append(posted, hand)
       \/ cancel /\ hand # "none" /\ UNCHANGED posted
    /\ UNCHANGED <<request, todo, partial, stored, work, queue, cancel, gen, taken,
                   last, outcome, recorded, connected, expired>>

ThreadStep ==
    \/ Check \/ Part \/ Work \/ Lookup \/ Plan \/ Tokens \/ Replay \/ SubQueries
    \/ Store \/ Done \/ Error
    \/ Sentinel \/ Post

-----------------------------------------------------------------------------
(* The event loop. *)

\* put_nowait; on QueueFull the event is lost and the thread is told to stop.
PutEvent ==
    /\ posted # <<>>
    /\ posted' = Tail(posted)
    /\ \/ /\ Len(queue) < QueueMax
          /\ queue' = Append(queue, Head(posted))
          /\ UNCHANGED cancel
       \/ /\ Len(queue) = QueueMax
          /\ cancel' = TRUE
          /\ UNCHANGED queue
    /\ UNCHANGED <<request, thread, gen, taken, last, outcome, recorded, connected, expired>>

Leaves(o) == gen' = "finally" /\ outcome' = o

\* await request.is_disconnected()
SeeDisconnect ==
    /\ gen = "loop" /\ ~connected
    /\ cancel' = TRUE
    /\ Leaves("cancelled")
    /\ UNCHANGED <<request, thread, posted, queue, taken, last, recorded, connected, expired>>

\* Mutant: the deadline is never noticed.
TimeoutNever ==
    /\ FALSE
    /\ UNCHANGED streamVars

\* The deadline is noticed between two events; an error is sent.
Timeout ==
    /\ gen = "loop" /\ connected /\ expired
    /\ cancel' = TRUE
    /\ last' = "error"
    /\ Leaves("failed")
    /\ UNCHANGED <<request, thread, posted, queue, taken, recorded, connected, expired>>

\* await queue.get(); None ends the stream without a terminal event.
Take ==
    /\ gen = "loop" /\ connected /\ ~expired /\ queue # <<>>
    /\ queue' = Tail(queue)
    /\ \/ /\ Head(queue) = "none"
          /\ gen' = "finally"
          /\ UNCHANGED taken
       \/ /\ Head(queue) # "none"
          /\ taken' = Head(queue)
          /\ gen' = "send"
    /\ UNCHANGED <<request, thread, posted, cancel, last, outcome, recorded, connected, expired>>

\* yield: the client gets the event, or an error when it cannot be encoded
\* (on the plain route; only there is the encoding guarded).
SendEvent ==
    /\ gen = "send"
    /\ \/ last' = taken /\ gen' = "yielded" /\ UNCHANGED outcome
       \/ /\ request # "decomposed"
          /\ last' = "error"
          /\ Leaves("failed")
    /\ UNCHANGED <<request, thread, posted, queue, taken, cancel, recorded, connected, expired>>

\* Mutant: a terminal event sets the outcome and the loop goes on.
ResumeOn ==
    /\ gen = "yielded"
    /\ gen' = "loop"
    /\ outcome' = CASE taken = "done" -> "succeeded" [] taken = "error" -> "failed" [] OTHER -> outcome
    /\ taken' = Nothing
    /\ UNCHANGED <<request, thread, posted, queue, cancel, last, recorded, connected, expired>>

\* The generator is resumed after the yield.
Resume ==
    /\ gen = "yielded"
    /\ CASE taken = "done"  -> Leaves("succeeded")
         [] taken = "error" -> Leaves("failed")
         [] OTHER                -> gen' = "loop" /\ UNCHANGED outcome
    /\ taken' = Nothing
    /\ UNCHANGED <<request, thread, posted, queue, cancel, last, recorded, connected, expired>>

\* The server cancels the response of a client that has gone: at an await
\* CancelledError is seen, at a yield the generator is only closed.
CloseResponse ==
    /\ ~connected
    /\ \/ gen = "loop" /\ Leaves("cancelled")
       \/ gen = "yielded" /\ gen' = "finally" /\ UNCHANGED outcome
    /\ UNCHANGED <<request, thread, posted, queue, taken, cancel, last, recorded, connected, expired>>

\* finally: the event is set and the terminal row is written, unless the write
\* fails or is cut off by a server that has cancelled the response.
Finally ==
    /\ gen = "finally"
    /\ gen' = "ended"
    /\ cancel' = TRUE
    /\ \/ recorded' = Append(recorded, outcome)
       \/ UNCHANGED recorded
    /\ UNCHANGED <<request, thread, posted, queue, taken, last, outcome, connected, expired>>

GeneratorStep ==
    \/ SeeDisconnect \/ Timeout \/ Take \/ SendEvent \/ Resume \/ CloseResponse \/ Finally

-----------------------------------------------------------------------------
(* Client and clock (external). *)

Disconnect ==
    /\ connected /\ connected' = FALSE
    /\ UNCHANGED <<request, thread, loop, cancel, expired>>

Expire ==
    /\ ~expired /\ expired' = TRUE
    /\ UNCHANGED <<request, thread, loop, cancel, connected>>

StreamNext == ThreadStep \/ PutEvent \/ GeneratorStep \/ Disconnect \/ Expire

StreamSpec == StreamInit /\ [][StreamNext]_streamVars

-----------------------------------------------------------------------------
(* Properties. *)

\* An answer that the provider loop cut short is never stored in the session
\* or in the cache, although the loop ends as if it were complete.
PartialNeverStored == stored > 0 => ~partial

\* A terminal event is the last one the client gets: the error of a timeout is
\* never followed by the late answer of the thread, nor an answer by an error;
\* the generator takes and sends nothing more.
TerminalIsLast == [][(last \in Terminal) => UNCHANGED last /\ gen' \notin {"loop", "send"}]_streamVars

\* A client that was told "done" by a route that keeps answers finds the
\* answer in its session or in the cache, and nothing is stored twice.
DoneIsStored ==
    /\ stored <= 1
    /\ request = "session" /\ last = "done" => stored = 1

\* The terminal row is written at most once and says what the client saw.
RecordIsTrue ==
    /\ Len(recorded) <= 1
    /\ \A i \in DOMAIN recorded :
         /\ recorded[i] = "succeeded" => last = "done"
         /\ recorded[i] = "failed" => last = "error"
         /\ recorded[i] = "interrupted" /\ connected => last \notin Terminal

\* Once the stream has ended, wherever the end met the thread, it finishes at
\* most what was left of one operation: one call of a stage or of the provider
\* loop, the two of a synthesis, the five of a plain pipeline, or the sub-queries
\* that the pool had under way.
LateWorkBounded ==
    /\ \A op \in DOMAIN Calls : late[op] <= Calls[op]
    /\ \A op, other \in DOMAIN Calls : late[op] > 0 /\ late[other] > 0 => op = other

\* What a stream tells and records is true, what is stored is the whole answer,
\* and little is left behind; the state is well formed throughout.
StreamIsTrue ==
    /\ StreamTypeOK
    /\ PartialNeverStored /\ DoneIsStored
    /\ RecordIsTrue /\ LateWorkBounded

\* Every stream ends, for the client and for the thread, also when the queue
\* was full and the None of the thread is lost.
StreamEnds == <>(gen = "ended" /\ todo = <<>>)
=============================================================================
