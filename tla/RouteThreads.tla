---------------------------- MODULE RouteThreads ----------------------------
(***************************************************************************)
(* The threads that a route starts or runs in: the evaluation job that     *)
(* POST /evaluation/jobs schedules, the thread that answers a streamed     *)
(* query while its coroutine serves the client, and the calls of the       *)
(* provider that all of them make through the keys of a Generator.         *)
(*                                                                         *)
(* A call to the provider is one step of the first two; KeyPool is the     *)
(* inside of that step.  They share nothing but the process, whose         *)
(* scheduler runs all; a behaviour watches one of them.                    *)
(***************************************************************************)
EXTENDS EvaluationRun, QueryStream, KeyPool

VARIABLE watched

threadVars == <<vars, streamVars, keyVars, watched>>

Evaluating(A) == watched = "evaluation" /\ A /\ UNCHANGED <<streamVars, keyVars, watched>>
Streaming(A) == watched = "stream" /\ A /\ UNCHANGED <<vars, keyVars, watched>>
Calling(A) == watched = "calls" /\ A /\ UNCHANGED <<vars, streamVars, watched>>

ThreadsInit ==
    /\ Init /\ StreamInit /\ KeyInit
    /\ watched \in {"evaluation", "stream", "calls"}
    /\ watched # "stream" => request = "query"
    /\ watched # "calls" => pool = <<"first">>

ThreadsNext == Evaluating(Next) \/ Streaming(StreamNext) \/ Calling(KeyNext)

\* Threads that have started go on, and an operator restarts a dead process.
EvaluationFairness ==
    /\ \A r \in Runners : WF_threadVars(Evaluating(RunnerStep(r)))
    /\ WF_threadVars(Evaluating(Restart)) /\ WF_threadVars(Evaluating(RecoverBatch))

\* The loop runs its callbacks and its tasks, time passes, and every call of
\* the thread returns or raises (CallsEnd, and indexes have timeouts).
StreamFairness ==
    /\ WF_threadVars(Streaming(ThreadStep)) /\ WF_threadVars(Streaming(PutEvent))
    /\ WF_threadVars(Streaming(GeneratorStep)) /\ WF_threadVars(Streaming(Expire))

\* Time passes, and the SDK answers or times out.
CallFairness ==
    WF_threadVars(Calling(Elapse)) /\ \A c \in Callers : WF_threadVars(Calling(Proceed(c)))

ThreadsSpec ==
    /\ ThreadsInit /\ [][ThreadsNext]_threadVars
    /\ EvaluationFairness /\ StreamFairness /\ CallFairness

-----------------------------------------------------------------------------
\* Every stream that is watched ends, for the client and for the thread, also
\* when the queue was full and the None of the thread is lost; and every call
\* of the provider returns or raises, however many 429s it meets.
ThreadsEnd == (watched = "stream" => StreamEnds) /\ CallsEnd
=============================================================================
