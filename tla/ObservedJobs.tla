---------------------------- MODULE ObservedJobs ----------------------------
(***************************************************************************)
(* The job repository, and beside it what an operator observes of the      *)
(* process: its durable telemetry and the timing of a request or a worker  *)
(* cycle.  Telemetry projects the jobs that have ended, so it keeps the    *)
(* rows it reads; neither it nor a trace writes to the repository.  A      *)
(* behaviour exercises one of the three, and the others stay as they were  *)
(* when the process started.                                               *)
(***************************************************************************)
EXTENDS DurableJobs, Telemetry, Attribution

VARIABLE exercised   \* what a behaviour is about

observedVars == <<vars, tmVars, atVars, exercised>>

ObservedInit ==
  /\ Init /\ TmInit /\ AtInit
  /\ exercised \in {"jobs", "telemetry", "attribution"}
  /\ exercised # "attribution" => source = CHOOSE s \in Sources : TRUE

ObservedNext ==
  \/ exercised = "jobs" /\ Next /\ UNCHANGED <<tmVars, atVars, exercised>>
  \/ exercised = "telemetry" /\ TmNext /\ UNCHANGED <<vars, atVars, exercised>>
  \/ exercised = "attribution" /\ AtNext /\ UNCHANGED <<vars, tmVars, exercised>>

ObservedSpec == ObservedInit /\ [][ObservedNext]_observedVars

-----------------------------------------------------------------------------
(* Nothing is counted twice or left out: the buckets of a series have      *)
(* every fact of its summary, and the timing of a request every span and   *)
(* every instant (telemetry.py, summary and timeseries; attribution.py,    *)
(* record and summary).                                                    *)
ObservationsAddUp ==
  /\ exercised = "telemetry" => SeriesAddUp
  /\ exercised = "attribution" => EverySpanIsCounted /\ RemainderIsUncovered
==============================================================================
