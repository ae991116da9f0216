------------------------------- MODULE Service -------------------------------
(***************************************************************************)
(* The stores of one service process, side by side: the workspace database *)
(* that is opened and migrated, the records in it, and an Agent run from   *)
(* the inside.                                                             *)
(*                                                                         *)
(* They share a process and a file but no row, no lock order and no        *)
(* callback: a step of one neither reads nor writes what the others keep.  *)
(* A behaviour therefore exercises one of them, and the others stay as     *)
(* they were when the process started.                                     *)
(***************************************************************************)
EXTENDS WorkspaceRecords, Database, AgentRun

VARIABLE exercised   \* the store that a behaviour is about

serviceVars == <<vars, dbVars, runVars, exercised>>

(* What a store holds while another is exercised.                          *)
FreshDatabase == DbInit /\ file = CHOOSE f \in Files : TRUE
FreshRun == RunInit /\ plan = PlainPlan

ServiceInit ==
  /\ Init
  /\ \/ exercised = "records" /\ FreshDatabase /\ FreshRun
     \/ exercised = "database" /\ DbInit /\ FreshRun
     \/ exercised = "run" /\ FreshDatabase /\ RunInit

ServiceNext ==
  \/ exercised = "records" /\ Next /\ UNCHANGED <<dbVars, runVars, exercised>>
  \/ exercised = "database" /\ DbNext /\ UNCHANGED <<vars, runVars, exercised>>
  \/ exercised = "run" /\ RunNext /\ UNCHANGED <<vars, dbVars, exercised>>

ServiceSpec == ServiceInit /\ [][ServiceNext]_serviceVars

-----------------------------------------------------------------------------
(* Properties of the stores, each checked where the store is exercised.    *)

(* A database that is opened, migrated and replaced keeps its rows, is     *)
(* current whenever a thread is told so, and is migrated by one thread at  *)
(* a time.                                                                 *)
OpeningIsSafe == exercised = "database" => RowsSurvive /\ ReadyIsCurrent /\ MigrationsDoNotRace

(* What a finished Agent run leaves behind supports its answer and passes  *)
(* its evaluation, and the report of it passes its reader.                 *)
RunsAreSound == exercised = "run" => AnswersAreSupported /\ RunsAreEvaluable /\ ReportsParse
==============================================================================
