--------------------------- MODULE ScopeCampaign ----------------------------
(***************************************************************************)
(* run_answer_scope_campaign.py and run_answer_scope_closure_campaign.py:  *)
(* an orchestrator that takes the scripts of Release through their stages, *)
(* keeps its progress in a state file, and resumes from it.  The scripts   *)
(* may also be run by hand at any time.                                    *)
(***************************************************************************)
EXTENDS Release

VARIABLES
  state,    \* the state file: manifest, status and stages
  camp      \* the orchestrator process

campaign == <<state, camp>>

(* The stages "offline" and "tests" of the code are one here.              *)
Stages == <<"offline", "r1", "r2", "reproducibility", "n30", "admission">>
SlotOf(st) == IF st = "r1" THEN 1 ELSE 2
Manifest == [code |-> code, official |-> official]
NewState == [man |-> Manifest, status |-> "RUNNING",
             stage |-> [i \in DOMAIN Stages |-> "none"]]
Off == [pc |-> "off"]

CInit == Init /\ state = None /\ camp = Off

Save(s) == state' = s
Marked(i, v) == [state EXCEPT !.stage[i] = v]
Ended(i, v) == [Marked(i, v) EXCEPT !.status = v]

(* main and _load_or_create_state: a manifest that is not the one of the   *)
(* state file is refused unless the state is to be started anew; the       *)
(* closure campaign closes an earlier NO_GO instead of ending there.       *)
Terminal(s) == \/ s.status \in {"FAILED", "CLOSED_NO_GO", "READY_TO_PROMOTE"}
               \/ s.status = "NO_GO" /\ kind # "closure"
Drifted(s) == s.man # Manifest
Launch(restart) ==
  /\ kind \in Scoped /\ camp.pc = "off" /\ pend = [x \in Slots |-> << >>]
  /\ LET anew == state = None \/ restart
         s == IF anew THEN NewState ELSE state
     IN  /\ ~anew => ~Drifted(state)
         /\ ~Terminal(s)
         /\ Save(s)
  /\ camp' = [pc |-> "next", rc |-> FALSE]
  /\ UNCHANGED vars

(* _run_once takes the first stage that has not passed; with a closure     *)
(* campaign a sentinel that failed does not keep the second from running.  *)
Failed(s) == \E i \in {2, 3} : s.stage[i] = "NO_GO"
Here(i) ==
  /\ camp.pc = "next" /\ state.stage[i] # "PASSED"
  /\ \A j \in 1..(i - 1) : state.stage[j] = "PASSED" \/ (j = 2 /\ i = 3 /\ Failed(state))

(* _provider_report_status of a sentinel report.                           *)
ReportStatus(r) ==
  IF r = None THEN {"none"} ELSE IF r.passed THEN {"PASSED"}
  ELSE IF r.done THEN {"NO_GO"} ELSE {"WAITING_QUOTA", "none"}

NoGo(i) ==
  IF kind = "closure" /\ i = 2
  THEN /\ Save(Ended(i, "NO_GO")) /\ UNCHANGED camp
  ELSE /\ Save([Ended(i, "NO_GO") EXCEPT !.status =
                  IF kind = "closure" THEN "CLOSED_NO_GO" ELSE "NO_GO"])
       /\ camp' = Off

(* A report found on disk is taken for the stage; otherwise the stage is   *)
(* marked as running and its script started.                               *)
Reuse(i) ==
  /\ i \in {2, 3} /\ Here(i)
  /\ \/ /\ ReportStatus(rep[SlotOf(Stages[i])]) = {"PASSED"}
        /\ Save(Marked(i, "PASSED")) /\ UNCHANGED camp
     \/ /\ ReportStatus(rep[SlotOf(Stages[i])]) = {"NO_GO"}
        /\ NoGo(i)
  /\ UNCHANGED vars
SentinelsFailed ==
  /\ camp.pc = "next" /\ Failed(state) /\ state.stage[3] = "PASSED"
  /\ Save([state EXCEPT !.status = "CLOSED_NO_GO"]) /\ camp' = Off
  /\ UNCHANGED vars
RunCommand(i) ==
  /\ Here(i) /\ ~(i > 3 /\ Failed(state))
  /\ i \in {2, 3} => ReportStatus(rep[SlotOf(Stages[i])]) \cap {"PASSED", "NO_GO"} = {}
  /\ Save(Marked(i, "RUNNING"))
  /\ camp' = [pc |-> Stages[i], rc |-> FALSE]
  /\ UNCHANGED vars

(* The script of the stage, with its exit code.                            *)
Exit(rc) == camp' = [pc |-> "exit", rc |-> rc, of |-> camp.pc] /\ UNCHANGED state
RunSentinel(x) ==
  /\ camp.pc = (IF x = 1 THEN "r1" ELSE "r2")
  /\ ScopeSentinel(x, FALSE) \/ ClosureSentinel(x, FALSE)
  /\ Exit(/\ ~Moved
          /\ IF pend'[x] = << >> THEN rep'[x].passed ELSE pend'[x][Len(pend'[x])].passed)
RunStage ==
  \/ \E x \in Slots : RunSentinel(x)
  \/ camp.pc = "reproducibility" /\ Reproduce(1, 2) /\ Exit(repro'.passed)
  \/ camp.pc = "n30" /\ RunPhase2 /\ Exit(cand'.s.done)
  \/ camp.pc = "n30" /\ ~Reproducible /\ Exit(FALSE) /\ UNCHANGED vars
  \/ camp.pc = "admission" /\ cand # None /\ AdmissionRead /\ UNCHANGED campaign
  \/ camp.pc = "admission" /\ AdmissionWrite /\ Exit(adm'.passed)
  \/ camp.pc = "offline" /\ \E rc \in BOOLEAN : Exit(rc) /\ UNCHANGED vars

(* What _run_command makes of the exit code: the report on disk tells a    *)
(* failed gate from a pause for quota.                                     *)
Classified(st) ==
  CASE st \in {"r1", "r2"} -> ReportStatus(rep[SlotOf(st)])
    [] st = "reproducibility" -> {IF kind = "closure" THEN "none" ELSE "NO_GO"}
    [] st = "n30" -> IF cand = None \/ cand.s.done THEN {"PASSED"} ELSE {"WAITING_QUOTA", "none"}
    [] st = "admission" -> {"NO_GO"}
    [] st = "offline" -> {"none"}
Return(i) ==
  /\ camp.pc = "exit" /\ camp.of = Stages[i] /\ ~Running
  /\ IF camp.rc
     THEN Save(Marked(i, "PASSED")) /\ camp' = [pc |-> "next", rc |-> FALSE]
     ELSE \E v \in Classified(Stages[i]) :
       \/ v = "NO_GO" /\ IF i = 2 /\ kind = "closure"
                         THEN /\ Save(Ended(i, "NO_GO"))
                              /\ camp' = [pc |-> "next", rc |-> FALSE]
                         ELSE NoGo(i)
       \/ v = "WAITING_QUOTA" /\ Save(Ended(i, "WAITING_QUOTA")) /\ camp' = Off
       \/ v \in {"none", "PASSED"} /\ Save(Ended(i, "FAILED")) /\ camp' = Off
  /\ UNCHANGED vars

\* Mutant: a stage that has not failed is taken for one that has passed.
ReadyUnlessFailed ==
  /\ camp.pc = "next" /\ \A i \in DOMAIN Stages : state.stage[i] # "NO_GO"
  /\ Save([state EXCEPT !.status = "READY_TO_PROMOTE"]) /\ camp' = Off
  /\ UNCHANGED vars

Ready ==
  /\ camp.pc = "next" /\ \A i \in DOMAIN Stages : state.stage[i] = "PASSED"
  /\ Save([state EXCEPT !.status = "READY_TO_PROMOTE"]) /\ camp' = Off
  /\ UNCHANGED vars

CampaignCrash ==
  /\ camp.pc # "off" /\ Fault
  /\ camp' = Off
  /\ UNCHANGED <<kind, code, sentinel, evidence, protected, promo, state>>

Orchestrate ==
  \/ \E restart \in BOOLEAN : Launch(restart)
  \/ \E i \in DOMAIN Stages : Reuse(i) \/ RunCommand(i) \/ Return(i)
  \/ SentinelsFailed \/ RunStage \/ Ready \/ CampaignCrash

Next ==
  \/ Orchestrate
  \/ Scripts /\ UNCHANGED campaign
  \/ Deploy /\ camp.pc = "off" /\ UNCHANGED campaign

Spec == CInit /\ [][Next]_<<vars, campaign>>

(* A campaign that declares its candidate ready has one, and has vetted    *)
(* the code it pinned: the candidate and the replicates behind it are of   *)
(* the manifest's code, however often the campaign was killed, resumed or  *)
(* started anew, and whichever reports it found on disk.                   *)
ReadyIsPinned ==
  [][(state' # state /\ state'.status = "READY_TO_PROMOTE") =>
       /\ cand # None
       /\ cand.basis.codes = {state'.man.code}
       /\ cand.bind[1] = state'.man.code]_<<vars, campaign>>
=============================================================================
