------------------------------ MODULE Campaign ------------------------------
(***************************************************************************)
(* The ledger-bounded evaluation campaigns: run_bilingual_evaluation_      *)
(* campaign.py and run_evidence_contract_v3_campaign.py over the request   *)
(* ledger of one campaign (request_ledger.py) and the budget ledger that   *)
(* the bilingual campaigns share (provider_budget.py).                     *)
(*                                                                         *)
(* Everything but proc is on disk and survives a crash.  A ledger is kept  *)
(* as the outcomes of the attempts of each operation: a reserved row       *)
(* without a terminal row is "reserved", its terminal row replaces it.     *)
(***************************************************************************)
EXTENDS Naturals, Sequences, FiniteSets, SequencesExt

CONSTANTS
  Procs,        \* operator processes that run a campaign script
  Bilingual,    \* campaign ids of the bilingual script
  EvidenceV3,   \* campaign ids of the evidence-contract script
  Cases,        \* number of sentinel cases
  Limit,        \* request slots of one campaign ledger
  RoundLimit,   \* request slots of the shared budget ledger
  Prompts,      \* versions of the prompts the deployed code can have
  MaxStarts,    \* bound on process starts
  MaxCrashes    \* bound on kills and interrupts

ASSUME CampaignAssumption ==
  /\ Bilingual \cap EvidenceV3 = {}
  /\ Cases \in Nat \ {0} /\ Limit \in Nat \ {0} /\ RoundLimit \in Nat \ {0}
  /\ Prompts \in Nat \ {0} /\ MaxStarts \in Nat /\ MaxCrashes \in Nat

VARIABLES
  att,      \* request ledger: outcomes of the attempts of an operation
  req,      \* request ledger: prompt version its request hash stands for
  resp,     \* request ledger: response of the completed row
  lock,     \* campaign ledgers whose lock file exists
  round,    \* budget ledger: outcomes of the attempts of an operation
  roundLock,\* its lock file exists
  torn,     \* ledgers whose last line was cut off by a crash
  cal,      \* calibration file of a campaign
  rec,      \* checkpoint rows of an operation, in order
  status,   \* status file of a campaign
  proc,     \* state of each process
  prompt,   \* prompt version of the deployed code
  sent,     \* requests that reached the provider, per operation
  starts, crashes

vars == <<att, req, resp, lock, round, roundLock, torn, cal, rec, status,
          proc, prompt, sent, starts, crashes>>
ledger == <<att, req, resp>>
files == <<cal, rec, status>>
bounds == <<prompt, starts, crashes>>

Campaigns == Bilingual \cup EvidenceV3
Round == "round"                        \* names the budget ledger in torn

(* One round of calibration stands for the two; the cases of the two       *)
(* replicates are numbered through.                                        *)
Calibration == <<"calibration", 0>>
Stage(kind) == [q \in 1..Cases |-> <<kind, q>>]
Program(c) == <<Calibration>> \o Stage("generation") \o Stage("judge")
              \o (IF c \in EvidenceV3 THEN Stage("legacy") ELSE << >>)
Correction(o) == <<"correction", o[2]>>
Ops == {Calibration} \cup
       ({"generation", "judge", "legacy", "correction"} \X (1..Cases))

Outcomes == {"reserved", "retryable", "fatal", "completed"}
Idle == [pc |-> "idle"]
Live(c, v) == [pc |-> "next", c |-> c, at |-> 1, op |-> Calibration,
               mem |-> {}, prompt |-> v, out |-> "none"]

(* used: the rows of a ledger that reserve a slot.                         *)
Used(c) == Cardinality(UNION {{o} \X DOMAIN att[c][o] : o \in Ops})
RoundUsedFinished == \* mutant: only the completed requests of a round are counted
  Cardinality({x \in Bilingual \X Ops : Contains(round[x[1]][x[2]], "completed")})
RoundUsed == Cardinality(UNION {{x} \X DOMAIN round[x[1]][x[2]] :
                                  x \in Bilingual \X Ops})
Completed(c, o) == Contains(att[c][o], "completed")

Init ==
  /\ att = [c \in Campaigns |-> [o \in Ops |-> << >>]]
  /\ req = [c \in Campaigns |-> [o \in Ops |-> 0]]
  /\ resp = [c \in Campaigns |-> [o \in Ops |-> "none"]]
  /\ lock = {}
  /\ round = [c \in Bilingual |-> [o \in Ops |-> << >>]]
  /\ roundLock = FALSE
  /\ torn = {}
  /\ cal = [c \in Campaigns |-> "none"]
  /\ rec = [c \in Campaigns |-> [o \in Ops |-> << >>]]
  /\ status = [c \in Campaigns |-> "none"]
  /\ proc = [p \in Procs |-> Idle]
  /\ prompt = 1
  /\ sent = [c \in Campaigns |-> [o \in Ops |-> 0]]
  /\ starts = 0 /\ crashes = 0

(***************************************************************************)
(* Starting a script.                                                      *)
(***************************************************************************)
(* main of both scripts: the manifest, checked first, does not cover the   *)
(* prompts; a status of INCOMPLETE refuses the start; an unreadable ledger *)
(* raises outside the try, so the process ends without a trace.            *)
BilingualStarts(c) == status[c] # "INCOMPLETE" /\ torn \cap {c, Round} = {}
EvidenceStarts(c) == status[c] # "INCOMPLETE" /\ c \notin torn

Start(p, c) ==
  /\ proc[p].pc = "idle" /\ starts < MaxStarts
  /\ IF c \in Bilingual THEN BilingualStarts(c) ELSE EvidenceStarts(c)
  /\ proc' = [proc EXCEPT ![p] = Live(c, prompt)]
  /\ starts' = starts + 1
  /\ UNCHANGED <<ledger, lock, round, roundLock, torn, files, prompt, sent,
                 crashes>>

(* A deployment changes the prompts of processes started later.            *)
Deploy ==
  /\ prompt < Prompts
  /\ prompt' = prompt + 1
  /\ UNCHANGED <<ledger, lock, round, roundLock, torn, files, proc, sent,
                 starts, crashes>>

Goto(p, pc) == proc' = [proc EXCEPT ![p].pc = pc]

(* CampaignIncomplete is caught by main, unless it was raised under the    *)
(* correction of a draft: correct_answer_once wraps it into an             *)
(* AnswerCompletionError, which main does not catch.                       *)
Raised(r) == IF r.op[1] = "correction" THEN Idle ELSE [r EXCEPT !.pc = "incomplete"]
Raise(p) == proc' = [proc EXCEPT ![p] = Raised(@)]

(* _read_checkpoint with _assert_checkpoint_ledger, and _read_partial.      *)
UnbackedRow(c, o) == Len(rec[c][o]) > 1 \/ ~Completed(c, o)
RepeatedRow(c, o) == Len(rec[c][o]) > 1

(* When a replicate starts, memory takes the cases found on disk.          *)
ReadCheckpoint(p) ==
  LET c == proc[p].c
      rows == {o \in Ops : rec[c][o] # << >>}
  IN  /\ proc[p].pc = "load"
      /\ IF \E o \in rows : IF c \in Bilingual THEN UnbackedRow(c, o)
                            ELSE RepeatedRow(c, o)
         THEN Raise(p)
         ELSE proc' = [proc EXCEPT ![p].pc = "next", ![p].mem = rows]
      /\ UNCHANGED <<ledger, lock, round, roundLock, torn, files, bounds, sent>>

Finished(p) == proc[p].at > Len(Program(proc[p].c))

(* A stage that needs no request: the calibration file of a bilingual      *)
(* campaign is taken as it is, whether it passed or not, and a case in the *)
(* checkpoint is skipped; the evidence campaign refuses a generation whose *)
(* binding, which covers the prompt, is not the current one.               *)
Kept(c, o) == c \in Bilingual /\ o = Calibration /\ cal[c] # "none"
Foreign(c, o, v) == /\ c \in EvidenceV3 /\ o[1] = "generation"
                    /\ rec[c][o][1] # v
Skip(p) ==
  LET c == proc[p].c
      o == Program(c)[proc[p].at]
      kept == Kept(c, o)
  IN  /\ proc[p].pc = "next" /\ ~Finished(p)
      /\ kept \/ o \in proc[p].mem
      /\ IF ~kept /\ Foreign(c, o, proc[p].prompt) THEN Raise(p)
         ELSE proc' = [proc EXCEPT ![p].at = @ + 1,
                                   ![p].pc = IF kept THEN "load" ELSE "next"]
      /\ UNCHANGED <<ledger, lock, round, roundLock, torn, files, bounds, sent>>

(***************************************************************************)
(* RequestLedger.call.                                                     *)
(***************************************************************************)
(* _bounded_call stands in front of the requests of a bilingual campaign   *)
(* that are not corrections: without a slot left it refuses even a stored  *)
(* response.  Then the lock file is created, or found.                     *)
NoSlot(p) == LET c == proc[p].c IN
  c \in Bilingual /\ proc[p].pc = "next" /\ Used(c) >= Limit
Request(p) ==
  LET c == proc[p].c
      o == IF proc[p].pc = "correct" THEN proc[p].op ELSE Program(c)[proc[p].at]
      asked == [proc[p] EXCEPT !.op = o, !.pc = "decide"]
  IN  /\ \/ proc[p].pc = "correct"
         \/ /\ proc[p].pc = "next" /\ ~Finished(p)
            /\ o \notin proc[p].mem
            /\ ~Kept(c, o)
      /\ IF \/ NoSlot(p)
            \/ c \in lock
         THEN /\ proc' = [proc EXCEPT ![p] = Raised(asked)]
              /\ UNCHANGED lock
         ELSE /\ proc' = [proc EXCEPT ![p] = asked]
              /\ lock' = lock \cup {c}
      /\ UNCHANGED <<ledger, round, roundLock, torn, files, bounds, sent>>

Unlock(c) == lock' = lock \ {c}

(* _call_locked up to the reservation: what the ledger already says of the *)
(* operation decides.                                                      *)
RefusedKnown(c, o, v) == \* mutant: a reservation without a result is retried
  LET a == att[c][o] IN
  \/ a # << >> /\ req[c][o] # v
  \/ /\ ~Completed(c, o)
     /\ \/ a # << >> /\ (Last(a) = "fatal" \/ Len(a) >= 2)
        \/ Used(c) >= Limit
Refused(c, o, v) ==
  LET a == att[c][o] IN
  \/ a # << >> /\ req[c][o] # v
  \/ /\ ~Completed(c, o)
     /\ \/ Contains(a, "reserved")
        \/ a # << >> /\ (Last(a) = "fatal" \/ Len(a) >= 2)
        \/ Used(c) >= Limit

Return(p, c) == Goto(p, "store") /\ Unlock(c)

Decide(p) ==
  LET c == proc[p].c
      o == proc[p].op
  IN  /\ proc[p].pc = "decide"
      /\ \/ /\ c \in torn \/ Refused(c, o, proc[p].prompt)
            /\ Raise(p) /\ Unlock(c) /\ UNCHANGED <<ledger, torn>>
         \/ /\ c \notin torn /\ ~Refused(c, o, proc[p].prompt)
            /\ Completed(c, o)
            /\ Return(p, c) /\ UNCHANGED <<ledger, torn>>
         \/ /\ c \notin torn /\ ~Refused(c, o, proc[p].prompt)
            /\ ~Completed(c, o)
            /\ att' = [att EXCEPT ![c][o] = Append(@, "reserved")]
            /\ req' = [req EXCEPT ![c][o] = proc[p].prompt]
            /\ Goto(p, IF c \in Bilingual THEN "round" ELSE "send")
            /\ UNCHANGED <<resp, lock, torn>>
      /\ UNCHANGED <<round, roundLock, files, bounds, sent>>

(***************************************************************************)
(* ProviderBudgetLedger.call around the request: reserve and finish each   *)
(* take the lock file anew, and a failure of either is a non-retryable     *)
(* error of the request it surrounds.                                      *)
(***************************************************************************)
RoundTake(p) ==
  /\ proc[p].pc \in {"round", "settle"}
  /\ IF roundLock
     THEN /\ proc' = [proc EXCEPT ![p].pc = "record", ![p].out = "fatal"]
          /\ UNCHANGED roundLock
     ELSE /\ Goto(p, IF proc[p].pc = "round" THEN "reserve" ELSE "finish")
          /\ roundLock' = TRUE
  /\ UNCHANGED <<ledger, lock, round, torn, files, bounds, sent>>

RoundRefused(c, o) ==
  \/ \E i \in DOMAIN round[c][o] : round[c][o][i] # "error"
  \/ RoundUsed >= RoundLimit

RoundReserve(p) ==
  LET c == proc[p].c
      o == proc[p].op
  IN  /\ proc[p].pc = "reserve"
      /\ IF Round \in torn \/ RoundRefused(c, o)
         THEN /\ proc' = [proc EXCEPT ![p].pc = "record", ![p].out = "fatal"]
              /\ UNCHANGED round
         ELSE /\ round' = [round EXCEPT ![c][o] = Append(@, "reserved")]
              /\ Goto(p, "send")
      /\ roundLock' = FALSE
      /\ UNCHANGED <<ledger, lock, torn, files, bounds, sent>>

Settle(s, e) == [s EXCEPT ![Len(s)] = e]

RoundFinish(p) ==
  LET c == proc[p].c
      o == proc[p].op
      e == IF proc[p].out \in {"good", "bad"} THEN "completed" ELSE "error"
  IN  /\ proc[p].pc = "finish"
      /\ IF Round \in torn
         THEN proc' = [proc EXCEPT ![p].pc = "record", ![p].out = "fatal"]
              /\ UNCHANGED round
         ELSE /\ round' = [round EXCEPT ![c][o] = Settle(@, e)]
              /\ Goto(p, "record")
      /\ roundLock' = FALSE
      /\ UNCHANGED <<ledger, lock, torn, files, bounds, sent>>

(* The provider: an answer or scores that will pass or fail what is asked  *)
(* of them, a transport error worth a retry, or any other error.           *)
BilingualSend(r) == [r EXCEPT !.pc = "settle"]
EvidenceSend(r) == [r EXCEPT !.pc = "record"]
Send(p) ==
  LET c == proc[p].c IN
  /\ proc[p].pc = "send"
  /\ \E o \in {"good", "bad", "retryable", "fatal"} :
       LET r == [proc[p] EXCEPT !.out = o] IN
       proc' = [proc EXCEPT ![p] = IF c \in Bilingual THEN BilingualSend(r)
                                   ELSE EvidenceSend(r)]
  /\ sent' = [sent EXCEPT ![c][proc[p].op] = @ + 1]
  /\ UNCHANGED <<ledger, lock, round, roundLock, torn, files, bounds>>

(* The rest of _call_locked: the terminal row, then return, retry or raise. *)
Record(p) ==
  LET c == proc[p].c
      o == proc[p].op
      ok == proc[p].out \in {"good", "bad"}
  IN  /\ proc[p].pc = "record"
      /\ att' = [att EXCEPT ![c][o] =
                   Settle(@, IF ok THEN "completed" ELSE proc[p].out)]
      /\ resp' = [resp EXCEPT ![c][o] = IF ok THEN proc[p].out ELSE @]
      /\ \/ ok /\ Return(p, c)
         \/ /\ proc[p].out = "retryable" /\ Len(att[c][o]) = 1
            /\ Goto(p, "decide") /\ UNCHANGED lock
         \/ /\ ~ok /\ (proc[p].out = "fatal" \/ Len(att[c][o]) = 2)
            /\ Raise(p) /\ Unlock(c)
      /\ UNCHANGED <<req, round, roundLock, torn, files, bounds, sent>>

(***************************************************************************)
(* What a script does with a response, and how it ends.                    *)
(***************************************************************************)
NextStage(p, pc) == proc' = [proc EXCEPT ![p].at = @ + 1, ![p].pc = pc]

(* _run_replicate of the bilingual script: a draft that needs a correction *)
(* asks for it first; the answer, or the scores, go to the checkpoint.     *)
StoreBilingual(p) ==
  LET c == proc[p].c
      o == proc[p].op
      q == IF o[1] = "correction" THEN <<"generation", o[2]>> ELSE o
  IN  /\ proc[p].pc = "store" /\ o # Calibration /\ c \in Bilingual
      /\ IF o[1] = "generation" /\ resp[c][o] = "bad"
         THEN /\ proc' = [proc EXCEPT ![p].op = Correction(o), ![p].pc = "correct"]
              /\ UNCHANGED rec
         ELSE /\ NextStage(p, "next")
              /\ rec' = [rec EXCEPT ![c][q] = Append(@, proc[p].prompt)]
      /\ UNCHANGED <<ledger, lock, round, roundLock, torn, cal, status, bounds,
                     sent>>

(* _run_replicate of the evidence script, whose deterministic answers need *)
(* no second request, and _run_legacy_comparison, which keeps no checkpoint. *)
StoreEvidence(p) ==
  LET c == proc[p].c
      o == proc[p].op
  IN  /\ proc[p].pc = "store" /\ o # Calibration /\ c \in EvidenceV3
      /\ o[1] # "legacy"
      /\ NextStage(p, "next")
      /\ rec' = [rec EXCEPT ![c][o] = Append(@, proc[p].prompt)]
      /\ UNCHANGED <<ledger, lock, round, roundLock, torn, cal, status, bounds,
                     sent>>
StoreLegacy(p) ==
  /\ proc[p].pc = "store" /\ proc[p].op[1] = "legacy"
  /\ NextStage(p, "next")
  /\ UNCHANGED <<ledger, lock, round, roundLock, torn, files, bounds, sent>>

(* _run_calibration: a failure ends a bilingual campaign as incomplete and *)
(* an evidence campaign as a semantic failure.                             *)
Calibrated(c) == resp[c][Calibration] = "good"
StoreCalibration(p) ==
  LET c == proc[p].c IN
  /\ proc[p].pc = "store" /\ proc[p].op = Calibration
  /\ cal' = [cal EXCEPT ![c] = IF Calibrated(c) THEN "passed" ELSE "failed"]
  /\ IF Calibrated(c) THEN NextStage(p, "load")
     ELSE Goto(p, IF c \in Bilingual THEN "incomplete" ELSE "failed")
  /\ UNCHANGED <<ledger, lock, round, roundLock, torn, rec, status, bounds, sent>>

(* The gates of a replicate: every score at its floor.                     *)
Scored(c) == \A q \in 1..Cases : resp[c][<<"judge", q>>] = "good"
(* main, after the last stage: the decision needs the calibration, the     *)
(* replicates and, for the evidence campaign, the audits of the reports.   *)
BilingualGo(c) == cal[c] = "passed" /\ Scored(c) /\ Used(c) <= Limit
EvidenceGo(c, audits) == Scored(c) /\ audits /\ Used(c) <= Limit
Finish(p) ==
  LET c == proc[p].c IN
  /\ proc[p].pc = "next" /\ Finished(p)
  /\ \E audits \in BOOLEAN :
       status' = [status EXCEPT ![c] =
         IF IF c \in Bilingual THEN BilingualGo(c) ELSE EvidenceGo(c, audits)
         THEN "GO" ELSE "NO-GO"]
  /\ proc' = [proc EXCEPT ![p] = Idle]
  /\ UNCHANGED <<ledger, lock, round, roundLock, torn, cal, rec, bounds, sent>>

(* The except clauses of main.                                             *)
WriteFailure(p) ==
  /\ proc[p].pc \in {"incomplete", "failed"}
  /\ status' = [status EXCEPT ![proc[p].c] =
                  IF proc[p].pc = "failed" THEN "NO-GO" ELSE "INCOMPLETE"]
  /\ proc' = [proc EXCEPT ![p] = Idle]
  /\ UNCHANGED <<ledger, lock, round, roundLock, torn, cal, rec, bounds, sent>>

(***************************************************************************)
(* Faults.                                                                 *)
(***************************************************************************)
HoldsLock(p) == proc[p].pc \in {"decide", "round", "reserve", "send", "settle",
                                "finish", "record"}
HoldsRound(p) == proc[p].pc \in {"reserve", "finish"}

(* A kill leaves the lock files and may cut off the line being appended.   *)
Crash(p) ==
  LET at == proc[p].pc
      open == IF at \in {"decide", "record"} THEN {proc[p].c}
              ELSE IF HoldsRound(p) THEN {Round} ELSE {}
  IN  /\ at # "idle" /\ crashes < MaxCrashes
      /\ \E t \in {{}, open} : torn' = torn \cup t
      /\ proc' = [proc EXCEPT ![p] = Idle]
      /\ crashes' = crashes + 1
      /\ UNCHANGED <<ledger, lock, round, roundLock, files, prompt, sent, starts>>

(* An interrupt is no Exception: no row is written, the finally clauses    *)
(* remove the lock files.                                                  *)
Interrupt(p) ==
  /\ proc[p].pc # "idle" /\ crashes < MaxCrashes
  /\ lock' = IF HoldsLock(p) THEN lock \ {proc[p].c} ELSE lock
  /\ roundLock' = (roundLock /\ ~HoldsRound(p))
  /\ proc' = [proc EXCEPT ![p] = Idle]
  /\ crashes' = crashes + 1
  /\ UNCHANGED <<ledger, round, torn, files, prompt, sent, starts>>

(* "inspect the previous writer before resuming": an operator removes a    *)
(* lock file whose writer is gone.                                         *)
RemoveLock ==
  /\ \/ \E c \in lock :
          /\ \A p \in Procs : HoldsLock(p) => proc[p].c # c
          /\ lock' = lock \ {c} /\ UNCHANGED roundLock
     \/ /\ roundLock /\ \A p \in Procs : ~HoldsRound(p)
        /\ roundLock' = FALSE /\ UNCHANGED lock
  /\ UNCHANGED <<ledger, round, torn, files, proc, bounds, sent>>

Step(p) ==
  \/ ReadCheckpoint(p) \/ Skip(p) \/ Request(p) \/ Decide(p)
  \/ RoundTake(p) \/ RoundReserve(p) \/ RoundFinish(p) \/ Send(p) \/ Record(p)
  \/ StoreBilingual(p) \/ StoreEvidence(p) \/ StoreLegacy(p)
  \/ StoreCalibration(p) \/ Finish(p) \/ WriteFailure(p)

Next ==
  \/ \E p \in Procs : \/ Step(p) \/ Crash(p) \/ Interrupt(p)
                       \/ \E c \in Campaigns : Start(p, c)
  \/ Deploy \/ RemoveLock

Symmetry == Permutations(Procs) \cup Permutations(Bilingual)

Spec == Init /\ [][Next]_vars

(***************************************************************************)
(* Properties.                                                             *)
(***************************************************************************)
(* "Resume never reissues an operation whose transport outcome is          *)
(* unknown": a request goes out only when every earlier attempt of its     *)
(* operation has a recorded transport error, whatever crashed before.      *)
NeverReissued ==
  [][\A c \in Campaigns, o \in Ops :
       sent'[c][o] > sent[c][o] =>
         \A i \in 1..(Len(att[c][o]) - 1) : att[c][o][i] = "retryable"]_vars

(* Requests that reached the provider never exceed the slots of the        *)
(* campaign, nor, for all the campaigns of a round together, the budget of *)
(* the round, over any number of crashes and restarts.                     *)
Sends(C) == UNION {{x} \X (1..sent[x[1]][x[2]]) : x \in C \X Ops}
SpendIsBounded ==
  /\ \A c \in Campaigns : Cardinality(Sends({c})) <= Limit
  /\ Cardinality(Sends(Bilingual)) <= RoundLimit

(* A decision of GO rests on completed requests alone, all of one prompt   *)
(* version for an evidence campaign: what the checkpoints hold was answered*)
(* by the provider, and the calibration passed.                            *)
GoIsEarned ==
  \A c \in Campaigns : status[c] = "GO" =>
    /\ cal[c] = "passed"
    /\ \A i \in DOMAIN Program(c) : Completed(c, Program(c)[i])
    /\ c \in EvidenceV3 =>
         Cardinality({req[c][Program(c)[i]] : i \in DOMAIN Program(c)}) = 1

(* What the files of a campaign say of its requests is true: they count    *)
(* the ones that were sent, and a decision rests on their answers.         *)
LedgerIsTrue == SpendIsBounded /\ GoIsEarned
=============================================================================
