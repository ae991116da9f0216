------------------------------ MODULE Release -------------------------------
(***************************************************************************)
(* From a sentinel run to the official result: the sentinel scripts, the   *)
(* reproducibility audits, the Phase 2 run of a candidate, its admission   *)
(* audit and promote_phase2_result.py.  Every script reads and writes      *)
(* files; only an audit in progress, the reports a script has still to     *)
(* write and the promoters are in memory.  The digest of a file is the     *)
(* file's content here: equal digests, equal contents.                     *)
(*                                                                         *)
(* kind, the script that vets the candidate's strategy, is chosen once.    *)
(***************************************************************************)
EXTENDS Sentinels, Sequences

CONSTANTS
  Promoters,     \* processes that run promote_phase2_result.py
  Vetting,       \* the kinds to explore
  Raced,         \* the kinds explored with several candidates and promotions;
                 \* the others get one of each
  Codes,         \* versions of the deployed code
  MaxSentinels,  \* bound on runs of the sentinel script
  MaxCandidates, \* bound on Phase 2 runs of a kind in Raced
  MaxPromotions, \* bound on calls of promote_phase2_result.py for it
  MaxFaults      \* bound on kills and deployments together

ASSUME ReleaseAssumption ==
  /\ Codes \in Nat \ {0} /\ MaxSentinels \in Nat /\ MaxPromotions \in Nat
  /\ MaxCandidates \in Nat /\ MaxFaults \in Nat
  /\ Raced \subseteq Vetting /\ Vetting \subseteq Kinds

VARIABLES
  kind, code,
  ckpt,      \* the checkpoints of a replicate
  rep,       \* the report of a replicate
  pend,      \* the reports its script has still to write
  repro,     \* the reproducibility report
  cand,      \* the candidate result
  audit,     \* the inputs that a running admission audit has read
  adm,       \* the admission report
  official,  \* the official result
  archive,   \* preserved results, whole or cut off by a crash
  promotions,\* history: what became official, over what, and what it was
             \* promoted against
  promo,     \* the promoters
  count      \* runs so far, for the bounds

vars == <<kind, code, ckpt, rep, pend, repro, cand, audit, adm, official,
          archive, promotions, promo, count>>
sentinel == <<ckpt, rep, pend>>
evidence == <<repro, cand, audit, adm>>
protected == <<official, archive, promotions>>

Slots == {1, 2}                              \* the replicates r1 and r2
None == [none |-> TRUE]
Empty == [s |-> None, code |-> 0, codes |-> {}, exact |-> TRUE]
Idle == [pc |-> "idle"]
(* The protected result every sentinel compares with.                      *)
Original == [s |-> [Perfect EXCEPT !.case = OfficialCases], strat |-> "v2",
             bind |-> <<0, FALSE>>, prev |-> None]

Init ==
  /\ kind \in Vetting /\ code = 1
  /\ ckpt = [x \in Slots |-> Empty]
  /\ rep = [x \in Slots |-> None] /\ pend = [x \in Slots |-> << >>]
  /\ repro = None /\ cand = None /\ audit = None /\ adm = None
  /\ official = Original /\ archive = {} /\ promotions = {}
  /\ promo = [p \in Promoters |-> Idle]
  /\ count = [sentinel |-> 0, cand |-> 0, promo |-> 0, fault |-> 0]

Bump(x, n) == count[x] < n /\ count' = [count EXCEPT ![x] = @ + 1]
Bound(n) == IF kind \in Raced THEN n ELSE 1
Fault == Bump("fault", MaxFaults)

(***************************************************************************)
(* Sentinels.                                                              *)
(***************************************************************************)
(* What any passing replicate owes: a complete run, citations in range,    *)
(* fallbacks where they belong, and mean scores at the lowest floors.      *)
Sound(s) == s.done /\ Every(s, {"cite", "fallback"}) /\ MeanFloors(s, 190, 180, 0)

Scoped == {"scope13", "scope14", "closure"}
(* require_reproducibility_report: v2 and v5 need no replicates.           *)
Vetted(k) == Strategy(k) \in {"v2", "v5"}
(* One summary for every verdict that the scripts can tell apart.          *)
Unsigned == {"context_precision", "enumeration_context", "enumeration_answer", "grounded"}
Verdict(k, s) ==
  <<BasePassed(k, s, OfficialCases, TRUE, TRUE), s.done, k \in Unsigned \/ s.sig = 1,
    Vetted(k) \/ Sound(s), k \in Scoped => ScopeGate(s, k), k = "closure" => ClosureGate(s)>>
Inputs == [k \in Kinds \ {"default"} |->
             LET V == {Verdict(k, s) : s \in Summaries}
             IN  {CHOOSE s \in Summaries : Verdict(k, s) = v : v \in V}]

Report(x, s, ck, name, ok) ==
  [slot |-> x, audit |-> name, passed |-> ok, done |-> s.done, code |-> ck.code,
   one |-> ck.codes = {ck.code}, ck |-> ck, sig |-> s.sig, sound |-> Sound(s)]
(* The reports that a script writes, in turn: the answer-scope scripts     *)
(* write the report of the script they extend, then their own over it.     *)
Reports(x, s, ck) ==
  LET one == ck.codes = {ck.code}
      base == BasePassed(kind, s, OfficialCases, one, ck.exact)
      scoped == base /\ ScopeGate(s, kind)
  IN  <<Report(x, s, ck, "base", base)>> \o
      (IF kind \in Scoped THEN <<Report(x, s, ck, "scope", scoped)>> ELSE << >>) \o
      (IF kind = "closure"
       THEN <<Report(x, s, ck, "closure", scoped /\ ClosureGate(s))>> ELSE << >>)

(* run of a sentinel script: rows of the current binding are taken from    *)
(* the checkpoint, the others asked for; the reference is read last.  A    *)
(* run that is not complete leaves rows that a later one adds to.          *)
Resumable(ck) == ck.s # None /\ ck.s.done /\ ck.code = code
Rows(ck, s) == [s |-> s, code |-> code, codes |-> ck.codes \cup {code},
                exact |-> /\ ck.exact /\ ck.codes \subseteq {code}
                          /\ ck.s = None \/ ck.s.done]
Sentinel(x, fresh, missing) ==
  LET ck == IF fresh THEN Empty ELSE ckpt[x]
      old == IF fresh THEN None ELSE rep[x]
  IN  /\ pend[x] = << >>
      /\ Bump("sentinel", MaxSentinels)
      /\ \E s \in IF Resumable(ck) THEN {ck.s} ELSE Inputs[kind] :
           LET new == Rows(ck, s)
               out == Reports(x, s, new)
           IN  /\ ckpt' = [ckpt EXCEPT ![x] = new]
               /\ rep' = [rep EXCEPT ![x] = IF missing THEN old ELSE out[1]]
               /\ pend' = [pend EXCEPT ![x] = IF missing THEN << >> ELSE Tail(out)]
      /\ UNCHANGED <<kind, code, evidence, protected, promo>>

(* The reference that each script reads: any official v2 result, the       *)
(* official result of a pinned digest, or a file of its own.               *)
Moved == official # Original
ContextPrecisionSentinel(x, fresh) ==
  kind = "context_precision" /\ Sentinel(x, fresh, official.strat # "v2")
EnumerationContextSentinel(x, fresh) ==
  kind = "enumeration_context" /\ Sentinel(x, fresh, Moved)
EnumerationAnswerSentinel(x, fresh) ==
  kind = "enumeration_answer" /\ Sentinel(x, fresh, Moved)
GroundedSentinel(x) ==
  kind = "grounded" /\ Sentinel(x, FALSE, official.strat # "v2")
FactEvidenceSentinel(x, fresh) ==
  kind = "fact_evidence" /\ Sentinel(x, fresh, Moved)
Priority2Sentinel(x, fresh) ==
  kind = "priority2" /\ Sentinel(x, fresh, Moved)
Priority3Sentinel(x, fresh) ==
  kind = "priority3" /\ Sentinel(x, fresh, FALSE)
AnswerabilitySentinel(x, fresh) ==
  kind = "answerability" /\ Sentinel(x, fresh, Moved)
StabilitySentinel(x, fresh) ==
  kind = "focus" /\ Sentinel(x, fresh, Moved)
ScopeSentinel(x, fresh) ==
  kind \in {"scope13", "scope14"} /\ Sentinel(x, fresh, Moved)
ClosureSentinel(x, fresh) ==
  kind = "closure" /\ Sentinel(x, fresh, Moved)
AnySentinel(x, fresh) ==
  \/ ContextPrecisionSentinel(x, fresh) \/ EnumerationContextSentinel(x, fresh)
  \/ EnumerationAnswerSentinel(x, fresh) \/ (~fresh /\ GroundedSentinel(x))
  \/ FactEvidenceSentinel(x, fresh) \/ Priority2Sentinel(x, fresh)
  \/ Priority3Sentinel(x, fresh) \/ AnswerabilitySentinel(x, fresh)
  \/ StabilitySentinel(x, fresh) \/ ScopeSentinel(x, fresh)
  \/ ClosureSentinel(x, fresh)

WriteReport(x) ==
  /\ pend[x] # << >>
  /\ rep' = [rep EXCEPT ![x] = Head(pend[x])]
  /\ pend' = [pend EXCEPT ![x] = Tail(@)]
  /\ UNCHANGED <<kind, code, ckpt, evidence, protected, promo, count>>

(* A kill between two requests leaves some rows; one between two writes of *)
(* the report leaves the first.                                            *)
SentinelCrash(x) ==
  /\ kind # "default" /\ Fault
  /\ \/ /\ pend[x] = << >> /\ ~Resumable(ckpt[x])
        /\ ckpt' = [ckpt EXCEPT ![x] = Rows(@, None)]
        /\ UNCHANGED pend
     \/ /\ pend[x] # << >>
        /\ pend' = [pend EXCEPT ![x] = << >>]
        /\ UNCHANGED ckpt
  /\ UNCHANGED <<kind, code, rep, evidence, protected, promo>>

(***************************************************************************)
(* Reproducibility audits: build_report over two report files.             *)
(***************************************************************************)
Complete(a) == a.passed /\ a.done
\* Mutant: one report may stand for both replicates.
TwiceOne(a, b) == Complete(a) /\ Complete(b) /\ a.code = b.code
Twice(a, b) == Complete(a) /\ Complete(b) /\ a.slot # b.slot /\ a.code = b.code
Intact(a) == a.one /\ a.ck = ckpt[a.slot]
Current(a, b) == a.code = code /\ b.code = code

ContextReproduced(a, b) == Twice(a, b)
EnumerationReproduced(a, b) == Twice(a, b) /\ {a.audit, b.audit} = {"base"}
GroundedReproduced(a, b) == Twice(a, b) /\ {a.audit, b.audit} = {"base"}
FactReproduced(a, b) ==
  Twice(a, b) /\ Current(a, b) /\ a.sig = b.sig /\ Intact(a) /\ Intact(b)
Priority2Reproduced(a, b) == FactReproduced(a, b)
Priority3Reproduced(a, b) == FactReproduced(a, b)
FocusReproduced(a, b) ==
  Twice(a, b) /\ Current(a, b) /\ a.one /\ b.one /\ a.sig = b.sig
ScopeReproduced(a, b) ==
  Twice(a, b) /\ Current(a, b) /\ a.one /\ b.one /\ a.sig = b.sig
(* The renderer flags and fingerprints are only in a scoped report.        *)
RenderedReproduced(a, b) ==
  ScopeReproduced(a, b) /\ "base" \notin {a.audit, b.audit}
ClosureReproduced(a, b) ==
  RenderedReproduced(a, b) /\ {a.audit, b.audit} = {"closure"}
AnswerabilityReproduced(a, b) ==
  /\ Twice(a, b) /\ Current(a, b) /\ a.sig = b.sig
  /\ \A r \in {a, b} : r.one /\ ckpt[r.slot].exact /\ ckpt[r.slot] = r.ck

Reproduced(a, b) ==
  CASE kind = "context_precision" -> ContextReproduced(a, b)
    [] kind \in {"enumeration_context", "enumeration_answer"} -> EnumerationReproduced(a, b)
    [] kind = "grounded" -> GroundedReproduced(a, b)
    [] kind = "fact_evidence" -> FactReproduced(a, b)
    [] kind = "priority2" -> Priority2Reproduced(a, b)
    [] kind = "priority3" -> Priority3Reproduced(a, b)
    [] kind = "focus" -> FocusReproduced(a, b)
    [] kind = "scope13" -> ScopeReproduced(a, b)
    [] kind = "scope14" -> RenderedReproduced(a, b)
    [] kind = "closure" -> ClosureReproduced(a, b)
    [] kind = "answerability" -> AnswerabilityReproduced(a, b)

(* The operator names two report files.  basis records the replicates that *)
(* a report rests on.                                                      *)
Reproduce(x, y) ==
  /\ rep[x] # None /\ rep[y] # None
  /\ repro' = [passed |-> Reproduced(rep[x], rep[y]),
               basis |-> [slots |-> {x, y}, codes |-> {rep[x].code, rep[y].code},
                          sound |-> rep[x].sound /\ rep[y].sound]]
  /\ UNCHANGED <<kind, code, sentinel, cand, audit, adm, protected, promo, count>>

(***************************************************************************)
(* The candidate and its admission.                                        *)
(***************************************************************************)
(* The audits of focus and closure are not in the list of admitted ones.   *)
Reproducible ==
  \/ Vetted(kind)
  \/ repro # None /\ repro.passed /\ kind \notin {"focus", "closure"}

(* The deterministic renderers are part of the binding of a generation.    *)
Binding(k) == <<code, k \in {"scope14", "closure"}>>
Means(s) == [x \in Metric |-> Mean(s.case, x)]
Gates(s, strat, b) ==
  /\ CaseIntegrity(s) /\ CompletionGate(s) /\ TargetGate(s)
  /\ AdmissionAnswerability(s) /\ AdmissionFactV2(s, strat)
  /\ NoRegression(s, b) /\ MetricGates(s, b)
CandidateInputs ==
  [k \in Kinds |->
     LET V(s) == <<s.done, Gates(s, Strategy(k), Original.s),
                   IF k \in Raced THEN Mean(s.case, "f") ELSE 0>>
     IN  {CHOOSE s \in Summaries : V(s) = v : v \in {V(s) : s \in Summaries}}]

RunPhase2 ==
  /\ Reproducible
  /\ Bump("cand", Bound(MaxCandidates))
  /\ \E s \in CandidateInputs[kind] :
       cand' = [s |-> s, bind |-> Binding(kind), strat |-> Strategy(kind),
                basis |-> IF Vetted(kind) THEN None ELSE repro.basis]
  /\ UNCHANGED <<kind, code, sentinel, repro, audit, adm, protected, promo>>

(* run of phase2_admission: both files are read first; their digests are   *)
(* taken when the report is put together.  The expected binding is computed*)
(* without a renderer profile, and v3 is no supported strategy.            *)
AdmissionRead ==
  /\ cand # None /\ audit = None
  /\ audit' = [c |-> cand, b |-> official, bind |-> <<code, FALSE>>]
  /\ UNCHANGED <<kind, code, sentinel, repro, cand, adm, protected, promo, count>>
Structure(c, bind) == c.s.done /\ c.bind = bind /\ c.strat # "v3"
Admitted(a) == Structure(a.c, a.bind) /\ Gates(a.c.s, a.c.strat, a.b.s)
AdmissionWrite ==
  /\ audit # None
  /\ adm' = [passed |-> Admitted(audit), c |-> cand, b |-> official,
             m |-> Means(audit.c.s), bm |-> Means(audit.b.s),
             bind |-> audit.bind, strat |-> audit.c.strat]
  /\ audit' = None
  /\ UNCHANGED <<kind, code, sentinel, repro, cand, protected, promo, count>>

(***************************************************************************)
(* promote_phase2_result.py.                                               *)
(***************************************************************************)
Step(p, r) == promo' = [promo EXCEPT ![p] = r]
Refuse(p) == Step(p, Idle)
Goto(p, pc) == Step(p, [promo[p] EXCEPT !.pc = pc])

(* The operator pins the digests of the three files.                       *)
Pin(p) ==
  /\ promo[p].pc = "idle" /\ cand # None /\ adm # None
  /\ Bump("promo", Bound(MaxPromotions))
  /\ Step(p, [pc |-> "digest", c |-> cand, a |-> adm, o |-> official, load |-> None])
  /\ UNCHANGED <<kind, code, sentinel, evidence, protected>>

RequireDigests(p) ==
  LET r == promo[p] IN
  /\ r.pc = "digest"
  /\ IF r.c = cand /\ r.a = adm /\ r.o = official THEN Goto(p, "load") ELSE Refuse(p)
  /\ UNCHANGED <<kind, code, sentinel, evidence, protected, count>>

(* _validate_contract over what is loaded now and the digests taken above. *)
Contract(r, c, a, o) ==
  /\ c.s.done /\ c.bind = r.c.bind /\ c.strat = r.c.strat
  /\ o.strat = r.o.strat
  /\ a.passed /\ a.c = r.c /\ a.b = r.o
  /\ a.bind = r.c.bind /\ a.strat = r.c.strat
  /\ a.m = Means(c.s) /\ a.bm = Means(o.s)
Load(p) ==
  /\ promo[p].pc = "load"
  /\ IF Contract(promo[p], cand, adm, official)
     THEN Step(p, [promo[p] EXCEPT !.pc = "preserve", !.load = cand])
     ELSE Refuse(p)
  /\ UNCHANGED <<kind, code, sentinel, evidence, protected, count>>

(* _preserve_archive: the file is created, then filled; one that is there  *)
(* already must have the same content.                                     *)
Archived(o, whole) == [of |-> o, whole |-> whole]
\* Mutant: an archive that is there is taken for whole.
PreserveAny(p) ==
  LET o == promo[p].o IN
  /\ promo[p].pc = "preserve"
  /\ IF official # o THEN Refuse(p) /\ UNCHANGED archive
     ELSE IF \E w \in BOOLEAN : Archived(o, w) \in archive
     THEN Goto(p, "recheck") /\ UNCHANGED archive
     ELSE /\ archive' = archive \cup {Archived(o, FALSE)}
          /\ Goto(p, "fill")
  /\ UNCHANGED <<kind, code, sentinel, evidence, official, promotions, count>>
Preserve(p) ==
  LET o == promo[p].o IN
  /\ promo[p].pc = "preserve"
  /\ IF official # o THEN Refuse(p) /\ UNCHANGED archive
     ELSE IF Archived(o, TRUE) \in archive
     THEN Goto(p, "recheck") /\ UNCHANGED archive
     ELSE IF Archived(o, FALSE) \in archive
     THEN Refuse(p) /\ UNCHANGED archive
     ELSE /\ archive' = archive \cup {Archived(o, FALSE)}
          /\ Goto(p, "fill")
  /\ UNCHANGED <<kind, code, sentinel, evidence, official, promotions, count>>
Fill(p) ==
  LET o == promo[p].o IN
  /\ promo[p].pc = "fill"
  /\ archive' = (archive \ {Archived(o, FALSE)}) \cup {Archived(o, TRUE)}
  /\ Goto(p, "recheck")
  /\ UNCHANGED <<kind, code, sentinel, evidence, official, promotions, count>>

Recheck(p) ==
  /\ promo[p].pc = "recheck"
  /\ IF official = promo[p].o THEN Goto(p, "write") ELSE Refuse(p)
  /\ UNCHANGED <<kind, code, sentinel, evidence, protected, count>>

(* The write replaces whatever is official by then; the new result names   *)
(* the one that was pinned.                                                *)
Promoted(r) == [s |-> r.load.s, strat |-> r.load.strat, bind |-> r.load.bind,
                prev |-> r.o]
WriteOfficial(p) ==
  LET r == promo[p] IN
  /\ r.pc = "write"
  /\ official' = Promoted(r)
  /\ promotions' = promotions \cup {[by |-> Promoted(r), over |-> official, pinned |-> r.o]}
  /\ Refuse(p)                                  \* verified, receipt written
  /\ UNCHANGED <<kind, code, sentinel, evidence, archive, count>>

PromoterCrash(p) ==
  /\ promo[p].pc # "idle" /\ Fault
  /\ Refuse(p)
  /\ UNCHANGED <<kind, code, sentinel, evidence, protected>>

Running == audit # None \/ \E x \in Slots : pend[x] # << >>
(* The checkout is not updated under a running script.                     *)
Deploy ==
  /\ code < Codes /\ ~Running /\ Fault
  /\ code' = code + 1
  /\ UNCHANGED <<kind, sentinel, evidence, protected, promo>>

Promote(p) ==
  \/ Pin(p) \/ RequireDigests(p) \/ Load(p) \/ Preserve(p) \/ Fill(p)
  \/ Recheck(p) \/ WriteOfficial(p) \/ PromoterCrash(p)
Scripts ==
  \/ \E x \in Slots : \/ WriteReport(x) \/ SentinelCrash(x)
                      \/ \E fresh \in BOOLEAN : AnySentinel(x, fresh)
  \/ \E y \in Slots : Reproduce(1, y)
  \/ RunPhase2 \/ AdmissionRead \/ AdmissionWrite
  \/ \E p \in Promoters : Promote(p)

(***************************************************************************)
(* Properties.                                                             *)
(***************************************************************************)
(* A candidate of an experimental strategy rests on two different          *)
(* replicates of one binding, both of them sound, whatever was rerun,      *)
(* resumed, redeployed or killed on the way.                               *)
CandidateIsReproduced ==
  (cand # None /\ ~Vetted(kind)) =>
    /\ cand.basis.slots = Slots /\ Cardinality(cand.basis.codes) = 1
    /\ cand.basis.sound

(* The digest is checked again just before the write, but not with it: of  *)
(* two promoters that both got so far, the second replaces the result of   *)
(* the first without having looked at it.                                  *)
Uncontested == \A w \in promotions : w.over = w.pinned

(* What a promotion was checked against is preserved in full before it is  *)
(* replaced, and unless a promotion was overtaken between its last check   *)
(* and its write, so is everything that ever was official: even when       *)
(* promoters overlap or are killed and a candidate or an admission report  *)
(* is rewritten under them.                                                *)
PredecessorIsKept ==
  /\ \A w \in promotions : Archived(w.pinned, TRUE) \in archive
  /\ Uncontested =>
       \A o \in {Original} \cup {w.by : w \in promotions} :
         o = official \/ Archived(o, TRUE) \in archive

(* No promotion lowers a score of the result that it replaces: relevancy   *)
(* and precision at all, faithfulness by more than the tolerance of one    *)
(* step.  Promoters may overlap as they like, as long as none of them was  *)
(* overtaken between its last check and its write.                         *)
NeverWorse ==
  Uncontested =>
    \A w \in promotions : w.by.s.done /\ MetricGates(w.by.s, w.over.s)

(* What is put forward was reproduced, and what is promoted is no worse.   *)
CandidateIsVetted == CandidateIsReproduced /\ NeverWorse

\* The promoters are interchangeable (sound for the safety properties checked).
Symmetry == Permutations(Promoters)
=============================================================================
