------------------------ MODULE ScopeCampaign_proofs -------------------------
(***************************************************************************)
(* The release chain, proved for every set of promoters, every number of   *)
(* deployments and every bound on runs: what a candidate rests on          *)
(* (EvidenceIsSound), what promotions leave behind (ArchivesAreWhole,      *)
(* VettedInv) and what a campaign knows of the code that it pinned         *)
(* (CampaignInv).  The campaign and the scripts run by hand change the     *)
(* same files, so that the invariants are proved over the steps of both.   *)
(***************************************************************************)
EXTENDS ScopeCampaign, Phase2, FiniteSetTheorems, SequenceTheorems, TLAPS

(***************************************************************************)
(* The summaries and the gates.                                            *)
(***************************************************************************)
\* A summary whose scores can be added and compared.
Graded(s) == /\ s.done \in BOOLEAN /\ s.sig \in {1, 2}
             /\ \A i \in Cases, x \in Metric : s.case[i][x] \in Nat

\* The case that every summary is a variation of.
LEMMA PerfectCaseIs ==
    /\ DOMAIN PerfectCase = Metric \cup Flags \cup {"recall"}
    /\ \A x \in Metric : PerfectCase[x] = 200
    /\ \A x \in Flags : PerfectCase[x] = TRUE
    /\ PerfectCase["recall"] = "hit"
BY DEF PerfectCase, Metric, Flags

\* Every summary is graded, the ones that fall short in one value too.
LEMMA SpoiltIs ==
    ASSUME NEW C \in SUBSET Cases, NEW y \in Metric, NEW v \in Nat
    PROVE  Graded(Spoilt(C, y, v))
<1>1. ASSUME NEW i \in Cases, NEW x \in Metric
      PROVE  Spoilt(C, y, v).case[i][x] \in Nat
  BY PerfectCaseIs DEF Spoilt, Perfect, Metric
<1> QED
  BY <1>1 DEF Spoilt, Perfect, Graded

\* A summary with one flag that does not hold.
LEMMA FlawedIs ==
    ASSUME NEW n \in Cases, NEW y \in Flags
    PROVE  Graded(Flawed(n, y))
<1>1. ASSUME NEW i \in Cases, NEW x \in Metric
      PROVE  Flawed(n, y).case[i][x] \in Nat
  <2>1. Flawed(n, y).case[i] = IF i = n THEN [PerfectCase EXCEPT ![y] = FALSE] ELSE PerfectCase
    BY DEF Flawed, Spoilt, Perfect
  <2>2. x # y
    BY DEF Metric, Flags
  <2> QED
    BY <2>1, <2>2, PerfectCaseIs
<1> QED
  BY <1>1 DEF Flawed, Spoilt, Perfect, Graded

\* A summary with one question whose evidence was not recalled.
LEMMA MissedIs ==
    ASSUME NEW n \in Cases, NEW v
    PROVE  Graded(Spoilt({n}, "recall", v))
<1>1. ASSUME NEW i \in Cases, NEW x \in Metric
      PROVE  Spoilt({n}, "recall", v).case[i][x] \in Nat
  BY PerfectCaseIs DEF Spoilt, Perfect, Metric, Flags
<1> QED
  BY <1>1 DEF Spoilt, Perfect, Graded

\* The scores of every summary can be added and compared.
LEMMA SummaryIs == \A s \in Summaries : Graded(s)
<1>1. Graded(Perfect)
  BY PerfectCaseIs DEF Perfect, Graded
<1>2. Graded([Perfect EXCEPT !.sig = 2])
  BY <1>1 DEF Graded, Perfect
<1>3. ASSUME NEW y \in {"done", "scope", "rendered", "revenue", "meta"} PROVE Graded([Perfect EXCEPT ![y] = FALSE])
  BY <1>1 DEF Graded, Perfect
<1>4. ASSUME NEW C \in {{1}, {2}, {1, 2}}, NEW x \in Metric, NEW v \in Lower[x] PROVE Graded(Spoilt(C, x, v))
  <2>1. v \in Nat /\ C \in SUBSET Cases
    BY DEF Lower, Metric, Cases
  <2> QED
    BY <2>1, SpoiltIs
<1>5. ASSUME NEW i \in Cases, NEW x \in Flags PROVE Graded(Flawed(i, x))
  BY FlawedIs
<1>6. ASSUME NEW i \in Cases, NEW v \in {"miss", "none"} PROVE Graded(Spoilt({i}, "recall", v))
  BY MissedIs
<1> DEFINE A == UNION {{Spoilt(C, x, v) : v \in Lower[x]} : C \in {{1}, {2}, {1, 2}}, x \in Metric}
           B == {Flawed(i, x) : i \in Cases, x \in Flags}
           M == {Spoilt({i}, "recall", v) : i \in Cases, v \in {"miss", "none"}}
           D == {[Perfect EXCEPT ![y] = FALSE] : y \in {"done", "scope", "rendered", "revenue", "meta"}}
           e == [Perfect EXCEPT !.sig = 2]
<1>7. Summaries = {Perfect} \cup A \cup B \cup M \cup D \cup {e}
  BY DEF Summaries
<1>8. \A s \in A : Graded(s)
  BY <1>4
<1>9. \A s \in B : Graded(s)
  BY <1>5
<1>10. ASSUME NEW s \in M PROVE Graded(s)
  <2>1. PICK i \in Cases, v \in {"miss", "none"} : s = Spoilt({i}, "recall", v)
    OBVIOUS
  <2> QED
    BY <1>6, <2>1
<1>11. \A s \in D : Graded(s)
  BY <1>3
<1>12. Graded(e)
  BY <1>2
<1> HIDE DEF A, B, M, D, e
<1> QED
  BY <1>1, <1>7, <1>8, <1>9, <1>10, <1>11, <1>12

\* The reference of the sentinels.
LEMMA ReferenceIs ==
    \A i \in Cases : OfficialCases[i]["f"] = 198 /\ OfficialCases[i]["r"] = 190 /\ OfficialCases[i]["p"] = 172
<1>1. /\ \A i \in Cases : Reference[i]["p"] = 172
      /\ \A i \in Cases : DOMAIN Reference[i] = Metric \cup Flags \cup {"recall"}
  BY PerfectCaseIs DEF Reference, Spoilt, Perfect, Cases, Metric
<1> QED
  <2> SUFFICES ASSUME NEW i \in Cases
               PROVE  OfficialCases[i]["f"] = 198 /\ OfficialCases[i]["r"] = 190 /\ OfficialCases[i]["p"] = 172
    OBVIOUS
  <2> DEFINE c == Reference[i]
             d == [c EXCEPT !.f = 198]
  <2>1. OfficialCases[i] = [d EXCEPT !.r = 190]
    BY DEF OfficialCases
  <2>2. {"f", "r", "p"} \subseteq DOMAIN c /\ c["p"] = 172
    BY <1>1 DEF Metric
  <2>3. DOMAIN d = DOMAIN c /\ d["f"] = 198 /\ d["p"] = 172
    BY <2>2
  <2> HIDE DEF c, d
  <2> QED
    BY <2>1, <2>2, <2>3

\* Every script's gate is at least as strict as what any replicate owes.
LEMMA GatesAreSound ==
    ASSUME NEW k \in Kinds \ {"default"}, NEW s \in Summaries, NEW one, NEW exact,
           BasePassed(k, s, OfficialCases, one, exact)
    PROVE  Sound(s)
<1> DEFINE z == OfficialCases
<1>1. \A i \in Cases, x \in Metric : s.case[i][x] \in Nat
  BY SummaryIs DEF Graded
<1>2. 1 \in Cases /\ 2 \in Cases /\ "f" \in Metric /\ "r" \in Metric /\ "p" \in Metric
  BY DEF Cases, Metric
<1>3. /\ s.case[1]["f"] \in Nat /\ s.case[1]["r"] \in Nat /\ s.case[1]["p"] \in Nat
      /\ s.case[2]["f"] \in Nat /\ s.case[2]["r"] \in Nat /\ s.case[2]["p"] \in Nat
  BY <1>1, <1>2
<1>4. Mean(z, "f") = 396 /\ Mean(z, "r") = 380 /\ Mean(z, "p") = 344
  BY <1>2, ReferenceIs DEF Mean
<1>5. /\ Mean(s.case, "f") = s.case[1]["f"] + s.case[2]["f"]
      /\ Mean(s.case, "r") = s.case[1]["r"] + s.case[2]["r"]
      /\ Mean(s.case, "p") = s.case[1]["p"] + s.case[2]["p"]
  BY DEF Mean
<1> DEFINE F == Mean(s.case, "f")
           R == Mean(s.case, "r")
           P == Mean(s.case, "p")
<1>6. F \in Nat /\ R \in Nat /\ P \in Nat
  BY <1>3, <1>5
<1>7. ASSUME s.done, Every(s, {"cite", "fallback"}), F >= 380, R >= 360 PROVE Sound(s)
  BY <1>6, <1>7 DEF Sound, MeanFloors
<1>8. ASSUME NotBelow(s, z, Metric) PROVE F >= 380 /\ R >= 360
  BY <1>2, <1>4, <1>6, <1>8 DEF NotBelow
<1>9. ASSUME NEW f \in Nat, NEW r \in Nat, NEW p \in Nat, MeanFloors(s, f, r, p), f >= 190, r >= 180
      PROVE  F >= 380 /\ R >= 360
  BY <1>6, <1>9 DEF MeanFloors
<1>10. ASSUME Audited(s) PROVE Every(s, {"cite", "fallback"})
  BY <1>10 DEF Audited, Every
<1>11. CASE k = "context_precision"
  BY <1>7, <1>8, <1>11 DEF BasePassed, ContextPrecisionGate
<1>12. CASE k = "enumeration_context"
  <2>1. /\ s.done /\ Every(s, {"cite", "fallback", "inert", "final", "ground"}) /\ NotBelow(s, z, {"f", "r"})
    BY <1>12 DEF BasePassed, EnumerationContextGate
  <2>2. Every(s, {"cite", "fallback"})
    BY <2>1 DEF Every
  <2>3. F >= 380 /\ R >= 360
    BY <1>4, <1>6, <2>1 DEF NotBelow
  <2> QED
    BY <1>7, <2>1, <2>2, <2>3
<1>13. CASE k = "enumeration_answer"
  <2>1. s.done /\ Audited(s) /\ MeanFloors(s, 190, 180, 175)
    BY <1>13 DEF BasePassed, EnumerationAnswerGate
  <2> QED
    BY <1>7, <1>9, <1>10, <2>1
<1>14. CASE k = "grounded"
  BY <1>7, <1>8, <1>10, <1>14 DEF BasePassed, GroundedGate
<1>15. CASE k = "fact_evidence"
  BY <1>7, <1>9, <1>10, <1>15 DEF BasePassed, FactEvidenceGate
<1>16. CASE k \in {"priority2", "priority3"}
  <2>1. s.done /\ Audited(s) /\ MeanFloors(s, 200, 190, 180)
    BY <1>16 DEF BasePassed, FactV2Gate
  <2> QED
    BY <1>7, <1>9, <1>10, <2>1
<1>17. CASE k = "answerability"
  <2>1. s.done /\ MeanFloors(s, 200, 190, 134) /\ \A i \in Cases : s.case[i].cite /\ s.case[i].fallback
    BY <1>17 DEF BasePassed, AnswerabilityGate, AnswerabilityCase
  <2>2. Every(s, {"cite", "fallback"})
    BY <2>1 DEF Every
  <2> QED
    BY <1>7, <1>9, <2>1, <2>2
<1>18. CASE k \in {"focus", "scope13", "scope14", "closure"}
  <2>1. s.done /\ Audited(s) /\ MeanFloors(s, 200, 190, 0)
    BY <1>18 DEF BasePassed, StabilityGate
  <2> QED
    BY <1>7, <1>9, <1>10, <2>1
<1> QED
  BY <1>11, <1>12, <1>13, <1>14, <1>15, <1>16, <1>17, <1>18 DEF Kinds
-----------------------------------------------------------------------------
(***************************************************************************)
(* The scripts.                                                            *)
(***************************************************************************)
\* A report names its replicate, and passes only on sound scores.
Owned(x, r) == r.slot = x /\ (r.passed => r.sound)
OwnedSeq(x, q) == \E S : q \in Seq(S) /\ \A r \in S : Owned(x, r)
ReportsAreSound ==
    /\ kind \in Kinds
    /\ DOMAIN ckpt = Slots /\ DOMAIN rep = Slots /\ DOMAIN pend = Slots
    /\ \A x \in Slots : ckpt[x].s \in Summaries \cup {None}
    /\ \A x \in Slots : rep[x] # None => Owned(x, rep[x])
    /\ \A x \in Slots : OwnedSeq(x, pend[x])
    /\ kind = "default" => \A x \in Slots : rep[x] = None /\ pend[x] = << >>

\* Evidence of both replicates, of one version of the code.
TwoSound(basis) ==
    /\ basis.slots = Slots /\ basis.sound
    /\ \E c : basis.codes = {c}
ReproIsSound == repro # None /\ repro.passed => TwoSound(repro.basis)
CandidateIsTwoSound == cand # None /\ ~Vetted(kind) => TwoSound(cand.basis)

EvidenceIsSound == ReportsAreSound /\ ReproIsSound /\ CandidateIsTwoSound

\* The summaries that the sentinels are explored with.
LEMMA InputsAreSummaries == \A k \in Kinds \ {"default"} : Inputs[k] \subseteq Summaries
<1> SUFFICES ASSUME NEW k \in Kinds \ {"default"}, NEW t \in Inputs[k] PROVE t \in Summaries
  OBVIOUS
<1> DEFINE V == {Verdict(k, s) : s \in Summaries}
<1>1. Inputs[k] = {CHOOSE s \in Summaries : Verdict(k, s) = v : v \in V}
  BY DEF Inputs
<1>2. PICK v \in V : t = CHOOSE s \in Summaries : Verdict(k, s) = v
  BY <1>1
<1>3. \E s \in Summaries : Verdict(k, s) = v
  BY <1>2
<1> QED
  BY <1>2, <1>3

\* Sequences of reports.
LEMMA ConsIs ==
    ASSUME NEW R, NEW a \in R, NEW t \in Seq(R)
    PROVE  (<<a>> \o t)[1] = a /\ Tail(<<a>> \o t) = t
<1> DEFINE h == <<a>>
           u == h \o t
<1>1. h \in Seq(R) /\ Len(h) = 1 /\ h[1] = a
  OBVIOUS
<1>t. t \in Seq(R)
  OBVIOUS
<1> HIDE DEF h
<1>2. /\ u \in Seq(R) /\ Len(u) = Len(h) + Len(t)
      /\ \A i \in 1..(Len(h) + Len(t)) : u[i] = IF i <= Len(h) THEN h[i] ELSE t[i - Len(h)]
  BY <1>1, <1>t, ConcatProperties
<1>l. Len(t) \in Nat
  BY <1>t, LenProperties
<1> HIDE DEF u
<1>3. /\ Len(u) = 1 + Len(t) /\ u[1] = a
      /\ \A i \in 2..(1 + Len(t)) : u[i] = t[i - 1]
  BY <1>1, <1>2, <1>l
<1>4. u # << >>
  BY <1>2, <1>3, <1>l, EmptySeq
<1>5. /\ Tail(u) \in Seq(R) /\ Len(Tail(u)) = Len(u) - 1
      /\ \A i \in 1..Len(Tail(u)) : Tail(u)[i] = u[i + 1]
  BY <1>2, <1>4, HeadTailProperties
<1>6. Len(Tail(u)) = Len(t) /\ \A i \in 1..Len(t) : Tail(u)[i] = t[i]
  BY <1>3, <1>5, <1>l
<1>7. Tail(u) = t
  BY <1>5, <1>6, <1>t, SeqEqual
<1> QED
  BY <1>3, <1>7 DEF u, h

\* A sequence of at most one report.
LEMMA OptionalIs ==
    ASSUME NEW T, NEW e \in T, NEW g
    PROVE  (IF g THEN <<e>> ELSE << >>) \in Seq(T)
<1>1. <<e>> \in Seq(T) /\ << >> \in Seq(T)
  OBVIOUS
<1>2. CASE g
  BY <1>1, <1>2, Zenon
<1>3. CASE ~g
  BY <1>1, <1>3, Zenon
<1> QED
  BY <1>2, <1>3

\* The reports still to write are owned, the next one and the others.
LEMMA OwnedTail ==
    ASSUME NEW x, NEW q, OwnedSeq(x, q), q # << >>
    PROVE  Owned(x, Head(q)) /\ OwnedSeq(x, Tail(q))
<1>1. PICK S : q \in Seq(S) /\ \A r \in S : Owned(x, r)
  BY DEF OwnedSeq
<1>2. Head(q) \in S /\ Tail(q) \in Seq(S)
  BY <1>1, HeadTailProperties
<1> QED
  BY <1>1, <1>2 DEF OwnedSeq

\* No report is left to write.
LEMMA OwnedEmpty == ASSUME NEW x PROVE OwnedSeq(x, << >>)
<1> DEFINE S == {}
<1>1. << >> \in Seq(S) /\ \A r \in S : Owned(x, r)
  OBVIOUS
<1> HIDE DEF S
<1> QED
  BY <1>1, Zenon DEF OwnedSeq

\* What a script writes about a replicate is owned by it.
LEMMA ReportsAreOwned ==
    ASSUME NEW x \in Slots, NEW s \in Summaries, NEW ck, kind \in Kinds \ {"default"}
    PROVE  Owned(x, Reports(x, s, ck)[1]) /\ OwnedSeq(x, Tail(Reports(x, s, ck)))
<1> DEFINE one == ck.codes = {ck.code}
           base == BasePassed(kind, s, OfficialCases, one, ck.exact)
           scoped == base /\ ScopeGate(s, kind)
           closed == scoped /\ ClosureGate(s)
           a == Report(x, s, ck, "base", base)
           b == Report(x, s, ck, "scope", scoped)
           c == Report(x, s, ck, "closure", closed)
           p == IF kind \in Scoped THEN <<b>> ELSE << >>
           q == IF kind = "closure" THEN <<c>> ELSE << >>
           S == {b, c}
           R == {a, b, c}
<1>1. base => Sound(s)
  BY GatesAreSound
<1>2. Owned(x, a) /\ Owned(x, b) /\ Owned(x, c)
  BY <1>1 DEF Owned, Report
<1>3. Reports(x, s, ck) = (<<a>> \o p) \o q
  BY DEF Reports
<1> HIDE DEF a, b, c
<1>4. p \in Seq(S) /\ q \in Seq(S) /\ p \in Seq(R) /\ q \in Seq(R)
  BY OptionalIs
<1>5. <<a>> \in Seq(R)
  OBVIOUS
<1>e. /\ a \in R
      /\ \A r \in S : Owned(x, r)
  BY <1>2
<1> HIDE DEF p, q, S, R
<1>6. (<<a>> \o p) \o q = <<a>> \o (p \o q)
  BY <1>4, <1>5, ConcatAssociative
<1>7. p \o q \in Seq(S) /\ p \o q \in Seq(R)
  BY <1>4, ConcatProperties
<1>8. (<<a>> \o (p \o q))[1] = a /\ Tail(<<a>> \o (p \o q)) = p \o q
  BY <1>7, <1>e, ConsIs
<1>9. OwnedSeq(x, p \o q)
  BY <1>7, <1>e DEF OwnedSeq
<1> QED
  BY <1>2, <1>3, <1>6, <1>8, <1>9

(* The steps of the system, as far as the files of Release are concerned.  *)
Idling == UNCHANGED <<kind, code, sentinel, evidence, protected, promo>>
AnyStep == Scripts \/ Deploy \/ Idling

\* The orchestrator runs the scripts that can be run by hand, and nothing else.
LEMMA StepIs == [Next]_<<vars, campaign>> => AnyStep
<1> SUFFICES ASSUME [Next]_<<vars, campaign>> PROVE AnyStep
  OBVIOUS
<1>1. CASE UNCHANGED <<vars, campaign>>
  BY <1>1 DEF AnyStep, Idling, vars, sentinel, evidence, protected
<1>2. CASE Scripts \/ Deploy
  BY <1>2 DEF AnyStep
<1>3. CASE Orchestrate
  <2>1. CASE \E restart \in BOOLEAN : Launch(restart)
    BY <2>1 DEF Launch, AnyStep, Idling, vars, sentinel, evidence, protected
  <2>2. ASSUME NEW i \in DOMAIN Stages, Reuse(i) \/ RunCommand(i) \/ Return(i) PROVE AnyStep
    BY <2>2 DEF Reuse, RunCommand, Return, AnyStep, Idling, vars, sentinel, evidence, protected
  <2>3. CASE SentinelsFailed \/ Ready
    BY <2>3 DEF SentinelsFailed, Ready, AnyStep, Idling, vars, sentinel, evidence, protected
  <2>4. CASE CampaignCrash
    BY <2>4 DEF CampaignCrash, AnyStep, Idling
  <2>5. CASE RunStage
    <3>1. ASSUME NEW x \in Slots, RunSentinel(x) PROVE AnyStep
      <4>1. AnySentinel(x, FALSE)
        BY <3>1 DEF RunSentinel, AnySentinel
      <4> QED
        BY <4>1 DEF AnyStep, Scripts
    <3>2. ASSUME Reproduce(1, 2) PROVE AnyStep
      BY <3>2 DEF AnyStep, Scripts, Slots
    <3>3. ASSUME UNCHANGED vars PROVE AnyStep
      BY <3>3 DEF AnyStep, Idling, vars, sentinel, evidence, protected
    <3>4. ASSUME RunPhase2 \/ AdmissionRead \/ AdmissionWrite PROVE AnyStep
      BY <3>4 DEF AnyStep, Scripts
    <3> QED
      BY <2>5, <3>1, <3>2, <3>3, <3>4 DEF RunStage
  <2> QED
    BY <1>3, <2>1, <2>2, <2>3, <2>4, <2>5 DEF Orchestrate
<1> QED
  BY <1>1, <1>2, <1>3 DEF Next

\* The sentinel scripts are one script with different gates and references.
LEMMA SentinelIs ==
    ASSUME NEW x \in Slots, NEW fresh \in BOOLEAN, AnySentinel(x, fresh), kind \in Kinds
    PROVE  kind \in Kinds \ {"default"} /\ \E f \in BOOLEAN, missing \in BOOLEAN : Sentinel(x, f, missing)
<1>1. kind # "default"
  BY DEF AnySentinel, ContextPrecisionSentinel, EnumerationContextSentinel, EnumerationAnswerSentinel,
    GroundedSentinel, FactEvidenceSentinel, Priority2Sentinel, Priority3Sentinel, AnswerabilitySentinel,
    StabilitySentinel, ScopeSentinel, ClosureSentinel
<1> DEFINE m == official.strat # "v2"
<1>2. Moved \in BOOLEAN /\ m \in BOOLEAN
  BY DEF Moved
<1>3. \/ Sentinel(x, fresh, m) \/ Sentinel(x, fresh, Moved)
      \/ Sentinel(x, FALSE, m) \/ Sentinel(x, fresh, FALSE)
  BY DEF AnySentinel, ContextPrecisionSentinel, EnumerationContextSentinel, EnumerationAnswerSentinel,
    GroundedSentinel, FactEvidenceSentinel, Priority2Sentinel, Priority3Sentinel, AnswerabilitySentinel,
    StabilitySentinel, ScopeSentinel, ClosureSentinel
<1> HIDE DEF m
<1> QED
  BY <1>1, <1>2, <1>3, Zenon

\* A run of a sentinel, fresh or resumed, with or without its reference.
LEMMA SentinelKeepsReports ==
    ASSUME ReportsAreSound, kind \in Kinds \ {"default"}, NEW x \in Slots,
           NEW fresh \in BOOLEAN, NEW missing \in BOOLEAN, Sentinel(x, fresh, missing)
    PROVE  ReportsAreSound'
<1> DEFINE ck == IF fresh THEN Empty ELSE ckpt[x]
           old == IF fresh THEN None ELSE rep[x]
<1>1. ck.s \in Summaries \cup {None}
  BY DEF ReportsAreSound, Empty
<1>2. PICK s \in IF Resumable(ck) THEN {ck.s} ELSE Inputs[kind] :
           /\ ckpt' = [ckpt EXCEPT ![x] = Rows(ck, s)]
           /\ rep' = [rep EXCEPT ![x] = IF missing THEN old ELSE Reports(x, s, Rows(ck, s))[1]]
           /\ pend' = [pend EXCEPT ![x] = IF missing THEN << >> ELSE Tail(Reports(x, s, Rows(ck, s)))]
  BY DEF Sentinel
<1>3. s \in Summaries
  BY <1>1, <1>2, InputsAreSummaries DEF Resumable
<1> DEFINE new == Rows(ck, s)
           r == IF missing THEN old ELSE Reports(x, s, new)[1]
           q == IF missing THEN << >> ELSE Tail(Reports(x, s, new))
<1>4. new.s = s
  BY DEF Rows
<1>5. Owned(x, Reports(x, s, new)[1]) /\ OwnedSeq(x, Tail(Reports(x, s, new)))
  BY <1>3, ReportsAreOwned
<1>6. old # None => Owned(x, old)
  BY DEF ReportsAreSound
<1>7. r # None => Owned(x, r)
  BY <1>5, <1>6, Zenon
<1>8. OwnedSeq(x, q)
  BY <1>5, OwnedEmpty, Zenon
<1>9. /\ ckpt' = [ckpt EXCEPT ![x] = new] /\ rep' = [rep EXCEPT ![x] = r] /\ pend' = [pend EXCEPT ![x] = q]
      /\ kind' = kind
  BY <1>2 DEF Sentinel
<1> HIDE DEF new, r, q
<1> QED
  BY <1>3, <1>4, <1>7, <1>8, <1>9 DEF ReportsAreSound

\* A report that replaces another one, and a kill between the two.
LEMMA WritesKeepReports ==
    ASSUME ReportsAreSound, NEW x \in Slots, WriteReport(x) \/ SentinelCrash(x)
    PROVE  ReportsAreSound'
<1>1. CASE WriteReport(x)
  <2> DEFINE r == Head(pend[x])
             q == Tail(pend[x])
  <2>1. /\ ckpt' = ckpt /\ kind' = kind
        /\ rep' = [rep EXCEPT ![x] = r] /\ pend' = [pend EXCEPT ![x] = q] /\ pend[x] # << >>
    BY <1>1 DEF WriteReport
  <2>2. Owned(x, r) /\ OwnedSeq(x, q)
    BY <2>1, OwnedTail DEF ReportsAreSound
  <2> HIDE DEF r, q
  <2> QED
    BY <2>1, <2>2 DEF ReportsAreSound
<1>2. CASE SentinelCrash(x)
  <2>1. kind # "default" /\ kind' = kind /\ rep' = rep
    BY <1>2 DEF SentinelCrash
  <2>2. CASE ckpt' = [ckpt EXCEPT ![x] = Rows(@, None)] /\ pend' = pend
    <3> DEFINE w == Rows(ckpt[x], None)
    <3>1. w.s = None
      BY DEF Rows
    <3>2. ckpt' = [ckpt EXCEPT ![x] = w]
      BY <2>2
    <3> HIDE DEF w
    <3> QED
      BY <2>1, <2>2, <3>1, <3>2 DEF ReportsAreSound
  <2>3. CASE pend' = [pend EXCEPT ![x] = << >>] /\ ckpt' = ckpt
    <3>1. OwnedSeq(x, << >>)
      BY OwnedEmpty
    <3> QED
      BY <2>1, <2>3, <3>1 DEF ReportsAreSound
  <2> QED
    BY <1>2, <2>2, <2>3 DEF SentinelCrash
<1> QED
  BY <1>1, <1>2

\* Each of the reproducibility audits asks for two passed reports of
\* different replicates and of one version of the code.
LEMMA ReproduceIsSound ==
    ASSUME ReportsAreSound, NEW y \in Slots, Reproduce(1, y)
    PROVE  ReproIsSound'
<1>1. SUFFICES ASSUME repro'.passed PROVE TwoSound(repro'.basis)
  BY DEF ReproIsSound, TwoSound
<1> DEFINE a == rep[1]
           b == rep[y]
           basis == [slots |-> {1, y}, codes |-> {a.code, b.code}, sound |-> a.sound /\ b.sound]
           ok == Reproduced(a, b)
<1>2. repro' = [passed |-> ok, basis |-> basis] /\ a # None /\ b # None
  BY DEF Reproduce
<1>3. Owned(1, a) /\ Owned(y, b) /\ kind \in Kinds \ {"default"}
  BY <1>2 DEF ReportsAreSound, Slots
<1>4. ok
  <2> HIDE DEF ok, basis
  <2> QED
    BY <1>1, <1>2
<1>5. Twice(a, b)
  <2> HIDE DEF a, b
  <2> QED
    BY <1>3, <1>4 DEF Reproduced, Kinds, ContextReproduced, EnumerationReproduced, GroundedReproduced,
      FactReproduced, Priority2Reproduced, Priority3Reproduced, FocusReproduced, ScopeReproduced,
      RenderedReproduced, ClosureReproduced, AnswerabilityReproduced
<1>6. a.slot = 1 /\ b.slot = y /\ 1 # y /\ a.code = b.code /\ a.sound /\ b.sound
  BY <1>3, <1>5 DEF Twice, Complete, Owned
<1> HIDE DEF a, b
<1>7. basis.slots = Slots /\ basis.codes = {a.code} /\ basis.sound
  BY <1>6 DEF Slots
<1>8. repro'.basis = basis
  <2> HIDE DEF ok, basis
  <2> QED
    BY <1>2
<1> QED
  BY <1>7, <1>8 DEF TwoSound

\* At the start there is no evidence.
LEMMA EvidenceInit == CInit => EvidenceIsSound
<1> SUFFICES ASSUME CInit PROVE EvidenceIsSound
  OBVIOUS
<1>1. kind \in Kinds
  BY ReleaseAssumption DEF CInit, Init
<1>2. \A x \in Slots : OwnedSeq(x, pend[x])
  BY OwnedEmpty DEF CInit, Init
<1> QED
  BY <1>1, <1>2 DEF CInit, Init, EvidenceIsSound, ReportsAreSound, ReproIsSound, CandidateIsTwoSound, Empty

\* No step makes evidence out of something else.
LEMMA EvidenceStep == EvidenceIsSound /\ [Next]_<<vars, campaign>> => EvidenceIsSound'
<1> SUFFICES ASSUME EvidenceIsSound, AnyStep PROVE EvidenceIsSound'
  BY StepIs
<1> USE DEF EvidenceIsSound
<1> DEFINE Kept == UNCHANGED <<kind, repro, cand>>
           ReportsKept == UNCHANGED <<kind, ckpt, rep, pend>>
<1>1. ASSUME Kept PROVE ReproIsSound' /\ CandidateIsTwoSound'
  BY <1>1 DEF ReproIsSound, CandidateIsTwoSound, TwoSound
<1>2. ASSUME ReportsKept PROVE ReportsAreSound'
  BY <1>2 DEF ReportsAreSound
<1> HIDE DEF Kept, ReportsKept
<1>3. ASSUME NEW x \in Slots, WriteReport(x) \/ SentinelCrash(x) PROVE EvidenceIsSound'
  <2>1. Kept
    BY <1>3 DEF WriteReport, SentinelCrash, Kept, evidence
  <2> QED
    BY <1>1, <1>3, <2>1, WritesKeepReports
<1>4. ASSUME NEW x \in Slots, NEW fresh \in BOOLEAN, AnySentinel(x, fresh) PROVE EvidenceIsSound'
  <2>1. PICK f \in BOOLEAN, missing \in BOOLEAN : Sentinel(x, f, missing)
    BY <1>4, SentinelIs DEF ReportsAreSound
  <2>2. Kept
    BY <2>1 DEF Sentinel, Kept, evidence
  <2> QED
    BY <1>1, <1>4, <2>1, <2>2, SentinelIs, SentinelKeepsReports DEF ReportsAreSound
<1>5. ASSUME NEW y \in Slots, Reproduce(1, y) PROVE EvidenceIsSound'
  <2>1. ReportsKept /\ cand' = cand /\ kind' = kind
    BY <1>5 DEF Reproduce, ReportsKept, sentinel
  <2> QED
    BY <1>2, <1>5, <2>1, ReproduceIsSound DEF CandidateIsTwoSound, TwoSound
<1>6. CASE RunPhase2
  <2>1. ReportsKept /\ repro' = repro /\ kind' = kind
    BY <1>6 DEF RunPhase2, ReportsKept, sentinel
  <2>2. ~Vetted(kind) => cand'.basis = repro.basis /\ repro # None /\ repro.passed
    BY <1>6 DEF RunPhase2, Reproducible
  <2>3. CandidateIsTwoSound'
    BY <2>1, <2>2 DEF CandidateIsTwoSound, ReproIsSound, TwoSound
  <2> QED
    BY <1>2, <2>1, <2>3 DEF ReproIsSound, TwoSound
<1>7. ASSUME Kept, ReportsKept PROVE EvidenceIsSound'
  BY <1>1, <1>2, <1>7
<1>8. CASE AdmissionRead \/ AdmissionWrite
  BY <1>7, <1>8 DEF AdmissionRead, AdmissionWrite, Kept, ReportsKept, sentinel
<1>9. ASSUME NEW p \in Promoters, Promote(p) PROVE EvidenceIsSound'
  BY <1>7, <1>9 DEF Promote, Pin, RequireDigests, Load, Preserve, Fill, Recheck, WriteOfficial, PromoterCrash,
    Kept, ReportsKept, sentinel, evidence
<1>10. CASE Deploy \/ Idling
  BY <1>7, <1>10 DEF Deploy, Idling, Kept, ReportsKept, sentinel, evidence
<1> QED
  BY <1>3, <1>4, <1>5, <1>6, <1>8, <1>9, <1>10 DEF AnyStep, Scripts

\* A candidate of an experimental strategy rests on two different, sound
\* replicates of one version of the code, whatever the sentinel scripts, the
\* reproducibility audits and the candidate run were rerun, resumed or killed.
THEOREM ReproductionSafety == Spec => []CandidateIsReproduced
<1>1. EvidenceIsSound => CandidateIsReproduced
  <2> SUFFICES ASSUME EvidenceIsSound, cand # None, ~Vetted(kind)
               PROVE  cand.basis.slots = Slots /\ Cardinality(cand.basis.codes) = 1 /\ cand.basis.sound
    BY DEF CandidateIsReproduced
  <2>1. TwoSound(cand.basis)
    BY DEF EvidenceIsSound, CandidateIsTwoSound
  <2>2. PICK c : cand.basis.codes = {c}
    BY <2>1 DEF TwoSound
  <2>3. Cardinality({c}) = 1
    BY FS_Singleton
  <2> QED
    BY <2>1, <2>2, <2>3 DEF TwoSound
<1> QED
  BY <1>1, EvidenceInit, EvidenceStep, PTL DEF Spec
-----------------------------------------------------------------------------
(***************************************************************************)
(* The promoters.                                                          *)
(***************************************************************************)
Working == {"digest", "load", "preserve", "fill", "recheck", "write"}
Typed(r) == \/ r = Idle
            \/ r \in [pc : Working, c : {r.c}, a : {r.a}, o : {r.o}, load : {r.load}]
PromotersAreTyped == DOMAIN promo = Promoters /\ \A p \in Promoters : Typed(promo[p])
ArchivesAreWhole ==
    /\ \A p \in Promoters : promo[p].pc \in {"recheck", "write"} => Archived(promo[p].o, TRUE) \in archive
    /\ PredecessorIsKept

\* The promoters at the start.
LEMMA PromotersInit == CInit => PromotersAreTyped /\ \A p \in Promoters : promo[p] = Idle
BY DEF CInit, Init, PromotersAreTyped, Typed

\* A promoter's record after its next step.
Fields(r) == [pc : Working, c : {r.c}, a : {r.a}, o : {r.o}, load : {r.load}]
At(r, pc) == [r EXCEPT !.pc = pc]
Loaded(r, c) == [r EXCEPT !.pc = "preserve", !.load = c]

\* A promoter goes on with its digests and with what it has loaded.
LEMMA TypedGoto ==
    ASSUME NEW r, Typed(r), r.pc # "idle", NEW pc \in Working
    PROVE  Typed(At(r, pc)) /\ At(r, pc).pc = pc /\ At(r, pc).o = r.o /\ At(r, pc).load = r.load
<1>1. r \in Fields(r)
  BY DEF Typed, Idle, Fields
<1>2. At(r, pc) \in Fields(At(r, pc)) /\ At(r, pc).pc = pc /\ At(r, pc).o = r.o /\ At(r, pc).load = r.load
  BY <1>1 DEF Fields, At
<1> QED
  BY <1>2 DEF Typed, Fields

\* A promoter loads the candidate.
LEMMA TypedLoad ==
    ASSUME NEW r, Typed(r), r.pc # "idle", NEW c
    PROVE  /\ Typed(Loaded(r, c)) /\ Loaded(r, c).pc = "preserve"
           /\ Loaded(r, c).o = r.o /\ Loaded(r, c).load = c
<1> DEFINE u == At(r, "preserve")
           v == [u EXCEPT !.load = c]
<1>1. r \in Fields(r) /\ "preserve" \in Working
  BY DEF Typed, Idle, Fields, Working
<1>2. u \in Fields(u) /\ u.pc = "preserve" /\ u.o = r.o
  BY <1>1 DEF Fields, At
<1>3. Loaded(r, c) = v
  BY <1>1 DEF Loaded, At, Fields
<1> HIDE DEF u
<1>4. v \in Fields(v) /\ v.pc = "preserve" /\ v.o = u.o /\ v.load = c
  BY <1>2 DEF Fields
<1> HIDE DEF v
<1> QED
  BY <1>2, <1>3, <1>4 DEF Typed, Fields

\* Each step of a promoter, as a change of its record and of the files.
Moves(p, r) == promo' = [promo EXCEPT ![p] = r]
Officials == UNCHANGED <<official, promotions>>
Files == UNCHANGED archive /\ Officials
Wrote(r) == [by |-> Promoted(r), over |-> official, pinned |-> r.o]
PromoterStep(p) ==
    LET r == promo[p] IN
    \/ Moves(p, Idle) /\ Files
    \/ /\ r = Idle /\ adm # None /\ Files
       /\ Moves(p, [pc |-> "digest", c |-> cand, a |-> adm, o |-> official, load |-> None])
    \/ /\ r.pc = "digest" /\ r.a = adm /\ r.o = official /\ Files
       /\ Moves(p, At(r, "load"))
    \/ /\ r.pc = "load" /\ Contract(r, cand, adm, official) /\ Files
       /\ Moves(p, Loaded(r, cand))
    \/ /\ r.pc = "preserve" /\ official = r.o
       /\ \/ Archived(r.o, TRUE) \in archive /\ Files /\ Moves(p, At(r, "recheck"))
          \/ /\ Officials /\ archive' = archive \cup {Archived(r.o, FALSE)}
             /\ Moves(p, At(r, "fill"))
    \/ /\ r.pc = "fill" /\ Officials
       /\ archive' = (archive \ {Archived(r.o, FALSE)}) \cup {Archived(r.o, TRUE)}
       /\ Moves(p, At(r, "recheck"))
    \/ /\ r.pc = "recheck" /\ official = r.o /\ Files
       /\ Moves(p, At(r, "write"))
    \/ /\ r.pc = "write" /\ UNCHANGED archive
       /\ official' = Promoted(r) /\ promotions' = promotions \cup {Wrote(r)} /\ Moves(p, Idle)

\* The actions of a promoter are these steps, and change nothing else.
LEMMA PromoteIs ==
    ASSUME NEW p \in Promoters, PromotersAreTyped, Promote(p)
    PROVE  PromoterStep(p) /\ UNCHANGED <<kind, code, sentinel, evidence>>
<1>0. promo[p].pc = "idle" => promo[p] = Idle
  BY DEF PromotersAreTyped, Typed, Working
<1>1. CASE Pin(p)
  BY <1>0, <1>1 DEF Pin, PromoterStep, Step, Moves, Files, Officials, protected
<1>2. CASE RequireDigests(p)
  BY <1>2 DEF RequireDigests, PromoterStep, Step, Goto, Refuse, Moves, Files, Officials, At, protected
<1>3. CASE Load(p)
  BY <1>3 DEF Load, PromoterStep, Step, Refuse, Moves, Files, Officials, protected, Loaded
<1>4. CASE Preserve(p)
  BY <1>4 DEF Preserve, PromoterStep, Step, Goto, Refuse, Moves, Files, Officials, At
<1>5. CASE Fill(p)
  BY <1>5 DEF Fill, PromoterStep, Step, Goto, Moves, Officials, At
<1>6. CASE Recheck(p)
  BY <1>6 DEF Recheck, PromoterStep, Step, Goto, Refuse, Moves, Files, Officials, At, protected
<1>7. CASE WriteOfficial(p)
  BY <1>7 DEF WriteOfficial, PromoterStep, Step, Refuse, Moves, Wrote
<1>8. CASE PromoterCrash(p)
  BY <1>8 DEF PromoterCrash, PromoterStep, Step, Refuse, Moves, Files, Officials, protected
<1> QED
  BY <1>1, <1>2, <1>3, <1>4, <1>5, <1>6, <1>7, <1>8 DEF Promote

\* The records of the promoters after a step of one of them.
LEMMA PromotersStep ==
    ASSUME PromotersAreTyped, NEW p \in Promoters, PromoterStep(p)
    PROVE  PromotersAreTyped'
<1> DEFINE r == promo[p]
           T(t) == Moves(p, t) /\ Typed(t)
<1>0. Typed(r) /\ Typed(Idle)
  BY DEF PromotersAreTyped, Typed
<1>1. ASSUME NEW t, Moves(p, t), Typed(t) PROVE PromotersAreTyped'
  BY <1>1 DEF PromotersAreTyped, Moves
<1>2. Typed([pc |-> "digest", c |-> cand, a |-> adm, o |-> official, load |-> None])
  BY DEF Typed, Working
<1>3. ASSUME NEW pc \in Working, r.pc # "idle", Moves(p, At(r, pc)) PROVE PromotersAreTyped'
  BY <1>0, <1>1, <1>3, TypedGoto
<1>4. ASSUME r.pc # "idle", Moves(p, Loaded(r, cand)) PROVE PromotersAreTyped'
  <2>1. Typed(Loaded(r, cand))
    BY <1>0, <1>4, TypedLoad
  <2> QED
    BY <1>1, <1>4, <2>1
<1>5. {"load", "fill", "recheck", "write"} \subseteq Working
  BY DEF Working
<1> HIDE DEF r
<1>6. \/ Moves(p, Idle)
      \/ Moves(p, [pc |-> "digest", c |-> cand, a |-> adm, o |-> official, load |-> None])
      \/ r.pc # "idle" /\ \E pc \in {"load", "fill", "recheck", "write"} : Moves(p, At(r, pc))
      \/ r.pc # "idle" /\ Moves(p, Loaded(r, cand))
  BY DEF PromoterStep, r
<1> QED
  BY <1>0, <1>1, <1>2, <1>3, <1>4, <1>5, <1>6

\* What a step does to the promoters and to the files they read and write.
Resting == UNCHANGED <<kind, adm, promo, official, archive, promotions>>
\* A step is a promoter's, the admission audit's, or does not touch those files.
LEMMA PromotionIs ==
    ASSUME PromotersAreTyped, AnyStep
    PROVE  \/ \E p \in Promoters : PromoterStep(p) /\ UNCHANGED <<kind, adm>> /\ Promote(p)
           \/ AdmissionWrite
           \/ Resting
<1>1. ASSUME NEW x \in Slots, WriteReport(x) \/ SentinelCrash(x) PROVE Resting
  BY <1>1 DEF WriteReport, SentinelCrash, Resting, evidence, protected
<1>2. ASSUME NEW x \in Slots, NEW fresh \in BOOLEAN, AnySentinel(x, fresh) PROVE Resting
  <2>1. \E f, missing : Sentinel(x, f, missing)
    BY <1>2 DEF AnySentinel, ContextPrecisionSentinel, EnumerationContextSentinel, EnumerationAnswerSentinel,
      GroundedSentinel, FactEvidenceSentinel, Priority2Sentinel, Priority3Sentinel, AnswerabilitySentinel,
      StabilitySentinel, ScopeSentinel, ClosureSentinel
  <2> QED
    BY <2>1 DEF Sentinel, Resting, evidence, protected
<1>3. ASSUME NEW y \in Slots, Reproduce(1, y) PROVE Resting
  BY <1>3 DEF Reproduce, Resting, protected
<1>4. CASE RunPhase2 \/ AdmissionRead \/ Deploy \/ Idling
  BY <1>4 DEF RunPhase2, AdmissionRead, Deploy, Idling, Resting, evidence, protected
<1>5. ASSUME NEW p \in Promoters, Promote(p) PROVE PromoterStep(p) /\ UNCHANGED <<kind, adm>>
  BY <1>5, PromoteIs DEF evidence
<1> QED
  BY <1>1, <1>2, <1>3, <1>4, <1>5 DEF AnyStep, Scripts

\* Once a promotion was contested, it stays so.
LEMMA ContestedStays ==
    ASSUME promotions \subseteq promotions', Uncontested'
    PROVE  Uncontested
BY DEF Uncontested

\* What a write records.
LEMMA WroteIs ==
    ASSUME NEW r
    PROVE  /\ Wrote(r).by = Promoted(r) /\ Wrote(r).over = official /\ Wrote(r).pinned = r.o
           /\ Promoted(r).prev = r.o /\ Promoted(r).s = r.load.s /\ Promoted(r) # None
<1>1. "prev" \in DOMAIN Promoted(r) /\ "prev" \notin DOMAIN None
  BY DEF Promoted, None
<1>2. Promoted(r) # None
  BY <1>1
<1>3. Promoted(r).prev = r.o /\ Promoted(r).s = r.load.s
  BY DEF Promoted
<1>4. Wrote(r).by = Promoted(r) /\ Wrote(r).over = official /\ Wrote(r).pinned = r.o
  BY DEF Wrote
<1> QED
  BY <1>2, <1>3, <1>4

\* Another promoter may fill an archive in between, and never removes a whole one.
LEMMA ArchivesStep ==
    ASSUME PromotersAreTyped, ArchivesAreWhole, NEW p \in Promoters, PromoterStep(p)
    PROVE  ArchivesAreWhole'
<1> DEFINE r == promo[p]
<1>0. Typed(r) /\ Idle.pc = "idle"
  BY DEF PromotersAreTyped, Idle
<1>1. ASSUME NEW o, Archived(o, TRUE) \in archive PROVE Archived(o, TRUE) \in archive'
  <2>1. \A z : Archived(o, TRUE) # Archived(z, FALSE)
    BY DEF Archived
  <2> QED
    BY <1>1, <2>1 DEF PromoterStep, Files
<1>2. ASSUME NEW t, Moves(p, t), t.pc \in {"recheck", "write"} => Archived(t.o, TRUE) \in archive'
      PROVE  \A q \in Promoters : promo'[q].pc \in {"recheck", "write"} => Archived(promo'[q].o, TRUE) \in archive'
  BY <1>1, <1>2 DEF ArchivesAreWhole, Moves, PromotersAreTyped
<1>3. ASSUME NEW t, Moves(p, t), t.pc \in {"recheck", "write"} => Archived(t.o, TRUE) \in archive', Officials
      PROVE  ArchivesAreWhole'
  <2>1. PredecessorIsKept'
    BY <1>1, <1>3 DEF ArchivesAreWhole, PredecessorIsKept, Officials, Uncontested
  <2> QED
    BY <1>2, <1>3, <2>1 DEF ArchivesAreWhole
<1>4. ASSUME NEW pc \in Working, r.pc # "idle", Moves(p, At(r, pc)), Officials,
             pc \in {"recheck", "write"} => Archived(r.o, TRUE) \in archive'
      PROVE  ArchivesAreWhole'
  <2> DEFINE t == At(r, pc)
  <2>1. t.pc = pc /\ t.o = r.o
    BY <1>0, <1>4, TypedGoto
  <2> QED
    BY <1>3, <1>4, <2>1
<1>5. CASE Moves(p, Idle) /\ Files
  BY <1>0, <1>3, <1>5 DEF Files
<1>6. CASE Moves(p, [pc |-> "digest", c |-> cand, a |-> adm, o |-> official, load |-> None]) /\ Files
  BY <1>3, <1>6 DEF Files
<1>7. CASE r.pc = "digest" /\ Files /\ Moves(p, At(r, "load"))
  BY <1>4, <1>7 DEF Files, Working
<1>8. CASE r.pc = "load" /\ Files /\ Moves(p, Loaded(r, cand))
  <2> DEFINE t == Loaded(r, cand)
  <2>1. t.pc = "preserve"
    BY <1>0, <1>8, TypedLoad
  <2> QED
    BY <1>3, <1>8, <2>1 DEF Files
<1>9. CASE r.pc = "preserve" /\ Archived(r.o, TRUE) \in archive /\ Files /\ Moves(p, At(r, "recheck"))
  BY <1>1, <1>4, <1>9 DEF Files, Working
<1>10. CASE r.pc = "preserve" /\ Officials /\ Moves(p, At(r, "fill"))
  BY <1>4, <1>10 DEF Working
<1>11. CASE /\ r.pc = "fill" /\ Officials /\ Moves(p, At(r, "recheck"))
            /\ archive' = (archive \ {Archived(r.o, FALSE)}) \cup {Archived(r.o, TRUE)}
  <2>1. Archived(r.o, TRUE) \in archive'
    BY <1>11
  <2> QED
    BY <1>4, <1>11, <2>1 DEF Working
<1>12. CASE r.pc = "recheck" /\ Files /\ Moves(p, At(r, "write"))
  <2>1. Archived(r.o, TRUE) \in archive'
    BY <1>1, <1>12 DEF ArchivesAreWhole
  <2> QED
    BY <1>4, <1>12, <2>1 DEF Files, Working
<1>13. CASE /\ r.pc = "write" /\ UNCHANGED archive /\ official' = Promoted(r)
            /\ promotions' = promotions \cup {Wrote(r)} /\ Moves(p, Idle)
  <2>1. Archived(r.o, TRUE) \in archive'
    BY <1>13 DEF ArchivesAreWhole
  <2>2. \A q \in Promoters : promo'[q].pc \in {"recheck", "write"} => Archived(promo'[q].o, TRUE) \in archive'
    BY <1>0, <1>2, <1>13
  <2>3. \A w \in promotions' : Archived(w.pinned, TRUE) \in archive'
    BY <1>13, <2>1, WroteIs DEF ArchivesAreWhole, PredecessorIsKept
  <2>4. ASSUME Uncontested', NEW o \in {Original} \cup {w.by : w \in promotions'}
        PROVE  o = official' \/ Archived(o, TRUE) \in archive'
    <3>1. Uncontested /\ official = r.o
      <4>1. Wrote(r) \in promotions' /\ promotions \subseteq promotions'
        BY <1>13
      <4>2. Wrote(r).over = Wrote(r).pinned
        BY <2>4, <4>1 DEF Uncontested
      <4>3. Wrote(r).over = official /\ Wrote(r).pinned = r.o
        BY WroteIs
      <4> QED
        BY <2>4, <4>1, <4>2, <4>3, ContestedStays
    <3>2. o = Promoted(r) \/ o \in {Original} \cup {w.by : w \in promotions}
      <4>1. {w.by : w \in promotions'} = {w.by : w \in promotions} \cup {Wrote(r).by}
        BY <1>13
      <4>2. Wrote(r).by = Promoted(r)
        BY WroteIs
      <4> QED
        BY <2>4, <4>1, <4>2
    <3> QED
      BY <1>13, <2>1, <3>1, <3>2 DEF ArchivesAreWhole, PredecessorIsKept
  <2>5. PredecessorIsKept'
    BY <2>3, <2>4 DEF PredecessorIsKept
  <2> QED
    BY <2>2, <2>5 DEF ArchivesAreWhole
<1> HIDE DEF r
<1> QED
  BY <1>5, <1>6, <1>7, <1>8, <1>9, <1>10, <1>11, <1>12, <1>13 DEF PromoterStep, r

\* promote_phase2_result.py: whatever promoters overlap or are killed between the
\* archive and the write, what a promotion was checked against is preserved in
\* full; and nothing that ever was official is lost, unless a promoter was
\* overtaken between its last check and its write.
THEOREM PredecessorSafety == Spec => []PredecessorIsKept
<1> DEFINE I == PromotersAreTyped /\ ArchivesAreWhole
<1>1. CInit => I
  BY PromotersInit DEF CInit, Init, ArchivesAreWhole, PredecessorIsKept, Idle
<1>2. I /\ [Next]_<<vars, campaign>> => I'
  <2> SUFFICES ASSUME I, AnyStep PROVE I'
    BY StepIs
  <2>1. ASSUME NEW p \in Promoters, PromoterStep(p) PROVE I'
    BY <2>1, PromotersStep, ArchivesStep
  <2>2. CASE AdmissionWrite \/ Resting
    BY <2>2 DEF AdmissionWrite, Resting, PromotersAreTyped, Typed, ArchivesAreWhole, PredecessorIsKept, Uncontested,
      protected
  <2> QED
    BY <2>1, <2>2, PromotionIs
<1>3. I => PredecessorIsKept
  BY DEF ArchivesAreWhole
<1> QED
  BY <1>1, <1>2, <1>3, PTL DEF Spec
-----------------------------------------------------------------------------
(***************************************************************************)
(* What is promoted is no worse.  A result names the one it was checked    *)
(* against, so that while no promotion was contested the results form a    *)
(* line: none of them comes back once it was replaced, and a promoter that *)
(* finds its predecessor official again has had it official all along.     *)
(***************************************************************************)
\* The results that were replaced.
Past == {w.over : w \in promotions}
Descends(o) == o.prev = None \/ o.prev \in Past
Lineage == Uncontested =>
    /\ official # None /\ official \notin Past
    /\ Descends(official) /\ \A o \in Past : Descends(o)

\* MetricGates, over the means that an admission report holds.
MeanGates(m, b) ==
    /\ m["f"] + 2 * 2 >= b["f"]
    /\ \A x \in {"r", "p"} : m[x] >= b[x]
    /\ m["f"] + m["r"] + m["p"] >= b["f"] + b["r"] + b["p"]
AdmissionIsTrue == adm # None /\ adm.passed => MeanGates(adm.m, adm.bm)
HasReport == \A p \in Promoters : promo[p] # Idle => adm # None
Judging == {"preserve", "fill", "recheck", "write"}
PinnedIs(r) == r.pc \in Working => r.o = official \/ r.o \in Past
CheckedIs(r) == r.pc \in Judging /\ r.o = official => r.load.s.done /\ MetricGates(r.load.s, r.o.s)
Pinned == Uncontested => \A p \in Promoters : PinnedIs(promo[p])
Checked == Uncontested => \A p \in Promoters : CheckedIs(promo[p])
VettedInv == AdmissionIsTrue /\ HasReport /\ Lineage /\ Pinned /\ Checked /\ NeverWorse

\* The metric gates look at nothing but the means.
LEMMA MeansAre == \A s, b : MetricGates(s, b) <=> MeanGates(Means(s), Means(b))
<1> SUFFICES ASSUME NEW s, NEW b PROVE MetricGates(s, b) <=> MeanGates(Means(s), Means(b))
  OBVIOUS
<1>1. \A x \in {"f", "r", "p"} : Means(s)[x] = Mean(s.case, x) /\ Means(b)[x] = Mean(b.case, x)
  BY DEF Means, Metric
<1> QED
  BY <1>1, Zenon DEF MetricGates, MeanGates

\* An admission report passes only on means that pass the metric gates.
LEMMA AdmissionStep ==
    ASSUME AdmissionWrite
    PROVE  adm' # None /\ AdmissionIsTrue' /\ UNCHANGED <<kind, promo, official, archive, promotions>>
<1>1. adm' # None
  <2>1. "m" \in DOMAIN adm' /\ "m" \notin DOMAIN None
    BY DEF AdmissionWrite, None
  <2> QED
    BY <2>1
<1> DEFINE c == audit.c.s
           b == audit.b.s
           ok == Admitted(audit)
           new == [passed |-> ok, c |-> cand, b |-> official, m |-> Means(c), bm |-> Means(b),
                   bind |-> audit.bind, strat |-> audit.c.strat]
<1>2. adm' = new
  BY DEF AdmissionWrite
<1>3. ok => MetricGates(c, b)
  BY DEF Admitted, Gates
<1>4. ok => MeanGates(Means(c), Means(b))
  BY <1>3, MeansAre
<1> HIDE DEF ok, c, b
<1>5. new.passed = ok /\ new.m = Means(c) /\ new.bm = Means(b)
  OBVIOUS
<1> QED
  BY <1>1, <1>2, <1>4, <1>5 DEF AdmissionIsTrue, AdmissionWrite, protected

\* A step that neither replaces a result nor promotes one.
LEMMA LineStays ==
    ASSUME Officials
    PROVE  /\ Uncontested' = Uncontested /\ Past' = Past /\ Lineage' = Lineage
           /\ \A r : PinnedIs(r)' = PinnedIs(r) /\ CheckedIs(r)' = CheckedIs(r)
<1>1. promotions' = promotions /\ official' = official
  BY DEF Officials
<1>2. Uncontested' = Uncontested /\ Past' = Past
  BY <1>1 DEF Uncontested, Past
<1>3. Lineage' = Lineage
  BY <1>1, <1>2 DEF Lineage, Descends
<1>4. \A r : PinnedIs(r)' = PinnedIs(r) /\ CheckedIs(r)' = CheckedIs(r)
  BY <1>1, <1>2 DEF PinnedIs, CheckedIs
<1> QED
  BY <1>2, <1>3, <1>4

\* A promoter replaces the very result that it was checked against.
LEMMA LineGrows ==
    ASSUME VettedInv, NEW p \in Promoters, promo[p].pc = "write", official' = Promoted(promo[p]),
           promotions' = promotions \cup {Wrote(promo[p])}, Uncontested'
    PROVE  /\ Uncontested /\ official = promo[p].o /\ Past' = Past \cup {official}
           /\ official' # None /\ official' \notin Past'
           /\ Descends(official)' /\ \A o \in Past' : Descends(o)'
<1> DEFINE r == promo[p]
           P == Promoted(r)
<1>1. Uncontested /\ official = r.o
  <2>1. Wrote(r) \in promotions'
    OBVIOUS
  <2> QED
    BY <2>1, WroteIs, ContestedStays DEF Uncontested
<1>2. Past' = Past \cup {official}
  BY WroteIs DEF Past
<1>3. P.prev = official /\ P # None
  BY <1>1, WroteIs
<1>4. official # None /\ official \notin Past /\ Descends(official) /\ \A o \in Past : Descends(o)
  BY <1>1 DEF VettedInv, Lineage
<1> HIDE DEF P
<1>5. P # official
  BY <1>3, <1>4 DEF Descends
<1>6. P \notin Past
  BY <1>3, <1>4 DEF Descends
<1>7. Descends(official)'
  BY <1>2, <1>3 DEF Descends, P
<1>8. \A o \in Past' : Descends(o)'
  BY <1>2, <1>4 DEF Descends
<1> QED
  BY <1>1, <1>2, <1>3, <1>5, <1>6, <1>7, <1>8 DEF P

\* A promoter's step, whatever the others do.
LEMMA VettedStep ==
    ASSUME PromotersAreTyped, VettedInv, NEW p \in Promoters, PromoterStep(p), adm' = adm
    PROVE  VettedInv'
<1> DEFINE r == promo[p]
<1>0. Typed(r) /\ Idle.pc = "idle" /\ "idle" \notin Working /\ "idle" \notin Judging
  BY DEF PromotersAreTyped, Idle, Working, Judging
<1>a. AdmissionIsTrue'
  BY DEF VettedInv, AdmissionIsTrue
<1>1. ASSUME NEW t, Moves(p, t), Officials, t # Idle => adm # None, Uncontested => PinnedIs(t) /\ CheckedIs(t)
      PROVE  VettedInv'
  <2>1. \A q \in Promoters : promo'[q] = IF q = p THEN t ELSE promo[q]
    BY <1>1 DEF Moves, PromotersAreTyped
  <2>2. HasReport'
    BY <1>1, <2>1 DEF VettedInv, HasReport
  <2>3. Uncontested' => \A q \in Promoters : PinnedIs(promo[q])' /\ CheckedIs(promo[q])'
    <3> SUFFICES ASSUME Uncontested', NEW q \in Promoters PROVE PinnedIs(promo[q])' /\ CheckedIs(promo[q])'
      OBVIOUS
    <3>1. Uncontested
      BY <1>1, LineStays
    <3>2. PinnedIs(promo[q]) /\ CheckedIs(promo[q])
      BY <3>1 DEF VettedInv, Pinned, Checked
    <3>3. official' = official /\ Past' = Past
      BY <1>1, LineStays DEF Officials
    <3>4. CASE q = p
      BY <1>1, <2>1, <3>1, <3>3, <3>4 DEF PinnedIs, CheckedIs
    <3>5. CASE q # p
      BY <2>1, <3>2, <3>3, <3>5 DEF PinnedIs, CheckedIs
    <3> QED
      BY <3>4, <3>5
  <2>4. Pinned' /\ Checked'
    BY <2>3 DEF Pinned, Checked, PinnedIs, CheckedIs
  <2>5. NeverWorse' /\ Lineage'
    BY <1>1, LineStays DEF VettedInv, NeverWorse, Officials
  <2> QED
    BY <1>a, <2>2, <2>4, <2>5 DEF VettedInv
<1>2. ASSUME NEW pc \in Working, r.pc # "idle", Moves(p, At(r, pc)), Officials,
             pc \in Judging => r.pc \in Judging
      PROVE  VettedInv'
  <2> DEFINE t == At(r, pc)
  <2>1. t.pc = pc /\ t.o = r.o /\ t.load = r.load /\ r.pc \in Working
    BY <1>0, <1>2, TypedGoto DEF Typed, Idle
  <2>2. adm # None
    BY <1>0, <1>2 DEF VettedInv, HasReport
  <2>3. Uncontested => PinnedIs(r) /\ CheckedIs(r)
    BY DEF VettedInv, Pinned, Checked
  <2>4. Moves(p, t)
    BY <1>2
  <2> HIDE DEF t, r
  <2>5. Uncontested => PinnedIs(t) /\ CheckedIs(t)
    BY <1>2, <2>1, <2>3 DEF PinnedIs, CheckedIs
  <2> QED
    BY <1>1, <1>2, <2>2, <2>4, <2>5
<1>3. CASE Moves(p, Idle) /\ Files
  BY <1>0, <1>1, <1>3 DEF Files, PinnedIs, CheckedIs
<1>4. CASE /\ adm # None /\ Files
           /\ Moves(p, [pc |-> "digest", c |-> cand, a |-> adm, o |-> official, load |-> None])
  BY <1>1, <1>4 DEF Files, PinnedIs, CheckedIs, Judging
<1>5. CASE r.pc = "digest" /\ Files /\ Moves(p, At(r, "load"))
  BY <1>2, <1>5 DEF Files, Working, Judging
<1>6. CASE r.pc = "load" /\ Contract(r, cand, adm, official) /\ Files /\ Moves(p, Loaded(r, cand))
  <2> DEFINE t == Loaded(r, cand)
  <2>1. t.pc = "preserve" /\ t.o = r.o /\ t.load = cand
    BY <1>0, <1>6, TypedLoad
  <2>2. adm # None /\ (Uncontested => PinnedIs(r)) /\ r.pc \in Working
    BY <1>0, <1>6 DEF VettedInv, HasReport, Pinned, Working
  <2>3. cand.s.done /\ adm.passed /\ adm.m = Means(cand.s) /\ adm.bm = Means(official.s)
    BY <1>6 DEF Contract
  <2>4. MetricGates(cand.s, official.s)
    BY <2>2, <2>3, MeansAre DEF VettedInv, AdmissionIsTrue
  <2>5. Moves(p, t) /\ Officials
    BY <1>6 DEF Files
  <2> HIDE DEF t, r
  <2>6. Uncontested => PinnedIs(t) /\ CheckedIs(t)
    BY <2>1, <2>2, <2>3, <2>4 DEF PinnedIs, CheckedIs
  <2> QED
    BY <1>1, <2>2, <2>5, <2>6
<1>7. CASE r.pc \in Judging /\ Officials
           /\ (Moves(p, At(r, "recheck")) \/ Moves(p, At(r, "fill")) \/ Moves(p, At(r, "write")))
  BY <1>2, <1>7 DEF Working, Judging
<1>8. CASE /\ r.pc = "write" /\ official' = Promoted(r) /\ promotions' = promotions \cup {Wrote(r)}
           /\ Moves(p, Idle)
  <2>1. \A q \in Promoters : promo'[q] = IF q = p THEN Idle ELSE promo[q]
    BY <1>8 DEF Moves, PromotersAreTyped
  <2>2. HasReport'
    BY <2>1 DEF VettedInv, HasReport
  <2>3. Uncontested' => /\ Uncontested /\ official = r.o /\ Past' = Past \cup {official}
                        /\ official' # None /\ official' \notin Past'
                        /\ Descends(official)' /\ \A o \in Past' : Descends(o)'
    BY <1>8, LineGrows
  <2>4. Lineage'
    BY <2>3 DEF Lineage
  <2>5. ASSUME Uncontested', NEW q \in Promoters PROVE PinnedIs(promo[q])' /\ CheckedIs(promo[q])'
    <3>1. PinnedIs(promo[q])
      BY <2>3, <2>5 DEF VettedInv, Pinned
    <3>2. CASE q = p
      BY <1>0, <2>1, <3>2 DEF PinnedIs, CheckedIs
    <3>3. CASE q # p
      <4>1. Judging \subseteq Working
        BY DEF Judging, Working
      <4>2. promo'[q] = promo[q]
        BY <2>1, <3>3
      <4>3. promo[q].pc \in Working => promo[q].o \in Past'
        BY <2>3, <2>5, <3>1 DEF PinnedIs
      <4> QED
        BY <2>3, <2>5, <4>1, <4>2, <4>3 DEF PinnedIs, CheckedIs
    <3> QED
      BY <3>2, <3>3
  <2>6. Pinned' /\ Checked'
    BY <2>5 DEF Pinned, Checked, PinnedIs, CheckedIs
  <2>7. ASSUME Uncontested', NEW w \in promotions' PROVE w.by.s.done /\ MetricGates(w.by.s, w.over.s)
    <3>1. Uncontested /\ official = r.o
      BY <2>3, <2>7
    <3>2. CheckedIs(r)
      BY <3>1 DEF VettedInv, Checked
    <3>3. r.load.s.done /\ MetricGates(r.load.s, official.s)
      BY <1>8, <3>1, <3>2 DEF CheckedIs, Judging
    <3>4. CASE w \in promotions
      BY <3>1, <3>4 DEF VettedInv, NeverWorse
    <3>5. CASE w = Wrote(r)
      <4>1. w.by.s = r.load.s /\ w.over = official
        BY <3>5, WroteIs
      <4> QED
        BY <3>3, <4>1
    <3> QED
      BY <1>8, <2>7, <3>4, <3>5
  <2>8. NeverWorse'
    BY <2>7 DEF NeverWorse
  <2> QED
    BY <1>a, <2>2, <2>4, <2>6, <2>8 DEF VettedInv
<1>9. CASE r.pc \in {"preserve", "fill", "recheck"} /\ Officials
           /\ (Moves(p, At(r, "recheck")) \/ Moves(p, At(r, "fill")) \/ Moves(p, At(r, "write")))
  BY <1>7, <1>9 DEF Judging
<1> HIDE DEF r
<1> QED
  BY <1>3, <1>4, <1>5, <1>6, <1>8, <1>9 DEF PromoterStep, r, Files

\* No promotion is under way at the start.
LEMMA VettedInit == CInit => PromotersAreTyped /\ VettedInv
<1> SUFFICES ASSUME CInit PROVE PromotersAreTyped /\ VettedInv
  OBVIOUS
<1>1. PromotersAreTyped /\ \A p \in Promoters : promo[p] = Idle
  BY PromotersInit
<1>2. adm = None /\ official = Original /\ promotions = {} /\ Idle.pc = "idle"
  BY DEF CInit, Init, Idle
<1>3. Original.prev = None /\ Original # None
  <2>1. "prev" \in DOMAIN Original /\ "prev" \notin DOMAIN None
    BY DEF Original, None
  <2> QED
    BY <2>1 DEF Original
<1>4. Past = {} /\ NeverWorse
  BY <1>2 DEF Past, NeverWorse
<1>5. Lineage
  BY <1>2, <1>3, <1>4 DEF Lineage, Descends
<1>6. Pinned /\ Checked
  BY <1>1, <1>2 DEF Pinned, Checked, PinnedIs, CheckedIs, Working, Judging
<1> QED
  BY <1>1, <1>2, <1>4, <1>5, <1>6 DEF VettedInv, AdmissionIsTrue, HasReport

\* A step of a promoter, of the admission audit or of another script.
LEMMA VettingStep ==
    ASSUME PromotersAreTyped, VettedInv, AnyStep
    PROVE  PromotersAreTyped' /\ VettedInv'
<1>1. ASSUME NEW p \in Promoters, PromoterStep(p), adm' = adm PROVE PromotersAreTyped' /\ VettedInv'
  BY <1>1, PromotersStep, VettedStep
<1>2. ASSUME UNCHANGED <<promo, official, archive, promotions>>, AdmissionIsTrue', adm' # None \/ adm' = adm
      PROVE  PromotersAreTyped' /\ VettedInv'
  <2>1. Officials /\ promo' = promo
    BY <1>2 DEF Officials
  <2>2. PromotersAreTyped' /\ HasReport'
    BY <1>2, <2>1 DEF PromotersAreTyped, Typed, VettedInv, HasReport
  <2>3. Lineage' /\ Pinned' /\ Checked' /\ NeverWorse'
    BY <1>2, <2>1, LineStays DEF VettedInv, Pinned, Checked, NeverWorse, PinnedIs, CheckedIs
  <2> QED
    BY <1>2, <2>2, <2>3 DEF VettedInv
<1>3. CASE AdmissionWrite
  BY <1>2, <1>3, AdmissionStep
<1>4. CASE Resting
  BY <1>2, <1>4 DEF Resting, VettedInv, AdmissionIsTrue
<1> QED
  BY <1>1, <1>3, <1>4, PromotionIs

\* promote_phase2_result.py, run any number of times and by any number of
\* promoters at once, for every kind: what becomes official is complete, and
\* within the tolerances of the admission gates of the very result that it
\* replaced, until a promoter is overtaken between its last check and its write.
THEOREM VettingSafety == Spec => []CandidateIsVetted
<1>1. CInit => PromotersAreTyped /\ VettedInv
  BY VettedInit
<1>2. PromotersAreTyped /\ VettedInv /\ [Next]_<<vars, campaign>> => PromotersAreTyped' /\ VettedInv'
  BY VettingStep, StepIs
<1>3. VettedInv /\ CandidateIsReproduced => CandidateIsVetted
  BY DEF VettedInv, CandidateIsVetted
<1> QED
  BY <1>1, <1>2, <1>3, ReproductionSafety, PTL DEF Spec
-----------------------------------------------------------------------------
(***************************************************************************)
(* The orchestrator.                                                       *)
(***************************************************************************)
Nth == 1..6
Marks == {"none", "PASSED", "RUNNING", "NO_GO", "WAITING_QUOTA", "FAILED"}
\* The stages of a campaign.
LEMMA StagesAre ==
    /\ DOMAIN Stages = Nth
    /\ Stages[1] = "offline" /\ Stages[2] = "r1" /\ Stages[3] = "r2"
    /\ Stages[4] = "reproducibility" /\ Stages[5] = "n30" /\ Stages[6] = "admission"
BY DEF Stages, Nth

StateTyped == state # None =>
    /\ DOMAIN state = {"man", "status", "stage"}
    /\ state.stage \in [Nth -> Marks]
Fresh == state # None /\ state.man.code = code
Done(i) == state.stage[i] = "PASSED"
Doing(i) == camp.pc = Stages[i] \/ (camp.pc = "exit" /\ camp.of = Stages[i])
Succeeded(i) == camp.pc = "exit" /\ camp.of = Stages[i] /\ camp.rc
ReproIsCurrent == repro # None /\ repro.passed => repro.basis.codes = {code}
CandIsCurrent == cand # None /\ cand.basis.codes = {code} /\ cand.bind[1] = code
ManifestIsPast ==
    /\ code \in Nat
    /\ state # None => state.man.code \in Nat /\ state.man.code <= code /\ kind \in Scoped
UnderWay == camp.pc # "off" => Fresh /\ state.status # "READY_TO_PROMOTE"
StagesAreTrue == Fresh =>
    /\ Done(4) \/ Succeeded(4) => ReproIsCurrent
    /\ Done(5) \/ Succeeded(5) => CandIsCurrent
    /\ Done(5) \/ Doing(5) => Done(4)
    /\ \A i \in Nth : Doing(i) => state.stage[i] = "RUNNING"
CampaignInv == StateTyped /\ ManifestIsPast /\ UnderWay /\ StagesAreTrue

\* The audits of the answer-scope scripts compare with the current code.
LEMMA ReproduceIsCurrent ==
    ASSUME NEW x, NEW y, Reproduce(x, y), kind \in Scoped
    PROVE  ReproIsCurrent'
<1> DEFINE a == rep[x]
           b == rep[y]
           ok == Reproduced(a, b)
           basis == [slots |-> {x, y}, codes |-> {a.code, b.code}, sound |-> a.sound /\ b.sound]
<1>1. repro' = [passed |-> ok, basis |-> basis] /\ code' = code
  BY DEF Reproduce
<1>2. ok => a.code = code /\ b.code = code
  <2> HIDE DEF a, b
  <2> QED
    BY DEF Reproduced, Scoped, ScopeReproduced, RenderedReproduced, ClosureReproduced, Current
<1>3. basis.codes = {a.code, b.code}
  OBVIOUS
<1> HIDE DEF ok, basis, a, b
<1>4. repro'.passed = ok /\ repro'.basis = basis
  BY <1>1
<1> QED
  BY <1>1, <1>2, <1>3, <1>4 DEF ReproIsCurrent

\* The candidate of a current reproducibility report.
LEMMA CandidateIsCurrent ==
    ASSUME RunPhase2, kind \in Scoped, ReproIsCurrent
    PROVE  CandIsCurrent'
<1>1. ~Vetted(kind)
  BY DEF Vetted, Strategy, Scoped
<1>2. repro.basis.codes = {code}
  BY <1>1 DEF RunPhase2, Reproducible, ReproIsCurrent
<1>3. PICK s : cand' = [s |-> s, bind |-> Binding(kind), strat |-> Strategy(kind), basis |-> repro.basis]
  BY <1>1 DEF RunPhase2
<1>4. "bind" \in DOMAIN cand' /\ "bind" \notin DOMAIN None
  BY <1>3 DEF None
<1>5. cand'.basis = repro.basis /\ cand'.bind = Binding(kind) /\ code' = code
  BY <1>3 DEF RunPhase2
<1>6. Binding(kind)[1] = code
  BY DEF Binding
<1> QED
  BY <1>2, <1>4, <1>5, <1>6 DEF CandIsCurrent

\* A script leaves the code alone, and what is current stays so.
LEMMA ScriptsAre ==
    ASSUME Scripts
    PROVE  /\ UNCHANGED <<kind, code>>
           /\ kind \in Scoped =>
                /\ ReproIsCurrent => ReproIsCurrent'
                /\ ReproIsCurrent /\ CandIsCurrent => CandIsCurrent'
<1> DEFINE Kept == UNCHANGED <<kind, code, repro, cand>>
           G == /\ UNCHANGED <<kind, code>>
                /\ kind \in Scoped =>
                     /\ ReproIsCurrent => ReproIsCurrent'
                     /\ ReproIsCurrent /\ CandIsCurrent => CandIsCurrent'
<1>1. ASSUME Kept PROVE G
  BY <1>1 DEF ReproIsCurrent, CandIsCurrent
<1> HIDE DEF Kept
<1>2. ASSUME NEW x \in Slots, WriteReport(x) \/ SentinelCrash(x) PROVE Kept
  BY <1>2 DEF WriteReport, SentinelCrash, Kept, evidence
<1>3. ASSUME NEW x \in Slots, NEW fresh \in BOOLEAN, AnySentinel(x, fresh) PROVE Kept
  <2>1. \E f, missing : Sentinel(x, f, missing)
    BY <1>3 DEF AnySentinel, ContextPrecisionSentinel, EnumerationContextSentinel, EnumerationAnswerSentinel,
      GroundedSentinel, FactEvidenceSentinel, Priority2Sentinel, Priority3Sentinel, AnswerabilitySentinel,
      StabilitySentinel, ScopeSentinel, ClosureSentinel
  <2> QED
    BY <2>1 DEF Sentinel, Kept, evidence
<1>4. ASSUME NEW y \in Slots, Reproduce(1, y) PROVE G
  <2>1. UNCHANGED <<kind, code, cand>>
    BY <1>4 DEF Reproduce
  <2>2. kind \in Scoped => ReproIsCurrent'
    BY <1>4, ReproduceIsCurrent
  <2> QED
    BY <2>1, <2>2 DEF CandIsCurrent
<1>5. ASSUME RunPhase2 PROVE G
  <2>1. UNCHANGED <<kind, code, repro>>
    BY <1>5 DEF RunPhase2
  <2>2. kind \in Scoped /\ ReproIsCurrent => CandIsCurrent'
    BY <1>5, CandidateIsCurrent
  <2> QED
    BY <2>1, <2>2 DEF ReproIsCurrent
<1>6. ASSUME AdmissionRead \/ AdmissionWrite PROVE Kept
  BY <1>6 DEF AdmissionRead, AdmissionWrite, Kept
<1>7. ASSUME NEW p \in Promoters, Promote(p) PROVE Kept
  <2>1. CASE Pin(p) \/ RequireDigests(p) \/ Load(p)
    BY <2>1 DEF Pin, RequireDigests, Load, Kept, evidence
  <2>2. CASE Preserve(p) \/ Fill(p) \/ Recheck(p)
    BY <2>2 DEF Preserve, Fill, Recheck, Kept, evidence
  <2>3. CASE WriteOfficial(p) \/ PromoterCrash(p)
    BY <2>3 DEF WriteOfficial, PromoterCrash, Kept, evidence
  <2> QED
    BY <1>7, <2>1, <2>2, <2>3 DEF Promote
<1> HIDE DEF G
<1> QED
  <2>1. ASSUME \E x \in Slots : \/ WriteReport(x) \/ SentinelCrash(x)
                               \/ \E fresh \in BOOLEAN : AnySentinel(x, fresh)
        PROVE  G
    BY <1>1, <1>2, <1>3, <2>1
  <2>2. ASSUME \E y \in Slots : Reproduce(1, y) PROVE G
    BY <1>4, <2>2
  <2>3. ASSUME AdmissionRead \/ AdmissionWrite \/ \E p \in Promoters : Promote(p) PROVE G
    BY <1>1, <1>6, <1>7, <2>3
  <2>4. G
    BY <1>5, <2>1, <2>2, <2>3 DEF Scripts
  <2> QED
    BY <2>4 DEF G

\* A stage marked in the state file.
LEMMA MarkedIs ==
    ASSUME StateTyped, state # None, NEW i \in Nth, NEW v \in Marks
    PROVE  /\ DOMAIN Marked(i, v) = {"man", "status", "stage"}
           /\ Marked(i, v).man = state.man /\ Marked(i, v).status = state.status
           /\ Marked(i, v).stage = [state.stage EXCEPT ![i] = v]
           /\ DOMAIN Ended(i, v) = {"man", "status", "stage"}
           /\ Ended(i, v).man = state.man /\ Ended(i, v).status = v
           /\ Ended(i, v).stage = [state.stage EXCEPT ![i] = v]
<1>1. DOMAIN state = {"man", "status", "stage"}
  BY DEF StateTyped
<1>2. /\ DOMAIN Marked(i, v) = {"man", "status", "stage"}
      /\ Marked(i, v).man = state.man /\ Marked(i, v).status = state.status
      /\ Marked(i, v).stage = [state.stage EXCEPT ![i] = v]
  BY <1>1 DEF Marked
<1> DEFINE m == Marked(i, v)
<1>3. Ended(i, v) = [m EXCEPT !.status = v]
  BY DEF Ended
<1>4. DOMAIN m = {"man", "status", "stage"}
  BY <1>2
<1> HIDE DEF m
<1>5. /\ DOMAIN Ended(i, v) = {"man", "status", "stage"}
      /\ Ended(i, v).man = m.man /\ Ended(i, v).status = v /\ Ended(i, v).stage = m.stage
  BY <1>3, <1>4
<1> QED
  BY <1>2, <1>5 DEF m

Saved(s, i, v) ==
    /\ DOMAIN s = {"man", "status", "stage"}
    /\ s.man = state.man /\ s.stage = [state.stage EXCEPT ![i] = v]

\* The state file after one of its stages was marked.
LEMMA SavedIsTyped ==
    ASSUME CampaignInv, Fresh, UNCHANGED vars, NEW i \in Nth, NEW v \in Marks, Saved(state', i, v)
    PROVE  /\ state' # None /\ StateTyped' /\ ManifestIsPast' /\ Fresh'
           /\ state'.stage[i] = v /\ \A j \in Nth : j # i => state'.stage[j] = state.stage[j]
<1>1. state' # None
  <2>1. "man" \in DOMAIN state' /\ "man" \notin DOMAIN None
    BY DEF Saved, None
  <2> QED
    BY <2>1
<1>2. state.stage \in [Nth -> Marks] /\ state'.stage = [state.stage EXCEPT ![i] = v]
  BY DEF CampaignInv, StateTyped, Fresh, Saved
<1>3. /\ state'.stage \in [Nth -> Marks] /\ state'.stage[i] = v
      /\ \A j \in Nth : j # i => state'.stage[j] = state.stage[j]
  BY <1>2
<1>4. StateTyped'
  BY <1>3 DEF StateTyped, Saved
<1>5. state'.man = state.man /\ code' = code /\ kind' = kind
  BY DEF Saved, vars
<1> QED
  BY <1>1, <1>3, <1>4, <1>5 DEF CampaignInv, ManifestIsPast, Fresh

\* A stage that has not passed is marked with something else, and no stage is run.
LEMMA MarkKeeps ==
    ASSUME CampaignInv, Fresh, UNCHANGED vars, NEW i \in Nth, NEW v \in Marks \ {"PASSED"}, ~Done(i),
           Saved(state', i, v), camp'.pc \in {"off", "next"},
           camp'.pc = "next" => state'.status # "READY_TO_PROMOTE"
    PROVE  CampaignInv'
<1>1. /\ state' # None /\ StateTyped' /\ ManifestIsPast' /\ Fresh'
      /\ state'.stage[i] = v /\ \A j \in Nth : j # i => state'.stage[j] = state.stage[j]
  BY SavedIsTyped
<1>2. \A j \in Nth : ~Doing(j)' /\ ~Succeeded(j)'
  BY StagesAre DEF Doing, Succeeded, Nth
<1>3. \A j \in Nth : Done(j)' => Done(j) /\ j # i
  BY <1>1 DEF Done
<1>4. \A j \in Nth : Done(j) => Done(j)'
  BY <1>1 DEF Done
<1>5. ReproIsCurrent' = ReproIsCurrent /\ CandIsCurrent' = CandIsCurrent
  BY DEF ReproIsCurrent, CandIsCurrent, vars
<1>6. 4 \in Nth /\ 5 \in Nth
  BY DEF Nth
<1>7. StagesAreTrue'
  BY <1>2, <1>3, <1>4, <1>5, <1>6 DEF CampaignInv, StagesAreTrue
<1> QED
  BY <1>1, <1>7 DEF CampaignInv, UnderWay

\* A stage has passed: its report was found, or its script succeeded.
LEMMA PassKeeps ==
    ASSUME CampaignInv, Fresh, UNCHANGED vars, NEW i \in Nth, Saved(state', i, "PASSED"),
           camp'.pc = "next", state'.status # "READY_TO_PROMOTE",
           i = 4 => ReproIsCurrent, i = 5 => CandIsCurrent /\ Done(4)
    PROVE  CampaignInv'
<1>0. "PASSED" \in Marks
  BY DEF Marks
<1>1. /\ state' # None /\ StateTyped' /\ ManifestIsPast' /\ Fresh'
      /\ state'.stage[i] = "PASSED" /\ \A j \in Nth : j # i => state'.stage[j] = state.stage[j]
  BY <1>0, SavedIsTyped
<1>2. \A j \in Nth : ~Doing(j)' /\ ~Succeeded(j)'
  BY StagesAre DEF Doing, Succeeded, Nth
<1>3. \A j \in Nth : (Done(j)' => Done(j) \/ j = i) /\ (Done(j) => Done(j)')
  BY <1>1 DEF Done
<1>5. ReproIsCurrent' = ReproIsCurrent /\ CandIsCurrent' = CandIsCurrent
  BY DEF ReproIsCurrent, CandIsCurrent, vars
<1>6. 4 \in Nth /\ 5 \in Nth
  BY DEF Nth
<1>7. StagesAreTrue'
  BY <1>2, <1>3, <1>5, <1>6 DEF CampaignInv, StagesAreTrue
<1> QED
  BY <1>1, <1>7 DEF CampaignInv, UnderWay

\* A stage is started.
LEMMA StartKeeps ==
    ASSUME CampaignInv, Fresh, UNCHANGED vars, NEW i \in Nth, Saved(state', i, "RUNNING"), ~Done(i),
           camp'.pc = Stages[i], state'.status # "READY_TO_PROMOTE", i = 5 => Done(4)
    PROVE  CampaignInv'
<1>0. "RUNNING" \in Marks
  BY DEF Marks
<1>1. /\ state' # None /\ StateTyped' /\ ManifestIsPast' /\ Fresh'
      /\ state'.stage[i] = "RUNNING" /\ \A j \in Nth : j # i => state'.stage[j] = state.stage[j]
  BY <1>0, SavedIsTyped
<1>2. \A j \in Nth : ~Succeeded(j)' /\ (Doing(j)' => j = i)
  BY StagesAre DEF Doing, Succeeded, Nth
<1>3. \A j \in Nth : Done(j)' => Done(j) /\ j # i
  BY <1>1 DEF Done
<1>4. \A j \in Nth : Done(j) => Done(j)'
  BY <1>1 DEF Done
<1>5. ReproIsCurrent' = ReproIsCurrent /\ CandIsCurrent' = CandIsCurrent
  BY DEF ReproIsCurrent, CandIsCurrent, vars
<1>6. 4 \in Nth /\ 5 \in Nth
  BY DEF Nth
<1>7. StagesAreTrue'
  BY <1>1, <1>2, <1>3, <1>4, <1>5, <1>6 DEF CampaignInv, StagesAreTrue
<1> QED
  BY <1>1, <1>7 DEF CampaignInv, UnderWay

\* The script of a stage ends.
LEMMA ExitKeeps ==
    ASSUME CampaignInv, NEW i \in Nth, camp.pc = Stages[i], NEW rc, Exit(rc),
           UNCHANGED <<kind, code>>,
           ReproIsCurrent => ReproIsCurrent', ReproIsCurrent /\ CandIsCurrent => CandIsCurrent',
           i = 4 => (rc => ReproIsCurrent'), i = 5 => (rc => CandIsCurrent')
    PROVE  CampaignInv'
<1>1. camp' = [pc |-> "exit", rc |-> rc, of |-> camp.pc] /\ state' = state
  BY DEF Exit
<1>2. camp'.pc = "exit" /\ camp'.rc = rc /\ camp'.of = Stages[i]
  BY <1>1
<1>3. camp.pc # "off" /\ Doing(i) /\ \A j \in Nth : ~Succeeded(j)
  BY StagesAre DEF Nth, Doing, Succeeded
<1>4. \A j \in Nth : (Doing(j)' => j = i) /\ (Succeeded(j)' => j = i /\ rc)
  BY <1>2, StagesAre DEF Nth, Doing, Succeeded
<1>5. Fresh /\ Fresh' /\ UnderWay' /\ StateTyped' /\ ManifestIsPast'
  BY <1>1, <1>3 DEF CampaignInv, UnderWay, Fresh, StateTyped, ManifestIsPast
<1>6. \A j \in Nth : Done(j)' <=> Done(j)
  BY <1>1 DEF Done
<1>7. 4 \in Nth /\ 5 \in Nth
  BY DEF Nth
<1>8. StagesAreTrue'
  BY <1>1, <1>3, <1>4, <1>5, <1>6, <1>7 DEF CampaignInv, StagesAreTrue
<1> QED
  BY <1>5, <1>8 DEF CampaignInv

\* The campaign rests while the scripts go on.
LEMMA RestKeeps ==
    ASSUME CampaignInv, UNCHANGED <<kind, code, state>>, camp' = camp \/ camp' = Off,
           kind \in Scoped =>
             /\ ReproIsCurrent => ReproIsCurrent'
             /\ ReproIsCurrent /\ CandIsCurrent => CandIsCurrent'
    PROVE  CampaignInv'
<1>1. StateTyped' /\ ManifestIsPast' /\ (Fresh' <=> Fresh) /\ (Fresh => kind \in Scoped)
  BY DEF CampaignInv, StateTyped, ManifestIsPast, Fresh
<1>2. \A j \in Nth : (Doing(j)' => Doing(j)) /\ (Succeeded(j)' => Succeeded(j)) /\ (Done(j)' <=> Done(j))
  BY StagesAre DEF Doing, Succeeded, Done, Off, Nth
<1>3. UnderWay'
  BY <1>1 DEF CampaignInv, UnderWay, Off
<1>4. 4 \in Nth /\ 5 \in Nth
  BY DEF Nth
<1>5. ASSUME Fresh PROVE StagesAreTrue'
  <2>1. /\ Done(4) \/ Succeeded(4) => ReproIsCurrent
        /\ Done(5) \/ Succeeded(5) => CandIsCurrent
        /\ Done(5) \/ Doing(5) => Done(4)
        /\ \A i \in Nth : Doing(i) => state.stage[i] = "RUNNING"
    BY <1>5 DEF CampaignInv, StagesAreTrue
  <2>2. \A j \in Nth : Succeeded(j) => Doing(j)
    BY DEF Succeeded, Doing
  <2>3. Done(4)' \/ Succeeded(4)' => ReproIsCurrent'
    BY <1>1, <1>2, <1>4, <1>5, <2>1
  <2>4. Done(5)' \/ Succeeded(5)' => CandIsCurrent'
    BY <1>1, <1>2, <1>4, <1>5, <2>1, <2>2
  <2>5. Done(5)' \/ Doing(5)' => Done(4)'
    BY <1>2, <1>4, <2>1
  <2>6. \A i \in Nth : Doing(i)' => state'.stage[i] = "RUNNING"
    BY <1>2, <2>1
  <2> QED
    BY <2>3, <2>4, <2>5, <2>6 DEF StagesAreTrue
<1>6. StagesAreTrue'
  BY <1>1, <1>5 DEF StagesAreTrue
<1> QED
  BY <1>1, <1>3, <1>6 DEF CampaignInv

\* The campaign ends with another status.
LEMMA StatusKeeps ==
    ASSUME CampaignInv, Fresh, UNCHANGED vars, NEW st, state' = [state EXCEPT !.status = st], camp' = Off
    PROVE  CampaignInv'
<1>1. DOMAIN state = {"man", "status", "stage"}
  BY DEF CampaignInv, StateTyped, Fresh
<1>2. DOMAIN state' = {"man", "status", "stage"} /\ state'.man = state.man /\ state'.stage = state.stage
  BY <1>1
<1>3. state' # None
  <2>1. "man" \in DOMAIN state' /\ "man" \notin DOMAIN None
    BY <1>2 DEF None
  <2> QED
    BY <2>1
<1>4. StateTyped' /\ ManifestIsPast' /\ Fresh'
  BY <1>2, <1>3 DEF CampaignInv, StateTyped, ManifestIsPast, Fresh, vars
<1>5. camp'.pc = "off" /\ \A j \in Nth : ~Doing(j)' /\ ~Succeeded(j)' /\ (Done(j)' <=> Done(j))
  BY <1>2, StagesAre DEF Doing, Succeeded, Done, Off, Nth
<1>6. ReproIsCurrent' = ReproIsCurrent /\ CandIsCurrent' = CandIsCurrent
  BY DEF ReproIsCurrent, CandIsCurrent, vars
<1>7. 4 \in Nth /\ 5 \in Nth
  BY DEF Nth
<1>8. StagesAreTrue'
  BY <1>5, <1>6, <1>7 DEF CampaignInv, StagesAreTrue
<1> QED
  BY <1>4, <1>5, <1>8 DEF CampaignInv, UnderWay

\* The state file of a campaign that is started anew.
LEMMA NewStateIs ==
    /\ DOMAIN NewState = {"man", "status", "stage"} /\ NewState # None
    /\ NewState.stage \in [Nth -> Marks] /\ \A i \in Nth : NewState.stage[i] = "none"
    /\ NewState.man = Manifest /\ NewState.status = "RUNNING" /\ Manifest.code = code
<1>1. DOMAIN NewState = {"man", "status", "stage"}
  BY DEF NewState
<1>2. "man" \notin DOMAIN None
  BY DEF None
<1>3. NewState.stage = [i \in Nth |-> "none"]
  BY StagesAre DEF NewState
<1>4. NewState.man = Manifest /\ NewState.status = "RUNNING" /\ Manifest.code = code
  BY DEF NewState, Manifest
<1> QED
  BY <1>1, <1>2, <1>3, <1>4 DEF Marks

\* A campaign starts or resumes: only under the manifest of the current code.
LEMMA LaunchKeeps ==
    ASSUME CampaignInv, NEW restart \in BOOLEAN, Launch(restart)
    PROVE  CampaignInv' /\ state'.status # "READY_TO_PROMOTE"
<1>1. camp'.pc = "next" /\ kind \in Scoped /\ UNCHANGED <<kind, code, repro, cand>>
  BY DEF Launch, vars, evidence
<1>2. \A j \in Nth : ~Doing(j)' /\ ~Succeeded(j)'
  BY <1>1, StagesAre DEF Doing, Succeeded, Nth
<1>3. 4 \in Nth /\ 5 \in Nth
  BY DEF Nth
<1>4. CASE state' = NewState
  <2>1. state' # None /\ StateTyped' /\ Fresh' /\ state'.status = "RUNNING" /\ \A j \in Nth : ~Done(j)'
    BY <1>1, <1>4, NewStateIs DEF StateTyped, Fresh, Done
  <2>2. ManifestIsPast'
    BY <1>1, <1>4, NewStateIs DEF CampaignInv, ManifestIsPast
  <2>3. StagesAreTrue'
    BY <1>2, <1>3, <2>1 DEF StagesAreTrue
  <2> QED
    BY <2>1, <2>2, <2>3 DEF CampaignInv, UnderWay
<1>5. CASE state' = state /\ state # None /\ ~Drifted(state) /\ ~Terminal(state)
  <2>1. Fresh /\ Fresh' /\ state'.status # "READY_TO_PROMOTE" /\ StateTyped' /\ ManifestIsPast'
    BY <1>1, <1>5, NewStateIs DEF Drifted, Terminal, Fresh, CampaignInv, StateTyped, ManifestIsPast
  <2>2. ReproIsCurrent' = ReproIsCurrent /\ CandIsCurrent' = CandIsCurrent /\ \A j \in Nth : Done(j)' <=> Done(j)
    BY <1>1, <1>5 DEF ReproIsCurrent, CandIsCurrent, Done
  <2>3. StagesAreTrue'
    BY <1>2, <1>3, <2>1, <2>2 DEF CampaignInv, StagesAreTrue
  <2> QED
    BY <2>1, <2>3 DEF CampaignInv, UnderWay
<1> QED
  BY <1>4, <1>5 DEF Launch, Save

\* A gate failed.
LEMMA NoGoKeeps ==
    ASSUME CampaignInv, Fresh, UNCHANGED vars, NEW i \in Nth, ~Done(i), NoGo(i),
           camp.pc = "next" \/ ~(kind = "closure" /\ i = 2)
    PROVE  CampaignInv' /\ state'.status # "READY_TO_PROMOTE"
<1> DEFINE e == Ended(i, "NO_GO")
           st == IF kind = "closure" THEN "CLOSED_NO_GO" ELSE "NO_GO"
<1>0. "NO_GO" \in Marks \ {"PASSED"} /\ "NO_GO" # "READY_TO_PROMOTE" /\ Off.pc = "off"
  BY DEF Marks, Off
<1>1. Saved(e, i, "NO_GO") /\ e.status = "NO_GO"
  BY <1>0, MarkedIs DEF CampaignInv, Fresh, Saved
<1>2. st # "READY_TO_PROMOTE"
  OBVIOUS
<1>3. \/ state' = e /\ camp.pc = "next" /\ camp' = camp
      \/ state' = [e EXCEPT !.status = st] /\ camp' = Off
  BY DEF NoGo, Save
<1> HIDE DEF e, st
<1>4. Saved([e EXCEPT !.status = st], i, "NO_GO") /\ [e EXCEPT !.status = st].status = st
  BY <1>1 DEF Saved
<1>5. Saved(state', i, "NO_GO") /\ state'.status # "READY_TO_PROMOTE" /\ camp'.pc \in {"off", "next"}
  BY <1>0, <1>1, <1>2, <1>3, <1>4
<1> QED
  BY <1>0, <1>5, MarkKeeps

\* A report found on disk stands for a sentinel's stage, never for an audit's.
LEMMA ReuseKeeps ==
    ASSUME CampaignInv, NEW i \in Nth, Reuse(i)
    PROVE  CampaignInv' /\ state'.status # "READY_TO_PROMOTE"
<1>1. camp.pc = "next" /\ ~Done(i) /\ i \in {2, 3} /\ UNCHANGED vars
  BY DEF Reuse, Here, Done
<1>2. Fresh /\ state.status # "READY_TO_PROMOTE"
  BY <1>1 DEF CampaignInv, UnderWay
<1>3. CASE state' = Marked(i, "PASSED") /\ camp' = camp
  <2>1. "PASSED" \in Marks
    BY DEF Marks
  <2>2. Saved(state', i, "PASSED") /\ state'.status # "READY_TO_PROMOTE"
    BY <1>2, <1>3, <2>1, MarkedIs DEF CampaignInv, Fresh, Saved
  <2> QED
    BY <1>1, <1>2, <1>3, <2>2, PassKeeps
<1>4. CASE NoGo(i)
  BY <1>1, <1>2, <1>4, NoGoKeeps
<1> QED
  BY <1>3, <1>4 DEF Reuse, Save

\* The script of the first stage that has not passed is started.
LEMMA CommandKeeps ==
    ASSUME CampaignInv, NEW i \in Nth, RunCommand(i)
    PROVE  CampaignInv' /\ state'.status # "READY_TO_PROMOTE"
<1>1. /\ camp.pc = "next" /\ ~Done(i) /\ UNCHANGED vars
      /\ state' = Marked(i, "RUNNING") /\ camp'.pc = Stages[i]
  BY DEF RunCommand, Here, Done, Save
<1>2. Fresh /\ state.status # "READY_TO_PROMOTE"
  BY <1>1 DEF CampaignInv, UnderWay
<1>3. i = 5 => Done(4)
  BY DEF RunCommand, Here, Done
<1>4. "RUNNING" \in Marks
  BY DEF Marks
<1>5. Saved(state', i, "RUNNING") /\ state'.status # "READY_TO_PROMOTE"
  BY <1>1, <1>2, <1>4, MarkedIs DEF CampaignInv, Fresh, Saved
<1> QED
  BY <1>1, <1>2, <1>3, <1>5, StartKeeps

\* A stage passes on the exit code of its own script.
LEMMA ReturnKeeps ==
    ASSUME CampaignInv, NEW i \in Nth, Return(i)
    PROVE  CampaignInv' /\ state'.status # "READY_TO_PROMOTE"
<1>1. camp.pc = "exit" /\ camp.of = Stages[i] /\ UNCHANGED vars
  BY DEF Return
<1>2. Fresh /\ state.status # "READY_TO_PROMOTE" /\ Doing(i) /\ ~Done(i)
  BY <1>1 DEF CampaignInv, UnderWay, StagesAreTrue, Doing, Done
<1>3. CASE camp.rc /\ state' = Marked(i, "PASSED") /\ camp' = [pc |-> "next", rc |-> FALSE]
  <2>1. "PASSED" \in Marks
    BY DEF Marks
  <2>2. Saved(state', i, "PASSED") /\ state'.status # "READY_TO_PROMOTE"
    BY <1>2, <1>3, <2>1, MarkedIs DEF CampaignInv, Fresh, Saved
  <2>3. Succeeded(i) /\ (i = 4 => ReproIsCurrent) /\ (i = 5 => CandIsCurrent /\ Done(4))
    BY <1>1, <1>2, <1>3 DEF CampaignInv, StagesAreTrue, Succeeded
  <2> QED
    BY <1>1, <1>2, <1>3, <2>2, <2>3, PassKeeps
<1>4. ASSUME NEW v \in Marks \ {"PASSED"}, state' = Ended(i, v), camp'.pc \in {"off", "next"}
      PROVE  CampaignInv' /\ state'.status # "READY_TO_PROMOTE"
  <2>1. Saved(state', i, v) /\ state'.status = v
    BY <1>2, <1>4, MarkedIs DEF CampaignInv, Fresh, Saved
  <2>2. v # "READY_TO_PROMOTE"
    BY DEF Marks
  <2> QED
    BY <1>1, <1>2, <1>4, <2>1, <2>2, MarkKeeps
<1>5. CASE NoGo(i) /\ ~(i = 2 /\ kind = "closure")
  BY <1>1, <1>2, <1>5, NoGoKeeps
<1>6. Off.pc = "off" /\ {"NO_GO", "WAITING_QUOTA", "FAILED"} \subseteq Marks \ {"PASSED"}
  BY DEF Off, Marks
<1>7. \/ camp.rc /\ state' = Marked(i, "PASSED") /\ camp' = [pc |-> "next", rc |-> FALSE]
      \/ NoGo(i) /\ ~(i = 2 /\ kind = "closure")
      \/ state' = Ended(i, "NO_GO") /\ camp'.pc = "next"
      \/ state' = Ended(i, "WAITING_QUOTA") /\ camp' = Off
      \/ state' = Ended(i, "FAILED") /\ camp' = Off
  BY DEF Return, Save
<1> QED
  BY <1>3, <1>4, <1>5, <1>6, <1>7

\* The script of a stage runs to its exit.
LEMMA RunStageKeeps ==
    ASSUME CampaignInv, RunStage
    PROVE  CampaignInv' /\ state' = state
<1> DEFINE Stable == kind \in Scoped =>
             /\ ReproIsCurrent => ReproIsCurrent'
             /\ ReproIsCurrent /\ CandIsCurrent => CandIsCurrent'
<1>0. \A i \in Nth : camp.pc = Stages[i] => kind \in Scoped
  BY StagesAre DEF Nth, CampaignInv, UnderWay, ManifestIsPast, Fresh
<1>1. ASSUME NEW i \in Nth, camp.pc = Stages[i], NEW rc, Exit(rc), UNCHANGED <<kind, code>>, Stable,
             i = 4 => (rc => ReproIsCurrent'), i = 5 => (rc => CandIsCurrent')
      PROVE  CampaignInv' /\ state' = state
  <2>1. state' = state
    BY <1>1 DEF Exit
  <2>2. /\ ReproIsCurrent => ReproIsCurrent'
        /\ ReproIsCurrent /\ CandIsCurrent => CandIsCurrent'
    BY <1>0, <1>1
  <2>3. CampaignInv'
    BY <1>1, <2>2, ExitKeeps
  <2> QED
    BY <2>1, <2>3
<1>2. UNCHANGED vars => UNCHANGED <<kind, code>> /\ Stable
  BY DEF vars, ReproIsCurrent, CandIsCurrent
<1>3. Scripts => UNCHANGED <<kind, code>> /\ Stable
  BY ScriptsAre
<1> HIDE DEF Stable
<1>n. 1 \in Nth /\ 2 \in Nth /\ 3 \in Nth /\ 4 \in Nth /\ 5 \in Nth /\ 6 \in Nth
  BY DEF Nth
<1>4. ASSUME NEW x \in Slots, RunSentinel(x) PROVE CampaignInv' /\ state' = state
  <2>1. Scripts
    <3>1. AnySentinel(x, FALSE)
      BY <1>4 DEF RunSentinel, AnySentinel
    <3> QED
      BY <3>1 DEF Scripts
  <2>2. \E rc : Exit(rc)
    BY <1>4 DEF RunSentinel
  <2>3. camp.pc = Stages[2] \/ camp.pc = Stages[3]
    BY <1>4, StagesAre DEF RunSentinel
  <2> QED
    BY <1>1, <1>3, <1>n, <2>1, <2>2, <2>3
<1>5. CASE camp.pc = "reproducibility" /\ Reproduce(1, 2) /\ Exit(repro'.passed)
  <2>1. Scripts
    BY <1>5 DEF Scripts, Slots
  <2>2. ReproIsCurrent' /\ camp.pc = Stages[4]
    BY <1>0, <1>5, <1>n, StagesAre, ReproduceIsCurrent
  <2> QED
    BY <1>1, <1>3, <1>5, <1>n, <2>1, <2>2
<1>6. CASE camp.pc = "n30" /\ RunPhase2 /\ Exit(cand'.s.done)
  <2>1. Scripts
    BY <1>6 DEF Scripts
  <2>2. camp.pc = Stages[5] /\ Doing(5) /\ kind \in Scoped
    BY <1>0, <1>6, <1>n, StagesAre DEF Doing
  <2>3. Fresh
    BY <1>6 DEF CampaignInv, UnderWay
  <2>4. ReproIsCurrent
    BY <2>2, <2>3 DEF CampaignInv, StagesAreTrue
  <2>5. CandIsCurrent'
    BY <1>6, <2>2, <2>4, CandidateIsCurrent
  <2> QED
    BY <1>1, <1>3, <1>6, <1>n, <2>1, <2>2, <2>5
<1>7. CASE camp.pc = "n30" /\ Exit(FALSE) /\ UNCHANGED vars
  <2>1. camp.pc = Stages[5]
    BY <1>7, StagesAre
  <2> DEFINE rc == FALSE
  <2>2. Exit(rc) /\ ~rc
    BY <1>7
  <2> HIDE DEF rc
  <2> QED
    BY <1>1, <1>2, <1>7, <1>n, <2>1, <2>2
<1>8. CASE AdmissionRead /\ UNCHANGED campaign
  <2>1. Scripts
    BY <1>8 DEF Scripts
  <2>2. camp' = camp /\ state' = state
    BY <1>8 DEF campaign
  <2> QED
    BY <1>3, <2>1, <2>2, RestKeeps DEF Stable
<1>9. CASE camp.pc = "admission" /\ AdmissionWrite /\ Exit(adm'.passed)
  <2>1. Scripts
    BY <1>9 DEF Scripts
  <2>2. camp.pc = Stages[6]
    BY <1>9, StagesAre
  <2> QED
    BY <1>1, <1>3, <1>9, <1>n, <2>1, <2>2
<1>10. CASE camp.pc = "offline" /\ \E rc \in BOOLEAN : Exit(rc) /\ UNCHANGED vars
  <2>1. camp.pc = Stages[1]
    BY <1>10, StagesAre
  <2> QED
    BY <1>1, <1>2, <1>10, <1>n, <2>1
<1> QED
  BY <1>4, <1>5, <1>6, <1>7, <1>8, <1>9, <1>10 DEF RunStage

\* No campaign at the start.
LEMMA CampaignInit == CInit => CampaignInv
<1> SUFFICES ASSUME CInit PROVE CampaignInv
  OBVIOUS
<1>1. state = None /\ camp.pc = "off" /\ code = 1
  BY DEF CInit, Init, Off
<1> QED
  BY <1>1 DEF CampaignInv, StateTyped, ManifestIsPast, UnderWay, StagesAreTrue, Fresh

\* The candidate behind a campaign that declares it ready.
PinnedBy(s) == cand # None /\ cand.basis.codes = {s.man.code} /\ cand.bind[1] = s.man.code

\* Every step keeps the invariant, and a campaign becomes ready only with a
\* candidate of the code that it pinned.
LEMMA CampaignStep ==
    ASSUME CampaignInv, [Next]_<<vars, campaign>>
    PROVE  CampaignInv' /\ (state' # state /\ state'.status = "READY_TO_PROMOTE" => PinnedBy(state'))
<1> DEFINE G == CampaignInv' /\ (state' # state /\ state'.status = "READY_TO_PROMOTE" => PinnedBy(state'))
<1>1. ASSUME UNCHANGED <<vars, campaign>> PROVE G
  <2>1. UNCHANGED <<kind, code, repro, cand, state, camp>>
    BY <1>1 DEF vars, campaign, evidence
  <2>2. (ReproIsCurrent => ReproIsCurrent') /\ (CandIsCurrent => CandIsCurrent')
    BY <2>1 DEF ReproIsCurrent, CandIsCurrent
  <2> QED
    BY <2>1, <2>2, RestKeeps
<1>2. ASSUME Scripts, UNCHANGED campaign PROVE G
  <2>1. camp' = camp /\ state' = state
    BY <1>2 DEF campaign
  <2> QED
    BY <1>2, <2>1, ScriptsAre, RestKeeps
<1>3. ASSUME Deploy, camp.pc = "off", UNCHANGED campaign PROVE G
  <2>1. code' = code + 1 /\ state' = state /\ camp'.pc = "off" /\ kind' = kind
    BY <1>3 DEF Deploy, campaign
  <2>2. StateTyped' /\ ManifestIsPast' /\ ~Fresh'
    BY <2>1 DEF CampaignInv, StateTyped, ManifestIsPast, Fresh
  <2> QED
    BY <2>1, <2>2 DEF CampaignInv, UnderWay, StagesAreTrue
<1>4. ASSUME NEW restart \in BOOLEAN, Launch(restart) PROVE G
  BY <1>4, LaunchKeeps
<1>5. ASSUME NEW i \in Nth, Reuse(i) \/ RunCommand(i) \/ Return(i) PROVE G
  BY <1>5, ReuseKeeps, CommandKeeps, ReturnKeeps
<1>6. ASSUME SentinelsFailed PROVE G
  <2>1. /\ camp.pc = "next" /\ UNCHANGED vars /\ camp' = Off
        /\ state' = [state EXCEPT !.status = "CLOSED_NO_GO"]
    BY <1>6 DEF SentinelsFailed, Save
  <2>2. Fresh
    BY <2>1 DEF CampaignInv, UnderWay
  <2>3. state'.status = "CLOSED_NO_GO"
    BY <2>1, <2>2 DEF CampaignInv, StateTyped, Fresh
  <2> QED
    BY <2>1, <2>2, <2>3, StatusKeeps
<1>7. ASSUME Ready PROVE G
  <2>1. /\ camp.pc = "next" /\ UNCHANGED vars /\ camp' = Off
        /\ state' = [state EXCEPT !.status = "READY_TO_PROMOTE"]
        /\ state.stage[5] = "PASSED"
    BY <1>7, StagesAre DEF Ready, Save, Nth
  <2>2. Fresh
    BY <2>1 DEF CampaignInv, UnderWay
  <2>3. CandIsCurrent
    BY <2>1, <2>2 DEF CampaignInv, StagesAreTrue, Done
  <2>4. state'.man = state.man
    BY <2>1, <2>2 DEF CampaignInv, StateTyped, Fresh
  <2>5. PinnedBy(state')
    BY <2>2, <2>3, <2>4 DEF PinnedBy, CandIsCurrent, Fresh
  <2> QED
    BY <2>1, <2>2, <2>5, StatusKeeps
<1>8. ASSUME CampaignCrash PROVE G
  <2>1. UNCHANGED <<kind, code, repro, cand, state>> /\ camp' = Off
    BY <1>8 DEF CampaignCrash, evidence
  <2>2. (ReproIsCurrent => ReproIsCurrent') /\ (CandIsCurrent => CandIsCurrent')
    BY <2>1 DEF ReproIsCurrent, CandIsCurrent
  <2> QED
    BY <2>1, <2>2, RestKeeps
<1>9. ASSUME RunStage PROVE G
  BY <1>9, RunStageKeeps
<1> HIDE DEF G
<1>10. ASSUME Orchestrate PROVE G
  BY <1>4, <1>5, <1>6, <1>7, <1>8, <1>9, <1>10, StagesAre DEF Orchestrate
<1>11. G
  BY <1>1, <1>2, <1>3, <1>10 DEF Next
<1> QED
  BY <1>11 DEF G

\* run_answer_scope_campaign.py declares READY_TO_PROMOTE only with a candidate
\* whose binding and whose replicates are of the code that its manifest pins,
\* however often it was killed, resumed or started anew.
THEOREM PinSafety == Spec => ReadyIsPinned
<1>1. /\ CampaignInv /\ [Next]_<<vars, campaign>>
      => CampaignInv' /\ (state' # state /\ state'.status = "READY_TO_PROMOTE" => PinnedBy(state'))
  BY CampaignStep
<1>2. CampaignInv /\ [Next]_<<vars, campaign>> =>
        ((state' # state /\ state'.status = "READY_TO_PROMOTE") =>
           /\ cand # None
           /\ cand.basis.codes = {state'.man.code}
           /\ cand.bind[1] = state'.man.code)
  BY <1>1 DEF PinnedBy
<1> QED
  BY CampaignInit, <1>1, <1>2, PTL DEF Spec, ReadyIsPinned

-----------------------------------------------------------------------------
(***************************************************************************)
(* One slot of an evaluation, for any number of processes, questions,      *)
(* deployments, starts and kills.                                          *)
(*                                                                         *)
(* SlotInv says of the checkpoints only that a judgement was shown what    *)
(* its key names: rows of other bindings, of other runs and of wiped runs  *)
(* may stand in them in any order.  What a process holds in memory is      *)
(* sound whatever it has resumed from there, and an output file is the     *)
(* summary of such a process.                                              *)
(***************************************************************************)
Given == Answers \cup GenStatus
Scores == {"scored", "invalid", "error"}
GenRow == [q : Questions, b : Nat, a : Given]
JudRow == [q : Questions, key : Nat \X Given, score : Scores, shown : Nat \X Given]

Answerers == {"unlink gen", "unlink jud", "unlink out", "load", "generate", "save gen"}
Judges == {"judge", "ask judge", "save jud"}
Process == [pc : Answerers \cup Judges \cup {"write"}, b : Nat, g : Seq(GenRow),
            j : Seq(JudRow), res : {"none"} \cup Given \cup Scores]

SlotTypeOK ==
    /\ gen \in Seq(GenRow) /\ jud \in Seq(JudRow)
    /\ version \in Nat
    /\ proc \in [Procs -> Process \cup {NoProcess}]

\* A run holds one answer of its binding for each question so far, in their
\* order, and scores given to exactly these answers; it generates before it judges.
AnswersInOrder(r) == \A i \in DOMAIN r.g : r.g[i].q = i /\ r.g[i].b = r.b
ScoresBeside(r) == \A i \in DOMAIN r.j : r.j[i].q = i /\ r.j[i].shown = <<r.b, r.g[i].a>>
InPhase(r) ==
    /\ Len(r.g) <= N /\ Len(r.j) <= Len(r.g)
    /\ r.pc \in Answerers => Len(r.g) < N /\ Len(r.j) = 0
    /\ r.pc \in Judges => Len(r.g) = N /\ Len(r.j) < N
HasResult(r) ==
    /\ r.pc = "save gen" => r.res \in Given
    /\ r.pc = "save jud" => r.res \in Scores
RunIsSound(r) == AnswersInOrder(r) /\ ScoresBeside(r) /\ InPhase(r) /\ HasResult(r)

Judgeable == \A i \in DOMAIN jud : jud[i].shown = jud[i].key
RunsAreOfTheSlot == \A p \in Procs : proc[p] \in Process => RunIsSound(proc[p])
OutputIsOfARun ==
    out.kind = "summary" => \E r \in Process : RunIsSound(r) /\ out = Summary(r)

SlotInv == SlotTypeOK /\ Judgeable /\ RunsAreOfTheSlot /\ OutputIsOfARun

\* A process that works is in memory, one that does not has nothing there.
LEMMA WorkerIs ==
    ASSUME SlotInv, NEW p \in Procs, proc[p].pc # "idle"
    PROVE  proc[p] \in Process /\ RunIsSound(proc[p])
BY DEF SlotInv, SlotTypeOK, RunsAreOfTheSlot, NoProcess

\* What a process is, and how it changes its position.
LEMMA ProcessIs ==
    ASSUME NEW r \in Process
    PROVE  /\ r.pc \in Answerers \cup Judges \cup {"write"} /\ r.b \in Nat
           /\ r.g \in Seq(GenRow) /\ Len(r.g) \in Nat
           /\ r.j \in Seq(JudRow) /\ Len(r.j) \in Nat
           /\ r.res \in {"none"} \cup Given \cup Scores
<1>1. r.g \in Seq(GenRow) /\ r.j \in Seq(JudRow)
  BY DEF Process
<1>2. Len(r.g) \in Nat /\ Len(r.j) \in Nat
  BY <1>1
<1> QED
  BY <1>1, <1>2 DEF Process

\* A selection has a question.
LEMMA SomeQuestions == N \in Nat /\ N > 0
<1>1. N \in Nat \ {0}
  BY Phase2Assumption
<1> QED
  BY <1>1

\* A process that is not started is not a run.
LEMMA NoProcessIs == NoProcess \notin Process
<1>1. ASSUME NEW r \in Process PROVE r.pc # "idle"
  BY DEF Process, Answerers, Judges
<1> QED
  BY <1>1 DEF NoProcess

\* A step of one process that leaves the answers, the scores and the output
\* file alone only has to keep its own run sound.
LEMMA OneRunKeeps ==
    ASSUME SlotInv, NEW p \in Procs, NEW r \in Process \cup {NoProcess},
           proc' = [proc EXCEPT ![p] = r],
           r \in Process => RunIsSound(r)
    PROVE  /\ proc' \in [Procs -> Process \cup {NoProcess}]
           /\ RunsAreOfTheSlot'
<1>1. proc \in [Procs -> Process \cup {NoProcess}]
  BY DEF SlotInv, SlotTypeOK
<1>2. proc' \in [Procs -> Process \cup {NoProcess}]
  BY <1>1
<1>3. ASSUME NEW q \in Procs, proc'[q] \in Process PROVE RunIsSound(proc'[q])
  <2>1. CASE q = p
    BY <2>1, <1>1, <1>3
  <2>2. CASE q # p
    BY <2>2, <1>1, <1>3 DEF SlotInv, RunsAreOfTheSlot
  <2> QED
    BY <2>1, <2>2
<1> QED
  BY <1>2, <1>3 DEF RunsAreOfTheSlot

\* The file keeps what it says when nobody writes it.
LEMMA OutputKeeps ==
    ASSUME OutputIsOfARun, out' = out
    PROVE  OutputIsOfARun'
BY DEF OutputIsOfARun

\* An answer more.
LEMMA GeneratedIsSound ==
    ASSUME NEW r \in Process, RunIsSound(r), r.pc \in Answerers,
           NEW row \in GenRow, row.q = Len(r.g) + 1, row.b = r.b
    PROVE  Generated(r, row) \in Process /\ RunIsSound(Generated(r, row))
<1> DEFINE s == Generated(r, row)
<1>1. /\ r.g \in Seq(GenRow) /\ Len(r.g) \in Nat /\ Len(r.g) < N /\ Len(r.j) = 0
  BY ProcessIs DEF RunIsSound, InPhase
<1>2. N \in Nat \ {0}
  BY Phase2Assumption
<1>3. /\ s.g = Append(r.g, row) /\ s.b = r.b /\ s.j = r.j /\ s.res = r.res
      /\ s.pc = IF Len(r.g) + 1 = N THEN "judge" ELSE "load"
  BY <1>1, ProcessIs DEF Generated, Process
<1>8. s \in Process
  <2>1. Append(r.g, row) \in Seq(GenRow)
    BY <1>1
  <2>2. ASSUME NEW x \in Seq(GenRow), NEW pc \in {"judge", "load"}
        PROVE  [r EXCEPT !.g = x, !.pc = pc] \in Process
    BY DEF Process, Answerers, Judges
  <2> QED
    BY <2>1, <2>2 DEF Generated
<1>4. Len(s.g) = Len(r.g) + 1 /\ \A i \in 1..Len(r.g) : s.g[i] = r.g[i]
  BY <1>1, <1>3
<1>5. s.g[Len(r.g) + 1] = row
  BY <1>1, <1>3
<1>6. \A i \in DOMAIN s.g : s.g[i].q = i /\ s.g[i].b = s.b
  <2>1. DOMAIN r.g = 1..Len(r.g) /\ DOMAIN s.g = 1..(Len(r.g) + 1)
    BY <1>1, <1>3
  <2>2. \A i \in 1..Len(r.g) : r.g[i].q = i /\ r.g[i].b = r.b
    BY <2>1 DEF RunIsSound, AnswersInOrder
  <2> QED
    BY <2>1, <2>2, <1>1, <1>3, <1>4, <1>5
<1> HIDE DEF s
<1>7. RunIsSound(s)
  <2>1. Len(s.g) <= N /\ Len(s.j) = 0 /\ Len(s.j) <= Len(s.g) /\ DOMAIN s.j = {}
    BY <1>1, <1>2, <1>3, <1>4, ProcessIs
  <2>2. s.pc \in Answerers => Len(s.g) < N
    <3>1. s.pc \in Answerers => Len(r.g) + 1 # N
      BY <1>3 DEF Answerers
    <3> QED
      BY <3>1, <1>1, <1>2, <1>4
  <2>3. s.pc \in Judges => Len(s.g) = N /\ Len(s.j) < N
    BY <1>1, <1>2, <1>3, <1>4 DEF Judges
  <2>4. AnswersInOrder(s)
    BY <1>6 DEF AnswersInOrder
  <2>5. ScoresBeside(s)
    BY <2>1 DEF ScoresBeside
  <2>6. InPhase(s)
    BY <2>1, <2>2, <2>3 DEF InPhase
  <2>7. HasResult(s)
    BY <1>3 DEF HasResult
  <2> QED
    BY <2>4, <2>5, <2>6, <2>7 DEF RunIsSound
<1> QED
  BY <1>8, <1>7 DEF s

\* A score more, given to the answer beside it.
LEMMA JudgedIsSound ==
    ASSUME NEW r \in Process, RunIsSound(r), r.pc \in Judges,
           NEW row \in JudRow, row.q = Len(r.j) + 1,
           row.shown = <<r.b, r.g[Len(r.j) + 1].a>>,
           NEW s \in Process, s.g = r.g, s.b = r.b, s.j = Append(r.j, row),
           s.pc \in {"judge", "write"}, s.pc = "judge" => Len(r.j) + 1 # N
    PROVE  RunIsSound(s)
<1>1. /\ r.j \in Seq(JudRow) /\ r.g \in Seq(GenRow) /\ Len(r.j) \in Nat
      /\ Len(r.g) = N /\ Len(r.j) < N /\ N \in Nat
  BY SomeQuestions, ProcessIs DEF RunIsSound, InPhase
<1>2. Len(s.j) = Len(r.j) + 1 /\ \A i \in 1..Len(r.j) : s.j[i] = r.j[i]
  BY <1>1
<1>3. s.j[Len(r.j) + 1] = row
  BY <1>1
<1>4. \A i \in DOMAIN s.j : s.j[i].q = i /\ s.j[i].shown = <<s.b, s.g[i].a>>
  <2>1. DOMAIN r.j = 1..Len(r.j) /\ DOMAIN s.j = 1..(Len(r.j) + 1)
    BY <1>1
  <2>2. \A i \in 1..Len(r.j) : r.j[i].q = i /\ r.j[i].shown = <<r.b, r.g[i].a>>
    BY <2>1 DEF RunIsSound, ScoresBeside
  <2> QED
    BY <2>1, <2>2, <1>1, <1>2, <1>3
<1>5. AnswersInOrder(s)
  BY DEF RunIsSound, AnswersInOrder
<1>6. Len(s.g) = N /\ Len(s.j) <= N /\ (s.pc = "judge" => Len(s.j) < N)
  BY <1>1, <1>2
<1>7. s.pc \notin Answerers \cup {"ask judge", "save jud", "save gen"}
  BY DEF Answerers
<1>8. InPhase(s)
  <2>1. s.pc \in Judges => s.pc = "judge"
    BY DEF Judges
  <2>2. Len(s.g) <= N /\ Len(s.j) <= Len(s.g)
    BY <1>1, <1>6
  <2> QED
    BY <2>1, <2>2, <1>6, <1>7 DEF InPhase
<1>9. ScoresBeside(s) /\ HasResult(s)
  BY <1>4, <1>7 DEF ScoresBeside, HasResult
<1> QED
  BY <1>5, <1>8, <1>9 DEF RunIsSound

\* An empty slot that nobody works on.
LEMMA SlotStarts == SlotInit => SlotInv
<1> SUFFICES ASSUME SlotInit PROVE SlotInv
  OBVIOUS
<1>1. SlotTypeOK /\ Judgeable
  BY DEF SlotInit, SlotTypeOK, Judgeable
<1>2. RunsAreOfTheSlot
  BY NoProcessIs DEF SlotInit, RunsAreOfTheSlot
<1>3. OutputIsOfARun
  BY DEF SlotInit, OutputIsOfARun, NoOutput
<1> QED
  BY <1>1, <1>2, <1>3 DEF SlotInv

\* A process starts with nothing but the binding of the deployed code.
LEMMA StartedRecord ==
    ASSUME NEW v, NEW pc
    PROVE  [Started(v) EXCEPT !.pc = pc] =
             [pc |-> pc, b |-> v, g |-> << >>, j |-> << >>, res |-> "none"]
BY SMT DEF Started

\* Facts about empty checkpoints.
LEMMA NothingYet ==
    /\ << >> \in Seq(GenRow) /\ << >> \in Seq(JudRow)
    /\ Len(<< >>) = 0 /\ DOMAIN << >> = {}
OBVIOUS

\* No row is fewer than the selection has questions.
LEMMA EmptyIsShort ==
    ASSUME NEW x, NEW y, x = 0, y = 0
    PROVE  x <= N /\ y <= x /\ x < N
BY SomeQuestions

\* A run without rows is sound before it generates.
LEMMA EmptyIsSound ==
    ASSUME NEW r, DOMAIN r.g = {}, DOMAIN r.j = {}, Len(r.g) = 0, Len(r.j) = 0,
           r.pc \in Answerers, r.pc \notin Judges, r.pc # "save gen", r.pc # "save jud"
    PROVE  RunIsSound(r)
<1>1. AnswersInOrder(r) /\ ScoresBeside(r)
  BY DEF AnswersInOrder, ScoresBeside
<1>2. Len(r.g) <= N /\ Len(r.j) <= Len(r.g) /\ Len(r.g) < N
  BY EmptyIsShort
<1>3. InPhase(r) /\ HasResult(r)
  BY <1>2 DEF InPhase, HasResult
<1> QED
  BY <1>1, <1>3 DEF RunIsSound

\* A process that run_phase2 has just been called in.
LEMMA StartedIs ==
    ASSUME NEW v \in Nat, NEW pc \in {"load", "unlink gen"}
    PROVE  /\ [Started(v) EXCEPT !.pc = pc] \in Process
           /\ RunIsSound([Started(v) EXCEPT !.pc = pc])
<1>1. ASSUME NEW e \in Seq(GenRow), Len(e) = 0, DOMAIN e = {},
             NEW f \in Seq(JudRow), Len(f) = 0, DOMAIN f = {},
             NEW r, r = [pc |-> pc, b |-> v, g |-> e, j |-> f, res |-> "none"]
      PROVE  r \in Process /\ RunIsSound(r)
  <2>1. pc \in Answerers /\ pc \notin Judges /\ pc # "save gen" /\ pc # "save jud"
    BY DEF Answerers, Judges
  <2>2. r \in Process
    BY <1>1, <2>1 DEF Process
  <2>5. r.pc = pc /\ r.g = e /\ r.j = f
    BY <1>1
  <2>3. DOMAIN r.g = {} /\ DOMAIN r.j = {} /\ Len(r.g) = 0 /\ Len(r.j) = 0
    BY <1>1, <2>5
  <2>4. RunIsSound(r)
    BY <2>1, <2>3, <2>5, EmptyIsSound
  <2> QED
    BY <2>2, <2>4
<1> QED
  BY <1>1, StartedRecord, NothingYet

\* A run that only moves on, within its phase, or to another result.
LEMMA MovedIsSound ==
    ASSUME NEW r \in Process, RunIsSound(r), NEW pc, NEW x,
           \/ /\ r.pc \in Answerers /\ pc \in Answerers
              /\ pc = "save gen" => x \in Given
           \/ /\ r.pc \in Judges /\ pc \in Judges
              /\ pc = "save jud" => x \in Scores,
           x \in {"none"} \cup Given \cup Scores
    PROVE  LET s == [r EXCEPT !.res = x, !.pc = pc]
           IN  s \in Process /\ RunIsSound(s)
<1> DEFINE s == [r EXCEPT !.res = x, !.pc = pc]
<1>1. /\ s.pc = pc /\ s.b = r.b /\ s.g = r.g /\ s.j = r.j /\ s.res = x
      /\ s \in Process
  BY DEF Process
<1> HIDE DEF s
<1>2. AnswersInOrder(s) /\ ScoresBeside(s)
  BY <1>1 DEF RunIsSound, AnswersInOrder, ScoresBeside
<1>3. InPhase(s) /\ HasResult(s)
  BY <1>1 DEF RunIsSound, InPhase, HasResult, Answerers, Judges
<1> QED
  BY <1>1, <1>2, <1>3 DEF s, RunIsSound

\* The same without a result.
LEMMA ProceedKeeps ==
    ASSUME SlotInv, NEW p \in Procs, proc[p].pc # "idle", NEW pc, Proceed(p, pc),
           \/ proc[p].pc \in Answerers /\ pc \in Answerers \ {"save gen"}
           \/ proc[p].pc \in Judges /\ pc \in Judges \ {"save jud"}
    PROVE  /\ proc' \in [Procs -> Process \cup {NoProcess}]
           /\ RunsAreOfTheSlot'
<1> DEFINE r == proc[p]
           s == [r EXCEPT !.res = r.res, !.pc = pc]
<1>1. r \in Process /\ RunIsSound(r)
  BY WorkerIs
<1>2. r.res \in {"none"} \cup Given \cup Scores
  BY <1>1 DEF Process
<1>3. s \in Process /\ RunIsSound(s)
  BY <1>1, <1>2, MovedIsSound
<1>4. s = [r EXCEPT !.pc = pc]
  BY <1>1 DEF Process
<1>5. proc' = [proc EXCEPT ![p] = s]
  BY <1>4 DEF Proceed
<1> QED
  BY <1>3, <1>5, OneRunKeeps

\* A process that ends leaves nothing in memory.
LEMMA EndKeeps ==
    ASSUME SlotInv, NEW p \in Procs, End(p)
    PROVE  /\ proc' \in [Procs -> Process \cup {NoProcess}]
           /\ RunsAreOfTheSlot'
BY OneRunKeeps, NoProcessIs DEF End

\* --fresh removes rows, and rows only.
LEMMA UnlinkKeeps == ASSUME SlotInv, NEW p \in Procs, Unlink(p) PROVE SlotInv'
<1>1. /\ proc' \in [Procs -> Process \cup {NoProcess}]
      /\ RunsAreOfTheSlot'
  <2>1. proc[p].pc \in Answerers /\ proc[p].pc # "idle"
    BY DEF Unlink, Answerers
  <2>2. PICK pc \in {"unlink jud", "unlink out", "load"} : Proceed(p, pc)
    BY DEF Unlink
  <2>3. pc \in Answerers \ {"save gen"}
    BY DEF Answerers
  <2> QED
    BY <2>1, <2>2, <2>3, ProceedKeeps
<1>5. gen' \in {gen, << >>} /\ jud' \in {jud, << >>} /\ out' \in {out, NoOutput}
      /\ version' = version
  BY DEF Unlink
<1>2. gen' \in Seq(GenRow) /\ jud' \in Seq(JudRow) /\ version' \in Nat
  <2>1. gen \in Seq(GenRow) /\ jud \in Seq(JudRow) /\ version \in Nat
    BY DEF SlotInv, SlotTypeOK
  <2>2. << >> \in Seq(GenRow) /\ << >> \in Seq(JudRow)
    OBVIOUS
  <2> QED
    BY <1>5, <2>1, <2>2
<1>3. Judgeable'
  BY <1>5 DEF SlotInv, Judgeable
<1>4. OutputIsOfARun'
  BY <1>5 DEF SlotInv, OutputIsOfARun, NoOutput
<1> QED
  BY <1>1, <1>2, <1>3, <1>4 DEF SlotInv, SlotTypeOK

\* A resumed answer is of the binding and of the question that are asked for.
LEMMA LoadGenerationKeeps ==
    ASSUME SlotInv, NEW p \in Procs, LoadGeneration(p) PROVE SlotInv'
<1> DEFINE r == proc[p]
           q == Asked(p)
<1>1. r \in Process /\ RunIsSound(r) /\ r.pc = "load" /\ r.pc \in Answerers
  BY WorkerIs DEF LoadGeneration, Answerers
<1>2. UNCHANGED <<gen, jud, out, version>>
  BY DEF LoadGeneration
<1>3. CASE End(p)
  BY <1>3, EndKeeps, <1>2, OutputKeeps DEF SlotInv, SlotTypeOK, Judgeable
<1>4. CASE Proceed(p, "generate")
  <2>1. proc[p].pc # "idle" /\ "generate" \in Answerers \ {"save gen"}
    BY <1>1 DEF Answerers
  <2>2. proc' \in [Procs -> Process \cup {NoProcess}] /\ RunsAreOfTheSlot'
    BY <2>1, <1>1, <1>4, ProceedKeeps
  <2> QED
    BY <2>2, <1>2, OutputKeeps DEF SlotInv, SlotTypeOK, Judgeable
<1>5. ASSUME NEW i \in Resumed(q, r.b), proc' = [proc EXCEPT ![p] = Generated(r, gen[i])]
      PROVE  SlotInv'
  <2>1. gen[i] \in GenRow
    BY <1>5 DEF SlotInv, SlotTypeOK, Resumed
  <2>2. gen[i].q = Len(r.g) + 1 /\ gen[i].b = r.b
    BY <1>5 DEF Resumed, Compatible, Asked
  <2>3. Generated(r, gen[i]) \in Process /\ RunIsSound(Generated(r, gen[i]))
    BY <2>1, <2>2, <1>1, GeneratedIsSound
  <2>4. proc' \in [Procs -> Process \cup {NoProcess}] /\ RunsAreOfTheSlot'
    BY <2>3, <1>5, OneRunKeeps
  <2> QED
    BY <2>4, <1>2, OutputKeeps DEF SlotInv, SlotTypeOK, Judgeable
<1> QED
  BY <1>3, <1>4, <1>5 DEF LoadGeneration

\* The provider's answer, or the judge's, is kept until it is stored.
LEMMA AskKeeps ==
    ASSUME SlotInv, NEW p \in Procs, Generate(p) \/ AskJudge(p) PROVE SlotInv'
<1>1. proc[p].pc # "idle" /\ UNCHANGED <<gen, jud, out, version>>
  BY DEF Generate, AskJudge
<1>2. proc[p] \in Process /\ RunIsSound(proc[p])
  BY <1>1, WorkerIs
<1>3. CASE Generate(p)
  <2>1. PICK x \in Given : proc' = [proc EXCEPT ![p].res = x, ![p].pc = "save gen"]
    BY <1>3 DEF Generate, Given
  <2>2. proc[p].pc \in Answerers /\ "save gen" \in Answerers
    BY <1>3 DEF Generate, Answerers
  <2>3. /\ [proc[p] EXCEPT !.res = x, !.pc = "save gen"] \in Process
        /\ RunIsSound([proc[p] EXCEPT !.res = x, !.pc = "save gen"])
    BY <2>2, <1>2, MovedIsSound
  <2>4. proc' = [proc EXCEPT ![p] = [proc[p] EXCEPT !.res = x, !.pc = "save gen"]]
    BY <2>1 DEF SlotInv, SlotTypeOK
  <2> QED
    BY <2>3, <2>4, <1>1, OneRunKeeps, OutputKeeps DEF SlotInv, SlotTypeOK, Judgeable
<1>4. CASE AskJudge(p)
  <2>1. PICK x \in Scores : proc' = [proc EXCEPT ![p].res = x, ![p].pc = "save jud"]
    BY <1>4 DEF AskJudge, Scores
  <2>2. proc[p].pc \in Judges /\ "save jud" \in Judges
    BY <1>4 DEF AskJudge, Judges
  <2>3. /\ [proc[p] EXCEPT !.res = x, !.pc = "save jud"] \in Process
        /\ RunIsSound([proc[p] EXCEPT !.res = x, !.pc = "save jud"])
    BY <2>2, <1>2, MovedIsSound
  <2>4. proc' = [proc EXCEPT ![p] = [proc[p] EXCEPT !.res = x, !.pc = "save jud"]]
    BY <2>1 DEF SlotInv, SlotTypeOK
  <2> QED
    BY <2>3, <2>4, <1>1, OneRunKeeps, OutputKeeps DEF SlotInv, SlotTypeOK, Judgeable
<1> QED
  BY <1>3, <1>4

\* A run that stops at a failed answer goes to its output file.
LEMMA StoppedIsSound ==
    ASSUME NEW r \in Process, RunIsSound(r), r.pc \in Answerers,
           NEW row \in GenRow, row.q = Len(r.g) + 1, row.b = r.b
    PROVE  Stopped(r, row) \in Process /\ RunIsSound(Stopped(r, row))
<1> DEFINE s == Stopped(r, row)
           t == Generated(r, row)
<1>1. t \in Process /\ RunIsSound(t)
  BY GeneratedIsSound
<1>2. /\ s.g = t.g /\ s.b = t.b /\ s.j = t.j /\ s.pc = "write"
      /\ Len(t.j) \in Nat /\ Len(t.g) \in Nat
  BY <1>1, ProcessIs DEF Process, Generated, Stopped
<1>3. s \in Process
  <2>1. Append(r.g, row) \in Seq(GenRow)
    BY ProcessIs
  <2>2. ASSUME NEW x \in Seq(GenRow) PROVE [r EXCEPT !.g = x, !.pc = "write"] \in Process
    BY DEF Process
  <2> QED
    BY <2>1, <2>2 DEF Stopped
<1> HIDE DEF s, t
<1>4. AnswersInOrder(s) /\ ScoresBeside(s)
  BY <1>1, <1>2 DEF RunIsSound, AnswersInOrder, ScoresBeside
<1>5. InPhase(s) /\ HasResult(s)
  BY <1>1, <1>2 DEF RunIsSound, InPhase, HasResult, Answerers, Judges
<1> QED
  BY <1>3, <1>4, <1>5 DEF RunIsSound, s

\* The row that is appended is the answer just given, for the question asked.
LEMMA SaveGenerationKeeps ==
    ASSUME SlotInv, NEW p \in Procs, SaveGeneration(p) PROVE SlotInv'
<1> DEFINE r == proc[p]
           row == [q |-> Asked(p), b |-> r.b, a |-> r.res]
<1>1. r \in Process /\ RunIsSound(r) /\ r.pc = "save gen" /\ r.pc \in Answerers
  BY WorkerIs DEF SaveGeneration, Answerers
<1>2. /\ UNCHANGED <<jud, out, version>> /\ gen' = Append(gen, row)
      /\ \/ proc' = [proc EXCEPT ![p] = Stopped(r, row)]
         \/ proc' = [proc EXCEPT ![p] = Generated(r, row)]
  <2>1. /\ UNCHANGED <<jud, out, version>> /\ gen' = Append(gen, row)
        /\ proc' = [proc EXCEPT ![p] =
             IF row.a \in GenStatus THEN Stopped(r, row) ELSE Generated(r, row)]
    BY Zenon DEF SaveGeneration
  <2> HIDE DEF row
  <2>2. CASE row.a \in GenStatus
    BY <2>1, <2>2
  <2>3. CASE row.a \notin GenStatus
    BY <2>1, <2>3
  <2> QED
    BY <2>1, <2>2, <2>3
<1>3. row \in GenRow /\ row.q = Len(r.g) + 1 /\ row.b = r.b
  <2>1. r.res \in Given /\ r.b \in Nat
    BY <1>1, ProcessIs DEF RunIsSound, HasResult
  <2>2. Len(r.g) \in Nat /\ Len(r.g) < N
    BY <1>1, ProcessIs DEF RunIsSound, InPhase
  <2>3. Asked(p) = Len(r.g) + 1 /\ Asked(p) \in Questions
    BY <2>2, SomeQuestions DEF Asked, Questions
  <2> QED
    BY <2>1, <2>3 DEF GenRow
<1> HIDE DEF row
<1>4. gen' \in Seq(GenRow)
  BY <1>2, <1>3 DEF SlotInv, SlotTypeOK
<1>5. proc' \in [Procs -> Process \cup {NoProcess}] /\ RunsAreOfTheSlot'
  BY <1>1, <1>2, <1>3, GeneratedIsSound, StoppedIsSound, OneRunKeeps
<1> QED
  BY <1>2, <1>4, <1>5, OutputKeeps DEF SlotInv, SlotTypeOK, Judgeable

\* A score, or a failed judgement, changes only the scores of a run.
LEMMA JudgedIs ==
    ASSUME NEW r \in Process, NEW row \in JudRow
    PROVE  /\ Judged(r, row) \in Process /\ Unjudged(r, row) \in Process
           /\ Judged(r, row).pc = IF Len(r.j) + 1 = N THEN "write" ELSE "judge"
           /\ Unjudged(r, row).pc = "write"
           /\ \A s \in {Judged(r, row), Unjudged(r, row)} :
                s.g = r.g /\ s.b = r.b /\ s.j = Append(r.j, row)
<1>1. Append(r.j, row) \in Seq(JudRow)
  BY ProcessIs
<1>2. ASSUME NEW x \in Seq(JudRow), NEW pc \in {"judge", "write"}
      PROVE  [r EXCEPT !.j = x, !.pc = pc] \in Process
  BY DEF Process, Judges
<1>3. Judged(r, row) \in Process /\ Unjudged(r, row) \in Process
  BY <1>1, <1>2 DEF Judged, Unjudged
<1>4. ASSUME NEW x, NEW pc
      PROVE  LET s == [r EXCEPT !.j = x, !.pc = pc]
             IN  s.g = r.g /\ s.b = r.b /\ s.j = x /\ s.pc = pc
  BY DEF Process
<1> QED
  BY <1>3, <1>4 DEF Judged, Unjudged

\* The answer that is judged next.
Answer(r) == r.g[Len(r.j) + 1]

\* There is one, for the question that follows the last score.
LEMMA AnswerIs ==
    ASSUME NEW r \in Process, RunIsSound(r), r.pc \in Judges
    PROVE  /\ Answer(r) \in GenRow /\ Answer(r).q = Len(r.j) + 1
           /\ Answer(r).b = r.b
<1>1. /\ r.g \in Seq(GenRow) /\ Len(r.j) \in Nat /\ Len(r.g) = N /\ Len(r.j) < N
  BY ProcessIs DEF RunIsSound, InPhase
<1>2. Len(r.j) + 1 \in DOMAIN r.g
  BY <1>1, SomeQuestions
<1> QED
  BY <1>1, <1>2 DEF Answer, RunIsSound, AnswersInOrder

\* A row whose key is the binding of an answer may stand beside this answer.
LEMMA NewScoreKeeps ==
    ASSUME SlotInv, NEW p \in Procs, proc[p].pc \in Judges, NEW row \in JudRow,
           row.q = Answer(proc[p]).q,
           row.shown = <<Answer(proc[p]).b, Answer(proc[p]).a>>,
           \/ proc' = [proc EXCEPT ![p] = Judged(proc[p], row)]
           \/ proc' = [proc EXCEPT ![p] = Unjudged(proc[p], row)]
    PROVE  proc' \in [Procs -> Process \cup {NoProcess}] /\ RunsAreOfTheSlot'
<1> DEFINE r == proc[p]
<1>1. r \in Process /\ RunIsSound(r)
  BY WorkerIs DEF Judges
<1>2. /\ row.q = Len(r.j) + 1 /\ row.shown = <<r.b, r.g[Len(r.j) + 1].a>>
  BY <1>1, AnswerIs DEF Answer
<1>3. PICK s \in {Judged(r, row), Unjudged(r, row)} : proc' = [proc EXCEPT ![p] = s]
  OBVIOUS
<1>4. /\ s \in Process /\ s.g = r.g /\ s.b = r.b /\ s.j = Append(r.j, row)
      /\ s.pc \in {"judge", "write"} /\ (s.pc = "judge" => Len(r.j) + 1 # N)
  BY <1>1, JudgedIs
<1>5. RunIsSound(s)
  BY <1>1, <1>2, <1>4, JudgedIsSound
<1> QED
  BY <1>3, <1>4, <1>5, OneRunKeeps

\* A resumed score has the binding of the answer that is judged, and so was
\* shown this answer.
LEMMA LoadJudgementKeeps ==
    ASSUME SlotInv, NEW p \in Procs, LoadJudgement(p) PROVE SlotInv'
<1> DEFINE r == proc[p]
<1>1. r \in Process /\ RunIsSound(r) /\ r.pc = "judge" /\ r.pc \in Judges
  BY WorkerIs DEF LoadJudgement, Judges
<1>2. UNCHANGED <<gen, jud, out, version>>
  BY DEF LoadJudgement
<1>3. CASE End(p)
  BY <1>3, EndKeeps, <1>2, OutputKeeps DEF SlotInv, SlotTypeOK, Judgeable
<1>4. CASE Proceed(p, "ask judge")
  <2>1. proc[p].pc # "idle" /\ "ask judge" \in Judges \ {"save jud"}
    BY <1>1 DEF Judges
  <2>2. proc' \in [Procs -> Process \cup {NoProcess}] /\ RunsAreOfTheSlot'
    BY <2>1, <1>1, <1>4, ProceedKeeps
  <2> QED
    BY <2>2, <1>2, OutputKeeps DEF SlotInv, SlotTypeOK, Judgeable
<1>5. ASSUME NEW i \in Judgements(Answer(r)), proc' = [proc EXCEPT ![p] = Judged(r, jud[i])]
      PROVE  SlotInv'
  <2>1. jud[i] \in JudRow /\ jud[i].shown = jud[i].key
    BY <1>5 DEF SlotInv, SlotTypeOK, Judgeable, Judgements
  <2>2. jud[i].q = Answer(r).q /\ jud[i].key = <<Answer(r).b, Answer(r).a>>
    BY <1>5 DEF Judgements, JudgeBinding
  <2>3. proc' \in [Procs -> Process \cup {NoProcess}] /\ RunsAreOfTheSlot'
    BY <2>1, <2>2, <1>1, <1>5, NewScoreKeeps
  <2> QED
    BY <2>3, <1>2, OutputKeeps DEF SlotInv, SlotTypeOK, Judgeable
<1> QED
  BY <1>3, <1>4, <1>5 DEF LoadJudgement, Answer

\* The row that is appended is the score just given, for the answer judged.
LEMMA SaveJudgementKeeps ==
    ASSUME SlotInv, NEW p \in Procs, SaveJudgement(p) PROVE SlotInv'
<1> DEFINE r == proc[p]
           g == Answer(r)
           row == [q |-> g.q, key |-> JudgeBinding(g), score |-> r.res,
                   shown |-> <<g.b, g.a>>]
<1>1. r \in Process /\ RunIsSound(r) /\ r.pc = "save jud" /\ r.pc \in Judges
  BY WorkerIs DEF SaveJudgement, Judges
<1>2. /\ UNCHANGED <<gen, out, version>>
      /\ \/ End(p) /\ UNCHANGED jud
         \/ /\ jud' = Append(jud, row)
            /\ proc' = [proc EXCEPT ![p] =
                 IF row.score = "scored" THEN Judged(r, row) ELSE Unjudged(r, row)]
  BY Zenon DEF SaveJudgement, Answer
<1>3. CASE End(p) /\ UNCHANGED jud
  BY <1>3, EndKeeps, <1>2, OutputKeeps DEF SlotInv, SlotTypeOK, Judgeable
<1>4. row \in JudRow /\ row.q = g.q /\ row.shown = <<g.b, g.a>> /\ row.key = row.shown
  <2>1. r.res \in Scores
    BY <1>1 DEF RunIsSound, HasResult
  <2>2. g \in GenRow
    BY <1>1, AnswerIs
  <2>3. g.q \in Questions /\ g.b \in Nat /\ g.a \in Given
    BY <2>2 DEF GenRow
  <2> QED
    BY <2>1, <2>3 DEF JudRow, JudgeBinding
<1> HIDE DEF row, g
<1>5. CASE /\ jud' = Append(jud, row)
           /\ proc' = [proc EXCEPT ![p] =
                IF row.score = "scored" THEN Judged(r, row) ELSE Unjudged(r, row)]
  <2>1. proc' \in [Procs -> Process \cup {NoProcess}] /\ RunsAreOfTheSlot'
    BY <1>5, <1>4, <1>1, NewScoreKeeps DEF g
  <2>2. jud \in Seq(JudRow) /\ jud' \in Seq(JudRow)
    BY <1>4, <1>5 DEF SlotInv, SlotTypeOK
  <2>3. Judgeable'
    BY <1>4, <1>5, <2>2 DEF SlotInv, Judgeable
  <2> QED
    BY <2>1, <2>2, <2>3, <1>2, OutputKeeps DEF SlotInv, SlotTypeOK
<1> QED
  BY <1>2, <1>3, <1>5

\* The output file is the summary of a run in memory.
LEMMA WriteKeeps == ASSUME SlotInv, NEW p \in Procs, WriteOutput(p) PROVE SlotInv'
<1>1. proc[p] \in Process /\ RunIsSound(proc[p])
  BY WorkerIs DEF WriteOutput
<1>2. out' = Summary(proc[p]) /\ End(p) /\ UNCHANGED <<gen, jud, version>>
  BY DEF WriteOutput
<1>3. OutputIsOfARun'
  BY <1>1, <1>2 DEF OutputIsOfARun
<1> QED
  BY <1>2, <1>3, EndKeeps DEF SlotInv, SlotTypeOK, Judgeable

\* A kill takes the memory, and at most tears the output file.
LEMMA CrashKeeps == ASSUME SlotInv, NEW p \in Procs, Crash(p) PROVE SlotInv'
<1>1. End(p) /\ UNCHANGED <<gen, jud, version>> /\ out' \in {out, [kind |-> "torn"]}
  BY DEF Crash
<1>2. OutputIsOfARun'
  BY <1>1 DEF SlotInv, OutputIsOfARun
<1> QED
  BY <1>1, <1>2, EndKeeps DEF SlotInv, SlotTypeOK, Judgeable

\* A start changes no file.
LEMMA LaunchRunKeeps == ASSUME SlotInv, NEW p \in Procs, LaunchRun(p) PROVE SlotInv'
<1>1. PICK pc \in {"load", "unlink gen"} :
        proc' = [proc EXCEPT ![p] = [Started(version) EXCEPT !.pc = pc]]
  BY DEF LaunchRun
<1>2. version \in Nat
  BY DEF SlotInv, SlotTypeOK
<1>3. proc' \in [Procs -> Process \cup {NoProcess}] /\ RunsAreOfTheSlot'
  BY <1>1, <1>2, StartedIs, OneRunKeeps
<1>4. UNCHANGED <<gen, jud, out, version>>
  BY DEF LaunchRun
<1> QED
  BY <1>3, <1>4, OutputKeeps DEF SlotInv, SlotTypeOK, Judgeable

\* Every step of the slot keeps the invariant.
LEMMA SlotStep == SlotInv /\ [SlotNext]_slotVars => SlotInv'
<1> SUFFICES ASSUME SlotInv, [SlotNext]_slotVars PROVE SlotInv'
  OBVIOUS
<1>1. ASSUME Redeploy \/ UNCHANGED slotVars PROVE SlotInv'
  <2>1. version' \in Nat /\ UNCHANGED <<gen, jud, out, proc>>
    BY <1>1 DEF Redeploy, slotVars, SlotInv, SlotTypeOK
  <2>2. RunsAreOfTheSlot'
    BY <2>1 DEF SlotInv, RunsAreOfTheSlot
  <2> QED
    BY <2>1, <2>2, OutputKeeps DEF SlotInv, SlotTypeOK, Judgeable
<1>2. ASSUME NEW p \in Procs, LaunchRun(p) \/ RunStep(p) \/ Crash(p) PROVE SlotInv'
  BY <1>2, LaunchRunKeeps, CrashKeeps, UnlinkKeeps, LoadGenerationKeeps,
     AskKeeps, SaveGenerationKeeps, LoadJudgementKeeps, SaveJudgementKeeps, WriteKeeps
     DEF RunStep
<1> QED
  BY <1>1, <1>2 DEF SlotNext

\* What the output file says is what the run it summarises held.
LEMMA OutputScores == SlotInv => ScoresMatchAnswers
<1> SUFFICES ASSUME SlotInv, out.kind = "summary",
                    NEW i \in DOMAIN out.j
             PROVE  /\ out.j[i].q = out.g[i].q
                    /\ out.j[i].shown = <<out.g[i].b, out.g[i].a>>
  BY DEF ScoresMatchAnswers
<1>1. PICK r \in Process : RunIsSound(r) /\ out = Summary(r)
  BY DEF SlotInv, OutputIsOfARun
<1>2. out.g = r.g /\ out.j = r.j
  BY <1>1 DEF Summary
<1>3. i \in 1..Len(r.j) /\ Len(r.j) <= Len(r.g) /\ Len(r.j) \in Nat /\ Len(r.g) \in Nat
  BY <1>1, <1>2, ProcessIs DEF RunIsSound, InPhase
<1>4. i \in DOMAIN r.j /\ i \in DOMAIN r.g
  BY <1>3, ProcessIs
<1> QED
  BY <1>1, <1>2, <1>4 DEF RunIsSound, ScoresBeside, AnswersInOrder

\* A summary that calls itself eligible was complete in memory.
LEMMA OutputResults == SlotInv => ResultsAreBound
<1> SUFFICES ASSUME SlotInv, out.kind = "summary" PROVE ResultsAreBound
  BY DEF ResultsAreBound, AnswersAreBound, EligibleIsComplete
<1>1. PICK r \in Process : RunIsSound(r) /\ out = Summary(r)
  BY DEF SlotInv, OutputIsOfARun
<1>2. out.g = r.g /\ out.j = r.j /\ out.b = r.b /\ out.eligible = Eligible(r)
  BY <1>1 DEF Summary
<1>3. AnswersAreBound
  BY <1>1, <1>2 DEF AnswersAreBound, RunIsSound, AnswersInOrder
<1>4. ASSUME Eligible(r), NEW q \in Questions
      PROVE  /\ \E i \in DOMAIN r.g : r.g[i].q = q /\ r.g[i].a \in Answers
             /\ \E i \in DOMAIN r.j : r.j[i].q = q /\ r.j[i].score = "scored"
  <2>1. Len(r.g) = N /\ Len(r.j) = N
    BY <1>4 DEF Eligible, AnsweredAll, ScoredAll
  <2>2. q \in DOMAIN r.g /\ q \in DOMAIN r.j
    BY <2>1, ProcessIs, SomeQuestions DEF Questions
  <2>3. r.g[q] \in GenRow
    BY <2>2, ProcessIs
  <2>4. r.g[q].q = q /\ r.g[q].a \in Answers
    BY <1>1, <1>4, <2>2, <2>3 DEF RunIsSound, AnswersInOrder, Eligible, AnsweredAll, GenRow, Given
  <2>5. r.j[q].q = q /\ r.j[q].score = "scored"
    BY <1>1, <1>4, <2>2 DEF RunIsSound, ScoresBeside, Eligible, ScoredAll
  <2> QED
    BY <2>2, <2>4, <2>5
<1>5. EligibleIsComplete
  BY <1>2, <1>4 DEF EligibleIsComplete
<1> QED
  BY <1>3, <1>5 DEF ResultsAreBound

\* run_phase2 pairs every score of an output file with the answer it was given
\* to, however often the slot was resumed, shared, torn or wiped.
THEOREM ScoreSafety == SlotSpec => []ScoresMatchAnswers
BY SlotStarts, SlotStep, OutputScores, PTL DEF SlotSpec

\* An output file of run_phase2 is of one generation binding, and complete if
\* it calls itself eligible.
THEOREM ResultBinding == SlotSpec => []ResultsAreBound
BY SlotStarts, SlotStep, OutputResults, PTL DEF SlotSpec
=============================================================================
