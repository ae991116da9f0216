-------------------------- MODULE Campaign_proofs --------------------------
(***************************************************************************)
(* Proofs about the campaigns, for any number of processes, campaigns and  *)
(* cases, any budgets, deployments, kills and interrupts.                  *)
(*                                                                         *)
(* Two invariants.  SpendInv is about requests: the lock file of a ledger  *)
(* has one holder, whose open attempt is the last row of its operation, so *)
(* a row is reserved in the ledger of the campaign, and in that of the     *)
(* round, before its request is sent, and no row pays for two.  CourseInv  *)
(* is about decisions: what lies behind the position of a process in its   *)
(* program is completed in the ledger, whoever completed it.               *)
(***************************************************************************)
EXTENDS Campaign, FiniteSetTheorems, SequenceTheorems, TLAPS

-----------------------------------------------------------------------------
(* Requests. *)

Opened == {"round", "reserve", "send", "settle", "finish", "record"}
Holding == Opened \cup {"decide"}
Resting == {"next", "load", "correct", "store", "incomplete", "failed"}

Thread == [pc : Holding \cup Resting, c : Campaigns, at : Nat \ {0}, op : Ops,
           mem : SUBSET Ops, prompt : Nat \ {0},
           out : {"none", "good", "bad", "retryable", "fatal"}]

SpendTypeOK ==
    /\ att \in [Campaigns -> [Ops -> Seq(Outcomes)]]
    /\ req \in [Campaigns -> [Ops -> Nat]]
    /\ round \in [Bilingual -> [Ops -> Seq({"reserved", "completed", "error"})]]
    /\ sent \in [Campaigns -> [Ops -> Nat]]
    /\ lock \subseteq Campaigns
    /\ proc \in [Procs -> Thread \cup {Idle}]
    /\ prompt \in Nat \ {0}

\* An attempt is in progress, and those before it failed in transport.
OpenRow(a) ==
    a # <<>> /\ a[Len(a)] = "reserved" /\ \A i \in 1..(Len(a) - 1) : a[i] = "retryable"

\* The request of a thread that holds a lock has a slot of its own.
ThreadIsPaid(p) ==
    LET r == proc[p]
    IN  /\ r.pc \in Holding => r.c \in lock
        /\ r.pc \in Opened => OpenRow(att[r.c][r.op])
        /\ r.pc \in {"round", "reserve", "send"} => sent[r.c][r.op] < Len(att[r.c][r.op])
        /\ r.pc \in {"round", "reserve", "settle", "finish"} => r.c \in Bilingual
        /\ r.pc = "send" /\ r.c \in Bilingual => sent[r.c][r.op] < Len(round[r.c][r.op])
        /\ r.pc \in {"settle", "finish", "record"} => r.out # "none"

Apart == \A p, q \in Procs :
            p # q /\ proc[p].pc \in Holding /\ proc[q].pc \in Holding => proc[p].c # proc[q].c

Slots(c) == UNION {{o} \X DOMAIN att[c][o] : o \in Ops}
RoundSlots == UNION {{x} \X DOMAIN round[x[1]][x[2]] : x \in Bilingual \X Ops}

CampaignIsPaid(c) ==
    /\ IsFiniteSet(Slots(c)) /\ Cardinality(Slots(c)) <= Limit
    /\ \A o \in Ops : sent[c][o] <= Len(att[c][o])

RoundIsPaid ==
    /\ IsFiniteSet(RoundSlots) /\ Cardinality(RoundSlots) <= RoundLimit
    /\ \A c \in Bilingual, o \in Ops : sent[c][o] <= Len(round[c][o])

SpendInv ==
    /\ SpendTypeOK
    /\ Apart
    /\ \A p \in Procs : ThreadIsPaid(p)
    /\ \A c \in Campaigns : CampaignIsPaid(c)
    /\ RoundIsPaid

-----------------------------------------------------------------------------
(* Decisions. *)

CourseTypeOK ==
    /\ resp \in [Campaigns -> [Ops -> {"none", "good", "bad"}]]
    /\ cal \in [Campaigns -> {"none", "passed", "failed"}]
    /\ rec \in [Campaigns -> [Ops -> Seq(Nat)]]
    /\ status \in [Campaigns -> {"none", "GO", "NO-GO", "INCOMPLETE"}]

\* The checkpoint and the calibration file of a campaign are backed by its ledger.
FilesAreBacked(c) ==
    /\ \A o \in Ops : rec[c][o] # <<>> => Completed(c, o) /\ o # Calibration
    /\ cal[c] # "none" => Completed(c, Calibration)
    /\ cal[c] = "passed" <=> cal[c] # "none" /\ Calibrated(c)

\* The stages before position n are behind a process of prompt version v.
Passed(c, v, n) ==
    \A i \in DOMAIN Program(c) : i < n =>
        /\ Completed(c, Program(c)[i])
        /\ c \in EvidenceV3 => req[c][Program(c)[i]] = v /\ cal[c] = "passed"

\* The operation of a thread is that of its stage, or corrects its draft.
OnStage(r) ==
    /\ r.at \in DOMAIN Program(r.c)
    /\ LET o == Program(r.c)[r.at]
       IN  \/ r.op = o
           \/ /\ r.c \in Bilingual /\ o[1] = "generation" /\ r.op = Correction(o)
              /\ Completed(r.c, o)

\* Where a process is in the program of its campaign.
Placed(r) ==
    /\ r.at \in 1..(Len(Program(r.c)) + 1) /\ Passed(r.c, r.prompt, r.at)
    /\ \A o \in r.mem : rec[r.c][o] # <<>>

\* What it asks for there, with which prompt, and what it has been told.
OnTask(r) ==
    /\ r.pc \in Holding \cup {"store", "correct"} => OnStage(r)
    /\ r.pc \in Opened \cup {"store"} => req[r.c][r.op] = r.prompt
    /\ r.pc = "store" => Completed(r.c, r.op)

OnCourse(r) == r.pc # "idle" => Placed(r) /\ OnTask(r)

\* An evidence campaign goes through its program in order, with one prompt.
InOrder(c) ==
    \A i, k \in DOMAIN Program(c) : i < k /\ att[c][Program(c)[k]] # <<>> =>
        Completed(c, Program(c)[i]) /\ req[c][Program(c)[i]] = req[c][Program(c)[k]]

CourseInv ==
    /\ CourseTypeOK
    /\ \A c \in Campaigns : FilesAreBacked(c)
    /\ \A c \in EvidenceV3 : InOrder(c)
    /\ \A p \in Procs : OnCourse(proc[p])
    /\ GoIsEarned

-----------------------------------------------------------------------------
(* What SpendInv rests on. *)

LEMMA ThreadTyped ==
    ASSUME SpendInv, NEW p \in Procs, proc[p].pc # "idle"
    PROVE  proc[p] \in Thread
  BY DEF SpendInv, SpendTypeOK, Idle

LEMMA LedgerTyped ==
    ASSUME SpendInv, NEW c \in Campaigns, NEW o \in Ops
    PROVE  /\ att[c][o] \in Seq(Outcomes) /\ req[c][o] \in Nat /\ sent[c][o] \in Nat
           /\ c \in Bilingual => round[c][o] \in Seq({"reserved", "completed", "error"})
  BY DEF SpendInv, SpendTypeOK

\* A row more, where there was one slot left.
LEMMA SlotTaken ==
    ASSUME NEW S, NEW T, NEW x, NEW n \in Nat, IsFiniteSet(S), T = S \cup {x}, Cardinality(S) < n
    PROVE  IsFiniteSet(T) /\ Cardinality(T) <= n
<1>1. /\ IsFiniteSet(T)
      /\ Cardinality(T) = IF x \in S THEN Cardinality(S) ELSE Cardinality(S) + 1
  BY FS_AddElement
<1>2. Cardinality(S) \in Nat
  BY FS_CardinalityType
<1> QED
  BY <1>1, <1>2

LEMMA SlotsAppended ==
    ASSUME SpendInv, NEW c \in Campaigns, NEW o \in Ops, NEW e \in Outcomes,
           att' = [att EXCEPT ![c][o] = Append(@, e)]
    PROVE  /\ Slots(c)' = Slots(c) \cup {<<o, Len(att[c][o]) + 1>>}
           /\ \A d \in Campaigns : d # c => Slots(d)' = Slots(d)
           /\ att'[c][o] = Append(att[c][o], e)
           /\ \A d \in Campaigns, x \in Ops : <<d, x>> # <<c, o>> => att'[d][x] = att[d][x]
<1>1. PICK a \in Seq(Outcomes) : a = att[c][o]
  BY LedgerTyped
<1>2. /\ att'[c][o] = Append(a, e)
      /\ \A d \in Campaigns, x \in Ops : <<d, x>> # <<c, o>> => att'[d][x] = att[d][x]
  BY <1>1 DEF SpendInv, SpendTypeOK
<1>3. DOMAIN Append(a, e) = DOMAIN a \cup {Len(a) + 1}
  OBVIOUS
<1>4. Slots(c)' = Slots(c) \cup {<<o, Len(a) + 1>>}
  BY <1>1, <1>2, <1>3 DEF Slots
<1>5. \A d \in Campaigns : d # c => Slots(d)' = Slots(d)
  BY <1>2 DEF Slots
<1> QED
  BY <1>1, <1>2, <1>4, <1>5

\* The last row of an operation is replaced by its terminal row.
LEMMA RowSettled ==
    ASSUME NEW S, NEW a \in Seq(S), NEW e \in S
    PROVE  /\ Settle(a, e) \in Seq(S) /\ Len(Settle(a, e)) = Len(a)
           /\ DOMAIN Settle(a, e) = DOMAIN a
           /\ \A i \in 1..(Len(a) - 1) : Settle(a, e)[i] = a[i]
           /\ a # <<>> => Settle(a, e)[Len(a)] = e
<1>1. PICK n \in Nat : n = Len(a) /\ DOMAIN a = 1..n /\ a \in [1..n -> S]
  OBVIOUS
<1>2. PICK b \in [1..n -> S] : b = Settle(a, e)
  BY <1>1 DEF Settle
<1>3. b \in Seq(S) /\ Len(b) = n /\ DOMAIN b = 1..n
  OBVIOUS
<1>4. \A i \in 1..(n - 1) : i \in 1..n /\ i # n
  OBVIOUS
<1>5. \A i \in 1..n : b[i] = IF i = n THEN e ELSE a[i]
  BY <1>1, <1>2 DEF Settle
<1>6. a # <<>> => n \in 1..n
  BY <1>1
<1> QED
  BY <1>1, <1>2, <1>3, <1>4, <1>5, <1>6

-----------------------------------------------------------------------------
(* Steps of one thread. *)

\* A thread whose record does not change keeps its lock and its row, if the
\* rows of its campaign stay.
LEMMA OthersArePaid ==
    ASSUME SpendInv, NEW q \in Procs, proc'[q] = proc[q],
           proc[q].pc \in Holding =>
             /\ proc[q].c \in lock'
             /\ att'[proc[q].c] = att[proc[q].c] /\ sent'[proc[q].c] = sent[proc[q].c]
             /\ proc[q].c \in Bilingual => round'[proc[q].c] = round[proc[q].c]
    PROVE  ThreadIsPaid(q)'
<1>1. ThreadIsPaid(q)
  BY DEF SpendInv
<1>2. CASE proc[q].pc \in Holding
  BY <1>1, <1>2 DEF ThreadIsPaid, Holding, Opened
<1>3. CASE proc[q].pc \notin Holding
  BY <1>3 DEF ThreadIsPaid, Holding, Opened
<1> QED
  BY <1>2, <1>3

\* The thread p goes on to new, which holds a lock only if p held it before.
LEMMA StillApart ==
    ASSUME SpendInv, NEW p \in Procs, NEW new \in Thread \cup {Idle},
           proc' = [proc EXCEPT ![p] = new],
           new.pc \in Holding => proc[p].pc \in Holding /\ new.c = proc[p].c
    PROVE  Apart' /\ proc'[p] = new /\ \A q \in Procs : q # p => proc'[q] = proc[q]
<1>1. proc'[p] = new /\ \A q \in Procs : q # p => proc'[q] = proc[q]
  BY DEF SpendInv, SpendTypeOK
<1> QED
  BY <1>1 DEF Apart, SpendInv

\* The thread gives up its lock, or never had one, and no row is written.
LEMMA Rests ==
    ASSUME SpendInv, NEW p \in Procs, NEW new \in Thread \cup {Idle},
           proc' = [proc EXCEPT ![p] = new], new.pc \notin Holding,
           lock' \subseteq lock,
           \A c \in lock \ lock' : proc[p].pc \in Holding /\ c = proc[p].c,
           UNCHANGED <<att, req, round, sent, prompt>>
    PROVE  SpendInv'
<1>1. Apart' /\ proc'[p] = new /\ \A q \in Procs : q # p => proc'[q] = proc[q]
  BY StillApart
<1>2. ThreadIsPaid(p)'
  BY <1>1 DEF ThreadIsPaid, Holding, Opened
<1>3. ASSUME NEW q \in Procs, q # p PROVE ThreadIsPaid(q)'
  <2>1. proc[q].pc \in Holding => proc[q].c \in lock'
    BY <1>3 DEF SpendInv, Apart, ThreadIsPaid
  <2> QED
    BY <1>1, <1>3, <2>1, OthersArePaid
<1>4. SpendTypeOK'
  BY DEF SpendInv, SpendTypeOK
<1>5. \A c \in Campaigns : CampaignIsPaid(c)'
  BY DEF SpendInv, CampaignIsPaid, Slots
<1>6. RoundIsPaid'
  BY DEF SpendInv, RoundIsPaid, RoundSlots
<1> QED
  BY <1>1, <1>2, <1>3, <1>4, <1>5, <1>6 DEF SpendInv

\* The thread keeps its lock, its operation and its row.
LEMMA Continues ==
    ASSUME SpendInv, NEW p \in Procs, NEW new \in Thread,
           proc' = [proc EXCEPT ![p] = new],
           proc[p].pc \in Opened, new.pc \in {"reserve", "finish", "record"},
           new.c = proc[p].c, new.op = proc[p].op,
           new.pc = "reserve" => proc[p].pc \in {"round", "reserve"},
           new.pc = "finish" => proc[p].pc = "settle",
           new.pc # "reserve" => new.out # "none",
           UNCHANGED <<lock, att, req, round, sent, prompt>>
    PROVE  SpendInv'
<1>1. Apart' /\ proc'[p] = new /\ \A q \in Procs : q # p => proc'[q] = proc[q]
  BY StillApart DEF Holding
<1>2. ThreadIsPaid(p)'
  BY <1>1 DEF SpendInv, ThreadIsPaid, Holding, Opened
<1>3. \A q \in Procs : q # p => ThreadIsPaid(q)'
  BY <1>1, OthersArePaid DEF SpendInv, ThreadIsPaid
<1>4. SpendTypeOK'
  BY DEF SpendInv, SpendTypeOK
<1>5. \A c \in Campaigns : CampaignIsPaid(c)'
  BY DEF SpendInv, CampaignIsPaid, Slots
<1>6. RoundIsPaid'
  BY DEF SpendInv, RoundIsPaid, RoundSlots
<1> QED
  BY <1>1, <1>2, <1>3, <1>4, <1>5, <1>6 DEF SpendInv

-----------------------------------------------------------------------------
(* The program of a campaign. *)

\* No element of s is there twice.
Once(s) == \A i, k \in DOMAIN s : i # k => s[i] # s[k]

Disjoint(A, B) == A \cap B = {}

Joinable(A, B, s, t) ==
    Disjoint(A, B) /\ s \in Seq(A) /\ t \in Seq(B) /\ Once(s) /\ Once(t) /\ s # <<>>
Joined(A, B, s, t) ==
    /\ s \o t \in Seq(A \cup B) /\ Once(s \o t)
    /\ s \o t # <<>> /\ (s \o t)[1] = s[1]

LEMMA OnceJoined ==
    ASSUME NEW A, NEW B, NEW s, NEW t, Joinable(A, B, s, t)
    PROVE  Joined(A, B, s, t)
<1> SUFFICES ASSUME Disjoint(A, B), s \in Seq(A), t \in Seq(B), Once(s), Once(t), s # <<>>
             PROVE  Joined(A, B, s, t)
  BY DEF Joinable
<1>1. PICK m \in Nat, n \in Nat : m = Len(s) /\ n = Len(t) /\ DOMAIN s = 1..m /\ DOMAIN t = 1..n
                             /\ s \in [1..m -> A] /\ t \in [1..n -> B]
  OBVIOUS
<1>2. s \in Seq(A \cup B) /\ t \in Seq(A \cup B)
  OBVIOUS
<1>3. PICK u \in Seq(A \cup B) : u = s \o t /\ Len(u) = m + n /\ DOMAIN u = 1..(m + n)
  <2>1. PICK u \in Seq(A \cup B) : u = s \o t /\ Len(u) = m + n
    BY <1>1, <1>2, ConcatProperties
  <2>2. DOMAIN u = 1..Len(u)
    OBVIOUS
  <2> QED
    BY <2>1, <2>2
<1>4. \A i \in 1..(m + n) : u[i] = IF i <= m THEN s[i] ELSE t[i - m]
  BY <1>1, <1>2, <1>3, ConcatProperties
<1>5. \A i \in 1..(m + n) : \/ i <= m /\ i \in 1..m /\ s[i] \in A
                            \/ ~(i <= m) /\ i - m \in 1..n /\ t[i - m] \in B
  <2> TAKE i \in 1..(m + n)
  <2>1. CASE i <= m
    <3>1. i \in 1..m
      BY <2>1
    <3>2. s[i] \in A
      BY <1>1, <3>1
    <3> QED
      BY <2>1, <3>1, <3>2
  <2>2. CASE ~(i <= m)
    <3>1. i - m \in 1..n /\ ~(i <= m)
      BY <2>2
    <3>2. t[i - m] \in B
      BY <1>1, <3>1
    <3> QED
      BY <3>1, <3>2
  <2> QED
    BY <2>1, <2>2
<1>6. Once(u)
  <2> SUFFICES ASSUME NEW i \in 1..(m + n), NEW k \in 1..(m + n), i # k PROVE u[i] # u[k]
    BY <1>3 DEF Once
  <2>1. CASE i <= m /\ k <= m
    BY <1>1, <1>4, <1>5, <2>1 DEF Once
  <2>2. CASE ~(i <= m) /\ ~(k <= m)
    <3>1. i - m # k - m /\ i - m \in 1..n /\ k - m \in 1..n
      BY <1>5, <2>2
    <3>2. t[i - m] # t[k - m]
      BY <1>1, <3>1 DEF Once
    <3> QED
      BY <1>4, <2>2, <3>2
  <2>3. CASE i <= m /\ ~(k <= m)
    <3>1. u[i] \in A /\ u[k] \in B
      BY <1>4, <1>5, <2>3
    <3> QED
      BY <3>1 DEF Disjoint
  <2>4. CASE ~(i <= m) /\ k <= m
    <3>1. u[i] \in B /\ u[k] \in A
      BY <1>4, <1>5, <2>4
    <3> QED
      BY <3>1 DEF Disjoint
  <2> QED
    BY <2>1, <2>2, <2>3, <2>4
<1>7. m >= 1
  BY <1>1
<1> QED
  BY <1>1, <1>3, <1>4, <1>6, <1>7 DEF Joined

Asked == {Calibration} \cup ({"generation", "judge", "legacy"} \X (1..Cases))

\* What the scripts ask for: the calibration, then each case once per kind.
LEMMA ProgramIs ==
    ASSUME NEW c \in Campaigns
    PROVE  /\ Program(c) \in Seq(Asked) /\ Program(c) \in Seq(Ops) /\ Once(Program(c))
           /\ Program(c) # <<>> /\ Program(c)[1] = Calibration
<1>1. ASSUME NEW kind \in {"generation", "judge", "legacy"}
      PROVE  Stage(kind) \in Seq({kind} \X (1..Cases)) /\ Once(Stage(kind))
  <2>1. Stage(kind) \in [1..Cases -> {kind} \X (1..Cases)] /\ Cases \in Nat
    BY CampaignAssumption DEF Stage
  <2>2. Stage(kind) \in Seq({kind} \X (1..Cases))
    BY <2>1
  <2> QED
    BY <2>1, <2>2 DEF Stage, Once
<1> DEFINE K == {Calibration}
           G == {"generation"} \X (1..Cases)
           J == {"judge"} \X (1..Cases)
           L == {"legacy"} \X (1..Cases)
<1>2. PICK l \in Seq(L) : l = (IF c \in EvidenceV3 THEN Stage("legacy") ELSE <<>>) /\ Once(l)
  <2>1. <<>> \in Seq(L) /\ Once(<<>>)
    BY DEF Once
  <2> QED
    BY <1>1, <2>1
<1>3. PICK k \in Seq(K) : k = <<Calibration>> /\ Once(k) /\ k # <<>> /\ k[1] = Calibration
  <2>1. <<Calibration>> \in Seq(K) /\ Once(<<Calibration>>) /\ <<Calibration>> # <<>>
    BY DEF Once
  <2> QED
    BY <2>1
<1>4. PICK g \in Seq(G) : g = Stage("generation") /\ Once(g)
  BY <1>1
<1>5. PICK j \in Seq(J) : j = Stage("judge") /\ Once(j)
  BY <1>1
<1>6. Disjoint(K, G) /\ Disjoint(K \cup G, J) /\ Disjoint((K \cup G) \cup J, L)
  BY DEF Calibration, Disjoint
<1> HIDE DEF K, G, J, L
<1>7. PICK a \in Seq(K \cup G) : a = k \o g /\ Once(a) /\ a # <<>> /\ a[1] = Calibration
  <2>1. Joinable(K, G, k, g)
    BY <1>3, <1>4, <1>6 DEF Joinable
  <2>2. Joined(K, G, k, g)
    BY <2>1, OnceJoined
  <2> QED
    BY <1>3, <2>2 DEF Joined
<1>8. PICK b \in Seq((K \cup G) \cup J) : b = a \o j /\ Once(b) /\ b # <<>> /\ b[1] = Calibration
  <2>1. Joinable(K \cup G, J, a, j)
    BY <1>5, <1>6, <1>7 DEF Joinable
  <2>2. Joined(K \cup G, J, a, j)
    BY <2>1, OnceJoined
  <2> QED
    BY <1>7, <2>2 DEF Joined
<1>9. PICK d \in Seq(((K \cup G) \cup J) \cup L) :
        d = b \o l /\ Once(d) /\ d # <<>> /\ d[1] = Calibration
  <2>1. Joinable((K \cup G) \cup J, L, b, l)
    BY <1>2, <1>6, <1>8 DEF Joinable
  <2>2. Joined((K \cup G) \cup J, L, b, l)
    BY <2>1, OnceJoined
  <2> QED
    BY <1>8, <2>2 DEF Joined
<1>10. d = Program(c)
  BY <1>2, <1>3, <1>4, <1>5, <1>7, <1>8, <1>9 DEF Program
<1>11. ((K \cup G) \cup J) \cup L = Asked /\ Asked \subseteq Ops
  BY DEF K, G, J, L, Asked, Ops
<1>12. d \in Seq(Asked) /\ d \in Seq(Ops)
  <2>1. d \in Seq(Asked)
    BY <1>9, <1>11
  <2>2. Asked \subseteq Ops
    BY <1>11
  <2> QED
    BY <2>1, <2>2
<1> QED
  BY <1>9, <1>10, <1>12

-----------------------------------------------------------------------------
(* The steps preserve SpendInv. *)

LEMMA RaisedRests ==
    ASSUME NEW r \in Thread
    PROVE  Raised(r) \in Thread \cup {Idle} /\ Raised(r).pc \notin Holding
  BY DEF Raised, Thread, Idle, Holding, Opened, Resting

LEMMA StageBehind ==
    ASSUME NEW r \in Thread, NEW pc \in Resting
    PROVE  LET new == [r EXCEPT !.at = @ + 1, !.pc = pc]
           IN  /\ new \in Thread /\ new.pc = pc /\ pc \notin Holding /\ new.at = r.at + 1
               /\ new.c = r.c /\ new.op = r.op /\ new.mem = r.mem /\ new.prompt = r.prompt
<1>1. PICK n \in Nat \ {0} : n = r.at + 1
  BY DEF Thread
<1>2. [r EXCEPT !.at = n, !.pc = pc] \in Thread
  BY DEF Thread, Resting
<1>3. pc \notin Holding
  BY DEF Resting, Holding, Opened
<1> QED
  BY <1>1, <1>2, <1>3 DEF Thread

LEMMA StageTyped ==
    ASSUME SpendInv, NEW p \in Procs, proc[p].pc # "idle", ~Finished(p)
    PROVE  proc[p].at \in DOMAIN Program(proc[p].c) /\ Program(proc[p].c)[proc[p].at] \in Ops
<1>1. proc[p].c \in Campaigns /\ proc[p].at \in Nat \ {0}
  BY ThreadTyped DEF Thread
<1>2. PICK u \in Seq(Ops) : u = Program(proc[p].c)
  BY <1>1, ProgramIs
<1>3. ~(proc[p].at > Len(u))
  BY <1>2 DEF Finished
<1>4. proc[p].at \in DOMAIN u
  BY <1>1, <1>3
<1> QED
  BY <1>2, <1>4

\* The steps of a script that take no lock and write no row.
LEMMA ReadsPreserve ==
    ASSUME SpendInv, NEW p \in Procs,
           ReadCheckpoint(p) \/ Skip(p) \/ Finish(p) \/ WriteFailure(p)
    PROVE  SpendInv'
<1>1. proc[p] \in Thread
  BY ThreadTyped DEF ReadCheckpoint, Skip, Finish, WriteFailure
<1>2. UNCHANGED <<lock, att, req, round, sent, prompt>>
  BY DEF ReadCheckpoint, Skip, Finish, WriteFailure, ledger, bounds
<1>3. PICK new \in Thread \cup {Idle} : proc' = [proc EXCEPT ![p] = new] /\ new.pc \notin Holding
  <2>1. CASE ReadCheckpoint(p)
    <3>1. CASE Raise(p)
      BY <1>1, <3>1, RaisedRests DEF Raise
    <3>2. CASE proc' = [proc EXCEPT ![p].pc = "next",
                                    ![p].mem = {o \in Ops : rec[proc[p].c][o] # <<>>}]
      <4> DEFINE new == [proc[p] EXCEPT !.pc = "next", !.mem = {o \in Ops : rec[proc[p].c][o] # <<>>}]
      <4>1. new \in Thread /\ new.pc \notin Holding
        BY <1>1 DEF Thread, Resting, Holding, Opened
      <4>2. proc' = [proc EXCEPT ![p] = new]
        BY <3>2 DEF SpendInv, SpendTypeOK
      <4> QED
        BY <4>1, <4>2
    <3> QED
      BY <2>1, <3>1, <3>2 DEF ReadCheckpoint
  <2>2. CASE Skip(p)
    <3>1. CASE Raise(p)
      BY <1>1, <3>1, RaisedRests DEF Raise
    <3>2. ASSUME NEW pc \in Resting,
                 proc' = [proc EXCEPT ![p].at = @ + 1, ![p].pc = pc]
          PROVE  \E new \in Thread \cup {Idle} :
                    proc' = [proc EXCEPT ![p] = new] /\ new.pc \notin Holding
      <4> DEFINE new == [proc[p] EXCEPT !.at = @ + 1, !.pc = pc]
      <4>1. new \in Thread /\ new.pc \notin Holding
        BY <1>1, StageBehind
      <4>2. proc' = [proc EXCEPT ![p] = new]
        BY <3>2 DEF SpendInv, SpendTypeOK
      <4> QED
        BY <4>1, <4>2
    <3> QED
      BY <2>2, <3>1, <3>2 DEF Skip, Resting
  <2>3. CASE Finish(p) \/ WriteFailure(p)
    BY <2>3 DEF Finish, WriteFailure, Idle, Holding, Opened
  <2> QED
    BY <2>1, <2>2, <2>3
<1> QED
  BY <1>2, <1>3, Rests

\* The steps that store a response.
LEMMA StoresPreserve ==
    ASSUME SpendInv, NEW p \in Procs,
           StoreBilingual(p) \/ StoreEvidence(p) \/ StoreLegacy(p) \/ StoreCalibration(p)
    PROVE  SpendInv'
<1>1. proc[p] \in Thread
  BY ThreadTyped DEF StoreBilingual, StoreEvidence, StoreLegacy, StoreCalibration
<1>2. UNCHANGED <<lock, att, req, round, sent, prompt>>
  BY DEF StoreBilingual, StoreEvidence, StoreLegacy, StoreCalibration, ledger, files, bounds
<1>3. ASSUME NEW pc \in Resting, NextStage(p, pc) PROVE SpendInv'
  <2> DEFINE new == [proc[p] EXCEPT !.at = @ + 1, !.pc = pc]
  <2>1. new \in Thread /\ new.pc \notin Holding
    BY <1>1, StageBehind
  <2>2. proc' = [proc EXCEPT ![p] = new]
    BY <1>3 DEF NextStage, SpendInv, SpendTypeOK
  <2> HIDE DEF new
  <2> QED
    BY <1>2, <2>1, <2>2, Rests
<1>4. ASSUME NEW pc \in Resting, Goto(p, pc) PROVE SpendInv'
  <2> DEFINE new == [proc[p] EXCEPT !.pc = pc]
  <2>1. new \in Thread /\ new.pc \notin Holding
    BY <1>1 DEF Thread, Resting, Holding, Opened
  <2>2. proc' = [proc EXCEPT ![p] = new]
    BY <1>4 DEF Goto, SpendInv, SpendTypeOK
  <2> HIDE DEF new
  <2> QED
    BY <1>2, <2>1, <2>2, Rests
<1>5. ASSUME proc[p].op[1] = "generation",
             proc' = [proc EXCEPT ![p].op = Correction(proc[p].op), ![p].pc = "correct"]
      PROVE  SpendInv'
  <2>1. Correction(proc[p].op) \in Ops
    BY <1>1, <1>5 DEF Thread, Ops, Correction, Calibration
  <2> DEFINE new == [proc[p] EXCEPT !.op = Correction(proc[p].op), !.pc = "correct"]
  <2>2. new \in Thread /\ new.pc \notin Holding
    BY <1>1, <2>1 DEF Thread, Resting, Holding, Opened
  <2>3. proc' = [proc EXCEPT ![p] = new]
    BY <1>5 DEF SpendInv, SpendTypeOK
  <2> HIDE DEF new
  <2> QED
    BY <1>2, <2>2, <2>3, Rests
<1> QED
  BY <1>3, <1>4, <1>5
     DEF StoreBilingual, StoreEvidence, StoreLegacy, StoreCalibration, Resting

\* Starts, deployments, faults and the operator.
LEMMA StartPreserves ==
    ASSUME SpendInv, NEW p \in Procs, NEW c \in Campaigns, Start(p, c)
    PROVE  SpendInv'
<1> DEFINE new == Live(c, prompt)
<1>1. new \in Thread /\ new.pc \notin Holding
  BY DEF Live, Thread, Resting, Holding, Opened, Ops, SpendInv, SpendTypeOK
<1>2. proc' = [proc EXCEPT ![p] = new] /\ UNCHANGED <<lock, att, req, round, sent, prompt>>
  BY DEF Start, ledger
<1> HIDE DEF new
<1> QED
  BY <1>1, <1>2, Rests

LEMMA FaultsPreserve ==
    ASSUME SpendInv, NEW p \in Procs, Crash(p) \/ Interrupt(p)
    PROVE  SpendInv'
<1>1. /\ proc' = [proc EXCEPT ![p] = Idle] /\ Idle.pc \notin Holding
      /\ UNCHANGED <<att, req, round, sent, prompt>>
  BY DEF Crash, Interrupt, ledger, bounds, Idle, Holding, Opened
<1>2. lock' \subseteq lock /\ \A c \in lock \ lock' : proc[p].pc \in Holding /\ c = proc[p].c
  BY DEF Crash, Interrupt, HoldsLock, Holding, Opened
<1> QED
  BY <1>1, <1>2, Rests

LEMMA OperatorPreserves ==
    ASSUME SpendInv, Deploy \/ RemoveLock
    PROVE  SpendInv'
<1>1. UNCHANGED <<att, req, round, sent, proc>> /\ lock' \subseteq lock
  BY DEF Deploy, RemoveLock, ledger, bounds
<1>2. prompt' \in Nat \ {0}
  BY CampaignAssumption DEF Deploy, RemoveLock, bounds, SpendInv, SpendTypeOK
<1>3. \A p \in Procs : proc[p].pc \in Holding => proc[p].c \in lock'
  BY DEF Deploy, RemoveLock, HoldsLock, Holding, Opened, SpendInv, ThreadIsPaid
<1>4. \A p \in Procs : ThreadIsPaid(p)'
  BY <1>1, <1>3 DEF SpendInv, ThreadIsPaid
<1>5. SpendTypeOK'
  BY <1>1, <1>2 DEF SpendInv, SpendTypeOK
<1> QED
  BY <1>1, <1>4, <1>5 DEF SpendInv, Apart, CampaignIsPaid, Slots, RoundIsPaid, RoundSlots

\* _bounded_call and the lock file: the thread that takes it is alone.
LEMMA RequestPreserves ==
    ASSUME SpendInv, NEW p \in Procs, Request(p)
    PROVE  SpendInv'
<1>1. proc[p] \in Thread /\ proc[p].pc \in {"correct", "next"}
  BY ThreadTyped DEF Request
<1>2. PICK o \in Ops : o = IF proc[p].pc = "correct" THEN proc[p].op
                           ELSE Program(proc[p].c)[proc[p].at]
  <2>1. CASE proc[p].pc = "correct"
    BY <1>1, <2>1 DEF Thread
  <2>2. CASE proc[p].pc # "correct"
    BY <1>1, <2>2, StageTyped DEF Request
  <2> QED
    BY <2>1, <2>2
<1>3. PICK asked \in Thread : /\ asked = [proc[p] EXCEPT !.op = o, !.pc = "decide"]
                              /\ asked.pc = "decide" /\ asked.c = proc[p].c
  <2> DEFINE a == [proc[p] EXCEPT !.op = o, !.pc = "decide"]
  <2>1. a \in Thread
    BY <1>1 DEF Thread, Holding
  <2> QED
    BY <1>1, <2>1 DEF Thread
<1>4. UNCHANGED <<att, req, round, sent, prompt>>
  BY DEF Request, ledger, bounds
<1>5. CASE proc' = [proc EXCEPT ![p] = Raised(asked)] /\ UNCHANGED lock
  BY <1>3, <1>4, <1>5, RaisedRests, Rests
<1>6. CASE proc[p].c \notin lock /\ proc' = [proc EXCEPT ![p] = asked]
           /\ lock' = lock \cup {proc[p].c}
  <2>1. proc'[p] = asked /\ \A q \in Procs : q # p => proc'[q] = proc[q]
    BY <1>6 DEF SpendInv, SpendTypeOK
  <2>2. \A q \in Procs : proc[q].pc \in Holding => proc[q].c # proc[p].c
    BY <1>6 DEF SpendInv, ThreadIsPaid
  <2>3. ASSUME NEW q \in Procs, NEW s \in Procs, q # s,
               proc'[q].pc \in Holding, proc'[s].pc \in Holding
        PROVE  proc'[q].c # proc'[s].c
    <3>1. CASE q = p
      BY <1>3, <2>1, <2>2, <2>3, <3>1
    <3>2. CASE s = p
      BY <1>3, <2>1, <2>2, <2>3, <3>2
    <3>3. CASE q # p /\ s # p
      BY <2>1, <2>3, <3>3 DEF SpendInv, Apart
    <3> QED
      BY <3>1, <3>2, <3>3
  <2>4. ThreadIsPaid(p)'
    <3>1. proc[p].c \in lock'
      BY <1>6
    <3> QED
      BY <1>3, <2>1, <3>1 DEF ThreadIsPaid, Opened
  <2>5. ASSUME NEW q \in Procs, q # p PROVE ThreadIsPaid(q)'
    <3>1. proc[q].pc \in Holding => proc[q].c \in lock'
      BY <1>6 DEF SpendInv, ThreadIsPaid
    <3> QED
      BY <1>4, <2>1, <2>5, <3>1, OthersArePaid
  <2>6. SpendTypeOK'
    BY <1>1, <1>3, <1>4, <1>6 DEF SpendInv, SpendTypeOK, Thread
  <2> QED
    BY <1>4, <2>3, <2>4, <2>5, <2>6
       DEF SpendInv, Apart, CampaignIsPaid, Slots, RoundIsPaid, RoundSlots
<1> QED
  BY <1>2, <1>3, <1>5, <1>6 DEF Request

\* The lock goes back with the result that the ledger had, or with a refusal.
LEMMA ReturnRests ==
    ASSUME SpendInv, NEW p \in Procs, proc[p] \in Thread, proc[p].pc \in Holding,
           Return(p, proc[p].c) \/ (Raise(p) /\ Unlock(proc[p].c)),
           UNCHANGED <<att, req, round, sent, prompt>>
    PROVE  SpendInv'
<1>1. PICK new \in Thread \cup {Idle} : proc' = [proc EXCEPT ![p] = new] /\ new.pc \notin Holding
  <2>1. CASE Raise(p)
    BY <2>1, RaisedRests DEF Raise
  <2>2. CASE Return(p, proc[p].c)
    <3> DEFINE new == [proc[p] EXCEPT !.pc = "store"]
    <3>1. new \in Thread /\ new.pc \notin Holding
      BY DEF Thread, Resting, Holding, Opened
    <3>2. proc' = [proc EXCEPT ![p] = new]
      BY <2>2 DEF Return, Goto, SpendInv, SpendTypeOK
    <3> QED
      BY <3>1, <3>2
  <2> QED
    BY <2>1, <2>2
<1>2. lock' = lock \ {proc[p].c}
  BY DEF Return, Unlock
<1> QED
  BY <1>1, <1>2, Rests

\* A reservation is made after transport errors only.
LEMMA ReservedRow ==
    ASSUME SpendInv, NEW c \in Campaigns, NEW o \in Ops, NEW v, ~Refused(c, o, v), ~Completed(c, o)
    PROVE  /\ OpenRow(Append(att[c][o], "reserved")) /\ Cardinality(Slots(c)) < Limit
           /\ att[c][o] # <<>> => req[c][o] = v
<1>1. PICK a \in Seq(Outcomes) : a = att[c][o]
  BY LedgerTyped
<1>2. PICK n \in Nat : n = Len(a) /\ DOMAIN a = 1..n
  BY <1>1
<1>3. n = 0 \/ n = 1
  <2>1. a = <<>> \/ ~(n >= 2)
    BY <1>1, <1>2 DEF Refused
  <2>2. a = <<>> => n = 0
    BY <1>2
  <2> QED
    BY <2>1, <2>2
<1>4. n = 1 => a[1] = "retryable"
  <2> SUFFICES ASSUME n = 1 PROVE a[1] = "retryable"
    OBVIOUS
  <2>1. a # <<>> /\ a[1] \in Outcomes /\ a[1] # "fatal"
    <3>1. a # <<>> /\ a[1] \in Outcomes
      BY <1>2
    <3>2. a # <<>> => a[Len(a)] # "fatal"
      BY <1>1 DEF Refused, Last
    <3> QED
      BY <1>2, <3>1, <3>2
  <2>2. a[1] # "reserved" /\ a[1] # "completed"
    BY <1>1, <1>2 DEF Refused, Completed, Contains
  <2> QED
    BY <2>1, <2>2 DEF Outcomes
<1>5. OpenRow(Append(a, "reserved"))
  <2> PICK e \in Outcomes : e = "reserved"
    BY DEF Outcomes
  <2>1. PICK b \in Seq(Outcomes) : b = Append(a, "reserved")
    BY AppendProperties
  <2>2. /\ Len(b) = n + 1 /\ b[n + 1] = "reserved" /\ b # <<>>
        /\ \A i \in 1..n : b[i] = a[i]
    BY <1>2, <2>1
  <2>3. \A i \in 1..(Len(b) - 1) : b[i] = "retryable"
    BY <1>3, <1>4, <2>2
  <2> QED
    BY <2>1, <2>2, <2>3 DEF OpenRow
<1>6. Cardinality(Slots(c)) < Limit
  <2>1. ~(Cardinality(Slots(c)) >= Limit)
    BY DEF Refused, Used, Slots
  <2>2. Cardinality(Slots(c)) \in Nat /\ Limit \in Nat
    BY FS_CardinalityType, CampaignAssumption DEF SpendInv, CampaignIsPaid
  <2> QED
    BY <2>1, <2>2
<1> QED
  BY <1>1, <1>5, <1>6 DEF Refused

LEMMA DecidePreserves ==
    ASSUME SpendInv, NEW p \in Procs, Decide(p)
    PROVE  SpendInv'
<1>1. proc[p] \in Thread /\ proc[p].pc = "decide"
  BY ThreadTyped DEF Decide
<1>2. PICK c \in Campaigns, o \in Ops : c = proc[p].c /\ o = proc[p].op
  BY <1>1 DEF Thread
<1>3. UNCHANGED <<round, sent, prompt>>
  BY DEF Decide, bounds
<1>4. CASE (Return(p, c) \/ (Raise(p) /\ Unlock(c))) /\ UNCHANGED ledger
  BY <1>1, <1>2, <1>3, <1>4, ReturnRests DEF ledger, Holding
<1>5. CASE /\ ~Refused(c, o, proc[p].prompt) /\ ~Completed(c, o)
           /\ att' = [att EXCEPT ![c][o] = Append(@, "reserved")]
           /\ req' = [req EXCEPT ![c][o] = proc[p].prompt]
           /\ Goto(p, IF c \in Bilingual THEN "round" ELSE "send")
           /\ UNCHANGED <<resp, lock, torn>>
  <2>1. PICK new \in Thread :
          /\ proc' = [proc EXCEPT ![p] = new]
          /\ new.pc = IF c \in Bilingual THEN "round" ELSE "send"
          /\ new.c = c /\ new.op = o
    <3> DEFINE n == [proc[p] EXCEPT !.pc = IF c \in Bilingual THEN "round" ELSE "send"]
    <3>1. n \in Thread
      BY <1>1 DEF Thread, Holding, Opened
    <3>2. proc' = [proc EXCEPT ![p] = n]
      BY <1>5 DEF Goto, SpendInv, SpendTypeOK
    <3> QED
      BY <1>1, <1>2, <3>1, <3>2 DEF Thread
  <2>2. Apart' /\ proc'[p] = new /\ \A q \in Procs : q # p => proc'[q] = proc[q]
    BY <1>1, <1>2, <2>1, StillApart DEF Holding
  <2>3. /\ OpenRow(Append(att[c][o], "reserved")) /\ Cardinality(Slots(c)) < Limit
    BY <1>5, ReservedRow
  <2>4. /\ Slots(c)' = Slots(c) \cup {<<o, Len(att[c][o]) + 1>>}
        /\ \A d \in Campaigns : d # c => Slots(d)' = Slots(d)
        /\ att'[c][o] = Append(att[c][o], "reserved")
        /\ \A d \in Campaigns, x \in Ops : <<d, x>> # <<c, o>> => att'[d][x] = att[d][x]
    BY <1>5, SlotsAppended DEF Outcomes
  <2>5. Len(att'[c][o]) = Len(att[c][o]) + 1 /\ Len(att[c][o]) \in Nat /\ sent[c][o] \in Nat
        /\ sent[c][o] <= Len(att[c][o])
    BY <2>4, LedgerTyped DEF SpendInv, CampaignIsPaid
  <2>6. ThreadIsPaid(p)'
    <3>1. c \in lock'
      BY <1>1, <1>2, <1>5 DEF SpendInv, ThreadIsPaid, Holding
    <3>2. sent'[c][o] < Len(att'[c][o])
      BY <1>3, <2>5
    <3> QED
      BY <2>1, <2>2, <2>3, <2>4, <3>1, <3>2 DEF ThreadIsPaid
  <2>7. ASSUME NEW q \in Procs, q # p PROVE ThreadIsPaid(q)'
    <3>1. proc[q].pc \in Holding => proc[q].c \in Campaigns /\ proc[q].c # c
      BY <1>1, <1>2, <2>7, ThreadTyped DEF SpendInv, Apart, Holding, Opened, Thread
    <3>2. proc[q].pc \in Holding => att'[proc[q].c] = att[proc[q].c]
      BY <1>5, <3>1 DEF SpendInv, SpendTypeOK
    <3>3. proc[q].pc \in Holding => proc[q].c \in lock'
      BY <1>5 DEF SpendInv, ThreadIsPaid
    <3> QED
      BY <1>3, <2>2, <2>7, <3>2, <3>3, OthersArePaid
  <2>8. SpendTypeOK'
    <3>1. att' \in [Campaigns -> [Ops -> Seq(Outcomes)]]
      <4>1. Append(att[c][o], "reserved") \in Seq(Outcomes)
        BY LedgerTyped DEF Outcomes
      <4> QED
        BY <1>5, <4>1 DEF SpendInv, SpendTypeOK
    <3>2. req' \in [Campaigns -> [Ops -> Nat]]
      BY <1>1, <1>5 DEF SpendInv, SpendTypeOK, Thread
    <3> QED
      BY <1>3, <1>5, <2>1, <3>1, <3>2 DEF SpendInv, SpendTypeOK
  <2>9. CampaignIsPaid(c)'
    <3>1. IsFiniteSet(Slots(c)') /\ Cardinality(Slots(c)') <= Limit
      BY <2>3, <2>4, SlotTaken, CampaignAssumption DEF SpendInv, CampaignIsPaid
    <3>2. ASSUME NEW x \in Ops PROVE sent'[c][x] <= Len(att'[c][x])
      <4>1. CASE x = o
        BY <1>3, <2>5, <4>1
      <4>2. CASE x # o
        BY <1>3, <2>4, <4>2 DEF SpendInv, CampaignIsPaid
      <4> QED
        BY <4>1, <4>2
    <3> QED
      BY <3>1, <3>2 DEF CampaignIsPaid
  <2>10. \A d \in Campaigns : d # c => CampaignIsPaid(d)'
    BY <1>3, <2>4 DEF SpendInv, CampaignIsPaid
  <2>11. RoundIsPaid'
    BY <1>3 DEF SpendInv, RoundIsPaid, RoundSlots
  <2> QED
    BY <2>2, <2>6, <2>7, <2>8, <2>9, <2>10, <2>11 DEF SpendInv
<1> QED
  BY <1>2, <1>4, <1>5 DEF Decide

\* The budget ledger of the round, around the request.
LEMMA RoundTakePreserves ==
    ASSUME SpendInv, NEW p \in Procs, RoundTake(p)
    PROVE  SpendInv'
<1>1. proc[p] \in Thread /\ proc[p].pc \in {"round", "settle"}
  BY ThreadTyped DEF RoundTake
<1>2. UNCHANGED <<lock, att, req, round, sent, prompt>>
  BY DEF RoundTake, ledger, bounds
<1>3. proc[p].pc = "settle" => proc[p].out # "none"
  BY DEF SpendInv, ThreadIsPaid
<1>4. CASE proc' = [proc EXCEPT ![p].pc = "record", ![p].out = "fatal"]
  <2> DEFINE new == [proc[p] EXCEPT !.pc = "record", !.out = "fatal"]
  <2>1. new \in Thread /\ new.pc = "record" /\ new.c = proc[p].c /\ new.op = proc[p].op
        /\ new.out # "none"
    BY <1>1 DEF Thread, Holding, Opened
  <2>2. proc' = [proc EXCEPT ![p] = new]
    BY <1>4 DEF SpendInv, SpendTypeOK
  <2> HIDE DEF new
  <2> QED
    BY <1>1, <1>2, <2>1, <2>2, Continues DEF Opened
<1>5. CASE Goto(p, IF proc[p].pc = "round" THEN "reserve" ELSE "finish")
  <2> DEFINE new == [proc[p] EXCEPT !.pc = IF proc[p].pc = "round" THEN "reserve" ELSE "finish"]
  <2>1. /\ new \in Thread /\ new.c = proc[p].c /\ new.op = proc[p].op /\ new.out = proc[p].out
        /\ new.pc = IF proc[p].pc = "round" THEN "reserve" ELSE "finish"
    BY <1>1 DEF Thread, Holding, Opened
  <2>2. proc' = [proc EXCEPT ![p] = new]
    BY <1>5 DEF Goto, SpendInv, SpendTypeOK
  <2> HIDE DEF new
  <2> QED
    BY <1>1, <1>2, <1>3, <2>1, <2>2, Continues DEF Opened
<1> QED
  BY <1>4, <1>5 DEF RoundTake

\* A thread whose campaign is under its lock writes one operation's rows of
\* the round, or sends, and changes no row of the campaign ledger.
LEMMA InTheRound ==
    ASSUME SpendInv, NEW p \in Procs, NEW c \in Campaigns, c = proc[p].c,
           proc[p].pc \in Opened, NEW new \in Thread,
           proc' = [proc EXCEPT ![p] = new], new.pc \in Opened, new.c = c,
           UNCHANGED <<lock, att, req, prompt>>,
           \A d \in Campaigns : d # c => sent'[d] = sent[d],
           \A d \in Bilingual : d # c => round'[d] = round[d],
           ThreadIsPaid(p)', CampaignIsPaid(c)', RoundIsPaid',
           sent' \in [Campaigns -> [Ops -> Nat]],
           round' \in [Bilingual -> [Ops -> Seq({"reserved", "completed", "error"})]]
    PROVE  SpendInv'
<1>1. Apart' /\ proc'[p] = new /\ \A q \in Procs : q # p => proc'[q] = proc[q]
  BY StillApart DEF Holding
<1>2. ASSUME NEW q \in Procs, q # p PROVE ThreadIsPaid(q)'
  <2>1. proc[q].pc \in Holding => proc[q].c \in Campaigns /\ proc[q].c # c
    BY <1>2, ThreadTyped DEF SpendInv, Apart, Holding, Opened, Thread
  <2>2. proc[q].pc \in Holding => proc[q].c \in lock'
    BY DEF SpendInv, ThreadIsPaid
  <2> QED
    BY <1>1, <1>2, <2>1, <2>2, OthersArePaid
<1>3. SpendTypeOK'
  BY DEF SpendInv, SpendTypeOK
<1>4. ASSUME NEW d \in Campaigns, d # c PROVE CampaignIsPaid(d)'
  <2>1. Slots(d)' = Slots(d) /\ sent'[d] = sent[d] /\ att' = att
    BY <1>4 DEF Slots
  <2> QED
    BY <2>1 DEF SpendInv, CampaignIsPaid
<1> QED
  BY <1>1, <1>2, <1>3, <1>4 DEF SpendInv

LEMMA RoundRowAppended ==
    ASSUME SpendInv, NEW c \in Bilingual, NEW o \in Ops,
           round' = [round EXCEPT ![c][o] = Append(@, "reserved")]
    PROVE  /\ RoundSlots' = RoundSlots \cup {<<<<c, o>>, Len(round[c][o]) + 1>>}
           /\ round'[c][o] = Append(round[c][o], "reserved")
           /\ \A d \in Bilingual, x \in Ops : <<d, x>> # <<c, o>> => round'[d][x] = round[d][x]
           /\ \A d \in Bilingual : d # c => round'[d] = round[d]
           /\ round' \in [Bilingual -> [Ops -> Seq({"reserved", "completed", "error"})]]
<1>1. PICK a \in Seq({"reserved", "completed", "error"}) : a = round[c][o]
  BY DEF SpendInv, SpendTypeOK
<1>2. Append(a, "reserved") \in Seq({"reserved", "completed", "error"})
      /\ DOMAIN Append(a, "reserved") = DOMAIN a \cup {Len(a) + 1}
  OBVIOUS
<1>3. /\ round'[c][o] = Append(a, "reserved")
      /\ \A d \in Bilingual, x \in Ops : <<d, x>> # <<c, o>> => round'[d][x] = round[d][x]
      /\ \A d \in Bilingual : d # c => round'[d] = round[d]
      /\ round' \in [Bilingual -> [Ops -> Seq({"reserved", "completed", "error"})]]
  BY <1>1, <1>2 DEF SpendInv, SpendTypeOK
<1>4. RoundSlots' = RoundSlots \cup {<<<<c, o>>, Len(a) + 1>>}
  <2>1. \A x \in Bilingual \X Ops :
          DOMAIN round'[x[1]][x[2]] = IF x = <<c, o>> THEN DOMAIN a \cup {Len(a) + 1}
                                      ELSE DOMAIN round[x[1]][x[2]]
    <3> TAKE x \in Bilingual \X Ops
    <3>1. PICK d \in Bilingual, y \in Ops : x = <<d, y>>
      OBVIOUS
    <3>2. x[1] = d /\ x[2] = y
      BY <3>1
    <3>3. CASE x = <<c, o>>
      <4>1. d = c /\ y = o
        BY <3>1, <3>3
      <4> QED
        BY <1>2, <1>3, <3>2, <3>3, <4>1
    <3>4. CASE x # <<c, o>>
      BY <1>3, <3>1, <3>2, <3>4
    <3> QED
      BY <3>3, <3>4
  <2>2. <<c, o>> \in Bilingual \X Ops /\ DOMAIN round[<<c, o>>[1]][<<c, o>>[2]] = DOMAIN a
    BY <1>1
  <2> QED
    BY <2>1, <2>2 DEF RoundSlots
<1> QED
  BY <1>1, <1>3, <1>4

LEMMA RoundReservePreserves ==
    ASSUME SpendInv, NEW p \in Procs, RoundReserve(p)
    PROVE  SpendInv'
<1>1. proc[p] \in Thread /\ proc[p].pc = "reserve"
  BY ThreadTyped DEF RoundReserve
<1>2. PICK c \in Bilingual, o \in Ops : c = proc[p].c /\ o = proc[p].op
  BY <1>1 DEF SpendInv, ThreadIsPaid, Thread
<1>3. UNCHANGED <<lock, att, req, sent, prompt>> /\ c \in Campaigns
  BY DEF RoundReserve, ledger, bounds, Campaigns
<1>4. CASE proc' = [proc EXCEPT ![p].pc = "record", ![p].out = "fatal"] /\ UNCHANGED round
  <2> DEFINE new == [proc[p] EXCEPT !.pc = "record", !.out = "fatal"]
  <2>1. new \in Thread /\ new.pc = "record" /\ new.c = proc[p].c /\ new.op = proc[p].op
        /\ new.out # "none"
    BY <1>1 DEF Thread, Holding, Opened
  <2>2. proc' = [proc EXCEPT ![p] = new]
    BY <1>4 DEF SpendInv, SpendTypeOK
  <2> HIDE DEF new
  <2> QED
    BY <1>1, <1>3, <1>4, <2>1, <2>2, Continues DEF Opened
<1>5. CASE /\ ~RoundRefused(c, o) /\ Goto(p, "send")
           /\ round' = [round EXCEPT ![c][o] = Append(@, "reserved")]
  <2>1. PICK new \in Thread : /\ proc' = [proc EXCEPT ![p] = new]
                              /\ new.pc = "send" /\ new.c = c /\ new.op = o
    <3> DEFINE n == [proc[p] EXCEPT !.pc = "send"]
    <3>1. n \in Thread
      BY <1>1 DEF Thread, Holding, Opened
    <3>2. proc' = [proc EXCEPT ![p] = n]
      BY <1>5 DEF Goto, SpendInv, SpendTypeOK
    <3> QED
      BY <1>1, <1>2, <3>1, <3>2 DEF Thread
  <2>2. proc'[p] = new
    BY <2>1 DEF SpendInv, SpendTypeOK
  <2>3. /\ RoundSlots' = RoundSlots \cup {<<<<c, o>>, Len(round[c][o]) + 1>>}
        /\ round'[c][o] = Append(round[c][o], "reserved")
        /\ \A d \in Bilingual, x \in Ops : <<d, x>> # <<c, o>> => round'[d][x] = round[d][x]
        /\ \A d \in Bilingual : d # c => round'[d] = round[d]
        /\ round' \in [Bilingual -> [Ops -> Seq({"reserved", "completed", "error"})]]
    BY <1>5, RoundRowAppended
  <2>4. Len(round'[c][o]) = Len(round[c][o]) + 1 /\ Len(round[c][o]) \in Nat /\ sent[c][o] \in Nat
        /\ sent[c][o] <= Len(round[c][o])
    BY <1>3, <2>3, LedgerTyped DEF SpendInv, RoundIsPaid
  <2>5. ThreadIsPaid(p)'
    <3>1. ThreadIsPaid(p)
      BY DEF SpendInv
    <3>2. c \in lock' /\ OpenRow(att'[c][o]) /\ sent'[c][o] < Len(att'[c][o])
      BY <1>1, <1>2, <1>3, <3>1 DEF ThreadIsPaid, Holding, Opened
    <3>3. sent'[c][o] < Len(round'[c][o])
      BY <1>3, <2>4
    <3> QED
      BY <2>1, <2>2, <3>2, <3>3 DEF ThreadIsPaid
  <2>6. CampaignIsPaid(c)'
    <3>1. Slots(c)' = Slots(c)
      BY <1>3 DEF Slots
    <3> QED
      BY <1>3, <3>1 DEF SpendInv, CampaignIsPaid
  <2>7. RoundIsPaid'
    <3>1. Cardinality(RoundSlots) < RoundLimit
      <4>1. ~(Cardinality(RoundSlots) >= RoundLimit)
        BY <1>5 DEF RoundRefused, RoundUsed, RoundSlots
      <4>2. Cardinality(RoundSlots) \in Nat /\ RoundLimit \in Nat
        BY FS_CardinalityType, CampaignAssumption DEF SpendInv, RoundIsPaid
      <4> QED
        BY <4>1, <4>2
    <3>2. IsFiniteSet(RoundSlots') /\ Cardinality(RoundSlots') <= RoundLimit
      BY <2>3, <3>1, SlotTaken, CampaignAssumption DEF SpendInv, RoundIsPaid
    <3>3. ASSUME NEW d \in Bilingual, NEW x \in Ops PROVE sent'[d][x] <= Len(round'[d][x])
      <4>1. CASE <<d, x>> = <<c, o>>
        BY <1>3, <2>4, <4>1
      <4>2. CASE <<d, x>> # <<c, o>>
        BY <1>3, <2>3, <4>2 DEF SpendInv, RoundIsPaid
      <4> QED
        BY <4>1, <4>2
    <3> QED
      BY <3>2, <3>3 DEF RoundIsPaid
  <2>8. sent' \in [Campaigns -> [Ops -> Nat]]
    BY <1>3 DEF SpendInv, SpendTypeOK
  <2> QED
    BY <1>1, <1>2, <1>3, <2>1, <2>3, <2>5, <2>6, <2>7, <2>8, InTheRound DEF Opened
<1> QED
  BY <1>2, <1>4, <1>5 DEF RoundReserve

LEMMA RoundFinishPreserves ==
    ASSUME SpendInv, NEW p \in Procs, RoundFinish(p)
    PROVE  SpendInv'
<1>1. proc[p] \in Thread /\ proc[p].pc = "finish" /\ proc[p].out # "none"
  BY ThreadTyped DEF RoundFinish, SpendInv, ThreadIsPaid
<1>2. PICK c \in Bilingual, o \in Ops : c = proc[p].c /\ o = proc[p].op
  BY <1>1 DEF SpendInv, ThreadIsPaid, Thread
<1>3. UNCHANGED <<lock, att, req, sent, prompt>> /\ c \in Campaigns
  BY DEF RoundFinish, ledger, bounds, Campaigns
<1>4. CASE proc' = [proc EXCEPT ![p].pc = "record", ![p].out = "fatal"] /\ UNCHANGED round
  <2> DEFINE new == [proc[p] EXCEPT !.pc = "record", !.out = "fatal"]
  <2>1. new \in Thread /\ new.pc = "record" /\ new.c = proc[p].c /\ new.op = proc[p].op
        /\ new.out # "none"
    BY <1>1 DEF Thread, Holding, Opened
  <2>2. proc' = [proc EXCEPT ![p] = new]
    BY <1>4 DEF SpendInv, SpendTypeOK
  <2> HIDE DEF new
  <2> QED
    BY <1>1, <1>3, <1>4, <2>1, <2>2, Continues DEF Opened
<1>5. ASSUME NEW e \in {"completed", "error"}, Goto(p, "record"),
             round' = [round EXCEPT ![c][o] = Settle(@, e)]
      PROVE  SpendInv'
  <2>1. PICK new \in Thread :
          /\ proc' = [proc EXCEPT ![p] = new]
          /\ new.pc = "record" /\ new.c = c /\ new.op = o /\ new.out # "none"
    <3> DEFINE n == [proc[p] EXCEPT !.pc = "record"]
    <3>1. n \in Thread
      BY <1>1 DEF Thread, Holding, Opened
    <3>2. proc' = [proc EXCEPT ![p] = n]
      BY <1>5 DEF Goto, SpendInv, SpendTypeOK
    <3> QED
      BY <1>1, <1>2, <3>1, <3>2 DEF Thread
  <2>2. proc'[p] = new
    BY <2>1 DEF SpendInv, SpendTypeOK
  <2> DEFINE R == {"reserved", "completed", "error"}
  <2>3. PICK b \in Seq(R) : /\ b = Settle(round[c][o], e) /\ Len(b) = Len(round[c][o])
                            /\ DOMAIN b = DOMAIN round[c][o]
    <3>1. round[c][o] \in Seq(R) /\ e \in R
      BY DEF SpendInv, SpendTypeOK
    <3> QED
      BY <3>1, RowSettled
  <2>4. /\ round' \in [Bilingual -> [Ops -> Seq(R)]]
        /\ \A d \in Bilingual, x \in Ops : Len(round'[d][x]) = Len(round[d][x])
                                           /\ DOMAIN round'[d][x] = DOMAIN round[d][x]
        /\ \A d \in Bilingual : d # c => round'[d] = round[d]
    BY <1>5, <2>3 DEF SpendInv, SpendTypeOK
  <2>5. RoundSlots' = RoundSlots
    BY <2>4 DEF RoundSlots
  <2>6. RoundIsPaid'
    BY <1>3, <2>4, <2>5 DEF SpendInv, RoundIsPaid
  <2>7. ThreadIsPaid(p)'
    <3>1. ThreadIsPaid(p)
      BY DEF SpendInv
    <3>2. c \in lock' /\ OpenRow(att'[c][o])
      BY <1>1, <1>2, <1>3, <3>1 DEF ThreadIsPaid, Holding, Opened
    <3> QED
      BY <2>1, <2>2, <3>2 DEF ThreadIsPaid
  <2>8. CampaignIsPaid(c)'
    <3>1. Slots(c)' = Slots(c)
      BY <1>3 DEF Slots
    <3> QED
      BY <1>3, <3>1 DEF SpendInv, CampaignIsPaid
  <2>9. sent' \in [Campaigns -> [Ops -> Nat]]
    BY <1>3 DEF SpendInv, SpendTypeOK
  <2> QED
    BY <1>1, <1>2, <1>3, <2>1, <2>4, <2>6, <2>7, <2>8, <2>9, InTheRound DEF Opened
<1> QED
  BY <1>2, <1>4, <1>5 DEF RoundFinish

\* The request goes to the provider: it has a row in both ledgers already.
LEMMA SendPreserves ==
    ASSUME SpendInv, NEW p \in Procs, Send(p)
    PROVE  SpendInv'
<1>1. proc[p] \in Thread /\ proc[p].pc = "send"
  BY ThreadTyped DEF Send
<1>2. PICK c \in Campaigns, o \in Ops : c = proc[p].c /\ o = proc[p].op
  BY <1>1 DEF Thread
<1>3. UNCHANGED <<lock, att, req, round, prompt>>
  BY DEF Send, ledger, bounds
<1>4. PICK new \in Thread :
        /\ proc' = [proc EXCEPT ![p] = new]
        /\ new.pc = IF c \in Bilingual THEN "settle" ELSE "record"
        /\ new.c = c /\ new.op = o /\ new.out # "none"
  <2>1. PICK x \in {"good", "bad", "retryable", "fatal"} :
          LET r == [proc[p] EXCEPT !.out = x]
          IN  proc' = [proc EXCEPT ![p] = IF c \in Bilingual THEN BilingualSend(r)
                                          ELSE EvidenceSend(r)]
    BY <1>2 DEF Send
  <2> DEFINE n == [proc[p] EXCEPT !.out = x, !.pc = IF c \in Bilingual THEN "settle" ELSE "record"]
  <2>2. n \in Thread /\ n.c = c /\ n.op = o /\ n.out = x
        /\ n.pc = IF c \in Bilingual THEN "settle" ELSE "record"
    BY <1>1, <1>2 DEF Thread, Holding, Opened
  <2>3. proc' = [proc EXCEPT ![p] = n]
    BY <1>1, <2>1 DEF BilingualSend, EvidenceSend, Thread
  <2> HIDE DEF n
  <2> QED
    BY <2>2, <2>3
<1>5. proc'[p] = new
  BY <1>4 DEF SpendInv, SpendTypeOK
<1>6. /\ sent' \in [Campaigns -> [Ops -> Nat]] /\ sent'[c][o] = sent[c][o] + 1
      /\ \A d \in Campaigns, x \in Ops : <<d, x>> # <<c, o>> => sent'[d][x] = sent[d][x]
      /\ \A d \in Campaigns : d # c => sent'[d] = sent[d]
  <2>1. sent[c][o] + 1 \in Nat
    BY LedgerTyped
  <2>2. sent' = [sent EXCEPT ![c][o] = sent[c][o] + 1]
    BY <1>2 DEF Send
  <2> QED
    BY <2>1, <2>2 DEF SpendInv, SpendTypeOK
<1>7. ThreadIsPaid(p) /\ sent[c][o] \in Nat /\ Len(att[c][o]) \in Nat
      /\ (c \in Bilingual => Len(round[c][o]) \in Nat)
  BY LedgerTyped DEF SpendInv
<1>8. ThreadIsPaid(p)'
  <2>1. c \in lock' /\ OpenRow(att'[c][o])
    BY <1>1, <1>2, <1>3, <1>7 DEF ThreadIsPaid, Holding, Opened
  <2> QED
    BY <1>4, <1>5, <2>1 DEF ThreadIsPaid
<1>9. CampaignIsPaid(c)'
  <2>1. Slots(c)' = Slots(c)
    BY <1>3 DEF Slots
  <2>2. sent'[c][o] <= Len(att'[c][o])
    BY <1>1, <1>2, <1>3, <1>6, <1>7 DEF ThreadIsPaid
  <2>3. \A x \in Ops : x # o => sent'[c][x] <= Len(att'[c][x])
    BY <1>3, <1>6 DEF SpendInv, CampaignIsPaid
  <2> QED
    BY <2>1, <2>2, <2>3 DEF SpendInv, CampaignIsPaid
<1>10. RoundIsPaid'
  <2>1. RoundSlots' = RoundSlots
    BY <1>3 DEF RoundSlots
  <2>2. c \in Bilingual => sent'[c][o] <= Len(round'[c][o])
    BY <1>1, <1>2, <1>3, <1>6, <1>7 DEF ThreadIsPaid
  <2>3. \A d \in Bilingual, x \in Ops : <<d, x>> # <<c, o>> => sent'[d][x] <= Len(round'[d][x])
    BY <1>3, <1>6 DEF SpendInv, RoundIsPaid, Campaigns
  <2> QED
    BY <2>1, <2>2, <2>3 DEF SpendInv, RoundIsPaid
<1>11. round' \in [Bilingual -> [Ops -> Seq({"reserved", "completed", "error"})]]
  BY <1>3 DEF SpendInv, SpendTypeOK
<1> QED
  BY <1>1, <1>2, <1>3, <1>4, <1>6, <1>8, <1>9, <1>10, <1>11, InTheRound DEF Opened

\* The terminal row replaces the reservation; then return, retry or raise.
LEMMA RecordPreserves ==
    ASSUME SpendInv, NEW p \in Procs, Record(p)
    PROVE  SpendInv'
<1>1. proc[p] \in Thread /\ proc[p].pc = "record" /\ proc[p].out # "none"
  BY ThreadTyped DEF Record, SpendInv, ThreadIsPaid
<1>2. PICK c \in Campaigns, o \in Ops : c = proc[p].c /\ o = proc[p].op
  BY <1>1 DEF Thread
<1>3. UNCHANGED <<req, round, sent, prompt>>
  BY DEF Record, bounds
<1>4. PICK e \in Outcomes : att' = [att EXCEPT ![c][o] = Settle(@, e)]
  <2>1. (IF proc[p].out \in {"good", "bad"} THEN "completed" ELSE proc[p].out) \in Outcomes
    BY <1>1 DEF Thread, Outcomes
  <2> QED
    BY <1>2, <2>1 DEF Record
<1>5. PICK b \in Seq(Outcomes) : /\ b = Settle(att[c][o], e) /\ Len(b) = Len(att[c][o])
                                 /\ DOMAIN b = DOMAIN att[c][o]
  BY LedgerTyped, RowSettled
<1>6. /\ att' \in [Campaigns -> [Ops -> Seq(Outcomes)]]
      /\ \A d \in Campaigns, x \in Ops : Len(att'[d][x]) = Len(att[d][x])
                                         /\ DOMAIN att'[d][x] = DOMAIN att[d][x]
      /\ \A d \in Campaigns : d # c => att'[d] = att[d]
  BY <1>4, <1>5 DEF SpendInv, SpendTypeOK
<1>7. \A d \in Campaigns : CampaignIsPaid(d)'
  <2> TAKE d \in Campaigns
  <2>1. Slots(d)' = Slots(d)
    BY <1>6 DEF Slots
  <2> QED
    BY <1>3, <1>6, <2>1 DEF SpendInv, CampaignIsPaid
<1>8. RoundIsPaid'
  BY <1>3 DEF SpendInv, RoundIsPaid, RoundSlots
<1>9. ASSUME NEW new \in Thread \cup {Idle}, proc' = [proc EXCEPT ![p] = new],
             \/ new.pc \notin Holding /\ lock' = lock \ {c}
             \/ new.pc = "decide" /\ new.c = c /\ lock' = lock
      PROVE  SpendInv'
  <2>1. Apart' /\ proc'[p] = new /\ \A q \in Procs : q # p => proc'[q] = proc[q]
    <3>1. new.pc \in Holding => proc[p].pc \in Holding /\ new.c = proc[p].c
      BY <1>1, <1>2, <1>9 DEF Holding, Opened
    <3> QED
      BY <1>9, <3>1, StillApart
  <2>2. ThreadIsPaid(p)'
    <3>1. c \in lock
      BY <1>1, <1>2 DEF SpendInv, ThreadIsPaid, Holding, Opened
    <3> QED
      BY <1>9, <2>1, <3>1 DEF ThreadIsPaid, Holding, Opened
  <2>3. ASSUME NEW q \in Procs, q # p PROVE ThreadIsPaid(q)'
    <3>1. proc[q].pc \in Holding => /\ proc[q].c \in Campaigns /\ proc[q].c # c
                                    /\ proc[q].c \in lock
      BY <1>1, <1>2, <2>3, ThreadTyped DEF SpendInv, Apart, ThreadIsPaid, Holding, Opened, Thread
    <3>2. proc[q].pc \in Holding => att'[proc[q].c] = att[proc[q].c] /\ proc[q].c \in lock'
      BY <1>6, <1>9, <3>1
    <3> QED
      BY <1>3, <2>1, <2>3, <3>2, OthersArePaid
  <2>4. SpendTypeOK'
    BY <1>3, <1>6, <1>9 DEF SpendInv, SpendTypeOK
  <2> QED
    BY <1>7, <1>8, <2>1, <2>2, <2>3, <2>4 DEF SpendInv
<1>10. CASE Return(p, c)
  <2> DEFINE new == [proc[p] EXCEPT !.pc = "store"]
  <2>1. new \in Thread /\ new.pc \notin Holding
    BY <1>1 DEF Thread, Resting, Holding, Opened
  <2>2. proc' = [proc EXCEPT ![p] = new] /\ lock' = lock \ {c}
    BY <1>10 DEF Return, Goto, Unlock, SpendInv, SpendTypeOK
  <2> HIDE DEF new
  <2> QED
    BY <1>9, <2>1, <2>2
<1>11. CASE Goto(p, "decide") /\ UNCHANGED lock
  <2> DEFINE new == [proc[p] EXCEPT !.pc = "decide"]
  <2>1. new \in Thread /\ new.pc = "decide" /\ new.c = c
    BY <1>1, <1>2 DEF Thread, Holding
  <2>2. proc' = [proc EXCEPT ![p] = new] /\ lock' = lock
    BY <1>11 DEF Goto, SpendInv, SpendTypeOK
  <2> HIDE DEF new
  <2> QED
    BY <1>9, <2>1, <2>2
<1>12. CASE Raise(p) /\ Unlock(c)
  <2>1. Raised(proc[p]) \in Thread \cup {Idle} /\ Raised(proc[p]).pc \notin Holding
    BY <1>1, RaisedRests
  <2>2. proc' = [proc EXCEPT ![p] = Raised(proc[p])] /\ lock' = lock \ {c}
    BY <1>12 DEF Raise, Unlock
  <2> QED
    BY <1>9, <2>1, <2>2
<1> QED
  BY <1>2, <1>10, <1>11, <1>12 DEF Record

LEMMA SpendInit == Init => SpendInv
<1> SUFFICES ASSUME Init PROVE SpendInv
  OBVIOUS
<1>1. SpendTypeOK
  <2>1. <<>> \in Seq(Outcomes) /\ <<>> \in Seq({"reserved", "completed", "error"})
    OBVIOUS
  <2> QED
    BY <2>1 DEF Init, SpendTypeOK
<1>2. Apart /\ \A p \in Procs : ThreadIsPaid(p)
  BY DEF Init, Apart, ThreadIsPaid, Idle, Holding, Opened
<1>3. IsFiniteSet({}) /\ Cardinality({}) = 0 /\ Limit \in Nat /\ RoundLimit \in Nat
  BY FS_EmptySet, CampaignAssumption
<1>4. Len(<<>>) = 0 /\ DOMAIN <<>> = {}
  OBVIOUS
<1>5. ASSUME NEW c \in Campaigns PROVE CampaignIsPaid(c)
  <2>1. \A o \in Ops : att[c][o] = <<>> /\ sent[c][o] = 0
    BY DEF Init
  <2>2. Slots(c) = {}
    BY <1>4, <2>1 DEF Slots
  <2> QED
    BY <1>3, <1>4, <2>1, <2>2 DEF CampaignIsPaid
<1>6. RoundIsPaid
  <2>1. \A c \in Bilingual, o \in Ops : round[c][o] = <<>> /\ sent[c][o] = 0
    BY DEF Init, Campaigns
  <2>2. RoundSlots = {}
    BY <1>4, <2>1 DEF RoundSlots
  <2> QED
    BY <1>3, <1>4, <2>1, <2>2 DEF RoundIsPaid
<1> QED
  BY <1>1, <1>2, <1>5, <1>6 DEF SpendInv

LEMMA SpendStep == SpendInv /\ [Next]_vars => SpendInv'
<1> SUFFICES ASSUME SpendInv, [Next]_vars PROVE SpendInv'
  OBVIOUS
<1>1. ASSUME NEW p \in Procs, Step(p) PROVE SpendInv'
  BY <1>1, ReadsPreserve, StoresPreserve, RequestPreserves, DecidePreserves,
     RoundTakePreserves, RoundReservePreserves, RoundFinishPreserves, SendPreserves,
     RecordPreserves DEF Step
<1>2. CASE UNCHANGED vars
  <2>1. UNCHANGED <<att, req, round, sent, lock, proc, prompt>>
    BY <1>2 DEF vars, ledger, bounds
  <2>2. SpendTypeOK' /\ Apart' /\ \A p \in Procs : ThreadIsPaid(p)'
    BY <2>1 DEF SpendInv, SpendTypeOK, Apart, ThreadIsPaid
  <2>3. RoundIsPaid' /\ \A c \in Campaigns : CampaignIsPaid(c)'
    BY <2>1 DEF SpendInv, CampaignIsPaid, Slots, RoundIsPaid, RoundSlots
  <2> QED
    BY <2>2, <2>3 DEF SpendInv
<1> QED
  BY <1>1, <1>2, FaultsPreserve, StartPreserves, OperatorPreserves DEF Next

\* The lock file of a ledger has one holder, and every request a slot: over
\* any crashes, interrupts and removals of stale locks, a ledger holds at
\* most Limit rows, and those of the round at most RoundLimit.
THEOREM SpendingInvariant == Spec => []SpendInv
BY SpendInit, SpendStep, PTL DEF Spec

\* Only Send sends, and the row it sends under is the one reserved for it.
LEMMA SentUnderAReservation ==
    SpendInv /\ [Next]_vars =>
      [\A c \in Campaigns, o \in Ops :
         sent'[c][o] > sent[c][o] =>
           \A i \in 1..(Len(att[c][o]) - 1) : att[c][o][i] = "retryable"]_vars
<1>1. ASSUME SpendInv, [Next]_vars, NEW c \in Campaigns, NEW o \in Ops, sent'[c][o] > sent[c][o]
      PROVE  \A i \in 1..(Len(att[c][o]) - 1) : att[c][o][i] = "retryable"
  <2>1. sent' # sent
    BY <1>1, LedgerTyped
  <2>2. PICK p \in Procs : Send(p)
    <3>1. ASSUME NEW p \in Procs, Step(p), ~Send(p) PROVE UNCHANGED sent
      BY <3>1 DEF Step, ReadCheckpoint, Skip, Request, Decide, RoundTake, RoundReserve,
         RoundFinish, Record, StoreBilingual, StoreEvidence, StoreLegacy, StoreCalibration,
         Finish, WriteFailure
    <3>2. ASSUME NEW p \in Procs,
                 Crash(p) \/ Interrupt(p) \/ \E d \in Campaigns : Start(p, d)
          PROVE  UNCHANGED sent
      BY <3>2 DEF Crash, Interrupt, Start
    <3>3. Deploy \/ RemoveLock \/ UNCHANGED vars => UNCHANGED sent
      BY DEF Deploy, RemoveLock, vars
    <3> QED
      BY <1>1, <2>1, <3>1, <3>2, <3>3 DEF Next
  <2>3. proc[p] \in Thread /\ proc[p].pc = "send"
    BY <1>1, <2>2, ThreadTyped DEF Send
  <2>4. c = proc[p].c /\ o = proc[p].op
    BY <1>1, <2>2, <2>3, LedgerTyped DEF Send, SpendInv, SpendTypeOK, Thread
  <2>5. OpenRow(att[c][o])
    BY <1>1, <2>3, <2>4 DEF SpendInv, ThreadIsPaid, Opened
  <2> QED
    BY <2>5 DEF OpenRow
<1> QED
  BY <1>1

\* "Resume never reissues an operation whose transport outcome is unknown":
\* a request reaches the provider only under the last row of its operation,
\* which _call_locked reserves when all earlier ones are transport errors.
THEOREM ReissueSafety == Spec => NeverReissued
BY SentUnderAReservation, SpendingInvariant, PTL DEF Spec, NeverReissued

LEMMA SpendBounded == SpendInv => SpendIsBounded
<1> SUFFICES ASSUME SpendInv PROVE SpendIsBounded
  OBVIOUS
<1>1. \A c \in Campaigns, o \in Ops : DOMAIN att[c][o] = 1..Len(att[c][o]) /\ Len(att[c][o]) \in Nat
  BY LedgerTyped
<1>2. \A c \in Bilingual, o \in Ops : DOMAIN round[c][o] = 1..Len(round[c][o])
                                      /\ Len(round[c][o]) \in Nat
  BY DEF SpendInv, SpendTypeOK
<1>3. ASSUME NEW c \in Campaigns PROVE Cardinality(Sends({c})) <= Limit
  <2> DEFINE f == [z \in Sends({c}) |-> <<z[1][2], z[2]>>]
  <2>1. \A z \in Sends({c}) : \E o \in Ops : \E i \in DOMAIN att[c][o] : z = <<<<c, o>>, i>>
    <3> TAKE z \in Sends({c})
    <3>1. PICK o \in Ops : \E i \in 1..sent[c][o] : z = <<<<c, o>>, i>>
      BY DEF Sends
    <3>2. PICK i \in 1..sent[c][o] : z = <<<<c, o>>, i>>
      BY <3>1
    <3>3. i \in DOMAIN att[c][o]
      BY <1>1, LedgerTyped DEF SpendInv, CampaignIsPaid
    <3> QED
      BY <3>2, <3>3
  <2>2. f \in [Sends({c}) -> Slots(c)]
    BY <2>1 DEF Slots
  <2>3. \A y, z \in Sends({c}) : f[y] = f[z] => y = z
    BY <2>1
  <2>4. f \in Injection(Sends({c}), Slots(c))
    BY <2>2, <2>3 DEF Injection, IsInjective
  <2>5. Cardinality(Sends({c})) <= Cardinality(Slots(c)) /\ IsFiniteSet(Sends({c}))
    BY <2>4, FS_Injection DEF SpendInv, CampaignIsPaid
  <2>6. Cardinality(Sends({c})) \in Nat /\ Cardinality(Slots(c)) \in Nat /\ Limit \in Nat
    BY <2>5, FS_CardinalityType, CampaignAssumption DEF SpendInv, CampaignIsPaid
  <2> QED
    BY <2>5, <2>6 DEF SpendInv, CampaignIsPaid
<1>4. Cardinality(Sends(Bilingual)) <= RoundLimit
  <2>1. Sends(Bilingual) \subseteq RoundSlots
    <3> SUFFICES ASSUME NEW z \in Sends(Bilingual) PROVE z \in RoundSlots
      OBVIOUS
    <3>1. PICK c \in Bilingual, o \in Ops : \E i \in 1..sent[c][o] : z = <<<<c, o>>, i>>
      BY DEF Sends
    <3>2. PICK i \in 1..sent[c][o] : z = <<<<c, o>>, i>>
      BY <3>1
    <3>3. i \in DOMAIN round[c][o]
      BY <1>2, LedgerTyped DEF SpendInv, RoundIsPaid, Campaigns
    <3>4. <<c, o>> \in Bilingual \X Ops /\ z \in {<<c, o>>} \X DOMAIN round[<<c, o>>[1]][<<c, o>>[2]]
      BY <3>2, <3>3
    <3> QED
      BY <3>4 DEF RoundSlots
  <2>2. /\ IsFiniteSet(Sends(Bilingual)) /\ Cardinality(Sends(Bilingual)) <= Cardinality(RoundSlots)
    BY <2>1, FS_Subset DEF SpendInv, RoundIsPaid
  <2>3. Cardinality(Sends(Bilingual)) \in Nat /\ Cardinality(RoundSlots) \in Nat /\ RoundLimit \in Nat
    BY <2>2, FS_CardinalityType, CampaignAssumption DEF SpendInv, RoundIsPaid
  <2> QED
    BY <2>2, <2>3 DEF SpendInv, RoundIsPaid
<1> QED
  BY <1>3, <1>4 DEF SpendIsBounded

\* The requests that reached the provider stay within the slots of their
\* campaign, and those of all campaigns of a round within its budget.
THEOREM BudgetSafety == Spec => []SpendIsBounded
BY SpendBounded, SpendingInvariant, PTL

-----------------------------------------------------------------------------
(* What no step takes back. *)

Grown ==
    /\ \A c \in Campaigns, o \in Ops : Completed(c, o) =>
          Completed(c, o)' /\ req'[c][o] = req[c][o] /\ resp'[c][o] = resp[c][o]
    /\ \A c \in Campaigns : cal[c] = "passed" => cal'[c] = "passed"
    /\ \A c \in Campaigns, o \in Ops : rec[c][o] # <<>> => rec'[c][o] # <<>>

LEMMA StageIs ==
    ASSUME NEW c \in Campaigns, NEW i \in DOMAIN Program(c)
    PROVE  /\ Program(c)[i] \in Ops /\ Program(c)[i] \in Asked
           /\ i \in Nat /\ i >= 1 /\ i <= Len(Program(c))
           /\ 1 \in DOMAIN Program(c) /\ Program(c)[1] = Calibration
           /\ \A k \in DOMAIN Program(c) : Program(c)[k] = Program(c)[i] => k = i
<1>1. PICK u \in Seq(Asked) : u = Program(c) /\ Once(u) /\ u # <<>> /\ u[1] = Calibration
  BY ProgramIs
<1>2. DOMAIN u = 1..Len(u) /\ Len(u) \in Nat /\ Len(u) >= 1
  BY <1>1
<1>3. u[i] \in Asked /\ i \in Nat /\ i >= 1 /\ i <= Len(u) /\ 1 \in DOMAIN u
  BY <1>1, <1>2
<1>4. Asked \subseteq Ops
  BY DEF Asked, Ops
<1>5. \A k \in DOMAIN u : u[k] = u[i] => k = i
  BY <1>1 DEF Once
<1> QED
  BY <1>1, <1>3, <1>4, <1>5

LEMMA PassedStays ==
    ASSUME Grown, NEW c \in Campaigns, NEW v, NEW n, Passed(c, v, n)
    PROVE  Passed(c, v, n)'
<1> SUFFICES ASSUME NEW i \in DOMAIN Program(c), i < n
             PROVE  /\ Completed(c, Program(c)[i])'
                    /\ c \in EvidenceV3 => req'[c][Program(c)[i]] = v /\ cal'[c] = "passed"
  BY DEF Passed
<1>1. Program(c)[i] \in Ops
  BY StageIs
<1> QED
  BY <1>1 DEF Passed, Grown

LEMMA PlaceStays ==
    ASSUME Grown, NEW r \in Thread, Placed(r)
    PROVE  Placed(r)'
<1>1. r.c \in Campaigns /\ r.mem \subseteq Ops
  BY DEF Thread
<1>2. Passed(r.c, r.prompt, r.at)'
  BY <1>1, PassedStays DEF Placed
<1>3. \A o \in r.mem : rec'[r.c][o] # <<>>
  BY <1>1 DEF Placed, Grown
<1> QED
  BY <1>2, <1>3 DEF Placed

LEMMA StageStays ==
    ASSUME Grown, NEW r \in Thread, OnStage(r)
    PROVE  OnStage(r)'
<1>1. r.c \in Campaigns /\ r.at \in DOMAIN Program(r.c)
  BY DEF Thread, OnStage
<1>2. Program(r.c)[r.at] \in Ops
  BY <1>1, StageIs
<1>3. Completed(r.c, Program(r.c)[r.at]) => Completed(r.c, Program(r.c)[r.at])'
  BY <1>1, <1>2 DEF Grown
<1> QED
  BY <1>3 DEF OnStage

\* A process that is not at its ledger's reservation stays on course.
LEMMA CourseStays ==
    ASSUME Grown, NEW r \in Thread \cup {Idle}, OnCourse(r),
           r.pc \in Opened => req'[r.c][r.op] = req[r.c][r.op]
    PROVE  OnCourse(r)'
<1> SUFFICES ASSUME r \in Thread, Placed(r), OnTask(r) PROVE Placed(r)' /\ OnTask(r)'
  BY DEF OnCourse, Idle
<1>1. Placed(r)'
  BY PlaceStays
<1>2. r.c \in Campaigns /\ r.op \in Ops
  BY DEF Thread
<1>3. r.pc = "store" => Completed(r.c, r.op)' /\ req'[r.c][r.op] = r.prompt
  BY <1>2 DEF OnTask, Grown
<1>4. r.pc \in Opened => req'[r.c][r.op] = r.prompt
  BY DEF OnTask
<1>5. r.pc \in Holding \cup {"store", "correct"} => OnStage(r)'
  BY StageStays DEF OnTask
<1> QED
  BY <1>1, <1>3, <1>4, <1>5 DEF OnTask

\* The files of a campaign that is not written stay backed, its decision earned.
LEMMA FilesStay ==
    ASSUME Grown, CourseInv, NEW c \in Campaigns,
           rec'[c] = rec[c], cal'[c] = cal[c]
    PROVE  FilesAreBacked(c)'
<1>1. FilesAreBacked(c)
  BY DEF CourseInv
<1>2. Calibration \in Ops
  BY DEF Ops
<1>3. cal[c] # "none" => Completed(c, Calibration)' /\ resp'[c][Calibration] = resp[c][Calibration]
  BY <1>1, <1>2 DEF FilesAreBacked, Grown
<1>4. \A o \in Ops : rec[c][o] # <<>> => Completed(c, o)' /\ o # Calibration
  BY <1>1 DEF FilesAreBacked, Grown
<1> QED
  BY <1>1, <1>3, <1>4 DEF FilesAreBacked, Calibrated

Earned(c) ==
    /\ cal[c] = "passed"
    /\ \A i \in DOMAIN Program(c) : Completed(c, Program(c)[i])
    /\ c \in EvidenceV3 => Cardinality({req[c][Program(c)[i]] : i \in DOMAIN Program(c)}) = 1

LEMMA EarnedStays ==
    ASSUME Grown, NEW c \in Campaigns, Earned(c)
    PROVE  Earned(c)'
<1>1. \A i \in DOMAIN Program(c) : /\ Completed(c, Program(c)[i])'
                                   /\ req'[c][Program(c)[i]] = req[c][Program(c)[i]]
  BY StageIs DEF Earned, Grown
<1>2. {req'[c][Program(c)[i]] : i \in DOMAIN Program(c)} = {req[c][Program(c)[i]] : i \in DOMAIN Program(c)}
  BY <1>1
<1>3. cal'[c] = "passed"
  BY DEF Earned, Grown
<1> QED
  BY <1>1, <1>2, <1>3 DEF Earned

LEMMA OrderStays ==
    ASSUME Grown, CourseInv, UNCHANGED <<att, req>>, NEW c \in EvidenceV3
    PROVE  InOrder(c)'
BY DEF CourseInv, InOrder, Completed

\* What is left to show of a step, once it takes nothing back.
LEMMA CourseKept ==
    ASSUME SpendInv, CourseInv, Grown, CourseTypeOK',
           \A c \in Campaigns : FilesAreBacked(c)', \A c \in EvidenceV3 : InOrder(c)',
           \A c \in Campaigns : status'[c] = "GO" => status[c] = "GO" \/ Earned(c)',
           NEW p \in Procs, NEW new \in Thread \cup {Idle},
           proc' = [proc EXCEPT ![p] = new], OnCourse(new)',
           \A q \in Procs : q # p /\ proc[q].pc \in Opened =>
              req'[proc[q].c][proc[q].op] = req[proc[q].c][proc[q].op]
    PROVE  CourseInv'
<1>1. \A q \in Procs : proc'[q] = IF q = p THEN new ELSE proc[q]
  BY DEF SpendInv, SpendTypeOK
<1>2. ASSUME NEW q \in Procs, q # p PROVE OnCourse(proc[q])'
  <2>1. PICK r \in Thread \cup {Idle} : r = proc[q]
    BY DEF SpendInv, SpendTypeOK
  <2>2. OnCourse(r)'
    BY <1>2, <2>1, CourseStays DEF CourseInv
  <2>3. proc'[q] = r
    BY <1>1, <1>2, <2>1
  <2> QED
    BY <2>2, <2>3 DEF OnCourse, Placed, OnTask, OnStage, Passed
<1>3. OnCourse(proc[p])'
  BY <1>1 DEF OnCourse, Placed, OnTask, OnStage, Passed
<1>4. ASSUME NEW c \in Campaigns, status'[c] = "GO" PROVE Earned(c)'
  <2>1. CASE status[c] = "GO"
    BY <2>1, EarnedStays DEF CourseInv, GoIsEarned, Earned
  <2> QED
    BY <1>4, <2>1
<1>5. GoIsEarned'
  BY <1>4 DEF GoIsEarned, Earned
<1> QED
  BY <1>2, <1>3, <1>5 DEF CourseInv

-----------------------------------------------------------------------------
(* The steps that write no file and no row. *)

Quiet == UNCHANGED <<att, req, resp, cal, rec, status>>

LEMMA QuietKeeps ==
    ASSUME SpendInv, CourseInv, Quiet,
           NEW p \in Procs, NEW new \in Thread \cup {Idle},
           proc' = [proc EXCEPT ![p] = new], OnCourse(new)'
    PROVE  CourseInv'
<1>1. Grown
  BY DEF Quiet, Grown, Completed
<1>2. CourseTypeOK'
  BY DEF Quiet, CourseInv, CourseTypeOK
<1>3. \A c \in Campaigns : FilesAreBacked(c)'
  BY <1>1, FilesStay DEF Quiet
<1>4. \A c \in EvidenceV3 : InOrder(c)'
  BY <1>1, OrderStays DEF Quiet
<1>5. status' = status /\ req' = req
  BY DEF Quiet
<1> QED
  BY <1>1, <1>2, <1>3, <1>4, <1>5, CourseKept

\* The process stays where it is in its program.
LEMMA Goes ==
    ASSUME SpendInv, CourseInv, Quiet,
           NEW p \in Procs, proc[p] \in Thread, NEW new \in Thread,
           proc' = [proc EXCEPT ![p] = new], OnTask(new),
           new.c = proc[p].c, new.at = proc[p].at, new.mem = proc[p].mem,
           new.prompt = proc[p].prompt
    PROVE  CourseInv'
<1>1. Placed(proc[p])
  BY DEF CourseInv, OnCourse, Thread, Holding, Opened, Resting
<1>2. OnCourse(new)
  BY <1>1 DEF OnCourse, Placed
<1>3. Grown /\ req' = req
  BY DEF Quiet, Grown, Completed
<1>4. OnCourse(new)'
  BY <1>2, <1>3, CourseStays
<1> QED
  BY <1>4, QuietKeeps

LEMMA RaiseKeeps ==
    ASSUME SpendInv, CourseInv, Quiet,
           NEW p \in Procs, proc[p] \in Thread, NEW r \in Thread,
           proc' = [proc EXCEPT ![p] = Raised(r)],
           r.c = proc[p].c, r.at = proc[p].at, r.mem = proc[p].mem, r.prompt = proc[p].prompt
    PROVE  CourseInv'
<1>1. CASE Raised(r) = Idle
  BY <1>1, QuietKeeps DEF OnCourse, Idle
<1>2. CASE Raised(r) = [r EXCEPT !.pc = "incomplete"]
  <2> DEFINE new == [r EXCEPT !.pc = "incomplete"]
  <2>1. /\ new \in Thread /\ new.pc = "incomplete" /\ new.c = r.c /\ new.at = r.at
        /\ new.mem = r.mem /\ new.prompt = r.prompt
    BY DEF Thread, Resting
  <2>2. OnTask(new)
    BY <2>1 DEF OnTask, Holding, Opened
  <2>3. proc' = [proc EXCEPT ![p] = new]
    BY <1>2
  <2> HIDE DEF new
  <2> QED
    BY <2>1, <2>2, <2>3, Goes
<1> QED
  BY <1>1, <1>2 DEF Raised

LEMMA FaultsKeep ==
    ASSUME SpendInv, CourseInv, NEW p \in Procs, Crash(p) \/ Interrupt(p)
    PROVE  CourseInv'
<1>1. Quiet /\ proc' = [proc EXCEPT ![p] = Idle]
  BY DEF Crash, Interrupt, Quiet, ledger, files
<1>2. OnCourse(Idle)'
  BY DEF OnCourse, Idle
<1> QED
  BY <1>1, <1>2, QuietKeeps

LEMMA StartKeeps ==
    ASSUME SpendInv, CourseInv, NEW p \in Procs, NEW c \in Campaigns, Start(p, c)
    PROVE  CourseInv'
<1>1. PICK new \in Thread : new = Live(c, prompt)
  <2>1. Live(c, prompt) \in Thread
    BY DEF Live, Thread, Resting, Ops, SpendInv, SpendTypeOK
  <2> QED
    BY <2>1
<1>2. Quiet /\ proc' = [proc EXCEPT ![p] = new]
  BY <1>1 DEF Start, Quiet, ledger, files
<1>3. 1 \in 1..(Len(Program(c)) + 1) /\ \A i \in DOMAIN Program(c) : ~(i < 1)
  <2>1. PICK u \in Seq(Ops) : u = Program(c)
    BY ProgramIs
  <2>2. PICK n \in Nat : n = Len(u) /\ DOMAIN u = 1..n
    OBVIOUS
  <2>3. 1 \in 1..(n + 1) /\ \A i \in 1..n : ~(i < 1)
    OBVIOUS
  <2> QED
    BY <2>1, <2>2, <2>3
<1>4. OnCourse(new)'
  <2>1. new.pc = "next" /\ new.c = c /\ new.at = 1 /\ new.mem = {}
    BY <1>1 DEF Live
  <2>2. Placed(new)'
    BY <1>3, <2>1 DEF Placed, Passed
  <2>3. OnTask(new)'
    BY <2>1 DEF OnTask, Holding, Opened
  <2> QED
    BY <2>2, <2>3 DEF OnCourse
<1> QED
  BY <1>2, <1>4, QuietKeeps

LEMMA OperatorKeeps ==
    ASSUME CourseInv, Deploy \/ RemoveLock \/ UNCHANGED vars
    PROVE  CourseInv'
<1>1. Quiet /\ proc' = proc
  BY DEF Deploy, RemoveLock, Quiet, vars, ledger, files
<1>2. CourseTypeOK' /\ GoIsEarned'
  BY <1>1 DEF CourseInv, CourseTypeOK, GoIsEarned, Quiet, Completed
<1>3. (\A c \in Campaigns : FilesAreBacked(c)') /\ \A c \in EvidenceV3 : InOrder(c)'
  BY <1>1 DEF CourseInv, FilesAreBacked, InOrder, Quiet, Completed, Calibrated
<1>4. \A p \in Procs : OnCourse(proc[p])'
  BY <1>1 DEF CourseInv, OnCourse, Placed, Passed, OnTask, OnStage, Quiet, Completed
<1> QED
  BY <1>2, <1>3, <1>4 DEF CourseInv

\* The stage of a process is done, with its prompt.
LEMMA StageDone ==
    ASSUME Grown, NEW r \in Thread, Placed(r), r.at \in DOMAIN Program(r.c),
           Completed(r.c, Program(r.c)[r.at])',
           r.c \in EvidenceV3 => req'[r.c][Program(r.c)[r.at]] = r.prompt /\ cal'[r.c] = "passed",
           NEW new \in Thread, new.pc \in {"next", "load"}, new.at = r.at + 1,
           new.c = r.c, new.mem = r.mem, new.prompt = r.prompt
    PROVE  OnCourse(new)'
<1>1. Placed(r)'
  BY PlaceStays
<1>2. r.c \in Campaigns
  BY DEF Thread
<1>3. PICK n \in Nat : n = Len(Program(r.c)) /\ DOMAIN Program(r.c) = 1..n
  BY <1>2, ProgramIs
<1>4. r.at + 1 \in 1..(n + 1)
  BY <1>3
<1>5. \A i \in DOMAIN Program(r.c) : i < r.at + 1 => i < r.at \/ i = r.at
  BY <1>3
<1>6. Passed(r.c, r.prompt, r.at + 1)'
  BY <1>1, <1>5 DEF Placed, Passed
<1>7. Placed(new)'
  BY <1>1, <1>3, <1>4, <1>6 DEF Placed
<1>8. OnTask(new)'
  BY DEF OnTask, Holding, Opened
<1> QED
  BY <1>7, <1>8 DEF OnCourse

LEMMA CheckpointKeeps ==
    ASSUME SpendInv, CourseInv, NEW p \in Procs, ReadCheckpoint(p)
    PROVE  CourseInv'
<1>1. proc[p] \in Thread /\ Quiet
  BY ThreadTyped DEF ReadCheckpoint, Quiet, ledger, files
<1>2. CASE Raise(p)
  BY <1>1, <1>2, RaiseKeeps DEF Raise
<1>3. CASE proc' = [proc EXCEPT ![p].pc = "next",
                                ![p].mem = {o \in Ops : rec[proc[p].c][o] # <<>>}]
  <2>1. PICK r \in Thread : r = proc[p]
    BY <1>1
  <2>2. PICK rows \in SUBSET Ops : rows = {o \in Ops : rec[r.c][o] # <<>>}
    OBVIOUS
  <2> DEFINE new == [r EXCEPT !.pc = "next", !.mem = rows]
  <2>3. new \in Thread /\ new.pc = "next" /\ new.mem = rows /\ new.c = r.c /\ new.at = r.at
        /\ new.prompt = r.prompt
    BY DEF Thread, Resting
  <2>4. proc' = [proc EXCEPT ![p] = new]
    BY <1>3, <2>1, <2>2 DEF SpendInv, SpendTypeOK
  <2> HIDE DEF new
  <2>5. Placed(r) /\ Grown
    BY <1>1, <2>1 DEF CourseInv, OnCourse, Thread, Holding, Opened, Resting, Quiet, Grown, Completed
  <2>6. OnCourse(new)
    BY <2>2, <2>3, <2>5 DEF OnCourse, Placed, OnTask, Holding, Opened
  <2>7. OnCourse(new)'
    BY <1>1, <2>3, <2>5, <2>6, CourseStays DEF Quiet
  <2> QED
    BY <1>1, <2>3, <2>4, <2>7, QuietKeeps
<1> QED
  BY <1>2, <1>3 DEF ReadCheckpoint

\* The stage of an evidence campaign that is behind the calibration: the
\* calibration passed, and the rows that are there are of one prompt.
LEMMA BehindCalibration ==
    ASSUME CourseInv, NEW r \in Thread, r.c \in EvidenceV3, Placed(r),
           r.at \in DOMAIN Program(r.c), Program(r.c)[r.at] # Calibration
    PROVE  /\ cal[r.c] = "passed"
           /\ att[r.c][Program(r.c)[r.at]] # <<>> => req[r.c][Program(r.c)[r.at]] = r.prompt
<1>1. r.c \in Campaigns
  BY DEF Thread
<1>2. 1 \in DOMAIN Program(r.c) /\ Program(r.c)[1] = Calibration /\ 1 < r.at
  BY <1>1, StageIs
<1>3. cal[r.c] = "passed" /\ req[r.c][Program(r.c)[1]] = r.prompt
  BY <1>2 DEF Placed, Passed
<1>4. att[r.c][Program(r.c)[r.at]] # <<>> => req[r.c][Program(r.c)[1]] = req[r.c][Program(r.c)[r.at]]
  BY <1>2 DEF CourseInv, InOrder
<1> QED
  BY <1>3, <1>4

LEMMA SkipKeeps ==
    ASSUME SpendInv, CourseInv, NEW p \in Procs, Skip(p)
    PROVE  CourseInv'
<1>1. proc[p] \in Thread /\ Quiet /\ Grown /\ proc[p].pc = "next"
  BY ThreadTyped DEF Skip, Quiet, ledger, files, Grown, Completed
<1>2. CASE Raise(p)
  BY <1>1, <1>2, RaiseKeeps DEF Raise
<1>3. ASSUME NEW pc \in {"next", "load"}, proc' = [proc EXCEPT ![p].at = @ + 1, ![p].pc = pc]
      PROVE  CourseInv'
  <2>1. PICK r \in Thread : r = proc[p]
    BY <1>1
  <2> DEFINE new == [r EXCEPT !.at = @ + 1, !.pc = pc]
  <2>2. new \in Thread /\ new.pc = pc /\ new.at = r.at + 1 /\ new.c = r.c
        /\ new.mem = r.mem /\ new.prompt = r.prompt
    <3>1. pc \in Resting
      BY DEF Resting
    <3> QED
      BY <3>1, StageBehind
  <2>3. proc' = [proc EXCEPT ![p] = new]
    BY <1>3, <2>1 DEF SpendInv, SpendTypeOK
  <2> HIDE DEF new
  <2>4. Placed(r)
    BY <1>1, <2>1 DEF CourseInv, OnCourse
  <2>5. PICK o \in Ops : o = Program(r.c)[r.at] /\ r.at \in DOMAIN Program(r.c)
    BY <1>1, <2>1, StageTyped DEF Skip
  <2>6. r.c \in Campaigns /\ FilesAreBacked(r.c)
    BY DEF Thread, CourseInv
  <2>7. CASE Kept(r.c, o)
    <3>1. Completed(r.c, o) /\ r.c \in Bilingual /\ r.c \notin EvidenceV3
      BY <2>6, <2>7, CampaignAssumption DEF Kept, FilesAreBacked
    <3>2. Completed(r.c, Program(r.c)[r.at])'
      BY <1>1, <2>5, <2>6, <3>1 DEF Grown
    <3>3. OnCourse(new)'
      BY <1>1, <1>3, <2>2, <2>4, <2>5, <3>1, <3>2, StageDone
    <3> QED
      BY <1>1, <2>2, <2>3, <3>3, QuietKeeps
  <2>8. CASE o \in r.mem
    <3>1. rec[r.c][o] # <<>>
      BY <2>4, <2>8 DEF Placed
    <3>2. Completed(r.c, o) /\ o # Calibration
      BY <2>6, <3>1 DEF FilesAreBacked
    <3>3. att[r.c][o] # <<>>
      BY <2>6, <3>2, LedgerTyped DEF Completed, Contains
    <3>4. r.c \in EvidenceV3 => req[r.c][o] = r.prompt /\ cal[r.c] = "passed"
      BY <2>4, <2>5, <3>2, <3>3, BehindCalibration
    <3>5. Completed(r.c, Program(r.c)[r.at])'
      BY <1>1, <2>5, <2>6, <3>2 DEF Grown
    <3>6. r.c \in EvidenceV3 => req'[r.c][Program(r.c)[r.at]] = r.prompt /\ cal'[r.c] = "passed"
      BY <1>1, <2>5, <3>4 DEF Quiet
    <3>7. OnCourse(new)'
      BY <1>1, <1>3, <2>2, <2>4, <2>5, <3>5, <3>6, StageDone
    <3> QED
      BY <1>1, <2>2, <2>3, <3>7, QuietKeeps
  <2> QED
    BY <2>1, <2>5, <2>7, <2>8 DEF Skip
<1> QED
  BY <1>2, <1>3 DEF Skip

LEMMA RequestKeeps ==
    ASSUME SpendInv, CourseInv, NEW p \in Procs, Request(p)
    PROVE  CourseInv'
<1>1. proc[p] \in Thread /\ Quiet /\ proc[p].pc \in {"correct", "next"}
  BY ThreadTyped DEF Request, Quiet, ledger, files
<1>2. PICK o \in Ops : o = IF proc[p].pc = "correct" THEN proc[p].op
                           ELSE Program(proc[p].c)[proc[p].at]
  <2>1. CASE proc[p].pc = "correct"
    BY <1>1, <2>1 DEF Thread
  <2>2. CASE proc[p].pc # "correct"
    BY <1>1, <2>2, StageTyped DEF Request
  <2> QED
    BY <2>1, <2>2
<1>3. PICK asked \in Thread :
        /\ asked = [proc[p] EXCEPT !.op = o, !.pc = "decide"]
        /\ asked.pc = "decide" /\ asked.op = o /\ asked.c = proc[p].c /\ asked.at = proc[p].at
        /\ asked.mem = proc[p].mem /\ asked.prompt = proc[p].prompt
  <2> DEFINE a == [proc[p] EXCEPT !.op = o, !.pc = "decide"]
  <2>1. a \in Thread
    BY <1>1 DEF Thread, Holding
  <2> QED
    BY <1>1, <2>1 DEF Thread
<1>4. CASE proc' = [proc EXCEPT ![p] = Raised(asked)]
  BY <1>1, <1>3, <1>4, RaiseKeeps
<1>5. CASE proc' = [proc EXCEPT ![p] = asked]
  <2>1. OnStage(asked)
    <3>1. CASE proc[p].pc = "correct"
      <4>1. OnStage(proc[p]) /\ o = proc[p].op
        BY <1>2, <3>1 DEF CourseInv, OnCourse, OnTask
      <4> QED
        BY <1>3, <4>1 DEF OnStage
    <3>2. CASE proc[p].pc # "correct"
      <4>1. proc[p].at \in DOMAIN Program(proc[p].c) /\ o = Program(proc[p].c)[proc[p].at]
        BY <1>1, <1>2, <3>2, StageTyped DEF Request
      <4> QED
        BY <1>3, <4>1 DEF OnStage
    <3> QED
      BY <3>1, <3>2
  <2>2. OnTask(asked)
    BY <1>3, <2>1 DEF OnTask, Opened
  <2> QED
    BY <1>1, <1>3, <1>5, <2>2, Goes
<1> QED
  BY <1>2, <1>3, <1>4, <1>5 DEF Request

\* Under the lock, with the row of the operation: only pc and out change.
LEMMA AttemptKeeps ==
    ASSUME SpendInv, CourseInv, Quiet, NEW p \in Procs, proc[p] \in Thread,
           proc[p].pc \in Opened, NEW new \in Thread, proc' = [proc EXCEPT ![p] = new],
           new.pc \in Opened, new.c = proc[p].c, new.at = proc[p].at, new.op = proc[p].op,
           new.mem = proc[p].mem, new.prompt = proc[p].prompt
    PROVE  CourseInv'
<1>1. OnTask(proc[p])
  BY DEF CourseInv, OnCourse, Opened
<1>2. OnTask(new)
  BY <1>1 DEF OnTask, OnStage, Holding, Opened
<1> QED
  BY <1>2, Goes

LEMMA RoundKeeps ==
    ASSUME SpendInv, CourseInv, NEW p \in Procs,
           RoundTake(p) \/ RoundReserve(p) \/ RoundFinish(p) \/ Send(p)
    PROVE  CourseInv'
<1>1. proc[p] \in Thread /\ Quiet /\ proc[p].pc \in Opened
  BY ThreadTyped DEF RoundTake, RoundReserve, RoundFinish, Send, Quiet, ledger, files, Opened
<1>2. PICK pc \in Opened, out \in {"none", "good", "bad", "retryable", "fatal"} :
        proc' = [proc EXCEPT ![p].pc = pc, ![p].out = out]
  <2>1. \A pc : Goto(p, pc) => proc' = [proc EXCEPT ![p].pc = pc, ![p].out = proc[p].out]
    BY <1>1 DEF Goto, SpendInv, SpendTypeOK, Thread
  <2>2. CASE RoundTake(p) \/ RoundReserve(p) \/ RoundFinish(p)
    BY <1>1, <2>1, <2>2 DEF RoundTake, RoundReserve, RoundFinish, Opened, Thread
  <2>3. CASE Send(p)
    <3>1. PICK x \in {"good", "bad", "retryable", "fatal"} :
            LET r == [proc[p] EXCEPT !.out = x]
            IN  proc' = [proc EXCEPT ![p] = IF proc[p].c \in Bilingual THEN BilingualSend(r)
                                            ELSE EvidenceSend(r)]
      BY <2>3 DEF Send
    <3>2. proc' = [proc EXCEPT ![p].pc = IF proc[p].c \in Bilingual THEN "settle" ELSE "record",
                               ![p].out = x]
      BY <1>1, <3>1 DEF BilingualSend, EvidenceSend, Thread, SpendInv, SpendTypeOK
    <3> QED
      BY <3>2 DEF Opened
  <2> QED
    BY <2>2, <2>3
<1> DEFINE new == [proc[p] EXCEPT !.pc = pc, !.out = out]
<1>3. /\ new \in Thread /\ new.pc = pc /\ new.c = proc[p].c /\ new.at = proc[p].at
      /\ new.op = proc[p].op /\ new.mem = proc[p].mem /\ new.prompt = proc[p].prompt
  BY <1>1 DEF Thread, Holding
<1>4. proc' = [proc EXCEPT ![p] = new]
  BY <1>2 DEF SpendInv, SpendTypeOK
<1> HIDE DEF new
<1> QED
  BY <1>1, <1>3, <1>4, AttemptKeeps

\* The thread r of p reserves a row for the operation o of c.
Reserves(p, r, c, o) ==
    /\ r = proc[p] /\ r.pc = "decide" /\ c = r.c /\ o = r.op /\ ~Completed(c, o)
    /\ att'[c][o] = Append(att[c][o], "reserved") /\ req'[c][o] = r.prompt
    /\ \A d \in Campaigns, x \in Ops : <<d, x>> # <<c, o>> =>
          att'[d][x] = att[d][x] /\ req'[d][x] = req[d][x]
    /\ Goto(p, IF c \in Bilingual THEN "round" ELSE "send")
    /\ UNCHANGED <<resp, cal, rec, status>>

\* A reservation: the operation of the stage, not yet completed.
LEMMA ReservationKeeps ==
    ASSUME SpendInv, CourseInv, NEW p \in Procs, NEW r \in Thread,
           NEW c \in Campaigns, NEW o \in Ops, Reserves(p, r, c, o)
    PROVE  CourseInv'
<1> USE DEF Reserves
<1>1. OnStage(r) /\ Placed(r)
  BY DEF CourseInv, OnCourse, OnTask, Holding
<1>3. Grown
  <2>1. ASSUME NEW d \in Campaigns, NEW x \in Ops, Completed(d, x)
        PROVE  Completed(d, x)' /\ req'[d][x] = req[d][x]
    <3>1. <<d, x>> # <<c, o>>
      BY <2>1
    <3> QED
      BY <2>1, <3>1 DEF Completed
  <2> QED
    BY <2>1 DEF Grown
<1>4. \A d \in EvidenceV3 : InOrder(d)'
  <2> SUFFICES ASSUME NEW d \in EvidenceV3, NEW i \in DOMAIN Program(d), NEW k \in DOMAIN Program(d),
                      i < k, att'[d][Program(d)[k]] # <<>>
               PROVE  Completed(d, Program(d)[i])' /\ req'[d][Program(d)[i]] = req'[d][Program(d)[k]]
    BY DEF InOrder
  <2>1. d \in Campaigns /\ Program(d)[i] \in Ops /\ Program(d)[k] \in Ops
    BY StageIs DEF Campaigns
  <2>2. CASE <<d, Program(d)[k]>> = <<c, o>>
    <3>1. d \notin Bilingual /\ d = c /\ o = Program(d)[k]
      BY <2>2, CampaignAssumption
    <3>2. r.at \in DOMAIN Program(d) /\ o = Program(d)[r.at]
      BY <1>1, <3>1 DEF OnStage
    <3>3. r.at = k
      <4>1. \A m \in DOMAIN Program(d) : Program(d)[m] = Program(d)[k] => m = k
        BY <2>1, StageIs
      <4> QED
        BY <3>1, <3>2, <4>1
    <3>4. Completed(d, Program(d)[i]) /\ req[d][Program(d)[i]] = r.prompt
      BY <1>1, <3>1, <3>3 DEF Placed, Passed
    <3> QED
      BY <1>3, <2>1, <3>1, <3>4 DEF Grown
  <2>3. CASE <<d, Program(d)[k]>> # <<c, o>>
    <3>1. att[d][Program(d)[k]] # <<>> /\ req'[d][Program(d)[k]] = req[d][Program(d)[k]]
      BY <2>1, <2>3
    <3>2. Completed(d, Program(d)[i]) /\ req[d][Program(d)[i]] = req[d][Program(d)[k]]
      BY <3>1 DEF CourseInv, InOrder
    <3> QED
      BY <1>3, <2>1, <3>1, <3>2 DEF Grown
  <2> QED
    BY <2>2, <2>3
<1> DEFINE new == [r EXCEPT !.pc = IF r.c \in Bilingual THEN "round" ELSE "send"]
<1>5. /\ new \in Thread /\ new.pc = IF r.c \in Bilingual THEN "round" ELSE "send"
      /\ new.c = r.c /\ new.at = r.at /\ new.op = r.op /\ new.mem = r.mem /\ new.prompt = r.prompt
  BY DEF Thread, Holding, Opened
<1>6. proc' = [proc EXCEPT ![p] = new]
  BY DEF Goto, SpendInv, SpendTypeOK
<1> HIDE DEF new
<1>7. OnCourse(new)'
  <2>1. Placed(new)'
    BY <1>1, <1>3, <1>5, PlaceStays DEF Placed, Passed
  <2>2. OnStage(new)'
    BY <1>1, <1>3, <1>5, StageStays DEF OnStage
  <2>3. req'[new.c][new.op] = new.prompt
    BY <1>5
  <2>4. OnTask(new)'
    BY <1>5, <2>2, <2>3 DEF OnTask
  <2> QED
    BY <2>1, <2>4 DEF OnCourse
<1>8. ASSUME NEW q \in Procs, q # p, proc[q].pc \in Opened
      PROVE  req'[proc[q].c][proc[q].op] = req[proc[q].c][proc[q].op]
  <2>1. proc[q].c # c /\ proc[q].c \in Campaigns /\ proc[q].op \in Ops
    BY <1>8, ThreadTyped DEF SpendInv, Apart, Holding, Opened, Thread
  <2> QED
    BY <2>1
<1>9. CourseTypeOK' /\ \A d \in Campaigns : FilesAreBacked(d)'
  BY <1>3, FilesStay DEF CourseInv, CourseTypeOK
<1> QED
  BY <1>3, <1>4, <1>5, <1>6, <1>7, <1>8, <1>9, CourseKept

LEMMA DecideKeeps ==
    ASSUME SpendInv, CourseInv, NEW p \in Procs, Decide(p)
    PROVE  CourseInv'
<1>1. PICK r \in Thread : r = proc[p] /\ r.pc = "decide"
  BY ThreadTyped DEF Decide
<1>2. r.c \in Campaigns /\ r.op \in Ops /\ OnStage(r)
  BY <1>1 DEF Thread, CourseInv, OnCourse, OnTask, Holding
<1>3. UNCHANGED <<cal, rec, status>>
  BY DEF Decide, files
<1>4. CASE Raise(p) /\ UNCHANGED ledger
  BY <1>1, <1>3, <1>4, RaiseKeeps DEF Raise, Quiet, ledger
<1>5. CASE /\ ~Refused(r.c, r.op, r.prompt) /\ Completed(r.c, r.op)
           /\ Return(p, r.c) /\ UNCHANGED ledger
  <2> DEFINE new == [r EXCEPT !.pc = "store"]
  <2>1. /\ new \in Thread /\ new.pc = "store" /\ new.c = r.c /\ new.at = r.at /\ new.op = r.op
        /\ new.mem = r.mem /\ new.prompt = r.prompt
    BY DEF Thread, Resting
  <2>2. proc' = [proc EXCEPT ![p] = new]
    BY <1>1, <1>5 DEF Return, Goto, SpendInv, SpendTypeOK
  <2> HIDE DEF new
  <2>3. att[r.c][r.op] # <<>>
    BY <1>2, <1>5, LedgerTyped DEF Completed, Contains
  <2>4. req[r.c][r.op] = r.prompt
    BY <1>5, <2>3 DEF Refused
  <2>5. OnTask(new)
    BY <1>2, <1>5, <2>1, <2>4 DEF OnTask, OnStage
  <2>6. Quiet
    BY <1>3, <1>5 DEF Quiet, ledger
  <2> QED
    BY <1>1, <2>1, <2>2, <2>5, <2>6, Goes
<1>6. CASE /\ ~Refused(r.c, r.op, r.prompt) /\ ~Completed(r.c, r.op)
           /\ att' = [att EXCEPT ![r.c][r.op] = Append(@, "reserved")]
           /\ req' = [req EXCEPT ![r.c][r.op] = r.prompt]
           /\ Goto(p, IF r.c \in Bilingual THEN "round" ELSE "send")
           /\ UNCHANGED <<resp, lock, torn>>
  <2>1. PICK c \in Campaigns, o \in Ops : c = r.c /\ o = r.op
    BY <1>2
  <2>2. /\ att'[c][o] = Append(att[c][o], "reserved")
        /\ \A d \in Campaigns, x \in Ops : <<d, x>> # <<c, o>> => att'[d][x] = att[d][x]
    <3>1. PICK a : a = Append(att[c][o], "reserved")
      OBVIOUS
    <3>2. att' = [att EXCEPT ![c][o] = a]
      BY <1>6, <2>1, <3>1
    <3> QED
      BY <3>1, <3>2 DEF SpendInv, SpendTypeOK
  <2>3. /\ req'[c][o] = r.prompt
        /\ \A d \in Campaigns, x \in Ops : <<d, x>> # <<c, o>> => req'[d][x] = req[d][x]
    <3>1. PICK v : v = r.prompt
      OBVIOUS
    <3>2. req' = [req EXCEPT ![c][o] = v]
      BY <1>6, <2>1, <3>1
    <3> QED
      BY <3>1, <3>2 DEF SpendInv, SpendTypeOK
  <2>4. /\ ~Completed(c, o) /\ Goto(p, IF c \in Bilingual THEN "round" ELSE "send")
        /\ UNCHANGED <<resp, cal, rec, status>>
    BY <1>3, <1>6, <2>1
  <2>5. Reserves(p, r, c, o)
    BY <1>1, <2>1, <2>2, <2>3, <2>4 DEF Reserves
  <2> QED
    BY <2>5, ReservationKeeps
<1> QED
  BY <1>1, <1>4, <1>5, <1>6 DEF Decide

\* The terminal row: a completed operation has its response.
LEMMA RecordKeeps ==
    ASSUME SpendInv, CourseInv, NEW p \in Procs, Record(p)
    PROVE  CourseInv'
<1>1. PICK r \in Thread : r = proc[p] /\ r.pc = "record" /\ r.out # "none"
  BY ThreadTyped DEF Record, SpendInv, ThreadIsPaid
<1>2. PICK c \in Campaigns, o \in Ops : c = r.c /\ o = r.op
  BY DEF Thread
<1>3. OnStage(r) /\ Placed(r) /\ req[c][o] = r.prompt /\ OpenRow(att[c][o])
  BY <1>1, <1>2 DEF CourseInv, OnCourse, OnTask, SpendInv, ThreadIsPaid, Holding, Opened
<1>4. UNCHANGED <<req, cal, rec, status>>
  BY DEF Record, files
<1>5. PICK ok \in BOOLEAN : ok <=> r.out \in {"good", "bad"}
  OBVIOUS
<1>6. /\ att' = [att EXCEPT ![c][o] = Settle(@, IF ok THEN "completed" ELSE r.out)]
      /\ resp' = [resp EXCEPT ![c][o] = IF ok THEN r.out ELSE @]
  BY <1>1, <1>2, <1>5 DEF Record
<1>7. PICK e \in Outcomes : e = IF ok THEN "completed" ELSE r.out
  BY <1>1, <1>5 DEF Thread, Outcomes
<1>8. PICK a \in Seq(Outcomes), b \in Seq(Outcomes) :
        /\ a = att[c][o] /\ b = Settle(a, e) /\ Len(b) = Len(a)
        /\ b[Len(a)] = e /\ \A i \in 1..(Len(a) - 1) : a[i] = "retryable"
        /\ a[Len(a)] = "reserved" /\ a # <<>>
  <2>1. PICK a \in Seq(Outcomes) : a = att[c][o]
    BY LedgerTyped
  <2>2. a # <<>> /\ a[Len(a)] = "reserved" /\ \A i \in 1..(Len(a) - 1) : a[i] = "retryable"
    BY <1>3, <2>1 DEF OpenRow
  <2>3. Settle(a, e) \in Seq(Outcomes) /\ Len(Settle(a, e)) = Len(a) /\ Settle(a, e)[Len(a)] = e
    BY <2>2, RowSettled
  <2> QED
    BY <2>1, <2>2, <2>3
<1>9. ~Completed(c, o)
  <2>1. PICK n \in Nat : n = Len(a)
    OBVIOUS
  <2>2. \A i \in 1..n : i = n \/ i \in 1..(n - 1)
    OBVIOUS
  <2> QED
    BY <1>8, <2>1, <2>2 DEF Completed, Contains
<1>10. /\ att'[c][o] = b
       /\ resp'[c][o] = IF ok THEN r.out ELSE resp[c][o]
       /\ \A d \in Campaigns, x \in Ops : <<d, x>> # <<c, o>> =>
            att'[d][x] = att[d][x] /\ resp'[d][x] = resp[d][x]
       /\ resp' \in [Campaigns -> [Ops -> {"none", "good", "bad"}]]
  <2>1. att' = [att EXCEPT ![c][o] = b]
    BY <1>6, <1>7, <1>8 DEF SpendInv, SpendTypeOK
  <2>2. resp \in [Campaigns -> [Ops -> {"none", "good", "bad"}]]
    BY DEF CourseInv, CourseTypeOK
  <2>3. (IF ok THEN r.out ELSE resp[c][o]) \in {"none", "good", "bad"}
    BY <1>5, <2>2
  <2>4. att'[c][o] = b /\ \A d \in Campaigns, x \in Ops : <<d, x>> # <<c, o>> => att'[d][x] = att[d][x]
    BY <2>1 DEF SpendInv, SpendTypeOK
  <2> QED
    BY <1>6, <2>2, <2>3, <2>4
<1>11. ok => Completed(c, o)'
  <2>1. b # <<>> => Len(b) \in 1..Len(b)
    OBVIOUS
  <2>2. b # <<>>
    BY <1>8
  <2> QED
    BY <1>7, <1>8, <1>10, <2>1, <2>2 DEF Completed, Contains
<1>12. Grown
  <2>1. ASSUME NEW d \in Campaigns, NEW x \in Ops, Completed(d, x)
        PROVE  Completed(d, x)' /\ resp'[d][x] = resp[d][x]
    <3>1. <<d, x>> # <<c, o>>
      BY <1>9, <2>1
    <3> QED
      BY <1>10, <2>1, <3>1 DEF Completed
  <2> QED
    BY <1>4, <2>1 DEF Grown
<1>13. \A d \in EvidenceV3 : InOrder(d)'
  <2> SUFFICES ASSUME NEW d \in EvidenceV3, NEW i \in DOMAIN Program(d), NEW k \in DOMAIN Program(d),
                      i < k, att'[d][Program(d)[k]] # <<>>
               PROVE  Completed(d, Program(d)[i])' /\ req'[d][Program(d)[i]] = req'[d][Program(d)[k]]
    BY DEF InOrder
  <2>1. d \in Campaigns /\ Program(d)[i] \in Ops /\ Program(d)[k] \in Ops
    BY StageIs DEF Campaigns
  <2>2. att[d][Program(d)[k]] # <<>>
    BY <1>8, <1>10, <2>1
  <2>3. Completed(d, Program(d)[i]) /\ req[d][Program(d)[i]] = req[d][Program(d)[k]]
    BY <2>2 DEF CourseInv, InOrder
  <2> QED
    BY <1>4, <1>12, <2>1, <2>3 DEF Grown
<1>14. ASSUME NEW new \in Thread \cup {Idle}, proc' = [proc EXCEPT ![p] = new], OnCourse(new)'
       PROVE  CourseInv'
  <2>1. CourseTypeOK' /\ \A d \in Campaigns : FilesAreBacked(d)'
    BY <1>4, <1>10, <1>12, FilesStay DEF CourseInv, CourseTypeOK
  <2> QED
    BY <1>4, <1>12, <1>13, <1>14, <2>1, CourseKept
<1>15. Placed(r)' /\ OnStage(r)'
  BY <1>3, <1>12, PlaceStays, StageStays
<1>16. CASE Raise(p)
  <2>1. CASE Raised(r) = Idle
    BY <1>1, <1>14, <1>16, <2>1 DEF Raise, OnCourse, Idle
  <2>2. CASE Raised(r) = [r EXCEPT !.pc = "incomplete"]
    <3> DEFINE new == [r EXCEPT !.pc = "incomplete"]
    <3>1. /\ new \in Thread /\ new.pc = "incomplete" /\ new.c = r.c /\ new.at = r.at
          /\ new.mem = r.mem /\ new.prompt = r.prompt
      BY DEF Thread, Resting
    <3>2. proc' = [proc EXCEPT ![p] = new]
      BY <1>1, <1>16, <2>2 DEF Raise
    <3> HIDE DEF new
    <3>3. OnCourse(new)'
      BY <1>15, <3>1 DEF OnCourse, Placed, Passed, OnTask, Holding, Opened
    <3> QED
      BY <1>14, <3>1, <3>2, <3>3
  <2> QED
    BY <2>1, <2>2 DEF Raised
<1>17. CASE Goto(p, "decide")
  <2> DEFINE new == [r EXCEPT !.pc = "decide"]
  <2>1. /\ new \in Thread /\ new.pc = "decide" /\ new.c = r.c /\ new.at = r.at /\ new.op = r.op
        /\ new.mem = r.mem /\ new.prompt = r.prompt
    BY DEF Thread, Holding
  <2>2. proc' = [proc EXCEPT ![p] = new]
    BY <1>1, <1>17 DEF Goto, SpendInv, SpendTypeOK
  <2> HIDE DEF new
  <2>3. OnCourse(new)'
    BY <1>15, <2>1 DEF OnCourse, Placed, Passed, OnTask, OnStage, Opened
  <2> QED
    BY <1>14, <2>1, <2>2, <2>3
<1>18. CASE ok /\ Return(p, c)
  <2> DEFINE new == [r EXCEPT !.pc = "store"]
  <2>1. /\ new \in Thread /\ new.pc = "store" /\ new.c = r.c /\ new.at = r.at /\ new.op = r.op
        /\ new.mem = r.mem /\ new.prompt = r.prompt
    BY DEF Thread, Resting
  <2>2. proc' = [proc EXCEPT ![p] = new]
    BY <1>1, <1>18 DEF Return, Goto, SpendInv, SpendTypeOK
  <2> HIDE DEF new
  <2>3. OnTask(new)'
    <3>1. OnStage(new)'
      BY <1>15, <2>1 DEF OnStage
    <3>2. req'[new.c][new.op] = new.prompt /\ Completed(new.c, new.op)'
      BY <1>2, <1>3, <1>4, <1>11, <1>18, <2>1
    <3> QED
      BY <2>1, <3>1, <3>2 DEF OnTask
  <2>4. OnCourse(new)'
    BY <1>15, <2>1, <2>3 DEF OnCourse, Placed, Passed
  <2> QED
    BY <1>14, <2>1, <2>2, <2>4
<1> QED
  BY <1>1, <1>2, <1>5, <1>16, <1>17, <1>18 DEF Record

-----------------------------------------------------------------------------
(* The steps that write the files of a campaign. *)

\* A process that has a response is at the stage that it answers: with it,
\* or with the draft that it corrects, the stage is completed.
LEMMA Answered ==
    ASSUME SpendInv, CourseInv, NEW p \in Procs, NEW r \in Thread, r = proc[p], r.pc = "store"
    PROVE  /\ Placed(r) /\ r.c \in Campaigns /\ r.op \in Ops /\ r.at \in DOMAIN Program(r.c)
           /\ Program(r.c)[r.at] \in Asked
           /\ Completed(r.c, r.op) /\ Completed(r.c, Program(r.c)[r.at])
           /\ req[r.c][r.op] = r.prompt
           /\ \/ r.op = Program(r.c)[r.at] /\ r.op[1] # "correction"
              \/ /\ r.c \in Bilingual /\ r.op[1] = "correction"
                 /\ Program(r.c)[r.at] = <<"generation", r.op[2]>>
<1>1. Placed(r) /\ OnStage(r) /\ Completed(r.c, r.op) /\ req[r.c][r.op] = r.prompt
  BY DEF CourseInv, OnCourse, OnTask
<1>2. r.c \in Campaigns /\ r.op \in Ops
  BY DEF Thread
<1>3. PICK o \in Asked : o = Program(r.c)[r.at] /\ r.at \in DOMAIN Program(r.c)
  BY <1>1, <1>2, StageIs DEF OnStage
<1>4. o[1] # "correction" /\ (o[1] = "generation" => o = <<"generation", o[2]>>)
  BY <1>3 DEF Asked, Calibration
<1>5. CASE r.op = o
  BY <1>1, <1>2, <1>3, <1>4, <1>5
<1>6. CASE /\ r.c \in Bilingual /\ o[1] = "generation" /\ r.op = Correction(o)
           /\ Completed(r.c, o)
  <2>1. r.op[1] = "correction" /\ r.op[2] = o[2]
    BY <1>6 DEF Correction
  <2> QED
    BY <1>1, <1>2, <1>3, <1>4, <1>6, <2>1
<1> QED
  BY <1>1, <1>3, <1>5, <1>6 DEF OnStage

\* A row of the checkpoint, of an operation that is completed.
Stores(p, r, c, q) ==
    /\ r = proc[p] /\ r.pc = "store" /\ c = r.c /\ Completed(c, q) /\ q # Calibration
    /\ c \in EvidenceV3 => req[c][Program(c)[r.at]] = r.prompt /\ cal[c] = "passed"
    /\ rec' = [rec EXCEPT ![c][q] = Append(@, r.prompt)]
    /\ NextStage(p, "next") /\ UNCHANGED <<att, req, resp, cal, status>>

LEMMA StoreKeeps ==
    ASSUME SpendInv, CourseInv, NEW p \in Procs, NEW r \in Thread,
           NEW c \in Campaigns, NEW q \in Ops, Stores(p, r, c, q)
    PROVE  CourseInv'
<1>1. /\ Placed(r) /\ r.at \in DOMAIN Program(c) /\ Completed(c, Program(c)[r.at])
      /\ r = proc[p] /\ r.pc = "store" /\ c = r.c
  BY Answered DEF Stores
<1>2. UNCHANGED <<att, req, resp, cal, status>>
  BY DEF Stores
<1>3. PICK s \in Seq(Nat) : s = Append(rec[c][q], r.prompt) /\ s # <<>>
  <2>1. PICK t \in Seq(Nat) : t = rec[c][q]
    BY DEF CourseInv, CourseTypeOK
  <2>2. PICK v \in Nat : v = r.prompt
    BY DEF Thread
  <2>3. Append(t, v) \in Seq(Nat) /\ Append(t, v) # <<>>
    BY AppendProperties
  <2> QED
    BY <2>1, <2>2, <2>3
<1>4. rec' = [rec EXCEPT ![c][q] = s]
  BY <1>3 DEF Stores
<1>5. /\ rec' \in [Campaigns -> [Ops -> Seq(Nat)]] /\ rec'[c][q] = s
      /\ \A d \in Campaigns, x \in Ops : <<d, x>> # <<c, q>> => rec'[d][x] = rec[d][x]
      /\ \A d \in Campaigns : d # c => rec'[d] = rec[d]
  BY <1>4 DEF CourseInv, CourseTypeOK
<1>6. Grown
  BY <1>2, <1>3, <1>5 DEF Grown, Completed
<1>7. CourseTypeOK'
  BY <1>2, <1>5 DEF CourseInv, CourseTypeOK
<1>8. FilesAreBacked(c)'
  <2>1. ASSUME NEW x \in Ops, rec'[c][x] # <<>> PROVE Completed(c, x)' /\ x # Calibration
    <3>1. CASE x = q
      BY <1>2, <3>1 DEF Stores, Completed
    <3>2. CASE x # q
      <4>1. rec[c][x] # <<>>
        BY <1>5, <2>1, <3>2
      <4> QED
        BY <1>2, <4>1 DEF CourseInv, FilesAreBacked, Completed
    <3> QED
      BY <3>1, <3>2
  <2>2. FilesAreBacked(c)
    BY DEF CourseInv
  <2> QED
    BY <1>2, <2>1, <2>2 DEF FilesAreBacked, Completed, Calibrated
<1>9. \A d \in Campaigns : FilesAreBacked(d)'
  <2> TAKE d \in Campaigns
  <2>1. d # c => FilesAreBacked(d)'
    BY <1>2, <1>5, <1>6, FilesStay
  <2> QED
    BY <1>8, <2>1
<1>10. \A d \in EvidenceV3 : InOrder(d)'
  BY <1>2, <1>6, OrderStays
<1> DEFINE new == [r EXCEPT !.at = @ + 1, !.pc = "next"]
<1>11. new \in Thread /\ new.pc = "next" /\ new.at = r.at + 1 /\ new.c = r.c
       /\ new.mem = r.mem /\ new.prompt = r.prompt
  <2>1. PICK pc \in Resting : pc = "next"
    BY DEF Resting
  <2> QED
    BY <2>1, StageBehind
<1>12. proc' = [proc EXCEPT ![p] = new]
  BY <1>1 DEF Stores, NextStage, SpendInv, SpendTypeOK
<1> HIDE DEF new
<1>13. OnCourse(new)'
  <2>1. Completed(r.c, Program(r.c)[r.at])'
    BY <1>1, <1>2 DEF Completed
  <2>2. r.c \in EvidenceV3 => req'[r.c][Program(r.c)[r.at]] = r.prompt /\ cal'[r.c] = "passed"
    BY <1>2 DEF Stores
  <2> QED
    BY <1>1, <1>6, <1>11, <2>1, <2>2, StageDone
<1>14. status' = status /\ req' = req
  BY <1>2
<1> QED
  BY <1>6, <1>7, <1>9, <1>10, <1>11, <1>12, <1>13, <1>14, CourseKept

LEMMA CheckpointsKeep ==
    ASSUME SpendInv, CourseInv, NEW p \in Procs, StoreBilingual(p) \/ StoreEvidence(p)
    PROVE  CourseInv'
<1>1. PICK r \in Thread : r = proc[p] /\ r.pc = "store"
  BY ThreadTyped DEF StoreBilingual, StoreEvidence
<1>2. PICK c \in Campaigns, o \in Ops : c = r.c /\ o = r.op
  BY <1>1 DEF Thread
<1>3. /\ Placed(r) /\ r.at \in DOMAIN Program(c) /\ Program(c)[r.at] \in Asked
      /\ Completed(c, o) /\ Completed(c, Program(c)[r.at]) /\ req[c][o] = r.prompt
      /\ \/ o = Program(c)[r.at] /\ o[1] # "correction"
         \/ /\ c \in Bilingual /\ o[1] = "correction" /\ Program(c)[r.at] = <<"generation", o[2]>>
  BY <1>1, <1>2, Answered
<1>4. UNCHANGED <<att, req, resp, cal, status>>
  BY DEF StoreBilingual, StoreEvidence, ledger, files
<1>5. CASE /\ o # Calibration /\ c \in Bilingual /\ o[1] = "generation"
           /\ proc' = [proc EXCEPT ![p].op = Correction(o), ![p].pc = "correct"]
           /\ UNCHANGED rec
  <2>1. Correction(o) \in Ops
    BY <1>5 DEF Ops, Correction, Calibration
  <2> DEFINE new == [r EXCEPT !.op = Correction(o), !.pc = "correct"]
  <2>2. /\ new \in Thread /\ new.pc = "correct" /\ new.op = Correction(o) /\ new.c = r.c
        /\ new.at = r.at /\ new.mem = r.mem /\ new.prompt = r.prompt
    BY <2>1 DEF Thread, Resting
  <2>3. proc' = [proc EXCEPT ![p] = new]
    BY <1>1, <1>5 DEF SpendInv, SpendTypeOK
  <2> HIDE DEF new
  <2>4. OnTask(new)
    BY <1>2, <1>3, <1>5, <2>2 DEF OnTask, OnStage, Opened
  <2>5. Quiet
    BY <1>4, <1>5 DEF Quiet
  <2> QED
    BY <1>1, <2>2, <2>3, <2>4, <2>5, Goes
<1>6. CASE /\ o # Calibration /\ c \in Bilingual /\ NextStage(p, "next")
           /\ rec' = [rec EXCEPT ![c][IF o[1] = "correction" THEN <<"generation", o[2]>> ELSE o]
                        = Append(@, r.prompt)]
  <2>1. PICK q \in Ops : q = IF o[1] = "correction" THEN <<"generation", o[2]>> ELSE o
    <3>1. Asked \subseteq Ops
      BY DEF Asked, Ops
    <3>2. o[1] = "correction" => <<"generation", o[2]>> \in Ops
      BY <1>3, <3>1
    <3> QED
      BY <3>2
  <2>2. Completed(c, q) /\ q # Calibration
    BY <1>3, <1>6, <2>1 DEF Calibration
  <2>3. c \notin EvidenceV3
    BY <1>6, CampaignAssumption
  <2>4. Stores(p, r, c, q)
    BY <1>1, <1>2, <1>4, <1>6, <2>1, <2>2, <2>3 DEF Stores
  <2> QED
    BY <2>4, StoreKeeps
<1>7. CASE /\ o # Calibration /\ c \in EvidenceV3 /\ NextStage(p, "next")
           /\ rec' = [rec EXCEPT ![c][o] = Append(@, r.prompt)]
  <2>1. o = Program(c)[r.at]
    BY <1>3, <1>7, CampaignAssumption
  <2>2. cal[c] = "passed"
    BY <1>2, <1>3, <1>7, <2>1, BehindCalibration
  <2>3. Stores(p, r, c, o)
    BY <1>1, <1>2, <1>3, <1>4, <1>7, <2>1, <2>2 DEF Stores
  <2> QED
    BY <2>3, StoreKeeps
<1> QED
  BY <1>1, <1>2, <1>5, <1>6, <1>7 DEF StoreBilingual, StoreEvidence

LEMMA LegacyKeeps ==
    ASSUME SpendInv, CourseInv, NEW p \in Procs, StoreLegacy(p)
    PROVE  CourseInv'
<1>1. PICK r \in Thread : r = proc[p] /\ r.pc = "store" /\ r.op[1] = "legacy"
  BY ThreadTyped DEF StoreLegacy
<1>2. /\ Placed(r) /\ r.at \in DOMAIN Program(r.c) /\ Completed(r.c, r.op)
      /\ req[r.c][r.op] = r.prompt /\ r.op = Program(r.c)[r.at]
  BY <1>1, Answered
<1>3. Quiet /\ Grown
  BY DEF StoreLegacy, Quiet, ledger, files, Grown, Completed
<1>4. r.c \in EvidenceV3 => cal[r.c] = "passed"
  BY <1>1, <1>2, BehindCalibration DEF Calibration
<1> DEFINE new == [r EXCEPT !.at = @ + 1, !.pc = "next"]
<1>5. new \in Thread /\ new.pc = "next" /\ new.at = r.at + 1 /\ new.c = r.c
      /\ new.mem = r.mem /\ new.prompt = r.prompt
  <2>1. PICK pc \in Resting : pc = "next"
    BY DEF Resting
  <2> QED
    BY <2>1, StageBehind
<1>6. proc' = [proc EXCEPT ![p] = new]
  BY <1>1 DEF StoreLegacy, NextStage, SpendInv, SpendTypeOK
<1> HIDE DEF new
<1>7. OnCourse(new)'
  <2>1. Completed(r.c, Program(r.c)[r.at])'
    BY <1>2, <1>3 DEF Quiet, Completed
  <2>2. r.c \in EvidenceV3 => req'[r.c][Program(r.c)[r.at]] = r.prompt /\ cal'[r.c] = "passed"
    BY <1>2, <1>3, <1>4 DEF Quiet
  <2> QED
    BY <1>2, <1>3, <1>5, <2>1, <2>2, StageDone
<1> QED
  BY <1>3, <1>5, <1>6, <1>7, QuietKeeps

\* The calibration file says what the completed calibration says, every time.
LEMMA CalibrationKeeps ==
    ASSUME SpendInv, CourseInv, NEW p \in Procs, StoreCalibration(p)
    PROVE  CourseInv'
<1>1. PICK r \in Thread : r = proc[p] /\ r.pc = "store" /\ r.op = Calibration
  BY ThreadTyped DEF StoreCalibration
<1>2. PICK c \in Campaigns : c = r.c
  BY DEF Thread
<1>3. /\ Placed(r) /\ r.at \in DOMAIN Program(c) /\ Completed(c, Calibration)
      /\ Completed(c, Program(c)[r.at]) /\ req[c][Calibration] = r.prompt
      /\ Calibration = Program(c)[r.at] /\ Calibration \in Ops
  BY <1>1, <1>2, Answered DEF Calibration
<1>4. UNCHANGED <<att, req, resp, rec, status>>
  BY DEF StoreCalibration, ledger
<1>5. PICK v \in {"passed", "failed"} : v = IF Calibrated(c) THEN "passed" ELSE "failed"
  OBVIOUS
<1>6. /\ cal' \in [Campaigns -> {"none", "passed", "failed"}] /\ cal'[c] = v
      /\ \A d \in Campaigns : d # c => cal'[d] = cal[d]
  BY <1>1, <1>2, <1>5 DEF StoreCalibration, CourseInv, CourseTypeOK
<1>7. Grown
  <2>1. cal[c] = "passed" => cal'[c] = "passed"
    BY <1>5, <1>6 DEF CourseInv, FilesAreBacked
  <2> QED
    BY <1>4, <1>6, <2>1 DEF Grown, Completed
<1>8. CourseTypeOK'
  BY <1>4, <1>6 DEF CourseInv, CourseTypeOK
<1>9. FilesAreBacked(c)'
  <2>1. FilesAreBacked(c)
    BY DEF CourseInv
  <2> QED
    BY <1>3, <1>4, <1>5, <1>6, <2>1 DEF FilesAreBacked, Completed, Calibrated
<1>10. \A d \in Campaigns : FilesAreBacked(d)'
  <2> TAKE d \in Campaigns
  <2>1. d # c => FilesAreBacked(d)'
    BY <1>4, <1>6, <1>7, FilesStay
  <2> QED
    BY <1>9, <2>1
<1>11. \A d \in EvidenceV3 : InOrder(d)'
  BY <1>4, <1>7, OrderStays
<1>12. status' = status /\ req' = req
  BY <1>4
<1>13. ASSUME NEW new \in Thread, proc' = [proc EXCEPT ![p] = new], OnCourse(new)'
       PROVE  CourseInv'
  BY <1>7, <1>8, <1>10, <1>11, <1>12, <1>13, CourseKept
<1>14. CASE Calibrated(c) /\ NextStage(p, "load")
  <2> DEFINE new == [r EXCEPT !.at = @ + 1, !.pc = "load"]
  <2>1. new \in Thread /\ new.pc = "load" /\ new.at = r.at + 1 /\ new.c = r.c
        /\ new.mem = r.mem /\ new.prompt = r.prompt
    <3>1. PICK pc \in Resting : pc = "load"
      BY DEF Resting
    <3> QED
      BY <3>1, StageBehind
  <2>2. proc' = [proc EXCEPT ![p] = new]
    BY <1>1, <1>14 DEF NextStage, SpendInv, SpendTypeOK
  <2> HIDE DEF new
  <2>3. Completed(r.c, Program(r.c)[r.at])'
    BY <1>2, <1>3, <1>4 DEF Completed
  <2>4. r.c \in EvidenceV3 => req'[r.c][Program(r.c)[r.at]] = r.prompt /\ cal'[r.c] = "passed"
    BY <1>2, <1>3, <1>4, <1>5, <1>6, <1>14
  <2>5. OnCourse(new)'
    BY <1>2, <1>3, <1>7, <2>1, <2>3, <2>4, StageDone
  <2> QED
    BY <1>13, <2>1, <2>2, <2>5
<1>15. ASSUME NEW pc \in {"incomplete", "failed"}, Goto(p, pc) PROVE CourseInv'
  <2> DEFINE new == [r EXCEPT !.pc = pc]
  <2>1. /\ new \in Thread /\ new.pc = pc /\ new.c = r.c /\ new.at = r.at /\ new.mem = r.mem
        /\ new.prompt = r.prompt
    BY DEF Thread, Resting
  <2>2. proc' = [proc EXCEPT ![p] = new]
    BY <1>1, <1>15 DEF Goto, SpendInv, SpendTypeOK
  <2> HIDE DEF new
  <2>3. Placed(r)'
    BY <1>3, <1>7, PlaceStays
  <2>4. OnCourse(new)'
    BY <1>15, <2>1, <2>3 DEF OnCourse, Placed, Passed, OnTask, Holding, Opened
  <2> QED
    BY <1>13, <2>1, <2>2, <2>4
<1> QED
  BY <1>1, <1>2, <1>14, <1>15 DEF StoreCalibration

\* The end of a script writes a decision and nothing else.
LEMMA EndKeeps ==
    ASSUME SpendInv, CourseInv, NEW p \in Procs, NEW c \in Campaigns, NEW v,
           proc' = [proc EXCEPT ![p] = Idle], status' = [status EXCEPT ![c] = v],
           v \in {"GO", "NO-GO", "INCOMPLETE"}, v = "GO" => Earned(c),
           UNCHANGED <<att, req, resp, cal, rec>>
    PROVE  CourseInv'
<1>1. Grown
  BY DEF Grown, Completed
<1>2. CourseTypeOK'
  BY DEF CourseInv, CourseTypeOK
<1>3. \A d \in Campaigns : FilesAreBacked(d)'
  BY <1>1, FilesStay
<1>4. \A d \in EvidenceV3 : InOrder(d)'
  BY <1>1, OrderStays
<1>5. \A d \in Campaigns : status'[d] = "GO" => status[d] = "GO" \/ Earned(d)'
  <2> TAKE d \in Campaigns
  <2>1. CASE d = c
    BY <1>1, <2>1, EarnedStays DEF CourseInv, CourseTypeOK
  <2>2. CASE d # c
    BY <2>2 DEF CourseInv, CourseTypeOK
  <2> QED
    BY <2>1, <2>2
<1>6. OnCourse(Idle)'
  BY DEF OnCourse, Idle
<1> QED
  BY <1>1, <1>2, <1>3, <1>4, <1>5, <1>6, CourseKept

\* main, after the last stage: all of it is behind the process.
LEMMA FinishKeeps ==
    ASSUME SpendInv, CourseInv, NEW p \in Procs, Finish(p)
    PROVE  CourseInv'
<1>1. PICK r \in Thread : r = proc[p] /\ r.pc = "next" /\ Placed(r)
  BY ThreadTyped DEF Finish, CourseInv, OnCourse
<1>2. PICK c \in Campaigns : c = r.c
  BY DEF Thread
<1>3. PICK n \in Nat : n = Len(Program(c)) /\ DOMAIN Program(c) = 1..n /\ n >= 1
  <2>1. PICK u \in Seq(Ops) : u = Program(c) /\ u # <<>>
    BY ProgramIs
  <2>2. PICK n \in Nat : n = Len(u) /\ DOMAIN u = 1..n
    OBVIOUS
  <2>3. n >= 1
    BY <2>1, <2>2
  <2> QED
    BY <2>1, <2>2, <2>3
<1>4. r.at > n /\ r.at \in Nat
  BY <1>1, <1>2, <1>3 DEF Finish, Finished, Thread
<1>5. \A i \in DOMAIN Program(c) : /\ Completed(c, Program(c)[i])
                                   /\ c \in EvidenceV3 => req[c][Program(c)[i]] = r.prompt
                                                          /\ cal[c] = "passed"
  BY <1>1, <1>2, <1>3, <1>4 DEF Placed, Passed
<1>6. c \in EvidenceV3 => cal[c] = "passed"
  BY <1>3, <1>5
<1>7. c \in EvidenceV3 => Cardinality({req[c][Program(c)[i]] : i \in DOMAIN Program(c)}) = 1
  <2> SUFFICES ASSUME c \in EvidenceV3
               PROVE  Cardinality({req[c][Program(c)[i]] : i \in DOMAIN Program(c)}) = 1
    OBVIOUS
  <2>1. {req[c][Program(c)[i]] : i \in DOMAIN Program(c)} = {r.prompt}
    BY <1>3, <1>5
  <2> QED
    BY <2>1, FS_Singleton
<1>8. PICK v \in {"GO", "NO-GO"} : /\ status' = [status EXCEPT ![c] = v]
                                   /\ v = "GO" /\ c \in Bilingual => cal[c] = "passed"
  BY <1>1, <1>2 DEF Finish, BilingualGo
<1>9. v = "GO" => Earned(c)
  BY <1>5, <1>6, <1>7, <1>8 DEF Earned, Campaigns
<1>10. proc' = [proc EXCEPT ![p] = Idle] /\ UNCHANGED <<att, req, resp, cal, rec>>
  BY DEF Finish, ledger
<1> QED
  BY <1>8, <1>9, <1>10, EndKeeps

LEMMA FailureKeeps ==
    ASSUME SpendInv, CourseInv, NEW p \in Procs, WriteFailure(p)
    PROVE  CourseInv'
<1>1. proc[p].c \in Campaigns
  BY ThreadTyped DEF WriteFailure, Thread
<1>2. PICK v \in {"NO-GO", "INCOMPLETE"} : status' = [status EXCEPT ![proc[p].c] = v]
  BY DEF WriteFailure
<1>3. proc' = [proc EXCEPT ![p] = Idle] /\ UNCHANGED <<att, req, resp, cal, rec>>
  BY DEF WriteFailure, ledger
<1> QED
  BY <1>1, <1>2, <1>3, EndKeeps

LEMMA CourseInit == Init => CourseInv
<1> SUFFICES ASSUME Init PROVE CourseInv
  OBVIOUS
<1>1. <<>> \in Seq(Nat) /\ Len(<<>>) = 0
  OBVIOUS
<1>2. \A c \in Campaigns, o \in Ops : att[c][o] = <<>> /\ rec[c][o] = <<>>
  BY DEF Init
<1>3. CourseTypeOK
  BY <1>1 DEF Init, CourseTypeOK
<1>4. \A c \in Campaigns : FilesAreBacked(c)
  BY <1>2 DEF Init, FilesAreBacked
<1>5. \A c \in EvidenceV3 : InOrder(c)
  <2> SUFFICES ASSUME NEW c \in EvidenceV3, NEW k \in DOMAIN Program(c)
               PROVE  att[c][Program(c)[k]] = <<>>
    BY DEF InOrder
  <2> QED
    BY <1>2, StageIs DEF Campaigns
<1>6. (\A p \in Procs : OnCourse(proc[p])) /\ GoIsEarned
  BY DEF Init, OnCourse, Idle, GoIsEarned
<1> QED
  BY <1>3, <1>4, <1>5, <1>6 DEF CourseInv

LEMMA CourseStep == SpendInv /\ CourseInv /\ [Next]_vars => CourseInv'
<1> SUFFICES ASSUME SpendInv, CourseInv, [Next]_vars PROVE CourseInv'
  OBVIOUS
<1>1. ASSUME NEW p \in Procs, Step(p) PROVE CourseInv'
  BY <1>1, CheckpointKeeps, SkipKeeps, RequestKeeps, DecideKeeps, RoundKeeps, RecordKeeps,
     CheckpointsKeep, LegacyKeeps, CalibrationKeeps, FinishKeeps, FailureKeeps DEF Step
<1> QED
  BY <1>1, FaultsKeep, StartKeeps, OperatorKeeps DEF Next

\* What a script has passed, or finds in a file, was answered by the provider
\* and recorded in the ledger, whichever process of whichever start did it;
\* an evidence campaign moves through its stages with one prompt version.
THEOREM CourseInvariant == Spec => [](SpendInv /\ CourseInv)
<1>1. Init => SpendInv /\ CourseInv
  BY SpendInit, CourseInit
<1>2. SpendInv /\ CourseInv /\ [Next]_vars => (SpendInv /\ CourseInv)'
  BY SpendStep, CourseStep
<1> QED
  BY <1>1, <1>2, PTL DEF Spec

\* The files of a campaign tell the truth: the requests that reached the
\* provider are within the budgets of the campaign and of its round, and a
\* decision of GO rests on a passed calibration and on completed requests for
\* every case, of one prompt version for an evidence campaign.
THEOREM LedgerSafety == Spec => []LedgerIsTrue
<1>1. SpendInv /\ CourseInv => LedgerIsTrue
  BY SpendBounded DEF CourseInv, LedgerIsTrue
<1> QED
  BY <1>1, CourseInvariant, PTL
=============================================================================
