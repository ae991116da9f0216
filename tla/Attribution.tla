----------------------------- MODULE Attribution -----------------------------
(***************************************************************************)
(* The bounded timing trace of one request or worker cycle                 *)
(* (src/workspace/attribution.py): spans end in any order, from several    *)
(* threads, some inside a section of the database where they wait for its  *)
(* end; the trace keeps a bounded number of spans and of groups, makes     *)
(* room for its root, counts what it drops, and is summarised when closed. *)
(***************************************************************************)
EXTENDS Integers, FiniteSets, Sequences, SequencesExt, FiniteSetsExt

CONSTANTS
  Limit,      \* MAX_API_SPANS, MAX_RUN_SPANS: the spans that a trace or a section keeps
  MaxGroups,  \* the phases of a trace
  MaxSpans,   \* bound on the spans that end
  MaxInstant  \* bound on the clock

ASSUME AttributionAssumption ==
  /\ Limit \in Nat \ {0} /\ MaxGroups \in Nat \ {0}
  /\ MaxSpans \in Nat /\ MaxInstant \in Nat

VARIABLES
  source,    \* "api" or "worker"
  records, groups, dropped,  \* the trace
  pending,   \* the observations deferred inside the section; dropped: those beyond its limit
  trace,     \* "open", "rooted" once its root span has ended, "closed"
  instant,   \* the monotonic clock
  observed,  \* history: the spans that ended before the trace was closed
  late       \* history: those that reached the trace after it was closed, and were ignored
atVars == <<source, records, groups, dropped, pending, trace, instant, observed, late>>

Sources == {"api", "worker"}
RootOf == [api |-> "api.total", worker |-> "worker.cycle"]
Outside == [open |-> FALSE, entries |-> << >>, dropped |-> 0]

Span(phase, start, end) == [phase |-> phase, start |-> start, end |-> end]
Duration(x) == x.end - x.start

(* Trace.record, on a trace [records, groups, dropped].                    *)
\* Mutant: no group is kept for the root.
GroupLimitEven(isRoot) == MaxGroups
GroupLimit(isRoot) == IF isRoot THEN MaxGroups ELSE MaxGroups - 1
Recorded(t, x) ==
  LET isRoot == x.phase \in {RootOf[s] : s \in Sources}
      evicts == isRoot /\ Len(t.records) >= Limit
      kept == IF evicts THEN Front(t.records) ELSE t.records
      lost == t.dropped + IF evicts THEN 1 ELSE 0
  IN  IF Len(kept) >= Limit \/ (x.phase \notin t.groups /\ Cardinality(t.groups) >= GroupLimit(isRoot))
      THEN [t EXCEPT !.dropped = lost + 1]
      ELSE [records |-> Append(kept, x), groups |-> t.groups \cup {x.phase}, dropped |-> lost]
Current == [records |-> records, groups |-> groups, dropped |-> dropped]
Becomes(t) == records' = t.records /\ groups' = t.groups /\ dropped' = t.dropped

(* A span ends: recorded at once, or deferred inside the section.          *)
EndSpan ==
  /\ trace = "open" /\ observed < MaxSpans
  /\ IF ~pending.open
     THEN \E start \in 0..instant : Becomes(Recorded(Current, Span("agent.tool", start, instant))) /\ UNCHANGED pending
     ELSE LET x == Span("workspace.read", instant, instant)
          IN  /\ pending' = IF Len(pending.entries) < Limit THEN [pending EXCEPT !.entries = Append(@, x)]
                            ELSE [pending EXCEPT !.dropped = @ + 1]
              /\ UNCHANGED <<records, groups, dropped>>
  /\ observed' = observed + 1 /\ UNCHANGED <<source, trace, instant, late>>
EnterSection ==
  /\ trace = "open" /\ ~pending.open /\ observed < MaxSpans
  /\ pending' = [Outside EXCEPT !.open = TRUE]
  /\ UNCHANGED <<source, records, groups, dropped, trace, instant, observed, late>>
(* The section ends: its observations reach the trace once its lock is free. *)
Flushed(t, p) ==
  LET after[n \in 0..Len(p.entries)] ==
        IF n = 0 THEN [t EXCEPT !.dropped = @ + p.dropped] ELSE Recorded(after[n - 1], p.entries[n])
  IN  after[Len(p.entries)]
LeaveSection ==
  /\ pending.open /\ pending' = Outside
  /\ IF trace # "closed" THEN Becomes(Flushed(Current, pending)) /\ UNCHANGED late
     ELSE /\ dropped' = dropped + pending.dropped /\ late' = Len(pending.entries)
          /\ UNCHANGED <<records, groups>>
  /\ UNCHANGED <<source, trace, instant, observed>>
(* The root may end while a thread it started is still in its section.     *)
EndRoot ==
  /\ trace = "open"
  /\ \E end \in {instant, Max({0, instant - 1})} :  \* it ends when the body was sent
       Becomes(Recorded(Current, Span(RootOf[source], 0, end)))
  /\ observed' = observed + 1 /\ trace' = "rooted"
  /\ UNCHANGED <<source, pending, instant, late>>
Close ==
  /\ trace = "rooted" /\ trace' = "closed"
  /\ UNCHANGED <<source, records, groups, dropped, pending, instant, observed, late>>
Tick ==
  /\ trace = "open" /\ instant < MaxInstant /\ instant' = instant + 1
  /\ UNCHANGED <<source, records, groups, dropped, pending, trace, observed, late>>

AtInit ==
  /\ source \in Sources /\ records = << >> /\ groups = {} /\ dropped = 0 /\ pending = Outside
  /\ trace = "open" /\ instant = 0 /\ observed = 0 /\ late = 0
AtNext == EndSpan \/ EnterSection \/ LeaveSection \/ EndRoot \/ Close \/ Tick
AtSpec == AtInit /\ [][AtNext]_atVars

(***************************************************************************)
(* Trace.summary.                                                          *)
(***************************************************************************)
Grouped == {x.phase : x \in ToSet(records)}
OfPhase(phase) == SelectSeq(records, LAMBDA x : x.phase = phase)
PhaseSummary(phase) ==
  LET values == OfPhase(phase)
  IN  [phase |-> phase, count |-> Len(values), total |-> FoldLeft(LAMBDA sum, x : sum + Duration(x), 0, values),
       max |-> Max({Duration(x) : x \in ToSet(values)})]
Roots == SelectSeq(records, LAMBDA x : x.phase = "api.total")
Measured == source = "api" /\ dropped = 0 /\ Len(Roots) = 1
(* The children's intervals, clipped to the root and sorted by their start. *)
Clipped(root) ==
  LET inside == SelectSeq(records, LAMBDA x : x # root /\ x.end > root.start /\ x.start < root.end)
      clip(x) == [start |-> Max({x.start, root.start}), end |-> Min({x.end, root.end})]
  IN  SetToSortSeq({clip(x) : x \in ToSet(inside)}, LAMBDA x, y : x.start < y.start \/ (x.start = y.start /\ x.end < y.end))
Swept(c, x) == [covered |-> c.covered + Max({0, x.end - Max({c.endpoint, x.start})}), endpoint |-> Max({c.endpoint, x.end})]
Remainder ==
  LET root == Roots[1]
  IN  Duration(root) - FoldLeft(Swept, [covered |-> 0, endpoint |-> root.start], Clipped(root)).covered

(* Every span that ended is in the trace, counted as dropped, or held by   *)
(* a section that outlived the request; the root is always in it, and the  *)
(* trace stays within its bounds (attribution.py, record,                  *)
(* defer_database_observations).                                           *)
SpansAreKept ==
  trace = "closed" =>
    /\ Len(records) + dropped + late + Len(pending.entries) + pending.dropped = observed
    /\ Len(records) <= Limit /\ Cardinality(Grouped) <= MaxGroups
    /\ Cardinality({n \in DOMAIN records : records[n].phase = RootOf[source]}) = 1

(* And the summary of the phases has every one of them, so that it passes  *)
(* the validation of its own (attribution.py, summary).                    *)
EverySpanIsCounted ==
  /\ SpansAreKept
  /\ trace = "closed" =>
       FoldLeft(LAMBDA sum, x : sum + x, 0, [n \in 1..Cardinality(Grouped) |-> PhaseSummary(SetToSeq(Grouped)[n]).count])
         = Len(records)

(* The remainder of a request is the time of its root that no other span   *)
(* covers, however the spans overlap, nest or outlive the root             *)
(* (attribution.py, summary).                                              *)
RemainderIsUncovered ==
  Measured =>
    Remainder = Cardinality({n \in 0..MaxInstant - 1 :
                  /\ Roots[1].start <= n /\ n < Roots[1].end
                  /\ \A x \in ToSet(records) \ {Roots[1]} : ~(x.start <= n /\ n < x.end)})
=============================================================================
