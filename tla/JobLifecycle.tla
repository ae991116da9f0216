---------------------------- MODULE JobLifecycle ----------------------------
(***************************************************************************)
(* What the durable job repository promises its readers: a job is created  *)
(* once, moves along the documented life cycle, and a terminal outcome is  *)
(* final.  Revisions, steps, events and callers are invisible here.        *)
(***************************************************************************)
CONSTANT Jobs
VARIABLE status

Active == {"running", "cancelling"}
Final == {"cancelled", "succeeded", "failed", "interrupted"}

Init == status = [j \in Jobs |-> "absent"]

Move(j, from, to) == status[j] = from /\ status' = [status EXCEPT ![j] = to]

Create(j)  == Move(j, "absent", "queued")
Start(j)   == Move(j, "queued", "running")
Cancel(j)  == Move(j, "queued", "cancelled") \/ Move(j, "running", "cancelling")
Finish(j)  == \/ \E to \in {"succeeded", "failed", "interrupted"} : Move(j, "running", to)
              \/ \E to \in {"cancelled", "interrupted"} : Move(j, "cancelling", to)

\* Startup recovery ends a batch of active jobs at once.
Recover(S) ==
    /\ S # {}
    /\ \A j \in S : status[j] \in Active
    /\ status' = [j \in Jobs |-> IF j \in S THEN "interrupted" ELSE status[j]]

Next == \/ \E j \in Jobs : Create(j) \/ Start(j) \/ Cancel(j) \/ Finish(j)
        \/ \E S \in SUBSET Jobs : Recover(S)

Spec == Init /\ [][Next]_status
=============================================================================
