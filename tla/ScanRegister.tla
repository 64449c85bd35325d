------------------------------ MODULE ScanRegister ------------------------------
(***************************************************************************)
(* What the launches promise of the backends' scans, with no mention of    *)
(* calls, gates or failures: a scan is started for a plan, the plan is     *)
(* consumed because a scan of it runs, and then the scan is recorded; or   *)
(* the scan is orphaned before it is.  Nothing is recorded twice, nothing  *)
(* both recorded and orphaned, and nothing is taken back.                  *)
(***************************************************************************)
CONSTANTS ScanId, Plan

VARIABLES
    running,      \* <<scan, plan>>: the scans the backends were told to run
    consumed,     \* the plans that no later call can launch
    recorded,     \* the scans the audit log knows
    orphaned      \* the scans whose call died before it recorded them

vars == <<running, consumed, recorded, orphaned>>

\* The scans that have still to be recorded.
Open == {run \in running : run[1] \notin recorded \cup orphaned}

Init ==
    /\ running = {}
    /\ consumed = {}
    /\ recorded = {}
    /\ orphaned = {}

Start ==
    /\ \E run \in running' \ running :
           /\ run \in ScanId \X Plan
           /\ \A other \in running : other[1] # run[1]
           /\ running' = running \cup {run}
    /\ UNCHANGED <<consumed, recorded, orphaned>>

Consume ==
    /\ \E plan \in consumed' \ consumed :
           /\ \E run \in Open : run[2] = plan
           /\ consumed' = consumed \cup {plan}
    /\ UNCHANGED <<running, recorded, orphaned>>

Record ==
    /\ \E scan \in recorded' \ recorded :
           /\ \E run \in Open : run[1] = scan /\ run[2] \in consumed
           /\ recorded' = recorded \cup {scan}
    /\ UNCHANGED <<running, consumed, orphaned>>

Orphan ==
    /\ \E scan \in orphaned' \ orphaned :
           /\ \E run \in Open : run[1] = scan
           /\ orphaned' = orphaned \cup {scan}
    /\ UNCHANGED <<running, consumed, recorded>>

Next == Start \/ Consume \/ Record \/ Orphan

Spec == Init /\ [][Next]_vars
===============================================================================
