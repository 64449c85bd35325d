------------------------------- MODULE MCLaunch -------------------------------
(* Small instances of LaunchPath for TLC. *)
EXTENDS LaunchPath, TLC

CONSTANT m1

(* The family of m1 is mapped to every tag there is.                       *)
AllTagsMapping == m1 :> Tag

(* The other events of the audit log are written and never read.           *)
WithoutDecisions == <<scan_plans, launched, world, call, orphans>>

PlanSymmetry == Permutations(Plan)
===============================================================================
