----------------------------- MODULE ExploitLedger -----------------------------
(***************************************************************************)
(* What the correlation promises, with no mention of how: two kinds of     *)
(* facts arrive in any order -- a plugin covers a CVE, a CVE is known to   *)
(* be exploited -- and a (cve, plugin) pair is announced only once both    *)
(* facts are there, and nothing is ever taken back.                        *)
(*                                                                         *)
(* This is the rule at the top of correlation.py: "actionable the moment   *)
(* BOTH of these are true, regardless of which happened first".            *)
(***************************************************************************)
CONSTANTS Cve, Plugin

VARIABLES
    covered,      \* the <<cve, plugin>> pairs some plugin is known to cover
    exploited,    \* the CVEs known to be exploited
    announced     \* the pairs that have been announced

vars == <<covered, exploited, announced>>

Pair == Cve \X Plugin

Actionable == {pair \in covered : pair[1] \in exploited}

Init ==
    /\ covered = {}
    /\ exploited = {}
    /\ announced = {}

Learn ==
    /\ covered \subseteq covered' /\ covered' \subseteq Pair
    /\ exploited \subseteq exploited' /\ exploited' \subseteq Cve
    /\ UNCHANGED announced

Announce ==
    /\ announced \subseteq announced' /\ announced' \subseteq Actionable
    /\ UNCHANGED <<covered, exploited>>

Next == Learn \/ Announce

Spec == Init /\ [][Next]_vars
===============================================================================
