----------------------------- MODULE MCCorrelation -----------------------------
(* Small instances of CorrelationEngine for TLC. *)
EXTENDS CorrelationEngine, TLC

CONSTANTS c1, c2, p1, p2

\* A poll that lists a plugin once, with these CVEs and this score.
Once(plugin, cves, score) ==
    [key \in cves \X {plugin} |-> [first |-> score, last |-> score]]

(* p1 covers both CVEs and is scored, p2 covers one and has no score.      *)
TwoPluginBatches ==
    {<<>>,
     Once(p1, {c1, c2}, 98),
     Once(p2, {c1}, NoScore),
     Once(p1, {c1}, 98) @@ Once(p2, {c1}, NoScore)}

(* p1 is released below the threshold and revised above it later.          *)
RevisedPluginBatches ==
    {<<>>, Once(p1, {c1, c2}, 40), Once(p1, {c1}, 98)}
===============================================================================
