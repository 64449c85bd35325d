------------------------------- MODULE MCPipeline -------------------------------
(* Small instances of Pipeline for TLC. *)
EXTENDS Pipeline, TLC

CONSTANTS c1, p1, p2

Scored(cves, score) == [cves |-> cves, score |-> score]

(* p2 covers no CVE, as most plugins do, but takes its place on the pages. *)
Beside(revisions) ==
    (p1 :> revisions) @@ (p2 :> {<<Unpublished, Scored({}, 98)>>})

(* p1 covers c1 and is published below the threshold; an update raises its *)
(* score, or takes c1 off it.                                              *)
Revised ==
    Beside({<<Unpublished, Scored({c1}, 40)>>,
            <<Scored({c1}, 40), Scored({c1}, 98)>>,
            <<Scored({c1}, 40), Scored({}, 40)>>})

(* p1 covers c1 with one score.                                            *)
Fixed ==
    Beside({<<Unpublished, Scored({c1}, 98)>>, <<Scored({c1}, 98), Scored({c1}, 98)>>})

AllBatches == UNION {[keys -> Listing] : keys \in SUBSET Key}
===============================================================================
