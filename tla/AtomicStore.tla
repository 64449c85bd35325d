------------------------------ MODULE AtomicStore ------------------------------
(***************************************************************************)
(* What the rest of the program takes a table of the store to be: each     *)
(* upsert looks at all of its rows and adds those that are missing in one  *)
(* step, and is handed exactly the rows that it added.  A call that raises *)
(* may leave rows behind that are handed to no one.                        *)
(***************************************************************************)
CONSTANT Row

VARIABLES
    table,     \* the rows every process sees
    handed,    \* the rows handed to a caller as new
    orphan     \* the rows of calls that raised, in the table or on their way

vars == <<table, handed, orphan>>

Init == table = {} /\ handed = {} /\ orphan = {}

\* A call returns; it brings orphans with it, and does not take them for new.
Upsert(rows, late) ==
    /\ table' = table \cup rows \cup late
    /\ handed' = handed \cup (rows \ (table \cup late))
    /\ UNCHANGED orphan

\* A call raises: some rows that are not in the table yet belong to no one.
Orphan ==
    /\ orphan \subseteq orphan' /\ orphan' \cap handed = {}
    /\ UNCHANGED <<table, handed>>

\* A process dies: orphans that were not in the table are gone, or a call's
\* last access took effect and its answer was lost.
Die ==
    /\ orphan \cap table \subseteq orphan'
    /\ table \subseteq table' /\ table' \ table \subseteq orphan'
    /\ orphan' \cap handed = {}
    /\ UNCHANGED handed

Next ==
    \/ \E rows \in SUBSET Row, late \in SUBSET (orphan \ table) : Upsert(rows, late)
    \/ Orphan
    \/ Die

Spec == Init /\ [][Next]_vars
===============================================================================
