------------------------------ MODULE MCWatchLock ------------------------------
(* Small instances of WatchLock for TLC. *)
EXTENDS WatchLock, TLC

CONSTANTS p1, p2, p3, pid1, pid2

(* Two slots whose processes have the same pid, one after the other (a     *)
(* container restarted, a reused number), and one with its own.            *)
ReusedPid == (p1 :> pid1) @@ (p2 :> pid2) @@ (p3 :> pid1)
===============================================================================
