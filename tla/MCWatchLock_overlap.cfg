\* Processes may start at the same time.
SPECIFICATION Spec
CONSTANTS
    p1 = p1
    p2 = p2
    p3 = p3
    pid1 = pid1
    pid2 = pid2
    Proc = {p1, p2, p3}
    Serve = {}
    Pid = {pid1, pid2}
    PidOf <- ReusedPid
    NoFile = NoFile
    NoPid = NoPid
    StartsOverlap = TRUE
INVARIANTS
    OneLoop
